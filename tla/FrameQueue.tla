------------------------------ MODULE FrameQueue ------------------------------
(***************************************************************************)
(* What the network card and its driver promise together about received    *)
(* frames: a queue of bounded length between the wire and the screen.      *)
(* Frames are numbered in the order in which they come in; a frame that    *)
(* finds the queue full is lost, one that is damaged is not shown.         *)
(*                                                                         *)
(* Each frame has its turn, but not its bytes: the buffers overlap, and    *)
(* what is shown may come from frames that wait behind it.                 *)
(***************************************************************************)
EXTENDS Integers, Sequences

CONSTANTS Length,   \* frames the queue holds
          Numbers   \* of frames, in the order in which they come in

VARIABLES queue,    \* frames that came in and had no turn yet, in order
          shown     \* the frames shown, in order: [id, from], where `from` are
                    \* the frames whose bytes were shown in its turn

Init == queue = <<>> /\ shown = <<>>

Arrive(frame) ==
    /\ Len(queue) < Length
    /\ queue' = Append(queue, frame)
    /\ UNCHANGED shown

Waiting == {queue[k].id : k \in DOMAIN queue}

Handle ==
    /\ queue # <<>>
    /\ queue' = Tail(queue)
    /\ IF Head(queue).good
       THEN \E from \in (SUBSET Waiting) \ {{}} :
                shown' = Append(shown, [id |-> Head(queue).id, from |-> from])
       ELSE UNCHANGED shown

\* In order, and no frame twice.
Next == \/ Handle
        \/ \E id \in Numbers, good \in BOOLEAN :
              /\ \A k \in DOMAIN queue : queue[k].id < id
              /\ \A k \in DOMAIN shown : shown[k].id < id
              /\ Arrive([id |-> id, good |-> good])

Spec == Init /\ [][Next]_<<queue, shown>>
=============================================================================
