----------------------------- MODULE TaskManager -----------------------------
(***************************************************************************)
(* The process table and the scheduler of the kernel: class TaskManager of *)
(* multitasking.cpp, driven by the timer interrupt (interrupts.cpp) and by *)
(* the system calls of the running task (syscalls.cpp).                    *)
(*                                                                         *)
(* Every handler runs with interrupts disabled (the descriptor table holds *)
(* interrupt gates only), so one handler is one atomic action; a timer     *)
(* interrupt may come between any two instructions of a program.  A task's *)
(* saved CPU state is abstracted to eax, its result register, the only     *)
(* register through which a handler answers a program.                     *)
(***************************************************************************)
EXTENDS Integers, Sequences, FiniteSets, SequencesExt

CONSTANTS
    MaxNumTasks,     \* MAX_NUM_TASKS, the slots of the process table
    SchedulerType,   \* "RoundRobin" or "PreemptivePriority"
    LifeCycleType    \* which init program the kernel was built with

ASSUME MaxNumTasksAssumption == MaxNumTasks \in Nat \ {0}
ASSUME SchedulerAssumption ==
    SchedulerType \in {"RoundRobin", "PreemptivePriority"}
\* startInitProcess refuses B3 and B4 under round robin.
ASSUME LifeCycleAssumption ==
    /\ LifeCycleType \in {"A", "B1", "B2", "B3", "B4"}
    /\ LifeCycleType \in {"B3", "B4"} => SchedulerType = "PreemptivePriority"

Pids == 0 .. MaxNumTasks - 1
InitPid == 0
NoTask == -1      \* a null Task*, the ppid of init, waitpid's "no child"
AnyChild == -1    \* waitpid(-1)
Pending == -2     \* eax still holds the number of the system call

High == 0
Medium == 1
Low == 2

\* The tick after CollatzAdded at which B3 and B4 act.
FifthInterrupt == 5
\* Bound: the counter is only ever compared with -1 and 5, so it stops at 6.
CounterBound == FifthInterrupt + 1

VARIABLES
    numTasks,                  \* slots handed out so far; never reused
    currentTask,               \* pid on the CPU, -1 before the first tick
    state,                     \* per slot; "Free" is one not handed out
    ppid,
    priority,
    waitingChild,              \* blocked in waitpid ...
    waitingChildId,            \* ... for this pid, or for AnyChild
    parentTookInWait,          \* the parent has had this child's pid
    forkPid,                   \* what sysforkpid answers
    eax,                       \* result register of the saved context
    readyQueue,
    interruptNumAfterCollatz,
    collatzTask,
    blockedTaskForCollatz,
    ignoreSchedule,
    fault                      \* undefined behaviour reached, if any

queueVars == <<numTasks, ppid, priority>>
waitVars == <<waitingChild, waitingChildId, parentTookInWait>>
collatzVars == <<interruptNumAfterCollatz, collatzTask, blockedTaskForCollatz,
                 ignoreSchedule>>
vars == <<numTasks, currentTask, state, ppid, priority, waitingChild,
          waitingChildId, parentTookInWait, forkPid, eax, readyQueue,
          interruptNumAfterCollatz, collatzTask, blockedTaskForCollatz,
          ignoreSchedule, fault>>

TypeOK ==
    /\ numTasks \in 0 .. MaxNumTasks
    /\ currentTask \in Pids \cup {NoTask}
    /\ state \in [Pids -> {"Free", "Ready", "Running", "Blocked", "Terminated"}]
    /\ ppid \in [Pids -> Pids \cup {NoTask}]
    /\ priority \in [Pids -> {High, Medium, Low}]
    /\ waitingChild \in [Pids -> BOOLEAN]
    /\ waitingChildId \in [Pids -> Pids \cup {AnyChild}]
    /\ parentTookInWait \in [Pids -> BOOLEAN]
    /\ forkPid \in [Pids -> Pids \cup {NoTask}]
    /\ eax \in [Pids -> Pids \cup {NoTask, Pending}]
    /\ readyQueue \in Seq(Pids)
    /\ interruptNumAfterCollatz \in -1 .. CounterBound
    /\ collatzTask \in Pids \cup {NoTask}
    /\ blockedTaskForCollatz \in Pids \cup {NoTask}
    /\ ignoreSchedule \in BOOLEAN
    /\ fault \in {"None", "EmptyPop", "NullChild"}

-----------------------------------------------------------------------------
(* The ready queue *)

\* Slots are handed out once and in order, so arrival order is pid order.
arrivalOrder(p) == p + 1

\* Mutant of Before: equal priorities are not ordered by arrival.
BeforeWithoutArrival(p, r, prio) == prio[p] < prio[r]

\* p may pass r in the preemptive-priority queue.
Before(p, r, prio) ==
    \/ prio[p] < prio[r]
    \/ prio[p] = prio[r] /\ arrivalOrder(p) < arrivalOrder(r)

\* The new entry moves up from the tail past the entries it is Before; the
\* ones it leaves in front are those up to the last that it may not pass.
InFront(q, p, prio) ==
    {i \in 1 .. Len(q) : \E j \in i .. Len(q) : ~Before(p, q[j], prio)}

\* Mutant of AddToReadyQueue: round robin puts the task at the head.
AddAtHead(q, p, prio) ==
    IF SchedulerType = "RoundRobin"
    THEN <<p>> \o q
    ELSE InsertAt(q, Cardinality(InFront(q, p, prio)) + 1, p)

AddToReadyQueue(q, p, prio) ==
    IF SchedulerType = "RoundRobin"
    THEN Append(q, p)
    ELSE InsertAt(q, Cardinality(InFront(q, p, prio)) + 1, p)

RemoveFromReadyQueue(q, p) ==
    IF p \in Range(q)
    THEN RemoveAt(q, CHOOSE i \in 1 .. Len(q) :
                        q[i] = p /\ \A j \in 1 .. i - 1 : q[j] # p)
    ELSE q

MakeReady(st, p) == [st EXCEPT ![p] = "Ready"]

\* Schedule() with the states st and the queue q the handler has built: the
\* head runs next.  The pop does not test for an empty queue: it would then
\* run whatever task was left in slot 0 of the array and make queueLen -1.
Schedule(st, q) ==
    \/ /\ q # << >>
       /\ currentTask' = Head(q)
       /\ state' = [st EXCEPT ![Head(q)] = "Running"]
       /\ readyQueue' = Tail(q)
       /\ UNCHANGED fault
    \/ /\ q = << >>
       /\ fault' = "EmptyPop"
       /\ state' = st
       /\ readyQueue' = q
       /\ UNCHANGED currentTask

-----------------------------------------------------------------------------
(* Initial states: the constructor, then startInitProcess's AddTask of init *)

Init ==
    /\ numTasks = 1
    /\ currentTask = NoTask
    /\ state = [p \in Pids |-> IF p = InitPid THEN "Ready" ELSE "Free"]
    /\ ppid = [p \in Pids |-> NoTask]
    /\ priority = [p \in Pids |-> High]
    /\ waitingChild = [p \in Pids |-> FALSE]
    /\ waitingChildId = [p \in Pids |-> AnyChild]
    /\ parentTookInWait = [p \in Pids |-> FALSE]
    /\ forkPid = [p \in Pids |-> NoTask]
    /\ eax = [p \in Pids |-> 0]
    /\ readyQueue = <<InitPid>>
    /\ interruptNumAfterCollatz = -1
    \* The constructor leaves it unset: null, or the address of some task.
    /\ collatzTask \in {NoTask, MaxNumTasks - 1}
    /\ blockedTaskForCollatz = NoTask
    /\ ignoreSchedule = FALSE
    /\ fault = "None"

-----------------------------------------------------------------------------
(* The timer interrupt: Schedule(cpustate) *)

TicksCounted ==
    IF interruptNumAfterCollatz \in {-1, CounterBound}
    THEN interruptNumAfterCollatz
    ELSE interruptNumAfterCollatz + 1

\* Mutant of AtFifthInterrupt: "==" became ">=".
FromFifthInterrupt(lifeCycle) ==
    LifeCycleType = lifeCycle /\ TicksCounted >= FifthInterrupt

AtFifthInterrupt(lifeCycle) ==
    LifeCycleType = lifeCycle /\ TicksCounted = FifthInterrupt

\* The interrupted task goes back to the queue and the head is dispatched.
Preempt(st, q, prio) ==
    IF currentTask = NoTask
    THEN Schedule(st, q)
    ELSE Schedule(MakeReady(st, currentTask),
                  AddToReadyQueue(q, currentTask, prio))

\* B4: on the fifth interrupt collatz becomes High, wherever it is.
RaiseCollatz ==
    LET prio == [priority EXCEPT ![collatzTask] = High]
        q == RemoveFromReadyQueue(readyQueue, collatzTask)
    IN  /\ AtFifthInterrupt("B4")
        /\ priority' = prio
        /\ Preempt(MakeReady(state, collatzTask),
                   AddToReadyQueue(q, collatzTask, prio), prio)
        /\ UNCHANGED blockedTaskForCollatz

\* Mutant of ResumeBlocked: the pointer to the blocked task is not reset.
ResumeAndKeep ==
    /\ AtFifthInterrupt("B3")
    /\ blockedTaskForCollatz # NoTask
    /\ Preempt(MakeReady(state, blockedTaskForCollatz),
               AddToReadyQueue(readyQueue, blockedTaskForCollatz, priority),
               priority)
    /\ UNCHANGED <<priority, blockedTaskForCollatz>>

\* B3: on the fifth interrupt the task blocked for collatz is resumed.
ResumeBlocked ==
    /\ AtFifthInterrupt("B3")
    /\ blockedTaskForCollatz # NoTask
    /\ Preempt(MakeReady(state, blockedTaskForCollatz),
               AddToReadyQueue(readyQueue, blockedTaskForCollatz, priority),
               priority)
    /\ blockedTaskForCollatz' = NoTask
    /\ UNCHANGED priority

PlainTick ==
    /\ ~AtFifthInterrupt("B4")
    /\ ~(AtFifthInterrupt("B3") /\ blockedTaskForCollatz # NoTask)
    /\ Preempt(state, readyQueue, priority)
    /\ UNCHANGED <<priority, blockedTaskForCollatz>>

\* Mutant of TimerInterrupt: ignoreSchedule is not looked at.
TickNeverIgnored ==
    /\ fault = "None"
    /\ interruptNumAfterCollatz' = TicksCounted
    /\ RaiseCollatz \/ ResumeBlocked \/ PlainTick
    /\ UNCHANGED <<numTasks, ppid, waitVars, forkPid, eax, collatzTask,
                   ignoreSchedule>>

\* A tick that finds ignoreSchedule set (B4 only) changes nothing.
TimerInterrupt ==
    /\ fault = "None"
    /\ ~(LifeCycleType = "B4" /\ ignoreSchedule)
    /\ interruptNumAfterCollatz' = TicksCounted
    /\ RaiseCollatz \/ ResumeBlocked \/ PlainTick
    /\ UNCHANGED <<numTasks, ppid, waitVars, forkPid, eax, collatzTask,
                   ignoreSchedule>>

-----------------------------------------------------------------------------
(* The system calls of the running task *)

Calling == fault = "None" /\ currentTask # NoTask

HasFreeSlot == numTasks < MaxNumTasks

\* Mutant of ForkPids: the child keeps the value its slot was built with.
ForkPidsOfParentOnly(parent, child) == [forkPid EXCEPT ![parent] = child]

ForkPids(parent, child) == [forkPid EXCEPT ![parent] = child, ![child] = 0]

\* AddTask copies the caller into the next slot.  With the table full it
\* answers null, which Fork then dereferences.
Fork ==
    LET parent == currentTask
        child == numTasks
        prio == [priority EXCEPT ![child] = priority[parent]]
    IN  /\ Calling
        /\ \/ /\ HasFreeSlot
              /\ numTasks' = numTasks + 1
              /\ priority' = prio
              /\ ppid' = [ppid EXCEPT ![child] = parent]
              /\ state' = MakeReady(state, child)
              /\ readyQueue' = AddToReadyQueue(readyQueue, child, prio)
              /\ forkPid' = ForkPids(parent, child)
              /\ eax' = [eax EXCEPT ![parent] = Pending, ![child] = Pending]
              /\ UNCHANGED fault
           \/ /\ ~HasFreeSlot
              /\ fault' = "NullChild"
              /\ UNCHANGED <<numTasks, priority, ppid, state, readyQueue,
                             forkPid, eax>>
        /\ UNCHANGED <<currentTask, waitVars, collatzVars>>

ForkPid ==
    /\ Calling
    /\ eax' = [eax EXCEPT ![currentTask] = forkPid[currentTask]]
    /\ UNCHANGED <<numTasks, currentTask, state, ppid, priority, waitVars,
                   forkPid, readyQueue, collatzVars, fault>>

\* Reset: a fresh context that starts the program at its entry point.
Execve ==
    /\ Calling
    /\ eax' = [eax EXCEPT ![currentTask] = 0]
    /\ UNCHANGED <<numTasks, currentTask, state, ppid, priority, waitVars,
                   forkPid, readyQueue, collatzVars, fault>>

\* Mutant of Children: the scan stops one short of the last task.
ChildrenButLast(p, pid) ==
    {c \in 0 .. numTasks - 2 : /\ ~parentTookInWait[c]
                               /\ ppid[c] = p
                               /\ pid \in {AnyChild, c}}

\* Mutant of Children: a child already waited for counts again.
ChildrenTakenToo(p, pid) ==
    {c \in 0 .. numTasks - 1 : ppid[c] = p /\ pid \in {AnyChild, c}}

\* The children that waitpid(pid) called by p looks at.
Children(p, pid) ==
    {c \in 0 .. numTasks - 1 : /\ ~parentTookInWait[c]
                               /\ ppid[c] = p
                               /\ pid \in {AnyChild, c}}

TerminatedChildren(p, pid) ==
    {c \in Children(p, pid) : state[c] = "Terminated"}

\* The scan stops at the first terminated child.
WaitpidReaps(pid) ==
    \E c \in TerminatedChildren(currentTask, pid) :
        /\ \A d \in TerminatedChildren(currentTask, pid) : c <= d
        /\ parentTookInWait' = [parentTookInWait EXCEPT ![c] = TRUE]
        /\ eax' = [eax EXCEPT ![currentTask] = c]
        /\ UNCHANGED <<currentTask, state, waitingChild, waitingChildId,
                       readyQueue, fault>>

WaitpidFails(pid) ==
    /\ Children(currentTask, pid) = {}
    /\ eax' = [eax EXCEPT ![currentTask] = NoTask]
    /\ waitingChild' = [waitingChild EXCEPT ![currentTask] = FALSE]
    /\ UNCHANGED <<currentTask, state, waitingChildId, parentTookInWait,
                   readyQueue, fault>>

WaitpidBlocks(pid) ==
    /\ Children(currentTask, pid) # {}
    /\ TerminatedChildren(currentTask, pid) = {}
    /\ waitingChild' = [waitingChild EXCEPT ![currentTask] = TRUE]
    /\ waitingChildId' = [waitingChildId EXCEPT ![currentTask] = pid]
    /\ eax' = [eax EXCEPT ![currentTask] = Pending]
    /\ Schedule([state EXCEPT ![currentTask] = "Blocked"], readyQueue)
    /\ UNCHANGED parentTookInWait

Waitpid(pid) ==
    /\ Calling
    /\ WaitpidReaps(pid) \/ WaitpidFails(pid) \/ WaitpidBlocks(pid)
    /\ UNCHANGED <<numTasks, ppid, priority, forkPid, collatzVars>>

\* Mutant of WakesParent: waitingChild is not looked at.
WakesAnyParent(p) ==
    /\ ppid[p] # NoTask
    /\ waitingChildId[ppid[p]] \in {AnyChild, p}

\* Mutant of WakesParent: a wait for any child is forgotten.
WakesExactWaiter(p) ==
    /\ ppid[p] # NoTask
    /\ waitingChild[ppid[p]]
    /\ waitingChildId[ppid[p]] = p

\* Mutant of WakesParent: a wait for one child is forgotten.
WakesAnyWaiter(p) ==
    /\ ppid[p] # NoTask
    /\ waitingChild[ppid[p]]
    /\ waitingChildId[ppid[p]] = AnyChild

\* The parent p's exit wakes: one blocked in waitpid for p or for any child.
WakesParent(p) ==
    /\ ppid[p] # NoTask
    /\ waitingChild[ppid[p]]
    /\ waitingChildId[ppid[p]] \in {AnyChild, p}

\* collatz resumes the task blocked for it (the pointer to it stays set).
ResumesBlocked(p) == collatzTask = p /\ blockedTaskForCollatz # NoTask

Exit ==
    LET p == currentTask
        ended == [state EXCEPT ![p] = "Terminated"]
        woken == IF WakesParent(p) THEN MakeReady(ended, ppid[p]) ELSE ended
        queued == IF WakesParent(p)
                  THEN AddToReadyQueue(readyQueue, ppid[p], priority)
                  ELSE readyQueue
    IN  /\ Calling
        /\ IF WakesParent(p)
           THEN /\ parentTookInWait' = [parentTookInWait EXCEPT ![p] = TRUE]
                /\ waitingChild' = [waitingChild EXCEPT ![ppid[p]] = FALSE]
                /\ eax' = [eax EXCEPT ![ppid[p]] = p]
           ELSE UNCHANGED <<parentTookInWait, waitingChild, eax>>
        /\ IF ResumesBlocked(p)
           THEN /\ collatzTask' = NoTask
                /\ Schedule(MakeReady(woken, blockedTaskForCollatz),
                            AddToReadyQueue(queued, blockedTaskForCollatz,
                                            priority))
           ELSE /\ UNCHANGED collatzTask
                /\ Schedule(woken, queued)
        /\ UNCHANGED <<numTasks, ppid, priority, waitingChildId, forkPid,
                       interruptNumAfterCollatz, blockedTaskForCollatz,
                       ignoreSchedule>>

BlockForCollatz ==
    /\ Calling
    /\ blockedTaskForCollatz' = currentTask
    /\ eax' = [eax EXCEPT ![currentTask] = Pending]
    /\ Schedule([state EXCEPT ![currentTask] = "Blocked"], readyQueue)
    /\ UNCHANGED <<numTasks, ppid, priority, waitVars, forkPid, collatzTask,
                   interruptNumAfterCollatz, ignoreSchedule>>

\* Removes and re-inserts the last task, whatever state it is in.
SetLastTaskPriority(newPriority) ==
    LET last == numTasks - 1
        prio == [priority EXCEPT ![last] = newPriority]
        q == RemoveFromReadyQueue(readyQueue, last)
    IN  /\ Calling
        /\ priority' = prio
        /\ state' = MakeReady(state, last)
        /\ readyQueue' = AddToReadyQueue(q, last, prio)
        /\ eax' = [eax EXCEPT ![currentTask] = Pending]
        /\ UNCHANGED <<numTasks, currentTask, ppid, waitVars, forkPid,
                       collatzVars, fault>>

CollatzAdded ==
    /\ Calling
    /\ collatzTask' = numTasks - 1
    /\ interruptNumAfterCollatz' = 0
    /\ eax' = [eax EXCEPT ![currentTask] = Pending]
    /\ UNCHANGED <<numTasks, currentTask, state, ppid, priority, waitVars,
                   forkPid, readyQueue, blockedTaskForCollatz, ignoreSchedule,
                   fault>>

\* Called directly by initB4, not through an interrupt.
SetIgnoreSchedule(ignore) ==
    /\ Calling
    /\ ignoreSchedule' = ignore
    /\ UNCHANGED <<numTasks, currentTask, state, ppid, priority, waitVars,
                   forkPid, eax, readyQueue, interruptNumAfterCollatz,
                   collatzTask, blockedTaskForCollatz, fault>>

-----------------------------------------------------------------------------
(***************************************************************************)
(* The process calls, made by tasks in any order.  Two things hold of      *)
(* every program in kernel.cpp and are assumed of the callers: init never  *)
(* exits (each init program ends in while(1)), and a priority is set right *)
(* after a fork, under PreemptivePriority, while the new task is Ready.    *)
(* The calls for collatz belong to two scripts and are in LifeCycles.      *)
(***************************************************************************)
ExitNotInit == currentTask # InitPid /\ Exit

PrioritiseNewTask ==
    /\ SchedulerType = "PreemptivePriority"
    /\ state[numTasks - 1] = "Ready"
    /\ \E newPriority \in {High, Medium, Low} : SetLastTaskPriority(newPriority)

Next ==
    \/ TimerInterrupt
    \/ Fork
    \/ ForkPid
    \/ Execve
    \/ \E pid \in Pids \cup {AnyChild} : Waitpid(pid)
    \/ ExitNotInit
    \/ PrioritiseNewTask

\* The timer chip raises its interrupt for ever and no program masks it.
Fairness == WF_vars(TimerInterrupt)

Spec == Init /\ [][Next]_vars /\ Fairness

-----------------------------------------------------------------------------
(* Properties *)

\* The queue holds each Ready task exactly once and nothing else, and the
\* task on the CPU is the only Running one: AddToReadyQueue never queues a
\* task twice and no handler changes a state without the queue.
ReadyQueueExact ==
    fault # "EmptyPop" =>
        /\ IsInjective(readyQueue)
        /\ Range(readyQueue) = {p \in DOMAIN state : state[p] = "Ready"}
        /\ {p \in DOMAIN state : state[p] = "Running"} = {currentTask} \ {NoTask}

\* "We know there is at least one element before calling this method" (the
\* comment in PopFromReadyQueue): no wait, exit or block empties the queue.
PopFindsTask == fault # "EmptyPop"

\* No wakeup is lost: a task that waits is Blocked, still has a child that
\* can end its wait, and no such child has terminated already.
NoLostWakeup ==
    \A p \in Pids : waitingChild[p] =>
        /\ state[p] = "Blocked"
        /\ Children(p, waitingChildId[p]) # {}
        /\ TerminatedChildren(p, waitingChildId[p]) = {}

\* p is given the pid of its child c, which has terminated, for the first
\* and the last time.
Delivers(p, c) ==
    /\ c \in Pids /\ ppid[c] = p
    /\ state'[c] = "Terminated"
    /\ ~parentTookInWait[c] /\ parentTookInWait'[c]
    /\ eax'[p] = c

\* One step's deliveries.
DeliversOnce ==
    /\ \A c \in Pids : parentTookInWait'[c] # parentTookInWait[c] =>
          Delivers(ppid[c], c)
    /\ \A p \in Pids : waitingChild[p] /\ state'[p] # "Blocked" =>
          Delivers(p, eax'[p])
    /\ \A pid \in Pids \cup {AnyChild} :
          /\ Waitpid(pid)
          /\ state'[currentTask] = "Running"
          /\ eax'[currentTask] # NoTask
          => Delivers(currentTask, eax'[currentTask])

\* A terminated child is delivered to its parent exactly once, by waitpid or
\* by its own exit: a child is marked as taken only when its parent gets its
\* pid, a waiter resumes only with such a pid, and a waitpid that returns at
\* once answers such a pid or -1.
DeliveredOnce == [][DeliversOnce]_vars

\* The task a step puts on the CPU is the most urgent Ready one, and the
\* oldest of the equally urgent.
DispatchesBest ==
    TimerInterrupt \/ currentTask' # currentTask =>
        \A p \in Pids : state'[p] = "Ready" =>
            \/ priority'[currentTask'] < priority'[p]
            \/ /\ priority'[currentTask'] = priority'[p]
               /\ currentTask' < p

\* Under PreemptivePriority, whenever the kernel dispatches, nothing left in
\* the queue is more urgent, or as urgent and older: the insertion keeps the
\* queue in order through forks, wake-ups and changes of priority.
PicksBest == [][DispatchesBest]_vars

\* Round robin starves nobody, whatever the other tasks fork and wait for.
EveryReadyTaskRuns ==
    \A p \in Pids :
        state[p] = "Ready" ~> (state[p] = "Running" \/ fault # "None")
=============================================================================
