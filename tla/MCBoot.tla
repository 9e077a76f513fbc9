-------------------------------- MODULE MCBoot --------------------------------
(* Machines of two PCI devices with two functions each, for TLC. *)
EXTENDS Boot

Io(a) == [io |-> TRUE, address |-> a]
Memory(a) == [io |-> FALSE, address |-> a]
Unused == Memory(0)

Function(device, line, many, header, bars) ==
    [device |-> device, line |-> line, multifunction |-> many,
     headertype |-> header, bars |-> bars]

\* A network card on a line of the slave, one on a line of the master, a
\* bridge and a graphics card.
Card1 == Function("am79c973", 11, FALSE, 0, <<Io(1), Memory(2), Unused, Unused, Unused, Unused>>)
Card2 == Function("am79c973", 5, FALSE, 0, <<Unused, Io(0), Unused, Io(2), Unused, Unused>>)
Part(card) == [card EXCEPT !.multifunction = TRUE]
Bridge == Function("bridge", 0, FALSE, 1, <<Unused, Unused, Io(1), Io(1), Io(1), Io(1)>>)
Vga == Function("vga", 10, FALSE, 0, <<Memory(1), Unused, Unused, Unused, Unused, Unused>>)

\* A device with one function that answers for both, one that answers only
\* for what it has, and a device with two functions.
Everywhere(f) == <<f, f>>
Only(f) == <<f, Absent>>
NoDevice == <<Absent, Absent>>
Machine(first, second) ==
    [at \in {0, 1} \X {0, 1} |-> IF at[1] = 0 THEN first[at[2] + 1] ELSE second[at[2] + 1]]

MCBuses == { Machine(Everywhere(Card1), NoDevice),
             Machine(Only(Bridge), <<Part(Vga), Part(Card2)>>),
             Machine(<<Absent, Card2>>, Everywhere(Card1)),
             Machine(Only(Bridge), Only(Vga)) }
=============================================================================
