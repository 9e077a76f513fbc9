----------------------------- MODULE MouseDriver -----------------------------
(***************************************************************************)
(* The PS/2 mouse and its driver (mouse.cpp).  The mouse sends three bytes *)
(* a packet, each with an interrupt; the driver counts them in `offset`    *)
(* and nothing else tells it where a packet starts.                        *)
(*                                                                         *)
(* `received` is buffer[0 .. offset-1]: the other elements of the buffer   *)
(* are written again before they are read.                                 *)
(***************************************************************************)
EXTENDS Integers, Sequences

CONSTANTS
    ByteSize,       \* 256
    Moves,          \* the movement bytes the mouse sends
    Holds,          \* the sets of held buttons it reports, as bits
    Ack             \* 0xFA, the mouse's answer to "enable reporting"

ASSUME ByteAssumption ==
    /\ ByteSize \in Nat /\ ByteSize >= 8
    /\ Moves \subseteq 0 .. ByteSize - 1
    /\ Holds \subseteq 0 .. 7 /\ 0 \in Holds
    /\ Ack \in 0 .. ByteSize - 1

VARIABLES
    received,   \* the bytes of a packet the driver has
    buttons,    \* the driver's buttons: the first byte of the last packet
    held,       \* the mouse's buttons
    wire,       \* what the mouse has still to send
    late        \* Activate read the port before the Ack was there

driverVars == <<received, buttons>>
mouseVars == <<held, wire, late>>

Byte == 0 .. ByteSize - 1

MouseTypeOK ==
    /\ received \in Seq(Byte)
    /\ Len(received) <= 2
    /\ buttons \in Byte /\ held \in Holds
    /\ wire \in Seq(Byte)
    /\ late \in BOOLEAN

\* After Activate: offset and buttons are 0.  The last Read of Activate does
\* not wait for the Ack; an Ack it missed comes with an interrupt later.
MouseInit ==
    /\ received = <<>> /\ buttons = 0
    /\ held = 0
    /\ late \in BOOLEAN
    /\ wire = IF late THEN <<Ack>> ELSE <<>>

\* Buttons are pressed or released, or the mouse is moved.
MouseSends ==
    /\ wire = <<>>
    /\ \E down \in Holds, dx, dy \in Moves :
         /\ held' = down
         /\ wire' = <<down, dx, dy>>
    /\ UNCHANGED <<driverVars, late>>

\* buffer[0] & (1 << i) for button i + 1
Weight == <<1, 2, 4>>
Pressed(byte, button) == (byte \div Weight[button]) % 2 = 1

\* (int8_t) of a byte
Signed(byte) == IF byte >= ByteSize \div 2 THEN byte - ByteSize ELSE byte

\* Mutant of PacketLength: the fourth byte of newer mice.
FourBytes == 4

PacketLength == 3

\* HandleInterrupt; the interrupt comes with bit 0x20 of the status set, as
\* the byte is the mouse's.  Packet is buffer when offset is 0 again.
Packet == Append(received, Head(wire))
PacketComplete == Len(Packet) = PacketLength

TakeByte ==
    /\ wire # <<>>
    /\ wire' = Tail(wire)
    /\ received' = IF PacketComplete THEN <<>> ELSE Packet
    /\ buttons' = IF PacketComplete THEN Packet[1] ELSE buttons
    /\ UNCHANGED <<held, late>>

\* The driver is at the byte of the packet that the mouse sends next, and
\* between packets it knows the buttons, unless the Ack came late: nothing
\* finds the start of a packet again.
InStep ==
    ~late => /\ Len(received \o wire) \in {0, 3}
             /\ received \o wire = <<>> => buttons = held
=============================================================================
