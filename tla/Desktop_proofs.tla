---------------------------- MODULE Desktop_proofs ----------------------------
(***************************************************************************)
(* Theorems about the mouse driver and the desktop, for every number, size *)
(* and place of the windows, every screen and all movements:               *)
(*   DriverInStep      the driver does not lose the start of a packet;     *)
(*   TopWindowDragged  no release of the button escapes the front window;  *)
(*   GripNeverLost     the grabbed window goes where the pointer goes;     *)
(*   ClickReachesSeen  a drawn screen shows what a click reaches.          *)
(***************************************************************************)
EXTENDS Desktop, SequenceTheorems, WellFoundedInduction, TLAPS

-----------------------------------------------------------------------------
(* The packet of the mouse *)

\* The bytes of the packet in transit, the driver's first.
PacketStarts ==
    /\ Len(received) + Len(wire) = 3 =>
          held = IF received = <<>> THEN wire[1] ELSE received[1]
    /\ Len(received) + Len(wire) = 0 => buttons = held
MouseInv ==
    /\ MouseTypeOK
    /\ ~late => Len(received) + Len(wire) \in {0, 3} /\ PacketStarts

LEMMA WireNumbers ==
    ASSUME MouseTypeOK
    PROVE  /\ Len(received) \in Nat /\ Len(received) <= 2 /\ Len(wire) \in Nat
           /\ received = <<>> <=> Len(received) = 0
           /\ wire = <<>> <=> Len(wire) = 0
BY EmptySeq, LenProperties DEF MouseTypeOK

\* What TakeByte does to the two sequences.
LEMMA TakenByte ==
    ASSUME MouseTypeOK, wire # <<>>
    PROVE  /\ Head(wire) \in Byte /\ Head(wire) = wire[1]
           /\ Tail(wire) \in Seq(Byte) /\ Len(Tail(wire)) = Len(wire) - 1
           /\ Packet \in Seq(Byte) /\ Len(Packet) = Len(received) + 1
           /\ \A i \in 1 .. Len(received) : Packet[i] = received[i]
           /\ Packet[Len(received) + 1] = wire[1]
<1>1. wire \in Seq(Byte) /\ received \in Seq(Byte)
  BY DEF MouseTypeOK
<1>2. /\ Head(wire) \in Byte
      /\ Tail(wire) \in Seq(Byte) /\ Len(Tail(wire)) = Len(wire) - 1
  BY <1>1, HeadTailProperties
<1>3. Head(wire) = wire[1]
  OBVIOUS
<1>4. ASSUME NEW b \in Byte
      PROVE  /\ Append(received, b) \in Seq(Byte)
             /\ Len(Append(received, b)) = Len(received) + 1
             /\ \A i \in 1 .. Len(received) : Append(received, b)[i] = received[i]
             /\ Append(received, b)[Len(received) + 1] = b
  BY <1>1, AppendProperties
<1> QED
  BY Zenon, <1>2, <1>3, <1>4 DEF Packet

\* The first byte of a packet is the buttons', and is in the driver's hands.
LEMMA WholePacket ==
    ASSUME MouseTypeOK, wire # <<>>, PacketComplete
    PROVE  /\ Len(received) = 2
           /\ Packet[1] \in Byte /\ Packet[2] \in Byte /\ Packet[3] \in Byte
           /\ Packet[1] = received[1]
<1>1. /\ Packet \in Seq(Byte) /\ Len(Packet) = Len(received) + 1
      /\ \A i \in 1 .. Len(received) : Packet[i] = received[i]
  BY TakenByte
<1>2. Len(Packet) = 3 /\ Len(received) \in Nat
  BY WireNumbers DEF PacketComplete, PacketLength
<1>3. Len(received) = 2
  <2>1. Len(received) \in Nat /\ Len(received) + 1 = 3
    BY <1>1, <1>2
  <2>2. \A n \in Nat : n + 1 = 3 => n = 2
    BY SMT
  <2> QED
    BY <2>1, <2>2
<1>4. 1 \in 1 .. 3 /\ 2 \in 1 .. 3 /\ 3 \in 1 .. 3 /\ 1 \in 1 .. 2
  BY SMT
<1>5. \A i \in 1 .. 3 : Packet[i] \in Byte
  BY <1>1, <1>2, LenProperties
<1> QED
  BY <1>1, <1>3, <1>4, <1>5

LEMMA TakeByteKeeps == ASSUME MouseInv, TakeByte PROVE MouseInv'
<1>1. /\ wire # <<>> /\ wire' = Tail(wire)
      /\ received' = IF PacketComplete THEN <<>> ELSE Packet
      /\ buttons' = IF PacketComplete THEN Packet[1] ELSE buttons
      /\ held' = held /\ late' = late
      /\ MouseTypeOK
  BY DEF TakeByte, MouseInv
<1>2. /\ Len(received) \in Nat /\ Len(received) <= 2 /\ Len(wire) \in Nat
      /\ Len(wire) # 0 /\ (received = <<>> <=> Len(received) = 0)
  BY <1>1, WireNumbers
<1>3. /\ wire' \in Seq(Byte) /\ Len(wire') = Len(wire) - 1
      /\ Packet \in Seq(Byte) /\ Len(Packet) = Len(received) + 1
      /\ \A i \in 1 .. Len(received) : Packet[i] = received[i]
      /\ Packet[Len(received) + 1] = wire[1]
  BY <1>1, TakenByte
<1>4. /\ buttons \in Byte /\ held \in Holds /\ late \in BOOLEAN
  BY <1>1 DEF MouseTypeOK
<1>5. CASE PacketComplete
  <2>1. /\ Len(received) = 2 /\ Packet[1] \in Byte /\ Packet[1] = received[1]
    BY <1>1, <1>5, WholePacket
  <2>2. received' = <<>> /\ Len(received') = 0 /\ received' \in Seq(Byte)
    BY <1>1, <1>5
  <2>3. MouseTypeOK'
    <3>1. Len(received') <= 2
      BY SMT, <2>2
    <3> QED
      BY <1>1, <1>3, <1>4, <1>5, <2>1, <2>2, <3>1 DEF MouseTypeOK
  <2>4. ASSUME ~late PROVE Len(wire) = 1 /\ held = received[1]
    <3>1. Len(received) + Len(wire) \in {0, 3} /\ PacketStarts
      BY <2>4 DEF MouseInv
    <3>2. Len(received) + Len(wire) = 3 /\ Len(wire) = 1 /\ Len(received) # 0
      <4>1. /\ Len(received) = 2 /\ Len(wire) \in Nat
            /\ Len(received) + Len(wire) = 0 \/ Len(received) + Len(wire) = 3
        BY <1>2, <2>1, <3>1
      <4>2. \A n \in Nat : 2 + n = 0 \/ 2 + n = 3 => n = 1 /\ 2 + n = 3
        BY SMT
      <4>3. 2 + Len(wire) = 0 \/ 2 + Len(wire) = 3
        BY Zenon, <4>1
      <4>4. Len(wire) = 1 /\ 2 + Len(wire) = 3
        BY <4>1, <4>2, <4>3
      <4>5. 2 # 0
        BY SMT
      <4> QED
        BY Zenon, <4>1, <4>4, <4>5
    <3> QED
      BY <1>2, <3>1, <3>2 DEF PacketStarts
  <2>5. ASSUME ~late PROVE Len(received') + Len(wire') = 0 /\ buttons' = held'
    <3>1. Len(wire') = 0 /\ Len(received') + Len(wire') = 0
      <4>1. Len(wire') = Len(wire) - 1 /\ Len(wire) = 1 /\ Len(received') = 0
        BY <1>3, <2>2, <2>4, <2>5
      <4> QED
        BY SMT, <4>1
    <3> QED
      BY <1>1, <1>5, <2>1, <2>4, <2>5, <3>1
  <2> QED
    BY <1>1, <2>3, <2>5 DEF MouseInv, PacketStarts
<1>6. CASE ~PacketComplete
  <2>1. received' = Packet /\ buttons' = buttons
    BY <1>1, <1>6
  <2>2. Len(received') = Len(received) + 1 /\ Len(received') # 3
    BY <1>3, <1>6, <2>1 DEF PacketComplete, PacketLength
  <2>3. Len(received') <= 2 /\ Len(received') + Len(wire') = Len(received) + Len(wire)
    BY SMT, <1>2, <1>3, <2>2
  <2>4. MouseTypeOK'
    BY <1>1, <1>3, <1>4, <2>1, <2>3 DEF MouseTypeOK
  <2>5. received' # <<>> /\ Len(received') + Len(wire') # 0
    <3>1. Len(received') # 0 /\ Len(received') + Len(wire') # 0
      BY SMT, <1>2, <1>3, <2>2
    <3> QED
      BY <3>1
  <2>6. received'[1] = IF received = <<>> THEN wire[1] ELSE received[1]
    <3>1. CASE received = <<>>
      <4>1. Len(received) + 1 = 1
        BY SMT, <1>2, <3>1
      <4> QED
        BY <1>3, <2>1, <3>1, <4>1
    <3>2. CASE received # <<>>
      <4>1. 1 \in 1 .. Len(received)
        BY SMT, <1>2, <3>2
      <4> QED
        BY <1>3, <2>1, <3>2, <4>1
    <3> QED
      BY <3>1, <3>2
  <2> QED
    BY <1>1, <2>1, <2>3, <2>4, <2>5, <2>6 DEF MouseInv, PacketStarts
<1> QED
  BY <1>5, <1>6

LEMMA MouseSendsKeeps == ASSUME MouseInv, MouseSends PROVE MouseInv'
<1>1. PICK down \in Holds, dx \in Moves, dy \in Moves :
        held' = down /\ wire' = <<down, dx, dy>>
  BY DEF MouseSends
<1>2. /\ wire = <<>> /\ received' = received /\ buttons' = buttons /\ late' = late
      /\ MouseTypeOK
  BY DEF MouseSends, driverVars, MouseInv
<1>3. down \in Byte /\ dx \in Byte /\ dy \in Byte
  <2>1. \A n \in 0 .. 7 : n \in 0 .. ByteSize - 1
    BY SMT, ByteAssumption
  <2> QED
    BY <2>1, ByteAssumption DEF Byte
<1>4. wire' \in Seq(Byte) /\ Len(wire') = 3 /\ wire'[1] = held'
  BY <1>1, <1>3
<1>5. Len(received) \in Nat /\ Len(received) <= 2 /\ Len(wire) = 0
      /\ (received = <<>> <=> Len(received) = 0)
  BY <1>2, WireNumbers
<1>6. MouseTypeOK'
  BY <1>1, <1>2, <1>4 DEF MouseTypeOK
<1>7. ASSUME ~late PROVE received = <<>> /\ Len(received') + Len(wire') = 3
  <2>1. Len(received) + Len(wire) \in {0, 3}
    BY <1>7 DEF MouseInv
  <2>2. Len(received) = 0
    <3>1. /\ Len(received) \in Nat /\ Len(received) <= 2 /\ Len(wire) = 0
          /\ Len(received) + Len(wire) = 0 \/ Len(received) + Len(wire) = 3
      BY <1>5, <2>1
    <3>2. \A n \in Nat : n <= 2 /\ (n + 0 = 0 \/ n + 0 = 3) => n = 0
      BY SMT
    <3> QED
      BY <3>1, <3>2
  <2> QED
    BY SMT, <1>2, <1>4, <1>5, <2>2
<1> QED
  BY <1>2, <1>4, <1>6, <1>7 DEF MouseInv, PacketStarts

LEMMA InitMouseInv == MouseInit => MouseInv
<1> SUFFICES ASSUME MouseInit PROVE MouseInv
  OBVIOUS
<1>1. /\ received = <<>> /\ buttons = 0 /\ held = 0 /\ late \in BOOLEAN
      /\ wire = IF late THEN <<Ack>> ELSE <<>>
  BY DEF MouseInit
<1>2. 0 \in Byte /\ Ack \in Byte /\ 0 \in Holds
  BY SMT, ByteAssumption DEF Byte
<1>3. Len(<<>>) = 0 /\ Len(<<>>) <= 2 /\ <<>> \in Seq(Byte) /\ <<Ack>> \in Seq(Byte)
  BY <1>2
<1>4. MouseTypeOK
  BY <1>1, <1>2, <1>3 DEF MouseTypeOK
<1>5. ASSUME ~late PROVE Len(received) + Len(wire) = 0
  BY <1>1, <1>3, <1>5
<1> QED
  BY <1>1, <1>4, <1>5 DEF MouseInv, PacketStarts

-----------------------------------------------------------------------------
(* The desktop *)

Desktops == [pointer : Pixels, place : [Windows -> Points],
             dragging : [Windows -> BOOLEAN]]

\* At most one window is hit.
LEMMA OneHit ==
    ASSUME NEW place, NEW p, NEW w \in Windows, NEW v \in Windows,
           Hits(place, p, w), Hits(place, p, v)
    PROVE  w = v
<1>1. w <= v /\ v <= w
  BY DEF Hits
<1>2. w \in Nat /\ v \in Nat
  BY SMT, DesktopAssumption DEF Windows
<1> QED
  BY SMT, <1>1, <1>2

\* The window in front is hit wherever it is.
LEMMA TopIsHit ==
    ASSUME NEW place, NEW p
    PROVE  /\ Top \in Windows
           /\ Hits(place, p, Top) <=> ContainsCoordinate(place, Top, p)
<1>1. Top \in Windows /\ \A v \in Windows : Top <= v
  BY SMT, DesktopAssumption DEF Top, Windows
<1> QED
  BY <1>1 DEF Hits, Containing

LEMMA PressedWindow ==
    ASSUME NEW d \in Desktops, NEW button
    PROVE  /\ OnMouseDown(d, button) \in Desktops
           /\ OnMouseDown(d, button).pointer = d.pointer
           /\ OnMouseDown(d, button).place = d.place
           /\ \A w \in Windows : OnMouseDown(d, button).dragging[w] =
                 IF Hits(d.place, d.pointer, w) THEN button = 1 ELSE d.dragging[w]
<1> DEFINE drag == [w \in Windows |-> IF Hits(d.place, d.pointer, w) THEN button = 1
                                      ELSE d.dragging[w]]
<1>1. drag \in [Windows -> BOOLEAN]
  BY DEF Desktops
<1>2. \A w \in Windows : drag[w] = IF Hits(d.place, d.pointer, w) THEN button = 1
                                   ELSE d.dragging[w]
  OBVIOUS
<1>3. OnMouseDown(d, button) = [d EXCEPT !.dragging = drag]
  BY DEF OnMouseDown
<1> HIDE DEF drag
<1>4. [d EXCEPT !.dragging = drag] \in Desktops
  BY <1>1 DEF Desktops
<1>5. /\ [d EXCEPT !.dragging = drag].pointer = d.pointer
      /\ [d EXCEPT !.dragging = drag].place = d.place
      /\ [d EXCEPT !.dragging = drag].dragging = drag
  BY DEF Desktops
<1> QED
  BY Zenon, <1>2, <1>3, <1>4, <1>5

LEMMA ReleasedWindow ==
    ASSUME NEW d \in Desktops, NEW button
    PROVE  /\ OnMouseUp(d, button) \in Desktops
           /\ OnMouseUp(d, button).pointer = d.pointer
           /\ OnMouseUp(d, button).place = d.place
           /\ \A w \in Windows : OnMouseUp(d, button).dragging[w] =>
                 d.dragging[w] /\ ~Hits(d.place, d.pointer, w)
<1> DEFINE drag == [w \in Windows |-> IF Hits(d.place, d.pointer, w) THEN FALSE
                                      ELSE d.dragging[w]]
<1>1. drag \in [Windows -> BOOLEAN]
  BY DEF Desktops
<1>2. \A w \in Windows : drag[w] =>
        d.dragging[w] /\ ~Hits(d.place, d.pointer, w)
  OBVIOUS
<1>3. OnMouseUp(d, button) = [d EXCEPT !.dragging = drag]
  BY DEF OnMouseUp
<1> HIDE DEF drag
<1>4. [d EXCEPT !.dragging = drag] \in Desktops
  BY <1>1 DEF Desktops
<1>5. /\ [d EXCEPT !.dragging = drag].pointer = d.pointer
      /\ [d EXCEPT !.dragging = drag].place = d.place
      /\ [d EXCEPT !.dragging = drag].dragging = drag
  BY DEF Desktops
<1> QED
  BY Zenon, <1>2, <1>3, <1>4, <1>5

\* Window::OnMouseMove of one child.
LEMMA DraggedPlaces ==
    ASSUME NEW d \in Desktops, NEW moved, NEW dx \in Int, NEW dy \in Int
    PROVE  /\ Dragged(d, moved, dx, dy) \in [Windows -> Points]
           /\ \A w \in Windows :
                 /\ w \in moved /\ d.dragging[w] =>
                       /\ Dragged(d, moved, dx, dy)[w].x = d.place[w].x + dx
                       /\ Dragged(d, moved, dx, dy)[w].y = d.place[w].y + dy
                 /\ ~(w \in moved /\ d.dragging[w]) =>
                       Dragged(d, moved, dx, dy)[w] = d.place[w]
<1>1. \A w \in Windows : d.place[w] \in Points
  BY DEF Desktops
<1>2. \A w \in Windows : [x |-> d.place[w].x + dx, y |-> d.place[w].y + dy] \in Points
  <2> TAKE w \in Windows
  <2>1. d.place[w].x \in Int /\ d.place[w].y \in Int
    BY <1>1 DEF Points
  <2>2. d.place[w].x + dx \in Int /\ d.place[w].y + dy \in Int
    BY SMT, <2>1
  <2> QED
    BY <2>2 DEF Points
<1> QED
  BY <1>1, <1>2 DEF Dragged

\* No window ever goes far from the screen: one that moves is under the pointer
\* before the pointer's movement or after it.
NearScreen(c, size, limit) == -(size + limit) < c /\ c < 2 * limit
Near(place) ==
    \A w \in Windows : /\ NearScreen(place[w].x, Size[w].w, Width)
                       /\ NearScreen(place[w].y, Size[w].h, Height)

LEMMA DragStaysNear ==
    ASSUME NEW c \in Int, NEW size \in Nat, NEW limit \in Nat,
           NEW old \in 0 .. limit - 1, NEW new \in 0 .. limit - 1, NEW s \in Int,
           s = new - old,
           \/ c <= old /\ old < c + size
           \/ c <= new /\ new < c + size
    PROVE  NearScreen(c + s, size, limit)
BY SMT DEF NearScreen

LEMMA DragsStayNear ==
    ASSUME NEW w \in Windows, NEW place \in [Windows -> Points],
           NEW old \in Pixels, NEW new \in Pixels, NEW after \in Points,
           ContainsCoordinate(place, w, old) \/ ContainsCoordinate(place, w, new),
           after.x = place[w].x + (new.x - old.x),
           after.y = place[w].y + (new.y - old.y)
    PROVE  /\ NearScreen(after.x, Size[w].w, Width)
           /\ NearScreen(after.y, Size[w].h, Height)
<1>1. /\ Size[w].w \in Nat /\ Size[w].h \in Nat /\ Width \in Nat /\ Height \in Nat
      /\ place[w].x \in Int /\ place[w].y \in Int
      /\ old.x \in 0 .. Width - 1 /\ new.x \in 0 .. Width - 1
      /\ old.y \in 0 .. Height - 1 /\ new.y \in 0 .. Height - 1
  BY DesktopAssumption DEF Points, Pixels
<1>2. new.x - old.x \in Int /\ new.y - old.y \in Int
  BY SMT, <1>1
<1>3. /\ \/ place[w].x <= old.x /\ old.x < place[w].x + Size[w].w
         \/ place[w].x <= new.x /\ new.x < place[w].x + Size[w].w
      /\ \/ place[w].y <= old.y /\ old.y < place[w].y + Size[w].h
         \/ place[w].y <= new.y /\ new.y < place[w].y + Size[w].h
  BY DEF ContainsCoordinate
<1>4. NearScreen(place[w].x + (new.x - old.x), Size[w].w, Width)
  BY <1>1, <1>2, <1>3, DragStaysNear
<1>5. NearScreen(place[w].y + (new.y - old.y), Size[w].h, Height)
  BY <1>1, <1>2, <1>3, DragStaysNear
<1> QED
  BY <1>4, <1>5

\* What a movement of the mouse does to windows and pointer.  The window under
\* the pointer moves with it when it is dragged, and moves once.
LEMMA MovedDesktop ==
    ASSUME NEW d \in Desktops, NEW dx \in Int, NEW dy \in Int
    PROVE  LET e == OnMouseMove(d, dx, dy)
           IN  /\ e \in Desktops /\ e.dragging = d.dragging
               /\ Near(d.place) => Near(e.place)
               /\ \A w \in Windows : Hits(d.place, d.pointer, w) /\ d.dragging[w] =>
                     /\ e.place[w].x = d.place[w].x + (e.pointer.x - d.pointer.x)
                     /\ e.place[w].y = d.place[w].y + (e.pointer.y - d.pointer.y)
<1> DEFINE new == [x |-> Clipped(d.pointer.x + Quotient(dx), Width),
                   y |-> Clipped(d.pointer.y + Quotient(dy), Height)]
           sx == new.x - d.pointer.x
           sy == new.y - d.pointer.y
           first == Hit(d.place, d.pointer)
           halfway == [d EXCEPT !.place = Dragged(d, first, sx, sy)]
           second == SecondChild(first, Hit(halfway.place, new))
           last == [halfway EXCEPT !.place = Dragged(halfway, second, sx, sy)]
           e == [last EXCEPT !.pointer = new]
<1>1. OnMouseMove(d, dx, dy) = e
  BY DEF OnMouseMove, MoveChildren
<1>2. d.pointer \in Pixels /\ d.pointer.x \in Int /\ d.pointer.y \in Int
  <2>1. d.pointer \in Pixels
    BY DEF Desktops
  <2> QED
    BY SMT, <2>1, DesktopAssumption DEF Pixels
<1>3. new \in Pixels
  <2>1. Quotient(dx) \in Int /\ Quotient(dy) \in Int
    BY SMT, DesktopAssumption DEF Quotient
  <2>2. \A n \in Int, limit \in Nat \ {0} : Clipped(n, limit) \in 0 .. limit - 1
    BY SMT DEF Clipped
  <2>3. /\ d.pointer.x + Quotient(dx) \in Int
        /\ d.pointer.y + Quotient(dy) \in Int
    BY SMT, <1>2, <2>1
  <2> QED
    BY <2>2, <2>3, DesktopAssumption DEF Pixels
<1> HIDE DEF new
<1>4. sx \in Int /\ sy \in Int
  <2>1. new.x \in Int /\ new.y \in Int
    BY SMT, <1>3, DesktopAssumption DEF Pixels
  <2> QED
    BY SMT, <1>2, <2>1
<1> HIDE DEF sx, sy
<1>5. /\ Dragged(d, first, sx, sy) \in [Windows -> Points]
      /\ \A w \in Windows : w \in first /\ d.dragging[w] =>
            /\ Dragged(d, first, sx, sy)[w].x = d.place[w].x + sx
            /\ Dragged(d, first, sx, sy)[w].y = d.place[w].y + sy
      /\ \A w \in Windows : ~(w \in first /\ d.dragging[w]) =>
            Dragged(d, first, sx, sy)[w] = d.place[w]
  BY <1>4, DraggedPlaces
<1>6. /\ halfway \in Desktops /\ halfway.dragging = d.dragging
      /\ halfway.place = Dragged(d, first, sx, sy)
  BY <1>5 DEF Desktops
<1> HIDE DEF halfway
<1>7. /\ Dragged(halfway, second, sx, sy) \in [Windows -> Points]
      /\ \A w \in Windows : ~(w \in second /\ halfway.dragging[w]) =>
            Dragged(halfway, second, sx, sy)[w] = halfway.place[w]
      /\ \A w \in Windows : w \in second /\ halfway.dragging[w] =>
            /\ Dragged(halfway, second, sx, sy)[w].x = halfway.place[w].x + sx
            /\ Dragged(halfway, second, sx, sy)[w].y = halfway.place[w].y + sy
  BY <1>4, <1>6, DraggedPlaces
<1>8. /\ last \in Desktops /\ last.dragging = halfway.dragging
      /\ last.place = Dragged(halfway, second, sx, sy)
  BY <1>6, <1>7 DEF Desktops
<1> HIDE DEF last
<1>9. /\ e \in Desktops /\ e.dragging = last.dragging /\ e.place = last.place
      /\ e.pointer = new
  BY <1>3, <1>8 DEF Desktops
<1> HIDE DEF e
<1>10. ASSUME NEW w \in Windows, Hits(d.place, d.pointer, w), d.dragging[w]
       PROVE  /\ e.place[w].x = d.place[w].x + (e.pointer.x - d.pointer.x)
              /\ e.place[w].y = d.place[w].y + (e.pointer.y - d.pointer.y)
  <2>1. w \in first /\ w \notin second
    BY <1>10 DEF Hit, SecondChild
  <2>2. e.place[w] = Dragged(d, first, sx, sy)[w]
    BY <1>6, <1>7, <1>8, <1>9, <2>1
  <2> QED
    BY <1>5, <1>9, <1>10, <2>1, <2>2 DEF sx, sy
<1>11. ASSUME Near(d.place), NEW w \in Windows
       PROVE  /\ NearScreen(e.place[w].x, Size[w].w, Width)
              /\ NearScreen(e.place[w].y, Size[w].h, Height)
  <2>1. /\ d.place \in [Windows -> Points] /\ halfway.place \in [Windows -> Points]
        /\ e.place[w] \in Points /\ e.place = Dragged(halfway, second, sx, sy)
        /\ sx = new.x - d.pointer.x /\ sy = new.y - d.pointer.y
    BY <1>6, <1>8, <1>9 DEF Desktops, sx, sy
  <2>2. CASE w \in first /\ d.dragging[w]
    <3>1. ContainsCoordinate(d.place, w, d.pointer)
      BY <2>2 DEF first, Hit, Hits, Containing
    <3>2. e.place[w] = Dragged(d, first, sx, sy)[w]
      BY <1>6, <1>7, <2>1, <2>2 DEF second, SecondChild
    <3>3. /\ e.place[w].x = d.place[w].x + (new.x - d.pointer.x)
          /\ e.place[w].y = d.place[w].y + (new.y - d.pointer.y)
      BY <1>5, <2>1, <2>2, <3>2
    <3> QED
      BY <1>2, <1>3, <2>1, <3>1, <3>3, DragsStayNear
  <2>3. CASE ~(w \in first /\ d.dragging[w]) /\ w \in second /\ d.dragging[w]
    <3>1. ContainsCoordinate(halfway.place, w, new)
      BY <2>3 DEF second, SecondChild, Hit, Hits, Containing
    <3>2. /\ e.place[w].x = halfway.place[w].x + (new.x - d.pointer.x)
          /\ e.place[w].y = halfway.place[w].y + (new.y - d.pointer.y)
      BY <1>6, <1>7, <2>1, <2>3
    <3> QED
      BY <1>2, <1>3, <2>1, <3>1, <3>2, DragsStayNear
  <2>4. CASE ~(w \in first /\ d.dragging[w]) /\ ~(w \in second /\ d.dragging[w])
    <3>1. e.place[w] = d.place[w]
      BY <1>5, <1>6, <1>7, <2>1, <2>4
    <3> QED
      BY <1>11, <3>1 DEF Near
  <2> QED
    BY <2>2, <2>3, <2>4
<1>12. Near(d.place) => Near(e.place)
  BY <1>11 DEF Near
<1> QED
  BY <1>1, <1>6, <1>8, <1>9, <1>10, <1>12

\* The handlers of the buttons move nothing.
LEMMA ButtonKeepsPlaces ==
    ASSUME NEW d \in Desktops, NEW button
    PROVE  /\ Button(d, button) \in Desktops
           /\ Button(d, button).pointer = d.pointer
           /\ Button(d, button).place = d.place
BY Zenon, PressedWindow, ReleasedWindow DEF Button

LEMMA MovedKeeps ==
    ASSUME MouseTypeOK, wire # <<>>, PacketComplete, NEW d \in Desktops
    PROVE  /\ Moved(d) \in Desktops /\ Moved(d).dragging = d.dragging
           /\ Near(d.place) => Near(Moved(d).place)
           /\ \A w \in Windows : Hits(d.place, d.pointer, w) /\ d.dragging[w] =>
                 /\ Moved(d).place[w].x
                       = d.place[w].x + (Moved(d).pointer.x - d.pointer.x)
                 /\ Moved(d).place[w].y
                       = d.place[w].y + (Moved(d).pointer.y - d.pointer.y)
<1>1. CASE Packet[2] = 0 /\ Packet[3] = 0
  <2>1. Moved(d) = d
    BY <1>1 DEF Moved
  <2>2. d.pointer.x \in Int /\ d.pointer.y \in Int
    BY SMT, DesktopAssumption DEF Desktops, Pixels
  <2>3. \A w \in Windows : d.place[w].x \in Int /\ d.place[w].y \in Int
    BY DEF Desktops, Points
  <2>4. \A a, b \in Int : a = a + (b - b)
    BY SMT
  <2> QED
    BY <2>1, <2>2, <2>3, <2>4
<1>2. CASE ~(Packet[2] = 0 /\ Packet[3] = 0)
  <2>1. Packet[2] \in Byte /\ Packet[3] \in Byte
    BY WholePacket
  <2>2. \A b \in Byte : Signed(b) \in Int /\ -Signed(b) \in Int
    BY SMT, ByteAssumption DEF Signed, Byte
  <2>3. Moved(d) = OnMouseMove(d, Signed(Packet[2]), -Signed(Packet[3]))
    BY <1>2 DEF Moved
  <2> QED
    BY <2>1, <2>2, <2>3, MovedDesktop
<1> QED
  BY <1>1, <1>2

\* What the front window has to do with a set of pressed buttons.
FrontDragged(d, byte) ==
    d.dragging[Top] => /\ Pressed(byte, 1)
                       /\ ContainsCoordinate(d.place, Top, d.pointer)

LEMMA FrontReleased ==
    ASSUME NEW d \in Desktops, FrontDragged(d, buttons)
    PROVE  /\ FrontDragged(Button(d, 1), Packet[1])
           /\ Button(d, 1) \in Desktops
<1> DEFINE now == Pressed(Packet[1], 1)
           before == Pressed(buttons, 1)
<1>1. /\ Top \in Windows
      /\ Hits(d.place, d.pointer, Top) <=> ContainsCoordinate(d.place, Top, d.pointer)
  BY TopIsHit
<1>2. CASE now = before
  <2>1. Button(d, 1) = d
    BY <1>2 DEF Button
  <2> QED
    BY <1>2, <2>1 DEF FrontDragged
<1>3. CASE now # before /\ before
  <2>1. Button(d, 1) = OnMouseUp(d, 1)
    BY <1>3 DEF Button
  <2>2. /\ Button(d, 1) \in Desktops
        /\ Button(d, 1).dragging[Top] =>
              d.dragging[Top] /\ ~Hits(d.place, d.pointer, Top)
    BY <1>1, <2>1, ReleasedWindow
  <2>3. ~Button(d, 1).dragging[Top]
    BY <1>1, <2>2 DEF FrontDragged
  <2> QED
    BY <2>2, <2>3 DEF FrontDragged
<1>4. CASE now # before /\ ~before
  <2>1. Button(d, 1) = OnMouseDown(d, 1)
    BY <1>4 DEF Button
  <2>2. /\ Button(d, 1) \in Desktops
        /\ Button(d, 1).pointer = d.pointer /\ Button(d, 1).place = d.place
        /\ Button(d, 1).dragging[Top] =
              IF Hits(d.place, d.pointer, Top) THEN 1 = 1 ELSE d.dragging[Top]
    BY <1>1, <2>1, PressedWindow
  <2>3. now
    BY <1>4 DEF Pressed
  <2>4. Button(d, 1).dragging[Top] => ContainsCoordinate(d.place, Top, d.pointer)
    BY <1>1, <1>4, <2>2 DEF FrontDragged
  <2> QED
    BY <2>2, <2>3, <2>4 DEF FrontDragged
<1> QED
  BY <1>2, <1>3, <1>4

LEMMA OtherButton ==
    ASSUME NEW d \in Desktops, FrontDragged(d, Packet[1]), NEW button \in {2, 3}
    PROVE  /\ FrontDragged(Button(d, button), Packet[1])
           /\ Button(d, button) \in Desktops
<1>1. Top \in Windows /\ button # 1
  BY TopIsHit
<1>2. /\ Button(d, button) \in Desktops
      /\ Button(d, button).pointer = d.pointer
      /\ Button(d, button).place = d.place
  BY ButtonKeepsPlaces
<1>3. Button(d, button).dragging[Top] => d.dragging[Top]
  <2>1. OnMouseUp(d, button).dragging[Top] => d.dragging[Top]
    BY <1>1, ReleasedWindow
  <2>2. OnMouseDown(d, button).dragging[Top] =
           IF Hits(d.place, d.pointer, Top) THEN button = 1 ELSE d.dragging[Top]
    BY <1>1, PressedWindow
  <2>3. OnMouseDown(d, button).dragging[Top] => d.dragging[Top]
    BY <1>1, <2>2
  <2>4. \/ Button(d, button) = d \/ Button(d, button) = OnMouseUp(d, button)
        \/ Button(d, button) = OnMouseDown(d, button)
    BY Zenon DEF Button
  <2> QED
    BY Zenon, <2>1, <2>3, <2>4
<1> QED
  BY <1>2, <1>3 DEF FrontDragged

LEMMA MoveKeepsFront ==
    ASSUME MouseTypeOK, wire # <<>>, PacketComplete, NEW d \in Desktops,
           FrontDragged(d, buttons)
    PROVE  FrontDragged(Moved(d), buttons)
<1> DEFINE e == Moved(d)
<1>1. /\ e \in Desktops /\ e.dragging = d.dragging
      /\ \A w \in Windows : Hits(d.place, d.pointer, w) /\ d.dragging[w] =>
            /\ e.place[w].x = d.place[w].x + (e.pointer.x - d.pointer.x)
            /\ e.place[w].y = d.place[w].y + (e.pointer.y - d.pointer.y)
  BY MovedKeeps
<1> HIDE DEF e
<1> SUFFICES ASSUME d.dragging[Top]
             PROVE  ContainsCoordinate(e.place, Top, e.pointer)
  BY <1>1 DEF FrontDragged, e
<1>2. Top \in Windows /\ ContainsCoordinate(d.place, Top, d.pointer)
  BY TopIsHit DEF FrontDragged
<1>3. /\ e.place[Top].x = d.place[Top].x + (e.pointer.x - d.pointer.x)
      /\ e.place[Top].y = d.place[Top].y + (e.pointer.y - d.pointer.y)
  BY <1>1, <1>2, TopIsHit
<1> DEFINE px == d.pointer.x
           py == d.pointer.y
           qx == e.pointer.x
           qy == e.pointer.y
           x == d.place[Top].x
           y == d.place[Top].y
           sw == Size[Top].w
           sh == Size[Top].h
<1>4. /\ px \in Int /\ py \in Int /\ qx \in Int /\ qy \in Int
  BY SMT, <1>1, DesktopAssumption DEF Desktops, Pixels
<1>5. x \in Int /\ y \in Int
  BY <1>2 DEF Desktops, Points
<1>6. sw \in Int /\ sh \in Int
  BY SMT, <1>2, DesktopAssumption
<1>7. x <= px /\ px < x + sw /\ y <= py /\ py < y + sh
  BY <1>2 DEF ContainsCoordinate
<1>8. e.place[Top].x = x + (qx - px) /\ e.place[Top].y = y + (qy - py)
  BY <1>3
<1> HIDE DEF px, py, qx, qy, x, y, sw, sh
<1>9. /\ x + (qx - px) <= qx /\ qx < x + (qx - px) + sw
      /\ y + (qy - py) <= qy /\ qy < y + (qy - py) + sh
  BY SMT, <1>4, <1>5, <1>6, <1>7
<1> QED
  BY <1>8, <1>9 DEF ContainsCoordinate, qx, qy, sw, sh

-----------------------------------------------------------------------------
(* The invariant and the theorems *)

\* The windows that a pass of Draw, of k children so far, has filled p with.
Filling(k, p) == {w \in Windows : w > Number - k /\ Filled(desktop.place, w, p)}

\* A pass that nothing has stirred shows the first of them.
PassShows ==
    ~stirred =>
        \A p \in Pixels :
            \/ screen[p] = Background /\ Filling(drawn, p) = {}
            \/ /\ screen[p] \in Filling(drawn, p)
               /\ \A v \in Filling(drawn, p) : screen[p] <= v

DrawTyped ==
    /\ screen \in [Pixels -> {Background} \cup Windows]
    /\ drawn \in 0 .. Number /\ stirred \in BOOLEAN

DInv ==
    /\ MouseInv /\ desktop \in Desktops /\ FrontDragged(desktop, buttons)
    /\ Near(desktop.place) /\ DrawTyped /\ PassShows

\* One interrupt that completes a packet.
LEMMA PacketHandled ==
    ASSUME DInv, TakeByte, PacketComplete
    PROVE  /\ HandlePacket \in Desktops /\ FrontDragged(HandlePacket, Packet[1])
           /\ HandlePacket.pointer = Moved(desktop).pointer
           /\ HandlePacket.place = Moved(desktop).place
           /\ Near(HandlePacket.place)
<1>1. MouseTypeOK /\ wire # <<>>
  BY DEF DInv, MouseInv, TakeByte
<1> DEFINE d0 == Moved(desktop)
           d1 == Button(d0, 1)
           d2 == Button(d1, 2)
           d3 == Button(d2, 3)
<1>10. Near(d0.place)
  BY <1>1, MovedKeeps DEF DInv
<1>2. d0 \in Desktops /\ FrontDragged(d0, buttons)
  BY <1>1, MovedKeeps, MoveKeepsFront DEF DInv
<1> HIDE DEF d0
<1>3. d1 \in Desktops /\ FrontDragged(d1, Packet[1])
  BY <1>2, FrontReleased
<1>4. d1.pointer = d0.pointer /\ d1.place = d0.place
  BY <1>2, ButtonKeepsPlaces
<1> HIDE DEF d1
<1>5. d2 \in Desktops /\ FrontDragged(d2, Packet[1])
  BY <1>3, OtherButton
<1>6. d2.pointer = d1.pointer /\ d2.place = d1.place
  BY <1>3, ButtonKeepsPlaces
<1> HIDE DEF d2
<1>7. d3 \in Desktops /\ FrontDragged(d3, Packet[1])
  BY <1>5, OtherButton
<1>8. d3.pointer = d2.pointer /\ d3.place = d2.place
  BY <1>5, ButtonKeepsPlaces
<1>9. HandlePacket = d3
  BY DEF HandlePacket, d0, d1, d2
<1> HIDE DEF d3
<1> QED
  BY <1>4, <1>6, <1>7, <1>8, <1>9, <1>10 DEF d0

LEMMA InterruptKeeps == ASSUME DInv, HandleInterrupt PROVE DInv'
<1>1. TakeByte /\ desktop' = IF PacketComplete THEN HandlePacket ELSE desktop
  BY DEF HandleInterrupt
<1>2. MouseInv'
  BY <1>1, TakeByteKeeps DEF DInv
<1>3. buttons' = IF PacketComplete THEN Packet[1] ELSE buttons
  BY <1>1 DEF TakeByte
<1>6. DrawTyped' /\ (~stirred' => ~stirred /\ desktop'.place = desktop.place)
  BY <1>1 DEF HandleInterrupt, DInv, DrawTyped
<1>7. PassShows'
  <2> SUFFICES ASSUME ~stirred' PROVE PassShows'
    BY DEF PassShows
  <2>1. \A k, p : Filling(k, p)' = Filling(k, p)
    BY <1>6 DEF Filling, Filled
  <2>2. UNCHANGED <<screen, drawn>>
    BY DEF HandleInterrupt
  <2> QED
    BY <1>6, <2>1, <2>2 DEF DInv, PassShows
<1>4. CASE PacketComplete
  BY <1>1, <1>2, <1>3, <1>4, <1>6, <1>7, PacketHandled
     DEF DInv, FrontDragged, Pressed, ContainsCoordinate, Near
<1>5. CASE ~PacketComplete
  BY <1>1, <1>2, <1>3, <1>5, <1>6, <1>7
     DEF DInv, FrontDragged, Pressed, ContainsCoordinate, Near
<1> QED
  BY <1>4, <1>5

\* What leaves driver and windows alone.
LEMMA WindowsKept ==
    ASSUME DInv, MouseInv', UNCHANGED <<desktop, buttons>>
    PROVE  /\ desktop' \in Desktops /\ FrontDragged(desktop, buttons)'
           /\ Near(desktop.place)'
           /\ \A k, p : Filling(k, p)' = Filling(k, p)
BY DEF DInv, FrontDragged, Pressed, ContainsCoordinate, Near, Filling, Filled

LEMMA MouseKept ==
    ASSUME MouseInv, UNCHANGED <<driverVars, mouseVars>>
    PROVE  MouseInv'
BY DEF MouseInv, MouseTypeOK, PacketStarts, driverVars, mouseVars

LEMMA DrawDesktopKeeps == ASSUME DInv, DrawDesktop PROVE DInv'
<1>1. MouseInv' /\ UNCHANGED <<desktop, buttons>>
  BY MouseKept DEF DrawDesktop, DInv, driverVars
<1>2. Number \in Nat /\ 0 \in 0 .. Number
  BY SMT, DesktopAssumption
<1>3. DrawTyped'
  BY <1>2 DEF DrawDesktop, DrawTyped
<1>4. \A p : Filling(0, p) = {}
  BY SMT, <1>2 DEF Filling, Windows
<1>5. PassShows'
  BY <1>1, <1>4, WindowsKept DEF DrawDesktop, PassShows
<1> QED
  BY <1>1, <1>3, <1>5, WindowsKept DEF DInv

LEMMA DrawChildKeeps == ASSUME DInv, DrawChild PROVE DInv'
<1>1. MouseInv' /\ UNCHANGED <<desktop, buttons, stirred>>
  BY MouseKept DEF DrawChild, DInv, driverVars
<1> DEFINE w == ChildDrawn(drawn + 1)
<1>2. /\ Number \in Nat /\ drawn \in 0 .. Number /\ drawn < Number /\ drawn' = drawn + 1
      /\ screen \in [Pixels -> {Background} \cup Windows]
      /\ screen' = [p \in Pixels |-> IF Filled(desktop.place, w, p) THEN w ELSE screen[p]]
  BY DesktopAssumption DEF DrawChild, DInv, DrawTyped
<1>3. w \in Windows /\ w = Number - drawn /\ drawn + 1 \in 0 .. Number
  BY SMT, <1>2 DEF ChildDrawn, Windows
<1>4. DrawTyped'
  BY <1>1, <1>2, <1>3 DEF DInv, DrawTyped
<1>5. \A v \in Windows : /\ v > Number - (drawn + 1) <=> v > Number - drawn \/ v = w
                         /\ v > Number - drawn => w <= v
  BY SMT, <1>2, <1>3 DEF Windows
<1> HIDE DEF w
<1>6. ASSUME ~stirred, NEW p \in Pixels
      PROVE  \/ screen'[p] = Background /\ Filling(drawn + 1, p) = {}
             \/ /\ screen'[p] \in Filling(drawn + 1, p)
                /\ \A v \in Filling(drawn + 1, p) : screen'[p] <= v
  <2>1. CASE Filled(desktop.place, w, p)
    <3>1. screen'[p] = w /\ w \in Filling(drawn + 1, p)
      BY <1>2, <1>3, <1>5, <2>1 DEF Filling
    <3>2. \A v \in Filling(drawn + 1, p) : w <= v
      <4>1. w <= w
        BY SMT, <1>3 DEF Windows
      <4> QED
        BY <1>5, <4>1 DEF Filling
    <3> QED
      BY <3>1, <3>2
  <2>2. CASE ~Filled(desktop.place, w, p)
    <3>1. screen'[p] = screen[p]
      BY <1>2, <2>2
    <3>2. Filling(drawn + 1, p) = Filling(drawn, p)
      BY <1>5, <2>2 DEF Filling
    <3> QED
      BY <1>6, <3>1, <3>2 DEF DInv, PassShows
  <2> QED
    BY <2>1, <2>2
<1>7. PassShows'
  BY <1>1, <1>2, <1>6, WindowsKept DEF PassShows
<1> QED
  BY <1>1, <1>4, <1>7, WindowsKept DEF DInv

LEMMA InitDInv == Init => DInv
<1> SUFFICES ASSUME Init PROVE DInv
  OBVIOUS
<1>1. MouseInv
  BY InitMouseInv DEF Init
<1>2. Width \div 2 \in 0 .. Width - 1 /\ Height \div 2 \in 0 .. Height - 1
  BY SMT, DesktopAssumption
<1>3. FirstPlace \in [Windows -> Points]
  <2>1. \A w \in Windows : FirstPlace[w] \in Points
    BY SMT, DesktopAssumption DEF Points
  <2> QED
    BY <2>1, DesktopAssumption
<1>4. desktop \in Desktops
  BY <1>2, <1>3 DEF Init, Desktops, Pixels
<1>5. ~desktop.dragging[Top]
  BY TopIsHit DEF Init
<1>6. Near(desktop.place)
  <2>1. ASSUME NEW w \in Windows
        PROVE  /\ NearScreen(FirstPlace[w].x, Size[w].w, Width)
               /\ NearScreen(FirstPlace[w].y, Size[w].h, Height)
    <3>1. /\ FirstPlace[w].x \in 0 .. Width - 1 /\ FirstPlace[w].y \in 0 .. Height - 1
          /\ Size[w].w \in Nat /\ Size[w].h \in Nat /\ Width \in Nat /\ Height \in Nat
      BY DesktopAssumption
    <3>2. \A c, size, limit \in Nat : c < limit => NearScreen(c, size, limit)
      BY SMT DEF NearScreen
    <3>3. /\ FirstPlace[w].x \in Nat /\ FirstPlace[w].x < Width
          /\ FirstPlace[w].y \in Nat /\ FirstPlace[w].y < Height
      BY SMT, <3>1
    <3> QED
      BY <3>1, <3>2, <3>3
  <2>2. desktop.place = FirstPlace
    BY DEF Init
  <2> QED
    BY <2>1, <2>2 DEF Near
<1>7. DrawTyped /\ PassShows
  <2>1. Number \in 0 .. Number
    BY SMT, DesktopAssumption
  <2> QED
    BY <2>1 DEF Init, DrawTyped, PassShows
<1> QED
  BY <1>1, <1>4, <1>5, <1>6, <1>7 DEF DInv, FrontDragged

LEMMA DesktopInvariant == Spec => []DInv
<1>1. ASSUME DInv, [Next]_vars PROVE DInv'
  <2>1. CASE HandleInterrupt
    BY <1>1, <2>1, InterruptKeeps
  <2>2. CASE MouseEvent
    <3>1. MouseInv' /\ desktop' = desktop /\ buttons' = buttons
      BY <1>1, <2>2, MouseSendsKeeps DEF MouseEvent, DInv, MouseSends, driverVars
    <3>2. UNCHANGED drawVars
      BY <2>2 DEF MouseEvent
    <3> QED
      BY <1>1, <3>1, <3>2, WindowsKept DEF DInv, DrawTyped, PassShows, drawVars
  <2>3. CASE UNCHANGED vars
    <3>1. MouseInv' /\ UNCHANGED <<desktop, buttons, drawVars>>
      BY <1>1, <2>3, MouseKept DEF DInv, vars, driverVars
    <3> QED
      BY <1>1, <3>1, WindowsKept DEF DInv, DrawTyped, PassShows, drawVars
  <2> QED
    BY <1>1, <2>1, <2>2, <2>3, DrawDesktopKeeps, DrawChildKeeps DEF Next
<1> QED
  BY <1>1, InitDInv, PTL DEF Spec

\* The driver does not lose the start of a packet, and between packets it
\* knows the buttons, unless the mouse's Ack came late.
THEOREM DriverInStep == Spec => []InStep
<1>1. ASSUME DInv PROVE InStep
  <2>1. received \in Seq(Byte) /\ wire \in Seq(Byte)
    BY <1>1 DEF DInv, MouseInv, MouseTypeOK
  <2>2. /\ Len(received \o wire) = Len(received) + Len(wire)
        /\ received \o wire \in Seq(Byte)
    BY <2>1, ConcatProperties
  <2>3. received \o wire = <<>> <=> Len(received \o wire) = 0
    BY <2>2, EmptySeq
  <2>4. ~late => Len(received) + Len(wire) \in {0, 3} /\ PacketStarts
    BY <1>1 DEF DInv, MouseInv
  <2> QED
    BY <2>2, <2>3, <2>4 DEF InStep, PacketStarts
<1> QED
  BY <1>1, DesktopInvariant, PTL

\* No release of the left button escapes the window in front while it is
\* dragged: it stays under the pointer, and the pointer on the desktop.
THEOREM TopWindowDragged == Spec => []TopWindowDrag
<1>1. ASSUME DInv PROVE TopWindowDrag
  BY <1>1
     DEF DInv, MouseInv, Desktops, Pixels, TypeOK, TopWindowDrag, FrontDragged,
         DrawTyped, Dragging, Place, Pointer
<1> QED
  BY <1>1, DesktopInvariant, PTL

\* A grabbed window goes where the pointer goes, at the edges of the desktop
\* too, and never twice.
THEOREM GripNeverLost == Spec => GripKept
<1>1. ASSUME DInv, [Next]_vars PROVE [\A w \in Windows : KeepsGrip(w)]_vars
  <2>1. CASE HandleInterrupt /\ PacketComplete
    <3>1. /\ MouseTypeOK /\ wire # <<>> /\ desktop \in Desktops
          /\ desktop' = HandlePacket /\ TakeByte
      BY <1>1, <2>1 DEF DInv, MouseInv, HandleInterrupt, TakeByte
    <3>2. /\ desktop'.pointer = Moved(desktop).pointer
          /\ desktop'.place = Moved(desktop).place
          /\ Moved(desktop) \in Desktops
      BY <1>1, <2>1, <3>1, PacketHandled, MovedKeeps
    <3>3. ASSUME NEW w \in Windows, Hits(Place, Pointer, w), Dragging[w]
          PROVE  /\ Place'[w].x - Place[w].x = Pointer'.x - Pointer.x
                 /\ Place'[w].y - Place[w].y = Pointer'.y - Pointer.y
      <4>1. /\ Place'[w].x = Place[w].x + (Pointer'.x - Pointer.x)
            /\ Place'[w].y = Place[w].y + (Pointer'.y - Pointer.y)
        BY <2>1, <3>1, <3>2, <3>3, MovedKeeps DEF Place, Pointer, Dragging
      <4>2. /\ Pointer.x \in Int /\ Pointer.y \in Int
            /\ Pointer'.x \in Int /\ Pointer'.y \in Int
        BY SMT, <3>1, <3>2, DesktopAssumption DEF Pointer, Desktops, Pixels
      <4>3. Place[w].x \in Int /\ Place[w].y \in Int
        BY <3>1 DEF Place, Desktops, Points
      <4>4. \A a, b, c \in Int : (a + (b - c)) - a = b - c
        BY SMT
      <4> QED
        BY <4>1, <4>2, <4>3, <4>4
    <3> QED
      BY <3>3 DEF KeepsGrip
  <2>2. CASE UNCHANGED desktop
    <3>1. desktop \in Desktops
      BY <1>1 DEF DInv
    <3>2. /\ Pointer.x \in Int /\ Pointer.y \in Int
      BY SMT, <3>1, DesktopAssumption DEF Pointer, Desktops, Pixels
    <3>3. \A w \in Windows : Place[w].x \in Int /\ Place[w].y \in Int
      BY <3>1 DEF Place, Desktops, Points
    <3>4. \A a, b \in Int : a - a = b - b
      BY SMT
    <3>5. Place' = Place /\ Pointer' = Pointer
      BY <2>2 DEF Place, Pointer
    <3> QED
      BY <3>2, <3>3, <3>4, <3>5 DEF KeepsGrip
  <2> QED
    BY <1>1, <2>1, <2>2 DEF Next, HandleInterrupt, MouseEvent, DrawDesktop, DrawChild, vars
<1> QED
  BY <1>1, DesktopInvariant, PTL DEF Spec, GripKept

\* How far a side of a rectangle reaches that is as near to the screen as a
\* window is: nowhere from a negative beginning.
LEMMA FilledSide ==
    ASSUME NEW from \in Int, NEW size \in Nat, NEW limit \in Nat,
           NEW n \in 0 .. limit - 1, NearScreen(from, size, limit),
           2 * limit + 2 * size <= WordSize, WordSize \in Nat
    PROVE  Reaches(from, size, n) <=> from >= 0 /\ from <= n /\ n < from + size
<1>1. CASE from >= 0
  <2>1. End(from, size) = from + size
    BY SMT, <1>1 DEF End, Unsigned, NearScreen
  <2>2. \A m \in from .. n : Unsigned(m) = m
    BY SMT, <1>1 DEF Unsigned
  <2>3. Reaches(from, size, n) <=> from <= n /\ \A m \in from .. n : m < from + size
    BY <2>1, <2>2 DEF Reaches
  <2>4. (from <= n /\ \A m \in from .. n : m < from + size)
           <=> from <= n /\ n < from + size
    BY SMT, <1>1
  <2> QED
    BY <1>1, <2>3, <2>4
<1>2. CASE from < 0 /\ from + size >= 0
  <2>1. End(from, size) = from + size /\ ~(Unsigned(from) < from + size)
    BY SMT, <1>2 DEF End, Unsigned, NearScreen
  <2>2. from <= n => from \in from .. n
    BY SMT
  <2> QED
    BY SMT, <1>2, <2>1, <2>2 DEF Reaches
<1>3. CASE from < 0 /\ from + size < 0
  <2>1. /\ End(from, size) = from + size + WordSize
        /\ Unsigned(from + size) = from + size + WordSize
        /\ ~(Unsigned(from + size) < End(from, size))
    BY SMT, <1>3 DEF End, Unsigned, NearScreen
  <2>2. from + size \in from .. n
    BY SMT, <1>3
  <2>3. ~Reaches(from, size, n)
    BY <2>1, <2>2 DEF Reaches
  <2> QED
    BY SMT, <1>3, <2>3
<1> QED
  BY SMT, <1>1, <1>2, <1>3

\* FillRectangle draws the pixels a window contains, if none of it lies left of
\* or above the screen, and nothing otherwise.
LEMMA FilledWindow ==
    ASSUME DInv, NEW w \in Windows, NEW p \in Pixels
    PROVE  Filled(Place, w, p) <=> OnScreen(w) /\ ContainsCoordinate(Place, w, p)
<1>1. /\ Place[w].x \in Int /\ Place[w].y \in Int
      /\ NearScreen(Place[w].x, Size[w].w, Width)
      /\ NearScreen(Place[w].y, Size[w].h, Height)
  BY DEF DInv, Desktops, Points, Near, Place
<1>2. /\ Size[w].w \in Nat /\ Size[w].h \in Nat /\ Width \in Nat /\ Height \in Nat
      /\ WordSize \in Nat
      /\ 2 * Width + 2 * Size[w].w <= WordSize /\ 2 * Height + 2 * Size[w].h <= WordSize
  BY DesktopAssumption, WordAssumption
<1>3. p.x \in 0 .. Width - 1 /\ p.y \in 0 .. Height - 1
  BY DEF Pixels
<1>4. Reaches(Place[w].x, Size[w].w, p.x) <=>
         Place[w].x >= 0 /\ Place[w].x <= p.x /\ p.x < Place[w].x + Size[w].w
  BY <1>1, <1>2, <1>3, FilledSide
<1>5. Reaches(Place[w].y, Size[w].h, p.y) <=>
         Place[w].y >= 0 /\ Place[w].y <= p.y /\ p.y < Place[w].y + Size[w].h
  BY <1>1, <1>2, <1>3, FilledSide
<1> QED
  BY <1>4, <1>5 DEF Filled, OnScreen, ContainsCoordinate

\* Windows have a first one wherever there is one.
LEMMA FirstOfWindows ==
    ASSUME NEW ws \in SUBSET Windows, ws # {}
    PROVE  \E w \in ws : \A v \in ws : w <= v
<1>1. ws \subseteq Nat
  BY SMT, DesktopAssumption DEF Windows
<1>2. PICK w \in ws : \A v \in ws : ~(<<v, w>> \in OpToRel(<, Nat))
  BY <1>1, WFMin, NatLessThanWellFounded
<1>3. \A v \in ws : ~(v < w)
  BY <1>1, <1>2 DEF OpToRel
<1>4. \A v \in ws : w <= v
  BY SMT, <1>1, <1>3
<1> QED
  BY <1>2, <1>4

\* A finished pass of Draw that nothing has stirred shows what a click reaches,
\* for any windows, unless one that the click reaches lies partly left of or
\* above the screen and is not drawn.
THEOREM ClickReachesSeen == Spec => []SeenIsHit
<1>1. ASSUME DInv, drawn = Number, ~stirred, NEW p \in Pixels,
             \A w \in Hit(Place, p) : OnScreen(w)
      PROVE  Seen(p) = Hit(Place, p)
  <2>1. \A w \in Windows : w \in Nat /\ w > Number - Number /\ w # Background
    BY SMT, DesktopAssumption DEF Windows, Background
  <2>2. \A w : w \in Filling(drawn, p) <=>
            w \in Containing(Place, p) /\ OnScreen(w)
    BY <1>1, <2>1, FilledWindow DEF Filling, Place, Containing
  <2>3. CASE Containing(Place, p) = {}
    <3>1. Filling(drawn, p) = {} /\ Hit(Place, p) = {}
      BY <2>2, <2>3 DEF Hit, Hits
    <3> QED
      BY <1>1, <3>1 DEF DInv, PassShows, Seen
  <2>4. CASE Containing(Place, p) # {}
    <3>1. PICK h \in Containing(Place, p) : \A v \in Containing(Place, p) : h <= v
      BY <2>4, FirstOfWindows DEF Containing
    <3>2. h \in Windows /\ Hits(Place, p, h)
      BY <3>1 DEF Hits, Containing
    <3>3. Hit(Place, p) = {h}
      BY <3>2, OneHit DEF Hit
    <3>4. h \in Filling(drawn, p)
      BY <1>1, <2>2, <3>1, <3>3
    <3>5. /\ screen[p] \in Filling(drawn, p) /\ screen[p] <= h
      BY <1>1, <3>4 DEF DInv, PassShows
    <3>6. screen[p] \in Containing(Place, p) /\ screen[p] \in Windows
      BY <2>2, <3>5 DEF Containing
    <3>7. screen[p] = h
      <4>1. h <= screen[p] /\ h \in Nat /\ screen[p] \in Nat
        BY <2>1, <3>1, <3>2, <3>6
      <4> QED
        BY SMT, <3>5, <4>1
    <3> QED
      BY <2>1, <3>2, <3>3, <3>7 DEF Seen
  <2> QED
    BY <2>3, <2>4
<1>2. DInv => SeenIsHit
  BY <1>1 DEF SeenIsHit
<1> QED
  BY <1>2, DesktopInvariant, PTL
===============================================================================
