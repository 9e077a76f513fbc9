CONSTANTS
    ByteSize = 16
    Moves <- MCMoves
    Holds = {0, 1, 3}
    Ack = 10
    Width = 2
    Height = 2
    Divisor = 4
    Number = 2
    FirstPlace <- MCFirstPlace
    Size <- MCSize
    WordSize = 100
SPECIFICATION Spec
INVARIANTS InStep TopWindowDrag SeenIsHit
PROPERTIES GripKept
