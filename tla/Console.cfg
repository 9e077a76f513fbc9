CONSTANTS
    Tasks = {t1, t2}
    Cols = 2
    Rows = 2
    ByteSize = 8
    Texts <- MCTexts
    HandlerTexts <- MCHandlerTexts
    Offsets <- MCOffsets
    MaxCalls = 1
    MaxKeys = 1
    MaxMoves = 1
SPECIFICATION Spec
INVARIANTS CursorBackOnScreen PointerShown
PROPERTIES PrintfReturns PointerFollowsMouse
CHECK_DEADLOCK FALSE
