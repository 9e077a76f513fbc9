CONSTANTS
    SectorBytes = 4
    ByteValues = {0, 1}
    Numbers <- MCNumbers
    Texts = {t1}
    WriteCounts = {3, 4}
    ReadCounts <- MCReadCounts
    MaxWrites = 2
    MaxCuts = 1
SPECIFICATION Spec
INVARIANTS NothingPending
PROPERTIES ReadsBack CallsReturn
