CONSTANTS
    NumBlocks = 4
    EntriesPerBlock = 4
    DirNames = {"d"}
    FileNames = {"f"}
    LinuxFiles <- MCBlockFiles
    Passwords = {}
    ChmodPaths = {}
    MaxCrashes = 2
    SizeBound = 2
SPECIFICATION Spec
INVARIANTS OneOwner FreeCountSafe FinishedWorkSurvives

\* The bound on sizes and counts stops the users.
CHECK_DEADLOCK FALSE
