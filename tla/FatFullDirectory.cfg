CONSTANTS
    NumBlocks = 5
    EntriesPerBlock = 2
    DirNames = {}
    FileNames = {"f", "g", "h"}
    LinuxFiles <- MCBlockFiles
    Passwords = {}
    ChmodPaths = {}
    MaxCrashes = 0
    SizeBound = 3
SPECIFICATION Spec
INVARIANTS FinishedWorkSurvives

\* The bound on sizes and counts stops the users.
CHECK_DEADLOCK FALSE
