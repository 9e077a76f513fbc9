CONSTANTS
    NumBlocks = 4
    EntriesPerBlock = 4
    DirNames = {}
    FileNames = {"f", "g"}
    LinuxFiles <- MCLongFiles
    Passwords = {}
    ChmodPaths = {}
    MaxCrashes = 0
    SizeBound = 3
SPECIFICATION Spec
INVARIANTS FinishedWorkSurvives

\* The bound on sizes and counts stops the users.
CHECK_DEADLOCK FALSE
