CONSTANTS
    NumBlocks = 4
    EntriesPerBlock = 4
    DirNames = {"d"}
    FileNames = {"f", "g"}
    LinuxFiles <- MCShortFiles
    Passwords = {"p"}
    ChmodPaths <- MCChmodPaths
    MaxCrashes = 0
    SizeBound = 2
SPECIFICATION Spec
INVARIANTS CountsExact DirectoriesReadable FinishedWorkSurvives

\* The bound on sizes and counts stops the users.
CHECK_DEADLOCK FALSE
