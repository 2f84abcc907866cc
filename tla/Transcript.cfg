SPECIFICATION Spec
CONSTANTS
    Ops = {"new", "clear", "branch", "switch", "resume", "rewind", "compact"}
    Keep = 1
    MaxPaths = 3
    MaxTurns = 2
    MaxReplies = 2
    Limits <- MCLimits
CHECK_DEADLOCK FALSE
INVARIANTS NothingForgotten LogInOrder TurnSavedAtItsEnd SavedFileReloads FilesKeptApart
PROPERTY FilesOnlyGrow
