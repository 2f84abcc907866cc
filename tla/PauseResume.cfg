SPECIFICATION FairPauseSpec
CONSTANTS
    MaxRuns = 2
    MaxSteps = 4
    MaxPauses = 3
    MaxResumes = 3
INVARIANT PauseOfThisTurn
PROPERTY PauseEnds
CHECK_DEADLOCK FALSE
