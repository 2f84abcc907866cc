SPECIFICATION FairSpec
CONSTANTS
    Goals = {g1, g2}
    NoGoal = none
    Reasons = {"r1", "r2"}
    maxGoalAutoTurns = 4
    Judge = TRUE
    AllowStrict = TRUE
    MaxSets = 2
    MaxTurns = 5
CHECK_DEADLOCK FALSE
PROPERTIES BlockedForCause GoalLoopEnds ClearedStaysCleared CancelStopsGoal
