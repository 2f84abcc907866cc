SPECIFICATION FairSchedSpec
CONSTANTS
    Ids = {t1, t2}
    Firings = {f1, f2}
    MaxTime = 3
    MaxInterval = 1
    Budgets <- MCBudgets
    NoId = NoId
INVARIANTS TimerCoversTasks RunsCreditedToTask FileMatchesMemory
PROPERTY DueTaskFires
CHECK_DEADLOCK FALSE
