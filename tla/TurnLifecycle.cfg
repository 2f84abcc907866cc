CONSTANTS
    None = None
    Prompts = {p1, p2, p3}
    Commands = {p3}
    Turns = {t1, t2}
SPECIFICATION FairSpec
CHECK_DEADLOCK FALSE
INVARIANT
    WaitTurnDrains
PROPERTY
    ServesOneTurn
    CancelEndsTurn
