SPECIFICATION FairSpec
CONSTANTS
    k1 = k1
    k2 = k2
    k3 = k3
    qq = qq
    tg = tg
    Platforms = {qq, tg}
    Keys = {k1, k2, k3}
    PlatformOf <- MCPlatformOf
    Kinds = {"prompt", "stop"}
    Controllers = {c1, c2, c3}
    None = None
    ChanCap = 2
    MaxMessages = 3
CHECK_DEADLOCK FALSE
INVARIANTS TurnOnOpen OneOwner
PROPERTY LoopReturns
