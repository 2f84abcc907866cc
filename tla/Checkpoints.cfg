SPECIFICATION StoreSpec
CONSTANTS
    Files = {"f"}
    maxCheckpoints = 3
    MaxUserTurns = 2
    MaxWrites = 2
    MaxRewinds = 2
    MaxFaults = 1
CHECK_DEADLOCK FALSE
INVARIANTS PreviewHonest DiskIsStore
PROPERTY RewindExact
