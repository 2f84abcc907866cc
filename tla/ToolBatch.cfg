SPECIFICATION BatchSpec
CONSTANTS
    read = read
    todo = todo
    editA = editA
    editB = editB
    editC = editC
    bash = bash
    Ops <- MCOps
    Readers <- MCReaders
    Ledger <- MCLedger
    Footprint <- MCFootprint
    Tracked <- MCTracked
    maxParallel = 2
    opFailureThreshold = 2
    episodeFailureLimit = 3
    repeatSuccessBreakThreshold = 1
    MaxCalls = 3
    MaxBatches = 2
SYMMETRY EditSymmetry
INVARIANTS ConflictsOrdered TurnFailuresBounded FailingOpStops
CHECK_DEADLOCK FALSE
