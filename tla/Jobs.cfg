SPECIFICATION AllSpec
CONSTANTS
    Jobs = {j1, j2}
    Waiters = {w1}
    Polled = j1
    tailCap = 1
    MaxBytes = 4
    MaxWrite = 2
INVARIANTS NotedOnce WaitSeesEnd CloseWaitsForStarted PolledToTheEnd
PROPERTY KilledIsNoted
CHECK_DEADLOCK FALSE
