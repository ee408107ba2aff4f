SPECIFICATION FileSpec
CONSTANTS
    RollSize = 2
    FileBufSize = 2
    MaxLen = 2
    MaxAppends = 3
    MaxName = 2
    MaxFailures = 2
    MaxShort = 1
    MaxOuts = 1
    MaxUnlinks = 1
    MaxRestarts = 1
    MaxFileFlushes = 2
INVARIANTS
    ContentInOrder
    FlushedSurvives
    RollBound
\* The program ends with a fault, and the calls are bounded.
CHECK_DEADLOCK FALSE
