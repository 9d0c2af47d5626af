SPECIFICATION ReadSpec
CONSTANTS
    BufSize = 10
    FlushSize = 16
    MaxDelay = 3
    NoDeadline = NoDeadline
    MaxInput = 12
\* The program ends.
CHECK_DEADLOCK FALSE
INVARIANT PassedDeadlineTimesOut
