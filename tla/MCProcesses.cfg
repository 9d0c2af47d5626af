SPECIFICATION MCSpec
CONSTANTS
    Clients = {c1, c2}
    Keys = {k1, k2}
    Values = {v1, v2}
    Absent = Absent
    MaxCalls = 3
    Size = 5
    Trials = 3
    Codes = {"code"}
    Signals = {"signal"}
    Running = "running"
    ExecError = "exec error"
    WaitError = "wait error"
    Inodes = {i1, i2, i3}
    NoFile = NoFile
    QueueCap = 4
    ReadCap = 2
    BufSize = 3
    FlushSize = 5
    MaxDelay = 3
    NoDeadline = NoDeadline
    MaxInput = 4
    Jobs = {com, net, org}
    MaxChunks = 2
    CounterSize = 4
    MaxRepeats = 2
    Users = {u1, u2, u3}
    Names = {n1, n2}
    NoPeer = NoPeer
    MaxExtra = 1
\* A call to a closed database blocks for ever; other programs end.
CHECK_DEADLOCK FALSE
INVARIANTS TrialsMatch LoopFreedClean OpenedOnceInOrder
PROPERTIES ImplementsAtomicMap ServedUnlessClosed ImplementsSwaps RexEnds
    ChildAwaited FileComesWatched ReadInTime PunchMeets
