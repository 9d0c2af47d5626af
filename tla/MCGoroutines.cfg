SPECIFICATION MCSpec
CONSTANTS
    Tasks = {"input", "output"}
    Drain = FALSE
    MaxRows = 3
    GroupTasks = {t1, t2, t3}
    Readers = {r1}
    Writers = {w1, w2}
    Nobody = Nobody
    MaxCalls = 2
    MaxSets = 2
    NetCap = 3
\* Calls of the deadline pipe without a deadline, and a setter in cancel(), may wait for
\* ever; test492 can hang, and so can test493 when a pong is lost.
CHECK_DEADLOCK FALSE
INVARIANTS GroupSound GroupDropsNoError OutcomeTellsInput AcksPairOff AckOwn
    ClosedOnce SyncedMeansHeard
PROPERTIES GroupEnds PipelineEnds CallsReturn SearchEndsUnlessPongLost PeersEnd
