SPECIFICATION DeadlineSpec
CONSTANTS
    Readers = {r1}
    Writers = {w1, w2}
    Nobody = Nobody
    MaxCalls = 2
    MaxSets = 3
\* Calls without a deadline, and a setter in cancel(), may wait for ever.
CHECK_DEADLOCK FALSE
INVARIANT TimeoutMeansDue
