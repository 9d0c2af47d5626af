SPECIFICATION Spec
CONSTANTS
    Tasks = {t1, t2, t3}
    Drain = TRUE
INVARIANT NilMeansAllDone
