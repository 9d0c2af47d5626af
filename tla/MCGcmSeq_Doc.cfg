SPECIFICATION GcmSpec
CONSTANTS
    CounterSize = 4
    MaxRepeats = 2
\* The sealing Cipher panics and the link runs empty.
CHECK_DEADLOCK FALSE
INVARIANT ReplayMeansDecrypted
