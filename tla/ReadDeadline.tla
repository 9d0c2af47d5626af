---------------------------- MODULE ReadDeadline -----------------------------
(***************************************************************************)
(* test147-read_deadline.c: a program gathers its input and flushes it     *)
(* when it holds enough, or when some time has passed since the first      *)
(* byte it holds.  wait_input turns the deadline into a timeout of select, *)
(* and a timeout below zero is an error of select (EINVAL), which ends the *)
(* program.                                                                *)
(*                                                                         *)
(* Time passes between any two steps.  The deadline is kept as the time    *)
(* left until it, counted down to -1: "it is past".  The timeout of select *)
(* is relative and runs only while select waits.                           *)
(***************************************************************************)
EXTENDS Integers, FiniteSetsExt

CONSTANTS
    BufSize,        \* sizeof buf: 10
    FlushSize,      \* flush_size: 16
    MaxDelay,       \* max_delay: 3 seconds
    NoDeadline,     \* active_deadline = NULL
    MaxInput        \* capacity of the pipe at stdin

ASSUME ReadAssumption ==
    /\ {BufSize, FlushSize, MaxDelay, MaxInput} \subseteq Nat \ {0}
    /\ NoDeadline \notin Int

VARIABLES
    loopAt,         \* where the program is
    avail,          \* bytes gathered and not flushed
    got,            \* nb_read, not yet added to avail
    left,           \* time left until the deadline
    timer,          \* time left of the timeout of select
    held,           \* history: how long the first byte not flushed has been held
    waited,         \* history: how much of that time select has waited for
    input,          \* bytes in the pipe
    inputEnded      \* its writing end is closed

readVars == <<loopAt, avail, got, left, timer, held, waited, input, inputEnded>>

ReadInit ==
    /\ loopAt = "top" /\ avail = 0 /\ got = 0
    /\ left = NoDeadline /\ timer = NoDeadline /\ held = 0 /\ waited = 0
    /\ input = 0 /\ inputEnded = FALSE

Ended == loopAt \in {"eof", "expired", "broken"}

\* The world: input arrives and ends, time passes.
Arrive ==
    /\ ~inputEnded /\ ~Ended
    /\ \/ input' \in input + 1 .. MaxInput /\ UNCHANGED inputEnded
       \/ inputEnded' = TRUE /\ UNCHANGED input
    /\ UNCHANGED <<loopAt, avail, got, left, timer, held, waited>>

PassTime ==
    /\ ~Ended
    /\ left' = IF left \in {NoDeadline, -1} THEN left ELSE left - 1
    /\ LET running == loopAt = "select" /\ timer \notin {NoDeadline, 0}
       IN  /\ timer' = IF running THEN timer - 1 ELSE timer
           /\ waited' = IF running THEN waited + 1 ELSE waited
    /\ held' = IF avail + got > 0 THEN Min({held + 1, MaxDelay + 1}) ELSE held
    /\ <<left, timer, held>>' # <<left, timer, held>>
    /\ UNCHANGED <<loopAt, avail, got, input, inputEnded>>

\* wait_input reads the clock and subtracts (91-97).
ReadClock ==
    /\ loopAt = "top" /\ loopAt' = "call"
    /\ timer' = left
    /\ UNCHANGED <<avail, got, left, held, waited, input, inputEnded>>

\* select is called, at any later time, with what was left then (98, 100).
CallSelect ==
    /\ loopAt = "call"
    /\ loopAt' = IF timer = -1 THEN "expired" ELSE "select"
    /\ UNCHANGED <<avail, got, left, timer, held, waited, input, inputEnded>>

\* select tells that there is input, or its end, and read takes it (30-33, 78).
ReadInput ==
    /\ loopAt = "select" /\ (input > 0 \/ inputEnded)
    /\ got' = Min({input, BufSize})
    /\ input' = input - got'
    /\ loopAt' = IF got' = 0 THEN "eof" ELSE "got"
    /\ timer' = NoDeadline
    /\ UNCHANGED <<avail, left, held, waited, inputEnded>>

\* select times out (39-41, 74-77).
TimeOut ==
    /\ loopAt = "select" /\ timer = 0 /\ input = 0 /\ ~inputEnded
    /\ loopAt' = "got" /\ timer' = NoDeadline
    /\ UNCHANGED <<avail, got, left, held, waited, input, inputEnded>>

\* Mutant: every read renews the deadline.
TallyRenews ==
    /\ loopAt = "got" /\ loopAt' = "top" /\ got' = 0
    /\ LET flush == avail + got >= FlushSize \/ got = 0
       IN  /\ avail' = IF flush THEN 0 ELSE avail + got
           /\ left' = IF flush THEN NoDeadline ELSE MaxDelay
           /\ held' = IF flush THEN 0 ELSE held
           /\ waited' = IF flush THEN 0 ELSE waited
    /\ UNCHANGED <<timer, input, inputEnded>>

\* A first byte sets the deadline; enough bytes, or a timeout, flush them (42-58).
Tally ==
    /\ loopAt = "got" /\ loopAt' = "top" /\ got' = 0
    /\ LET flush == avail + got >= FlushSize \/ got = 0
       IN  /\ avail' = IF flush THEN 0 ELSE avail + got
           /\ left' = IF flush THEN NoDeadline
                      ELSE IF avail = 0 THEN MaxDelay ELSE left
           /\ held' = IF flush THEN 0 ELSE held
           /\ waited' = IF flush THEN 0 ELSE waited
    /\ UNCHANGED <<timer, input, inputEnded>>

\* The clock (43, 93), select (98, 100: a signal is enough) or read (78) fails.
CallFails ==
    /\ ~Ended /\ loopAt' = "broken"
    /\ UNCHANGED <<avail, got, left, timer, held, waited, input, inputEnded>>

ReadSteps == ReadClock \/ CallSelect \/ ReadInput \/ TimeOut \/ Tally

ReadNext == ReadSteps \/ CallFails \/ Arrive \/ PassTime

ReadSpec == ReadInit /\ [][ReadNext]_readVars

-----------------------------------------------------------------------------

\* While bytes are held, however late the program is between the clock, select and its
\* own steps: select does not time out ahead of max_delay from the first byte, and all
\* its waits since then add up to max_delay at most, because the deadline is not put off
\* by later bytes (42-49, 91-98).  Only a program later than max_delay calls select with
\* a deadline that has passed.
SelectInTime ==
    /\ loopAt \in {"call", "select"} /\ avail > 0 =>
          timer + held >= MaxDelay /\ timer + waited <= MaxDelay
    /\ loopAt = "expired" => avail > 0 /\ held > MaxDelay

\* So far in time; and bytes are flushed in the end unless the program ends with them:
\* at the end of the input (30-33), after a failed call, or because it came to select
\* when the deadline had passed (34-38).
BytesHeldInTime ==
    /\ []SelectInTime
    /\ avail > 0 ~> avail = 0 \/ Ended

\* wait_input "waits for any data available for read from given descriptor or passing
\* deadline" and "returns 1 on receiving data, 0 on timeout, or -1 on any error" (81-84):
\* a deadline that has passed is a timeout.  select takes the negative time left for an
\* error instead, and the program ends with the bytes it holds (97-98, 34-38).
PassedDeadlineTimesOut == loopAt # "expired"
=============================================================================
