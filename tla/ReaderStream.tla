---------------------------- MODULE ReaderStream ----------------------------
(***************************************************************************)
(* test522-unreliable_reader: one goroutine writes the numbers 0, 1, 2 ... *)
(* into a pipe and closes it; main reads them through an unreliable reader *)
(* until EOF.  The stream may be closed after any number of messages up to *)
(* MaxStream (the program writes 100).                                     *)
(***************************************************************************)
EXTENDS UnreliableReader, Sequences, FiniteSets, Functions

CONSTANT MaxStream       \* bound on the messages of a stream

ASSUME MaxStreamAssumption == MaxStream \in Nat /\ NoMsg \notin Nat

VARIABLES
    counter, delay,      \* the reader
    written,             \* messages 1 .. written have entered the pipe
    closed,              \* w.Close() was called
    read,                \* messages 1 .. read have left the pipe
    out,                 \* what main has printed
    direct,              \* history: messages handed over by a successful read
    over                 \* main has seen EOF

vars == <<counter, delay, written, closed, read, out, direct, over>>

\* The non-nil, zeroed buffer left in ur.delay when the read into it fails.
Blank == 0

Init ==
    /\ counter = 0 /\ delay = NoMsg
    /\ written = 0 /\ closed = FALSE
    /\ read = 0 /\ out = <<>> /\ direct = {} /\ over = FALSE

\* The writing goroutine: each Write waits until the one before it was read.
Write ==
    /\ ~closed /\ written < MaxStream /\ read = written
    /\ written' = written + 1
    /\ UNCHANGED <<counter, delay, closed, read, out, direct, over>>

Close ==
    /\ ~closed /\ read = written
    /\ closed' = TRUE
    /\ UNCHANGED <<counter, delay, written, read, out, direct, over>>

\* One pass of Read that takes the next message from the pipe.
Consume ==
    /\ ~over /\ read < written
    /\ read' = read + 1
    /\ counter' = Tick(counter)
    /\ UNCHANGED <<written, closed, over>>

Pass ==
    /\ Passes(counter, delay) /\ Consume
    /\ out' = Append(out, read')
    /\ direct' = direct \union {read'}
    /\ UNCHANGED delay

Drop ==
    /\ Drops(counter, delay) /\ Consume
    /\ UNCHANGED <<delay, out, direct>>

Store ==
    /\ Stores(counter, delay) /\ Consume
    /\ delay' = read'
    /\ UNCHANGED <<out, direct>>

\* Mutant: the buffer is handed over but not cleared.
DeliverAgain ==
    /\ ~over /\ Returns(counter, delay)
    /\ counter' = Tick(counter)
    /\ out' = Append(out, delay)
    /\ UNCHANGED <<delay, written, closed, read, direct, over>>

Deliver ==
    /\ ~over /\ Returns(counter, delay)
    /\ counter' = Tick(counter)
    /\ out' = Append(out, delay)
    /\ delay' = NoMsg
    /\ UNCHANGED <<written, closed, read, direct, over>>

\* EOF, on any pass that needs the source; main stops.
Eof ==
    /\ ~over /\ closed /\ read = written
    /\ ~Returns(counter, delay)
    /\ counter' = Tick(counter)
    /\ delay' = IF Stores(counter, delay) THEN Blank ELSE delay
    /\ over' = TRUE
    /\ UNCHANGED <<written, closed, read, out, direct>>

Stopped == over /\ UNCHANGED vars

Next == Write \/ Close \/ Pass \/ Drop \/ Store \/ Deliver \/ Eof \/ Stopped

Spec == Init /\ [][Next]_vars

-----------------------------------------------------------------------------

\* Of any five messages in a row at least one is handed over directly: the
\* margin the five Acks of test520 live on (unreliable_reader.go 22-51).
OneOfFivePasses ==
    \A i \in 1 .. read : i + 4 <= read => (i .. i + 4) \intersect direct # {}

\* main prints only messages it has read, and none twice: the delay buffer is emptied
\* when it is handed over.  A delayed message is overtaken by at most one other (52-72).
PrintedInTurn ==
    /\ IsInjective(out)
    /\ Range(out) \subseteq 1 .. read
    /\ \A i \in 1 .. Len(out) : Cardinality({j \in 1 .. i - 1 : out[j] > out[i]}) <= 1
=============================================================================
