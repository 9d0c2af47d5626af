------------------------------ MODULE Pipeline ------------------------------
(***************************************************************************)
(* test022-pipeline: the task group of TaskChan put to use.  The task      *)
(* "input" parses rows and hands them over an unbuffered channel, which it *)
(* closes when it returns; the task "output" sums them up and prints the   *)
(* result once the channel is closed.  main waits once and exits.          *)
(*                                                                         *)
(* "input" returns an error for a row that does not parse, and panics at a *)
(* row with less than three fields.  It never asks the scanner for its     *)
(* error, so that a line too long or a failed read ends the input like the *)
(* end of file.                                                            *)
(***************************************************************************)
EXTENDS TaskChan, Integers

CONSTANT MaxRows        \* bound on the rows of the input

ASSUME PipelineAssumption ==
    /\ Tasks = {"input", "output"} /\ ~Drain
    /\ MaxRows \in Nat

VARIABLES
    good,       \* well-formed rows still to be read
    ending,     \* what follows them
    offered,    \* "input" is blocked sending a row
    received,   \* rows "output" has added up
    closed,     \* dataChan is closed
    printed,    \* the rows in the printed result, or -1
    status      \* the exit status of the process, or -1

pipeVars == <<good, ending, offered, received, closed, printed, status>>
allVars == <<vars, pipeVars>>

Ending == {"eof", "read error", "bad row", "short row"}

RowsInit ==
    /\ good \in 0 .. MaxRows /\ ending \in Ending
    /\ offered = FALSE /\ received = 0 /\ closed = FALSE
    /\ printed = -1 /\ status = -1

PipeInit == Init /\ RowsInit

\* The process has neither exited nor panicked.
Running == status = -1 /\ Alive

\* input: the next row parses and is offered on the channel.
Scan ==
    /\ Running /\ task["input"] = "running"
    /\ ~offered /\ good > 0
    /\ good' = good - 1 /\ offered' = TRUE
    /\ UNCHANGED <<vars, ending, received, closed, printed, status>>

\* The rendezvous of `inputChan <- dataRow` with `range inputChan`.
TakeRow ==
    /\ Running /\ offered /\ task["output"] = "running"
    /\ offered' = FALSE /\ received' = received + 1
    /\ UNCHANGED <<vars, good, ending, closed, printed, status>>

\* Mutant: the malformed row is skipped over as if it were the end.
InputEndsLenient ==
    /\ Running /\ ~offered /\ good = 0
    /\ Succeed("input")
    /\ closed' = TRUE
    /\ UNCHANGED <<good, ending, offered, received, printed, status>>

\* Mutant: without the deferred close.
InputEndsOpen ==
    /\ Running /\ ~offered /\ good = 0
    /\ IF ending = "bad row" THEN Fail("input") ELSE Succeed("input")
    /\ UNCHANGED pipeVars

\* input ends: it returns nil or an error, or panics.  The deferred close comes before
\* the error is sent, and like the deferred wg.Done() it runs in a panic too.
InputEnds ==
    /\ Running /\ ~offered /\ good = 0
    /\ IF ending = "bad row" THEN Fail("input") ELSE Succeed("input")
    /\ closed' = TRUE
    /\ UNCHANGED <<good, ending, offered, received, printed, status>>

\* output: the range loop ends and the result is printed.
OutputEnds ==
    /\ Running /\ closed
    /\ Succeed("output")
    /\ printed' = received
    /\ UNCHANGED <<good, ending, offered, received, closed, status>>

Group ==
    /\ Running
    /\ Caller \/ Joiner \/ Done("input") \/ Done("output")
    /\ UNCHANGED pipeVars

\* input indexes past the end of a short row, and its deferred calls run.
Panicking == ending = "short row" /\ task["input"] \in {"returning", "done"}

\* A panic ends the process when the deferred calls have run.  The Go runtime makes a
\* main that returns meanwhile wait for that (for 1000 turns of the scheduler).
Exit ==
    /\ status = -1
    /\ \/ ~Alive /\ status' = 2
       \/ Panicking /\ task["input"] = "done" /\ status' = 2
       \/ Alive /\ caller = "gotnil" /\ ~Panicking /\ status' = 0
       \/ Alive /\ caller = "gaveup" /\ status' = 1
    /\ UNCHANGED <<vars, good, ending, offered, received, closed, printed>>

Gone == status # -1 /\ UNCHANGED allVars

PipeNext == Scan \/ TakeRow \/ InputEnds \/ OutputEnds \/ Group \/ Exit \/ Gone

PipeSpec ==
    /\ PipeInit /\ [][PipeNext]_allVars
    /\ WF_allVars(Scan) /\ WF_allVars(TakeRow)
    /\ WF_allVars(InputEnds) /\ WF_allVars(OutputEnds)
    /\ WF_allVars(Running /\ Caller /\ UNCHANGED pipeVars)
    /\ WF_allVars(Running /\ Joiner /\ UNCHANGED pipeVars)
    /\ \A t \in Tasks : WF_allVars(Running /\ Done(t) /\ UNCHANGED pipeVars)
    /\ WF_allVars(Exit)

-----------------------------------------------------------------------------

\* Result and exit status tell of the input.  A printed result is never short: it
\* covers every row that was read, since the channel is closed after the last send
\* (54, 70).  Unless the joiner was early (run returns tch.Wait(), 39), each status has
\* its one cause: 0 that all rows were good and their result was printed, although a read
\* error may have hidden the rest of them; 1 a row that does not parse; 2 a short row.
\* Good input never ends in 1, nor in 2 but by the joiner's fault.
OutcomeTellsInput ==
    /\ printed # -1 => good = 0 /\ ~offered /\ printed = received
    /\ status = 0 /\ ~early => ending \in {"eof", "read error"} /\ printed # -1
    /\ status = 1 => ending = "bad row"
    /\ status = 2 /\ ~early => ending = "short row"

\* The program always exits: neither task can be left blocked on the channel.
PipelineExits == <>(status # -1)
=============================================================================
