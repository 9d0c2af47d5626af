---------------------------- MODULE DeadlinePipe ----------------------------
(***************************************************************************)
(* test599-deadline_pipe/ioex: an unbuffered pipe whose Read and Write can *)
(* time out.  A Write hands its slice to a Read over the channel data and  *)
(* learns over the channel ack how much of it was copied.                  *)
(*                                                                         *)
(* The timers are those of Go before 1.23 (the repository dates from 2018  *)
(* and has no go.mod here): the channel of a timer holds one tick, which   *)
(* neither Stop nor Reset takes out.  An ack is identified by the writer   *)
(* whose slice was copied.                                                 *)
(***************************************************************************)
EXTENDS Naturals, FiniteSets

CONSTANTS
    Readers, Writers,    \* goroutines that call Read, Write
    Nobody,
    MaxCalls,            \* bound on the calls of each goroutine
    MaxSets              \* bound on the deadlines set on each side

ASSUME ConstantsAssumption ==
    /\ IsFiniteSet(Readers) /\ IsFiniteSet(Writers)
    /\ Readers \intersect Writers = {} /\ Nobody \notin Writers
    /\ MaxCalls \in Nat /\ MaxSets \in Nat

Side == {"read", "write"}

VARIABLES
    reader,     \* reader[r]: "idle", "selecting", or "acking"
    copied,     \* copied[r]: the writer whose slice r has copied
    writer,     \* writer[w]: "idle", "selecting", or "awaiting" the ack
    acked,      \* acked[w]: whose ack the last Write of w returned
    calls,      \* calls made by each goroutine
    armed,      \* armed[d]: the timer of side d is running
    tick,       \* tick[d]: there is a tick in its channel
    setter,     \* setter[d]: the goroutine that sets the deadlines of side d
    sets,       \* deadlines set or cleared on each side
    due,        \* history: the deadline set last on side d has passed
    premature   \* history: a call of side d timed out before that

deadlineVars == <<reader, copied, writer, acked, calls, armed, tick, setter, sets, due, premature>>
callVars == <<reader, copied, writer, acked, calls>>
timerVars == <<armed, tick, setter, sets, due>>

DeadlineTypeOK ==
    /\ reader \in [Readers -> {"idle", "selecting", "acking"}]
    /\ copied \in [Readers -> Writers \union {Nobody}]
    /\ writer \in [Writers -> {"idle", "selecting", "awaiting"}]
    /\ acked \in [Writers -> Writers \union {Nobody}]
    /\ calls \in [Readers \union Writers -> 0 .. MaxCalls]
    /\ armed \in [Side -> BOOLEAN] /\ tick \in [Side -> BOOLEAN]
    /\ setter \in [Side -> {"idle", "draining"}]
    /\ sets \in [Side -> 0 .. MaxSets]
    /\ due \in [Side -> BOOLEAN] /\ premature \in [Side -> BOOLEAN]

\* NewPipe: both timers are created running, stopped and drained.
DeadlineInit ==
    /\ reader = [r \in Readers |-> "idle"]
    /\ copied = [r \in Readers |-> Nobody]
    /\ writer = [w \in Writers |-> "idle"]
    /\ acked = [w \in Writers |-> Nobody]
    /\ calls = [c \in Readers \union Writers |-> 0]
    /\ armed = [d \in Side |-> FALSE] /\ tick = [d \in Side |-> FALSE]
    /\ setter = [d \in Side |-> "idle"]
    /\ sets = [d \in Side |-> 0]
    /\ due = [d \in Side |-> FALSE] /\ premature = [d \in Side |-> FALSE]

-----------------------------------------------------------------------------
(* Read and Write.                                                          *)

Call(c) == calls[c] < MaxCalls /\ calls' = [calls EXCEPT ![c] = @ + 1]

Read(r) ==
    /\ reader[r] = "idle" /\ Call(r)
    /\ reader' = [reader EXCEPT ![r] = "selecting"]
    /\ UNCHANGED <<copied, writer, acked, timerVars, premature>>

Write(w) ==
    /\ writer[w] = "idle" /\ Call(w)
    /\ writer' = [writer EXCEPT ![w] = "selecting"]
    /\ UNCHANGED <<reader, copied, acked, timerVars, premature>>

\* Mutant: a reader reads on while an ack is still to be sent.
TransferBeforeAck(w, r) ==
    /\ writer[w] = "selecting" /\ reader[r] # "idle"
    /\ writer' = [writer EXCEPT ![w] = "awaiting"]
    /\ reader' = [reader EXCEPT ![r] = "acking"]
    /\ copied' = [copied EXCEPT ![r] = w]
    /\ UNCHANGED <<acked, calls, timerVars, premature>>

\* `p.data <- buf` meets `data := <-p.data`; the reader copies the slice.
Transfer(w, r) ==
    /\ writer[w] = "selecting" /\ reader[r] = "selecting"
    /\ writer' = [writer EXCEPT ![w] = "awaiting"]
    /\ reader' = [reader EXCEPT ![r] = "acking"]
    /\ copied' = [copied EXCEPT ![r] = w]
    /\ UNCHANGED <<acked, calls, timerVars, premature>>

\* `p.ack <- n` meets `<-p.ack` of any Write that awaits one; both return.
Acknowledge(w, r) ==
    /\ writer[w] = "awaiting" /\ reader[r] = "acking"
    /\ acked' = [acked EXCEPT ![w] = copied[r]]
    /\ writer' = [writer EXCEPT ![w] = "idle"]
    /\ reader' = [reader EXCEPT ![r] = "idle"]
    /\ copied' = [copied EXCEPT ![r] = Nobody]
    /\ UNCHANGED <<calls, timerVars, premature>>

\* `<-p.rTimeout.C`, `<-p.wTimeout.C`: the tick is used up.
TakeTick(d) ==
    /\ tick[d]
    /\ tick' = [tick EXCEPT ![d] = FALSE]
    /\ premature' = [premature EXCEPT ![d] = @ \/ ~due[d]]
    /\ UNCHANGED <<armed, setter, sets, due>>

\* Mutants: the wrong timer; a deadline that also covers the wait for the ack.
ReadTimeoutOther(r) ==
    /\ reader[r] = "selecting" /\ TakeTick("write")
    /\ reader' = [reader EXCEPT ![r] = "idle"]
    /\ UNCHANGED <<copied, writer, acked, calls>>

WriteTimeoutAlways(w) ==
    /\ writer[w] # "idle" /\ TakeTick("write")
    /\ writer' = [writer EXCEPT ![w] = "idle"]
    /\ UNCHANGED <<reader, copied, acked, calls>>

ReadTimeout(r) ==
    /\ reader[r] = "selecting" /\ TakeTick("read")
    /\ reader' = [reader EXCEPT ![r] = "idle"]
    /\ UNCHANGED <<copied, writer, acked, calls>>

WriteTimeout(w) ==
    /\ writer[w] = "selecting" /\ TakeTick("write")
    /\ writer' = [writer EXCEPT ![w] = "idle"]
    /\ UNCHANGED <<reader, copied, acked, calls>>

-----------------------------------------------------------------------------
(* SetReadDeadline, SetWriteDeadline and the timers.                        *)

Set(d) == sets[d] < MaxSets /\ sets' = [sets EXCEPT ![d] = @ + 1]

\* A deadline: Reset starts the timer and leaves an old tick where it is.
SetDeadline(d) ==
    /\ setter[d] = "idle" /\ Set(d)
    /\ armed' = [armed EXCEPT ![d] = TRUE]
    /\ due' = [due EXCEPT ![d] = FALSE]
    /\ UNCHANGED <<callVars, tick, setter, premature>>

\* The zero time: cancel() stops the timer, and waits for its tick if Stop says
\* that it was not running.
ClearDeadline(d) ==
    /\ setter[d] = "idle" /\ Set(d)
    /\ armed' = [armed EXCEPT ![d] = FALSE]
    /\ setter' = [setter EXCEPT ![d] = IF armed[d] THEN "idle" ELSE "draining"]
    /\ due' = [due EXCEPT ![d] = FALSE]
    /\ UNCHANGED <<callVars, tick, premature>>

DrainTick(d) ==
    /\ setter[d] = "draining" /\ tick[d]
    /\ tick' = [tick EXCEPT ![d] = FALSE]
    /\ setter' = [setter EXCEPT ![d] = "idle"]
    /\ UNCHANGED <<callVars, armed, sets, due, premature>>

\* The timer expires; its tick is lost if there is one in the channel already.
Expire(d) ==
    /\ armed[d]
    /\ armed' = [armed EXCEPT ![d] = FALSE]
    /\ tick' = [tick EXCEPT ![d] = TRUE]
    /\ due' = [due EXCEPT ![d] = TRUE]
    /\ UNCHANGED <<callVars, setter, sets, premature>>

Selected ==
    \/ \E w \in Writers, r \in Readers : Transfer(w, r)
    \/ \E r \in Readers : ReadTimeout(r)
    \/ \E w \in Writers : WriteTimeout(w)

Acknowledged == \E w \in Writers, r \in Readers : Acknowledge(w, r)

DeadlineNext ==
    \/ \E r \in Readers : Read(r)
    \/ \E w \in Writers : Write(w)
    \/ Selected \/ Acknowledged
    \/ \E d \in Side : SetDeadline(d) \/ ClearDeadline(d) \/ DrainTick(d) \/ Expire(d)

\* Timers expire and goroutines that can go on do; nobody has to make a call.
DeadlineSpec ==
    /\ DeadlineInit /\ [][DeadlineNext]_deadlineVars
    /\ WF_deadlineVars(Selected) /\ WF_deadlineVars(Acknowledged)
    /\ \A d \in Side : WF_deadlineVars(DrainTick(d)) /\ WF_deadlineVars(Expire(d))

-----------------------------------------------------------------------------

Acking   == {r \in Readers : reader[r] = "acking"}
Awaiting == {w \in Writers : writer[w] = "awaiting"}

\* There are always as many readers about to acknowledge as writers that await
\* an ack: no timeout leaves an ack without a taker or a Write without an ack,
\* even when acks are swapped between concurrent transfers (59, 71).
AcksPairOff == Cardinality(Acking) = Cardinality(Awaiting)

\* With a single reader or a single writer a Write returns the count of its own
\* slice; with more on both sides they can be swapped (the FIXMEs, 55, 68).
AckOwn ==
    Cardinality(Readers) = 1 \/ Cardinality(Writers) = 1
        => \A w \in Writers : acked[w] \in {w, Nobody}

\* Calls return.  A Write whose slice was taken does, and so does the Read that took
\* it; a Read under a deadline does, unless the deadline is cleared or another Read
\* uses up the tick (54-74).
CallsReturn ==
    /\ \A w \in Writers : writer[w] = "awaiting" ~> writer[w] = "idle"
    /\ \A r \in Readers : reader[r] = "acking" ~> reader[r] = "idle"
    /\ \A r \in Readers :
          reader[r] = "selecting" /\ (armed["read"] \/ tick["read"])
              ~> reader[r] # "selecting" \/ ~(armed["read"] \/ tick["read"])

\* "SetReadDeadline sets the deadline for a Read call" (34): a Read does not
\* time out ahead of the deadline that was set last.
TimeoutMeansDue == ~premature["read"]

\* SetReadDeadline returns (35-42).
SetDeadlineReturns == setter["read"] = "draining" ~> setter["read"] = "idle"
=============================================================================
