------------------------------ MODULE TaskChan ------------------------------
(***************************************************************************)
(* test023-taskchan/taskch: a group of tasks run as goroutines.  Go starts *)
(* a task, Wait returns the error of one that failed, or nil once the      *)
(* joiner goroutine started by New has seen the WaitGroup at zero.         *)
(*                                                                         *)
(* One goroutine uses the group: it launches every task of Tasks with Go   *)
(* and then calls Wait, until it returns nil if Drain (as the comment of   *)
(* Wait advises and TestTaskch_processAllErrors does), once otherwise (as  *)
(* main.go and the pipeline of test022 do).  Each task may fail or not.    *)
(***************************************************************************)
EXTENDS Naturals, FiniteSets

CONSTANTS Tasks, Drain

ASSUME TasksAssumption == IsFiniteSet(Tasks) /\ Drain \in BOOLEAN

VARIABLES
    wg,         \* counter of the WaitGroup
    joiner,     \* the goroutine started by New
    task,       \* task[t]: where the goroutine of task t is
    caller,     \* where the user of the group is
    errs,       \* tasks whose error Wait has returned
    failed,     \* history: tasks that returned an error
    early       \* history: the joiner was let through while tasks were still to be launched

vars == <<wg, joiner, task, caller, errs, failed, early>>

\* "panic" is the WaitGroup's own check against reuse, which ends the program.
JoinerState == {"start", "parked", "woken", "joining", "done", "panic"}
TaskState   == {"new", "running", "failing", "returning", "done"}

TypeOK ==
    /\ wg \in Nat
    /\ joiner \in JoinerState
    /\ task \in [Tasks -> TaskState]
    /\ caller \in {"launching", "waiting", "gaveup", "gotnil"}
    /\ errs \subseteq Tasks /\ failed \subseteq Tasks
    /\ early \in BOOLEAN

Alive == joiner # "panic"
New   == {t \in Tasks : task[t] = "new"}
Live  == {t \in Tasks : task[t] \in {"running", "failing", "returning"}}

\* New: the joiner goroutine is started at once, before any task.
Init ==
    /\ wg = 0 /\ joiner = "start"
    /\ task = [t \in Tasks |-> "new"]
    /\ caller = "launching"
    /\ errs = {} /\ failed = {} /\ early = FALSE

Move(t, from, to) ==
    /\ task[t] = from
    /\ task' = [task EXCEPT ![t] = to]

\* Go: wg.Add(1) and the goroutine.
Go(t) ==
    /\ Alive /\ caller = "launching"
    /\ Move(t, "new", "running")
    /\ wg' = wg + 1
    /\ UNCHANGED <<joiner, caller, errs, failed, early>>

LaunchedAll ==
    /\ Alive /\ caller = "launching" /\ New = {}
    /\ caller' = "waiting"
    /\ UNCHANGED <<wg, joiner, task, errs, failed, early>>

\* Mutant: a failed task does not wait for a receiver of its error.
FailUnheard(t) ==
    /\ Alive
    /\ Move(t, "running", "returning")
    /\ failed' = failed \union {t}
    /\ UNCHANGED <<wg, joiner, caller, errs, early>>

\* The task's function returns: nil, or an error that its goroutine offers on tch.err.
Succeed(t) ==
    /\ Alive
    /\ Move(t, "running", "returning")
    /\ UNCHANGED <<wg, joiner, caller, errs, failed, early>>

Fail(t) ==
    /\ Alive
    /\ Move(t, "running", "failing")
    /\ failed' = failed \union {t}
    /\ UNCHANGED <<wg, joiner, caller, errs, early>>

\* The deferred wg.Done().  The last one releases a parked joiner.
Done(t) ==
    /\ Alive
    /\ Move(t, "returning", "done")
    /\ wg' = wg - 1
    /\ IF wg' = 0 /\ joiner = "parked"
       THEN joiner' = "woken" /\ early' = (New # {})
       ELSE UNCHANGED <<joiner, early>>
    /\ UNCHANGED <<caller, errs, failed>>

\* Mutant: the joiner does not wait.
JoinerNoWait ==
    /\ joiner = "start"
    /\ joiner' = "joining" /\ early' = (New # {})
    /\ UNCHANGED <<wg, task, caller, errs, failed>>

\* wg.Wait() of the joiner: it passes at zero and parks otherwise.
JoinerCheck ==
    /\ joiner = "start"
    /\ IF wg = 0
       THEN joiner' = "joining" /\ early' = (New # {})
       ELSE joiner' = "parked" /\ UNCHANGED early
    /\ UNCHANGED <<wg, task, caller, errs, failed>>

\* On its way out Wait panics if the group is in use again.
JoinerWake ==
    /\ joiner = "woken"
    /\ joiner' = IF wg = 0 THEN "joining" ELSE "panic"
    /\ UNCHANGED <<wg, task, caller, errs, failed, early>>

\* Mutant: the caller stops at the first error.
WaitErrorOnce(t) ==
    /\ Alive /\ caller = "waiting"
    /\ Move(t, "failing", "returning")
    /\ errs' = errs \union {t}
    /\ caller' = "gaveup"
    /\ UNCHANGED <<wg, joiner, failed, early>>

\* Wait: either case of its select.
WaitError(t) ==
    /\ Alive /\ caller = "waiting"
    /\ Move(t, "failing", "returning")
    /\ errs' = errs \union {t}
    /\ caller' = IF Drain THEN "waiting" ELSE "gaveup"
    /\ UNCHANGED <<wg, joiner, failed, early>>

WaitNil ==
    /\ caller = "waiting" /\ joiner = "joining"
    /\ joiner' = "done" /\ caller' = "gotnil"
    /\ UNCHANGED <<wg, task, errs, failed, early>>

\* The caller is served; what is still blocked stays so.
Stopped ==
    /\ caller \in {"gaveup", "gotnil"} \/ ~Alive
    /\ UNCHANGED vars

Step(t) == Succeed(t) \/ Fail(t) \/ Done(t)
Joiner == JoinerCheck \/ JoinerWake
Caller == LaunchedAll \/ WaitNil \/ \E t \in Tasks : Go(t) \/ WaitError(t)

Next == Caller \/ Joiner \/ (\E t \in Tasks : Step(t)) \/ Stopped

\* Tasks return, and the Go scheduler runs every goroutine that can run.
Spec ==
    /\ Init /\ [][Next]_vars
    /\ WF_vars(Caller) /\ WF_vars(Joiner)
    /\ \A t \in Tasks : WF_vars(Step(t))

-----------------------------------------------------------------------------

\* The WaitGroup counts the live tasks: what the joiner relies on.
CountsLive == wg = Cardinality(Live)

\* The comment of Wait (45-47): once repeated calls have returned nil, every
\* task has finished, and every failure was reported.
AllAccounted == (\A t \in Tasks : task[t] = "done") /\ errs = failed
NilMeansAllDone == caller = "gotnil" => AllAccounted

\* The comment holds, and the WaitGroup's reuse check never strikes, as long as
\* the joiner was not let through between New and the last Go (24-27, 33-34).
SoundUnlessEarly ==
    /\ joiner = "panic" => early
    /\ caller = "gotnil" /\ ~early => AllAccounted

\* Every error reported is one that happened, and a failed task whose error
\* nobody has received is still blocked: no error is dropped silently (39-41).
NoErrorDropped ==
    /\ errs \subseteq failed
    /\ \A t \in Tasks : t \in failed \ errs <=> task[t] = "failing"

\* The caller is out of Wait, or the program panicked.
Served == caller \in {"gaveup", "gotnil"} \/ ~Alive

\* Repeated calls of Wait leave no goroutine behind, unless the joiner was early: then
\* tasks that fail later block for ever on tch.err (40, 48-57).
NoneLeftBehind == early \/ \A t \in Tasks : task[t] = "done"

\* The caller always gets out of Wait, and in the end no goroutine is left.
GroupWindsUp == <>Served /\ <>[]NoneLeftBehind
=============================================================================
