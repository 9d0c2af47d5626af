----------------------------- MODULE SignalWait ------------------------------
(***************************************************************************)
(* test860-signalfd: a process starts a child and waits for its end with   *)
(* poll on a signalfd for SIGCHLD, then ends the way the child ended.      *)
(* SIGCHLD is not blocked: it is also delivered to a handler that does     *)
(* nothing, and a signal that was delivered no longer shows in the         *)
(* signalfd.  (memset sets SA_NOCLDSTOP among others: only the end of the  *)
(* child raises the signal.)  A system call that fails ends the parent     *)
(* with an exit code of its own.                                           *)
(***************************************************************************)
CONSTANTS
    Codes,          \* exit codes of the command
    Signals,        \* signals that a process dies of
    Running,        \* of a process that has not ended
    ExecError,      \* exit code 111, meta_error_exec
    WaitError       \* exit code 112, meta_error_wait

ASSUME EndingsAssumption ==
    /\ Running \notin Codes \union Signals \union {ExecError, WaitError}
    /\ Codes \intersect Signals = {}
    /\ {ExecError, WaitError} \intersect Signals = {}

VARIABLES
    parentAt,       \* where main is
    parentEnd,      \* how the parent has ended
    childEnd,       \* how the child has ended
    sigchld,        \* the signal is pending
    missed,         \* history: the handler took the signal before poll told of it
    trouble         \* history: the call that made the parent give up

sigVars == <<parentAt, parentEnd, childEnd, sigchld, missed, trouble>>

SigInit ==
    /\ parentAt = "fork" /\ parentEnd = Running
    /\ childEnd = Running /\ sigchld = FALSE /\ missed = FALSE /\ trouble = "none"

ParentExit(e) == parentAt' = "ended" /\ parentEnd' = e

Fork ==
    /\ parentAt = "fork" /\ parentAt' = "loop"
    /\ UNCHANGED <<parentEnd, childEnd, sigchld, missed, trouble>>

\* No command, sigaction or signalfd fails (24-46), or fork does (50-53).
NotForked ==
    /\ parentAt = "fork"
    /\ \E e \in {ExecError, WaitError} : ParentExit(e)
    /\ trouble' = "setup"
    /\ UNCHANGED <<childEnd, sigchld, missed>>

\* The command ends, or cannot be executed.
ChildEnds ==
    /\ parentAt \notin {"fork", "ended"} /\ childEnd = Running
    /\ childEnd' \in Codes \union Signals \union {ExecError}
    /\ sigchld' = TRUE
    /\ UNCHANGED <<parentAt, parentEnd, missed, trouble>>

\* handle_signal_noop, before poll is called.
Handle ==
    /\ parentAt = "loop" /\ sigchld
    /\ sigchld' = FALSE /\ missed' = TRUE
    /\ UNCHANGED <<parentAt, parentEnd, childEnd, trouble>>

Poll ==
    /\ parentAt = "loop" /\ ~sigchld
    /\ parentAt' = "poll"
    /\ UNCHANGED <<parentEnd, childEnd, sigchld, missed, trouble>>

\* Mutant: the event that poll reports is not taken for the signal.
PollReadyIgnores ==
    /\ parentAt = "poll" /\ sigchld
    /\ parentAt' = "loop" /\ sigchld' = FALSE
    /\ UNCHANGED <<parentEnd, childEnd, missed, trouble>>

\* poll reports the signalfd, and the handler runs as poll returns.
PollReady ==
    /\ parentAt = "poll" /\ sigchld
    /\ parentAt' = "wait" /\ sigchld' = FALSE
    /\ UNCHANGED <<parentEnd, childEnd, missed, trouble>>

\* poll fails with EINTR: the handler has taken the signal, and the loop goes on.
PollInterrupted ==
    /\ parentAt = "poll" /\ sigchld
    /\ parentAt' = "loop" /\ sigchld' = FALSE /\ missed' = TRUE
    /\ UNCHANGED <<parentEnd, childEnd, trouble>>

\* Any other error of poll ends the parent, whatever the child does (81-82).
PollFails ==
    /\ parentAt = "poll"
    /\ ParentExit(WaitError) /\ trouble' = "poll"
    /\ UNCHANGED <<childEnd, sigchld, missed>>

\* waitpid tells how the child has ended, and the parent exits with its code or sends
\* itself its signal.  A signal that is ignored does not end it: it gets to 102.
WaitPid ==
    /\ parentAt = "wait" /\ childEnd # Running
    /\ \/ ParentExit(childEnd) /\ UNCHANGED trouble
       \/ childEnd \in Signals /\ ParentExit(WaitError) /\ trouble' = "kill"
    /\ UNCHANGED <<childEnd, sigchld, missed>>

WaitFails ==
    /\ parentAt = "wait"
    /\ ParentExit(WaitError) /\ trouble' = "wait"
    /\ UNCHANGED <<childEnd, sigchld, missed>>

ParentSteps == Fork \/ Handle \/ Poll \/ PollReady \/ PollInterrupted \/ WaitPid

ParentFails == NotForked \/ PollFails \/ WaitFails

SigNext == ParentSteps \/ ParentFails \/ ChildEnds

\* The parent runs whenever it can; nothing makes a system call fail.
SigSpec == SigInit /\ [][SigNext]_sigVars /\ WF_sigVars(ParentSteps)

-----------------------------------------------------------------------------

\* A parent that ends has ended the way its child did, or by one of its own two exit
\* codes after a call that failed: before fork there is no child, and where the signal
\* does not kill the parent the child has died of it (main, 24-104).
EndsAsChild ==
    parentAt = "ended" =>
        /\ trouble = "none" => childEnd # Running /\ parentEnd = childEnd /\ ~missed
        /\ trouble # "none" => parentEnd \in {ExecError, WaitError}
        /\ trouble = "setup" => childEnd = Running
        /\ trouble \in {"wait", "kill"} => childEnd # Running /\ ~missed
        /\ trouble = "kill" => childEnd \in Signals

\* It does end so, and may wait for ever only if the handler took the signal while poll
\* was not there to see it (main, 62-104).
ChildAwaited ==
    /\ []EndsAsChild
    /\ childEnd # Running ~> parentAt = "ended" \/ missed

\* "We will wait for child process using poll(2) via this signalfd" and "Wait for the
\* child to exit using poll(2)" (38, 62): once the child has ended, so does the wait.
\* It does not where the handler has taken the signal before poll was called.
ParentFollows == childEnd # Running ~> parentAt = "ended"
=============================================================================
