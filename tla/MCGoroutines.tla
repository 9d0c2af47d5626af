---------------------------- MODULE MCGoroutines -----------------------------
(***************************************************************************)
(* One run of TLC for the task group, alone and in the pipeline, for the   *)
(* deadline pipe and for the two ping-pong programs: an initial state      *)
(* chooses the program that runs, and the variables of the others stay as  *)
(* they were.                                                              *)
(***************************************************************************)
EXTENDS Pipeline, DeadlinePipe, PingPong

CONSTANT GroupTasks     \* the tasks of the group that runs alone

\* Its caller calls Wait until it returns nil.
Alone == INSTANCE TaskChan WITH Tasks <- GroupTasks, Drain <- TRUE

VARIABLE program

Programs == {"group", "pipeline", "deadline", "pingpong"}

MCInit ==
    /\ program \in Programs
    /\ IF program = "group" THEN Alone!Init ELSE Init
    /\ RowsInit /\ (program # "pipeline" => good = 0 /\ ending = "eof")
    /\ DeadlineInit
    /\ PingInit /\ (program # "pingpong" => ~proceed /\ ~faulty)

\* The variables v belong to other programs than those of ps, or one of ps runs.
Frozen(ps, v) == IF program \in ps THEN TRUE ELSE UNCHANGED v

MCNext ==
    /\ \/ program = "group" /\ Alone!Next
       \/ program = "pipeline" /\ PipeNext
       \/ program = "deadline" /\ DeadlineNext
       \/ program = "pingpong" /\ PingNext
    /\ UNCHANGED program
    /\ Frozen({"group", "pipeline"}, vars) /\ Frozen({"pipeline"}, pipeVars)
    /\ Frozen({"deadline"}, deadlineVars) /\ Frozen({"pingpong"}, pingVars)

MCvars == <<program, allVars, deadlineVars, pingVars>>

\* What each module assumes of its scheduler, when its program is the one that runs.
MCFairness ==
    /\ WF_vars(program = "group" /\ Alone!Caller) /\ WF_vars(program = "group" /\ Alone!Joiner)
    /\ \A t \in GroupTasks : WF_vars(program = "group" /\ Alone!Step(t))
    /\ WF_allVars(program = "pipeline" /\ Scan) /\ WF_allVars(program = "pipeline" /\ TakeRow)
    /\ WF_allVars(program = "pipeline" /\ InputEnds)
    /\ WF_allVars(program = "pipeline" /\ OutputEnds)
    /\ WF_allVars(program = "pipeline" /\ Running /\ Caller /\ UNCHANGED pipeVars)
    /\ WF_allVars(program = "pipeline" /\ Running /\ Joiner /\ UNCHANGED pipeVars)
    /\ \A t \in Tasks : WF_allVars(program = "pipeline" /\ Running /\ Done(t) /\ UNCHANGED pipeVars)
    /\ WF_allVars(program = "pipeline" /\ Exit)
    /\ WF_deadlineVars(program = "deadline" /\ Selected)
    /\ WF_deadlineVars(program = "deadline" /\ Acknowledged)
    /\ \A d \in Side : /\ WF_deadlineVars(program = "deadline" /\ DrainTick(d))
                       /\ WF_deadlineVars(program = "deadline" /\ Expire(d))
    /\ \A p \in Peer : /\ WF_pingVars(program = "pingpong" /\ Main(p))
                       /\ WF_pingVars(program = "pingpong" /\ Ping(p))
                       /\ WF_pingVars(program = "pingpong" /\ Pong(p))

MCSpec == MCInit /\ [][MCNext]_MCvars /\ MCFairness

\* SoundUnlessEarly, NoErrorDropped and GroupWindsUp of TaskChan, of the group that runs
\* alone.
GroupSound == program = "group" => Alone!SoundUnlessEarly
GroupDropsNoError == program = "group" => Alone!NoErrorDropped
GroupEnds ==
    /\ <>(program = "group" => Alone!Served)
    /\ <>[](program = "group" => Alone!NoneLeftBehind)

\* The pipeline exits (PipelineExits), and the peers of PingPong get through on a
\* perfect link (PerfectLinkEnds), when they run.
PipelineEnds == program = "pipeline" => PipelineExits
PeersEnd == program = "pingpong" => PerfectLinkEnds
=============================================================================
