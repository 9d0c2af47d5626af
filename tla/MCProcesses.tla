---------------------------- MODULE MCProcesses ------------------------------
(***************************************************************************)
(* One run of TLC for eight small programs: an initial state chooses the   *)
(* program that runs, and the variables of the others stay as they were.   *)
(***************************************************************************)
EXTENDS Kvs, ReplicaExchange, SignalWait, FileRewatch, ReadDeadline, UvFetch,
        GcmSeq, HolePunch

VARIABLE program

Programs == {"kvs", "rex", "signal", "rewatch", "read", "uv",
             "gcm", "punch"}

SomeName == CHOOSE n \in Names : TRUE

MCInit ==
    /\ program \in Programs
    /\ Init /\ RexInit /\ SigInit /\ ReadInit /\ UvInit
    /\ RewatchInit /\ (program # "rewatch" => file = NoFile)
    /\ GcmInit
    /\ PunchInit /\ (program # "punch" => keyOf = [u \in Users |-> SomeName])

\* The variables v belong to another program than p, or p is the one that runs.
Frozen(p, v) == IF program = p THEN TRUE ELSE UNCHANGED v

MCNext ==
    /\ \/ program = "kvs" /\ Next
       \/ program = "rex" /\ RexNext
       \/ program = "signal" /\ SigNext
       \/ program = "rewatch" /\ RewatchNext
       \/ program = "read" /\ ReadNext
       \/ program = "uv" /\ UvNext
       \/ program = "gcm" /\ GcmNext
       \/ program = "punch" /\ PunchNext
    /\ UNCHANGED program
    /\ Frozen("kvs", vars) /\ Frozen("rex", rexVars) /\ Frozen("signal", sigVars)
    /\ Frozen("rewatch", rewatchVars) /\ Frozen("read", readVars) /\ Frozen("uv", uvVars)
    /\ Frozen("gcm", gcmVars) /\ Frozen("punch", punchVars)

MCvars == <<program, vars, rexVars, sigVars, rewatchVars, readVars, uvVars,
            gcmVars, punchVars>>

\* What each module assumes of its scheduler, when its program is the one that runs.
MCFairness ==
    /\ WF_vars(program = "kvs" /\ Actor)
    /\ \A p \in Ranks : /\ WF_rexVars(program = "rex" /\ Proceed(p))
                        /\ WF_rexVars(program = "rex" /\ Sent(p) /\ Received(p))
    /\ WF_sigVars(program = "signal" /\ ParentSteps)
    /\ WF_rewatchVars(program = "rewatch" /\ RewatchSteps)
    /\ WF_readVars(program = "read" /\ ReadSteps)
    /\ WF_readVars(program = "read" /\ PassTime)
    /\ \A u \in Users :
          /\ WF_punchVars(program = "punch" /\ Rendezvous(u))
          /\ WF_punchVars(program = "punch" /\ Register(u))
          /\ WF_punchVars(program = "punch" /\ Punch(u))
          /\ WF_punchVars(program = "punch" /\ Greet(u))
          /\ WF_punchVars(program = "punch" /\ \E p \in Users : Learn(u, p))

MCSpec == MCInit /\ [][MCNext]_MCvars /\ MCFairness

\* Every process gets through all its exchanges (ReplicaExchange) when they run.
RexEnds == program = "rex" => ExchangeEnds

\* Bytes are flushed in time (ReadDeadline) when that program runs.
ReadInTime == program = "read" => BytesHeldInTime

\* The clients of HolePunch find each other when they run.
PunchMeets == program = "punch" => PairsMeet
=============================================================================
