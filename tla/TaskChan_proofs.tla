--------------------------- MODULE TaskChan_proofs ---------------------------
(***************************************************************************)
(* Proofs about TaskChan, for every finite set of tasks and for callers    *)
(* that wait once or repeatedly.                                           *)
(***************************************************************************)
EXTENDS TaskChan, FiniteSetTheorems, TLAPS

\* The joiner, once let through and not early, sees a finished group, for good.
JoinerSeesEnd ==
    /\ joiner \in {"start", "parked"} => ~early
    /\ joiner \notin {"start", "parked"} /\ ~early => New = {} /\ Live = {}
    /\ joiner = "panic" => early
    /\ caller = "gotnil" => joiner \notin {"start", "parked"}

\* A task whose error was received is past sending it.
ReportedIsPast == \A t \in errs : task[t] \in {"returning", "done"}

Errors == NoErrorDropped /\ ReportedIsPast

IInv == TypeOK /\ CountsLive /\ Errors /\ JoinerSeesEnd

\* The live tasks are finitely many, so a counter of zero means there are none.
LEMMA LiveFinite ==
    ASSUME TypeOK, CountsLive
    PROVE  IsFiniteSet(Live) /\ (wg = 0 => Live = {})
<1>1. IsFiniteSet(Live)
  BY TasksAssumption, FS_Subset DEF Live
<1> QED
  BY <1>1, FS_EmptySet DEF CountsLive

\* Go adds a live task and counts it; Done removes one and uncounts it; every
\* other change of a task's place leaves it as live as it was.
LEMMA LiveMoves ==
    ASSUME TypeOK, CountsLive, NEW t \in Tasks, NEW from \in TaskState, NEW to \in TaskState,
           Move(t, from, to)
    PROVE  /\ task' \in [Tasks -> TaskState]
           /\ from = "new" /\ to = "running" => Cardinality(Live') = Cardinality(Live) + 1
           /\ from = "returning" /\ to = "done" =>
                 Cardinality(Live') = Cardinality(Live) - 1 /\ Cardinality(Live) \in Nat \ {0}
           /\ from # "new" /\ to \in {"failing", "returning"} /\ from # "done" => Live' = Live
<1>1. IsFiniteSet(Live)
  BY LiveFinite
<1>2. task' = [task EXCEPT ![t] = to] /\ task[t] = from
  BY DEF Move
<1>3. task' \in [Tasks -> TaskState]
  BY <1>2 DEF TypeOK
<1>4. ASSUME from = "new", to = "running"
      PROVE  Cardinality(Live') = Cardinality(Live) + 1
  <2>1. Live' = Live \union {t} /\ t \notin Live
    BY <1>2, <1>4 DEF Live, TypeOK
  <2> QED
    BY <1>1, <2>1, FS_AddElement
<1>5. ASSUME from = "returning", to = "done"
      PROVE  Cardinality(Live') = Cardinality(Live) - 1 /\ Cardinality(Live) \in Nat \ {0}
  <2>1. Live' = Live \ {t} /\ t \in Live
    BY <1>2, <1>5 DEF Live, TypeOK
  <2>2. Cardinality(Live) \in Nat /\ Cardinality(Live) # 0
    BY <1>1, <2>1, FS_CardinalityType, FS_EmptySet
  <2> QED
    BY <1>1, <2>1, <2>2, FS_RemoveElement
<1>6. ASSUME from # "new", to \in {"failing", "returning"}, from # "done"
      PROVE  Live' = Live
  BY <1>2, <1>6 DEF Live, TypeOK, TaskState
<1> QED
  BY <1>3, <1>4, <1>5, <1>6

\* New (24-27) starts the joiner on an empty group.
LEMMA InitIInv == Init => IInv
<1> SUFFICES ASSUME Init PROVE IInv
  OBVIOUS
<1>1. TypeOK /\ Errors /\ JoinerSeesEnd
  BY DEF Init, TypeOK, TaskState, JoinerState, Errors, NoErrorDropped, ReportedIsPast, JoinerSeesEnd
<1>2. Live = {}
  BY DEF Init, Live
<1> QED
  BY <1>1, <1>2, FS_EmptySet DEF IInv, CountsLive, Init

\* Every step keeps the invariant.
LEMMA StepIInv == IInv /\ [Next]_vars => IInv'
<1> SUFFICES ASSUME IInv, [Next]_vars PROVE IInv'
  OBVIOUS
<1>0. TypeOK /\ CountsLive /\ Errors /\ JoinerSeesEnd
  BY DEF IInv
<1>f. wg \in Nat /\ (wg = 0 => Live = {})
  BY <1>0, LiveFinite DEF TypeOK
<1> USE DEF TaskState, JoinerState, NoErrorDropped, ReportedIsPast, Errors
<1>1. ASSUME NEW t \in Tasks, Go(t) PROVE IInv'
  <2>1. Move(t, "new", "running") /\ t \in New
    BY <1>1 DEF Go, Move, New
  <2>2. CountsLive'
    BY <1>0, <1>1, <2>1, LiveMoves DEF Go, CountsLive
  <2>3. TypeOK' /\ Errors'
    BY <1>0, <1>1, <2>1, LiveMoves DEF Go, TypeOK, Move
  <2>4. JoinerSeesEnd'
    BY <1>0, <1>1, <2>1 DEF Go, JoinerSeesEnd
  <2> QED
    BY <2>2, <2>3, <2>4 DEF IInv
<1>2. CASE LaunchedAll
  BY <1>0, <1>2 DEF LaunchedAll, IInv, TypeOK, CountsLive, JoinerSeesEnd, New, Live
<1>3. ASSUME NEW t \in Tasks, Succeed(t) \/ Fail(t) PROVE IInv'
  <2>1. PICK to \in {"returning", "failing"} : Move(t, "running", to)
    BY <1>3 DEF Succeed, Fail
  <2>2. Live' = Live /\ New' = New /\ t \in Live
    BY <1>0, <2>1, LiveMoves DEF Move, New, TypeOK, Live
  <2>3. TypeOK' /\ CountsLive'
    BY <1>0, <1>3, <2>1, <2>2, LiveMoves DEF Succeed, Fail, TypeOK, CountsLive
  <2>4. Errors' /\ JoinerSeesEnd'
    BY <1>0, <1>3, <2>2 DEF Succeed, Fail, Move, TypeOK, JoinerSeesEnd
  <2> QED
    BY <2>3, <2>4 DEF IInv
<1>4. ASSUME NEW t \in Tasks, Done(t) PROVE IInv'
  <2>1. Move(t, "returning", "done") /\ t \in Live /\ New' = New
    BY <1>0, <1>4 DEF Done, Move, Live, New, TypeOK
  <2>2. wg' = wg - 1 /\ wg' \in Nat /\ CountsLive' /\ task' \in [Tasks -> TaskState]
    BY <1>0, <1>4, <2>1, LiveMoves DEF Done, CountsLive
  <2>3. TypeOK'
    BY <1>0, <1>4, <2>2 DEF Done, TypeOK
  <2>4. Errors'
    BY <1>0, <1>4 DEF Done, Move, TypeOK
  <2>5. wg' = 0 => Live' = {}
    <3>1. IsFiniteSet(Live')
      BY TasksAssumption, FS_Subset DEF Live
    <3> QED
      BY <2>2, <3>1, FS_EmptySet DEF CountsLive
  <2>6. JoinerSeesEnd'
    BY <1>0, <1>4, <2>1, <2>5 DEF Done, JoinerSeesEnd
  <2> QED
    BY <2>2, <2>3, <2>4, <2>6 DEF IInv
<1>5. CASE JoinerCheck \/ JoinerWake
  <2>1. TypeOK' /\ CountsLive' /\ Errors' /\ Live' = Live /\ New' = New
    BY <1>0, <1>5 DEF JoinerCheck, JoinerWake, TypeOK, CountsLive, Live, New
  <2>2. JoinerSeesEnd'
    <3>1. CASE JoinerCheck
      BY <1>0, <1>f, <2>1, <3>1 DEF JoinerCheck, JoinerSeesEnd
    <3>2. CASE JoinerWake
      <4>1. Live = {} => wg = 0
        BY <1>0, FS_EmptySet DEF CountsLive
      <4> QED
        BY <1>0, <2>1, <3>2, <4>1 DEF JoinerWake, JoinerSeesEnd
    <3> QED
      BY <1>5, <3>1, <3>2
  <2> QED
    BY <2>1, <2>2 DEF IInv
<1>6. ASSUME NEW t \in Tasks, WaitError(t) PROVE IInv'
  <2>1. Move(t, "failing", "returning")
    BY <1>6 DEF WaitError
  <2>2. Live' = Live /\ New' = New /\ t \in Live
    BY <1>0, <2>1, LiveMoves DEF Move, New, TypeOK, Live
  <2>3. TypeOK' /\ CountsLive'
    BY <1>0, <1>6, <2>1, <2>2, LiveMoves DEF WaitError, TypeOK, CountsLive
  <2>4. t \in failed
    BY <1>0, <1>6 DEF WaitError, Move
  <2>5. Errors' /\ JoinerSeesEnd'
    BY <1>0, <1>6, <2>2, <2>4 DEF WaitError, Move, TypeOK, JoinerSeesEnd
  <2> QED
    BY <2>3, <2>5 DEF IInv
<1>7. CASE WaitNil \/ UNCHANGED vars
  BY <1>0, <1>7 DEF WaitNil, vars, IInv, TypeOK, CountsLive, JoinerSeesEnd, New, Live
<1> QED
  BY <1>1, <1>2, <1>3, <1>4, <1>5, <1>6, <1>7 DEF Next, Caller, Joiner, Step, Stopped

-----------------------------------------------------------------------------
\* Type correctness, and with it a WaitGroup counter that never goes negative.
THEOREM TypeCorrect == Spec => []TypeOK
<1>1. IInv => TypeOK
  BY DEF IInv
<1> QED
  BY InitIInv, StepIInv, <1>1, PTL DEF Spec

\* The WaitGroup counts exactly the tasks that are under way (34, 37).
THEOREM CountCorrect == Spec => []CountsLive
<1>1. IInv => CountsLive
  BY DEF IInv
<1> QED
  BY InitIInv, StepIInv, <1>1, PTL DEF Spec

\* With the invariant, a nil from Wait tells that all is done and reported.
LEMMA WaitSoundly == IInv => SoundUnlessEarly
<1> SUFFICES ASSUME IInv, caller = "gotnil", ~early PROVE AllAccounted
  BY DEF IInv, JoinerSeesEnd, SoundUnlessEarly
<1>1. New = {} /\ Live = {}
  BY DEF IInv, JoinerSeesEnd
<1>2. \A t \in Tasks : task[t] = "done"
  BY <1>1 DEF New, Live, IInv, TypeOK, TaskState
<1> QED
  BY <1>2 DEF AllAccounted, IInv, Errors, NoErrorDropped, TypeOK

\* The comment of Wait holds for every group whose joiner was not let through
\* before the last Go: nil means that all tasks are done and all errors
\* were reported, and the WaitGroup never panics.
THEOREM WaitSound == Spec => []SoundUnlessEarly
BY InitIInv, StepIInv, WaitSoundly, PTL DEF Spec

\* No error is lost on the way: until Wait has returned it, the goroutine of a
\* failed task stays blocked with it (39-41).
THEOREM ErrorsKept == Spec => []NoErrorDropped
<1>1. IInv => NoErrorDropped
  BY DEF IInv, Errors
<1> QED
  BY InitIInv, StepIInv, <1>1, PTL DEF Spec
=============================================================================
