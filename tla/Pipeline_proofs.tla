--------------------------- MODULE Pipeline_proofs ---------------------------
(***************************************************************************)
(* Proofs about Pipeline, for any number of rows.  Every step of the       *)
(* pipeline is a step of its task group or leaves the group alone, so the  *)
(* invariant of TaskChan_proofs carries over.                              *)
(***************************************************************************)
EXTENDS Pipeline, TaskChan_proofs

PipeTypeOK ==
    /\ good \in Nat /\ ending \in Ending /\ offered \in BOOLEAN
    /\ received \in Nat /\ closed \in BOOLEAN /\ printed \in Int
    /\ status \in {-1, 0, 1, 2}

\* The channel is open exactly as long as "input" has not ended, which it does when there
\* are no more good rows, and with an error when one does not parse.
InputClosed ==
    /\ closed <=> task["input"] \notin {"new", "running"}
    /\ closed => good = 0 /\ ~offered
    /\ "input" \in failed <=> closed /\ ending = "bad row"

\* "output" never fails, and prints what it has received once there is no more.
OutputPrinted ==
    /\ "output" \notin failed
    /\ printed # -1 => closed /\ printed = received
    /\ printed # -1 <=> task["output"] \notin {"new", "running"}

\* main gives up at the first error that it is told.
OneWait == caller = "gaveup" <=> errs # {}

\* What has happened when the process exits with a status of its own.
StatusEarned ==
    /\ status = 0 => caller = "gotnil" /\ ~Panicking
    /\ status = 1 => caller = "gaveup"
    /\ status = 2 => ~Alive \/ ending = "short row"

PipeInv == IInv /\ PipeTypeOK /\ InputClosed /\ OutputPrinted /\ OneWait /\ StatusEarned

\* A process that has not exited owes no explanation.
LEMMA NotExited == status = -1 => StatusEarned
BY DEF StatusEarned

\* The pipeline starts with nothing launched.
LEMMA InitPipeInv == PipeInit => PipeInv
<1> SUFFICES ASSUME PipeInit PROVE PipeInv
  OBVIOUS
<1>1. IInv /\ Init
  BY InitIInv DEF PipeInit
<1>2. PipeTypeOK
  <2>1. good \in Nat
    BY PipelineAssumption DEF PipeInit, RowsInit
  <2>2. received \in Nat /\ printed \in Int
    BY DEF PipeInit, RowsInit
  <2>3. ending \in Ending /\ offered \in BOOLEAN /\ closed \in BOOLEAN /\ status = -1
    BY DEF PipeInit, RowsInit
  <2> QED
    BY <2>1, <2>2, <2>3 DEF PipeTypeOK
<1>3. task["input"] = "new" /\ task["output"] = "new"
  BY <1>1, PipelineAssumption DEF Init
<1> QED
  BY <1>1, <1>2, <1>3, NotExited DEF PipeInit, RowsInit, PipeInv, Init, InputClosed, OutputPrinted,
    OneWait

\* The group's own invariant is kept by every step of the pipeline.
LEMMA GroupKept == IInv /\ [PipeNext]_allVars => IInv'
<1>1. [PipeNext]_allVars => [Next]_vars
  BY PipelineAssumption DEF PipeNext, allVars, Scan, TakeRow, InputEnds, OutputEnds, Group, Exit, Gone,
    Next, Step
<1> QED
  BY <1>1, StepIInv

\* Every step of the pipeline keeps its invariant.
LEMMA StepPipeInv == PipeInv /\ [PipeNext]_allVars => PipeInv'
<1> SUFFICES ASSUME PipeInv, [PipeNext]_allVars PROVE PipeInv'
  OBVIOUS
<1>0. /\ IInv /\ PipeTypeOK /\ InputClosed /\ OutputPrinted /\ OneWait /\ StatusEarned /\ IInv'
      /\ TypeOK /\ TypeOK' /\ NoErrorDropped
      /\ Tasks = {"input", "output"} /\ ~Drain
  BY GroupKept, PipelineAssumption DEF PipeInv, IInv, Errors
<1>1. task \in [{"input", "output"} -> TaskState]
  BY <1>0 DEF TypeOK
<1> USE DEF vars, pipeVars
<1>2. CASE Scan
  <2>1. PipeTypeOK'
    BY <1>0, <1>2 DEF Scan, PipeTypeOK
  <2>2. InputClosed' /\ OutputPrinted' /\ OneWait'
    BY <1>0, <1>2 DEF Scan, InputClosed, OutputPrinted, OneWait
  <2>3. StatusEarned'
    BY <1>2 DEF Scan, Running, StatusEarned
  <2> QED
    BY <1>0, <2>1, <2>2, <2>3 DEF PipeInv
<1>3. CASE TakeRow
  <2>1. PipeTypeOK'
    <3>1. received' \in Nat
      BY <1>0, <1>3 DEF TakeRow, PipeTypeOK
    <3>2. offered' \in BOOLEAN
      BY <1>3 DEF TakeRow
    <3> QED
      BY <1>0, <1>3, <3>1, <3>2 DEF TakeRow, PipeTypeOK
  <2>2. InputClosed' /\ OneWait'
    BY <1>0, <1>3 DEF TakeRow, InputClosed, OneWait
  <2>3. OutputPrinted'
    BY <1>0, <1>3 DEF TakeRow, OutputPrinted
  <2>4. StatusEarned'
    BY <1>3 DEF TakeRow, Running, StatusEarned
  <2> QED
    BY <1>0, <2>1, <2>2, <2>3, <2>4 DEF PipeInv
<1>4. CASE InputEnds
  <2>1. PICK to \in {"failing", "returning"} :
            /\ Move("input", "running", to)
            /\ failed' = IF ending = "bad row" THEN failed \union {"input"} ELSE failed
    BY <1>4 DEF InputEnds, Succeed, Fail
  <2>2. /\ task'["input"] \notin {"new", "running"} /\ task'["output"] = task["output"]
        /\ task["input"] = "running"
    BY <1>1, <2>1 DEF Move
  <2>3. /\ closed' = TRUE /\ good = 0 /\ ~offered
        /\ UNCHANGED <<good, ending, offered, received, printed, caller, errs, status>>
        /\ status = -1
    BY <1>4 DEF InputEnds, Running, Succeed, Fail
  <2>4. InputClosed'
    BY <1>0, <2>1, <2>2, <2>3 DEF InputClosed
  <2>5. OutputPrinted'
    BY <1>0, <2>1, <2>2, <2>3 DEF OutputPrinted
  <2> QED
    BY <1>0, <2>3, <2>4, <2>5 DEF PipeInv, PipeTypeOK, OneWait, StatusEarned
<1>5. CASE OutputEnds
  <2>1. /\ closed /\ Move("output", "running", "returning") /\ printed' = received
        /\ UNCHANGED <<good, ending, offered, received, closed, caller, errs, failed, status>>
        /\ status = -1
    BY <1>5 DEF OutputEnds, Running, Succeed
  <2>2. task'["input"] = task["input"] /\ task'["output"] = "returning"
    BY <1>1, <2>1 DEF Move
  <2>3. received \in Nat
    BY <1>0 DEF PipeTypeOK
  <2>4. StatusEarned'
    BY <2>1 DEF StatusEarned
  <2>5. PipeTypeOK'
    BY <1>0, <2>1, <2>3 DEF PipeTypeOK
  <2>6. InputClosed' /\ OneWait'
    BY <1>0, <2>1, <2>2 DEF InputClosed, OneWait
  <2>7. OutputPrinted'
    BY <1>0, <2>1, <2>2, <2>3 DEF OutputPrinted
  <2> QED
    BY <1>0, <2>4, <2>5, <2>6, <2>7 DEF PipeInv
<1>6. CASE Group
  <2>1. /\ UNCHANGED pipeVars /\ failed' = failed
        /\ \A t \in Tasks : task'[t] \in {"new", "running"} <=> task[t] \in {"new", "running"}
    <3>1. CASE Caller
      <4>1. ASSUME NEW t \in Tasks, Go(t) \/ WaitError(t)
            PROVE  \A u \in Tasks : task'[u] \in {"new", "running"} <=> task[u] \in {"new", "running"}
        BY <1>0, <4>1 DEF Go, WaitError, Move, TypeOK
      <4> QED
        BY <1>6, <3>1, <4>1 DEF Group, Caller, LaunchedAll, WaitNil, Go, WaitError
    <3>2. CASE Joiner
      BY <1>6, <3>2 DEF Group, Joiner, JoinerCheck, JoinerWake
    <3>3. CASE Done("input") \/ Done("output")
      BY <1>0, <1>6, <3>3 DEF Group, Done, Move, TypeOK
    <3> QED
      BY <1>6, <3>1, <3>2, <3>3 DEF Group
  <2>2. OneWait'
    BY <1>0, <1>6 DEF Group, Running, Caller, LaunchedAll, WaitNil, Go, WaitError, Joiner, JoinerCheck,
      JoinerWake, Done, OneWait
  <2>3. StatusEarned'
    BY <1>6, <2>1 DEF Group, Running, StatusEarned
  <2> QED
    BY <1>0, <2>1, <2>2, <2>3 DEF PipeInv, PipeTypeOK, InputClosed, OutputPrinted
<1>7. CASE Exit
  <2>1. UNCHANGED <<vars, good, ending, offered, received, closed, printed>>
    BY <1>7 DEF Exit
  <2>2. \/ (~Alive \/ ending = "short row") /\ status' = 2
        \/ caller = "gotnil" /\ ~Panicking /\ status' = 0
        \/ caller = "gaveup" /\ status' = 1
    BY <1>7 DEF Exit, Panicking
  <2>3. Alive' = Alive /\ Panicking' = Panicking
    BY <2>1 DEF Alive, Panicking, vars
  <2>4. UNCHANGED <<ending, caller>>
    BY <2>1 DEF vars
  <2>5. StatusEarned'
    <3>1. CASE (~Alive \/ ending = "short row") /\ status' = 2
      <4>0. status' = 2
        BY <3>1
      <4>1. status' # 0 /\ status' # 1
        BY ONLY <4>0
      <4>2. ~Alive' \/ ending' = "short row"
        BY <2>3, <2>4, <3>1
      <4> QED
        BY <4>1, <4>2 DEF StatusEarned
    <3>2. CASE caller = "gotnil" /\ ~Panicking /\ status' = 0
      BY <2>3, <2>4, <3>2 DEF StatusEarned
    <3>3. CASE caller = "gaveup" /\ status' = 1
      BY <2>3, <2>4, <3>3 DEF StatusEarned
    <3> QED
      BY <2>2, <3>1, <3>2, <3>3
  <2>6. PipeTypeOK' /\ InputClosed' /\ OutputPrinted' /\ OneWait'
    BY <1>0, <2>1, <2>2 DEF PipeTypeOK, InputClosed, OutputPrinted, OneWait
  <2> QED
    BY <1>0, <2>5, <2>6 DEF PipeInv
<1>8. CASE Gone \/ UNCHANGED allVars
  <2>1. UNCHANGED allVars
    BY <1>8 DEF Gone
  <2>2. PipeTypeOK' /\ InputClosed' /\ OutputPrinted' /\ OneWait'
    BY <1>0, <2>1 DEF allVars, PipeTypeOK, InputClosed, OutputPrinted, OneWait
  <2>3. StatusEarned'
    BY <1>0, <2>1 DEF allVars, StatusEarned, Panicking, Alive
  <2> QED
    BY <1>0, <2>2, <2>3 DEF PipeInv
<1> QED
  BY <1>2, <1>3, <1>4, <1>5, <1>6, <1>7, <1>8 DEF PipeNext

\* For any input: a printed result covers all the rows that were read, and unless the
\* joiner was early, status 0 means that they were all good and their result printed, 1
\* that one did not parse, and 2 that one was short (main.go, 13-18, 54-75).
THEOREM OutcomeTold == PipeSpec => []OutcomeTellsInput
<1>1. PipeInv => OutcomeTellsInput
  <2> SUFFICES ASSUME PipeInv PROVE OutcomeTellsInput
    OBVIOUS
  <2>0. /\ InputClosed /\ OutputPrinted /\ OneWait /\ StatusEarned /\ NoErrorDropped /\ IInv
        /\ Tasks = {"input", "output"} /\ failed \subseteq Tasks
    BY PipelineAssumption DEF PipeInv, IInv, Errors, TypeOK
  <2>1. ASSUME printed # -1 PROVE good = 0 /\ ~offered /\ printed = received
    BY <2>0, <2>1 DEF InputClosed, OutputPrinted
  <2>2. ASSUME status = 0, ~early PROVE ending \in {"eof", "read error"} /\ printed # -1
    <3>1. AllAccounted /\ caller = "gotnil" /\ ~Panicking
      BY <2>0, <2>2, WaitSoundly DEF SoundUnlessEarly, StatusEarned
    <3>2. task["input"] = "done" /\ task["output"] = "done" /\ failed = {}
      BY <2>0, <3>1 DEF AllAccounted, OneWait
    <3>3. ending # "bad row" /\ printed # -1
      BY <2>0, <3>2 DEF InputClosed, OutputPrinted
    <3>4. ending # "short row" /\ ending \in Ending
      BY <3>1, <3>2 DEF Panicking, PipeInv, PipeTypeOK
    <3> QED
      BY <3>3, <3>4 DEF Ending
  <2>3. ASSUME status = 1 PROVE ending = "bad row"
    <3>1. errs # {} /\ errs \subseteq failed
      BY <2>0, <2>3 DEF StatusEarned, OneWait, NoErrorDropped
    <3> QED
      BY <2>0, <3>1 DEF InputClosed, OutputPrinted
  <2>4. ASSUME status = 2, ~early PROVE ending = "short row"
    <3>1. joiner # "panic"
      BY <2>0, <2>4, WaitSoundly DEF SoundUnlessEarly
    <3> QED
      BY <2>0, <2>4, <3>1 DEF StatusEarned, Alive
  <2> QED
    BY <2>1, <2>2, <2>3, <2>4 DEF OutcomeTellsInput
<1> QED
  BY <1>1, InitPipeInv, StepPipeInv, PTL DEF PipeSpec
=============================================================================
