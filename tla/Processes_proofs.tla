-------------------------- MODULE Processes_proofs ---------------------------
(***************************************************************************)
(* Proofs about the programs of MCProcesses, all but FileRewatch, which    *)
(* has a liveness property only.  First the key-value actor, for any       *)
(* number of clients, keys, values and calls.                              *)
(***************************************************************************)
EXTENDS Kvs, ReplicaExchange, GcmSeq, UvFetch, SignalWait, ReadDeadline, HolePunch,
        SequenceTheorems, TLAPS

IInv == TypeOK /\ AnswersOneAwaiting

\* The states of the actor, and of a call, can be told apart.
LEMMA Distinct ==
    /\ Selecting # Gone /\ NoCall # Awaiting /\ Close # NoCall /\ Close # Awaiting
    /\ \A k, v : Storing(k, v) # Selecting /\ Storing(k, v) # Gone
    /\ \A c, v : Replying(c, v) # Selecting /\ Replying(c, v) # Gone
    /\ \A c, v, k, w : Replying(c, v) # Storing(k, w)
    /\ \A c, v, d, w : Replying(c, v) = Replying(d, w) => c = d /\ v = w
    /\ \A r \in Request : r # NoCall /\ r # Awaiting
<1>1. \A c, v : Replying(c, v).at = "reply" /\ Replying(c, v).client = c /\ Replying(c, v).value = v
  BY DEF Replying
<1>2. \A k, v : Storing(k, v).at = "store"
  BY DEF Storing
<1>3. Selecting.at = "select" /\ Gone.at = "gone"
  BY DEF Selecting, Gone
<1>4. NoCall.op = "none" /\ Awaiting.op = "await" /\ Close.op = "close"
  BY DEF NoCall, Awaiting, Close
<1>5. \A r \in Request : r.op \in {"close", "store", "fetch"}
  BY DEF Request, Close, Store, Fetch
<1> QED
  BY <1>1, <1>2, <1>3, <1>4, <1>5

LEMMA InitIInv == Init => IInv
BY Distinct, ConstantsAssumption DEF Init, IInv, TypeOK, AnswersOneAwaiting, ActorState

LEMMA StepIInv == IInv /\ [Next]_vars => IInv'
<1> SUFFICES ASSUME IInv, [Next]_vars PROVE IInv'
  OBVIOUS
<1>0. TypeOK /\ AnswersOneAwaiting
  BY DEF IInv
<1>1. ASSUME NEW c \in Clients, Invoke(c) PROVE IInv'
  <2>1. PICK r \in Request : Become(c, NoCall, r)
    BY <1>1 DEF Invoke
  <2>2. calls[c] + 1 \in 0 .. MaxCalls
    BY <1>0, <1>1, ConstantsAssumption DEF Invoke, TypeOK
  <2>3. TypeOK'
    BY <1>0, <1>1, <2>1, <2>2 DEF Invoke, Become, TypeOK
  <2>4. AnswersOneAwaiting'
    BY <1>0, <1>1, <2>1, Distinct DEF Invoke, Become, TypeOK, AnswersOneAwaiting
  <2> QED
    BY <2>3, <2>4 DEF IInv
<1>2. ASSUME NEW c \in Clients, TakeStore(c) PROVE IInv'
  <2>1. PICK k \in Keys, v \in Values :
            Become(c, Store(k, v), NoCall) /\ actor' = Storing(k, v)
    BY <1>2 DEF TakeStore
  <2>2. Store(k, v) # Awaiting
    BY Distinct DEF Request
  <2>3. TypeOK'
    BY <1>0, <1>2, <2>1 DEF TakeStore, Become, TypeOK, ActorState
  <2>4. AnswersOneAwaiting'
    BY <1>0, <1>2, <2>1, <2>2, Distinct DEF TakeStore, Become, TypeOK, AnswersOneAwaiting
  <2> QED
    BY <2>3, <2>4 DEF IInv
<1>3. ASSUME Write PROVE IInv'
  <2>1. PICK k \in Keys, v \in Values : actor = Storing(k, v) /\ db' = [db EXCEPT ![k] = v]
    BY <1>3 DEF Write
  <2>2. TypeOK'
    BY <1>0, <1>3, <2>1 DEF Write, TypeOK, ActorState
  <2>3. AnswersOneAwaiting'
    BY <1>0, <1>3, <2>1, Distinct DEF Write, AnswersOneAwaiting
  <2> QED
    BY <2>2, <2>3 DEF IInv
<1>4. ASSUME NEW c \in Clients, TakeQuery(c) PROVE IInv'
  <2>1. PICK k \in Keys : Become(c, Fetch(k), Awaiting) /\ actor' = Replying(c, db[k])
    BY <1>4 DEF TakeQuery
  <2>2. db[k] \in Values \union {Absent}
    BY <1>0 DEF TypeOK
  <2>3. TypeOK'
    BY <1>0, <1>4, <2>1, <2>2 DEF TakeQuery, Become, TypeOK, ActorState
  <2>4. AnswersOneAwaiting'
    BY <1>0, <1>4, <2>1, <2>2, Distinct DEF TakeQuery, Become, TypeOK, AnswersOneAwaiting
  <2> QED
    BY <2>3, <2>4 DEF IInv
<1>5. ASSUME NEW c \in Clients, Reply(c) PROVE IInv'
  <2>1. TypeOK'
    BY <1>0, <1>5 DEF Reply, Become, TypeOK, ActorState
  <2>2. AnswersOneAwaiting'
    BY <1>0, <1>5, Distinct DEF Reply, Become, TypeOK, AnswersOneAwaiting
  <2> QED
    BY <2>1, <2>2 DEF IInv
<1>6. ASSUME NEW c \in Clients, TakeClose(c) PROVE IInv'
  <2>1. TypeOK'
    BY <1>0, <1>6 DEF TakeClose, Become, TypeOK, ActorState
  <2>2. AnswersOneAwaiting'
    BY <1>0, <1>6, Distinct DEF TakeClose, Become, TypeOK, AnswersOneAwaiting
  <2> QED
    BY <2>1, <2>2 DEF IInv
<1>7. CASE UNCHANGED vars
  BY <1>0, <1>7 DEF vars, IInv, TypeOK, AnswersOneAwaiting
<1> QED
  BY <1>1, <1>2, <1>3, <1>4, <1>5, <1>6, <1>7 DEF Next, Actor

LEMMA Invariance == Spec => []IInv
BY InitIInv, StepIInv, PTL DEF Spec

\* Every variable keeps its type.
THEOREM TypeCorrect == Spec => []TypeOK
<1>1. IInv => TypeOK
  BY DEF IInv
<1> QED
  BY <1>1, Invariance, PTL

\* For any number of clients, the actor answers exactly the client that awaits a
\* response, so no response goes astray and no client is left behind (39-44).
THEOREM AnswersReach == Spec => []AnswersOneAwaiting
<1>1. IInv => AnswersOneAwaiting
  BY DEF IInv
<1> QED
  BY <1>1, Invariance, PTL

-----------------------------------------------------------------------------
(* The actor implements the atomic map.                                     *)

AtomicCall == [c \in Clients |-> Pending(c)]

LEMMA InitAtomic == Init => Atomic!Init
<1> SUFFICES ASSUME Init PROVE Atomic!Init
  OBVIOUS
<1>1. Seen = db /\ actor # Gone
  BY Distinct DEF Init, Seen, Selecting
<1>2. \A c \in Clients : Pending(c) = NoCall
  BY Distinct DEF Init, Pending
<1> QED
  BY <1>1, <1>2 DEF Init, Atomic!Init, Atomic!NoCall, NoCall

LEMMA StepAtomic == IInv /\ [Next]_vars => [Atomic!Next]_<<Seen, AtomicCall, actor = Gone>>
<1> SUFFICES ASSUME IInv, [Next]_vars
             PROVE  Atomic!Next \/ UNCHANGED <<Seen, AtomicCall, actor = Gone>>
  OBVIOUS
<1>0. TypeOK /\ AnswersOneAwaiting
  BY DEF IInv
<1>s. (\A k, v : Storing(k, v).at = "store" /\ Storing(k, v).key = k /\ Storing(k, v).value = v)
      /\ (\A c, v : Replying(c, v).at = "reply" /\ Replying(c, v).value = v)
      /\ Selecting.at = "select" /\ Gone.at = "gone"
  BY DEF Storing, Replying, Selecting, Gone
<1>1. ASSUME NEW c \in Clients, Invoke(c) PROVE Atomic!Next
  <2>1. PICK r \in Request : Become(c, NoCall, r)
    BY <1>1 DEF Invoke
  <2>2. Pending(c) = NoCall /\ Pending(c)' = r /\ \A d \in Clients \ {c} : Pending(d)' = Pending(d)
    BY <1>0, <1>1, <2>1, Distinct DEF Invoke, Become, Pending, TypeOK
  <2>3. AtomicCall' = [AtomicCall EXCEPT ![c] = r] /\ AtomicCall[c] = NoCall
    BY <1>0, <2>1, <2>2 DEF AtomicCall
  <2>4. UNCHANGED <<Seen, actor = Gone>>
    BY <1>1 DEF Invoke, Seen
  <2>5. r \in Atomic!Request
    BY DEF Request, Atomic!Request, Close, Store, Fetch, Atomic!Close, Atomic!Store, Atomic!Fetch
  <2>6. Atomic!Invoke(c)
    BY <2>3, <2>4, <2>5 DEF Atomic!Invoke, Atomic!Become, Atomic!NoCall, NoCall, AtomicCall
  <2> QED
    BY <2>6 DEF Atomic!Next
<1>2. ASSUME NEW c \in Clients, TakeStore(c) PROVE Atomic!Next
  <2>1. PICK k \in Keys, v \in Values :
            Become(c, Store(k, v), NoCall) /\ actor' = Storing(k, v)
    BY <1>2 DEF TakeStore
  <2>2. Store(k, v) # Awaiting /\ actor = Selecting /\ db' = db
    BY <1>2, Distinct DEF TakeStore, Request
  <2>3. \A d \in Clients : call[d] # Awaiting
    BY <1>0, <2>2, Distinct DEF AnswersOneAwaiting
  <2>4. Pending(c) = Store(k, v) /\ Pending(c)' = NoCall
        /\ \A d \in Clients \ {c} : Pending(d)' = Pending(d)
    BY <1>0, <2>1, <2>3, Distinct DEF Become, Pending, TypeOK
  <2>5. AtomicCall' = [AtomicCall EXCEPT ![c] = NoCall] /\ AtomicCall[c] = Store(k, v)
    BY <1>0, <2>1, <2>4 DEF AtomicCall
  <2>6. Seen' = [Seen EXCEPT ![k] = v]
    <3>1. actor.at # "store" /\ actor'.at = "store" /\ actor'.key = k /\ actor'.value = v
      BY <1>s, <2>1, <2>2
    <3>2. Seen = db /\ Seen' = [db EXCEPT ![k] = v]
      BY <2>2, <3>1 DEF Seen
    <3> QED
      BY <3>2
  <2>7. actor # Gone /\ actor' # Gone
    BY <2>1, <2>2, Distinct
  <2>8. Atomic!DoStore(c)
    BY <2>5, <2>6, <2>7 DEF Atomic!DoStore, Atomic!Become, Atomic!NoCall, NoCall, Atomic!Store, Store, AtomicCall
  <2> QED
    BY <2>8 DEF Atomic!Next
<1>3. ASSUME Write PROVE UNCHANGED <<Seen, AtomicCall, actor = Gone>>
  <2>1. PICK k \in Keys, v \in Values : actor = Storing(k, v) /\ db' = [db EXCEPT ![k] = v]
    BY <1>3 DEF Write
  <2>2. actor' = Selecting /\ call' = call
    BY <1>3 DEF Write
  <2>3. \A d \in Clients : call[d] # Awaiting
    BY <1>0, <2>1, Distinct DEF AnswersOneAwaiting
  <2>4. AtomicCall' = AtomicCall
    BY <2>2, <2>3 DEF AtomicCall, Pending
  <2>5. Seen' = Seen
    <3>1. actor'.at # "store" /\ actor.at = "store" /\ actor.key = k /\ actor.value = v
      BY <1>s, <2>1, <2>2
    <3>2. Seen = [db EXCEPT ![k] = v] /\ Seen' = db'
      BY <3>1 DEF Seen
    <3> QED
      BY <2>1, <3>2
  <2> QED
    BY <2>1, <2>2, <2>4, <2>5, Distinct
<1>4. ASSUME NEW c \in Clients, TakeQuery(c) PROVE Atomic!Next
  <2>1. PICK k \in Keys : Become(c, Fetch(k), Awaiting) /\ actor' = Replying(c, db[k])
    BY <1>4 DEF TakeQuery
  <2>2. Fetch(k) # Awaiting /\ actor = Selecting /\ db' = db
    BY <1>4, Distinct DEF TakeQuery, Request
  <2>3. \A d \in Clients : call[d] # Awaiting
    BY <1>0, <2>2, Distinct DEF AnswersOneAwaiting
  <2>4. Pending(c) = Fetch(k) /\ Pending(c)' = [op |-> "answer", value |-> db[k]]
        /\ \A d \in Clients \ {c} : Pending(d)' = Pending(d)
    BY <1>0, <1>s, <2>1, <2>3 DEF Become, Pending, TypeOK
  <2>5. AtomicCall' = [AtomicCall EXCEPT ![c] = Atomic!Answer(db[k])] /\ AtomicCall[c] = Fetch(k)
    BY <1>0, <2>1, <2>4 DEF AtomicCall, Atomic!Answer
  <2>6. Seen' = db /\ Seen = db
    BY <1>s, <2>1, <2>2 DEF Seen
  <2>7. actor # Gone /\ actor' # Gone
    BY <2>1, <2>2, Distinct
  <2>8. Atomic!DoFetch(c)
    BY <2>5, <2>6, <2>7 DEF Atomic!DoFetch, Atomic!Become, Atomic!Fetch, Fetch, AtomicCall
  <2> QED
    BY <2>8 DEF Atomic!Next
<1>5. ASSUME NEW c \in Clients, Reply(c) PROVE Atomic!Next
  <2>1. PICK v \in Values \union {Absent} : actor = Replying(c, v)
    BY <1>5 DEF Reply
  <2>2. actor' = Selecting /\ db' = db /\ Become(c, Awaiting, NoCall)
    BY <1>5 DEF Reply
  <2>3. \A d \in Clients \ {c} : call[d] # Awaiting
    BY <1>0, <2>1, Distinct DEF AnswersOneAwaiting
  <2>4. Pending(c) = [op |-> "answer", value |-> v] /\ Pending(c)' = NoCall
        /\ \A d \in Clients \ {c} : Pending(d)' = Pending(d)
    BY <1>0, <1>s, <2>1, <2>2, <2>3, Distinct DEF Become, Pending, TypeOK
  <2>5. AtomicCall' = [AtomicCall EXCEPT ![c] = NoCall] /\ AtomicCall[c] = Atomic!Answer(v)
    BY <1>0, <2>2, <2>4 DEF AtomicCall, Atomic!Answer
  <2>6. UNCHANGED <<Seen, actor = Gone>>
    BY <1>s, <2>1, <2>2, Distinct DEF Seen
  <2>7. Atomic!Return(c)
    BY <2>5, <2>6 DEF Atomic!Return, Atomic!Become, Atomic!NoCall, NoCall, AtomicCall
  <2> QED
    BY <2>7 DEF Atomic!Next
<1>6. ASSUME NEW c \in Clients, TakeClose(c) PROVE Atomic!Next
  <2>1. actor = Selecting /\ actor' = Gone /\ db' = db /\ Become(c, Close, NoCall)
    BY <1>6 DEF TakeClose
  <2>2. \A d \in Clients : call[d] # Awaiting
    BY <1>0, <2>1, Distinct DEF AnswersOneAwaiting
  <2>3. Pending(c) = Close /\ Pending(c)' = NoCall
        /\ \A d \in Clients \ {c} : Pending(d)' = Pending(d)
    BY <1>0, <2>1, <2>2, Distinct DEF Become, Pending, TypeOK
  <2>4. AtomicCall' = [AtomicCall EXCEPT ![c] = NoCall] /\ AtomicCall[c] = Close
    BY <1>0, <2>1, <2>3 DEF AtomicCall
  <2>5. Seen' = Seen
    BY <1>s, <2>1 DEF Seen
  <2>6. Atomic!DoClose(c)
    BY <2>1, <2>4, <2>5, Distinct DEF Atomic!DoClose, Atomic!Become, Atomic!NoCall, NoCall, Atomic!Close, Close, AtomicCall
  <2> QED
    BY <2>6 DEF Atomic!Next
<1>7. CASE UNCHANGED vars
  <2>1. Seen' = Seen /\ (actor = Gone)' = (actor = Gone)
    BY <1>7 DEF vars, Seen
  <2>2. AtomicCall' = AtomicCall
    BY <1>7 DEF vars, AtomicCall, Pending
  <2> QED
    BY <2>1, <2>2
<1> QED
  BY <1>1, <1>2, <1>3, <1>4, <1>5, <1>6, <1>7 DEF Next, Actor

\* Whatever the clients call, the actor is an atomic map: every Fetch sees every
\* Store that returned before it, although the entry may not be written yet.
THEOREM Linearizable == Spec => ImplementsAtomicMap
<1>1. IInv /\ [Next]_vars => [Atomic!Next]_<<Seen, [c \in Clients |-> Pending(c)], actor = Gone>>
  BY StepAtomic DEF AtomicCall
<1> QED
  BY InitAtomic, Invariance, <1>1, PTL DEF Spec, ImplementsAtomicMap, Atomic!Spec

-----------------------------------------------------------------------------
(* Concurrent libuv fetches.                                                *)

UvTypeOK ==
    /\ stage \in [Jobs -> Pending4 \union {"ok", "error"}]
    /\ handle \in [Jobs -> {"none", "open", "closing", "closed"}]
    /\ refused \subseteq Jobs /\ unconnected \subseteq Jobs

\* What a job has done with its handle by the time it waits for a callback, or has ended.
HandleOfStage(j) ==
    /\ stage[j] = "resolve" => handle[j] = "none" /\ j \notin unconnected
    /\ stage[j] = "connect" => handle[j] = "open" /\ j \notin unconnected
    /\ stage[j] \in {"write", "read"} => handle[j] = "open" /\ j \notin unconnected
    /\ stage[j] = "ok" => handle[j] \in {"closing", "closed"} /\ j \notin unconnected
    /\ stage[j] = "error" => (handle[j] = "open" <=> j \in unconnected)
    /\ j \in refused => stage[j] = "connect"

UvInv == UvTypeOK /\ (\A j \in Jobs : HandleOfStage(j)) /\ LoopFreedClean

\* The callbacks and the end of the loop keep it.
LEMMA StepUvInv == UvInv /\ [UvNext]_uvVars => UvInv'
<1> SUFFICES ASSUME UvInv, [UvNext]_uvVars PROVE UvInv'
  OBVIOUS
<1>0. UvTypeOK /\ (\A j \in Jobs : HandleOfStage(j)) /\ LoopFreedClean
  BY DEF UvInv
<1> USE DEF Pending4
<1>1. ASSUME NEW j \in Jobs, Callback(j) \/ UvClosed(j) PROVE UvInv'
  <2>1. uvLoop = "running" /\ uvLoop' = "running"
    BY <1>1 DEF Callback, OnResolved, OnConnect, OnWrite, OnReadError, OnReadEof, OnReadData,
                UvClosed, At
  <2>2. UvTypeOK'
    BY <1>0, <1>1 DEF Callback, OnResolved, OnConnect, OnWrite, OnReadError, OnReadEof,
                      OnReadData, UvClosed, Enter, Turn, UvTypeOK
  <2>3. \A i \in Jobs \ {j} : /\ stage'[i] = stage[i] /\ handle'[i] = handle[i]
                              /\ i \in refused' <=> i \in refused
                              /\ i \in unconnected' <=> i \in unconnected
    BY <1>0, <1>1 DEF Callback, OnResolved, OnConnect, OnWrite, OnReadError, OnReadEof,
                      OnReadData, UvClosed, Enter, Turn, UvTypeOK
  <2>4. HandleOfStage(j)'
    <3>1. HandleOfStage(j) /\ stage[j] \in Pending4 \union {"ok", "error"}
      BY <1>0 DEF UvTypeOK
    <3>2. CASE OnResolved(j)
      BY <1>0, <3>1, <3>2 DEF OnResolved, At, Enter, Turn, UvTypeOK, HandleOfStage
    <3>3. CASE OnConnect(j)
      BY <1>0, <3>1, <3>3 DEF OnConnect, At, Enter, UvTypeOK, HandleOfStage
    <3>4. CASE OnWrite(j)
      BY <1>0, <3>1, <3>4 DEF OnWrite, At, Enter, Turn, UvTypeOK, HandleOfStage
    <3>5. CASE OnReadError(j) \/ OnReadEof(j)
      BY <1>0, <3>1, <3>5 DEF OnReadError, OnReadEof, At, Enter, Turn, UvTypeOK, HandleOfStage
    <3>6. CASE OnReadData(j)
      BY <1>0, <3>1, <3>6 DEF OnReadData, HandleOfStage
    <3>7. CASE UvClosed(j)
      BY <1>0, <3>1, <3>7 DEF UvClosed, Turn, UvTypeOK, HandleOfStage
    <3> QED
      BY <1>1, <3>2, <3>3, <3>4, <3>5, <3>6, <3>7 DEF Callback
  <2>5. ASSUME NEW i \in Jobs PROVE HandleOfStage(i)'
    <3>1. CASE i = j
      BY <2>4, <3>1
    <3>2. CASE i # j
      BY <1>0, <2>3, <3>2 DEF HandleOfStage
    <3> QED
      BY <3>1, <3>2
  <2>6. LoopFreedClean'
    BY <2>1 DEF LoopFreedClean
  <2> QED
    BY <2>2, <2>5, <2>6 DEF UvInv
<1>2. CASE UvEnd
  <2>1. UvTypeOK' /\ \A j \in Jobs : HandleOfStage(j)'
    BY <1>0, <1>2 DEF UvEnd, UvTypeOK, HandleOfStage
  <2>2. ASSUME NEW j \in Jobs
        PROVE  /\ stage[j] \in {"ok", "error"} <=> j \notin refused
               /\ handle[j] = "open" <=> j \in refused \union unconnected
    BY <1>0, <1>2 DEF UvEnd, UvTypeOK, HandleOfStage
  <2>3. uvLoop' = "freed open" <=> refused \union unconnected # {}
    BY <1>0, <1>2, <2>2 DEF UvEnd, UvTypeOK
  <2>4. LoopFreedClean'
    BY <1>2, <2>2, <2>3 DEF LoopFreedClean, UvEnd
  <2> QED
    BY <2>1, <2>4 DEF UvInv
<1>3. CASE UNCHANGED uvVars
  BY <1>0, <1>3 DEF uvVars, UvInv, UvTypeOK, HandleOfStage, LoopFreedClean
<1> QED
  BY <1>1, <1>2, <1>3 DEF UvNext

\* Of any number of concurrent requests: main frees the loop when every job has reported
\* its end but those whose connect call failed at once, and with open handles exactly if
\* some connection failed (149-161).
THEOREM FreedAsFound == UvInit /\ [][UvNext]_uvVars => []LoopFreedClean
<1>1. UvInit => UvInv
  BY DEF UvInit, UvInv, UvTypeOK, HandleOfStage, LoopFreedClean, Pending4
<1>2. UvInv => LoopFreedClean
  BY DEF UvInv
<1> QED
  BY <1>1, <1>2, StepUvInv, PTL

-----------------------------------------------------------------------------
(* Waiting for a child by signalfd.                                         *)

\* The signal is raised once: who has taken it decides where the parent can be.
SigInv ==
    /\ parentAt = "fork" => childEnd = Running /\ ~sigchld /\ ~missed
    /\ sigchld => childEnd # Running /\ ~missed
    /\ missed => parentAt \in {"loop", "poll", "ended"} /\ ~sigchld /\ childEnd # Running
    /\ parentAt = "wait" => ~missed /\ childEnd # Running
    /\ parentAt # "ended" => trouble = "none"
    /\ EndsAsChild

\* However the end of the child, the handler, poll and failing calls interleave, a parent
\* that ends has ended the way its child did, or with one of its own exit codes after a
\* call that failed (main, 24-104).
THEOREM ParentEndsAsChild == SigInit /\ [][SigNext]_sigVars => []EndsAsChild
<1>1. SigInit => SigInv
  BY DEF SigInit, SigInv, EndsAsChild
<1>2. SigInv /\ [SigNext]_sigVars => SigInv'
  <2> SUFFICES ASSUME SigInv, [SigNext]_sigVars PROVE SigInv'
    OBVIOUS
  <2> USE EndingsAssumption DEF SigInv, EndsAsChild
  <2>1. CASE Fork
    BY <2>1 DEF Fork
  <2>2. CASE NotForked
    BY <2>2 DEF NotForked, ParentExit
  <2>3. CASE Handle
    BY <2>3 DEF Handle
  <2>4. CASE Poll
    BY <2>4 DEF Poll
  <2>5. CASE PollReady
    BY <2>5 DEF PollReady
  <2>6. CASE PollInterrupted
    BY <2>6 DEF PollInterrupted
  <2>7. CASE PollFails
    BY <2>7 DEF PollFails, ParentExit
  <2>8. CASE WaitPid
    BY <2>8 DEF WaitPid, ParentExit
  <2>9. CASE WaitFails
    BY <2>9 DEF WaitFails, ParentExit
  <2>10. CASE ChildEnds
    BY <2>10 DEF ChildEnds
  <2>11. CASE UNCHANGED sigVars
    BY <2>11 DEF sigVars
  <2> QED
    BY <2>1, <2>2, <2>3, <2>4, <2>5, <2>6, <2>7, <2>8, <2>9, <2>10, <2>11
    DEF SigNext, ParentSteps, ParentFails
<1>3. SigInv => EndsAsChild
  BY DEF SigInv
<1> QED
  BY <1>1, <1>2, <1>3, PTL

-----------------------------------------------------------------------------
(* Reading with a deadline.                                                 *)

ReadTypeOK ==
    /\ loopAt \in {"top", "call", "select", "got", "eof", "expired", "broken"}
    /\ avail \in Nat /\ got \in Nat /\ input \in Nat
    /\ held \in 0 .. MaxDelay + 1 /\ waited \in 0 .. MaxDelay
    /\ loopAt \notin {"got", "broken"} => got = 0
    /\ avail = 0 /\ got = 0 => held = 0
    /\ avail = 0 => waited = 0

\* A time that goes by no sooner than max_delay after the first byte held, and in which
\* select may still wait for what it has not waited for since.
InDelay(t) == t \in -1 .. MaxDelay /\ t + held >= MaxDelay /\ t + waited <= MaxDelay

\* The deadline is that of the first byte held, and the timeout of select does not go
\* beyond it, though it starts later.
DeadlineKept ==
    /\ avail = 0 => left = NoDeadline
    /\ avail > 0 => InDelay(left)
    /\ loopAt \notin {"call", "select", "expired", "broken"} => timer = NoDeadline
    /\ loopAt \in {"call", "select"} =>
          IF avail > 0 THEN InDelay(timer) ELSE timer = NoDeadline
    /\ loopAt = "select" => timer # -1
    /\ loopAt = "expired" => avail > 0 /\ held > MaxDelay

ReadInv == ReadTypeOK /\ DeadlineKept

\* The smaller of two numbers.
LEMMA MinOf == ASSUME NEW a \in Int, NEW b \in Int PROVE Min({a, b}) = IF a <= b THEN a ELSE b
BY DEF Min

\* The invariant holds before the first read.
LEMMA InitReadInv == ReadInit => ReadInv
BY ReadAssumption DEF ReadInit, ReadInv, ReadTypeOK, DeadlineKept

\* Time, input and every step of the program keep the deadline.
LEMMA StepReadInv == ReadInv /\ [ReadNext]_readVars => ReadInv'
<1> SUFFICES ASSUME ReadInv, [ReadNext]_readVars PROVE ReadInv'
  OBVIOUS
<1>0. /\ ReadTypeOK /\ DeadlineKept
      /\ BufSize \in Nat \ {0} /\ FlushSize \in Nat \ {0} /\ MaxDelay \in Nat \ {0}
      /\ MaxInput \in Nat \ {0} /\ NoDeadline \notin Int
  BY ReadAssumption DEF ReadInv
<1>1. CASE Arrive
  <2>1. input' \in Nat
    BY <1>0, <1>1 DEF Arrive, ReadTypeOK
  <2> QED
    BY <1>0, <1>1, <2>1 DEF Arrive, ReadInv, ReadTypeOK, DeadlineKept, InDelay
<1>2. CASE PassTime
  <2>1. /\ loopAt' = loopAt /\ loopAt \notin {"eof", "expired", "broken"}
        /\ UNCHANGED <<avail, got, input>>
    BY <1>0, <1>2 DEF PassTime, Ended
  <2>2. CASE avail = 0
    <3>1. left = NoDeadline /\ timer = NoDeadline
      BY <1>0, <2>1, <2>2 DEF DeadlineKept, ReadTypeOK
    <3>2. UNCHANGED <<left, timer, waited>>
      BY <1>2, <3>1 DEF PassTime
    <3>3. held' \in 0 .. MaxDelay + 1 /\ (got = 0 => held' = held)
      BY <1>0, <1>2, <2>2, MinOf DEF PassTime, ReadTypeOK
    <3> QED
      BY <1>0, <2>1, <2>2, <3>1, <3>2, <3>3 DEF ReadInv, ReadTypeOK, DeadlineKept
  <2>3. CASE avail > 0
    <3>1. held' = IF held <= MaxDelay THEN held + 1 ELSE held
      BY <1>0, <1>2, <2>3, MinOf DEF PassTime, ReadTypeOK
    <3>2. InDelay(left) /\ left' = IF left = -1 THEN left ELSE left - 1
      BY <1>0, <1>2, <2>3 DEF PassTime, DeadlineKept, InDelay
    <3>3. CASE loopAt = "select" /\ timer # 0
      <4>1. InDelay(timer) /\ timer # -1 /\ timer' = timer - 1 /\ waited' = waited + 1
        BY <1>0, <1>2, <2>3, <3>3 DEF PassTime, DeadlineKept, InDelay
      <4>2. InDelay(timer)' /\ timer' # -1 /\ waited' \in 0 .. MaxDelay
        BY <1>0, <3>1, <3>3, <4>1 DEF ReadTypeOK, InDelay
      <4>3. InDelay(left)'
        BY <1>0, <3>1, <3>2, <4>1, <4>2 DEF ReadTypeOK, InDelay
      <4> QED
        BY <1>0, <2>1, <2>3, <3>1, <3>3, <4>2, <4>3 DEF ReadInv, ReadTypeOK, DeadlineKept
    <3>4. CASE ~(loopAt = "select" /\ timer # 0)
      <4>1. UNCHANGED <<timer, waited>>
        BY <1>2, <3>4 DEF PassTime
      <4>2. InDelay(left)' /\ (InDelay(timer) => InDelay(timer)')
        BY <1>0, <3>1, <3>2, <4>1 DEF ReadTypeOK, InDelay
      <4> QED
        BY <1>0, <2>1, <2>3, <3>1, <4>1, <4>2 DEF ReadInv, ReadTypeOK, DeadlineKept
    <3> QED
      BY <3>3, <3>4
  <2> QED
    BY <1>0, <2>2, <2>3 DEF ReadTypeOK
<1>3. CASE ReadClock
  BY <1>0, <1>3 DEF ReadClock, ReadInv, ReadTypeOK, DeadlineKept, InDelay
<1>4. CASE CallSelect
  BY <1>0, <1>4 DEF CallSelect, ReadInv, ReadTypeOK, DeadlineKept, InDelay
<1>5. CASE ReadInput
  <2>1. got' \in Nat /\ got' <= input /\ input' \in Nat
    BY <1>0, <1>5, MinOf DEF ReadInput, ReadTypeOK
  <2>2. /\ loopAt = "select" /\ got = 0 /\ timer' = NoDeadline
        /\ loopAt' = IF got' = 0 THEN "eof" ELSE "got"
        /\ UNCHANGED <<avail, left, held, waited>>
    BY <1>0, <1>5 DEF ReadInput, ReadTypeOK
  <2>3. ReadTypeOK'
    BY <1>0, <2>1, <2>2 DEF ReadTypeOK
  <2>4. \A t : InDelay(t) => InDelay(t)'
    BY <2>2 DEF InDelay
  <2>5. DeadlineKept'
    BY <1>0, <2>2, <2>4 DEF DeadlineKept
  <2> QED
    BY <2>3, <2>5 DEF ReadInv
<1>6. CASE TimeOut
  BY <1>0, <1>6 DEF TimeOut, ReadInv, ReadTypeOK, DeadlineKept, InDelay
<1>7. CASE Tally
  <2> DEFINE flush == avail + got >= FlushSize \/ got = 0
  <2>1. /\ loopAt = "got" /\ loopAt' = "top" /\ got' = 0 /\ UNCHANGED <<timer, input>>
        /\ avail' = IF flush THEN 0 ELSE avail + got
        /\ left' = IF flush THEN NoDeadline ELSE IF avail = 0 THEN MaxDelay ELSE left
        /\ held' = IF flush THEN 0 ELSE held
        /\ waited' = IF flush THEN 0 ELSE waited
    BY <1>7 DEF Tally
  <2> HIDE DEF flush
  <2>2. CASE flush
    BY <1>0, <2>1, <2>2 DEF ReadInv, ReadTypeOK, DeadlineKept
  <2>3. CASE ~flush
    <3>1. got > 0 /\ avail' = avail + got /\ avail' > 0 /\ UNCHANGED <<held, waited>>
      BY <1>0, <2>1, <2>3 DEF ReadTypeOK, flush
    <3>2. InDelay(left)'
      BY <1>0, <2>1, <2>3, <3>1 DEF ReadTypeOK, DeadlineKept, InDelay
    <3> QED
      BY <1>0, <2>1, <3>1, <3>2 DEF ReadInv, ReadTypeOK, DeadlineKept
  <2> QED
    BY <2>2, <2>3
<1>8. CASE CallFails
  BY <1>0, <1>8 DEF CallFails, ReadInv, ReadTypeOK, DeadlineKept, InDelay
<1>9. CASE UNCHANGED readVars
  BY <1>0, <1>9 DEF readVars, ReadInv, ReadTypeOK, DeadlineKept, InDelay
<1> QED
  BY <1>1, <1>2, <1>3, <1>4, <1>5, <1>6, <1>7, <1>8, <1>9 DEF ReadNext, ReadSteps

\* For any sizes, any delay, any input and however late each step of the program is:
\* select does not time out ahead of max_delay from the first byte held, all its waits
\* since then add up to max_delay at most, and it is called with a deadline that has
\* passed only by a program later than that (42-49, 91-98).
THEOREM SelectsInTime == ReadInit /\ [][ReadNext]_readVars => []SelectInTime
<1>1. ReadInv => SelectInTime
  BY DEF ReadInv, DeadlineKept, SelectInTime, InDelay
<1> QED
  BY <1>1, InitReadInv, StepReadInv, PTL

-----------------------------------------------------------------------------
(* Counted AEAD messages.                                                   *)

Rising(s) == \A i, j \in 1 .. Len(s) : i < j => s[i] < s[j]

InSealed(c) == \E i \in 1 .. Len(sealed) : sealed[i] = c

GcmTypeOK ==
    /\ sealer \in Counter /\ opener \in Counter
    /\ sealed \in Seq(Counter) /\ opened \in Seq(Counter)
    /\ rejected \subseteq Counter /\ believed \subseteq Counter
    /\ link \subseteq [counter : Counter, intact : BOOLEAN]

\* The nonces rise up to the counter, which never comes back to one used before: the
\* Cipher panics instead.  What opens was sealed, and the opening counter is that of the
\* last message opened or of a damaged one.
SealedRise ==
    /\ Rising(sealed)
    /\ \A i \in 1 .. Len(sealed) : 0 < sealed[i] /\ (~panicked => sealed[i] <= sealer)

OpenedRise ==
    /\ Rising(opened)
    /\ \A i \in 1 .. Len(opened) : opened[i] <= opener /\ InSealed(opened[i])
    /\ opener > 0 => InOpened(opener) \/ opener \in believed

LinkGenuine == \A m \in link : m.intact => InSealed(m.counter)

RejectedLate == \A c \in rejected : OpenedFrom(c) \/ \E d \in believed : d >= c

GcmInv == GcmTypeOK /\ SealedRise /\ OpenedRise /\ LinkGenuine /\ RejectedLate

\* A history that rises goes on rising with what is above all it holds.
LEMMA AppendRises ==
    ASSUME NEW s \in Seq(Counter), Rising(s), NEW c \in Counter,
           \A i \in 1 .. Len(s) : s[i] < c
    PROVE  Rising(Append(s, c))
<1>1. \A i \in 1 .. Len(s) : s[i] \in Nat
  BY GcmAssumption DEF Counter
<1>2. Len(Append(s, c)) = Len(s) + 1 /\ Len(s) \in Nat /\ c \in Nat
  BY GcmAssumption DEF Counter
<1>3. Append(s, c)[Len(s) + 1] = c /\ \A i \in 1 .. Len(s) : Append(s, c)[i] = s[i]
  OBVIOUS
<1>4. ASSUME NEW i \in 1 .. Len(s) + 1, NEW j \in 1 .. Len(s) + 1, i < j
      PROVE  Append(s, c)[i] < Append(s, c)[j]
  <2>1. i \in 1 .. Len(s) /\ Append(s, c)[i] = s[i]
    BY <1>2, <1>3, <1>4
  <2>2. CASE j = Len(s) + 1
    BY <1>3, <2>1, <2>2
  <2>3. CASE j \in 1 .. Len(s)
    <3>1. Append(s, c)[j] = s[j]
      BY <1>3, <2>3
    <3>2. s[i] < s[j]
      BY <1>4, <2>1, <2>3 DEF Rising
    <3> QED
      BY <2>1, <3>1, <3>2
  <2> QED
    BY <1>2, <2>2, <2>3
<1> QED
  BY <1>2, <1>4 DEF Rising

\* Only the last counter wraps around, and to zero.
LEMMA WrapsToZero ==
    ASSUME NEW c \in Counter
    PROVE  (c + 1) % CounterSize = IF c + 1 = CounterSize THEN 0 ELSE c + 1
<1> DEFINE p == (c + 1) \div CounterSize  r == (c + 1) % CounterSize
<1>1. CounterSize \in Nat \ {0} /\ c \in Nat /\ c + 1 <= CounterSize
  BY GcmAssumption DEF Counter
<1>2. p \in Int /\ r \in 0 .. CounterSize - 1 /\ c + 1 = CounterSize * p + r
  BY <1>1
<1> HIDE DEF p, r
<1>3. p <= 1
  <2>1. p >= 2 => CounterSize * p >= CounterSize + CounterSize
    BY <1>1, <1>2
  <2> QED
    BY <1>1, <1>2, <2>1
<1>4. p >= 0
  <2>1. p <= -1 => CounterSize * p <= -CounterSize
    BY <1>1, <1>2
  <2> QED
    BY <1>1, <1>2, <2>1
<1>5. CASE p = 0
  <2>1. c + 1 = r
    BY <1>1, <1>2, <1>5
  <2> QED
    BY <1>1, <1>2, <2>1 DEF r
<1>6. CASE p = 1
  <2>1. c + 1 = CounterSize + r
    BY <1>1, <1>2, <1>6
  <2>2. r = 0
    BY <1>1, <1>2, <2>1
  <2> QED
    BY <1>1, <2>1, <2>2 DEF r
<1> QED
  BY <1>2, <1>3, <1>4, <1>5, <1>6

\* The invariant holds before the first message.
LEMMA InitGcmInv == GcmInit => GcmInv
BY GcmAssumption DEF GcmInit, GcmInv, GcmTypeOK, SealedRise, OpenedRise, LinkGenuine,
    RejectedLate, Rising, Counter, InSealed, InOpened, OpenedFrom

\* The steps that leave both Ciphers alone.
LEMMA LinkStep ==
    ASSUME GcmInv, UNCHANGED <<sealer, sealed, panicked, opener, opened, believed, rejected>>,
           link' \subseteq [counter : Counter, intact : BOOLEAN],
           \A m \in link' : m.intact => m \in link
    PROVE  GcmInv'
BY DEF GcmInv, GcmTypeOK, SealedRise, OpenedRise, LinkGenuine, RejectedLate, Rising,
    InSealed, InOpened, OpenedFrom

\* Every message sealed, opened, refused, lost or damaged keeps the invariant.
LEMMA StepGcmInv == GcmInv /\ [GcmNext]_gcmVars => GcmInv'
<1> SUFFICES ASSUME GcmInv, [GcmNext]_gcmVars PROVE GcmInv'
  OBVIOUS
<1>0. /\ GcmTypeOK /\ SealedRise /\ OpenedRise /\ LinkGenuine /\ RejectedLate
      /\ Counter \subseteq Nat
  BY GcmAssumption DEF GcmInv, Counter
<1>6. /\ Len(sealed) \in Nat /\ \A i \in 1 .. Len(sealed) : sealed[i] \in Nat
      /\ Len(opened) \in Nat /\ \A i \in 1 .. Len(opened) : opened[i] \in Nat
      /\ sealer \in Nat /\ opener \in Nat
  <2>1. /\ \A i \in 1 .. Len(sealed) : sealed[i] \in Counter
        /\ \A i \in 1 .. Len(opened) : opened[i] \in Counter
        /\ Len(sealed) \in Nat /\ Len(opened) \in Nat
    BY <1>0 DEF GcmTypeOK
  <2> QED
    BY <1>0, <2>1 DEF GcmTypeOK
<1>1. CASE Seal
  <2>1. sealer' \in Counter /\ sealer' \in Nat /\ (sealer' # 0 => sealer' = sealer + 1)
    BY <1>0, <1>1, GcmAssumption, WrapsToZero DEF Seal, GcmTypeOK, Counter
  <2>2. CASE sealer' = 0
    BY <1>0, <1>1, <2>1, <2>2 DEF Seal, GcmInv, GcmTypeOK, SealedRise, OpenedRise, LinkGenuine,
      RejectedLate, Rising, InSealed, InOpened, OpenedFrom
  <2>3. CASE sealer' # 0
    <3>1. /\ sealed' = Append(sealed, sealer') /\ ~panicked /\ panicked' = panicked
          /\ link' = link \union {Datagram(sealer', TRUE)}
          /\ UNCHANGED <<opener, opened, rejected, believed>>
      BY <1>1, <2>3 DEF Seal, Emit
    <3>2. /\ sealed' \in Seq(Counter) /\ Len(sealed') = Len(sealed) + 1
          /\ sealed'[Len(sealed) + 1] = sealer'
          /\ \A i \in 1 .. Len(sealed) : sealed'[i] = sealed[i]
      BY <1>0, <2>1, <3>1 DEF GcmTypeOK
    <3>3. GcmTypeOK'
      <4>1. Datagram(sealer', TRUE) \in [counter : Counter, intact : BOOLEAN]
        BY <2>1 DEF Datagram
      <4> QED
        BY <1>0, <2>1, <3>1, <3>2, <4>1 DEF GcmTypeOK
    <3>10. sealer' = sealer + 1 /\ \A i \in 1 .. Len(sealed) : 0 < sealed[i] /\ sealed[i] <= sealer
      BY <1>0, <2>1, <2>3, <3>1 DEF SealedRise
    <3>4. \A i \in 1 .. Len(sealed) : sealed[i] < sealer'
      BY <1>6, <3>10
    <3>5. Rising(sealed')
      BY <1>0, <2>1, <3>1, <3>4, AppendRises DEF SealedRise, GcmTypeOK
    <3>6. \A i \in 1 .. Len(sealed') : 0 < sealed'[i] /\ sealed'[i] <= sealer'
      BY <1>6, <3>2, <3>10, <3>4
    <3>7. \A c : InSealed(c) \/ c = sealer' => InSealed(c)'
      BY <1>6, <3>2 DEF InSealed
    <3>8. OpenedRise'
      BY <1>0, <3>1, <3>7 DEF OpenedRise, InOpened
    <3>9. LinkGenuine'
      <4>1. Datagram(sealer', TRUE).counter = sealer'
        BY DEF Datagram
      <4> QED
        BY <1>0, <3>1, <3>7, <4>1 DEF LinkGenuine
    <3> QED
      BY <1>0, <3>1, <3>3, <3>5, <3>6, <3>8, <3>9 DEF GcmInv, SealedRise, RejectedLate, OpenedFrom
  <2> QED
    BY <2>2, <2>3
<1>2. ASSUME NEW m \in link, Open(m) PROVE GcmInv'
  <2>1. /\ m \in [counter : Counter, intact : BOOLEAN] /\ link' \subseteq link
        /\ m.counter > opener /\ opener' = m.counter
        /\ UNCHANGED <<sealer, sealed, panicked, rejected>>
    BY <1>0, <1>2 DEF Open, Taken, GcmTypeOK
  <2>2. opener' \in Counter /\ opener' \in Nat /\ opener' > opener /\ opener \in Nat
    BY <1>0, <2>1 DEF GcmTypeOK
  <2>3. SealedRise' /\ LinkGenuine'
    BY <1>0, <2>1 DEF SealedRise, LinkGenuine, InSealed, Rising
  <2>4. CASE m.intact
    <3>1. opened' = Append(opened, m.counter) /\ believed' = believed
      BY <1>2, <2>4 DEF Open
    <3>2. /\ opened' \in Seq(Counter) /\ Len(opened') = Len(opened) + 1
          /\ opened'[Len(opened) + 1] = m.counter
          /\ \A i \in 1 .. Len(opened) : opened'[i] = opened[i] /\ opened[i] \in Counter
      BY <1>0, <2>1, <3>1 DEF GcmTypeOK
    <3>3. m.counter \in Counter /\ \A i \in 1 .. Len(opened) : opened[i] < m.counter
      BY <1>0, <1>6, <2>1, <2>2 DEF OpenedRise
    <3>4. Rising(opened')
      BY <1>0, <3>1, <3>3, AppendRises DEF OpenedRise, GcmTypeOK
    <3>5. InSealed(m.counter)
      BY <1>0, <2>4 DEF LinkGenuine
    <3>6. \A i \in 1 .. Len(opened') : opened'[i] <= opener' /\ InSealed(opened'[i])
      <4> SUFFICES ASSUME NEW i \in 1 .. Len(opened')
                   PROVE  opened'[i] <= opener' /\ InSealed(opened'[i])
        OBVIOUS
      <4>1. CASE i = Len(opened) + 1
        BY <1>0, <2>1, <2>2, <3>2, <3>5, <4>1
      <4>2. CASE i \in 1 .. Len(opened)
        BY <1>0, <1>6, <2>2, <3>2, <4>2 DEF OpenedRise
      <4> QED
        BY <1>0, <3>2, <4>1, <4>2 DEF GcmTypeOK
    <3>7. \A c \in Counter : OpenedFrom(c) => OpenedFrom(c)'
      BY <1>6, <3>2 DEF OpenedFrom
    <3>8. OpenedRise'
      <4>1. opened'[Len(opened')] = opener' /\ Len(opened') \in 1 .. Len(opened')
        BY <1>6, <2>1, <3>2
      <4> QED
        BY <2>1, <3>4, <3>6, <4>1 DEF OpenedRise, InSealed, InOpened
    <3>9. RejectedLate'
      BY <1>0, <2>1, <3>1, <3>7 DEF RejectedLate, GcmTypeOK
    <3>10. GcmTypeOK'
      BY <1>0, <2>1, <2>2, <3>1, <3>2 DEF GcmTypeOK
    <3> QED
      BY <2>3, <3>8, <3>9, <3>10 DEF GcmInv
  <2>5. CASE ~m.intact
    <3>1. opened' = opened /\ believed' = believed \union {m.counter}
      BY <1>2, <2>5 DEF Open
    <3>2. \A i \in 1 .. Len(opened) : opened[i] <= opener'
      BY <1>0, <1>6, <2>2 DEF OpenedRise
    <3>3. OpenedRise'
      BY <1>0, <2>1, <3>1, <3>2 DEF OpenedRise, InSealed, Rising
    <3>4. RejectedLate'
      BY <1>0, <2>1, <3>1 DEF RejectedLate, OpenedFrom
    <3>5. GcmTypeOK'
      BY <1>0, <2>1, <2>2, <3>1 DEF GcmTypeOK
    <3> QED
      BY <2>3, <3>3, <3>4, <3>5 DEF GcmInv
  <2> QED
    BY <2>4, <2>5
<1>3. ASSUME NEW m \in link, Refuse(m) PROVE GcmInv'
  <2>1. /\ m \in [counter : Counter, intact : BOOLEAN] /\ link' \subseteq link
        /\ m.counter <= opener /\ opener \in Nat
        /\ rejected' = IF m.intact THEN rejected \union {m.counter} ELSE rejected
        /\ UNCHANGED <<sealer, sealed, panicked, opener, opened, believed>>
    BY <1>0, <1>3 DEF Refuse, Taken, GcmTypeOK
  <2>2. ASSUME m.intact PROVE OpenedFrom(m.counter) \/ \E d \in believed : d >= m.counter
    <3>1. PICK i \in 1 .. Len(sealed) : sealed[i] = m.counter
      BY <1>0, <2>2 DEF LinkGenuine, InSealed
    <3>2. opener > 0
      BY <1>0, <1>6, <2>1, <3>1 DEF SealedRise
    <3> QED
      BY <1>0, <2>1, <2>2, <3>2 DEF OpenedRise, InOpened, OpenedFrom
  <2>3. RejectedLate'
    BY <1>0, <2>1, <2>2 DEF RejectedLate, OpenedFrom
  <2> QED
    BY <1>0, <2>1, <2>3 DEF GcmInv, GcmTypeOK, SealedRise, OpenedRise, LinkGenuine, Rising,
      InSealed, InOpened
<1>4. ASSUME NEW m \in link, Lose(m) \/ Damage(m) PROVE GcmInv'
  <2>1. \A c \in Counter : /\ Datagram(c, FALSE) \in [counter : Counter, intact : BOOLEAN]
                           /\ ~Datagram(c, FALSE).intact
    BY DEF Datagram
  <2>2. link \subseteq [counter : Counter, intact : BOOLEAN]
    BY <1>0 DEF GcmTypeOK
  <2>3. CASE Lose(m)
    BY <2>2, <2>3, LinkStep DEF Lose
  <2>4. CASE Damage(m)
    <3>1. PICK c \in Counter : link' = (link \ {m}) \union {Datagram(c, FALSE)}
      BY <2>4 DEF Damage
    <3>2. /\ link' \subseteq [counter : Counter, intact : BOOLEAN]
          /\ \A d \in link' : d.intact => d \in link
      BY <2>1, <2>2, <3>1
    <3> QED
      BY <2>4, <3>2, LinkStep DEF Damage
  <2> QED
    BY <1>4, <2>3, <2>4
<1>5. CASE UNCHANGED gcmVars
  BY <1>0, <1>5, LinkStep DEF gcmVars, GcmTypeOK
<1> QED
  BY <1>1, <1>2, <1>3, <1>4, <1>5 DEF GcmNext

\* For a counter of any width, any number of messages and any link: no nonce is used
\* twice, messages open once, in order and as sealed, and an intact one is refused only
\* after itself, a later one, or a damaged one of as high a counter (61-64, 94-108).
THEOREM CountedOnce == GcmInit /\ [][GcmNext]_gcmVars => []OpenedOnceInOrder
<1>1. GcmInv => OpenedOnceInOrder
  <2> SUFFICES ASSUME GcmInv PROVE OpenedOnceInOrder
    OBVIOUS
  <2>1. \A i \in 1 .. Len(sealed) : sealed[i] \in Nat
    BY GcmAssumption DEF GcmInv, GcmTypeOK, Counter
  <2>2. \A i, j \in 1 .. Len(sealed) : i < j => sealed[i] # sealed[j]
    BY <2>1 DEF GcmInv, SealedRise, Rising
  <2> QED
    BY <2>2 DEF GcmInv, OpenedRise, RejectedLate, OpenedOnceInOrder, Rising, InSealed, InOpened
<1> QED
  BY <1>1, InitGcmInv, StepGcmInv, PTL

-----------------------------------------------------------------------------
(* UDP hole punching.                                                       *)

\* u has the address of p, or it is on its way to u.
Matched(u, p) == <<u, p>> \in responses \/ peerOf[u] = p

Unmatched(u) == \A v \in Users : ~Matched(u, v) /\ ~Matched(v, u)

Stored(u) == \E k \in Names : peersStore[k] = <<u>>

PunchTypeOK ==
    /\ keyOf \in [Users -> Names] /\ peerOf \in [Users -> Users \union {NoPeer}]
    /\ place \in [Users -> {"off", "waiting", "punching"}]
    /\ requests \subseteq Users /\ responses \subseteq Users \X Users /\ extra \in Nat
    /\ peersStore \in [Names -> Seq(Users)]

\* A list holds one client at most, which has that key.
StoreShort ==
    \A k \in Names : peersStore[k] = <<>> \/ \E u \in Users : keyOf[u] = k /\ peersStore[k] = <<u>>

\* A client whose key arrives once waits at one place at most, until it is matched.
WaitersFree ==
    \A u \in Users \ again :
        /\ place[u] = "off" => Unmatched(u) /\ u \notin requests /\ ~Stored(u)
        /\ u \in requests => Unmatched(u) /\ ~Stored(u)
        /\ Stored(u) => Unmatched(u)

\* It is matched with one other client, and nobody else knows of it.
MatchesExclusive ==
    \A u \in Users \ again, p \in Users : Matched(u, p) =>
        /\ p # u
        /\ \A q \in Users : (Matched(u, q) => q = p) /\ (Matched(q, u) => q = p)

PunchInv == PunchTypeOK /\ StoreShort /\ WaitersFree /\ MatchesExclusive

\* The lists of one and of two that peersStore keeps.
LEMMA ShortLists ==
    ASSUME NEW u \in Users, NEW v \in Users
    PROVE  /\ <<u>> # <<>> /\ (<<u>> = <<v>> => u = v)
           /\ Append(<<>>, u) = <<u>> /\ Len(<<u>>) = 1
           /\ LET peers == Append(<<v>>, u)
              IN  Len(peers) = 2 /\ peers[1] = v /\ peers[2] = u
<1>1. Len(<<u>>) = 1 /\ Len(<<>>) = 0 /\ <<u>>[1] = u /\ <<v>>[1] = v /\ <<v>> \in Seq(Users)
  OBVIOUS
<1>2. <<u>> # <<>>
  BY <1>1
<1>3. Append(<<>>, u) = <<u>>
  OBVIOUS
<1>4. Len(Append(<<v>>, u)) = 2 /\ Append(<<v>>, u)[1] = v /\ Append(<<v>>, u)[2] = u
  BY <1>1
<1> QED
  BY <1>1, <1>2, <1>3, <1>4

\* Nobody is matched or waits at first.
LEMMA InitPunchInv == PunchInit => PunchInv
<1> SUFFICES ASSUME PunchInit PROVE PunchInv
  OBVIOUS
<1>1. PunchTypeOK
  BY DEF PunchInit, PunchTypeOK
<1>2. \A u, p \in Users : ~Matched(u, p)
  BY PunchAssumption DEF PunchInit, Matched
<1>3. \A u \in Users : ~Stored(u)
  BY ShortLists DEF PunchInit, Stored
<1> QED
  BY <1>1, <1>2, <1>3 DEF PunchInit, PunchInv, StoreShort, WaitersFree, MatchesExclusive, Unmatched

\* A step that matches nobody and makes nobody wait keeps the invariant.
LEMMA NothingNew ==
    ASSUME PunchInv, PunchTypeOK', again \subseteq again', UNCHANGED <<keyOf, peersStore>>,
           requests' \subseteq requests,
           \A u \in Users \ again' : place'[u] = "off" => place[u] = "off",
           \A u, p \in Users : Matched(u, p)' => Matched(u, p)
    PROVE  PunchInv'
<1>1. StoreShort /\ WaitersFree /\ MatchesExclusive
  BY DEF PunchInv
<1>2. StoreShort'
  BY <1>1 DEF StoreShort
<1>3. WaitersFree'
  BY <1>1 DEF WaitersFree, Unmatched, Stored, PunchTypeOK
<1>4. MatchesExclusive'
  BY <1>1 DEF MatchesExclusive
<1> QED
  BY <1>2, <1>3, <1>4 DEF PunchInv

\* The server pairs two clients that wait, or lets one wait.
LEMMA StepRegister ==
    ASSUME PunchInv, NEW u \in Users, Register(u)
    PROVE  PunchInv'
<1>0. PunchTypeOK
  BY DEF PunchInv
<1> DEFINE k == keyOf[u]  peers == Append(peersStore[keyOf[u]], u)
<1>1. u \in requests /\ k \in Names /\ peersStore[k] \in Seq(Users)
  BY <1>0 DEF Register, PunchTypeOK
<1>2. peers \in Seq(Users) /\ \A i \in 1 .. Len(peers) : peers[i] \in Users
  BY <1>1
<1>3. PunchTypeOK'
  <2>1. CASE Len(peers) = 2
    <3>1. PICK a \in Users, b \in Users : a = peers[1] /\ b = peers[2]
      BY <1>2, <2>1
    <3>2. /\ peersStore' = [peersStore EXCEPT ![k] = <<>>]
          /\ responses' = responses \union {<<b, a>>, <<a, b>>}
      BY <2>1, <3>1 DEF Register
    <3>3. /\ requests' \subseteq Users /\ extra' \in Nat
          /\ keyOf' = keyOf /\ place' = place /\ peerOf' = peerOf
      BY <1>0 DEF Register, Receives, PunchTypeOK
    <3> HIDE DEF k, peers
    <3>4. responses' \subseteq Users \X Users
      BY <1>0, <3>1, <3>2 DEF PunchTypeOK
    <3>5. peersStore' \in [Names -> Seq(Users)]
      <4>1. <<>> \in Seq(Users)
        OBVIOUS
      <4> QED
        BY <1>0, <3>2, <4>1 DEF PunchTypeOK
    <3> QED
      BY <1>0, <3>3, <3>4, <3>5 DEF PunchTypeOK
  <2>2. CASE Len(peers) # 2
    <3>1. peersStore' = [peersStore EXCEPT ![k] = peers] /\ responses' = responses
      BY <2>2 DEF Register
    <3>2. peersStore' \in [Names -> Seq(Users)]
      BY <1>0, <1>2, <3>1 DEF PunchTypeOK
    <3> QED
      BY <1>0, <3>1, <3>2 DEF Register, Receives, PunchTypeOK
  <2> QED
    BY <2>1, <2>2
<1>5. /\ requests' \subseteq requests /\ again \subseteq again' /\ (u \in requests' => u \in again')
      /\ UNCHANGED <<keyOf, place, peerOf>>
  BY DEF Register, Receives
<1>6. StoreShort /\ WaitersFree /\ MatchesExclusive
  BY DEF PunchInv
<1>7. u \notin again => Unmatched(u) /\ ~Stored(u) /\ place[u] # "off"
  BY <1>1, <1>6 DEF WaitersFree
<1>8. CASE peersStore[k] = <<>>
  <2>1. peers = <<u>> /\ Len(peers) # 2
    BY <1>8, ShortLists
  <2>2. peersStore' = [peersStore EXCEPT ![k] = <<u>>] /\ responses' = responses
    BY <2>1 DEF Register
  <2>3. /\ peersStore'[k] = <<u>> /\ \A n \in Names : n # k => peersStore'[n] = peersStore[n]
    BY <1>0, <1>1, <2>2 DEF PunchTypeOK
  <2>4. \A v, p \in Users : Matched(v, p)' <=> Matched(v, p)
    BY <1>5, <2>2 DEF Matched
  <2>5. \A v \in Users : Stored(v)' => Stored(v) \/ v = u
    BY <2>3, ShortLists DEF Stored
  <2>6. MatchesExclusive'
    BY <1>5, <1>6, <2>4 DEF MatchesExclusive
  <2>7. WaitersFree'
    <3>1. \A v \in Users : Unmatched(v)' <=> Unmatched(v)
      BY <2>4 DEF Unmatched
    <3> QED
      BY <1>0, <1>5, <1>6, <1>7, <2>5, <3>1 DEF WaitersFree, PunchTypeOK
  <2>8. StoreShort'
    BY <1>5, <1>6, <2>3 DEF StoreShort
  <2> QED
    BY <1>3, <2>6, <2>7, <2>8 DEF PunchInv
<1>9. CASE peersStore[k] # <<>>
  <2>1. PICK v \in Users : keyOf[v] = k /\ peersStore[k] = <<v>>
    BY <1>1, <1>6, <1>9 DEF StoreShort
  <2>2. /\ Stored(v) /\ (v = u => u \in again)
        /\ Len(peers) = 2 /\ peers[1] = v /\ peers[2] = u
    BY <1>1, <1>7, <2>1, ShortLists DEF Stored
  <2>3. v \notin again => Unmatched(v) /\ v \notin requests /\ place[v] # "off"
    BY <1>6, <2>2 DEF WaitersFree
  <2>4. /\ peersStore' = [peersStore EXCEPT ![k] = <<>>]
        /\ responses' = responses \union {<<u, v>>, <<v, u>>}
    BY <2>2 DEF Register
  <2>5. \A w, p \in Users : Matched(w, p)' <=>
            Matched(w, p) \/ (w = u /\ p = v) \/ (w = v /\ p = u)
    BY <1>5, <2>4 DEF Matched
  <2>6. peersStore'[k] = <<>> /\ \A n \in Names : n # k => peersStore'[n] = peersStore[n]
    BY <1>0, <1>1, <2>4 DEF PunchTypeOK
  <2>7. \A w \in Users : Stored(w)' => Stored(w) /\ w # v /\ (w = u => u \in again)
    <3> SUFFICES ASSUME NEW w \in Users, NEW n \in Names, peersStore'[n] = <<w>>
                 PROVE  Stored(w) /\ w # v /\ (w = u => u \in again)
      BY DEF Stored
    <3>1. n # k /\ peersStore[n] = <<w>>
      BY <2>6, ShortLists
    <3>2. Stored(w) /\ (w = u => u \in again)
      BY <1>7, <3>1 DEF Stored
    <3>3. keyOf[w] = n
      BY <1>6, <3>1, ShortLists DEF StoreShort
    <3> QED
      BY <2>1, <3>1, <3>2, <3>3
  <2>8. \A w \in Users : Unmatched(w) /\ w # u /\ w # v => Unmatched(w)'
    BY <2>5 DEF Unmatched
  <2>9. WaitersFree'
    <3> SUFFICES ASSUME NEW w \in Users, w \notin again'
                 PROVE  /\ place[w] = "off" => Unmatched(w)' /\ w \notin requests' /\ ~Stored(w)'
                        /\ w \in requests' => Unmatched(w)' /\ ~Stored(w)'
                        /\ Stored(w)' => Unmatched(w)'
      BY <1>5 DEF WaitersFree
    <3>1. w \notin again
      BY <1>5
    <3>2. CASE w = u
      BY <1>5, <1>7, <2>7, <3>1, <3>2
    <3>3. CASE w = v
      BY <1>5, <2>3, <2>7, <3>1, <3>3
    <3>4. CASE w # u /\ w # v
      BY <1>5, <1>6, <2>7, <2>8, <3>1, <3>4 DEF WaitersFree
    <3> QED
      BY <3>2, <3>3, <3>4
  <2>10. MatchesExclusive'
    <3> SUFFICES ASSUME NEW w \in Users, w \notin again', NEW p \in Users, Matched(w, p)'
                 PROVE  /\ p # w
                        /\ \A q \in Users : (Matched(w, q)' => q = p) /\ (Matched(q, w)' => q = p)
      BY DEF MatchesExclusive
    <3>1. w \notin again
      BY <1>5
    <3>2. CASE w = u
      BY <1>7, <2>2, <2>5, <3>1, <3>2 DEF Unmatched
    <3>3. CASE w = v
      BY <2>2, <2>3, <2>5, <3>1, <3>3 DEF Unmatched
    <3>4. CASE w # u /\ w # v
      BY <1>6, <2>5, <3>1, <3>4 DEF MatchesExclusive
    <3> QED
      BY <3>2, <3>3, <3>4
  <2>11. StoreShort'
    BY <1>5, <1>6, <2>6 DEF StoreShort
  <2> QED
    BY <1>3, <2>9, <2>10, <2>11 DEF PunchInv
<1> QED
  BY <1>8, <1>9

\* A client that starts is neither matched nor waiting anywhere.
LEMMA StepRendezvous ==
    ASSUME PunchInv, NEW u \in Users, Rendezvous(u)
    PROVE  PunchInv'
<1>0. PunchTypeOK
  BY DEF PunchInv
<1>1. /\ place[u] = "off" /\ place' = [place EXCEPT ![u] = "waiting"]
      /\ requests' = requests \union {u}
      /\ UNCHANGED <<keyOf, peerOf, peersStore, responses, extra, again>>
  BY DEF Rendezvous
<1>2. PunchTypeOK'
  BY <1>0, <1>1 DEF PunchTypeOK
<1>3. \A v \in Users : (Unmatched(v)' <=> Unmatched(v)) /\ (Stored(v)' <=> Stored(v))
  BY <1>1 DEF Unmatched, Matched, Stored
<1>4. WaitersFree'
  <2>1. WaitersFree
    BY DEF PunchInv
  <2>2. \A v \in Users : place'[v] = "off" => place[v] = "off" /\ v # u
    BY <1>0, <1>1 DEF PunchTypeOK
  <2>3. u \notin again => Unmatched(u) /\ ~Stored(u)
    BY <1>1, <2>1 DEF WaitersFree
  <2> QED
    BY <1>0, <1>1, <1>3, <2>1, <2>2, <2>3 DEF WaitersFree, PunchTypeOK
<1>5. MatchesExclusive' /\ StoreShort'
  BY <1>1 DEF PunchInv, MatchesExclusive, Matched, StoreShort
<1> QED
  BY <1>2, <1>4, <1>5 DEF PunchInv

\* Every step of the clients, the server and the link keeps the invariant.
LEMMA StepPunchInv == PunchInv /\ [PunchNext]_punchVars => PunchInv'
<1> SUFFICES ASSUME PunchInv, [PunchNext]_punchVars PROVE PunchInv'
  OBVIOUS
<1>0. PunchTypeOK
  BY DEF PunchInv
<1>1. CASE LoseAny
  BY <1>0, <1>1, NothingNew DEF LoseAny, PunchTypeOK, Matched
<1>2. ASSUME NEW u \in Users, NEW p \in Users, Learn(u, p) PROVE PunchInv'
  <2>1. /\ <<u, p>> \in responses /\ place' = [place EXCEPT ![u] = "punching"]
        /\ peerOf' = [peerOf EXCEPT ![u] = p] /\ responses' = responses \ {<<u, p>>}
        /\ UNCHANGED <<keyOf, requests, peersStore, extra, again>>
    BY <1>2 DEF Learn
  <2>2. PunchTypeOK'
    BY <1>0, <2>1 DEF PunchTypeOK
  <2>3. \A v, q \in Users : Matched(v, q)' => Matched(v, q)
    BY <1>0, <2>1 DEF Matched, PunchTypeOK
  <2>4. \A v \in Users : place'[v] = "off" => place[v] = "off"
    BY <1>0, <2>1 DEF PunchTypeOK
  <2> QED
    BY <2>1, <2>2, <2>3, <2>4, NothingNew
<1>3. ASSUME NEW u \in Users, Punch(u) \/ Greet(u) PROVE PunchInv'
  BY <1>0, <1>3, NothingNew DEF Punch, Greet, PunchTypeOK, Matched
<1>4. ASSUME NEW u \in Users, Restart(u) PROVE PunchInv'
  <2>1. /\ place' = [place EXCEPT ![u] = "off"] /\ peerOf' = [peerOf EXCEPT ![u] = NoPeer]
        /\ again' = again \union {u} /\ UNCHANGED <<keyOf, requests, peersStore, responses>>
    BY <1>4 DEF Restart
  <2>2. PunchTypeOK'
    BY <1>0, <1>4 DEF Restart, PunchTypeOK
  <2>3. \A v, q \in Users : Matched(v, q)' => Matched(v, q)
    BY <1>0, <2>1, PunchAssumption DEF Matched, PunchTypeOK
  <2>4. \A v \in Users \ again' : place'[v] = "off" => place[v] = "off"
    BY <1>0, <2>1 DEF PunchTypeOK
  <2> QED
    BY <2>1, <2>2, <2>3, <2>4, NothingNew
<1>5. CASE UNCHANGED punchVars
  BY <1>0, <1>5, NothingNew DEF punchVars, PunchTypeOK, Matched
<1> QED
  BY <1>1, <1>2, <1>3, <1>4, <1>5, StepRegister, StepRendezvous DEF PunchNext, PunchSteps

\* Of any number of clients and keys, whatever is lost and in whatever order it arrives: a
\* client whose key arrives once is paired with another one, and so is its peer with it
\* unless the peer's key arrives twice (server.go 31-46).
THEOREM PairedWithOneAnother == PunchInit /\ [][PunchNext]_punchVars => []PairedAlike
<1>1. PunchInv => PairedAlike
  <2> SUFFICES ASSUME PunchInv, NEW u \in Users, NEW p \in Users, u \notin again, peerOf[u] = p
               PROVE  p # u /\ (p \notin again => peerOf[p] \in {u, NoPeer})
    BY DEF PairedAlike
  <2>1. Matched(u, p) /\ MatchesExclusive /\ peerOf[p] \in Users \union {NoPeer}
    BY DEF PunchInv, PunchTypeOK, Matched
  <2>2. p # u
    BY <2>1 DEF MatchesExclusive
  <2>3. ASSUME p \notin again, peerOf[p] \in Users PROVE peerOf[p] = u
    <3>1. Matched(p, peerOf[p])
      BY DEF Matched
    <3> QED
      BY <2>1, <2>3, <3>1 DEF MatchesExclusive
  <2> QED
    BY <2>1, <2>2, <2>3
<1> QED
  BY <1>1, InitPunchInv, StepPunchInv, PTL

-----------------------------------------------------------------------------
(* Replica exchange over MPI, for any number of processes and trials.       *)

\* A message between p and q is the request of the slave below, with its own replica,
\* or the answer to it; there is never another one in either direction.
PendingRequest(p, q) ==
    /\ Waiting(p) /\ q = p + 1
    /\ Len(mail[p][q]) = 1 /\ Head(mail[p][q]).id = id[p]
    /\ mail[q][p] = <<>>

PendingAnswer(p, q) ==
    /\ Waiting(q) /\ p = q + 1
    /\ Len(mail[p][q]) = 1
    /\ mail[q][p] = <<>>

SlavesBelow == \A p \in Ranks : Waiting(p) => Pair(p) = p + 1 /\ p + 1 \in Ranks
MailOK == \A p, q \in Ranks : mail[p][q] # <<>> => PendingRequest(p, q) \/ PendingAnswer(p, q)

RexInv == RexTypeOK /\ SlavesBelow /\ MailOK

\* The pair of a process is the one above or the one below it (88-91).
LEMMA PairBeside ==
    ASSUME RexTypeOK, NEW p \in Ranks
    PROVE  /\ p \in Int /\ trials[p] \in Nat
           /\ Pair(p) \in {p - 1, p + 1}
BY RexAssumption DEF RexTypeOK, Ranks, Pair

\* Queues of one message.
LEMMA SeqOne ==
    ASSUME NEW S, NEW q \in Seq(S), Len(q) = 1
    PROVE  Head(q) \in S /\ Tail(q) = <<>>
<1>1. Head(q) \in S /\ Tail(q) \in Seq(S) /\ Len(Tail(q)) = 0
  OBVIOUS
<1>2. Tail(q) = <<>>
  BY <1>1, EmptySeq
<1> QED
  BY <1>1, <1>2

\* Queues that get their only message.
LEMMA AppendOne ==
    ASSUME NEW S, NEW m \in S
    PROVE  /\ Append(<<>>, m) = <<m>> /\ <<m>> \in Seq(S)
           /\ Len(<<m>>) = 1 /\ Head(<<m>>) = m /\ <<m>> # <<>>
OBVIOUS

\* The invariant holds before the first trial.
LEMMA InitRexInv == RexInit => RexInv
<1> SUFFICES ASSUME RexInit PROVE RexInv
  OBVIOUS
<1>1. RexTypeOK
  BY DEF RexInit, RexTypeOK, Place
<1>2. SlavesBelow
  BY DEF RexInit, SlavesBelow, Waiting
<1>3. MailOK
  BY DEF RexInit, MailOK
<1> QED
  BY <1>1, <1>2, <1>3 DEF RexInv

\* Every step of the exchange, of the medium and at the end keeps the invariant.
LEMMA StepRexInv == RexInv /\ [RexNext]_rexVars => RexInv'
<1> SUFFICES ASSUME RexInv, [RexNext]_rexVars PROVE RexInv'
  OBVIOUS
<1>0. RexTypeOK /\ SlavesBelow /\ MailOK
  BY DEF RexInv
<1>1. ASSUME NEW p \in Ranks, NoPair(p) PROVE RexInv'
  <2>1. RexTypeOK'
    BY <1>0, <1>1 DEF NoPair, Return, RexTypeOK, Place
  <2>2. SlavesBelow'
    BY <1>0, <1>1 DEF NoPair, Begins, Return, RexTypeOK, SlavesBelow, Waiting, Pair
  <2>3. MailOK'
    BY <1>0, <1>1 DEF NoPair, Begins, Return, RexTypeOK, MailOK, Waiting, PendingRequest, PendingAnswer
  <2> QED
    BY <2>1, <2>2, <2>3 DEF RexInv
<1>2. ASSUME NEW p \in Ranks, SlaveSend(p) PROVE RexInv'
  <2> PICK q \in Ranks : q = Pair(p)
    BY <1>2 DEF SlaveSend
  <2> PICK m \in Letter : m = [id |-> id[p], trial |-> trials[p]]
    BY <1>0 DEF Letter, RexTypeOK
  <2>1. p \in Int /\ q = p + 1 /\ m.id = id[p]
    BY <1>0, <1>2, PairBeside DEF SlaveSend
  <2>2. /\ at[p] = "computing" /\ at' = [at EXCEPT ![p] = "sending"]
        /\ mail' = [mail EXCEPT ![p][q] = Append(@, m)]
        /\ UNCHANGED <<id, trials, newId>>
    BY <1>2 DEF SlaveSend, Begins, Send
  <2>3. mail[p][q] = <<>> /\ mail[q][p] = <<>>
    BY <1>0, <2>1, <2>2 DEF MailOK, PendingRequest, PendingAnswer, Waiting
  <2>4. RexTypeOK'
    BY <1>0, <2>1, <2>2 DEF RexTypeOK, Place
  <2>5. SlavesBelow'
    BY <1>0, <2>1, <2>2 DEF RexTypeOK, SlavesBelow, Waiting, Pair
  <2>6. mail'[p][q] = <<m>>
    <3>1. mail'[p][q] = Append(mail[p][q], m)
      BY <1>0, <2>1, <2>2 DEF RexTypeOK
    <3> QED
      BY <3>1, <2>3, AppendOne
  <2>7. ASSUME NEW a \in Ranks, NEW b \in Ranks, <<a, b>> # <<p, q>> PROVE mail'[a][b] = mail[a][b]
    BY <1>0, <2>1, <2>2, <2>7 DEF RexTypeOK
  <2>8. ASSUME NEW a \in Ranks PROVE Waiting(a) => Waiting(a)'
    BY <1>0, <2>1, <2>2 DEF RexTypeOK, Waiting
  <2>9. MailOK'
    <3> SUFFICES ASSUME NEW a \in Ranks, NEW b \in Ranks, mail'[a][b] # <<>>
                 PROVE  PendingRequest(a, b)' \/ PendingAnswer(a, b)'
      BY DEF MailOK
    <3>1. CASE a = p /\ b = q
      <4>1. mail'[q][p] = <<>>
        BY <2>1, <2>3, <2>7
      <4>2. Waiting(p)'
        BY <1>0, <2>2 DEF RexTypeOK, Waiting
      <4>3. Len(mail'[p][q]) = 1 /\ Head(mail'[p][q]).id = id'[p]
        BY <2>1, <2>2, <2>6, AppendOne
      <4> QED
        BY <3>1, <4>1, <4>2, <4>3, <2>1 DEF PendingRequest
    <3>2. CASE <<a, b>> # <<p, q>>
      <4>1. mail'[a][b] = mail[a][b] /\ (PendingRequest(a, b) \/ PendingAnswer(a, b))
        BY <1>0, <2>7, <3>2 DEF MailOK
      <4>2. <<b, a>> # <<p, q>>
        BY <2>1, <2>2, <2>3, <3>2, <4>1 DEF PendingRequest, PendingAnswer, Waiting
      <4>3. mail'[b][a] = mail[b][a]
        BY <2>7, <4>2
      <4> QED
        BY <2>2, <2>8, <4>1, <4>3 DEF PendingRequest, PendingAnswer
    <3> QED
      BY <3>1, <3>2
  <2> QED
    BY <2>4, <2>5, <2>9 DEF RexInv
<1>3. ASSUME NEW p \in Ranks, SlaveSent(p) PROVE RexInv'
  <2>1. RexTypeOK'
    BY <1>0, <1>3 DEF SlaveSent, RexTypeOK, Place
  <2>2. SlavesBelow'
    BY <1>0, <1>3 DEF SlaveSent, RexTypeOK, SlavesBelow, Waiting, Pair
  <2>3. MailOK'
    BY <1>0, <1>3 DEF SlaveSent, RexTypeOK, MailOK, Waiting, PendingRequest, PendingAnswer
  <2> QED
    BY <2>1, <2>2, <2>3 DEF RexInv
<1>4. ASSUME NEW p \in Ranks, SlaveReceive(p) PROVE RexInv'
  <2> PICK q \in Ranks : q = Pair(p)
    BY <1>0, <1>4 DEF SlaveReceive, SlavesBelow, Waiting
  <2>1. p \in Int /\ q = p + 1
    BY <1>0, <1>4, PairBeside DEF SlaveReceive, SlavesBelow, Waiting
  <2>2. /\ at[p] = "awaiting" /\ at' = [at EXCEPT ![p] = "computing"]
        /\ mail[q][p] # <<>>
        /\ mail' = [mail EXCEPT ![q][p] = Tail(@)]
        /\ id' = [id EXCEPT ![p] = Head(mail[q][p]).id]
        /\ trials' = [trials EXCEPT ![p] = @ + 1]
        /\ UNCHANGED newId
    BY <1>4 DEF SlaveReceive, Return
  <2>3. PendingAnswer(q, p)
    BY <1>0, <2>1, <2>2 DEF MailOK, PendingRequest
  <2>4. Head(mail[q][p]) \in Letter /\ Tail(mail[q][p]) = <<>>
    BY <1>0, <2>3, SeqOne DEF RexTypeOK, PendingAnswer
  <2>5. Head(mail[q][p]).id \in Ranks
    BY <2>4 DEF Letter
  <2>6. RexTypeOK'
    BY <1>0, <2>1, <2>2, <2>4, <2>5 DEF RexTypeOK, Place
  <2>7. SlavesBelow'
    BY <1>0, <2>1, <2>2 DEF RexTypeOK, SlavesBelow, Waiting, Pair
  <2>8. mail'[q][p] = <<>> /\ mail[p][q] = <<>>
    BY <1>0, <2>1, <2>2, <2>3, <2>4 DEF RexTypeOK, PendingAnswer
  <2>9. ASSUME NEW a \in Ranks, NEW b \in Ranks, <<a, b>> # <<q, p>> PROVE mail'[a][b] = mail[a][b]
    BY <1>0, <2>1, <2>2, <2>9 DEF RexTypeOK
  <2>10. MailOK'
    <3> SUFFICES ASSUME NEW a \in Ranks, NEW b \in Ranks, mail'[a][b] # <<>>
                 PROVE  PendingRequest(a, b)' \/ PendingAnswer(a, b)'
      BY DEF MailOK
    <3>1. <<a, b>> # <<q, p>>
      BY <2>8
    <3>2. mail'[a][b] = mail[a][b] /\ (PendingRequest(a, b) \/ PendingAnswer(a, b))
      BY <1>0, <2>9, <3>1 DEF MailOK
    <3>3. <<a, b>> # <<p, q>> /\ <<b, a>> # <<q, p>>
      BY <2>1, <2>8, <3>2
    <3>4. mail'[b][a] = mail[b][a]
      BY <2>9, <3>3
    <3>5. a \in Int /\ b \in Int
      BY DEF Ranks
    <3>6. CASE PendingRequest(a, b)
      <4>1. a # p
        BY <3>3, <3>6, <2>1 DEF PendingRequest
      <4> QED
        BY <1>0, <2>2, <3>2, <3>4, <3>6, <4>1 DEF PendingRequest, Waiting, RexTypeOK
    <3>7. CASE PendingAnswer(a, b)
      <4>1. b # p
        BY <3>1, <3>7, <2>1 DEF PendingAnswer
      <4> QED
        BY <1>0, <2>2, <3>2, <3>4, <3>7, <4>1 DEF PendingAnswer, Waiting, RexTypeOK
    <3> QED
      BY <3>2, <3>6, <3>7
  <2> QED
    BY <2>6, <2>7, <2>10 DEF RexInv
<1>5. ASSUME NEW p \in Ranks, MasterDecide(p) PROVE RexInv'
  <2> PICK s \in Ranks : s = Pair(p)
    BY <1>5 DEF MasterDecide
  <2>1. p \in Int /\ s = p - 1 /\ s \in Int /\ p = s + 1 /\ s # p
    BY <1>0, <1>5, PairBeside DEF MasterDecide, Ranks
  <2>2. /\ at[p] = "computing" /\ at' = [at EXCEPT ![p] = "answering"]
        /\ mail[s][p] # <<>>
        /\ UNCHANGED <<id, trials>>
    BY <1>5 DEF MasterDecide, Begins
  <2>3. PendingRequest(s, p)
    BY <1>0, <2>1, <2>2 DEF MailOK, PendingAnswer
  <2>4. Head(mail[s][p]) \in Letter /\ Tail(mail[s][p]) = <<>> /\ Head(mail[s][p]).id \in Ranks
    BY <1>0, <2>3, SeqOne DEF RexTypeOK, PendingRequest, Letter
  <2>5. PICK mine \in Ranks, m \in Letter :
          /\ newId' = [newId EXCEPT ![p] = mine]
          /\ mail' = [mail EXCEPT ![s][p] = Tail(@), ![p][s] = Append(@, m)]
    <3>1. id[p] \in Ranks /\ trials[p] \in Nat
      BY <1>0 DEF RexTypeOK
    <3>2. \A i \in Ranks : [id |-> i, trial |-> trials[p]] \in Letter
      BY <3>1 DEF Letter
    <3> QED
      BY <1>5, <2>4, <3>1, <3>2 DEF MasterDecide
  <2>6. mail'[s][p] = <<>> /\ mail'[p][s] = <<m>>
    <3>1. mail'[s][p] = Tail(mail[s][p]) /\ mail'[p][s] = Append(mail[p][s], m)
      BY <1>0, <2>1, <2>5 DEF RexTypeOK
    <3> QED
      BY <3>1, <2>3, <2>4, AppendOne DEF PendingRequest
  <2>7. ASSUME NEW a \in Ranks, NEW b \in Ranks, <<a, b>> # <<s, p>>, <<a, b>> # <<p, s>>
        PROVE  mail'[a][b] = mail[a][b]
    BY <1>0, <2>1, <2>5, <2>7 DEF RexTypeOK
  <2>8. RexTypeOK'
    <3>1. mail' \in [Ranks -> [Ranks -> Seq(Letter)]]
      <4>1. /\ mail'[s][p] \in Seq(Letter) /\ mail'[p][s] \in Seq(Letter)
        BY <2>6, AppendOne, EmptySeq
      <4>2. \A a, b \in Ranks : mail'[a][b] \in Seq(Letter)
        <5> SUFFICES ASSUME NEW a \in Ranks, NEW b \in Ranks
                     PROVE  mail'[a][b] \in Seq(Letter)
          OBVIOUS
        <5>1. CASE <<a, b>> # <<s, p>> /\ <<a, b>> # <<p, s>>
          BY <1>0, <2>7, <5>1 DEF RexTypeOK
        <5> QED
          BY <4>1, <5>1
      <4>3. /\ mail' = [a \in Ranks |-> mail'[a]]
            /\ \A a \in Ranks : mail'[a] = [b \in Ranks |-> mail'[a][b]]
        BY <1>0, <2>5 DEF RexTypeOK
      <4> QED
        BY <4>2, <4>3
    <3>2. newId' \in [Ranks -> Ranks] /\ at' \in [Ranks -> Place]
      BY <1>0, <2>2, <2>5 DEF RexTypeOK, Place
    <3> QED
      BY <1>0, <2>2, <3>1, <3>2 DEF RexTypeOK
  <2>9. SlavesBelow'
    BY <1>0, <2>1, <2>2 DEF RexTypeOK, SlavesBelow, Waiting, Pair
  <2>10. \A a \in Ranks : Waiting(a)' <=> Waiting(a)
    BY <1>0, <2>2 DEF RexTypeOK, Waiting
  <2>11. MailOK'
    <3> SUFFICES ASSUME NEW a \in Ranks, NEW b \in Ranks, mail'[a][b] # <<>>
                 PROVE  PendingRequest(a, b)' \/ PendingAnswer(a, b)'
      BY DEF MailOK
    <3>1. CASE <<a, b>> = <<p, s>>
      <4>1. Waiting(s)'
        BY <2>1, <2>3, <2>10 DEF PendingRequest
      <4>2. Len(mail'[p][s]) = 1
        BY <2>6, AppendOne
      <4> QED
        BY <3>1, <4>1, <4>2, <2>1, <2>6 DEF PendingAnswer
    <3>2. CASE <<a, b>> # <<p, s>>
      <4>1. <<a, b>> # <<s, p>> /\ <<b, a>> # <<s, p>> /\ <<b, a>> # <<p, s>>
        BY <2>6, <3>2
      <4>2. mail'[a][b] = mail[a][b] /\ mail'[b][a] = mail[b][a]
        BY <2>7, <3>2, <4>1
      <4>3. PendingRequest(a, b) \/ PendingAnswer(a, b)
        BY <1>0, <4>2 DEF MailOK
      <4> QED
        BY <2>2, <2>10, <4>2, <4>3 DEF PendingRequest, PendingAnswer
    <3> QED
      BY <3>1, <3>2
  <2> QED
    BY <2>8, <2>9, <2>11 DEF RexInv
<1>6. ASSUME NEW p \in Ranks, MasterSent(p) PROVE RexInv'
  <2>1. RexTypeOK'
    BY <1>0, <1>6 DEF MasterSent, Return, RexTypeOK, Place
  <2>2. SlavesBelow'
    BY <1>0, <1>6 DEF MasterSent, Return, RexTypeOK, SlavesBelow, Waiting, Pair
  <2>3. MailOK'
    <3>1. mail' = mail /\ \A a \in Ranks : (Waiting(a)' <=> Waiting(a)) /\ (Waiting(a) => id'[a] = id[a])
      BY <1>0, <1>6 DEF MasterSent, Return, RexTypeOK, Waiting
    <3> SUFFICES ASSUME NEW a \in Ranks, NEW b \in Ranks, mail[a][b] # <<>>
                 PROVE  PendingRequest(a, b)' \/ PendingAnswer(a, b)'
      BY <3>1 DEF MailOK
    <3>2. PendingRequest(a, b) \/ PendingAnswer(a, b)
      BY <1>0 DEF MailOK
    <3> QED
      BY <3>1, <3>2 DEF PendingRequest, PendingAnswer
  <2> QED
    BY <2>1, <2>2, <2>3 DEF RexInv
<1>7. CASE UNCHANGED rexVars
  BY <1>0, <1>7 DEF rexVars, RexInv, RexTypeOK, SlavesBelow, MailOK, Waiting, Pair, PendingRequest, PendingAnswer
<1> QED
  BY <1>1, <1>2, <1>3, <1>4, <1>5, <1>6, <1>7 DEF RexNext, Proceed, Sent, RexDone

-----------------------------------------------------------------------------

\* No message but its answer is on its way to a slave; no message but a request of the
\* slave below is on its way to a process that is no slave.
LEMMA OthersHold ==
    ASSUME RexInv, NEW p \in Ranks, NEW x \in Ranks, x # p,
           id'[x] = id[x], newId'[x] = newId[x], trials'[x] = trials[x], at'[x] = at[x],
           Waiting(x) => mail'[Pair(x)][x] = mail[Pair(x)][x]
    PROVE  Holds(x)' = Holds(x)
<1>1. Pair(x)' = Pair(x) /\ (Waiting(x)' <=> Waiting(x))
  BY DEF Pair, Waiting
<1> QED
  BY <1>1 DEF Holds

\* A step moves no replica, but the master's decision, which may swap its replica with
\* the one of the process below.
LEMMA StepSwaps ==
    ASSUME RexInv, [RexNext]_rexVars
    PROVE  \/ \A x \in Ranks : Holds(x)' = Holds(x)
           \/ \E s \in Ranks :
                 /\ s + 1 \in Ranks
                 /\ Holds(s)' = Holds(s + 1) /\ Holds(s + 1)' = Holds(s)
                 /\ \A x \in Ranks \ {s, s + 1} : Holds(x)' = Holds(x)
<1>0. RexTypeOK /\ SlavesBelow /\ MailOK
  BY DEF RexInv
<1>1. ASSUME NEW p \in Ranks, NoPair(p), NEW x \in Ranks PROVE Holds(x)' = Holds(x)
  <2>1. CASE x = p
    BY <1>0, <1>1, <2>1 DEF NoPair, Begins, Return, Holds, Waiting, RexTypeOK
  <2>2. CASE x # p
    BY <1>0, <1>1, <2>2, OthersHold DEF NoPair, Return, RexTypeOK
  <2> QED
    BY <2>1, <2>2
<1>2. ASSUME NEW p \in Ranks, SlaveSend(p), NEW x \in Ranks PROVE Holds(x)' = Holds(x)
  <2> PICK q \in Ranks : q = Pair(p)
    BY <1>2 DEF SlaveSend
  <2>1. p \in Int /\ q = p + 1 /\ q # p
    BY <1>0, <1>2, PairBeside DEF SlaveSend, Ranks
  <2>2. /\ at[p] = "computing" /\ at' = [at EXCEPT ![p] = "sending"]
        /\ mail' = [mail EXCEPT ![p][q] = Append(@, [id |-> id[p], trial |-> trials[p]])]
        /\ UNCHANGED <<id, trials, newId>>
    BY <1>2 DEF SlaveSend, Begins, Send
  <2>3. CASE x = p
    <3>1. mail[q][p] = <<>>
      BY <1>0, <2>1, <2>2 DEF MailOK, PendingRequest, PendingAnswer, Waiting
    <3>2. mail'[q][p] = mail[q][p] /\ Pair(p)' = q
      BY <1>0, <2>1, <2>2 DEF RexTypeOK, Pair
    <3> QED
      BY <1>0, <2>2, <2>3, <3>1, <3>2 DEF Holds, Waiting, RexTypeOK
  <2>4. CASE x # p
    <3>1. Waiting(x) => Pair(x) \in Ranks /\ <<Pair(x), x>> # <<p, q>>
      BY <1>0, <2>1, PairBeside DEF SlavesBelow, Ranks
    <3>2. Waiting(x) => mail'[Pair(x)][x] = mail[Pair(x)][x]
      BY <1>0, <2>2, <3>1 DEF RexTypeOK
    <3> QED
      BY <1>0, <2>2, <2>4, <3>2, OthersHold DEF RexTypeOK
  <2> QED
    BY <2>3, <2>4
<1>3. ASSUME NEW p \in Ranks, SlaveSent(p), NEW x \in Ranks PROVE Holds(x)' = Holds(x)
  BY <1>0, <1>3 DEF SlaveSent, Holds, Waiting, Pair, RexTypeOK
<1>4. ASSUME NEW p \in Ranks, SlaveReceive(p), NEW x \in Ranks PROVE Holds(x)' = Holds(x)
  <2> PICK q : q = Pair(p)
    OBVIOUS
  <2>1. Waiting(p) /\ q \in Ranks
    BY <1>0, <1>4 DEF SlaveReceive, Waiting, SlavesBelow
  <2>2. /\ mail[q][p] # <<>>
        /\ id' = [id EXCEPT ![p] = Head(mail[q][p]).id]
        /\ mail' = [mail EXCEPT ![q][p] = Tail(@)]
        /\ trials' = [trials EXCEPT ![p] = @ + 1]
        /\ at' = [at EXCEPT ![p] = "computing"]
        /\ newId' = newId
    BY <1>4 DEF SlaveReceive, Return
  <2>3. CASE x = p
    <3>1. Holds(p) = Head(mail[q][p]).id
      BY <1>4, <2>1, <2>2 DEF Holds, SlaveReceive
    <3>2. Holds(p)' = id'[p]
      BY <1>0, <2>2 DEF Holds, Waiting, RexTypeOK
    <3> QED
      BY <1>0, <2>2, <2>3, <3>1, <3>2 DEF RexTypeOK
  <2>4. CASE x # p
    <3>1. Waiting(x) => Pair(x) \in Ranks
      BY <1>0 DEF SlavesBelow
    <3>2. Waiting(x) => mail'[Pair(x)][x] = mail[Pair(x)][x]
      BY <1>0, <2>1, <2>2, <2>4, <3>1 DEF RexTypeOK
    <3> QED
      BY <1>0, <2>2, <2>4, <3>2, OthersHold DEF RexTypeOK
  <2> QED
    BY <2>3, <2>4
<1>5. ASSUME NEW p \in Ranks, MasterSent(p), NEW x \in Ranks PROVE Holds(x)' = Holds(x)
  <2>1. CASE x = p
    BY <1>0, <1>5, <2>1 DEF MasterSent, Return, Holds, Waiting, RexTypeOK
  <2>2. CASE x # p
    BY <1>0, <1>5, <2>2, OthersHold DEF MasterSent, Return, RexTypeOK
  <2> QED
    BY <2>1, <2>2
<1>6. ASSUME NEW p \in Ranks, MasterDecide(p)
      PROVE  \E s \in Ranks :
               /\ p = s + 1
               /\ \A x \in Ranks \ {s, p} : Holds(x)' = Holds(x)
               /\ \/ Holds(s)' = Holds(p) /\ Holds(p)' = Holds(s)
                  \/ Holds(s)' = Holds(s) /\ Holds(p)' = Holds(p)
  <2> PICK s \in Ranks : s = Pair(p)
    BY <1>6 DEF MasterDecide
  <2>1. p \in Int /\ s = p - 1 /\ s \in Int /\ p = s + 1 /\ s # p
    BY <1>0, <1>6, PairBeside DEF MasterDecide, Ranks
  <2>2. /\ at[p] = "computing" /\ at' = [at EXCEPT ![p] = "answering"]
        /\ mail[s][p] # <<>>
        /\ UNCHANGED <<id, trials>>
    BY <1>6 DEF MasterDecide, Begins
  <2>3. PendingRequest(s, p)
    BY <1>0, <2>1, <2>2 DEF MailOK, PendingAnswer
  <2>4. Waiting(s) /\ Pair(s) = p /\ mail[p][s] = <<>> /\ Head(mail[s][p]).id = id[s]
    BY <1>0, <2>1, <2>3 DEF PendingRequest, SlavesBelow
  <2>5. PICK mine, m :
          /\ \/ mine = id[p] /\ m.id = id[s]
             \/ mine = id[s] /\ m.id = id[p]
          /\ newId' = [newId EXCEPT ![p] = mine]
          /\ mail' = [mail EXCEPT ![s][p] = Tail(@), ![p][s] = Append(@, m)]
    <3> PICK mine \in {id[p], id[s]} :
          /\ newId' = [newId EXCEPT ![p] = mine]
          /\ mail' = [mail EXCEPT
                 ![s][p] = Tail(@),
                 ![p][s] = Append(@, [id |-> IF mine = id[s] THEN id[p] ELSE id[s],
                                      trial |-> trials[p]])]
      BY <1>6, <2>4 DEF MasterDecide
    <3> PICK m : m = [id |-> IF mine = id[s] THEN id[p] ELSE id[s], trial |-> trials[p]]
      OBVIOUS
    <3>1. \/ mine = id[p] /\ m.id = id[s]
          \/ mine = id[s] /\ m.id = id[p]
      OBVIOUS
    <3> QED
      BY <3>1
  <2>6. mail'[p][s] = <<m>>
    <3>1. mail'[p][s] = Append(mail[p][s], m)
      BY <1>0, <2>1, <2>5 DEF RexTypeOK
    <3> QED
      BY <3>1, <2>4
  <2>7. Holds(s) = id[s] /\ Holds(p) = id[p]
    BY <2>2, <2>4 DEF Holds, Waiting
  <2>8. Holds(p)' = mine
    BY <1>0, <2>2, <2>5 DEF Holds, RexTypeOK
  <2>9. Holds(s)' = m.id
    <3>1. at'[s] = at[s] /\ Waiting(s)' /\ Pair(s)' = p
      BY <1>0, <2>1, <2>2, <2>4 DEF Waiting, Pair, RexTypeOK
    <3> QED
      BY <2>6, <3>1 DEF Holds, Waiting
  <2>10. ASSUME NEW x \in Ranks \ {s, p} PROVE Holds(x)' = Holds(x)
    <3>1. Waiting(x) => Pair(x) \in Ranks
      BY <1>0 DEF SlavesBelow
    <3>2. Waiting(x) => mail'[Pair(x)][x] = mail[Pair(x)][x]
      BY <1>0, <2>1, <2>5, <2>10, <3>1 DEF RexTypeOK
    <3> QED
      BY <1>0, <2>2, <2>5, <2>10, <3>2, OthersHold DEF RexTypeOK
  <2> QED
    BY <2>1, <2>5, <2>7, <2>8, <2>9, <2>10
<1>7. CASE \E p \in Ranks : MasterDecide(p)
  <2> PICK p \in Ranks : MasterDecide(p)
    BY <1>7
  <2> PICK s \in Ranks :
               /\ p = s + 1
               /\ \A x \in Ranks \ {s, p} : Holds(x)' = Holds(x)
               /\ \/ Holds(s)' = Holds(p) /\ Holds(p)' = Holds(s)
                  \/ Holds(s)' = Holds(s) /\ Holds(p)' = Holds(p)
    BY <1>6
  <2>1. CASE Holds(s)' = Holds(p) /\ Holds(p)' = Holds(s)
    BY <2>1
  <2>2. CASE Holds(s)' = Holds(s) /\ Holds(p)' = Holds(p)
    <3>1. ASSUME NEW x \in Ranks PROVE Holds(x)' = Holds(x)
      <4>1. CASE x \in Ranks \ {s, p}
        BY <4>1
      <4>2. CASE x = s
        BY <2>2, <4>2
      <4>3. CASE x = p
        BY <2>2, <4>3
      <4> QED
        BY <4>1, <4>2, <4>3
    <3> QED
      BY <3>1
  <2> QED
    BY <2>1, <2>2
<1>8. CASE UNCHANGED rexVars
  BY <1>8 DEF rexVars, Holds, Waiting, Pair
<1> QED
  BY <1>1, <1>2, <1>3, <1>4, <1>5, <1>7, <1>8 DEF RexNext, Proceed, Sent, RexDone

\* Of any number of processes, every one always holds some replica and no message is
\* anything but the request or the answer of the exchange in progress.
THEOREM RexTypeCorrect == RexSpec => []RexTypeOK
<1>1. RexInv => RexTypeOK
  BY DEF RexInv
<1> QED
  BY <1>1, InitRexInv, StepRexInv, PTL DEF RexSpec

\* The three-step protocol between the processes implements atomic swaps of
\* neighboring replicas, however the processes interleave and MPI_Send blocks or buffers:
\* exchange_as_slave and exchange_as_master (111-175) lose and duplicate no replica.
THEOREM ReplicasSwap == RexSpec => ImplementsSwaps
<1>1. RexInit => Swaps!Init
  BY DEF RexInit, Swaps!Init, Holds, Waiting
<1>2. RexInv /\ [RexNext]_rexVars => [Swaps!Next]_([p \in Ranks |-> Holds(p)])
  <2> SUFFICES ASSUME RexInv, [RexNext]_rexVars
               PROVE  [Swaps!Next]_([p \in Ranks |-> Holds(p)])
    OBVIOUS
  <2>1. CASE \A x \in Ranks : Holds(x)' = Holds(x)
    BY <2>1
  <2>2. CASE \E s \in Ranks :
                 /\ s + 1 \in Ranks
                 /\ Holds(s)' = Holds(s + 1) /\ Holds(s + 1)' = Holds(s)
                 /\ \A x \in Ranks \ {s, s + 1} : Holds(x)' = Holds(x)
    <3> PICK s \in Ranks :
                 /\ s + 1 \in Ranks
                 /\ Holds(s)' = Holds(s + 1) /\ Holds(s + 1)' = Holds(s)
                 /\ \A x \in Ranks \ {s, s + 1} : Holds(x)' = Holds(x)
      BY <2>2
    <3>1. s # s + 1
      BY DEF Ranks
    <3>2. Swaps!Swap(s)
      BY <3>1 DEF Swaps!Swap
    <3> QED
      BY <3>2 DEF Swaps!Next
  <2> QED
    BY <2>1, <2>2, StepSwaps
<1> QED
  BY <1>1, <1>2, InitRexInv, StepRexInv, PTL DEF RexSpec, ImplementsSwaps, Swaps!Spec

-----------------------------------------------------------------------------
(* The trials of the messages.                                              *)

\* Counted by the exchanges of s with the process above it: the trials of s, with the one
\* whose answer is on its way to s, and those of p, with the one it has decided.
SlaveAt(s) == trials[s] + (IF mail[s + 1][s] # <<>> THEN 1 ELSE 0)
MasterAt(p) == trials[p] + (IF at[p] = "answering" THEN 1 ELSE 0)

\* In trials a and b, the process s and the one above have met equally often: they meet
\* in every second trial, those of the parity of s.
MetAlike(a, b, s) == IF a % 2 = s % 2 THEN b \in {a - 1, a} ELSE b \in {a, a + 1}

InStep == \A s \in Ranks : s + 1 \in Ranks => MetAlike(SlaveAt(s), MasterAt(s + 1), s)

\* A message carries the trial of the slave it comes from or goes to.
Lower(p, q) == IF p < q THEN p ELSE q

LettersMatch ==
    \A p, q \in Ranks : mail[p][q] # <<>> => Head(mail[p][q]).trial = trials[Lower(p, q)]

MastersAbove == \A p \in Ranks : at[p] = "answering" => Pair(p) = p - 1 /\ p - 1 \in Ranks

TrialInv == InStep /\ LettersMatch /\ MastersAbove

\* Trials of the wrong parity pass without a meeting, the others with one.
LEMMA TrialsPass ==
    ASSUME NEW a \in Nat, NEW b \in Nat, NEW s \in Nat
    PROVE  /\ MetAlike(a, b, s) /\ a % 2 # s % 2 => MetAlike(a + 1, b, s)
           /\ MetAlike(a, b, s) /\ b % 2 # s % 2 => MetAlike(a, b + 1, s)
           /\ MetAlike(a, b, s) /\ a % 2 = s % 2 /\ b % 2 = s % 2 => a = b
           /\ a = b /\ a % 2 = s % 2 => MetAlike(a + 1, b + 1, s)
<1>1. (a + 1) % 2 = s % 2 <=> a % 2 # s % 2
  OBVIOUS
<1>2. (b + 1) % 2 = s % 2 <=> b % 2 # s % 2
  OBVIOUS
<1>3. b = a - 1 \/ b = a + 1 => (b % 2 = s % 2 <=> a % 2 # s % 2)
  OBVIOUS
<1> QED
  BY <1>1, <1>2, <1>3 DEF MetAlike

\* The parity of its trial tells a process which neighbor is its pair (88-91).
LEMMA PairParity ==
    ASSUME RexTypeOK, NEW p \in Ranks
    PROVE  /\ p \in Nat /\ trials[p] \in Nat /\ Pair(p) \in {p - 1, p + 1}
           /\ Pair(p) = p + 1 <=> trials[p] % 2 = p % 2
           /\ p - 1 \in Nat => (Pair(p) = p - 1 <=> trials[p] % 2 = (p - 1) % 2)
<1>1. p \in Nat /\ trials[p] \in Nat
  BY RexAssumption DEF RexTypeOK, Ranks
<1>2. p - 1 \in Nat => ((p - 1) % 2 = 0 <=> p % 2 = 1)
  BY <1>1
<1>3. p % 2 \in {0, 1} /\ trials[p] % 2 \in {0, 1} /\ (p - 1 \in Nat => (p - 1) % 2 \in {0, 1})
  BY <1>1
<1> QED
  BY <1>1, <1>2, <1>3 DEF Pair

LEMMA InitTrialInv == RexInit => TrialInv
<1> SUFFICES ASSUME RexInit PROVE TrialInv
  OBVIOUS
<1>1. ASSUME NEW s \in Ranks, s + 1 \in Ranks
      PROVE  MetAlike(SlaveAt(s), MasterAt(s + 1), s)
  <2>1. SlaveAt(s) = 0 /\ MasterAt(s + 1) = 0
    BY <1>1 DEF RexInit, SlaveAt, MasterAt
  <2> QED
    BY <2>1 DEF MetAlike
<1>2. LettersMatch /\ MastersAbove
  BY DEF RexInit, LettersMatch, MastersAbove
<1> QED
  BY <1>1, <1>2 DEF TrialInv, InStep

\* What a process that is alone in a step does to its count of meetings with the ones
\* above and below: nothing, or a trial without a meeting passes.
LEMMA PassesAlone ==
    ASSUME RexInv, TrialInv, NEW p \in Ranks,
           \A q \in Ranks \ {p} :
               /\ MasterAt(q)' = MasterAt(q)
               /\ q + 1 \in Ranks => SlaveAt(q)' = SlaveAt(q),
           p + 1 \in Ranks =>
               \/ SlaveAt(p)' = SlaveAt(p)
               \/ SlaveAt(p)' = SlaveAt(p) + 1 /\ SlaveAt(p) % 2 # p % 2,
           \/ MasterAt(p)' = MasterAt(p)
           \/ MasterAt(p)' = MasterAt(p) + 1 /\ (p - 1 \in Ranks => MasterAt(p) % 2 # (p - 1) % 2)
    PROVE  InStep'
<1> SUFFICES ASSUME NEW s \in Ranks, s + 1 \in Ranks
             PROVE  MetAlike(SlaveAt(s)', MasterAt(s + 1)', s)
  BY DEF InStep, MetAlike
<1>1. s \in Nat /\ p \in Nat
  BY RexAssumption DEF Ranks
<1>2. MetAlike(SlaveAt(s), MasterAt(s + 1), s)
  BY DEF TrialInv, InStep
<1>3. SlaveAt(s) \in Nat /\ MasterAt(s + 1) \in Nat
  <2>1. trials[s] \in Nat /\ trials[s + 1] \in Nat
    BY DEF RexInv, RexTypeOK
  <2> QED
    BY <2>1 DEF SlaveAt, MasterAt
<1>4. CASE s = p
  <2>1. MasterAt(s + 1)' = MasterAt(s + 1)
    BY <1>1, <1>4
  <2>2. SlaveAt(s)' = SlaveAt(s) \/ (SlaveAt(s)' = SlaveAt(s) + 1 /\ SlaveAt(s) % 2 # s % 2)
    BY <1>4
  <2>3. SlaveAt(s) % 2 # s % 2 => MetAlike(SlaveAt(s) + 1, MasterAt(s + 1), s)
    BY <1>1, <1>2, <1>3, TrialsPass
  <2> QED
    BY <1>2, <2>1, <2>2, <2>3
<1>5. CASE s + 1 = p
  <2>1. SlaveAt(s)' = SlaveAt(s) /\ p - 1 = s
    BY <1>1, <1>5
  <2>2. \/ MasterAt(s + 1)' = MasterAt(s + 1)
        \/ MasterAt(s + 1)' = MasterAt(s + 1) + 1 /\ MasterAt(s + 1) % 2 # s % 2
    BY <1>5, <2>1
  <2>3. MasterAt(s + 1) % 2 # s % 2 => MetAlike(SlaveAt(s), MasterAt(s + 1) + 1, s)
    <3>1. \A a, b \in Nat : MetAlike(a, b, s) /\ b % 2 # s % 2 => MetAlike(a, b + 1, s)
      BY <1>1, TrialsPass
    <3> QED
      BY <1>2, <1>3, <3>1
  <2> QED
    BY <1>2, <2>1, <2>2, <2>3
<1>6. CASE s # p /\ s + 1 # p
  <2>1. MasterAt(s + 1)' = MasterAt(s + 1) /\ SlaveAt(s)' = SlaveAt(s)
    BY <1>6
  <2> QED
    BY <1>2, <2>1
<1> QED
  BY <1>4, <1>5, <1>6

\* No message belongs to an exchange with the one above of a process that is in none.
LEMMA QuietMail ==
    ASSUME RexInv, NEW p \in Ranks, ~Waiting(p)
    PROVE  /\ \A a, b \in Ranks : mail[a][b] # <<>> => Lower(a, b) # p
           /\ p + 1 \in Ranks => mail[p + 1][p] = <<>> /\ SlaveAt(p) = trials[p]
<1>1. \A a \in Ranks : a \in Int
  BY DEF Ranks
<1>2. ASSUME NEW a \in Ranks, NEW b \in Ranks, mail[a][b] # <<>> PROVE Lower(a, b) # p
  <2>1. (Waiting(a) /\ b = a + 1) \/ (Waiting(b) /\ a = b + 1)
    BY <1>2 DEF RexInv, MailOK, PendingRequest, PendingAnswer
  <2> QED
    BY <1>1, <2>1 DEF Lower
<1>3. ASSUME p + 1 \in Ranks PROVE mail[p + 1][p] = <<>>
  <2>1. Lower(p + 1, p) = p
    BY <1>1 DEF Lower
  <2> QED
    BY <1>2, <1>3, <2>1
<1>4. ASSUME p + 1 \in Ranks PROVE SlaveAt(p) = trials[p]
  <2>1. trials[p] \in Nat
    BY DEF RexInv, RexTypeOK
  <2> QED
    BY <1>3, <1>4, <2>1 DEF SlaveAt
<1> QED
  BY <1>2, <1>3, <1>4

\* The request that a process finds is one of its own trial.
LEMMA PairAgrees ==
    ASSUME RexInv, TrialInv, NEW p \in Ranks, NEW s \in Ranks,
           Pair(p) = s, s = p - 1, at[p] # "answering", mail[s][p] # <<>>
    PROVE  /\ trials[s] = trials[p] /\ trials[s] % 2 = s % 2
           /\ mail[p][s] = <<>> /\ Pair(s) = p
<1>0. RexTypeOK /\ SlavesBelow /\ MailOK
  BY DEF RexInv
<1>1. p \in Nat /\ s \in Nat /\ p = s + 1
  BY RexAssumption DEF Ranks
<1>2. PendingRequest(s, p)
  BY <1>0, <1>1 DEF MailOK, PendingAnswer
<1>3. Pair(s) = p /\ mail[p][s] = <<>>
  BY <1>0, <1>1, <1>2 DEF PendingRequest, SlavesBelow
<1>4. trials[s] \in Nat /\ trials[p] \in Nat
  BY <1>0 DEF RexTypeOK
<1>5. trials[s] % 2 = s % 2 /\ trials[p] % 2 = s % 2
  <2>1. trials[s] % 2 = s % 2
    BY <1>0, <1>1, <1>3, PairParity
  <2>2. trials[p] % 2 = (p - 1) % 2
    BY <1>0, <1>1, PairParity
  <2> QED
    BY <2>1, <2>2
<1>6. SlaveAt(s) = trials[s] /\ MasterAt(p) = trials[p]
  BY <1>1, <1>3, <1>4 DEF SlaveAt, MasterAt
<1>7. MetAlike(SlaveAt(s), MasterAt(p), s)
  BY <1>1 DEF TrialInv, InStep
<1>8. MetAlike(trials[s], trials[p], s)
  BY <1>6, <1>7
<1> QED
  BY <1>1, <1>3, <1>4, <1>5, <1>8, TrialsPass

LEMMA StepTrialInv == RexInv /\ TrialInv /\ RexInv' /\ [RexNext]_rexVars => TrialInv'
<1> SUFFICES ASSUME RexInv, TrialInv, RexInv', [RexNext]_rexVars PROVE TrialInv'
  OBVIOUS
<1>0. RexTypeOK /\ SlavesBelow /\ MailOK /\ InStep /\ LettersMatch /\ MastersAbove
  BY DEF RexInv, TrialInv
<1>a. \A x \in Ranks : x \in Nat /\ trials[x] \in Nat
  BY <1>0, RexAssumption DEF RexTypeOK, Ranks
<1>1. ASSUME NEW p \in Ranks, NoPair(p) PROVE TrialInv'
  <2>1. /\ at[p] = "computing" /\ at' = [at EXCEPT ![p] = "computing"]
        /\ trials' = [trials EXCEPT ![p] = @ + 1]
        /\ UNCHANGED <<id, newId, mail>> /\ Pair(p) \notin Ranks
    BY <1>1 DEF NoPair, Begins, Return
  <2>2. ~Waiting(p)
    BY <2>1 DEF Waiting
  <2>3. p + 1 \in Ranks => /\ SlaveAt(p)' = SlaveAt(p) + 1
                           /\ SlaveAt(p) % 2 # p % 2
    <3> SUFFICES ASSUME p + 1 \in Ranks
                 PROVE  SlaveAt(p)' = SlaveAt(p) + 1 /\ SlaveAt(p) % 2 # p % 2
      OBVIOUS
    <3>1. mail[p + 1][p] = <<>> /\ SlaveAt(p) = trials[p]
      BY <2>2, QuietMail
    <3>2. trials[p] % 2 # p % 2
      BY <1>0, <2>1, PairParity
    <3> QED
      BY <1>0, <1>a, <2>1, <3>1, <3>2 DEF SlaveAt, RexTypeOK
  <2>4. /\ MasterAt(p)' = MasterAt(p) + 1
        /\ p - 1 \in Ranks => MasterAt(p) % 2 # (p - 1) % 2
    <3>1. MasterAt(p) = trials[p] /\ MasterAt(p)' = trials[p] + 1
      BY <1>0, <1>a, <2>1 DEF MasterAt, RexTypeOK
    <3>2. p - 1 \in Ranks => trials[p] % 2 # (p - 1) % 2
      BY <1>0, <1>a, <2>1, PairParity
    <3> QED
      BY <3>1, <3>2
  <2>5. InStep'
    <3>1. ASSUME NEW x \in Ranks \ {p} PROVE MasterAt(x)' = MasterAt(x) /\ SlaveAt(x)' = SlaveAt(x)
      BY <1>0, <2>1, <3>1 DEF SlaveAt, MasterAt, RexTypeOK
    <3> QED
      BY <2>3, <2>4, <3>1, PassesAlone
  <2>6. LettersMatch'
    <3> SUFFICES ASSUME NEW a \in Ranks, NEW b \in Ranks, mail[a][b] # <<>>
                 PROVE  Head(mail[a][b]).trial = trials'[Lower(a, b)]
      BY <2>1 DEF LettersMatch, Lower
    <3>1. Lower(a, b) # p /\ Lower(a, b) \in Ranks
      BY <2>2, QuietMail DEF Lower
    <3> QED
      BY <1>0, <2>1, <3>1 DEF LettersMatch, RexTypeOK
  <2>7. MastersAbove'
    BY <1>0, <2>1 DEF MastersAbove, Pair, RexTypeOK
  <2> QED
    BY <2>5, <2>6, <2>7 DEF TrialInv
<1>2. ASSUME NEW p \in Ranks, SlaveSend(p) PROVE TrialInv'
  <2> PICK q \in Ranks : q = Pair(p)
    BY <1>2 DEF SlaveSend
  <2> PICK m \in Letter : m = [id |-> id[p], trial |-> trials[p]]
    BY <1>0 DEF Letter, RexTypeOK
  <2>1. q = p + 1 /\ m.trial = trials[p] /\ q # p
    BY <1>0, <1>a, <1>2, PairBeside DEF SlaveSend
  <2>2. /\ at[p] = "computing" /\ at' = [at EXCEPT ![p] = "sending"]
        /\ mail' = [mail EXCEPT ![p][q] = Append(@, m)]
        /\ UNCHANGED <<id, trials, newId>>
    BY <1>2 DEF SlaveSend, Begins, Send
  <2>3. ASSUME NEW a \in Ranks, NEW b \in Ranks, <<a, b>> # <<p, q>> PROVE mail'[a][b] = mail[a][b]
    BY <1>0, <2>2, <2>3 DEF RexTypeOK
  <2>4. mail'[p][q] = <<m>>
    <3>1. mail'[p][q] = Append(mail[p][q], m)
      BY <1>0, <2>2 DEF RexTypeOK
    <3>2. mail[p][q] = <<>>
      BY <1>0, <1>a, <2>1, <2>2 DEF MailOK, PendingRequest, PendingAnswer, Waiting
    <3> QED
      BY <3>1, <3>2, AppendOne
  <2>5. InStep'
    <3>1. \A x \in Ranks : MasterAt(x)' = MasterAt(x)
      BY <1>0, <2>2 DEF MasterAt, RexTypeOK
    <3>2. ASSUME NEW x \in Ranks, x + 1 \in Ranks PROVE SlaveAt(x)' = SlaveAt(x)
      <4>1. <<x + 1, x>> # <<p, q>>
        BY <1>a, <2>1
      <4>2. mail'[x + 1][x] = mail[x + 1][x]
        BY <2>3, <3>2, <4>1
      <4> QED
        BY <2>2, <4>2 DEF SlaveAt
    <3> QED
      BY <3>1, <3>2, PassesAlone
  <2>6. LettersMatch'
    <3> SUFFICES ASSUME NEW a \in Ranks, NEW b \in Ranks, mail'[a][b] # <<>>
                 PROVE  Head(mail'[a][b]).trial = trials[Lower(a, b)]
      BY <2>2 DEF LettersMatch, Lower
    <3>1. CASE <<a, b>> = <<p, q>>
      <4>1. Lower(a, b) = p
        BY <1>a, <2>1, <3>1 DEF Lower
      <4> QED
        BY <2>1, <2>4, <3>1, <4>1, AppendOne
    <3>2. CASE <<a, b>> # <<p, q>>
      BY <1>0, <2>3, <3>2 DEF LettersMatch
    <3> QED
      BY <3>1, <3>2
  <2>7. MastersAbove'
    BY <1>0, <2>2 DEF MastersAbove, Pair, RexTypeOK
  <2> QED
    BY <2>5, <2>6, <2>7 DEF TrialInv
<1>3. ASSUME NEW p \in Ranks, SlaveSent(p) PROVE TrialInv'
  <2>1. /\ at[p] = "sending" /\ at' = [at EXCEPT ![p] = "awaiting"]
        /\ UNCHANGED <<id, trials, newId, mail>>
    BY <1>3 DEF SlaveSent
  <2>2. \A x \in Ranks : MasterAt(x)' = MasterAt(x) /\ SlaveAt(x)' = SlaveAt(x)
    BY <1>0, <2>1 DEF MasterAt, SlaveAt, RexTypeOK
  <2>3. InStep'
    BY <2>2, PassesAlone
  <2>4. LettersMatch' /\ MastersAbove'
    BY <1>0, <2>1 DEF LettersMatch, Lower, MastersAbove, Pair, RexTypeOK
  <2> QED
    BY <2>3, <2>4 DEF TrialInv
<1>4. ASSUME NEW p \in Ranks, SlaveReceive(p) PROVE TrialInv'
  <2> PICK q \in Ranks : q = Pair(p)
    BY <1>0, <1>4 DEF SlaveReceive, SlavesBelow, Waiting
  <2>1. q = p + 1 /\ q # p
    BY <1>0, <1>a, <1>4 DEF SlaveReceive, SlavesBelow, Waiting
  <2>2. /\ at[p] = "awaiting" /\ at' = [at EXCEPT ![p] = "computing"]
        /\ mail[q][p] # <<>>
        /\ mail' = [mail EXCEPT ![q][p] = Tail(@)]
        /\ trials' = [trials EXCEPT ![p] = @ + 1]
    BY <1>4 DEF SlaveReceive, Return
  <2>3. PendingAnswer(q, p)
    BY <1>0, <1>a, <2>1, <2>2 DEF MailOK, PendingRequest
  <2>4. mail'[q][p] = <<>> /\ mail[p][q] = <<>>
    <3>1. mail'[q][p] = Tail(mail[q][p])
      BY <1>0, <2>2 DEF RexTypeOK
    <3> QED
      BY <1>0, <2>3, <3>1, SeqOne DEF RexTypeOK, PendingAnswer
  <2>5. ASSUME NEW a \in Ranks, NEW b \in Ranks, <<a, b>> # <<q, p>> PROVE mail'[a][b] = mail[a][b]
    BY <1>0, <2>2, <2>5 DEF RexTypeOK
  <2>6. InStep'
    <3>1. \A x \in Ranks \ {p} : MasterAt(x)' = MasterAt(x)
      BY <1>0, <2>2 DEF MasterAt, RexTypeOK
    <3>2. ASSUME NEW x \in Ranks \ {p}, x + 1 \in Ranks PROVE SlaveAt(x)' = SlaveAt(x)
      <4>1. mail'[x + 1][x] = mail[x + 1][x]
        BY <2>5, <3>2
      <4> QED
        BY <1>0, <2>2, <4>1 DEF SlaveAt, RexTypeOK
    <3>3. SlaveAt(p)' = SlaveAt(p)
      BY <1>0, <1>a, <2>1, <2>2, <2>4 DEF SlaveAt, RexTypeOK
    <3>4. MasterAt(p) = trials[p] /\ MasterAt(p)' = MasterAt(p) + 1
      BY <1>0, <1>a, <2>2 DEF MasterAt, RexTypeOK
    <3>5. p - 1 \in Ranks => trials[p] % 2 # (p - 1) % 2
      <4>1. Pair(p) # p - 1
        BY <1>a, <2>1
      <4>2. p - 1 \in Ranks => p - 1 \in Nat
        BY <1>a
      <4> QED
        BY <1>0, <4>1, <4>2, PairParity
    <3> QED
      BY <3>1, <3>2, <3>3, <3>4, <3>5, PassesAlone
  <2>7. LettersMatch'
    <3> SUFFICES ASSUME NEW a \in Ranks, NEW b \in Ranks, mail'[a][b] # <<>>
                 PROVE  Head(mail'[a][b]).trial = trials'[Lower(a, b)]
      BY DEF LettersMatch, Lower
    <3>1. <<a, b>> # <<q, p>>
      BY <2>4
    <3>2. mail'[a][b] = mail[a][b] /\ <<a, b>> # <<p, q>>
      BY <2>4, <2>5, <3>1
    <3>3. (b = a + 1 \/ a = b + 1) /\ Lower(a, b) \in Ranks
      BY <1>0, <3>2 DEF MailOK, PendingRequest, PendingAnswer, Lower
    <3>4. Lower(a, b) # p
      BY <1>a, <2>1, <3>1, <3>2, <3>3 DEF Lower
    <3> QED
      BY <1>0, <2>2, <3>2, <3>3, <3>4 DEF LettersMatch, RexTypeOK
  <2>8. MastersAbove'
    BY <1>0, <2>2 DEF MastersAbove, Pair, RexTypeOK
  <2> QED
    BY <2>6, <2>7, <2>8 DEF TrialInv
<1>5. ASSUME NEW p \in Ranks, MasterDecide(p) PROVE TrialInv'
  <2> PICK s \in Ranks : s = Pair(p)
    BY <1>5 DEF MasterDecide
  <2>1. s = p - 1 /\ p = s + 1 /\ s # p
    BY <1>0, <1>a, <1>5, PairBeside DEF MasterDecide
  <2>2. /\ at[p] = "computing" /\ at' = [at EXCEPT ![p] = "answering"]
        /\ mail[s][p] # <<>>
        /\ UNCHANGED <<id, trials>>
    BY <1>5 DEF MasterDecide, Begins
  <2>3. trials[s] = trials[p] /\ trials[s] % 2 = s % 2 /\ mail[p][s] = <<>>
    BY <2>1, <2>2, PairAgrees
  <2>4. PICK m :
          /\ m.trial = trials[p]
          /\ mail' = [mail EXCEPT ![s][p] = Tail(@), ![p][s] = Append(@, m)]
    <3>1. \A i : [id |-> i, trial |-> trials[p]].trial = trials[p]
      OBVIOUS
    <3> QED
      BY <1>5, <3>1 DEF MasterDecide
  <2>5. mail'[p][s] = <<m>> /\ mail'[s][p] = <<>>
    <3>1. mail'[p][s] = Append(mail[p][s], m) /\ mail'[s][p] = Tail(mail[s][p])
      BY <1>0, <2>1, <2>4 DEF RexTypeOK
    <3>2. Len(mail[s][p]) = 1
      BY <1>0, <2>2 DEF MailOK, PendingRequest, PendingAnswer
    <3>3. Tail(mail[s][p]) = <<>>
      BY <1>0, <3>2, SeqOne DEF RexTypeOK
    <3> QED
      BY <2>3, <3>1, <3>3
  <2>6. ASSUME NEW a \in Ranks, NEW b \in Ranks, <<a, b>> # <<s, p>>, <<a, b>> # <<p, s>>
        PROVE  mail'[a][b] = mail[a][b]
    BY <1>0, <2>1, <2>4, <2>6 DEF RexTypeOK
  <2>7. InStep'
    <3> SUFFICES ASSUME NEW x \in Ranks, x + 1 \in Ranks
                 PROVE  MetAlike(SlaveAt(x)', MasterAt(x + 1)', x)
      BY DEF InStep, MetAlike
    <3>1. CASE x = s
      <4>1. SlaveAt(s)' = trials[s] + 1
        <5>1. mail'[s + 1][s] # <<>>
          <6>1. Len(<<m>>) = 1 /\ Len(<<>>) = 0
            OBVIOUS
          <6>2. <<m>> # <<>>
            BY <6>1
          <6> QED
            BY <2>1, <2>5, <6>2
        <5> QED
          BY <2>2, <5>1 DEF SlaveAt
      <4>2. MasterAt(p)' = trials[p] + 1
        BY <1>0, <2>2 DEF MasterAt, RexTypeOK
      <4>3. MetAlike(trials[s] + 1, trials[p] + 1, s)
        BY <1>a, <2>3, TrialsPass
      <4> QED
        BY <2>1, <3>1, <4>1, <4>2, <4>3
    <3>2. CASE x # s
      <4>1. <<x + 1, x>> # <<s, p>> /\ <<x + 1, x>> # <<p, s>> /\ x + 1 # p
        BY <1>a, <2>1, <3>2
      <4>2. mail'[x + 1][x] = mail[x + 1][x]
        BY <2>6, <4>1
      <4>3. SlaveAt(x)' = SlaveAt(x)
        BY <2>2, <4>2 DEF SlaveAt
      <4>4. MasterAt(x + 1)' = MasterAt(x + 1)
        BY <1>0, <2>2, <4>1 DEF MasterAt, RexTypeOK
      <4> QED
        BY <1>0, <4>3, <4>4 DEF InStep
    <3> QED
      BY <3>1, <3>2
  <2>8. LettersMatch'
    <3> SUFFICES ASSUME NEW a \in Ranks, NEW b \in Ranks, mail'[a][b] # <<>>
                 PROVE  Head(mail'[a][b]).trial = trials[Lower(a, b)]
      BY <2>2 DEF LettersMatch, Lower
    <3>1. CASE <<a, b>> = <<p, s>>
      <4>1. Lower(a, b) = s
        BY <1>a, <2>1, <3>1 DEF Lower
      <4>2. Head(mail'[a][b]) = m
        BY <2>5, <3>1
      <4> QED
        BY <2>3, <2>4, <4>1, <4>2
    <3>2. CASE <<a, b>> # <<p, s>>
      BY <1>0, <2>5, <2>6, <3>2 DEF LettersMatch
    <3> QED
      BY <3>1, <3>2
  <2>9. MastersAbove'
    <3> SUFFICES ASSUME NEW x \in Ranks, at'[x] = "answering"
                 PROVE  Pair(x) = x - 1 /\ x - 1 \in Ranks
      BY <2>2 DEF MastersAbove, Pair
    <3> QED
      BY <1>0, <2>1, <2>2 DEF MastersAbove, RexTypeOK
  <2> QED
    BY <2>7, <2>8, <2>9 DEF TrialInv
<1>6. ASSUME NEW p \in Ranks, MasterSent(p) PROVE TrialInv'
  <2>1. /\ at[p] = "answering" /\ at' = [at EXCEPT ![p] = "computing"]
        /\ trials' = [trials EXCEPT ![p] = @ + 1]
        /\ UNCHANGED <<newId, mail>>
    BY <1>6 DEF MasterSent, Return
  <2>2. ~Waiting(p)
    BY <2>1 DEF Waiting
  <2>3. Pair(p) = p - 1
    BY <1>0, <2>1 DEF MastersAbove
  <2>4. p + 1 \in Ranks => SlaveAt(p)' = SlaveAt(p) + 1 /\ SlaveAt(p) % 2 # p % 2
    <3> SUFFICES ASSUME p + 1 \in Ranks
                 PROVE  SlaveAt(p)' = SlaveAt(p) + 1 /\ SlaveAt(p) % 2 # p % 2
      OBVIOUS
    <3>1. mail[p + 1][p] = <<>> /\ SlaveAt(p) = trials[p]
      BY <2>2, QuietMail
    <3>2. trials[p] % 2 # p % 2
      BY <1>0, <1>a, <2>3, PairParity
    <3> QED
      BY <1>0, <1>a, <2>1, <3>1, <3>2 DEF SlaveAt, RexTypeOK
  <2>5. MasterAt(p)' = MasterAt(p)
    BY <1>0, <1>a, <2>1 DEF MasterAt, RexTypeOK
  <2>6. InStep'
    <3>1. ASSUME NEW x \in Ranks \ {p} PROVE MasterAt(x)' = MasterAt(x) /\ SlaveAt(x)' = SlaveAt(x)
      BY <1>0, <2>1, <3>1 DEF SlaveAt, MasterAt, RexTypeOK
    <3> QED
      BY <2>4, <2>5, <3>1, PassesAlone
  <2>7. LettersMatch'
    <3> SUFFICES ASSUME NEW a \in Ranks, NEW b \in Ranks, mail[a][b] # <<>>
                 PROVE  Head(mail[a][b]).trial = trials'[Lower(a, b)]
      BY <2>1 DEF LettersMatch, Lower
    <3>1. Lower(a, b) # p /\ Lower(a, b) \in Ranks
      BY <2>2, QuietMail DEF Lower
    <3> QED
      BY <1>0, <2>1, <3>1 DEF LettersMatch, RexTypeOK
  <2>8. MastersAbove'
    BY <1>0, <2>1 DEF MastersAbove, Pair, RexTypeOK
  <2> QED
    BY <2>6, <2>7, <2>8 DEF TrialInv
<1>7. CASE UNCHANGED rexVars
  <2>1. ASSUME NEW x \in Ranks PROVE MasterAt(x)' = MasterAt(x) /\ SlaveAt(x)' = SlaveAt(x)
    BY <1>7 DEF rexVars, MasterAt, SlaveAt
  <2>2. InStep'
    <3> SUFFICES ASSUME NEW x \in Ranks, x + 1 \in Ranks
                 PROVE  MetAlike(SlaveAt(x)', MasterAt(x + 1)', x)
      BY DEF InStep, MetAlike
    <3> QED
      BY <1>0, <2>1 DEF InStep
  <2>3. LettersMatch' /\ MastersAbove'
    BY <1>0, <1>7 DEF rexVars, LettersMatch, Lower, MastersAbove, Pair
  <2> QED
    BY <2>2, <2>3 DEF TrialInv
<1> QED
  BY <1>1, <1>2, <1>3, <1>4, <1>5, <1>6, <1>7 DEF RexNext, Proceed, Sent, RexDone

\* Of any number of processes and trials: every message is received in the trial it was
\* sent in, by the other process of its pair, and no two are on their way in one direction,
\* though messages carry no trial number and processes drift apart (82-97).
THEOREM TrialsAgree == RexSpec => []TrialsMatch
<1>1. RexInv /\ TrialInv => TrialsMatch
  <2> SUFFICES ASSUME RexInv, TrialInv, NEW p \in Ranks, NEW q \in Ranks
               PROVE  /\ Pair(p) = q /\ trials[p] < Trials /\ at[p] # "answering" /\ mail[q][p] # <<>> =>
                            Head(mail[q][p]).trial = trials[p]
                      /\ Len(mail[p][q]) <= 1
    BY DEF TrialsMatch
  <2>0. RexTypeOK /\ MailOK /\ p \in Nat /\ q \in Nat
    BY RexAssumption DEF RexInv, Ranks
  <2>1. ASSUME Pair(p) = q, at[p] # "answering", mail[q][p] # <<>>
        PROVE  Head(mail[q][p]).trial = trials[p]
    <3>1. Head(mail[q][p]).trial = trials[Lower(q, p)]
      BY <2>1 DEF TrialInv, LettersMatch
    <3>2. CASE q = p + 1
      BY <2>0, <3>1, <3>2 DEF Lower
    <3>3. CASE q = p - 1
      <4>1. trials[q] = trials[p]
        BY <2>1, <3>3, PairAgrees
      <4>2. Lower(q, p) = q
        BY <2>0, <3>3 DEF Lower
      <4> QED
        BY <3>1, <4>1, <4>2
    <3> QED
      BY <2>0, <2>1, <3>2, <3>3, PairBeside
  <2>2. Len(mail[p][q]) <= 1
    <3>1. CASE mail[p][q] = <<>>
      <4>1. Len(mail[p][q]) = 0
        BY <3>1
      <4> QED
        BY <4>1
    <3>2. CASE mail[p][q] # <<>>
      <4>1. Len(mail[p][q]) = 1
        BY <2>0, <3>2 DEF MailOK, PendingRequest, PendingAnswer
      <4> QED
        BY <4>1
    <3> QED
      BY <3>1, <3>2
  <2> QED
    BY <2>1, <2>2
<1>2. RexInit => RexInv /\ TrialInv
  BY InitRexInv, InitTrialInv
<1>3. RexInv /\ TrialInv /\ [RexNext]_rexVars => RexInv' /\ TrialInv'
  BY StepRexInv, StepTrialInv
<1> QED
  BY <1>1, <1>2, <1>3, PTL DEF RexSpec
=============================================================================
