--------------------------- MODULE Sessions_proofs ---------------------------
(***************************************************************************)
(* Proofs about the servers of MCSessions.  First the echo server, for any *)
(* set of peers, any channel capacity, any idle limit and any number of    *)
(* datagrams and sessions.                                                 *)
(***************************************************************************)
EXTENDS UdpSession, UdpForward, NonceHandshake, SequenceTheorems, TLAPS

\* A session that was not started has not begun to do anything.
Fresh == \A s \in SessionId \ Started :
    main[s] = "none" /\ ticker[s] = "none" /\ idle[s] = 0

\* The dispatcher sends a datagram it has received to a session it has started.
TargetOK == target # NoSession => target \in Started /\ arrived[peer[target]] > 0

\* What is being echoed is a datagram; a running ticker is short of the limit.
Working == \A s \in SessionId :
    /\ main[s] = "writing" => hand[s] > 0
    /\ ticker[s] = "ticking" => idle[s] < IdleLimit

IInv == TypeOK /\ MapExact /\ Fresh /\ TargetOK /\ Working

LEMMA InitIInv == Init => IInv
<1> SUFFICES ASSUME Init PROVE IInv
  OBVIOUS
<1>1. TypeOK
  <2>1. (CHOOSE p \in Peers : TRUE) \in Peers
    BY ConstantsAssumption
  <2> QED
    BY <2>1, ConstantsAssumption DEF Init, TypeOK, MainState, TickerState
<1>2. MapExact /\ Fresh /\ TargetOK /\ Working
  BY ConstantsAssumption DEF Init, MapExact, Fresh, TargetOK, Working, Started
<1> QED
  BY <1>1, <1>2 DEF IInv

\* The dispatcher keeps the invariant: a session enters the map only where
\* there is none.
LEMMA DispatcherIInv ==
    ASSUME IInv, NEW p \in Peers, Receive(p) \/ Hand
    PROVE  IInv'
<1> USE ConstantsAssumption
<1>0. TypeOK /\ MapExact /\ Fresh /\ TargetOK /\ Working
  BY DEF IInv
<1>1. CASE ReceiveKnown(p)
  <2>1. TypeOK'
    <3>1. /\ target' \in SessionId \union {NoSession}
          /\ arrived' = [arrived EXCEPT ![p] = @ + 1] /\ arrived[p] < MaxDatagrams
          /\ UNCHANGED <<sessions, used, peer, hand, main, ticker, reader, idle, echoed>>
      BY <1>0, <1>1 DEF ReceiveKnown, TypeOK
    <3>2. arrived' \in [Peers -> 0 .. MaxDatagrams]
      <4>1. arrived \in [Peers -> 0 .. MaxDatagrams] /\ MaxDatagrams \in Nat
        BY <1>0 DEF TypeOK
      <4>2. arrived[p] + 1 \in 0 .. MaxDatagrams
        BY ONLY <3>1, <4>1, p \in Peers
      <4> QED
        BY ONLY <3>1, <4>1, <4>2
    <3> QED
      BY <1>0, <3>1, <3>2 DEF TypeOK
  <2>2. MapExact' /\ Fresh' /\ Working'
    BY <1>0, <1>1 DEF ReceiveKnown, MapExact, Fresh, Working, Started
  <2>3. TargetOK'
    BY <1>0, <1>1 DEF ReceiveKnown, TargetOK, MapExact, TypeOK, Started
  <2> QED
    BY <2>1, <2>2, <2>3 DEF IInv
<1>2. CASE ReceiveNew(p)
  <2> DEFINE new == used + 1
  <2>1. /\ new \in SessionId /\ new \notin Started /\ new # NoSession
        /\ used' \in 0 .. MaxSessions /\ Started' = Started \union {new}
        /\ Started \subseteq SessionId
    <3>1. used \in 0 .. MaxSessions /\ used < MaxSessions /\ used' = used + 1
      BY <1>0, <1>2 DEF ReceiveNew, TypeOK
    <3>2. new \in 1 .. MaxSessions /\ new \notin 1 .. used /\ used' \in 0 .. MaxSessions
      BY <3>1
    <3>3. 1 .. used' = (1 .. used) \union {new} /\ 1 .. used \subseteq 1 .. MaxSessions
      BY <3>1
    <3>4. NoSession \notin 1 .. MaxSessions
      BY DEF SessionId
    <3> QED
      BY <3>2, <3>3, <3>4 DEF SessionId, Started
  <2>2. /\ sessions' = [sessions EXCEPT ![p] = new]
        /\ peer' = [peer EXCEPT ![new] = p]
        /\ main' = [main EXCEPT ![new] = "reading"]
        /\ ticker' = [ticker EXCEPT ![new] = "ticking"]
        /\ target' = new /\ arrived' = [arrived EXCEPT ![p] = @ + 1]
        /\ UNCHANGED <<hand, reader, idle, echoed>>
        /\ sessions[p] = NoSession /\ arrived[p] < MaxDatagrams
    BY <1>2 DEF ReceiveNew
  <2> HIDE DEF new
  <2>3. TypeOK'
    <3>1. /\ sessions' \in [Peers -> SessionId \union {NoSession}]
          /\ peer' \in [SessionId -> Peers]
      BY <1>0, <2>1, <2>2 DEF TypeOK
    <3>2. main' \in [SessionId -> MainState] /\ ticker' \in [SessionId -> TickerState]
      BY <1>0, <2>1, <2>2 DEF TypeOK, MainState, TickerState
    <3>3. arrived[p] \in 0 .. MaxDatagrams /\ arrived[p] + 1 \in 0 .. MaxDatagrams
      BY <1>0, <2>2 DEF TypeOK
    <3>4. arrived' \in [Peers -> 0 .. MaxDatagrams]
      BY <1>0, <2>2, <3>3 DEF TypeOK
    <3> QED
      BY <1>0, <2>1, <2>2, <3>1, <3>2, <3>4 DEF TypeOK
  <2>4. \A q \in Peers : sessions'[q] # NoSession =>
          /\ sessions'[q] \in Started' /\ peer'[sessions'[q]] = q
          /\ main'[sessions'[q]] \in {"reading", "writing", "ended"}
    <3> SUFFICES ASSUME NEW q \in Peers, sessions'[q] # NoSession
                 PROVE  /\ sessions'[q] \in Started' /\ peer'[sessions'[q]] = q
                        /\ main'[sessions'[q]] \in {"reading", "writing", "ended"}
      OBVIOUS
    <3>1. CASE q = p
      BY <1>0, <2>1, <2>2, <3>1 DEF TypeOK
    <3>2. CASE q # p
      <4>1. sessions'[q] = sessions[q]
        BY <1>0, <2>2, <3>2 DEF TypeOK
      <4>2. /\ sessions[q] \in Started /\ peer[sessions[q]] = q
            /\ main[sessions[q]] \in {"reading", "writing", "ended"}
        BY <1>0, <4>1 DEF MapExact
      <4>3. sessions[q] \in SessionId /\ sessions[q] # new
        BY <2>1, <4>2
      <4> QED
        BY <1>0, <2>1, <2>2, <4>1, <4>2, <4>3 DEF TypeOK
    <3> QED
      BY <3>1, <3>2
  <2>5. \A s \in Started' : main'[s] # "gone" => sessions'[peer'[s]] = s
    <3> SUFFICES ASSUME NEW s \in Started', main'[s] # "gone"
                 PROVE  sessions'[peer'[s]] = s
      OBVIOUS
    <3>1. CASE s = new
      BY <1>0, <2>1, <2>2, <3>1 DEF TypeOK
    <3>2. CASE s # new
      <4>1. s \in Started /\ s \in SessionId /\ s # NoSession
        BY <2>1, <3>2
      <4>2. peer'[s] = peer[s] /\ main'[s] = main[s] /\ peer[s] \in Peers
        BY <1>0, <2>2, <3>2, <4>1 DEF TypeOK
      <4>3. sessions[peer[s]] = s
        BY <1>0, <4>1, <4>2 DEF MapExact
      <4>4. peer[s] # p
        BY <2>2, <4>1, <4>3
      <4> QED
        BY <1>0, <2>2, <4>2, <4>3, <4>4 DEF TypeOK
    <3> QED
      BY <3>1, <3>2
  <2>6. Fresh' /\ Working'
    BY <1>0, <2>1, <2>2, 0 < IdleLimit DEF TypeOK, Fresh, Working
  <2>7. TargetOK'
    BY <1>0, <2>1, <2>2 DEF TypeOK, TargetOK
  <2> QED
    BY <2>3, <2>4, <2>5, <2>6, <2>7 DEF IInv, MapExact
<1>3. CASE Hand
  <2>1. target \in SessionId /\ target \in Started /\ arrived[peer[target]] \in 1 .. MaxDatagrams
    BY <1>0, <1>3 DEF Hand, TargetOK, TypeOK
  <2>2. /\ reader' \in [SessionId -> Seq(1 .. MaxDatagrams)]
        /\ \A s \in SessionId : Len(reader'[s]) <= BufferCap
    BY <1>0, <1>3, <2>1 DEF Hand, TypeOK
  <2>3. TypeOK'
    BY <1>0, <1>3, <2>2 DEF Hand, TypeOK
  <2>4. MapExact' /\ Fresh' /\ TargetOK' /\ Working'
    BY <1>0, <1>3 DEF Hand, MapExact, Fresh, TargetOK, Working, Started
  <2> QED
    BY <2>3, <2>4 DEF IInv
<1> QED
  BY <1>1, <1>2, <1>3 DEF Receive

\* A session keeps it: only the session the map names for a peer deletes the
\* entry of that peer.
LEMMA SessionIInv ==
    ASSUME IInv, NEW s \in SessionId, Session(s) \/ Tick(s)
    PROVE  IInv'
<1> USE ConstantsAssumption
<1>0. TypeOK /\ MapExact /\ Fresh /\ TargetOK /\ Working
  BY DEF IInv
<1>1. CASE ReadMsg(s)
  <2>1. Head(reader[s]) \in 1 .. MaxDatagrams /\ Tail(reader[s]) \in Seq(1 .. MaxDatagrams)
        /\ Len(Tail(reader[s])) <= BufferCap
    <3>1. /\ reader[s] \in Seq(1 .. MaxDatagrams) /\ reader[s] # <<>>
          /\ Len(reader[s]) <= BufferCap
      BY <1>0, <1>1 DEF ReadMsg, TypeOK
    <3>2. Len(Tail(reader[s])) = Len(reader[s]) - 1 /\ Len(reader[s]) \in Nat
      BY <3>1, HeadTailProperties
    <3>3. Len(Tail(reader[s])) <= BufferCap
      BY <3>1, <3>2
    <3> QED
      BY <3>1, <3>3, HeadTailProperties
  <2>2. TypeOK'
    <3>1. /\ hand' \in [SessionId -> 0 .. MaxDatagrams]
          /\ main' \in [SessionId -> MainState] /\ idle' \in [SessionId -> 0 .. IdleLimit]
      <4>1. Head(reader[s]) \in 0 .. MaxDatagrams /\ 0 \in 0 .. IdleLimit
        BY <2>1
      <4> QED
        BY <1>0, <1>1, <4>1 DEF ReadMsg, TypeOK, MainState
    <3>2. /\ reader' \in [SessionId -> Seq(1 .. MaxDatagrams)]
          /\ \A t \in SessionId : Len(reader'[t]) <= BufferCap
      BY <1>0, <1>1, <2>1 DEF ReadMsg, TypeOK
    <3> QED
      BY <1>0, <1>1, <3>1, <3>2 DEF ReadMsg, TypeOK
  <2>3. MapExact' /\ Fresh' /\ TargetOK'
    BY <1>0, <1>1 DEF ReadMsg, TypeOK, MapExact, Fresh, TargetOK, Started
  <2>4. Working'
    <3> SUFFICES ASSUME NEW t \in SessionId
                 PROVE  /\ main'[t] = "writing" => hand'[t] > 0
                        /\ ticker'[t] = "ticking" => idle'[t] < IdleLimit
      BY DEF Working
    <3>1. CASE t = s
      <4>1. hand'[s] = Head(reader[s]) /\ idle'[s] = 0
        BY <1>0, <1>1 DEF ReadMsg, TypeOK
      <4> QED
        BY <2>1, <3>1, <4>1
    <3>2. CASE t # s
      BY <1>0, <1>1, <3>2 DEF ReadMsg, TypeOK, Working
    <3> QED
      BY <3>1, <3>2
  <2> QED
    BY <2>2, <2>3, <2>4 DEF IInv
<1>2. CASE ReadClosed(s)
  <2>1. TypeOK'
    BY <1>0, <1>2 DEF ReadClosed, TypeOK, MainState, TickerState
  <2>2. MapExact' /\ Fresh' /\ TargetOK' /\ Working'
    BY <1>0, <1>2 DEF ReadClosed, TypeOK, MapExact, Fresh, TargetOK, Working, Started
  <2> QED
    BY <2>1, <2>2 DEF IInv
<1>3. CASE WriteOk(s)
  <2>1. hand[s] \in 1 .. MaxDatagrams /\ peer[s] \in Peers
    BY <1>0, <1>3 DEF WriteOk, TypeOK, Working
  <2>2. Append(echoed[peer[s]], hand[s]) \in Seq(1 .. MaxDatagrams)
    BY <1>0, <2>1 DEF TypeOK
  <2>3. TypeOK'
    <3>1. 0 \in 0 .. MaxDatagrams
      OBVIOUS
    <3>2. hand' \in [SessionId -> 0 .. MaxDatagrams] /\ main' \in [SessionId -> MainState]
      BY <1>0, <1>3, <3>1 DEF WriteOk, TypeOK, MainState
    <3>3. echoed' \in [Peers -> Seq(1 .. MaxDatagrams)]
      BY <1>0, <1>3, <2>1, <2>2 DEF WriteOk, TypeOK
    <3> QED
      BY <1>0, <1>3, <3>2, <3>3 DEF WriteOk, TypeOK
  <2>4. MapExact' /\ Fresh' /\ TargetOK' /\ Working'
    BY <1>0, <1>3 DEF WriteOk, TypeOK, MapExact, Fresh, TargetOK, Working, Started
  <2> QED
    BY <2>3, <2>4 DEF IInv
<1>4. CASE WriteFails(s)
  <2>1. TypeOK'
    <3>1. 0 \in 0 .. MaxDatagrams
      OBVIOUS
    <3>2. hand' \in [SessionId -> 0 .. MaxDatagrams] /\ main' \in [SessionId -> MainState]
      BY <1>0, <1>4, <3>1 DEF WriteFails, TypeOK, MainState
    <3> QED
      BY <1>0, <1>4, <3>2 DEF WriteFails, TypeOK
  <2>2. MapExact' /\ Fresh' /\ TargetOK' /\ Working'
    BY <1>0, <1>4 DEF WriteFails, TypeOK, MapExact, Fresh, TargetOK, Working, Started
  <2> QED
    BY <2>1, <2>2 DEF IInv
<1>5. CASE Delete(s)
  <2>1. s \in Started /\ peer[s] \in Peers
    BY <1>0, <1>5 DEF Delete, TypeOK, Fresh
  <2>2. TypeOK'
    BY <1>0, <1>5, <2>1 DEF Delete, TypeOK, MainState
  <2>3. MapExact'
    <3>1. sessions[peer[s]] = s /\ main[s] = "ended"
      BY <1>0, <1>5, <2>1 DEF Delete, MapExact
    <3>2. \A q \in Peers : sessions'[q] # NoSession =>
            q # peer[s] /\ sessions'[q] = sessions[q] /\ sessions[q] # s
      BY <1>0, <1>5, <2>1, <3>1 DEF Delete, TypeOK, MapExact
    <3>3. \A q \in Peers : sessions'[q] # NoSession =>
            /\ sessions'[q] \in Started /\ peer[sessions'[q]] = q
            /\ main'[sessions'[q]] \in {"reading", "writing", "ended"}
      BY <1>0, <1>5, <3>2 DEF Delete, TypeOK, MapExact
    <3>4. \A t \in Started : main'[t] # "gone" => sessions'[peer[t]] = t
      <4> SUFFICES ASSUME NEW t \in Started, main'[t] # "gone" PROVE sessions'[peer[t]] = t
        OBVIOUS
      <4>1. t \in SessionId
        BY <1>0 DEF TypeOK, Started, SessionId
      <4>2. t # s /\ main[t] # "gone" /\ peer[t] \in Peers
        BY <1>0, <1>5, <4>1 DEF Delete, TypeOK
      <4>3. sessions[peer[t]] = t /\ peer[t] # peer[s]
        BY <1>0, <3>1, <4>2 DEF MapExact
      <4> QED
        BY <1>0, <1>5, <4>2, <4>3 DEF Delete, TypeOK
    <3>5. Started' = Started /\ peer' = peer
      BY <1>5 DEF Delete, Started
    <3> QED
      BY <3>3, <3>4, <3>5 DEF MapExact
  <2>4. Fresh' /\ TargetOK' /\ Working'
    BY <1>0, <1>5 DEF Delete, TypeOK, Fresh, TargetOK, Working, Started
  <2> QED
    BY <2>2, <2>3, <2>4 DEF IInv
<1>6. CASE Tick(s)
  <2>1. idle[s] + 1 \in 0 .. IdleLimit
    BY <1>0, <1>6 DEF Tick, TypeOK, Working
  <2>2. idle' = [idle EXCEPT ![s] = idle[s] + 1]
    BY <1>6 DEF Tick
  <2>3. TypeOK'
    BY <1>0, <1>6, <2>1, <2>2 DEF Tick, TypeOK, TickerState
  <2>4. MapExact' /\ TargetOK'
    BY <1>0, <1>6 DEF Tick, MapExact, TargetOK, Started
  <2>5. Fresh' /\ Working'
    BY <1>0, <1>6, <2>1, <2>2 DEF Tick, TypeOK, Fresh, Working, Started
  <2> QED
    BY <2>3, <2>4, <2>5 DEF IInv
<1> QED
  BY <1>1, <1>2, <1>3, <1>4, <1>5, <1>6 DEF Session

\* The invariant holds in every state of every behaviour.
LEMMA Invariance == Spec => []IInv
<1>1. Init => IInv
  BY InitIInv
<1>2. IInv /\ [Next]_vars => IInv'
  <2> SUFFICES ASSUME IInv, [Next]_vars PROVE IInv'
    OBVIOUS
  <2>1. CASE \E p \in Peers : Receive(p)
    BY <2>1, DispatcherIInv
  <2>2. CASE Hand
    <3>1. PICK p \in Peers : TRUE
      BY ConstantsAssumption
    <3> QED
      BY <2>2, <3>1, DispatcherIInv
  <2>3. CASE \E s \in SessionId : Session(s) \/ Tick(s)
    BY <2>3, SessionIInv
  <2>4. CASE UNCHANGED vars
    BY <2>4 DEF vars, IInv, TypeOK, MapExact, Fresh, TargetOK, Working, Started
  <2> QED
    BY <2>1, <2>2, <2>3, <2>4 DEF Next
<1> QED
  BY <1>1, <1>2, PTL DEF Spec

\* Every variable keeps its type; above all, no channel ever holds more than its
\* capacity (61, 83).
THEOREM TypeCorrect == Spec => []TypeOK
<1>1. IInv => TypeOK
  BY DEF IInv
<1> QED
  BY <1>1, Invariance, PTL

\* Whatever the number of peers and of sessions, the map names the one live
\* session of each peer: a session that ends never deletes its successor's
\* entry (55-79).
THEOREM MapCorrect == Spec => []MapExact
<1>1. IInv => MapExact
  BY DEF IInv
<1> QED
  BY <1>1, Invariance, PTL

-----------------------------------------------------------------------------
(* The order of the echoes.                                                 *)

\* The datagrams of a live session, echoed or to be echoed: those its main goroutine
\* and its channel hold, and the one the dispatcher is about to hand to it.
InHand(s) == IF main[s] = "writing" THEN <<hand[s]>> ELSE <<>>
Coming(s) == IF target = s THEN <<arrived[peer[s]]>> ELSE <<>>
Line(s) == echoed[peer[s]] \o (InHand(s) \o (reader[s] \o Coming(s)))

\* The datagrams q are in the order of their arrival, and n is not before the last.
Rising(q, n) ==
    \A i \in DOMAIN q : q[i] <= n /\ \A j \in DOMAIN q : i < j => q[i] < q[j]

Live(s) == main[s] \in {"reading", "writing"}

EchoedRise == \A p \in Peers : Rising(echoed[p], arrived[p])
LinesRise == \A s \in SessionId : Live(s) => Rising(Line(s), arrived[peer[s]])
FreshEmpty == \A s \in SessionId \ Started : reader[s] = <<>>

OrderInv == EchoedRise /\ LinesRise /\ FreshEmpty

Datagram == 1 .. MaxDatagrams

\* A datagram that has just arrived comes after the others.
LEMMA RisingAppend ==
    ASSUME NEW S, S \subseteq Nat, NEW q \in Seq(S), NEW n \in Nat, n + 1 \in S, Rising(q, n)
    PROVE  Rising(q \o <<n + 1>>, n + 1)
<1> DEFINE r == q \o <<n + 1>>
<1>1. <<n + 1>> \in Seq(S) /\ Len(<<n + 1>>) = 1
  OBVIOUS
<1>2. Len(q) \in Nat /\ DOMAIN q = 1 .. Len(q)
  BY LenProperties
<1>3. /\ r \in Seq(S) /\ Len(r) = Len(q) + 1
      /\ \A i \in 1 .. Len(q) + 1 : r[i] = IF i <= Len(q) THEN q[i] ELSE <<n + 1>>[i - Len(q)]
  BY <1>1, ConcatProperties
<1>4. DOMAIN r = 1 .. Len(q) + 1
  BY <1>3, LenProperties
<1>5. ASSUME NEW i \in 1 .. Len(q) + 1
      PROVE  r[i] = IF i = Len(q) + 1 THEN n + 1 ELSE q[i]
  <2>1. CASE i <= Len(q)
    BY <1>2, <1>3, <2>1
  <2>2. CASE i = Len(q) + 1
    <3>1. i - Len(q) = 1 /\ ~(i <= Len(q))
      BY <1>2, <2>2
    <3>2. r[i] = <<n + 1>>[1]
      BY <1>3, <3>1
    <3> QED
      BY <2>2, <3>2
  <2> QED
    BY <1>2, <2>1, <2>2
<1> HIDE DEF r
<1>6. \A i \in 1 .. Len(q) : q[i] \in Nat
  BY ElementOfSeq
<1>7. Rising(r, n + 1)
  <2> SUFFICES ASSUME NEW i \in 1 .. Len(q) + 1
               PROVE  /\ r[i] <= n + 1
                      /\ \A j \in 1 .. Len(q) + 1 : i < j => r[i] < r[j]
    BY <1>4 DEF Rising
  <2>1. CASE i = Len(q) + 1
    BY <1>2, <1>5, <2>1
  <2>2. CASE i \in 1 .. Len(q)
    <3>1. r[i] = q[i] /\ q[i] \in Nat /\ q[i] <= n
      BY <1>2, <1>5, <1>6, <2>2 DEF Rising
    <3>2. ASSUME NEW j \in 1 .. Len(q) + 1, i < j PROVE r[i] < r[j]
      <4>1. CASE j = Len(q) + 1
        BY <1>5, <3>1, <4>1
      <4>2. CASE j \in 1 .. Len(q)
        <5>1. r[j] = q[j]
          BY <1>2, <1>5, <4>2
        <5>2. q[i] < q[j]
          BY <1>2, <2>2, <3>2, <4>2 DEF Rising
        <5> QED
          BY <3>1, <5>1, <5>2
      <4> QED
        BY <1>2, <4>1, <4>2
    <3> QED
      BY <3>1, <3>2
  <2> QED
    BY <1>2, <2>1, <2>2
<1> QED
  BY <1>7 DEF r

LEMMA RisingKept ==
    ASSUME NEW S, S \subseteq Nat, NEW q \in Seq(S), NEW n \in Nat, Rising(q, n)
    PROVE  Rising(q, n + 1)
<1>1. \A i \in DOMAIN q : q[i] \in Nat
  BY ElementOfSeq, LenProperties
<1> QED
  BY <1>1 DEF Rising

LEMMA RisingPrefix ==
    ASSUME NEW S, NEW q \in Seq(S), NEW r \in Seq(S), NEW n \in Nat, Rising(q \o r, n)
    PROVE  Rising(q, n)
<1>1. Len(q) \in Nat /\ Len(r) \in Nat /\ DOMAIN q = 1 .. Len(q)
  BY LenProperties
<1>2. q \o r \in Seq(S) /\ Len(q \o r) = Len(q) + Len(r)
  BY ConcatProperties
<1>3. DOMAIN (q \o r) = 1 .. Len(q) + Len(r)
  BY <1>2, LenProperties
<1>4. ASSUME NEW i \in DOMAIN q PROVE i \in DOMAIN (q \o r) /\ (q \o r)[i] = q[i]
  <2>1. i \in 1 .. Len(q) + Len(r) /\ i <= Len(q)
    BY <1>1
  <2> QED
    BY <1>3, <2>1, ConcatProperties
<1> QED
  BY <1>4 DEF Rising

\* The parts of a line are sequences of datagrams.
LEMMA LineParts ==
    ASSUME IInv, NEW s \in SessionId
    PROVE  /\ peer[s] \in Peers /\ echoed[peer[s]] \in Seq(Datagram)
           /\ reader[s] \in Seq(Datagram)
           /\ InHand(s) \in Seq(Datagram) /\ Coming(s) \in Seq(Datagram)
           /\ Line(s) \in Seq(Datagram)
<1>0. TypeOK /\ Working /\ TargetOK
  BY DEF IInv
<1>1. peer[s] \in Peers /\ echoed[peer[s]] \in Seq(Datagram) /\ reader[s] \in Seq(Datagram)
  BY <1>0 DEF TypeOK, Datagram
<1>2. InHand(s) \in Seq(Datagram)
  <2>1. CASE main[s] = "writing"
    <3>1. hand[s] \in Datagram
      BY <1>0, <2>1, ConstantsAssumption DEF TypeOK, Working, Datagram
    <3> QED
      BY <2>1, <3>1 DEF InHand
  <2>2. CASE main[s] # "writing"
    BY <2>2, EmptySeq DEF InHand
  <2> QED
    BY <2>1, <2>2
<1>3. Coming(s) \in Seq(Datagram)
  <2>1. CASE target = s
    <3>1. s # NoSession
      BY ConstantsAssumption
    <3>2. arrived[peer[s]] \in Datagram
      BY <1>0, <1>1, <2>1, <3>1, ConstantsAssumption DEF TypeOK, TargetOK, Datagram
    <3> QED
      BY <2>1, <3>2 DEF Coming
  <2>2. CASE target # s
    BY <2>2, EmptySeq DEF Coming
  <2> QED
    BY <2>1, <2>2
<1>4. Line(s) \in Seq(Datagram)
  BY <1>1, <1>2, <1>3, ConcatProperties DEF Line
<1> QED
  BY <1>1, <1>2, <1>3, <1>4

\* No two sessions of a peer are live at a time.
LEMMA OneLive ==
    ASSUME IInv, NEW s \in SessionId, Live(s)
    PROVE  s \in Started /\ sessions[peer[s]] = s /\ s # NoSession
<1>1. s \in Started
  BY DEF IInv, Fresh, Live
<1> QED
  BY <1>1, ConstantsAssumption DEF IInv, MapExact, Live

\* The line of a session that a step does not concern stays as it is.
LEMMA OtherLine ==
    ASSUME NEW t \in SessionId, peer'[t] = peer[t], main'[t] = main[t], hand'[t] = hand[t],
           reader'[t] = reader[t], Coming(t)' = Coming(t),
           echoed'[peer[t]] = echoed[peer[t]]
    PROVE  Line(t)' = Line(t)
BY DEF Line, InHand

LEMMA InitOrderInv == Init => OrderInv
<1> SUFFICES ASSUME Init PROVE OrderInv
  OBVIOUS
<1>1. EchoedRise
  BY DEF Init, EchoedRise, Rising
<1>2. LinesRise /\ FreshEmpty
  BY DEF Init, LinesRise, Live, FreshEmpty
<1> QED
  BY <1>1, <1>2 DEF OrderInv

\* A datagram joins the end of the line of its session, which may be a new one.
LEMMA ReceiveOrder ==
    ASSUME IInv, OrderInv, NEW p \in Peers, Receive(p)
    PROVE  OrderInv'
<1> USE ConstantsAssumption
<1>0. TypeOK /\ MapExact /\ Fresh /\ EchoedRise /\ LinesRise /\ FreshEmpty
  BY DEF IInv, OrderInv
<1> DEFINE n == arrived[p]
<1>1. /\ target = NoSession /\ n < MaxDatagrams
      /\ arrived' = [arrived EXCEPT ![p] = n + 1]
      /\ UNCHANGED <<hand, reader, echoed>>
  BY DEF Receive, ReceiveKnown, ReceiveNew
<1>2. n \in Nat /\ n + 1 \in Datagram /\ Datagram \subseteq Nat /\ arrived'[p] = n + 1
  BY <1>0, <1>1 DEF TypeOK, Datagram
<1> HIDE DEF n
<1>3. \A s \in SessionId : Coming(s) = <<>>
  BY <1>1 DEF Coming
<1>4. EchoedRise'
  <2> SUFFICES ASSUME NEW q \in Peers PROVE Rising(echoed[q], arrived'[q])
    BY <1>1 DEF EchoedRise, Rising
  <2>1. CASE q = p
    <3>1. echoed[p] \in Seq(Datagram) /\ Rising(echoed[p], n)
      BY <1>0 DEF TypeOK, Datagram, EchoedRise, n
    <3> QED
      BY <1>2, <2>1, <3>1, RisingKept
  <2>2. CASE q # p
    BY <1>0, <1>1, <2>2 DEF TypeOK, EchoedRise
  <2> QED
    BY <2>1, <2>2
<1>5. ASSUME ReceiveKnown(p) PROVE LinesRise' /\ FreshEmpty'
  <2>1. /\ sessions[p] # NoSession /\ target' = sessions[p]
        /\ UNCHANGED <<used, peer, main>>
    BY <1>5 DEF ReceiveKnown
  <2>2. ASSUME NEW s \in SessionId, Live(s) PROVE Rising(Line(s)', arrived'[peer[s]])
    <3>1. /\ s \in Started /\ sessions[peer[s]] = s /\ s # NoSession
          /\ peer[s] \in Peers /\ Rising(Line(s), arrived[peer[s]])
      BY <1>0, <2>2, OneLive, LineParts DEF LinesRise
    <3>2. CASE peer[s] = p
      <4>1. Coming(s)' = <<n + 1>>
        BY <1>2, <2>1, <3>1, <3>2 DEF Coming
      <4>2. Line(s)' = Line(s) \o <<n + 1>>
        <5> DEFINE e == echoed[p]
                   h == InHand(s)
                   r == reader[s]
                   m == <<n + 1>>
        <5>1. /\ e \in Seq(Datagram) /\ h \in Seq(Datagram) /\ r \in Seq(Datagram)
              /\ m \in Seq(Datagram)
          BY <1>2, <3>2, LineParts
        <5>2. Line(s) = e \o (h \o (r \o <<>>))
          BY <1>3, <3>2 DEF Line
        <5>3. Line(s)' = e \o (h \o (r \o m))
          BY <1>1, <2>1, <3>2, <4>1 DEF Line, InHand
        <5> HIDE DEF e, h, r, m
        <5>4. r \o <<>> = r /\ h \o r \in Seq(Datagram)
          BY <5>1, ConcatEmptySeq, ConcatProperties
        <5>5. (h \o r) \o m = h \o (r \o m)
          BY <5>1, ConcatAssociative
        <5>6. (e \o (h \o r)) \o m = e \o ((h \o r) \o m)
          BY <5>1, <5>4, ConcatAssociative
        <5> QED
          BY <5>2, <5>3, <5>4, <5>5, <5>6 DEF m
      <4>3. Line(s) \in Seq(Datagram) /\ Rising(Line(s), n)
        BY <3>1, <3>2, LineParts DEF n
      <4> QED
        BY <1>2, <3>2, <4>2, <4>3, RisingAppend
    <3>3. CASE peer[s] # p
      <4>1. s # sessions[p]
        BY <1>0, <2>1, <3>3 DEF MapExact
      <4>2. Coming(s)' = Coming(s)
        BY <1>3, <2>1, <4>1 DEF Coming
      <4>3. Line(s)' = Line(s)
        BY <1>1, <2>1, <4>2, OtherLine
      <4>4. arrived'[peer[s]] = arrived[peer[s]]
        BY <1>0, <1>1, <3>1, <3>3 DEF TypeOK
      <4> QED
        BY <3>1, <4>3, <4>4
    <3> QED
      BY <3>2, <3>3
  <2> QED
    BY <1>0, <1>1, <2>1, <2>2 DEF LinesRise, Live, Rising, FreshEmpty, Started
<1>6. ASSUME ReceiveNew(p) PROVE LinesRise' /\ FreshEmpty'
  <2> PICK new : new = used + 1
    OBVIOUS
  <2>1. /\ used \in 0 .. MaxSessions /\ used < MaxSessions /\ used' = new
        /\ sessions[p] = NoSession
        /\ peer' = [peer EXCEPT ![new] = p]
        /\ main' = [main EXCEPT ![new] = "reading"]
        /\ target' = new
    BY <1>0, <1>6 DEF ReceiveNew, TypeOK
  <2>2. new \in SessionId /\ new \notin Started /\ SessionId \ Started' \subseteq SessionId \ Started
    BY <2>1 DEF SessionId, Started
  <2>3. Rising(Line(new)', arrived'[peer'[new]])
    <3>1. peer'[new] = p /\ main'[new] = "reading"
      BY <1>0, <2>1, <2>2 DEF TypeOK
    <3>2. Coming(new)' = <<n + 1>> /\ InHand(new)' = <<>> /\ reader'[new] = <<>>
      <4>1. reader[new] = <<>>
        BY <1>0, <2>2 DEF FreshEmpty
      <4> QED
        BY <1>1, <1>2, <2>1, <3>1, <4>1 DEF Coming, InHand
    <3>3. /\ echoed[p] \in Seq(Datagram) /\ <<n + 1>> \in Seq(Datagram)
          /\ Rising(echoed[p], n)
      BY <1>0, <1>2 DEF TypeOK, Datagram, EchoedRise, n
    <3>4. Line(new)' = echoed[p] \o (<<>> \o (<<>> \o <<n + 1>>))
      BY <1>1, <3>1, <3>2 DEF Line
    <3>5. Line(new)' = echoed[p] \o <<n + 1>>
      BY <3>3, <3>4, ConcatEmptySeq
    <3> QED
      BY <1>2, <3>1, <3>3, <3>5, RisingAppend
  <2>4. ASSUME NEW s \in SessionId, s # new, Live(s) PROVE Rising(Line(s)', arrived'[peer'[s]])
    <3>1. /\ sessions[peer[s]] = s /\ s # NoSession
          /\ peer[s] \in Peers /\ Rising(Line(s), arrived[peer[s]])
      BY <1>0, <2>4, OneLive, LineParts DEF LinesRise
    <3>2. peer[s] # p
      BY <2>1, <3>1
    <3>3. peer'[s] = peer[s] /\ main'[s] = main[s]
      BY <1>0, <2>1, <2>4 DEF TypeOK
    <3>4. Coming(s)' = Coming(s)
      BY <1>3, <2>1, <2>4 DEF Coming
    <3>5. Line(s)' = Line(s)
      BY <1>1, <3>3, <3>4, OtherLine
    <3>6. arrived'[peer[s]] = arrived[peer[s]]
      BY <1>0, <1>1, <3>1, <3>2 DEF TypeOK
    <3> QED
      BY <3>1, <3>3, <3>5, <3>6
  <2>5. \A s \in SessionId : s # new /\ Live(s)' => Live(s)
    BY <1>0, <2>1 DEF TypeOK, Live
  <2>6. LinesRise'
    BY <2>3, <2>4, <2>5 DEF LinesRise, Rising
  <2>7. FreshEmpty'
    BY <1>0, <1>1, <2>2 DEF FreshEmpty
  <2> QED
    BY <2>6, <2>7
<1> QED
  BY <1>4, <1>5, <1>6 DEF Receive, OrderInv

\* The dispatcher hands over the last datagram of the line.
LEMMA HandOrder ==
    ASSUME IInv, OrderInv, Hand
    PROVE  OrderInv'
<1> USE ConstantsAssumption
<1>0. TypeOK /\ TargetOK /\ EchoedRise /\ LinesRise /\ FreshEmpty
  BY DEF IInv, OrderInv
<1>1. /\ target \in SessionId /\ target \in Started /\ target' = NoSession
      /\ reader' = [reader EXCEPT ![target] = Append(@, arrived[peer[target]])]
      /\ UNCHANGED <<used, peer, main, hand, arrived, echoed>>
  BY <1>0 DEF Hand, TypeOK, TargetOK
<1>2. ASSUME NEW s \in SessionId PROVE Line(s)' = Line(s)
  <2>1. s # NoSession
    OBVIOUS
  <2>2. Coming(s)' = <<>> /\ InHand(s)' = InHand(s)
    BY <1>1, <2>1 DEF Coming, InHand
  <2>3. reader'[s] = reader[s] \o Coming(s)
    <3>1. CASE s = target
      <4>1. Append(reader[s], arrived[peer[s]]) = reader[s] \o <<arrived[peer[s]]>>
        BY <1>0 DEF TypeOK
      <4> QED
        BY <1>0, <1>1, <3>1, <4>1 DEF TypeOK, Coming
    <3>2. CASE s # target
      BY <1>0, <1>1, <3>2, LineParts, ConcatEmptySeq DEF TypeOK, Coming
    <3> QED
      BY <3>1, <3>2
  <2>4. reader'[s] \in Seq(Datagram) /\ reader'[s] \o <<>> = reader'[s]
    BY <2>3, LineParts, ConcatProperties, ConcatEmptySeq
  <2> QED
    BY <1>1, <2>2, <2>3, <2>4 DEF Line
<1>3. EchoedRise'
  BY <1>0, <1>1 DEF EchoedRise, Rising
<1>4. LinesRise'
  BY <1>0, <1>1, <1>2 DEF LinesRise, Live
<1>5. FreshEmpty'
  BY <1>0, <1>1 DEF FreshEmpty, TypeOK, Started
<1> QED
  BY <1>3, <1>4, <1>5 DEF OrderInv

\* A session echoes the datagrams of its line from the front.
LEMMA SessionOrder ==
    ASSUME IInv, OrderInv, NEW s \in SessionId, Session(s) \/ Tick(s)
    PROVE  OrderInv'
<1> USE ConstantsAssumption
<1>0. TypeOK /\ Fresh /\ EchoedRise /\ LinesRise /\ FreshEmpty
  BY DEF IInv, OrderInv
<1>1. UNCHANGED <<used, peer, target, arrived>>
  BY DEF Session, ReadMsg, ReadClosed, WriteOk, WriteFails, Delete, Tick
<1>2. \A t \in SessionId : Coming(t)' = Coming(t)
  BY <1>1 DEF Coming
<1>3. CASE ReadMsg(s)
  <2>1. /\ main[s] = "reading" /\ reader[s] # <<>> /\ echoed' = echoed
        /\ hand' = [hand EXCEPT ![s] = Head(reader[s])]
        /\ reader' = [reader EXCEPT ![s] = Tail(@)]
        /\ main' = [main EXCEPT ![s] = "writing"]
    BY <1>3 DEF ReadMsg
  <2>2. Line(s)' = Line(s)
    <3> DEFINE h == Head(reader[s])
               r == Tail(reader[s])
               c == Coming(s)
    <3>1. h \in Datagram /\ r \in Seq(Datagram) /\ c \in Seq(Datagram) /\ <<h>> \in Seq(Datagram)
      BY <2>1, LineParts, HeadTailProperties
    <3>2. reader[s] = <<h>> \o r
      BY <2>1, LineParts
    <3>3. InHand(s) = <<>> /\ InHand(s)' = <<h>> /\ reader'[s] = r
      BY <1>0, <2>1 DEF TypeOK, InHand
    <3>4. Line(s)' = echoed[peer[s]] \o (<<h>> \o (r \o c))
      BY <1>1, <1>2, <2>1, <3>3 DEF Line
    <3>5. Line(s) = echoed[peer[s]] \o (<<>> \o ((<<h>> \o r) \o c))
      BY <3>2, <3>3 DEF Line
    <3> HIDE DEF h, r, c
    <3>6. (<<h>> \o r) \o c = <<h>> \o (r \o c) /\ (<<h>> \o r) \o c \in Seq(Datagram)
      BY <3>1, ConcatAssociative, ConcatProperties
    <3>7. <<>> \o ((<<h>> \o r) \o c) = <<h>> \o (r \o c)
      BY <3>6, ConcatEmptySeq
    <3> QED
      BY <3>4, <3>5, <3>7
  <2>3. \A t \in SessionId : Line(t)' = Line(t) /\ (Live(t)' => Live(t))
    <3> SUFFICES ASSUME NEW t \in SessionId PROVE Line(t)' = Line(t) /\ (Live(t)' => Live(t))
      OBVIOUS
    <3>1. CASE t = s
      BY <2>1, <2>2, <3>1 DEF Live
    <3>2. CASE t # s
      BY <1>0, <1>1, <1>2, <2>1, <3>2, OtherLine DEF TypeOK, Live
    <3> QED
      BY <3>1, <3>2
  <2>4. EchoedRise' /\ LinesRise'
    BY <1>0, <1>1, <2>1, <2>3 DEF EchoedRise, LinesRise, Rising
  <2>5. FreshEmpty'
    BY <1>0, <1>1, <2>1 DEF FreshEmpty, Fresh, TypeOK, Started
  <2> QED
    BY <2>4, <2>5 DEF OrderInv
<1>4. CASE WriteOk(s)
  <2>1. /\ main[s] = "writing" /\ reader' = reader
        /\ echoed' = [echoed EXCEPT ![peer[s]] = Append(@, hand[s])]
        /\ main' = [main EXCEPT ![s] = "reading"]
        /\ hand' = [hand EXCEPT ![s] = 0]
    BY <1>4 DEF WriteOk
  <2>2. peer[s] \in Peers /\ Live(s) /\ hand[s] \in Datagram /\ arrived[peer[s]] \in Nat
    BY <1>0, <2>1 DEF TypeOK, Live, IInv, Working, Datagram
  <2>3. echoed'[peer[s]] = echoed[peer[s]] \o <<hand[s]>>
    <3>1. Append(echoed[peer[s]], hand[s]) = echoed[peer[s]] \o <<hand[s]>>
      <4>1. echoed[peer[s]] \in Seq(Datagram)
        BY LineParts
      <4> QED
        BY <2>2, <4>1
    <3> QED
      BY <1>0, <2>1, <2>2, <3>1 DEF TypeOK
  <2>4. Line(s)' = Line(s) /\ Rising(echoed'[peer[s]], arrived[peer[s]])
    <3> DEFINE e == echoed[peer[s]]
               h == hand[s]
               r == reader[s] \o Coming(s)
    <3>1. e \in Seq(Datagram) /\ r \in Seq(Datagram) /\ <<h>> \in Seq(Datagram)
      BY <2>2, LineParts, ConcatProperties
    <3>2. InHand(s) = <<h>> /\ InHand(s)' = <<>>
      BY <1>0, <2>1 DEF TypeOK, InHand
    <3>3. Line(s) = e \o (<<h>> \o r)
      BY <3>2 DEF Line
    <3>4. Line(s)' = (e \o <<h>>) \o (<<>> \o r)
      BY <1>1, <1>2, <2>1, <2>3, <3>2 DEF Line
    <3>5. Rising(Line(s), arrived[peer[s]])
      BY <1>0, <2>2 DEF LinesRise
    <3> HIDE DEF e, h, r
    <3>6. /\ e \o <<h>> \in Seq(Datagram) /\ <<>> \o r = r
          /\ (e \o <<h>>) \o r = e \o (<<h>> \o r)
      BY <3>1, ConcatAssociative, ConcatProperties, ConcatEmptySeq
    <3>7. Rising(e \o <<h>>, arrived[peer[s]])
      BY <2>2, <3>1, <3>3, <3>5, <3>6, RisingPrefix
    <3> QED
      BY <2>3, <3>3, <3>4, <3>6, <3>7 DEF e, h
  <2>5. LinesRise'
    <3> SUFFICES ASSUME NEW t \in SessionId, Live(t)' PROVE Rising(Line(t)', arrived[peer[t]])
      BY <1>1 DEF LinesRise, Rising
    <3>1. CASE t = s
      BY <1>0, <2>2, <2>4, <3>1 DEF LinesRise
    <3>2. CASE t # s
      <4>1. Live(t) /\ main'[t] = main[t] /\ hand'[t] = hand[t]
        BY <1>0, <2>1, <3>2 DEF TypeOK, Live
      <4>2. peer[t] # peer[s]
        BY <2>2, <3>2, <4>1, OneLive
      <4>3. echoed'[peer[t]] = echoed[peer[t]]
        BY <1>0, <2>1, <4>2 DEF TypeOK
      <4> QED
        BY <1>0, <1>1, <1>2, <2>1, <4>1, <4>3, OtherLine DEF LinesRise
    <3> QED
      BY <3>1, <3>2
  <2>6. EchoedRise'
    <3> SUFFICES ASSUME NEW q \in Peers PROVE Rising(echoed'[q], arrived[q])
      BY <1>1 DEF EchoedRise, Rising
    <3>1. CASE q = peer[s]
      BY <2>4, <3>1
    <3>2. CASE q # peer[s]
      BY <1>0, <2>1, <3>2 DEF TypeOK, EchoedRise
    <3> QED
      BY <3>1, <3>2
  <2>7. FreshEmpty'
    BY <1>0, <1>1, <2>1 DEF FreshEmpty, Started
  <2> QED
    BY <2>5, <2>6, <2>7 DEF OrderInv
<1>5. CASE ReadClosed(s) \/ WriteFails(s) \/ Delete(s) \/ Tick(s)
  <2>1. /\ UNCHANGED <<reader, echoed>>
        /\ \A t \in SessionId :
              \/ main'[t] = main[t] /\ hand'[t] = hand[t]
              \/ main'[t] \in {"ended", "gone"}
    <3>1. CASE ReadClosed(s)
      BY <1>0, <3>1 DEF ReadClosed, TypeOK
    <3>2. CASE WriteFails(s)
      BY <1>0, <3>2 DEF WriteFails, TypeOK
    <3>3. CASE Delete(s)
      BY <1>0, <3>3 DEF Delete, TypeOK
    <3>4. CASE Tick(s)
      BY <1>0, <3>4 DEF Tick, TypeOK
    <3> QED
      BY <1>5, <3>1, <3>2, <3>3, <3>4
  <2>2. ASSUME NEW t \in SessionId, Live(t)' PROVE Live(t) /\ Line(t)' = Line(t)
    <3>1. main'[t] = main[t] /\ hand'[t] = hand[t]
      BY <2>1, <2>2 DEF Live
    <3> QED
      BY <1>1, <1>2, <2>1, <2>2, <3>1, OtherLine DEF Live
  <2>3. EchoedRise' /\ LinesRise'
    BY <1>0, <1>1, <2>1, <2>2 DEF EchoedRise, LinesRise, Rising
  <2>4. FreshEmpty'
    BY <1>0, <1>1, <2>1 DEF FreshEmpty, Started
  <2> QED
    BY <2>3, <2>4 DEF OrderInv
<1> QED
  BY <1>3, <1>4, <1>5 DEF Session

\* The echoes to any peer keep the order of its datagrams, however many sessions end and
\* start between them and however many datagrams a session that ends leaves in its channel:
\* run does not take the next datagram before it has handed over the last one, and the
\* lock admits no second session of a peer (47-84, 97-106).
THEOREM EchoesOrdered == Spec => []EchoInOrder
<1>1. OrderInv => EchoInOrder
  BY DEF OrderInv, EchoedRise, Rising, EchoInOrder
<1>2. IInv /\ OrderInv /\ [Next]_vars => OrderInv'
  <2> SUFFICES ASSUME IInv, OrderInv, [Next]_vars PROVE OrderInv'
    OBVIOUS
  <2>1. CASE UNCHANGED vars
    <3>1. EchoedRise'
      BY <2>1 DEF vars, OrderInv, EchoedRise, Rising
    <3>2. LinesRise'
      <4>1. ASSUME NEW s \in SessionId PROVE Line(s)' = Line(s)
        BY <2>1 DEF vars, Line, InHand, Coming
      <4> QED
        BY <2>1, <4>1 DEF vars, OrderInv, LinesRise, Live, Rising
    <3>3. FreshEmpty'
      BY <2>1 DEF vars, OrderInv, FreshEmpty, Started
    <3> QED
      BY <3>1, <3>2, <3>3 DEF OrderInv
  <2> QED
    BY <2>1, ReceiveOrder, HandOrder, SessionOrder DEF Next
<1> QED
  BY <1>1, <1>2, InitOrderInv, Invariance, PTL DEF Spec

-----------------------------------------------------------------------------
(* The forwarding proxy.                                                    *)

Dialed == 1 .. dialed

ForwardTypes ==
    /\ proxy \in {"receive", "lookup", "send", "reset", "down"} /\ sender \in Senders
    /\ dialed \in 0 .. MaxConns
    /\ sessionOf \in [Senders -> Dialed \union {NoConn}]
    /\ owner \in [ConnId -> Senders]
    /\ isNil \subseteq Dialed /\ open \subseteq Dialed
    /\ downlink \in [ConnId -> {"none", "reading", "closing", "closed", "gone"}]
    /\ idler \in [ConnId -> {"none", "ticking", "expired", "gone"}]
    /\ timeout \in [ConnId -> Nat] /\ unanswered \in [ConnId -> Nat]
    /\ socketFailed \in BOOLEAN

\* The peer of an open socket has this session in the map, whose goroutine has not
\* closed it; nothing but the ticker has, unless a socket failed.
SocketsKept ==
    /\ \A s \in open : sessionOf[owner[s]] = s
    /\ \A s \in ConnId :
          /\ downlink[s] \in {"closed", "gone"} => s \notin open
          /\ s \in isNil => downlink[s] = "gone"
          /\ s \in Dialed <=> downlink[s] # "none"
          /\ ~socketFailed /\ downlink[s] = "closing" => s \notin open
          /\ ~socketFailed /\ s \in Dialed \ open => idler[s] = "gone"

HasSession == proxy \in {"send", "reset"} => Current # NoConn

ForwardInv == ForwardTypes /\ SocketsKept /\ HasSession /\ DownNeedsTimeout

LEMMA InitForwardInv == ForwardInit => ForwardInv
<1> SUFFICES ASSUME ForwardInit PROVE ForwardInv
  OBVIOUS
<1>1. (CHOOSE p \in Senders : TRUE) \in Senders
  BY ForwardAssumption
<1>2. ForwardTypes
  <2>1. sender \in Senders /\ dialed = 0 /\ 0 \in 0 .. MaxConns
    BY <1>1, ForwardAssumption DEF ForwardInit
  <2>2. owner = [s \in ConnId |-> sender] /\ owner \in [ConnId -> Senders]
    BY <2>1 DEF ForwardInit
  <2> QED
    BY <2>1, <2>2 DEF ForwardInit, ForwardTypes
<1>3. SocketsKept
  BY ForwardAssumption DEF ForwardInit, SocketsKept, Dialed
<1>4. HasSession /\ DownNeedsTimeout
  BY DEF ForwardInit, HasSession, DownNeedsTimeout
<1> QED
  BY <1>2, <1>3, <1>4 DEF ForwardInv

\* The main goroutine keeps it: it replaces a session whose connection is gone only.
LEMMA MainForwardInv ==
    ASSUME ForwardInv, NEW p \in Senders, ReceiveFrom(p) \/ MainSteps
    PROVE  ForwardInv'
<1> USE ForwardAssumption
<1>0. ForwardTypes /\ SocketsKept /\ HasSession /\ DownNeedsTimeout
  BY DEF ForwardInv
<1>1. CASE ReceiveFrom(p)
  <2>1. ForwardTypes'
    BY <1>0, <1>1 DEF ReceiveFrom, ForwardTypes, Dialed
  <2>2. SocketsKept' /\ HasSession' /\ DownNeedsTimeout'
    BY <1>0, <1>1 DEF ReceiveFrom, SocketsKept, HasSession, DownNeedsTimeout, Dialed
  <2> QED
    BY <2>1, <2>2 DEF ForwardInv
<1>2. CASE Find
  <2>1. ForwardTypes'
    BY <1>0, <1>2 DEF Find, ForwardTypes, Dialed
  <2>2. SocketsKept' /\ HasSession' /\ DownNeedsTimeout'
    BY <1>0, <1>2 DEF Find, SocketsKept, HasSession, DownNeedsTimeout, Dialed, Current
  <2> QED
    BY <2>1, <2>2 DEF ForwardInv
<1>3. CASE Dial
  <2> PICK new : new = dialed + 1
    OBVIOUS
  <2>1. /\ new \in ConnId /\ new \notin Dialed /\ new # NoConn
        /\ dialed' \in 0 .. MaxConns /\ Dialed' = Dialed \union {new}
    <3>1. dialed \in 0 .. MaxConns /\ dialed < MaxConns /\ dialed' = dialed + 1
      BY <1>0, <1>3 DEF Dial, ForwardTypes
    <3>2. new \in 1 .. MaxConns /\ new \notin 1 .. dialed /\ dialed' \in 0 .. MaxConns
      BY <3>1
    <3>3. 1 .. dialed' = (1 .. dialed) \union {new}
      BY <3>1
    <3> QED
      BY <3>2, <3>3 DEF ConnId, Dialed
  <2>2. /\ proxy' = "send" /\ Current \in isNil \union {NoConn}
        /\ sessionOf' = [sessionOf EXCEPT ![sender] = new]
        /\ owner' = [owner EXCEPT ![new] = sender]
        /\ open' = open \union {new}
        /\ downlink' = [downlink EXCEPT ![new] = "reading"]
        /\ idler' = [idler EXCEPT ![new] = "ticking"]
        /\ UNCHANGED <<sender, isNil, timeout, unanswered, socketFailed>>
    BY <1>3 DEF Dial
  <2>3. sessionOf' \in [Senders -> Dialed' \union {NoConn}]
    BY <1>0, <2>1, <2>2 DEF ForwardTypes
  <2>4. ForwardTypes'
    BY <1>0, <2>1, <2>2, <2>3 DEF ForwardTypes
  <2>5. Current \notin open
    BY <1>0, <2>2 DEF ForwardTypes, SocketsKept, Dialed, ConnId
  <2>6. ASSUME NEW s \in open' PROVE sessionOf'[owner'[s]] = s
    <3>1. CASE s = new
      BY <1>0, <2>1, <2>2, <3>1 DEF ForwardTypes
    <3>2. CASE s # new
      <4>1. s \in open /\ s \in ConnId /\ owner'[s] = owner[s] /\ owner[s] \in Senders
        BY <1>0, <2>2, <2>6, <3>2 DEF ForwardTypes, Dialed, ConnId
      <4>2. sessionOf[owner[s]] = s
        BY <1>0, <4>1 DEF SocketsKept
      <4>3. owner[s] # sender
        BY <2>5, <4>1, <4>2 DEF Current
      <4> QED
        BY <1>0, <2>2, <4>1, <4>2, <4>3 DEF ForwardTypes
    <3> QED
      BY <3>1, <3>2
  <2>7. ASSUME NEW s \in ConnId
        PROVE  /\ downlink'[s] \in {"closed", "gone"} => s \notin open'
               /\ s \in isNil' => downlink'[s] = "gone"
               /\ s \in Dialed' <=> downlink'[s] # "none"
               /\ ~socketFailed' /\ downlink'[s] = "closing" => s \notin open'
               /\ ~socketFailed' /\ s \in Dialed' \ open' => idler'[s] = "gone"
    <3>1. CASE s = new
      BY <1>0, <2>1, <2>2, <3>1 DEF ForwardTypes
    <3>2. CASE s # new
      BY <1>0, <2>1, <2>2, <3>2 DEF ForwardTypes, SocketsKept
    <3> QED
      BY <3>1, <3>2
  <2>8. HasSession' /\ DownNeedsTimeout'
    BY <1>0, <2>1, <2>2 DEF ForwardTypes, HasSession, DownNeedsTimeout, Current
  <2> QED
    BY <2>4, <2>6, <2>7, <2>8 DEF ForwardInv, SocketsKept
<1>4. CASE Uplink
  <2>1. Current \in ConnId
    BY <1>0, <1>4 DEF Uplink, ForwardTypes, Dialed, ConnId
  <2>2. unanswered' \in [ConnId -> Nat]
    BY <1>0, <1>4, <2>1 DEF Uplink, ForwardTypes
  <2>3. ForwardTypes'
    BY <1>0, <1>4, <2>2 DEF Uplink, ForwardTypes, Dialed
  <2>4. SocketsKept' /\ HasSession' /\ DownNeedsTimeout'
    BY <1>0, <1>4 DEF Uplink, SocketsKept, HasSession, DownNeedsTimeout, Dialed, Current
  <2> QED
    BY <2>3, <2>4 DEF ForwardInv
<1>5. CASE SocketFails
  <2>1. ForwardTypes'
    BY <1>0, <1>5 DEF SocketFails, ForwardTypes, Dialed
  <2>2. SocketsKept' /\ HasSession' /\ DownNeedsTimeout'
    BY <1>0, <1>5 DEF SocketFails, SocketsKept, HasSession, DownNeedsTimeout, Dialed
  <2> QED
    BY <2>1, <2>2 DEF ForwardInv
<1>6. CASE UplinkFails
  <2>1. ForwardTypes'
    BY <1>0, <1>6 DEF UplinkFails, ForwardTypes, Dialed
  <2>2. SocketsKept' /\ HasSession'
    BY <1>0, <1>6 DEF UplinkFails, SocketsKept, HasSession, Dialed
  <2>3. Current \in Dialed /\ Current \in ConnId
    BY <1>0, <1>6 DEF UplinkFails, HasSession, ForwardTypes, Current, Dialed, ConnId
  <2>4. Current \notin open
    BY <1>0, <1>6, <2>3 DEF UplinkFails, SocketsKept
  <2>5. DownNeedsTimeout'
    BY <1>0, <1>6, <2>3, <2>4 DEF UplinkFails, SocketsKept, DownNeedsTimeout, Current
  <2> QED
    BY <2>1, <2>2, <2>5 DEF ForwardInv
<1>7. CASE Reset
  <2>1. ForwardTypes'
    BY <1>0, <1>7 DEF Reset, ForwardTypes, Dialed
  <2>2. SocketsKept' /\ HasSession' /\ DownNeedsTimeout'
    BY <1>0, <1>7 DEF Reset, SocketsKept, HasSession, DownNeedsTimeout, Dialed
  <2> QED
    BY <2>1, <2>2 DEF ForwardInv
<1> QED
  BY <1>1, <1>2, <1>3, <1>4, <1>5, <1>6, <1>7 DEF MainSteps

\* The goroutines of a session keep it: its own closes the socket before it sets nil.
LEMMA SessionForwardInv ==
    ASSUME ForwardInv, NEW s \in ConnId, Answer(s) \/ ReadFails(s) \/ SessionSteps(s)
    PROVE  ForwardInv'
<1> USE ForwardAssumption
<1>0. ForwardTypes /\ SocketsKept /\ HasSession /\ DownNeedsTimeout
  BY DEF ForwardInv
<1>1. proxy # "down"
  BY DEF Answer, ReadFails, SessionSteps, ReadCanceled, CloseConn, SetNil, IdleTick, Expire,
         ExpirePanics, Reading
<1>2. CASE Answer(s)
  <2>1. unanswered[s] - 1 \in Nat
    BY <1>0, <1>2 DEF Answer, ForwardTypes
  <2>2. ForwardTypes'
    BY <1>0, <1>2, <2>1 DEF Answer, ForwardTypes, mainVars, Dialed
  <2>3. SocketsKept' /\ HasSession' /\ DownNeedsTimeout'
    BY <1>0, <1>2 DEF Answer, SocketsKept, HasSession, DownNeedsTimeout, mainVars, Dialed, Current
  <2> QED
    BY <2>2, <2>3 DEF ForwardInv
<1>3. CASE ReadFails(s)
  <2>1. unanswered[s] - 1 \in Nat
    BY <1>0, <1>3 DEF ReadFails, ForwardTypes
  <2>2. ForwardTypes'
    BY <1>0, <1>3, <2>1 DEF ReadFails, ForwardTypes, mainVars, Dialed
  <2>3. SocketsKept' /\ HasSession' /\ DownNeedsTimeout'
    BY <1>0, <1>3 DEF ReadFails, ForwardTypes, SocketsKept, HasSession, DownNeedsTimeout,
                      mainVars, Dialed, Current
  <2> QED
    BY <2>2, <2>3 DEF ForwardInv
<1>4. CASE ReadCanceled(s)
  <2>1. ForwardTypes'
    BY <1>0, <1>4 DEF ReadCanceled, ForwardTypes, mainVars, Dialed
  <2>2. SocketsKept'
    BY <1>0, <1>4 DEF ReadCanceled, Reading, ForwardTypes, SocketsKept, mainVars, Dialed
  <2>3. HasSession' /\ DownNeedsTimeout'
    BY <1>0, <1>1, <1>4 DEF ReadCanceled, HasSession, DownNeedsTimeout, mainVars, Current
  <2> QED
    BY <2>1, <2>2, <2>3 DEF ForwardInv
<1>5. CASE CloseConn(s)
  <2>1. ForwardTypes'
    BY <1>0, <1>5 DEF CloseConn, ForwardTypes, mainVars, Dialed
  <2>2. SocketsKept'
    BY <1>0, <1>5 DEF CloseConn, ForwardTypes, SocketsKept, mainVars, Dialed
  <2>3. HasSession' /\ DownNeedsTimeout'
    BY <1>0, <1>1, <1>5 DEF CloseConn, HasSession, DownNeedsTimeout, mainVars, Current
  <2> QED
    BY <2>1, <2>2, <2>3 DEF ForwardInv
<1>6. CASE SetNil(s)
  <2>1. s \in Dialed
    BY <1>0, <1>6 DEF SetNil, SocketsKept, ForwardTypes
  <2>2. ForwardTypes'
    BY <1>0, <1>6, <2>1 DEF SetNil, ForwardTypes, mainVars, Dialed
  <2>3. SocketsKept'
    BY <1>0, <1>6 DEF SetNil, ForwardTypes, SocketsKept, mainVars, Dialed
  <2>4. HasSession' /\ DownNeedsTimeout'
    BY <1>0, <1>1, <1>6 DEF SetNil, HasSession, DownNeedsTimeout, mainVars, Current
  <2> QED
    BY <2>2, <2>3, <2>4 DEF ForwardInv
<1>7. CASE IdleTick(s)
  <2>1. ForwardTypes'
    BY <1>0, <1>7 DEF IdleTick, ForwardTypes, mainVars, Dialed
  <2>2. SocketsKept'
    BY <1>0, <1>7 DEF IdleTick, ForwardTypes, SocketsKept, mainVars, Dialed
  <2>3. HasSession' /\ DownNeedsTimeout'
    BY <1>0, <1>1, <1>7 DEF IdleTick, HasSession, DownNeedsTimeout, mainVars, Current
  <2> QED
    BY <2>1, <2>2, <2>3 DEF ForwardInv
<1>8. CASE Expire(s)
  <2>1. ForwardTypes'
    BY <1>0, <1>8 DEF Expire, ForwardTypes, mainVars, Dialed
  <2>2. SocketsKept'
    BY <1>0, <1>8 DEF Expire, ForwardTypes, SocketsKept, mainVars, Dialed
  <2>3. HasSession' /\ DownNeedsTimeout'
    BY <1>0, <1>1, <1>8 DEF Expire, HasSession, DownNeedsTimeout, mainVars, Current
  <2> QED
    BY <2>1, <2>2, <2>3 DEF ForwardInv
<1>9. CASE ExpirePanics(s)
  <2>1. socketFailed
    <3>1. s \in Dialed /\ s \notin open /\ idler[s] # "gone"
      BY <1>0, <1>9 DEF ExpirePanics, ForwardTypes, SocketsKept
    <3> QED
      BY <1>0, <3>1 DEF SocketsKept
  <2>2. ForwardTypes'
    BY <1>0, <1>9 DEF ExpirePanics, ForwardTypes, Dialed
  <2>3. SocketsKept' /\ HasSession' /\ DownNeedsTimeout'
    BY <1>0, <1>9, <2>1 DEF ExpirePanics, SocketsKept, HasSession, DownNeedsTimeout, Dialed
  <2> QED
    BY <2>2, <2>3 DEF ForwardInv
<1> QED
  BY <1>2, <1>3, <1>4, <1>5, <1>6, <1>7, <1>8, <1>9 DEF SessionSteps

\* Of any number of peers and sessions: no peer has two sockets, however its sessions are
\* replaced while they close, and no data race on serverConn takes the proxy down unless
\* a socket failed of itself or the peer's session had just timed out (68-88, 95-108).
THEOREM ProxySound == ForwardInit /\ [][ForwardNext]_forwardVars => []ConnectionsSound
<1>1. ForwardInv => ConnectionsSound
  BY DEF ForwardInv, SocketsKept, ConnectionsSound, OneSocketPerPeer
<1>2. ForwardInv /\ [ForwardNext]_forwardVars => ForwardInv'
  <2> SUFFICES ASSUME ForwardInv, [ForwardNext]_forwardVars PROVE ForwardInv'
    OBVIOUS
  <2>1. CASE \E p \in Senders : ReceiveFrom(p)
    BY <2>1, MainForwardInv
  <2>2. CASE MainSteps
    <3>1. PICK p \in Senders : TRUE
      BY ForwardAssumption
    <3> QED
      BY <2>2, <3>1, MainForwardInv
  <2>3. CASE \E s \in ConnId : Answer(s) \/ ReadFails(s) \/ SessionSteps(s)
    BY <2>3, SessionForwardInv
  <2>4. CASE UNCHANGED forwardVars
    BY <2>4 DEF forwardVars, mainVars, ForwardInv, ForwardTypes, SocketsKept, HasSession,
                DownNeedsTimeout, Current, Dialed
  <2> QED
    BY <2>1, <2>2, <2>3, <2>4 DEF ForwardNext
<1> QED
  BY <1>1, <1>2, InitForwardInv, PTL

-----------------------------------------------------------------------------
(* The handshake.                                                           *)

NonceTypes ==
    /\ client \in [Hosts -> {"off", "challenge", "mac", "ok", "failed"}]
    /\ accepted \in [Hosts -> SessId \union {NoSess}]
    /\ toServer \subseteq Hosts \X Body
    /\ toClient \subseteq Hosts \X {"challenge", "mac"} \X SessId
    /\ sessMap \in [Hosts -> SessId \union {NoSess}]
    /\ handing # <<>> => handing \in Existing \X Body
    /\ host \in Seq(Hosts) /\ Len(host) <= MaxSess
    /\ recv \in [SessId -> Seq(Body)]
    /\ sess \in [SessId -> {"nonce", "response", "ok", "failed"}]

\* The map leads to a session of the client; sessions not started have done nothing.
HostsKept ==
    /\ \A h \in Hosts : sessMap[h] # NoSess => sessMap[h] \in Existing /\ host[sessMap[h]] = h
    /\ \A s \in SessId \ Existing : recv[s] = <<>> /\ sess[s] = "nonce"

\* A response, wherever it is on its way, is to the challenge that its client took, and
\* a client takes one challenge.
Responded(h, b) == b \in SessId => accepted[h] = b

ResponsesOwn ==
    /\ \A h \in Hosts : client[h] \in {"off", "challenge"} => accepted[h] = NoSess
    /\ \A h \in Hosts, b \in Body : <<h, b>> \in toServer => Responded(h, b)
    /\ handing # <<>> => Responded(host[handing[1]], handing[2])
    /\ \A s \in Existing : \A i \in 1 .. Len(recv[s]) : Responded(host[s], recv[s][i])

\* The HMAC that ends a handshake comes from a session that has accepted.
MacsGenuine ==
    \A h \in Hosts, s \in SessId : <<h, "mac", s>> \in toClient => sess[s] = "ok"

NonceInv ==
    NonceTypes /\ HostsKept /\ ResponsesOwn /\ MacsGenuine /\ SessionsGenuine /\ ClientsGenuine

LEMMA InitNonceInv == NonceInit => NonceInv
<1> SUFFICES ASSUME NonceInit PROVE NonceInv
  OBVIOUS
<1>1. NonceTypes
  BY NonceAssumption DEF NonceInit, NonceTypes, Existing, Body, Nonce
<1>2. HostsKept /\ ResponsesOwn /\ MacsGenuine
  BY NonceAssumption DEF NonceInit, HostsKept, ResponsesOwn, Responded, MacsGenuine, Existing
<1>3. SessionsGenuine /\ ClientsGenuine
  BY DEF NonceInit, SessionsGenuine, ClientsGenuine, Existing
<1> QED
  BY <1>1, <1>2, <1>3 DEF NonceInv

\* The dispatcher hands a datagram to a session of the client it came from.
LEMMA DispatchNonceInv ==
    ASSUME NonceInv, NEW h \in Hosts, NEW b \in Body, Dispatch(h, b)
    PROVE  NonceInv'
<1> USE NonceAssumption
<1>0. NonceTypes /\ HostsKept /\ ResponsesOwn /\ MacsGenuine /\ SessionsGenuine /\ ClientsGenuine
  BY DEF NonceInv
<1>1. /\ <<h, b>> \in toServer /\ toServer' \subseteq toServer
      /\ handing' = <<sessMap'[h], b>> /\ handing' # <<>>
      /\ UNCHANGED <<client, accepted, toClient, recv, sess, first, lostAny>>
  BY DEF Dispatch, From
<1>2. Responded(h, b)
  BY <1>0, <1>1 DEF ResponsesOwn
<1>3. /\ host' \in Seq(Hosts) /\ Len(host') <= MaxSess /\ Existing \subseteq Existing'
      /\ \A s \in Existing : host'[s] = host[s]
      /\ \A s \in Existing' \ Existing : s \in SessId
      /\ sessMap'[h] \in Existing' /\ host'[sessMap'[h]] = h
      /\ \A g \in Hosts \ {h} : sessMap'[g] = sessMap[g]
      /\ sessMap' \in [Hosts -> SessId \union {NoSess}]
  <2>0. Len(host) \in Nat /\ host \in Seq(Hosts)
    BY <1>0 DEF NonceTypes
  <2>1. CASE sessMap[h] = NoSess
    <3>1. /\ Len(host) < MaxSess /\ host' = Append(host, h)
          /\ sessMap' = [sessMap EXCEPT ![h] = Len(host')]
      BY <2>1 DEF Dispatch
    <3>2. /\ host' \in Seq(Hosts) /\ Len(host') = Len(host) + 1 /\ host'[Len(host) + 1] = h
          /\ \A s \in 1 .. Len(host) : host'[s] = host[s]
      BY <2>0, <3>1
    <3>3. Existing' = 1 .. Len(host) + 1
      BY <3>2 DEF Existing
    <3>4. /\ \A s \in 1 .. Len(host) + 1 : s \in SessId
          /\ Len(host) + 1 \in 1 .. Len(host) + 1 /\ 1 .. Len(host) \subseteq 1 .. Len(host) + 1
          /\ Len(host) + 1 <= MaxSess
      BY <2>0, <3>1 DEF SessId
    <3>5. /\ sessMap'[h] = Len(host) + 1 /\ \A g \in Hosts \ {h} : sessMap'[g] = sessMap[g]
          /\ sessMap' \in [Hosts -> SessId \union {NoSess}]
      BY <1>0, <3>1, <3>2, <3>4 DEF NonceTypes
    <3> QED
      BY <3>2, <3>3, <3>4, <3>5 DEF Existing
  <2>2. CASE sessMap[h] # NoSess
    BY <1>0, <2>0, <2>2 DEF Dispatch, HostsKept, NonceTypes, Existing
  <2> QED
    BY <2>1, <2>2
<1>4. NonceTypes'
  BY <1>0, <1>1, <1>3 DEF NonceTypes
<1>5. HostsKept'
  BY <1>0, <1>1, <1>3 DEF HostsKept
<1>6. ResponsesOwn'
  <2>1. handing'[1] = sessMap'[h] /\ handing'[2] = b
    BY <1>1
  <2>2. Responded(host[handing[1]], handing[2])'
    <3>1. host'[handing'[1]] = h /\ accepted' = accepted
      BY <1>1, <1>3, <2>1
    <3> QED
      BY <1>2, <2>1, <3>1 DEF Responded
  <2>3. ASSUME NEW s \in Existing', NEW i \in 1 .. Len(recv[s])
        PROVE  Responded(host'[s], recv[s][i])
    <3>1. s \in Existing
      <4>1. Len(<<>>) = 0
        OBVIOUS
      <4> QED
        BY <1>0, <1>3, <2>3, <4>1 DEF HostsKept
    <3> QED
      BY <1>0, <1>3, <3>1 DEF ResponsesOwn
  <2> QED
    BY <1>0, <1>1, <2>2, <2>3 DEF ResponsesOwn, Responded
<1>7. MacsGenuine' /\ ClientsGenuine'
  BY <1>0, <1>1 DEF MacsGenuine, ClientsGenuine
<1>8. SessionsGenuine'
  BY <1>0, <1>1, <1>3 DEF SessionsGenuine, HostsKept
<1> QED
  BY <1>4, <1>5, <1>6, <1>7, <1>8 DEF NonceInv

\* The rest of the dispatcher's work and that of the sessions.
LEMMA ServerNonceInv ==
    ASSUME NonceInv, NEW s \in Existing, HandOver \/ Challenge(s) \/ Verify(s) \/ Forget(s)
    PROVE  NonceInv'
<1> USE NonceAssumption
<1>0. NonceTypes /\ HostsKept /\ ResponsesOwn /\ MacsGenuine /\ SessionsGenuine /\ ClientsGenuine
  BY DEF NonceInv
<1>1. \A x \in Existing : x \in SessId /\ host[x] \in Hosts
  BY <1>0 DEF NonceTypes, Existing, SessId
<1>2. CASE HandOver
  <2> PICK x, b : x = handing[1] /\ b = handing[2]
    OBVIOUS
  <2>1. x \in Existing /\ b \in Body /\ Responded(host[x], b)
    BY <1>0, <1>2 DEF HandOver, NonceTypes, ResponsesOwn
  <2>2. /\ recv' = [recv EXCEPT ![x] = Append(@, b)] /\ handing' = <<>>
        /\ UNCHANGED <<client, accepted, toServer, toClient, sessMap, host, sess, first,
                       copies, lostAny>>
    BY <1>2 DEF HandOver
  <2>3. recv' \in [SessId -> Seq(Body)]
    BY <1>0, <1>1, <2>1, <2>2 DEF NonceTypes
  <2>4. NonceTypes' /\ MacsGenuine' /\ ClientsGenuine' /\ SessionsGenuine'
    BY <1>0, <2>2, <2>3 DEF NonceTypes, MacsGenuine, ClientsGenuine, SessionsGenuine, Existing
  <2>5. HostsKept'
    BY <1>0, <1>1, <2>1, <2>2 DEF HostsKept, NonceTypes, Existing
  <2>6. ASSUME NEW y \in Existing, NEW i \in 1 .. Len(recv'[y])
        PROVE  Responded(host[y], recv'[y][i])
    <3>1. CASE y = x
      <4>1. recv'[x] = Append(recv[x], b) /\ recv[x] \in Seq(Body)
        BY <1>0, <1>1, <2>1, <2>2 DEF NonceTypes
      <4>2. i \in 1 .. Len(recv[x]) \/ recv'[x][i] = b
        BY <2>1, <2>6, <3>1, <4>1
      <4>3. i \in 1 .. Len(recv[x]) => recv'[x][i] = recv[x][i]
        BY <2>1, <4>1
      <4> QED
        BY <1>0, <2>1, <3>1, <4>2, <4>3 DEF ResponsesOwn
    <3>2. CASE y # x
      <4>1. recv'[y] = recv[y]
        BY <1>0, <1>1, <2>2, <3>2 DEF NonceTypes
      <4> QED
        BY <1>0, <2>6, <4>1 DEF ResponsesOwn
    <3> QED
      BY <3>1, <3>2
  <2>7. ResponsesOwn'
    BY <1>0, <2>2, <2>6 DEF ResponsesOwn, Responded, Existing
  <2> QED
    BY <2>4, <2>5, <2>7 DEF NonceInv
<1>3. ASSUME NEW st \in {"response", "ok", "failed"}, Takes(s, st), sess[s] \in {"nonce", "response"},
             toClient' \subseteq Hosts \X {"challenge", "mac"} \X SessId,
             \A h \in Hosts, x \in SessId :
                 <<h, "mac", x>> \in toClient' => sess'[x] = "ok",
             st = "ok" => accepted[host[s]] = s
      PROVE  NonceInv'
  <2>1. /\ recv[s] # <<>> /\ recv' = [recv EXCEPT ![s] = Tail(@)]
        /\ sess' = [sess EXCEPT ![s] = st]
        /\ UNCHANGED <<client, accepted, toServer, sessMap, handing, host, copies, lostAny>>
    BY <1>3 DEF Takes
  <2>2. recv[s] \in Seq(Body) /\ Tail(recv[s]) \in Seq(Body) /\ recv'[s] = Tail(recv[s])
    BY <1>0, <1>1, <2>1, HeadTailProperties DEF NonceTypes
  <2>3. recv' \in [SessId -> Seq(Body)]
    BY <1>0, <2>1, <2>2 DEF NonceTypes
  <2>4. NonceTypes'
    BY <1>0, <1>3, <2>1, <2>3 DEF NonceTypes, Existing
  <2>5. HostsKept'
    BY <1>0, <2>1 DEF HostsKept, NonceTypes, Existing
  <2>6. ASSUME NEW y \in Existing, NEW i \in 1 .. Len(recv'[y])
        PROVE  Responded(host[y], recv'[y][i])
    <3>1. CASE y = s
      <4>1. i + 1 \in 1 .. Len(recv[s]) /\ recv'[s][i] = recv[s][i + 1]
        <5>1. /\ Len(Tail(recv[s])) = Len(recv[s]) - 1 /\ Len(recv[s]) \in Nat
              /\ \A j \in 1 .. Len(Tail(recv[s])) : Tail(recv[s])[j] = recv[s][j + 1]
          BY <2>1, <2>2, HeadTailProperties
        <5>2. i \in 1 .. Len(recv[s]) - 1
          BY <2>2, <2>6, <3>1, <5>1
        <5>3. i + 1 \in 1 .. Len(recv[s])
          BY <5>1, <5>2
        <5> QED
          BY <2>2, <5>1, <5>2, <5>3
      <4> QED
        BY <1>0, <3>1, <4>1 DEF ResponsesOwn
    <3>2. CASE y # s
      <4>1. recv'[y] = recv[y]
        BY <1>0, <1>1, <2>1, <3>2 DEF NonceTypes
      <4> QED
        BY <1>0, <2>6, <4>1 DEF ResponsesOwn
    <3> QED
      BY <3>1, <3>2
  <2>7. ResponsesOwn'
    BY <1>0, <2>1, <2>6 DEF ResponsesOwn, Responded, Existing
  <2>8. MacsGenuine'
    BY <1>3 DEF MacsGenuine
  <2>9. ClientsGenuine'
    <3> SUFFICES ASSUME NEW h \in Hosts, client[h] = "ok" PROVE sess'[accepted[h]] = "ok"
      BY <2>1 DEF ClientsGenuine
    <3>1. sess[accepted[h]] = "ok" /\ accepted[h] # s
      BY <1>0, <1>3 DEF ClientsGenuine
    <3>2. accepted[h] \in SessId \/ accepted[h] = NoSess
      BY <1>0 DEF NonceTypes
    <3> QED
      BY <1>0, <2>1, <3>1, <3>2 DEF NonceTypes
  <2>10. SessionsGenuine'
    BY <1>0, <1>1, <1>3, <2>1 DEF SessionsGenuine, NonceTypes, Existing
  <2> QED
    BY <2>4, <2>5, <2>7, <2>8, <2>9, <2>10 DEF NonceInv
<1>4. CASE Challenge(s)
  <2>1. /\ sess[s] = "nonce" /\ Takes(s, "response")
        /\ toClient' = toClient \union {<<host[s], "challenge", s>>}
    BY <1>4 DEF Challenge
  <2>2. toClient' \subseteq Hosts \X {"challenge", "mac"} \X SessId
    BY <1>0, <1>1, <2>1 DEF NonceTypes
  <2>3. sess' = [sess EXCEPT ![s] = "response"]
    BY <2>1 DEF Takes
  <2>4. ASSUME NEW h \in Hosts, NEW x \in SessId, <<h, "mac", x>> \in toClient'
        PROVE  sess'[x] = "ok"
    <3>1. <<h, "mac", x>> \in toClient
      BY <2>1, <2>4
    <3>2. sess[x] = "ok"
      BY <1>0, <3>1 DEF MacsGenuine
    <3> QED
      BY <1>0, <2>1, <2>3, <3>2 DEF NonceTypes
  <2> QED
    BY <1>3, <2>1, <2>2, <2>4
<1>5. CASE Verify(s)
  <2> PICK st \in {"ok", "failed"} : st = IF Right(s, Head(recv[s])) THEN "ok" ELSE "failed"
    OBVIOUS
  <2>1. sess[s] = "response" /\ Takes(s, st)
    BY <1>5 DEF Verify
  <2>2. sess' = [sess EXCEPT ![s] = st] /\ sess'[s] = st /\ recv[s] # <<>>
    BY <1>0, <1>1, <2>1 DEF Takes, NonceTypes
  <2>3. toClient' = IF st = "ok" THEN toClient \union {<<host[s], "mac", s>>} ELSE toClient
    BY <1>5, <2>2 DEF Verify
  <2>4. toClient' \subseteq Hosts \X {"challenge", "mac"} \X SessId
    BY <1>0, <1>1, <2>3 DEF NonceTypes
  <2>5. ASSUME NEW h \in Hosts, NEW x \in SessId, <<h, "mac", x>> \in toClient'
        PROVE  sess'[x] = "ok"
    <3>1. CASE <<h, "mac", x>> \in toClient
      <4>1. sess[x] = "ok"
        BY <1>0, <3>1 DEF MacsGenuine
      <4> QED
        BY <1>0, <2>1, <2>2, <4>1 DEF NonceTypes
    <3>2. CASE <<h, "mac", x>> \notin toClient
      BY <2>2, <2>3, <2>5, <3>2
    <3> QED
      BY <3>1, <3>2
  <2>6. ASSUME st = "ok" PROVE accepted[host[s]] = s
    <3>1. Head(recv[s]) = s
      BY <2>6 DEF Right
    <3>2. 1 \in 1 .. Len(recv[s]) /\ recv[s][1] = Head(recv[s])
      <4>1. recv[s] \in Seq(Body)
        BY <1>0, <1>1 DEF NonceTypes
      <4>2. Len(recv[s]) \in Nat /\ Len(recv[s]) # 0
        BY <2>2, <4>1, EmptySeq
      <4> QED
        BY <4>1, <4>2
    <3>3. Responded(host[s], s)
      BY <1>0, <3>1, <3>2 DEF ResponsesOwn
    <3> QED
      BY <1>1, <3>3 DEF Responded
  <2> QED
    BY <1>3, <2>1, <2>4, <2>5, <2>6
<1>6. CASE Forget(s)
  <2>1. /\ sessMap' = [sessMap EXCEPT ![host[s]] = NoSess]
        /\ UNCHANGED <<client, accepted, toServer, toClient, handing, host, recv, sess, first,
                       copies, lostAny>>
    BY <1>6 DEF Forget
  <2>2. HostsKept'
    BY <1>0, <2>1 DEF HostsKept, Existing
  <2>3. NonceTypes'
    BY <1>0, <2>1 DEF NonceTypes, Existing
  <2>4. ResponsesOwn' /\ MacsGenuine' /\ SessionsGenuine' /\ ClientsGenuine'
    BY <1>0, <2>1 DEF ResponsesOwn, Responded, MacsGenuine, SessionsGenuine, ClientsGenuine,
                      Existing
  <2> QED
    BY <2>2, <2>3, <2>4 DEF NonceInv
<1> QED
  BY <1>2, <1>4, <1>5, <1>6

\* A client answers one challenge, and trusts the HMAC of that session only.
LEMMA ClientNonceInv ==
    ASSUME NonceInv, NEW h \in Hosts, ClientSteps(h) \/ LoseDatagram
    PROVE  NonceInv'
<1> USE NonceAssumption
<1>0. NonceTypes /\ HostsKept /\ ResponsesOwn /\ MacsGenuine /\ SessionsGenuine /\ ClientsGenuine
  BY DEF NonceInv
<1>1. UNCHANGED <<sessMap, handing, host, recv, sess, first>>
  BY DEF ClientSteps, Begin, OnChallenge, OnMac, LoseDatagram
<1>2. HostsKept'
  BY <1>0, <1>1 DEF HostsKept, Existing
<1>3. \A s \in Existing : host[s] \in Hosts /\ s \in SessId
  BY <1>0 DEF NonceTypes, Existing, SessId
<1>4. CASE Begin(h)
  <2>1. /\ client[h] = "off" /\ client' = [client EXCEPT ![h] = "challenge"]
        /\ toServer' = toServer \union {<<h, Nonce>>}
        /\ UNCHANGED <<accepted, toClient>>
    BY <1>4 DEF Begin
  <2>2. Nonce \in Body /\ Nonce \notin SessId
    BY DEF Nonce, Body, SessId
  <2>3. NonceTypes'
    BY <1>0, <1>1, <2>1, <2>2 DEF NonceTypes, Existing
  <2>4. ResponsesOwn'
    BY <1>0, <1>1, <2>1, <2>2 DEF ResponsesOwn, Responded, NonceTypes, Existing
  <2>5. MacsGenuine' /\ SessionsGenuine' /\ ClientsGenuine'
    BY <1>0, <1>1, <2>1 DEF MacsGenuine, SessionsGenuine, ClientsGenuine, NonceTypes, Existing
  <2> QED
    BY <1>2, <2>3, <2>4, <2>5 DEF NonceInv
<1>5. ASSUME NEW s \in SessId, OnChallenge(h, s) PROVE NonceInv'
  <2>1. toClient' \subseteq toClient
    BY <1>5 DEF OnChallenge, From
  <2>2. MacsGenuine'
    BY <1>0, <1>1, <2>1 DEF MacsGenuine
  <2>3. CASE client[h] = "challenge"
    <3>1. /\ client' = [client EXCEPT ![h] = "mac"]
          /\ accepted' = [accepted EXCEPT ![h] = s]
          /\ toServer' = toServer \union {<<h, s>>}
      BY <1>5, <2>3 DEF OnChallenge
    <3>2. s \in Body /\ accepted[h] = NoSess /\ NoSess \notin SessId
      BY <1>0, <2>3 DEF Body, ResponsesOwn
    <3>3. NonceTypes'
      BY <1>0, <1>1, <2>1, <3>1, <3>2 DEF NonceTypes, Existing
    <3>4. \A g \in Hosts, b \in Body : Responded(g, b) => Responded(g, b)'
      BY <1>0, <3>1, <3>2 DEF Responded, NonceTypes
    <3>5. ASSUME NEW g \in Hosts, NEW b \in Body, <<g, b>> \in toServer'
          PROVE  Responded(g, b)'
      <4>1. CASE <<g, b>> = <<h, s>>
        BY <1>0, <3>1, <4>1 DEF Responded, NonceTypes
      <4>2. CASE <<g, b>> # <<h, s>>
        <5>1. <<g, b>> \in toServer
          BY <3>1, <3>5, <4>2
        <5> QED
          BY <1>0, <3>4, <5>1 DEF ResponsesOwn
      <4> QED
        BY <4>1, <4>2
    <3>6. handing # <<>> => Responded(host[handing[1]], handing[2])'
      <4> SUFFICES ASSUME handing # <<>> PROVE Responded(host[handing[1]], handing[2])'
        OBVIOUS
      <4>1. handing[1] \in Existing /\ handing[2] \in Body
        BY <1>0 DEF NonceTypes
      <4>2. Responded(host[handing[1]], handing[2])
        BY <1>0 DEF ResponsesOwn
      <4>3. host[handing[1]] \in Hosts
        BY <1>3, <4>1
      <4>4. handing' = handing /\ host' = host
        BY <1>1
      <4> QED
        BY <1>0, <3>1, <3>2, <4>1, <4>2, <4>3, <4>4 DEF Responded, NonceTypes
    <3>7. ASSUME NEW x \in Existing, NEW i \in 1 .. Len(recv[x])
          PROVE  Responded(host[x], recv[x][i])'
      <4>1. Responded(host[x], recv[x][i]) /\ host[x] \in Hosts
        BY <1>0, <1>3, <3>7 DEF ResponsesOwn
      <4> QED
        BY <1>0, <1>1, <3>1, <3>2, <4>1 DEF Responded, NonceTypes
    <3>8. \A g \in Hosts : client'[g] \in {"off", "challenge"} => accepted'[g] = NoSess
      BY <1>0, <3>1 DEF ResponsesOwn, NonceTypes
    <3>9. ResponsesOwn'
      BY <1>1, <3>5, <3>6, <3>7, <3>8 DEF ResponsesOwn, Responded, Existing
    <3>10. SessionsGenuine'
      BY <1>0, <1>1, <1>3, <3>1, <3>2 DEF SessionsGenuine, NonceTypes, Existing
    <3>11. ClientsGenuine'
      BY <1>0, <1>1, <3>1 DEF ClientsGenuine, NonceTypes
    <3> QED
      BY <1>2, <2>2, <3>3, <3>9, <3>10, <3>11 DEF NonceInv
  <2>4. CASE client[h] # "challenge"
    <3>1. /\ client' = [client EXCEPT ![h] = IF @ = "mac" THEN "failed" ELSE @]
          /\ UNCHANGED <<accepted, toServer>>
      BY <1>5, <2>4 DEF OnChallenge
    <3>2. NonceTypes'
      BY <1>0, <1>1, <2>1, <3>1 DEF NonceTypes, Existing
    <3>3. ResponsesOwn' /\ SessionsGenuine' /\ ClientsGenuine'
      BY <1>0, <1>1, <3>1 DEF ResponsesOwn, Responded, SessionsGenuine, ClientsGenuine,
                              NonceTypes, Existing
    <3> QED
      BY <1>2, <2>2, <3>2, <3>3 DEF NonceInv
  <2> QED
    BY <2>3, <2>4
<1>6. ASSUME NEW s \in SessId, OnMac(h, s) PROVE NonceInv'
  <2>1. /\ <<h, "mac", s>> \in toClient /\ toClient' \subseteq toClient
        /\ UNCHANGED <<accepted, toServer>>
    BY <1>6 DEF OnMac, From
  <2>2. PICK r \in {"ok", "failed"} :
          /\ client' = [client EXCEPT ![h] = r]
          /\ r = "ok" => client[h] = "ok" \/ accepted[h] = s
    BY <1>0, <1>6 DEF OnMac, NonceTypes
  <2>3. NonceTypes' /\ MacsGenuine'
    BY <1>0, <1>1, <2>1, <2>2 DEF NonceTypes, MacsGenuine, Existing
  <2>4. ResponsesOwn' /\ SessionsGenuine'
    BY <1>0, <1>1, <2>1, <2>2 DEF ResponsesOwn, Responded, SessionsGenuine, NonceTypes, Existing
  <2>5. sess[s] = "ok"
    BY <1>0, <2>1 DEF MacsGenuine
  <2>6. ClientsGenuine'
    BY <1>0, <1>1, <2>1, <2>2, <2>5 DEF ClientsGenuine, NonceTypes
  <2> QED
    BY <1>2, <2>3, <2>4, <2>6 DEF NonceInv
<1>7. CASE LoseDatagram
  <2>1. /\ toServer' \subseteq toServer /\ toClient' \subseteq toClient
        /\ UNCHANGED <<client, accepted>>
    BY <1>7 DEF LoseDatagram
  <2>2. NonceTypes' /\ MacsGenuine' /\ SessionsGenuine' /\ ClientsGenuine'
    BY <1>0, <1>1, <2>1 DEF NonceTypes, MacsGenuine, SessionsGenuine, ClientsGenuine, Existing
  <2>3. ResponsesOwn'
    BY <1>0, <1>1, <2>1 DEF ResponsesOwn, Responded, Existing
  <2> QED
    BY <1>2, <2>2, <2>3 DEF NonceInv
<1> QED
  BY <1>4, <1>5, <1>6, <1>7 DEF ClientSteps

\* Of any number of clients, sessions and repeated datagrams: a session that ends well is
\* the one whose challenge its client answered, so repeated datagrams make no second one,
\* and a client ends well only with a session that did (161-187, 207-236).
THEOREM HandshakeGenuine ==
    NonceInit /\ [][NonceNext]_nonceVars => [](SessionsGenuine /\ ClientsGenuine)
<1>1. NonceInv => SessionsGenuine /\ ClientsGenuine
  BY DEF NonceInv
<1>2. NonceInv /\ [NonceNext]_nonceVars => NonceInv'
  <2> SUFFICES ASSUME NonceInv, [NonceNext]_nonceVars PROVE NonceInv'
    OBVIOUS
  <2>1. CASE HandOver
    <3>1. \E s \in Existing : TRUE
      BY <2>1 DEF NonceInv, NonceTypes, HandOver
    <3> QED
      BY <2>1, <3>1, ServerNonceInv
  <2>2. CASE \E h \in Hosts : \E b \in Body : Dispatch(h, b)
    BY <2>2, DispatchNonceInv
  <2>3. CASE \E s \in Existing : Challenge(s) \/ Verify(s) \/ Forget(s)
    BY <2>3, ServerNonceInv
  <2>4. CASE LoseDatagram \/ \E h \in Hosts : ClientSteps(h)
    BY <2>4, ClientNonceInv, NonceAssumption
  <2>5. CASE UNCHANGED nonceVars
    BY <2>5 DEF nonceVars, NonceInv, NonceTypes, HostsKept, ResponsesOwn, Responded, MacsGenuine,
                SessionsGenuine, ClientsGenuine, Existing
  <2> QED
    BY <2>1, <2>2, <2>3, <2>4, <2>5 DEF NonceNext, ServerSteps
<1> QED
  BY <1>1, <1>2, InitNonceInv, PTL
=============================================================================
