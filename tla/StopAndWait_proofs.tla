-------------------------- MODULE StopAndWait_proofs --------------------------
(***************************************************************************)
(* Proofs about StopAndWait, for every value of its constants: any cookies *)
(* (even equal ones), any number of Acks, any bound on the pending writers *)
(* and any order in which they win the pipe.                               *)
(***************************************************************************)
EXTENDS StopAndWait, TLAPS

\* The inductive invariant.  Agreement alone is not inductive: a message that
\* its sender had not earned would let the receiver run ahead.
IInv == TypeOK /\ Agreement /\ NoPrematureMessage

\* The initial state satisfies the invariant: nothing but the first
\* ClientHello is on its way (onStart of the client, 250).
LEMMA InitIInv == Init => IInv
<1> SUFFICES ASSUME Init PROVE IInv
  OBVIOUS
<1> USE ConstantsAssumption DEF Init
<1>1. TypeOK
  BY DEF TypeOK, Side, States, Cookie, Period, Message, Tag, Msg, ClientHello
<1>2. Agreement
  BY DEF Agreement, CookiesAgree, Side
<1>3. NoPrematureMessage
  BY DEF NoPrematureMessage, InTransit, Earned, Side
<1> QED
  BY <1>1, <1>2, <1>3 DEF IInv

-----------------------------------------------------------------------------
\* The messages the two sides write are messages.
LEMMA MessagesOK ==
    /\ ClientHello \in Message /\ ServerHello \in Message /\ Ack \in Message
    /\ \A c \in Cookie : Msg("Auth", c) \in Message
BY DEF ClientHello, ServerHello, Ack, Msg, Message, Tag, Cookie

\* A reader (unreliable_reader.go) only moves messages along or loses them:
\* nothing comes into being, and nothing but the channel state changes.
LEMMA ReadMoves ==
    ASSUME TypeOK, NEW s \in Side, Read(s)
    PROVE  /\ TypeOK'
           /\ UNCHANGED <<ordered, st, learned>>
           /\ \A t \in Side, m \in Message : InTransit(t, m)' => InTransit(t, m)
<1> USE ConstantsAssumption DEF TypeOK, InTransit
<1>0. Tick(counter[s]) \in 0 .. Period - 1
  BY DEF Tick, Period
<1>1. CASE ReadPass(s)
  <2> PICK m \in Message : Take(s, m) /\ held' = [held EXCEPT ![s] = m] /\ UNCHANGED delay
    BY <1>1 DEF ReadPass
  <2>1. m \in Message /\ pending[s][m] > 0
    BY DEF Take, Available
  <2> QED
    BY <2>1, <1>0 DEF Take
<1>2. CASE ReadDrop(s)
  <2> PICK m \in Message : Take(s, m) /\ UNCHANGED <<delay, held>>
    BY <1>2 DEF ReadDrop
  <2>1. m \in Message /\ pending[s][m] > 0
    BY DEF Take, Available
  <2> QED
    BY <2>1, <1>0 DEF Take
<1>3. CASE ReadStore(s)
  <2> PICK m \in Message : Take(s, m) /\ delay' = [delay EXCEPT ![s] = m] /\ UNCHANGED held
    BY <1>3 DEF ReadStore
  <2>1. m \in Message /\ pending[s][m] > 0
    BY DEF Take, Available
  <2> QED
    BY <2>1, <1>0 DEF Take
<1>4. CASE ReadDelayed(s)
  BY <1>4, <1>0 DEF ReadDelayed, Returns
<1> QED
  BY <1>1, <1>2, <1>3, <1>4 DEF Read

\* Taking a message off sess.recv and leaving the rest of the channel alone.
LEMMA ReceiveOK ==
    ASSUME TypeOK, NEW s \in Side, NEW q, Receive(s, q)
    PROVE  /\ held[s] \in Message /\ InTransit(s, held[s])
           /\ held' \in [Side -> Message \union {NoMsg}]
           /\ counter' \in [Side -> 0 .. Period - 1]
           /\ delay' \in [Side -> Message \union {NoMsg}]
           /\ \A t \in Side : \A m \in Message : held'[t] = m => held[t] = m
           /\ UNCHANGED <<ordered, counter, delay>>
BY ConstantsAssumption DEF TypeOK, Receive, InTransit

\* `go w.Write` puts one message on its way, and no other.
LEMMA WriteOK ==
    ASSUME TypeOK, NEW t \in Side, NEW m \in Message, NEW n \in Nat, Write(t, m, n)
    PROVE  /\ pending' \in [Side -> [Message -> Nat]]
           /\ \A u \in Side : \A o \in Message :
                 pending'[u][o] > 0 => pending[u][o] > 0 \/ (u = t /\ o = m)
BY DEF TypeOK, Write

\* Every step keeps the invariant.  The receive steps use NoPrematureMessage to
\* learn how far the sender is; the write steps re-establish it.
LEMMA StepIInv == IInv /\ [Next]_vars => IInv'
<1> SUFFICES ASSUME IInv, [Next]_vars PROVE IInv'
  OBVIOUS
<1> USE ConstantsAssumption, MessagesOK
<1>0. TypeOK /\ Agreement /\ CookiesAgree /\ NoPrematureMessage
  BY DEF IInv, Agreement
<1>1. ASSUME NEW s \in Side, Read(s) PROVE IInv'
  <2>1. /\ TypeOK'
        /\ UNCHANGED <<st, learned>>
        /\ \A t \in Side, m \in Message : InTransit(t, m)' => InTransit(t, m)
    BY <1>0, <1>1, ReadMoves
  <2>2. Agreement'
    BY <1>0, <2>1 DEF Agreement, CookiesAgree
  <2>3. NoPrematureMessage'
    BY <1>0, <2>1 DEF NoPrematureMessage, Earned, ClientHello, ServerHello, Ack
  <2> QED
    BY <2>1, <2>2, <2>3 DEF IInv
<1>2. CASE ServerOnStart
  <2>1. held["server"] \in Message /\ held["server"].tag = "ClientHello"
    BY <1>0, <1>2, ReceiveOK DEF ServerOnStart, Side
  <2>2. Earned("server", held["server"])
    BY <1>0, <1>2, ReceiveOK DEF ServerOnStart, Side, NoPrematureMessage
  <2>3. held["server"].cookie = ClientCookie /\ st["server"] = "Start" /\ st["client"] = "Start"
    BY <1>0, <1>2, <2>1, <2>2 DEF Earned, ClientHello, Ack, Msg, ServerOnStart, Receive, Agreement, TypeOK, States, Side
  <2>4. TypeOK'
    BY <1>0, <1>2, <2>3, ReceiveOK, WriteOK DEF ServerOnStart, Goto, TypeOK, Side, States, Cookie
  <2>5. Agreement'
    BY <1>0, <1>2, <2>3 DEF ServerOnStart, Goto, Agreement, CookiesAgree, TypeOK, Side
  <2>6. NoPrematureMessage'
    BY <1>0, <1>2, <2>3, ReceiveOK, WriteOK
       DEF ServerOnStart, Goto, TypeOK, Side, NoPrematureMessage, InTransit, Earned, ClientHello, ServerHello, Ack
  <2> QED
    BY <2>4, <2>5, <2>6 DEF IInv
<1>3. CASE ServerOnAuth
  <2>1. held["server"] \in Message /\ held["server"].tag = "Auth" /\ st["server"] = "AcceptClient"
    BY <1>0, <1>3, ReceiveOK DEF ServerOnAuth, Receive, Side
  <2>2. Earned("server", held["server"])
    BY <1>0, <1>3, ReceiveOK DEF ServerOnAuth, Side, NoPrematureMessage
  <2>3. held["server"].cookie = ServerCookie /\ st["client"] = "HelloDone"
    BY <1>0, <2>1, <2>2 DEF Earned, ClientHello, Ack, Msg, Agreement, TypeOK, States, Side
  <2>4. ServerAuth = Msg("Auth", ClientCookie) /\ ServerAuth \in Message
    BY <1>0, <2>1 DEF ServerAuth, CookiesAgree, Cookie
  <2>5. Write("client", Msg("Auth", ClientCookie), 1) /\ Goto("server", "HelloDone") /\ UNCHANGED learned
    BY <1>3, <2>3, <2>4 DEF ServerOnAuth
  <2>6. TypeOK'
    BY <1>0, <1>3, <2>4, <2>5, ReceiveOK, WriteOK DEF ServerOnAuth, Goto, TypeOK, Side, States
  <2>7. Agreement'
    BY <1>0, <2>1, <2>3, <2>5 DEF Goto, Agreement, CookiesAgree, TypeOK, Side
  <2>8. NoPrematureMessage'
    BY <1>0, <1>3, <2>1, <2>4, <2>5, ReceiveOK, WriteOK
       DEF ServerOnAuth, Goto, TypeOK, Side, NoPrematureMessage, InTransit, Earned, ClientHello, ServerHello, Ack
  <2> QED
    BY <2>6, <2>7, <2>8 DEF IInv
<1>4. CASE ServerOnAck
  <2>1. held["server"] \in Message /\ held["server"].tag = "Ack" /\ st["server"] = "HelloDone"
    BY <1>0, <1>4, ReceiveOK DEF ServerOnAck, Receive, Side
  <2>2. Earned("server", held["server"])
    BY <1>0, <1>4, ReceiveOK DEF ServerOnAck, Side, NoPrematureMessage
  <2>3. st["client"] = "End"
    BY <2>1, <2>2 DEF Earned, ClientHello, Msg
  <2>4. TypeOK'
    BY <1>0, <1>4, ReceiveOK DEF ServerOnAck, Goto, TypeOK, Side, States
  <2>5. Agreement'
    BY <1>0, <1>4, <2>1, <2>3 DEF ServerOnAck, Goto, Agreement, CookiesAgree, TypeOK, Side
  <2>6. NoPrematureMessage'
    BY <1>0, <1>4, <2>1, ReceiveOK
       DEF ServerOnAck, Goto, TypeOK, Side, NoPrematureMessage, InTransit, Earned, ClientHello, ServerHello, Ack
  <2> QED
    BY <2>4, <2>5, <2>6 DEF IInv
<1>5. CASE ClientOnHello
  <2>1. held["client"] \in Message /\ held["client"].tag = "ServerHello" /\ st["client"] = "Start"
    BY <1>0, <1>5, ReceiveOK DEF ClientOnHello, Receive, Side
  <2>2. Earned("client", held["client"])
    BY <1>0, <1>5, ReceiveOK DEF ClientOnHello, Side, NoPrematureMessage
  <2>3. held["client"].cookie = ServerCookie /\ st["server"] = "AcceptClient"
    BY <1>0, <2>1, <2>2 DEF Earned, ServerHello, Msg, Agreement, TypeOK, States, Side
  <2>4. Msg("Auth", ServerCookie) \in Message /\ Write("server", Msg("Auth", ServerCookie), 1)
    BY <1>5, <2>3 DEF ClientOnHello, Cookie
  <2>5. TypeOK'
    BY <1>0, <1>5, <2>3, <2>4, ReceiveOK, WriteOK DEF ClientOnHello, Goto, TypeOK, Side, States, Cookie
  <2>6. Agreement'
    BY <1>0, <1>5, <2>1, <2>3 DEF ClientOnHello, Goto, Agreement, CookiesAgree, TypeOK, Side
  <2>7. NoPrematureMessage'
    BY <1>0, <1>5, <2>1, <2>4, ReceiveOK, WriteOK
       DEF ClientOnHello, Goto, TypeOK, Side, NoPrematureMessage, InTransit, Earned, ClientHello, ServerHello, Ack
  <2> QED
    BY <2>5, <2>6, <2>7 DEF IInv
<1>6. CASE ClientOnAuth
  <2>1. held["client"] \in Message /\ held["client"].tag = "Auth" /\ st["client"] = "HelloDone"
    BY <1>0, <1>6, ReceiveOK DEF ClientOnAuth, Receive, Side
  <2>2. Earned("client", held["client"])
    BY <1>0, <1>6, ReceiveOK DEF ClientOnAuth, Side, NoPrematureMessage
  <2>3. held["client"].cookie = ClientCookie /\ st["server"] = "HelloDone"
    BY <1>0, <2>1, <2>2 DEF Earned, ServerHello, Msg, Agreement, TypeOK, States, Side
  <2>4. Write("server", Ack, AckCopies) /\ AckCopies \in Nat
    BY <1>6, <2>3 DEF ClientOnAuth
  <2>5. TypeOK'
    BY <1>0, <1>6, <2>4, ReceiveOK, WriteOK DEF ClientOnAuth, Goto, TypeOK, Side, States
  <2>6. Agreement'
    BY <1>0, <1>6, <2>1, <2>3 DEF ClientOnAuth, Goto, Agreement, CookiesAgree, TypeOK, Side
  <2>7. NoPrematureMessage'
    BY <1>0, <1>6, <2>1, <2>4, ReceiveOK, WriteOK
       DEF ClientOnAuth, Goto, TypeOK, Side, NoPrematureMessage, InTransit, Earned, ClientHello, ServerHello, Ack
  <2> QED
    BY <2>5, <2>6, <2>7 DEF IInv
<1>7. ASSUME NEW s \in Side, Ignore(s) PROVE IInv'
  <2>1. TypeOK' /\ UNCHANGED <<st, learned, pending>>
    BY <1>0, <1>7, ReceiveOK DEF Ignore, TypeOK
  <2>2. Agreement'
    BY <1>0, <2>1 DEF Agreement, CookiesAgree
  <2>3. NoPrematureMessage'
    BY <1>0, <1>7, <2>1, ReceiveOK
       DEF Ignore, NoPrematureMessage, InTransit, Earned, ClientHello, ServerHello, Ack
  <2> QED
    BY <2>1, <2>2, <2>3 DEF IInv
<1>8. CASE ServerTimeout \/ ClientTimeout
  <2>1. PICK s \in Side, t \in Side, q \in {"Start", "AcceptClient", "HelloDone"}, m \in Message :
           Retry(s, q, t, m) /\ Earned(t, m)
    BY <1>0, <1>8 DEF ServerTimeout, ClientTimeout, Earned, ServerAuth, ClientAuth, CookiesAgree, Side, TypeOK, Retry
  <2>2. Write(t, m, 1) /\ UNCHANGED <<ordered, st, learned, counter, delay, held>>
    BY <2>1 DEF Retry
  <2>3. TypeOK'
    BY <1>0, <2>2, WriteOK DEF TypeOK
  <2>4. Agreement'
    BY <1>0, <2>2 DEF Agreement, CookiesAgree
  <2>5. NoPrematureMessage'
    BY <1>0, <2>1, <2>2, WriteOK DEF NoPrematureMessage, InTransit, Earned, ClientHello, ServerHello, Ack
  <2> QED
    BY <2>3, <2>4, <2>5 DEF IInv
<1>9. CASE UNCHANGED vars
  <2>1. TypeOK' /\ Agreement'
    BY <1>0, <1>9 DEF vars, TypeOK, Agreement, CookiesAgree
  <2>2. NoPrematureMessage'
    BY <1>0, <1>9 DEF vars, NoPrematureMessage, InTransit, Earned, ClientHello, ServerHello, Ack
  <2> QED
    BY <2>1, <2>2 DEF IInv
<1> QED
  BY <1>1, <1>2, <1>3, <1>4, <1>5, <1>6, <1>7, <1>8, <1>9
     DEF Next, ServerStep, ClientStep, Exit, Side

-----------------------------------------------------------------------------
\* Type correctness: every variable stays in its type, for any bound on the
\* pending writers.
THEOREM TypeCorrect == Spec => []TypeOK
<1>1. IInv => TypeOK
  BY DEF IInv
<1> QED
  BY InitIInv, StepIInv, <1>1, PTL DEF Spec

\* The two sides agree on how far the handshake got and know each other's
\* cookies: End always means that both are authenticated (onAcceptClient,
\* onHelloDone).
THEOREM HandshakeSafe == Spec => []Agreement
<1>1. IInv => Agreement
  BY DEF IInv
<1> QED
  BY InitIInv, StepIInv, <1>1, PTL DEF Spec

\* Nobody ever sends, re-sends or is handed a message that its sender was not
\* yet entitled to (131, 159, 250, 274, 299-303).
THEOREM NothingPremature == Spec => []NoPrematureMessage
<1>1. IInv => NoPrematureMessage
  BY DEF IInv
<1> QED
  BY InitIInv, StepIInv, <1>1, PTL DEF Spec

\* The whole exchange, with its losses, delays, repetitions and races between
\* writers, is one of the five-step sequential handshake of the protocol
\* comment (main.go 31-37).
THEOREM Refinement == Spec => ImplementsHandshake
<1>1. Init => Abstract!Init
  BY DEF Init, Abstract!Init, Side
<1>2. IInv /\ [Next]_vars => [Abstract!Next]_<<st["client"], st["server"]>>
  <2> SUFFICES ASSUME IInv, [Next]_vars
               PROVE  [Abstract!Next]_<<st["client"], st["server"]>>
    OBVIOUS
  <2> USE DEF Abstract!Next
  <2>0. TypeOK /\ Agreement /\ CookiesAgree /\ NoPrematureMessage
    BY DEF IInv, Agreement
  <2>1. ASSUME NEW s \in Side, Read(s) \/ Ignore(s) PROVE UNCHANGED st
    BY <2>1 DEF Read, ReadPass, ReadDrop, ReadStore, ReadDelayed, Take, Ignore
  <2>2. CASE ServerOnStart
    <3>1. Earned("server", held["server"]) /\ held["server"].tag = "ClientHello"
      BY <2>0, <2>2, ReceiveOK DEF ServerOnStart, Side, NoPrematureMessage
    <3>2. st["server"] = "Start" /\ st["client"] = "Start"
      BY <2>0, <2>2 DEF ServerOnStart, Receive, Agreement
    <3> QED
      BY <2>0, <2>2, <3>2 DEF ServerOnStart, Goto, TypeOK, Side, Abstract!Greet
  <2>3. CASE ServerOnAuth
    <3>1. Earned("server", held["server"]) /\ held["server"].tag = "Auth" /\ st["server"] = "AcceptClient"
      BY <2>0, <2>3, ReceiveOK DEF ServerOnAuth, Receive, Side, NoPrematureMessage
    <3>2. st["client"] = "HelloDone" /\ held["server"].cookie = ServerCookie
      BY <2>0, <3>1 DEF Earned, ClientHello, Ack, Msg, Agreement, TypeOK, States, Side
    <3> QED
      BY <2>0, <2>3, <3>1, <3>2 DEF ServerOnAuth, Goto, TypeOK, Side, Abstract!AuthenticateClient
  <2>4. CASE ServerOnAck
    <3>1. Earned("server", held["server"]) /\ held["server"].tag = "Ack" /\ st["server"] = "HelloDone"
      BY <2>0, <2>4, ReceiveOK DEF ServerOnAck, Receive, Side, NoPrematureMessage
    <3>2. st["client"] = "End"
      BY <3>1 DEF Earned, ClientHello, Msg
    <3> QED
      BY <2>0, <2>4, <3>1, <3>2 DEF ServerOnAck, Goto, TypeOK, Side, Abstract!Confirm
  <2>5. CASE ClientOnHello
    <3>1. Earned("client", held["client"]) /\ held["client"].tag = "ServerHello" /\ st["client"] = "Start"
      BY <2>0, <2>5, ReceiveOK DEF ClientOnHello, Receive, Side, NoPrematureMessage
    <3>2. st["server"] = "AcceptClient"
      BY <2>0, <3>1 DEF Earned, ServerHello, Msg, Agreement, TypeOK, States, Side
    <3> QED
      BY <2>0, <2>5, <3>1, <3>2 DEF ClientOnHello, Goto, TypeOK, Side, Abstract!GreetBack
  <2>6. CASE ClientOnAuth
    <3>1. Earned("client", held["client"]) /\ held["client"].tag = "Auth" /\ st["client"] = "HelloDone"
      BY <2>0, <2>6, ReceiveOK DEF ClientOnAuth, Receive, Side, NoPrematureMessage
    <3>2. st["server"] = "HelloDone"
      BY <2>0, <3>1 DEF Earned, ServerHello, Msg, Agreement
    <3> QED
      BY <2>0, <2>6, <3>1, <3>2 DEF ClientOnAuth, Goto, TypeOK, Side, Abstract!AuthenticateServer
  <2>7. CASE ServerTimeout \/ ClientTimeout \/ Exit \/ UNCHANGED vars
    BY <2>7 DEF ServerTimeout, ClientTimeout, Retry, Exit, vars
  <2> QED
    BY <2>1, <2>2, <2>3, <2>4, <2>5, <2>6, <2>7 DEF Next, ServerStep, ClientStep, Side
<1> QED
  BY <1>1, <1>2, InitIInv, StepIInv, PTL DEF Spec, ImplementsHandshake, Abstract!Spec
=============================================================================
