----------------------------- MODULE StopAndWait -----------------------------
(***************************************************************************)
(* test520-stop_and_wait_session: a client and a server authenticate each  *)
(* other with cookies over two io.Pipes read through unreliable readers.   *)
(*                                                                         *)
(* Each side is a main goroutine (the state machine), a reader goroutine   *)
(* that hands what it reads to the main goroutine over an unbuffered       *)
(* channel, and one short-lived goroutine per `go w.Write`, which blocks   *)
(* until the peer's reader takes its message: io.Pipe has no buffer.       *)
(***************************************************************************)
EXTENDS UnreliableReader, FiniteSets

CONSTANTS
    ClientCookie,   \* "blue"
    ServerCookie,   \* "red"
    NoCookie,       \* the empty cookie of Ack; a cookie not yet learned
    AckCopies,      \* Acks sent by onAuthDone: 5
    MaxPending      \* bound: copies of one message waiting in writers

Side == {"client", "server"}

\* The order in which each side spawns the writers of its messages.
Tag == {"ClientHello", "ServerHello", "Auth", "Ack"}
Rank(tag) == CASE tag \in {"ClientHello", "ServerHello"} -> 1
               [] tag = "Auth" -> 2
               [] OTHER -> 3

Cookie  == {ClientCookie, ServerCookie, NoCookie}
Message == [tag : Tag, cookie : Cookie]
Msg(t, c) == [tag |-> t, cookie |-> c]

ASSUME ConstantsAssumption ==
    /\ NoMsg \notin Message
    /\ AckCopies \in Nat \ {0}
    /\ MaxPending \in Nat \ {0}

VARIABLES
    ordered,   \* TRUE: in this execution writers get the pipe in spawn order
    st,        \* st[s]: state of the state machine of side s
    learned,   \* learned[s]: the peer's cookie, as stored by side s
    pending,   \* pending[s][m]: writers blocked with message m for side s
    counter,   \* counter[s]: Read calls of the reader of side s, modulo 10
    delay,     \* delay[s]: its delay buffer
    held       \* held[s]: what its goroutine offers on sess.recv

vars == <<ordered, st, learned, pending, counter, delay, held>>

States == [client |-> {"Start", "HelloDone", "End"},
           server |-> {"Start", "AcceptClient", "HelloDone", "End"}]

TypeOK ==
    /\ ordered \in BOOLEAN
    /\ st \in [Side -> States["client"] \union States["server"]]
    /\ \A s \in Side : st[s] \in States[s]
    /\ learned \in [Side -> Cookie]
    /\ pending \in [Side -> [Message -> Nat]]
    /\ counter \in [Side -> 0 .. Period - 1]
    /\ delay \in [Side -> Message \union {NoMsg}]
    /\ held \in [Side -> Message \union {NoMsg}]

-----------------------------------------------------------------------------
(* The messages of the protocol, the peer of a side, and `go w.Write`.      *)

ClientHello == Msg("ClientHello", ClientCookie)
ServerHello == Msg("ServerHello", ServerCookie)
ClientAuth  == Msg("Auth", learned["client"])
ServerAuth  == Msg("Auth", learned["server"])
Ack         == Msg("Ack", NoCookie)

\* n new writers block with message m for side s.
Write(s, m, n) == pending' = [pending EXCEPT ![s][m] = @ + n]

Init ==
    /\ ordered \in BOOLEAN
    /\ st = [s \in Side |-> "Start"]
    /\ learned = [s \in Side |-> NoCookie]
    /\ pending = [s \in Side |-> [m \in Message |->
                     IF s = "server" /\ m = ClientHello THEN 1 ELSE 0]]
    /\ counter = [s \in Side |-> 0]
    /\ delay = [s \in Side |-> NoMsg]
    /\ held = [s \in Side |-> NoMsg]

-----------------------------------------------------------------------------
(* The reader goroutines.  src.Read takes the message of any blocked writer *)
(* (the writers queue on the pipe's mutex), or of the oldest if ordered.    *)

Available(s) ==
    {m \in Message :
        /\ pending[s][m] > 0
        /\ ordered => \A o \in Message : pending[s][o] > 0 => Rank(m.tag) <= Rank(o.tag)}

Take(s, m) ==
    /\ held[s] = NoMsg
    /\ m \in Available(s)
    /\ pending' = [pending EXCEPT ![s][m] = @ - 1]
    /\ counter' = [counter EXCEPT ![s] = Tick(@)]
    /\ UNCHANGED <<ordered, st, learned>>

ReadPass(s) == \E m \in Message :
    /\ Passes(counter[s], delay[s])
    /\ Take(s, m)
    /\ held' = [held EXCEPT ![s] = m]
    /\ UNCHANGED delay

ReadDrop(s) == \E m \in Message :
    /\ Drops(counter[s], delay[s])
    /\ Take(s, m)
    /\ UNCHANGED <<delay, held>>

ReadStore(s) == \E m \in Message :
    /\ Stores(counter[s], delay[s])
    /\ Take(s, m)
    /\ delay' = [delay EXCEPT ![s] = m]
    /\ UNCHANGED held

ReadDelayed(s) ==
    /\ held[s] = NoMsg
    /\ Returns(counter[s], delay[s])
    /\ counter' = [counter EXCEPT ![s] = Tick(@)]
    /\ held' = [held EXCEPT ![s] = delay[s]]
    /\ delay' = [delay EXCEPT ![s] = NoMsg]
    /\ UNCHANGED <<ordered, st, learned, pending>>

Read(s) == ReadPass(s) \/ ReadDrop(s) \/ ReadStore(s) \/ ReadDelayed(s)

-----------------------------------------------------------------------------
(* The state machines.  A handler that returns a new state runs on into the *)
(* next handler up to its select: the entry code sends the first copy of    *)
(* that state's message.                                                    *)

\* `msg := <-sess.recv` in side s, which is in state q.
Receive(s, q) ==
    /\ st[s] = q
    /\ held[s] # NoMsg
    /\ held' = [held EXCEPT ![s] = NoMsg]
    /\ UNCHANGED <<ordered, counter, delay>>

Goto(s, q) == st' = [st EXCEPT ![s] = q]

\* Messages with any other tag fall through the loop of the handler.
Awaited(s) ==
    CASE s = "server" /\ st[s] = "Start"        -> "ClientHello"
      [] s = "server" /\ st[s] = "AcceptClient" -> "Auth"
      [] s = "server" /\ st[s] = "HelloDone"    -> "Ack"
      [] s = "client" /\ st[s] = "Start"        -> "ServerHello"
      [] OTHER                                  -> "Auth"

Ignore(s) ==
    /\ st[s] # "End"
    /\ held[s] # NoMsg
    /\ held[s].tag # Awaited(s)
    /\ Receive(s, st[s])
    /\ UNCHANGED <<st, learned, pending>>

\* onStart of the server, and the entry of onAcceptClient.
ServerOnStart ==
    /\ Receive("server", "Start")
    /\ held["server"].tag = "ClientHello"
    /\ learned' = [learned EXCEPT !["server"] = held["server"].cookie]
    /\ Goto("server", "AcceptClient")
    /\ Write("client", ServerHello, 1)

\* Mutant: the tag is not looked at, so a late ClientHello fails the login.
ServerOnAuthAnyTag ==
    /\ Receive("server", "AcceptClient")
    /\ IF held["server"].cookie = ServerCookie
       THEN Goto("server", "HelloDone") /\ Write("client", ServerAuth, 1)
       ELSE Goto("server", "End") /\ UNCHANGED pending
    /\ UNCHANGED learned

\* onAcceptClient, and the entry of onHelloDone.  A wrong cookie ends the session.
ServerOnAuth ==
    /\ Receive("server", "AcceptClient")
    /\ held["server"].tag = "Auth"
    /\ IF held["server"].cookie = ServerCookie
       THEN Goto("server", "HelloDone") /\ Write("client", ServerAuth, 1)
       ELSE Goto("server", "End") /\ UNCHANGED pending
    /\ UNCHANGED learned

\* Mutant: any message counts as the Ack.
ServerOnAckAnyTag ==
    /\ Receive("server", "HelloDone")
    /\ Goto("server", "End")
    /\ UNCHANGED <<learned, pending>>

\* onHelloDone of the server.
ServerOnAck ==
    /\ Receive("server", "HelloDone")
    /\ held["server"].tag = "Ack"
    /\ Goto("server", "End")
    /\ UNCHANGED <<learned, pending>>

\* onStart of the client, and the entry of its onHelloDone.
ClientOnHello ==
    /\ Receive("client", "Start")
    /\ held["client"].tag = "ServerHello"
    /\ learned' = [learned EXCEPT !["client"] = held["client"].cookie]
    /\ Goto("client", "HelloDone")
    /\ Write("server", Msg("Auth", held["client"].cookie), 1)

\* Mutant: one Ack fewer.
ClientOnAuthFewerAcks ==
    /\ Receive("client", "HelloDone")
    /\ held["client"].tag = "Auth"
    /\ Goto("client", "End")
    /\ Write("server", Ack, AckCopies - 1)
    /\ UNCHANGED learned

\* onHelloDone of the client, and all of onAuthDone.
ClientOnAuth ==
    /\ Receive("client", "HelloDone")
    /\ held["client"].tag = "Auth"
    /\ Goto("client", "End")
    /\ IF held["client"].cookie = ClientCookie
       THEN Write("server", Ack, AckCopies)
       ELSE UNCHANGED pending
    /\ UNCHANGED learned

\* Mutant: a ticker that goes on after its state was left.
RetryForever(s, q, dst, m) ==
    /\ pending[dst][m] < MaxPending
    /\ Write(dst, m, 1)
    /\ UNCHANGED <<ordered, st, learned, counter, delay, held>>

\* The retry timers.  At most MaxPending copies pile up in blocked writers.
Retry(s, q, dst, m) ==
    /\ st[s] = q
    /\ pending[dst][m] < MaxPending
    /\ Write(dst, m, 1)
    /\ UNCHANGED <<ordered, st, learned, counter, delay, held>>

\* Mutant: the answer to the client's Auth is sent only once.
ServerTimeoutNoAuth == Retry("server", "AcceptClient", "client", ServerHello)

ServerTimeout ==
    \/ Retry("server", "AcceptClient", "client", ServerHello)
    \/ Retry("server", "HelloDone", "client", ServerAuth)

ClientTimeout ==
    \/ Retry("client", "Start", "server", ClientHello)
    \/ Retry("client", "HelloDone", "server", ClientAuth)

\* main has both results and the process exits.
Finished == \A s \in Side : st[s] = "End"

Exit == Finished /\ UNCHANGED vars

ServerStep == ServerOnStart \/ ServerOnAuth \/ ServerOnAck \/ Ignore("server")
ClientStep == ClientOnHello \/ ClientOnAuth \/ Ignore("client")

Next ==
    \/ \E s \in Side : Read(s)
    \/ ServerStep \/ ClientStep
    \/ ServerTimeout \/ ClientTimeout
    \/ Exit

(***************************************************************************)
(* Every goroutine that can run is eventually run by the Go scheduler, a   *)
(* timer fires, and a select with several ready cases picks each of them   *)
(* sooner or later.                                                        *)
(***************************************************************************)
Fairness ==
    /\ \A s \in Side : WF_vars(Read(s))
    /\ WF_vars(ServerStep) /\ WF_vars(ClientStep)
    /\ WF_vars(ServerTimeout) /\ WF_vars(ClientTimeout)

Spec == Init /\ [][Next]_vars /\ Fairness

-----------------------------------------------------------------------------
(* Properties.                                                              *)

\* Message m is on its way to side s: in a writer, delayed, or held.
InTransit(s, m) == pending[s][m] > 0 \/ delay[s] = m \/ held[s] = m

\* A message is on its way only if its sender has got far enough to send it:
\* no Ack before the client has ended, no Auth before the cookie it answers
\* was learned (131, 159, 250, 274, 299-303).
Earned(s, m) ==
    IF s = "server"
    THEN \/ m = ClientHello
         \/ m = Msg("Auth", ServerCookie) /\ st["client"] # "Start"
         \/ m = Ack /\ st["client"] = "End"
    ELSE \/ m = ServerHello /\ st["server"] # "Start"
         \/ m = Msg("Auth", ClientCookie) /\ st["server"] \in {"HelloDone", "End"}

NoPrematureMessage ==
    \A s \in Side : \A m \in Message : InTransit(s, m) => Earned(s, m)

\* Each side knows the cookie of the other once it has left the state that
\* waits for it, so neither of the "invalid response" branches (145-148,
\* 288-291) is ever taken and End always means success.
CookiesAgree ==
    /\ st["server"] # "Start" => learned["server"] = ClientCookie
    /\ st["client"] # "Start" => learned["client"] = ServerCookie

\* The two ends agree on how far the handshake got: a side never gets ahead of
\* what its peer has really confirmed, although every message may be lost,
\* repeated or overtaken (onAcceptClient, onHelloDone of both sides), and each
\* knows the cookie of the other.
Agreement ==
    /\ st["client"] # "Start" => st["server"] # "Start"
    /\ st["server"] \in {"HelloDone", "End"} => st["client"] \in {"HelloDone", "End"}
    /\ st["client"] = "End" => st["server"] \in {"HelloDone", "End"}
    /\ st["server"] = "End" => st["client"] = "End"
    /\ CookiesAgree

\* The handshake is the strictly alternating exchange of the protocol comment.
Abstract == INSTANCE Handshake WITH cst <- st["client"], sst <- st["server"]
ImplementsHandshake == Abstract!Spec

\* The retries get the client through, whatever the order in which the blocked
\* writers win the pipe, and nearly always the server.  If the writers race,
\* retransmitted Auths can take the slots the reader would have passed, and all Acks
\* are lost: the client is gone, and the server retries for ever.  That is the only
\* way for it not to end.
AcksLost ==
    /\ st["client"] = "End"
    /\ pending["server"][Ack] = 0 /\ held["server"] # Ack

ServerStuckOnlyOnLostAcks == <>[](st["server"] = "End" \/ AcksLost)

\* The server waits for an Ack that is sent five times and never again: if
\* writers keep their order it ends, because the reader never loses five
\* messages in a row (onAuthDone).
ServerFinishes == ordered => <>(st["server"] = "End")
=============================================================================
