----------------------------- MODULE UdpSession -----------------------------
(***************************************************************************)
(* test485-udp_session: a UDP echo server with one session per peer.  The  *)
(* dispatcher (run) looks the peer of a datagram up in a map under a lock, *)
(* starts a session if there is none, and hands the datagram over a        *)
(* buffered channel after unlocking.  A session echoes what it is handed;  *)
(* its ticker ends it when two ticks pass without a datagram.              *)
(*                                                                         *)
(* An error of ReadFromUDP ends the process and is left out.  A datagram   *)
(* is the number of its arrival among those of its peer.                   *)
(***************************************************************************)
EXTENDS Naturals, Sequences, FiniteSets

CONSTANTS
    Peers,
    NoSession,
    BufferCap,      \* capacity of session.reader: 2
    IdleLimit,      \* ticks without a datagram that end a session: 2
    MaxDatagrams,   \* bound on the datagrams of each peer
    MaxSessions     \* bound on the sessions ever started

SessionId == 1 .. MaxSessions

ASSUME ConstantsAssumption ==
    /\ BufferCap \in Nat \ {0} /\ IdleLimit \in Nat \ {0}
    /\ MaxDatagrams \in Nat /\ MaxSessions \in Nat
    /\ NoSession \notin SessionId /\ Peers # {}

VARIABLES
    sessions,   \* the map of run: the session of each peer
    used,       \* sessions 1 .. used have been started
    peer,       \* peer[s]: the peer of session s
    main,       \* main[s]: where the main goroutine of s is
    hand,       \* hand[s]: the datagram it is about to echo
    reader,     \* reader[s]: its channel
    idle,       \* idle[s]: ticks since its last datagram
    ticker,     \* ticker[s]: its ticker goroutine
    target,     \* the session the dispatcher is sending to
    arrived,    \* arrived[p]: datagrams received from p
    echoed      \* echoed[p]: datagrams echoed to p, in order

vars == <<sessions, used, peer, main, hand, reader, idle, ticker, target, arrived, echoed>>

Started == 1 .. used
MainState == {"none", "reading", "writing", "ended", "gone"}
TickerState == {"none", "ticking", "closing", "stopped"}

TypeOK ==
    /\ used \in 0 .. MaxSessions
    /\ sessions \in [Peers -> SessionId \union {NoSession}]
    /\ peer \in [SessionId -> Peers]
    /\ main \in [SessionId -> MainState]
    /\ hand \in [SessionId -> 0 .. MaxDatagrams]
    /\ reader \in [SessionId -> Seq(1 .. MaxDatagrams)]
    /\ \A s \in SessionId : Len(reader[s]) <= BufferCap
    /\ idle \in [SessionId -> 0 .. IdleLimit]
    /\ ticker \in [SessionId -> TickerState]
    /\ target \in SessionId \union {NoSession}
    /\ arrived \in [Peers -> 0 .. MaxDatagrams]
    /\ echoed \in [Peers -> Seq(1 .. MaxDatagrams)]

Init ==
    /\ sessions = [p \in Peers |-> NoSession]
    /\ used = 0
    /\ peer = [s \in SessionId |-> CHOOSE p \in Peers : TRUE]
    /\ main = [s \in SessionId |-> "none"]
    /\ hand = [s \in SessionId |-> 0]
    /\ reader = [s \in SessionId |-> <<>>]
    /\ idle = [s \in SessionId |-> 0]
    /\ ticker = [s \in SessionId |-> "none"]
    /\ target = NoSession
    /\ arrived = [p \in Peers |-> 0]
    /\ echoed = [p \in Peers |-> <<>>]

-----------------------------------------------------------------------------
(* The dispatcher.                                                          *)

\* Mutant: the lookup is not repeated under the lock, so a session that has just
\* been started for the same peer is replaced.
ReceiveNewUnlocked(p) ==
    /\ target = NoSession /\ arrived[p] < MaxDatagrams
    /\ used < MaxSessions
    /\ arrived' = [arrived EXCEPT ![p] = @ + 1]
    /\ used' = used + 1
    /\ sessions' = [sessions EXCEPT ![p] = used']
    /\ peer' = [peer EXCEPT ![used'] = p]
    /\ main' = [main EXCEPT ![used'] = "reading"]
    /\ ticker' = [ticker EXCEPT ![used'] = "ticking"]
    /\ target' = used'
    /\ UNCHANGED <<hand, reader, idle, echoed>>

\* A datagram of a peer with a session.
ReceiveKnown(p) ==
    /\ target = NoSession /\ arrived[p] < MaxDatagrams
    /\ sessions[p] # NoSession
    /\ arrived' = [arrived EXCEPT ![p] = @ + 1]
    /\ target' = sessions[p]
    /\ UNCHANGED <<sessions, used, peer, main, hand, reader, idle, ticker, echoed>>

\* A datagram of a peer without one: a session is made, entered and started.
ReceiveNew(p) ==
    /\ target = NoSession /\ arrived[p] < MaxDatagrams
    /\ sessions[p] = NoSession /\ used < MaxSessions
    /\ arrived' = [arrived EXCEPT ![p] = @ + 1]
    /\ used' = used + 1
    /\ sessions' = [sessions EXCEPT ![p] = used']
    /\ peer' = [peer EXCEPT ![used'] = p]
    /\ main' = [main EXCEPT ![used'] = "reading"]
    /\ ticker' = [ticker EXCEPT ![used'] = "ticking"]
    /\ target' = used'
    /\ UNCHANGED <<hand, reader, idle, echoed>>

\* Mutant: a session that has ended is not sent to.
HandToLive ==
    /\ target # NoSession /\ main[target] \notin {"ended", "gone"}
    /\ Len(reader[target]) < BufferCap
    /\ reader' = [reader EXCEPT ![target] = Append(@, arrived[peer[target]])]
    /\ target' = NoSession
    /\ UNCHANGED <<sessions, used, peer, main, hand, idle, ticker, arrived, echoed>>

\* sess.reader <- msg, outside the lock; it waits while the channel is full.
Hand ==
    /\ target # NoSession
    /\ Len(reader[target]) < BufferCap
    /\ reader' = [reader EXCEPT ![target] = Append(@, arrived[peer[target]])]
    /\ target' = NoSession
    /\ UNCHANGED <<sessions, used, peer, main, hand, idle, ticker, arrived, echoed>>

-----------------------------------------------------------------------------
(* A session.                                                               *)

\* Mutant: the latest datagram is taken first.
ReadMsgLatest(s) ==
    /\ main[s] = "reading" /\ reader[s] # <<>>
    /\ hand' = [hand EXCEPT ![s] = reader[s][Len(reader[s])]]
    /\ reader' = [reader EXCEPT ![s] = SubSeq(@, 1, Len(@) - 1)]
    /\ idle' = [idle EXCEPT ![s] = 0]
    /\ main' = [main EXCEPT ![s] = "writing"]
    /\ UNCHANGED <<sessions, used, peer, ticker, target, arrived, echoed>>

\* read(): a datagram; the idle count starts again.
ReadMsg(s) ==
    /\ main[s] = "reading" /\ reader[s] # <<>>
    /\ hand' = [hand EXCEPT ![s] = Head(reader[s])]
    /\ reader' = [reader EXCEPT ![s] = Tail(@)]
    /\ idle' = [idle EXCEPT ![s] = 0]
    /\ main' = [main EXCEPT ![s] = "writing"]
    /\ UNCHANGED <<sessions, used, peer, ticker, target, arrived, echoed>>

\* read(): the closer; its sender, the ticker goroutine, breaks out of its loop.
ReadClosed(s) ==
    /\ main[s] = "reading" /\ ticker[s] = "closing"
    /\ main' = [main EXCEPT ![s] = "ended"]
    /\ ticker' = [ticker EXCEPT ![s] = "stopped"]
    /\ UNCHANGED <<sessions, used, peer, hand, reader, idle, target, arrived, echoed>>

\* write(): the echo goes out, or an error ends the session.
WriteOk(s) ==
    /\ main[s] = "writing"
    /\ echoed' = [echoed EXCEPT ![peer[s]] = Append(@, hand[s])]
    /\ hand' = [hand EXCEPT ![s] = 0]
    /\ main' = [main EXCEPT ![s] = "reading"]
    /\ UNCHANGED <<sessions, used, peer, reader, idle, ticker, target, arrived>>

WriteFails(s) ==
    /\ main[s] = "writing"
    /\ hand' = [hand EXCEPT ![s] = 0]
    /\ main' = [main EXCEPT ![s] = "ended"]
    /\ UNCHANGED <<sessions, used, peer, reader, idle, ticker, target, arrived, echoed>>

\* Mutant: the entry stays in the map.
DeleteNot(s) ==
    /\ main[s] = "ended"
    /\ main' = [main EXCEPT ![s] = "gone"]
    /\ UNCHANGED <<sessions, used, peer, hand, reader, idle, ticker, target, arrived, echoed>>

\* delete(sessions, peerID), under the lock.
Delete(s) ==
    /\ main[s] = "ended"
    /\ sessions' = [sessions EXCEPT ![peer[s]] = NoSession]
    /\ main' = [main EXCEPT ![s] = "gone"]
    /\ UNCHANGED <<used, peer, hand, reader, idle, ticker, target, arrived, echoed>>

\* A tick, whatever has become of the session: nobody stops the ticker.
Tick(s) ==
    /\ ticker[s] = "ticking"
    /\ idle' = [idle EXCEPT ![s] = @ + 1]
    /\ ticker' = [ticker EXCEPT ![s] = IF idle'[s] = IdleLimit THEN "closing" ELSE "ticking"]
    /\ UNCHANGED <<sessions, used, peer, main, hand, reader, target, arrived, echoed>>

Receive(p) == ReceiveKnown(p) \/ ReceiveNew(p)
Session(s) == ReadMsg(s) \/ ReadClosed(s) \/ WriteOk(s) \/ WriteFails(s) \/ Delete(s)

Next ==
    \/ \E p \in Peers : Receive(p)
    \/ Hand
    \/ \E s \in SessionId : Session(s) \/ Tick(s)

\* Peers owe the server nothing; the server's own goroutines run, tickers tick.
Spec ==
    /\ Init /\ [][Next]_vars
    /\ WF_vars(Hand)
    /\ \A s \in SessionId : WF_vars(Session(s)) /\ WF_vars(Tick(s))

-----------------------------------------------------------------------------

\* The map names exactly the sessions whose goroutine has not deleted its entry:
\* a session that ends never takes the entry of its successor away (72-74).
MapExact ==
    /\ \A p \in Peers : sessions[p] # NoSession =>
          /\ sessions[p] \in Started /\ peer[sessions[p]] = p
          /\ main[sessions[p]] \in {"reading", "writing", "ended"}
    /\ \A s \in Started : main[s] # "gone" => sessions[peer[s]] = s

\* The echoes to a peer keep the order of its datagrams, across the end of one
\* session and the start of the next (47-84, 97-106).
EchoInOrder ==
    \A p \in Peers : \A i, j \in DOMAIN echoed[p] : i < j => echoed[p][i] < echoed[p][j]

\* The dispatcher gets rid of every datagram, unless the session it looked up
\* has ended with a full channel: then the whole server hangs (83).
Abandoned(s) == main[s] \in {"ended", "gone"} /\ Len(reader[s]) = BufferCap
DispatcherMovesOn ==
    \A s \in SessionId : (target = s) ~> (target # s \/ Abandoned(s))

\* A session whose peer falls silent ends and leaves the map (87-95).
IdleSessionsEnd == <>[](\A p \in Peers : sessions[p] = NoSession)
=============================================================================
