----------------------------- MODULE UdpForward ------------------------------
(***************************************************************************)
(* test432-udp_forward, proxy.go: a UDP proxy with one connection to the   *)
(* server per peer.  The main goroutine (proxy) forwards the datagrams of  *)
(* the peers; the goroutine downlink of a session forwards the answers;    *)
(* its ticker closes the connection when two ticks pass in silence.  The   *)
(* field serverConn is shared by the three without synchronisation: each   *)
(* reads the old or the new pointer.                                       *)
(*                                                                         *)
(* An error of the listening socket at ReadFromUDP ends the process and is *)
(* left out.                                                               *)
(***************************************************************************)
EXTENDS Naturals

CONSTANTS
    Senders,            \* the peers of the proxy
    NoConn,             \* no entry in the map
    MaxForwards,        \* bound on the datagrams of all peers
    MaxConns            \* bound on the sessions ever started

ConnId == 1 .. MaxConns

ASSUME ForwardAssumption ==
    /\ MaxForwards \in Nat /\ MaxConns \in Nat
    /\ NoConn \notin ConnId /\ Senders # {}

VARIABLES
    proxy,          \* where the main goroutine is; "down": the process has ended
    sender,         \* the peer whose datagram it forwards
    sessionOf,      \* the map: the session of each peer
    forwards,       \* datagrams received so far
    dialed,         \* sessions 1 .. dialed have been started
    owner,          \* owner[s]: the peer of session s
    isNil,          \* the sessions whose serverConn is nil
    open,           \* the sessions whose socket is open
    timeout,        \* timeout[s]: ticks in silence
    downlink,       \* downlink[s]: its goroutine
    idler,          \* idler[s]: its ticker goroutine
    unanswered,     \* unanswered[s]: datagrams the server may still answer
    socketFailed    \* history: a call on an open socket failed, or a new one could not be had

mainVars == <<proxy, sender, sessionOf, forwards, dialed, owner>>
forwardVars == <<mainVars, isNil, open, timeout, downlink, idler, unanswered, socketFailed>>

ForwardInit ==
    /\ proxy = "receive" /\ sender = CHOOSE p \in Senders : TRUE
    /\ sessionOf = [p \in Senders |-> NoConn]
    /\ forwards = 0 /\ dialed = 0 /\ socketFailed = FALSE
    /\ owner = [s \in ConnId |-> sender]
    /\ isNil = {} /\ open = {}
    /\ timeout = [s \in ConnId |-> 0]
    /\ downlink = [s \in ConnId |-> "none"]
    /\ idler = [s \in ConnId |-> "none"]
    /\ unanswered = [s \in ConnId |-> 0]

-----------------------------------------------------------------------------
(* The main goroutine.                                                      *)

Current == sessionOf[sender]

ReceiveFrom(p) ==
    /\ proxy = "receive" /\ forwards < MaxForwards
    /\ proxy' = "lookup" /\ sender' = p
    /\ forwards' = forwards + 1
    /\ UNCHANGED <<sessionOf, dialed, owner, isNil, open, timeout, downlink, idler,
                   unanswered, socketFailed>>

\* The session of the peer has a connection, open or closed.
Find ==
    /\ proxy = "lookup" /\ Current \notin isNil \union {NoConn}
    /\ proxy' = "send"
    /\ UNCHANGED <<sender, sessionOf, forwards, dialed, owner, isNil, open, timeout,
                   downlink, idler, unanswered, socketFailed>>

Dial ==
    /\ proxy = "lookup" /\ Current \in isNil \union {NoConn} /\ dialed < MaxConns
    /\ proxy' = "send"
    /\ dialed' = dialed + 1
    /\ sessionOf' = [sessionOf EXCEPT ![sender] = dialed']
    /\ owner' = [owner EXCEPT ![dialed'] = sender]
    /\ open' = open \union {dialed'}
    /\ downlink' = [downlink EXCEPT ![dialed'] = "reading"]
    /\ idler' = [idler EXCEPT ![dialed'] = "ticking"]
    /\ UNCHANGED <<sender, forwards, isNil, timeout, unanswered, socketFailed>>

Uplink ==
    /\ proxy = "send" /\ Current \in open \ isNil
    /\ proxy' = "reset"
    /\ unanswered' = [unanswered EXCEPT ![Current] = @ + 1]
    /\ UNCHANGED <<sender, sessionOf, forwards, dialed, owner, isNil, open, timeout,
                   downlink, idler, socketFailed>>

\* DialUDP fails, or Write on an open connection: with the refusal of an earlier datagram
\* by the server's host, for one.  Either ends proxy.
SocketFails ==
    /\ \/ proxy = "lookup" /\ Current \in isNil \union {NoConn}
       \/ proxy = "send" /\ Current \in open \ isNil
    /\ proxy' = "down" /\ socketFailed' = TRUE
    /\ UNCHANGED <<sender, sessionOf, forwards, dialed, owner, isNil, open, timeout,
                   downlink, idler, unanswered>>

\* Write to a closed connection fails, which ends proxy; Write to nil panics.
UplinkFails ==
    /\ proxy = "send" /\ Current \notin open \ isNil
    /\ proxy' = "down"
    /\ UNCHANGED <<sender, sessionOf, forwards, dialed, owner, isNil, open, timeout,
                   downlink, idler, unanswered, socketFailed>>

Reset ==
    /\ proxy = "reset"
    /\ proxy' = "receive"
    /\ timeout' = [timeout EXCEPT ![Current] = 0]
    /\ UNCHANGED <<sender, sessionOf, forwards, dialed, owner, isNil, open, downlink,
                   idler, unanswered, socketFailed>>

-----------------------------------------------------------------------------
(* A session: downlink and its ticker.                                      *)

Reading(s) == proxy # "down" /\ downlink[s] = "reading"

Answer(s) ==
    /\ Reading(s) /\ s \in open /\ unanswered[s] > 0
    /\ unanswered' = [unanswered EXCEPT ![s] = @ - 1]
    /\ timeout' = [timeout EXCEPT ![s] = 0]
    /\ UNCHANGED <<mainVars, isNil, open, downlink, idler, socketFailed>>

\* Read returns because the ticker has closed the connection.
ReadCanceled(s) ==
    /\ Reading(s) /\ s \notin open
    /\ downlink' = [downlink EXCEPT ![s] = "closing"]
    /\ UNCHANGED <<mainVars, isNil, open, timeout, idler, unanswered, socketFailed>>

\* Read or WriteToUDP fails: when nobody listens at the forward address, for one.
ReadFails(s) ==
    /\ Reading(s) /\ s \in open /\ unanswered[s] > 0
    /\ unanswered' = [unanswered EXCEPT ![s] = @ - 1]
    /\ downlink' = [downlink EXCEPT ![s] = "closing"]
    /\ socketFailed' = TRUE
    /\ UNCHANGED <<mainVars, isNil, open, timeout, idler>>

\* Mutant: the deferred function only drops the connection.
CloseConnNot(s) ==
    /\ proxy # "down" /\ downlink[s] = "closing"
    /\ downlink' = [downlink EXCEPT ![s] = "closed"]
    /\ UNCHANGED <<mainVars, isNil, open, timeout, idler, unanswered, socketFailed>>

\* The deferred function, in two steps that the others can come between.
CloseConn(s) ==
    /\ proxy # "down" /\ downlink[s] = "closing"
    /\ downlink' = [downlink EXCEPT ![s] = "closed"]
    /\ open' = open \ {s}
    /\ UNCHANGED <<mainVars, isNil, timeout, idler, unanswered, socketFailed>>

SetNil(s) ==
    /\ proxy # "down" /\ downlink[s] = "closed"
    /\ downlink' = [downlink EXCEPT ![s] = "gone"]
    /\ isNil' = isNil \union {s}
    /\ UNCHANGED <<mainVars, open, timeout, idler, unanswered, socketFailed>>

\* Mutant: the break has slipped out of the if.
IdleTickOnce(s) ==
    /\ proxy # "down" /\ idler[s] = "ticking"
    /\ timeout' = [timeout EXCEPT ![s] = @ + 1]
    /\ idler' = [idler EXCEPT ![s] = IF timeout'[s] = 2 THEN "expired" ELSE "gone"]
    /\ UNCHANGED <<mainVars, isNil, open, downlink, unanswered, socketFailed>>

IdleTick(s) ==
    /\ proxy # "down" /\ idler[s] = "ticking"
    /\ timeout' = [timeout EXCEPT ![s] = @ + 1]
    /\ idler' = [idler EXCEPT ![s] = IF timeout'[s] = 2 THEN "expired" ELSE @]
    /\ UNCHANGED <<mainVars, isNil, open, downlink, unanswered, socketFailed>>

Expire(s) ==
    /\ proxy # "down" /\ idler[s] = "expired" /\ s \notin isNil
    /\ idler' = [idler EXCEPT ![s] = "gone"]
    /\ open' = open \ {s}
    /\ UNCHANGED <<mainVars, isNil, timeout, downlink, unanswered, socketFailed>>

\* downlink is gone: Close of nil panics.
ExpirePanics(s) ==
    /\ proxy # "down" /\ idler[s] = "expired" /\ s \in isNil
    /\ proxy' = "down"
    /\ UNCHANGED <<sender, sessionOf, forwards, dialed, owner, isNil, open, timeout,
                   downlink, idler, unanswered, socketFailed>>

-----------------------------------------------------------------------------

MainSteps == Find \/ Dial \/ Uplink \/ SocketFails \/ UplinkFails \/ Reset
SessionSteps(s) ==
    ReadCanceled(s) \/ CloseConn(s) \/ SetNil(s) \/ IdleTick(s) \/ Expire(s) \/ ExpirePanics(s)

ForwardNext ==
    \/ \E p \in Senders : ReceiveFrom(p)
    \/ MainSteps
    \/ \E s \in ConnId : Answer(s) \/ ReadFails(s) \/ SessionSteps(s)

ForwardFairness ==
    /\ WF_forwardVars(MainSteps)
    /\ \A s \in ConnId : WF_forwardVars(SessionSteps(s))

-----------------------------------------------------------------------------

\* No peer has two sockets, so that all its datagrams reach the server from one
\* address at a time, although the sessions are replaced while they close (68-82, 95-98).
OneSocketPerPeer == \A s, t \in open : owner[s] = owner[t] => s = t

\* As long as no socket has failed of itself, the proxy goes down only on a datagram of a
\* peer whose session has just timed out: neither the race on serverConn nor the ticker
\* that outlives downlink ends it in any other way (68-88, 95-98, 107-108).
DownNeedsTimeout ==
    proxy = "down" /\ ~socketFailed =>
        Current \notin open /\ idler[Current] = "gone" /\ downlink[Current] # "none"

ConnectionsSound == OneSocketPerPeer /\ DownNeedsTimeout

\* Every session ends, with its socket closed and its goroutine gone, when the peer
\* and the server have nothing more to say (94-130).
SessionsWindUp ==
    \A s \in ConnId : s \in open ~> proxy = "down" \/ (s \notin open /\ downlink[s] = "gone")
=============================================================================
