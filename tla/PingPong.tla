------------------------------ MODULE PingPong ------------------------------
(***************************************************************************)
(* test492 and test493: two peers find each other over UDP.  Each sends    *)
(* pings every second until it is pinged, then one pong; a pong from the   *)
(* other side ends the search, and the peers exchange a "Hello!".          *)
(*                                                                         *)
(* In test492 a peer that gets a pong without having been pinged never     *)
(* answers; test493 takes the pong for a ping ("proceeding anyway"), waits *)
(* before its Hello instead of after it, and sets a deadline on the last   *)
(* read, whose error ends the program.                                     *)
(*                                                                         *)
(* Timing is modelled only where the programs rely on it: the pause of a   *)
(* second is longer than the pinger needs to send its pong, and the        *)
(* deadline of three seconds passes only when nothing more is coming.      *)
(***************************************************************************)
EXTENDS Naturals, SequencesExt

CONSTANT NetCap      \* bound: a ping to a queue this long is lost

ASSUME NetCapAssumption == NetCap \in Nat \ {0}

Peer == {"A", "B"}
Other(p) == IF p = "A" THEN "B" ELSE "A"

VARIABLES
    proceed,    \* TRUE: test493, FALSE: test492
    faulty,     \* datagrams may be lost and overtaken
    stage,      \* stage[p]: where start() of p is
    pinger,     \* pinger[p]: its goroutine
    pinged,     \* pinged[p]: the variable of that name
    closes,     \* closes[p]: times pingCh was closed
    net,        \* net[p]: datagrams under way to p or in its socket
    got,        \* got[p]: what the last read returned
    pongLost,       \* history: a pong did not arrive
    helloIgnored    \* history: a Hello came before the pong and was ignored

setting == <<proceed, faulty>>
pingVars == <<setting, stage, pinger, pinged, closes, net, got, pongLost, helloIgnored>>

Stage == {"off", "sync", "pause", "greet", "read", "done", "failed"}

PingTypeOK ==
    /\ proceed \in BOOLEAN /\ faulty \in BOOLEAN
    /\ stage \in [Peer -> Stage]
    /\ pinger \in [Peer -> {"off", "start", "pinging", "ended"}]
    /\ pinged \in [Peer -> BOOLEAN]
    /\ closes \in [Peer -> Nat]
    /\ net \in [Peer -> Seq({"ping", "pong", "hello"})]
    /\ \A p \in Peer : Len(net[p]) <= NetCap + 2
    /\ got \in [Peer -> {"none", "ping", "pong", "hello"}]
    /\ pongLost \in BOOLEAN /\ helloIgnored \in BOOLEAN

PingInit ==
    /\ proceed \in BOOLEAN /\ faulty \in BOOLEAN
    /\ stage = [p \in Peer |-> "off"]
    /\ pinger = [p \in Peer |-> "off"]
    /\ pinged = [p \in Peer |-> FALSE]
    /\ closes = [p \in Peer |-> 0]
    /\ net = [p \in Peer |-> <<>>]
    /\ got = [p \in Peer |-> "none"]
    /\ pongLost = FALSE /\ helloIgnored = FALSE

Ended(p) == stage[p] \in {"done", "failed"}     \* its socket is closed
Bound(p) == stage[p] # "off" /\ ~Ended(p)

\* log.Fatal ends the program at the first error.
Up == \A p \in Peer : stage[p] # "failed"

Goto(p, s) == stage' = [stage EXCEPT ![p] = s]
Reaches(q, m) == Bound(q) /\ net' = [net EXCEPT ![q] = Append(@, m)]
Lost(q) == (faulty \/ ~Bound(q)) /\ UNCHANGED net

-----------------------------------------------------------------------------

\* start(): the socket, and the pinger.  B starts three seconds after A.
Start(p) ==
    /\ Up /\ stage[p] = "off"
    /\ p = "B" => stage["A"] # "off"
    /\ Goto(p, "sync")
    /\ pinger' = [pinger EXCEPT ![p] = "start"]
    /\ UNCHANGED <<setting, pinged, closes, net, got, pongLost, helloIgnored>>

\* A ping, the first or a later one.  Nothing is left of one that is lost.
Ping(p) ==
    /\ Up /\ Bound(p)
    /\ pinger[p] \in {"start", "pinging"}
    /\ pinger' = [pinger EXCEPT ![p] = "pinging"]
    /\ \/ Len(net[Other(p)]) < NetCap /\ Reaches(Other(p), "ping")
       \/ Lost(Other(p))
    /\ UNCHANGED <<setting, stage, pinged, closes, got, pongLost, helloIgnored>>

\* Mutant: the pong goes out unasked.
PongUnasked(p) ==
    /\ Up /\ Bound(p)
    /\ pinger[p] = "pinging"
    /\ pinger' = [pinger EXCEPT ![p] = "ended"]
    /\ \/ Reaches(Other(p), "pong") /\ UNCHANGED pongLost
       \/ Lost(Other(p)) /\ pongLost' = TRUE
    /\ UNCHANGED <<setting, stage, pinged, closes, got, helloIgnored>>

\* pingCh is closed: one pong, and the pinger ends.
Pong(p) ==
    /\ Up /\ Bound(p)
    /\ pinger[p] = "pinging" /\ closes[p] > 0
    /\ pinger' = [pinger EXCEPT ![p] = "ended"]
    /\ \/ Reaches(Other(p), "pong") /\ UNCHANGED pongLost
       \/ Lost(Other(p)) /\ pongLost' = TRUE
    /\ UNCHANGED <<setting, stage, pinged, closes, got, helloIgnored>>

\* p takes m out of its socket: the oldest datagram, or any if some are overtaken.
Receive(p, m) ==
    /\ Up
    /\ \E i \in DOMAIN net[p] :
          /\ faulty \/ i = 1
          /\ net[p][i] = m
          /\ net' = [net EXCEPT ![p] = RemoveAt(@, i)]

\* Mutant: pingCh is closed at every ping.
SyncPingAlways(p) ==
    /\ stage[p] = "sync" /\ Receive(p, "ping")
    /\ closes' = [closes EXCEPT ![p] = @ + 1]
    /\ pinged' = [pinged EXCEPT ![p] = TRUE]
    /\ UNCHANGED <<setting, stage, pinger, got, pongLost, helloIgnored>>

SyncPing(p) ==
    /\ stage[p] = "sync" /\ Receive(p, "ping")
    /\ closes' = IF pinged[p] THEN closes ELSE [closes EXCEPT ![p] = @ + 1]
    /\ pinged' = [pinged EXCEPT ![p] = TRUE]
    /\ UNCHANGED <<setting, stage, pinger, got, pongLost, helloIgnored>>

\* Mutants: the pong is not taken for a ping; it does not end the search.
SyncPongSilent(p) ==
    /\ stage[p] = "sync" /\ Receive(p, "pong")
    /\ Goto(p, IF proceed THEN "pause" ELSE "greet")
    /\ UNCHANGED <<setting, pinger, pinged, closes, got, pongLost, helloIgnored>>

SyncPongStays(p) ==
    /\ stage[p] = "sync" /\ Receive(p, "pong")
    /\ UNCHANGED <<setting, stage, pinger, pinged, closes, got, pongLost, helloIgnored>>

SyncPong(p) ==
    /\ stage[p] = "sync" /\ Receive(p, "pong")
    /\ closes' = IF proceed /\ ~pinged[p] THEN [closes EXCEPT ![p] = @ + 1] ELSE closes
    /\ Goto(p, IF proceed THEN "pause" ELSE "greet")
    /\ UNCHANGED <<setting, pinger, pinged, got, pongLost, helloIgnored>>

\* Anything else is ignored: a Hello that comes too early is lost.
SyncOther(p) ==
    /\ stage[p] = "sync" /\ Receive(p, "hello")
    /\ helloIgnored' = TRUE
    /\ UNCHANGED <<setting, stage, pinger, pinged, closes, got, pongLost>>

\* The pause of a second: a pong that is due is sent by then.
Pause(p) ==
    /\ Up /\ stage[p] = "pause"
    /\ closes[p] > 0 => pinger[p] = "ended"
    /\ Goto(p, IF proceed THEN "greet" ELSE "read")
    /\ UNCHANGED <<setting, pinger, pinged, closes, net, got, pongLost, helloIgnored>>

Greet(p) ==
    /\ Up /\ stage[p] = "greet"
    /\ Reaches(Other(p), "hello") \/ Lost(Other(p))
    /\ Goto(p, IF proceed THEN "read" ELSE "pause")
    /\ UNCHANGED <<setting, pinger, pinged, closes, got, pongLost, helloIgnored>>

\* The last read takes whatever comes.
ReadLast(p) ==
    /\ stage[p] = "read"
    /\ \E m \in {"ping", "pong", "hello"} : Receive(p, m) /\ got' = [got EXCEPT ![p] = m]
    /\ Goto(p, "done")
    /\ UNCHANGED <<setting, pinger, pinged, closes, pongLost, helloIgnored>>

\* test493 only: three seconds without a datagram.
ReadLastTimeout(p) ==
    /\ Up /\ proceed /\ stage[p] = "read"
    /\ \A r \in Peer : net[r] = <<>>
    /\ stage[Other(p)] \notin {"pause", "greet"}
    /\ Goto(p, "failed")
    /\ UNCHANGED <<setting, pinger, pinged, closes, net, got, pongLost, helloIgnored>>

\* Both have returned, or the program was ended.
Exited == (~Up \/ \A p \in Peer : stage[p] = "done") /\ UNCHANGED pingVars

Main(p) ==
    \/ Start(p) \/ SyncPing(p) \/ SyncPong(p) \/ SyncOther(p)
    \/ Pause(p) \/ Greet(p) \/ ReadLast(p) \/ ReadLastTimeout(p)

PingNext == (\E p \in Peer : Main(p) \/ Ping(p) \/ Pong(p)) \/ Exited

\* Both goroutines of a peer run, time passes, and not every ping is lost.
PingSpec ==
    /\ PingInit /\ [][PingNext]_pingVars
    /\ \A p \in Peer : WF_pingVars(Main(p)) /\ WF_pingVars(Ping(p)) /\ WF_pingVars(Pong(p))

-----------------------------------------------------------------------------

Synced(p) == stage[p] \notin {"off", "sync"}

\* pingCh is never closed twice, which would panic, whatever the order of pings
\* and pongs (492: 92-96, 493: 92-105).
ClosedOnce == \A p \in Peer : closes[p] <= 1

\* A peer that has got a pong has been heard by the other side: both directions
\* work (492: 91-104, 493: 91-109).
SyncedMeansHeard ==
    \A p \in Peer : Synced(p) =>
        /\ pinged[Other(p)] \/ (proceed /\ Synced(Other(p)))
        /\ \E r \in Peer : pinged[r]

\* On any link, the peers of test493 are kept from finding each other only by the
\* loss of a pong, which is sent once (75, 98-105).
SearchEndsUnlessPongLost ==
    \A p \in Peer : proceed /\ stage[p] = "sync" ~> Synced(p) \/ pongLost

\* On a link that loses and reorders nothing both peers of test493 finish, and the
\* last read of each returns the other's Hello and no late ping or pong (111-127).
\* test492 hangs there only if a Hello found the other peer still waiting for its pong,
\* and was ignored: its sender will never answer, having heard no ping before the pong,
\* or its Hello went out ahead of its own pong (492: 74-75, 98-107).
PerfectLinkEnds ==
    /\ <>(proceed /\ ~faulty => \A p \in Peer : stage[p] = "done" /\ got[p] = "hello")
    /\ <>(~proceed /\ ~faulty => helloIgnored \/ \A p \in Peer : stage[p] = "done")
=============================================================================
