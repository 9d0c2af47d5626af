------------------------------ MODULE HolePunch ------------------------------
(***************************************************************************)
(* test483-udp_hole_punching: two clients that know a common key find each *)
(* other through a server, and then greet each other every second until    *)
(* the greetings pass the address translators (NAT) on both sides.         *)
(*                                                                         *)
(* The link may lose and repeat datagrams, and a client may be started     *)
(* again from the same address.  Errors of the sockets are left out.       *)
(***************************************************************************)
EXTENDS Naturals, Sequences, FiniteSets

CONSTANTS
    Users,          \* the clients, each with an address of its own
    Names,          \* the keys
    NoPeer,         \* not known yet
    MaxExtra        \* bound on repeated datagrams and restarts

ASSUME PunchAssumption == NoPeer \notin Users /\ MaxExtra \in Nat

VARIABLES
    keyOf,          \* keyOf[u]: the key the client u is given
    place,          \* place[u]: where the client is
    peerOf,         \* peerOf[u]: peerAddr of its Start
    requests,       \* clients whose keys are on their way to the server
    peersStore,     \* peersStore[k]: the addresses that wait under key k
    responses,      \* <<u, p>>: the address p on its way to u
    holes,          \* <<u, p>>: u has sent to p, so that its NAT lets p in
    heard,          \* clients that a greeting has reached
    extra,          \* repeated datagrams and restarts so far
    again,          \* history: clients whose key may arrive more than once
    lost            \* history: keys under which a key or an address was lost

punchVars == <<keyOf, place, peerOf, requests, peersStore, responses, holes, heard,
               extra, again, lost>>

PunchInit ==
    /\ keyOf \in [Users -> Names]
    /\ place = [u \in Users |-> "off"]
    /\ peerOf = [u \in Users |-> NoPeer]
    /\ requests = {} /\ responses = {}
    /\ peersStore = [k \in Names |-> <<>>]
    /\ holes = {} /\ heard = {}
    /\ extra = 0 /\ again = {} /\ lost = {}

-----------------------------------------------------------------------------
(* The server.                                                              *)

\* The key of u is taken from those on their way, or is to arrive once more.
Receives(u) ==
    \/ requests' = requests \ {u} /\ UNCHANGED <<extra, again>>
    \/ /\ extra < MaxExtra /\ extra' = extra + 1 /\ again' = again \union {u}
       /\ UNCHANGED requests

\* Mutant: the second of a pair also waits for another one.
RegisterChained(u) ==
    /\ u \in requests
    /\ Receives(u)
    /\ LET k == keyOf[u]
           peers == Append(peersStore[k], u)
       IN  IF Len(peers) = 2
           THEN /\ responses' = responses \union {<<peers[2], peers[1]>>, <<peers[1], peers[2]>>}
                /\ peersStore' = [peersStore EXCEPT ![k] = Tail(peers)]
           ELSE /\ peersStore' = [peersStore EXCEPT ![k] = peers]
                /\ UNCHANGED responses
    /\ UNCHANGED <<keyOf, place, peerOf, holes, heard, lost>>

Register(u) ==
    /\ u \in requests
    /\ Receives(u)
    /\ LET k == keyOf[u]
           peers == Append(peersStore[k], u)
       IN  IF Len(peers) = 2
           THEN /\ responses' = responses \union {<<peers[2], peers[1]>>, <<peers[1], peers[2]>>}
                /\ peersStore' = [peersStore EXCEPT ![k] = <<>>]
           ELSE /\ peersStore' = [peersStore EXCEPT ![k] = peers]
                /\ UNCHANGED responses
    /\ UNCHANGED <<keyOf, place, peerOf, holes, heard, lost>>

-----------------------------------------------------------------------------
(* A client.                                                                *)

\* rendezvous, up to its only Read.
Rendezvous(u) ==
    /\ place[u] = "off"
    /\ place' = [place EXCEPT ![u] = "waiting"]
    /\ requests' = requests \union {u}
    /\ UNCHANGED <<keyOf, peerOf, peersStore, responses, holes, heard, extra, again, lost>>

\* The address of the peer arrives, which also ends rendezvous.
Learn(u, p) ==
    /\ place[u] = "waiting" /\ <<u, p>> \in responses
    /\ place' = [place EXCEPT ![u] = "punching"]
    /\ peerOf' = [peerOf EXCEPT ![u] = p]
    /\ responses' = responses \ {<<u, p>>}
    /\ UNCHANGED <<keyOf, requests, peersStore, holes, heard, extra, again, lost>>

\* A greeting is sent, and opens the own NAT.
Punch(u) ==
    /\ place[u] = "punching"
    /\ holes' = holes \union {<<u, peerOf[u]>>}
    /\ UNCHANGED <<keyOf, place, peerOf, requests, peersStore, responses, heard, extra, again, lost>>

\* One of the greetings passes the NAT of the peer while the peer listens.
Greet(u) ==
    /\ place[u] = "punching" /\ place[peerOf[u]] = "punching"
    /\ <<peerOf[u], u>> \in holes
    /\ heard' = heard \union {peerOf[u]}
    /\ UNCHANGED <<keyOf, place, peerOf, requests, peersStore, responses, holes, extra, again, lost>>

Restart(u) ==
    /\ place[u] # "off" /\ extra < MaxExtra
    /\ extra' = extra + 1 /\ again' = again \union {u}
    /\ place' = [place EXCEPT ![u] = "off"]
    /\ peerOf' = [peerOf EXCEPT ![u] = NoPeer]
    /\ heard' = heard \ {u}
    /\ UNCHANGED <<keyOf, requests, peersStore, responses, holes, lost>>

\* The link loses a key or an address, or the address finds nobody who waits for it.
LoseAny ==
    /\ \/ \E u \in requests :
             requests' = requests \ {u} /\ lost' = lost \union {keyOf[u]} /\ UNCHANGED responses
       \/ \E m \in responses :
             responses' = responses \ {m} /\ lost' = lost \union {keyOf[m[1]]} /\ UNCHANGED requests
    /\ UNCHANGED <<keyOf, place, peerOf, peersStore, holes, heard, extra, again>>

-----------------------------------------------------------------------------

PunchSteps(u) ==
    Rendezvous(u) \/ Register(u) \/ Punch(u) \/ Greet(u) \/ \E p \in Users : Learn(u, p)

PunchNext == LoseAny \/ \E u \in Users : PunchSteps(u) \/ Restart(u)

\* Clients start, the server and the timers run, and not every greeting is lost.
PunchFairness ==
    \A u \in Users :
        /\ WF_punchVars(Rendezvous(u)) /\ WF_punchVars(Register(u))
        /\ WF_punchVars(Punch(u)) /\ WF_punchVars(Greet(u))
        /\ WF_punchVars(\E p \in Users : Learn(u, p))

-----------------------------------------------------------------------------

\* A client is paired with itself only if its own key arrived twice; otherwise its peer
\* knows of it or of nobody, unless that peer's key arrived twice, whatever the other
\* clients repeat (server.go 31-46).
PairedAlike ==
    \A u \in Users \ again, p \in Users : peerOf[u] = p =>
        p # u /\ (p \notin again => peerOf[p] \in {u, NoPeer})

\* A key that nothing was lost or came twice under.
Undisturbed(k) == k \notin lost /\ \A u \in again : keyOf[u] # k

\* And all clients but one at most of each key hear their peer through both NATs, although
\* rendezvous asks only once, if no key or address of a client with that key is lost or
\* comes twice: the clients of one key do not suffer from those of another
\* (client.go 62-92).
PairsMeet ==
    /\ []PairedAlike
    /\ \A k \in Names :
          <>[](Undisturbed(k) => Cardinality({u \in Users \ heard : keyOf[u] = k}) <= 1)
=============================================================================
