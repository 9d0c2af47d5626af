-------------------------------- MODULE Kvs ---------------------------------
(***************************************************************************)
(* test816-golang_chan_comm/kvs: a map owned by one goroutine, the actor,  *)
(* which takes stores, queries and the order to stop over three unbuffered *)
(* channels.  Store returns when the actor has received the entry, which   *)
(* is before the entry is in the map; Fetch waits for a response on a      *)
(* channel of its own.                                                     *)
(***************************************************************************)
EXTENDS Naturals

CONSTANTS
    Clients, Keys, Values,
    Absent,         \* the "" of a key that is not there (ok = false)
    MaxCalls        \* bound on the calls of each client

ASSUME ConstantsAssumption == Absent \notin Values /\ MaxCalls \in Nat

VARIABLES
    db,         \* the actor's map
    actor,      \* what the actor is doing
    call,       \* call[c]: the call client c is blocked in
    calls       \* calls[c]: calls c has made

vars == <<db, actor, call, calls>>

NoCall == [op |-> "none"]
Close  == [op |-> "close"]
Store(k, v) == [op |-> "store", key |-> k, value |-> v]
Fetch(k)    == [op |-> "fetch", key |-> k]
Awaiting    == [op |-> "await"]         \* the response to a query

Request ==
    {Close} \union {Store(k, v) : k \in Keys, v \in Values} \union {Fetch(k) : k \in Keys}

\* Blocked in select; about to write an entry; sending a response; returned.
Selecting     == [at |-> "select"]
Storing(k, v) == [at |-> "store", key |-> k, value |-> v]
Replying(c, v) == [at |-> "reply", client |-> c, value |-> v]
Gone          == [at |-> "gone"]

ActorState ==
    {Selecting, Gone} \union {Storing(k, v) : k \in Keys, v \in Values}
        \union {Replying(c, v) : c \in Clients, v \in Values \union {Absent}}

TypeOK ==
    /\ db \in [Keys -> Values \union {Absent}]
    /\ actor \in ActorState
    /\ call \in [Clients -> Request \union {NoCall, Awaiting}]
    /\ calls \in [Clients -> 0 .. MaxCalls]

\* New.
Init ==
    /\ db = [k \in Keys |-> Absent]
    /\ actor = Selecting
    /\ call = [c \in Clients |-> NoCall]
    /\ calls = [c \in Clients |-> 0]

Become(c, from, to) == call[c] = from /\ call' = [call EXCEPT ![c] = to]

\* A client calls Store, Fetch or Close, and blocks on the channel.
Invoke(c) ==
    /\ calls[c] < MaxCalls
    /\ calls' = [calls EXCEPT ![c] = @ + 1]
    /\ \E r \in Request : Become(c, NoCall, r)
    /\ UNCHANGED <<db, actor>>

\* `kv := <-d.storeCh`: Store returns.
TakeStore(c) ==
    /\ actor = Selecting
    /\ \E k \in Keys, v \in Values :
          Become(c, Store(k, v), NoCall) /\ actor' = Storing(k, v)
    /\ UNCHANGED <<db, calls>>

\* Mutants: an entry that is there already is kept; the loop is not resumed.
WriteOnce ==
    /\ \E k \in Keys, v \in Values :
          /\ actor = Storing(k, v)
          /\ db' = [db EXCEPT ![k] = IF @ = Absent THEN v ELSE @]
    /\ actor' = Selecting
    /\ UNCHANGED <<call, calls>>

WriteAndStop ==
    /\ \E k \in Keys, v \in Values :
          actor = Storing(k, v) /\ db' = [db EXCEPT ![k] = v]
    /\ UNCHANGED <<actor, call, calls>>

\* `db[kv.key] = kv.value`.
Write ==
    /\ \E k \in Keys, v \in Values :
          actor = Storing(k, v) /\ db' = [db EXCEPT ![k] = v]
    /\ actor' = Selecting
    /\ UNCHANGED <<call, calls>>

\* `q := <-d.queryCh` and the lookup.
TakeQuery(c) ==
    /\ actor = Selecting
    /\ \E k \in Keys : Become(c, Fetch(k), Awaiting) /\ actor' = Replying(c, db[k])
    /\ UNCHANGED <<db, calls>>

\* `q.respCh <- response{...}`: Fetch returns.
Reply(c) ==
    /\ \E v \in Values \union {Absent} : actor = Replying(c, v)
    /\ Become(c, Awaiting, NoCall)
    /\ actor' = Selecting
    /\ UNCHANGED <<db, calls>>

\* `<-d.closeCh`: Close returns, and the actor ends.
TakeClose(c) ==
    /\ actor = Selecting /\ actor' = Gone
    /\ Become(c, Close, NoCall)
    /\ UNCHANGED <<db, calls>>

Actor == Write \/ \E c \in Clients : TakeStore(c) \/ TakeQuery(c) \/ Reply(c) \/ TakeClose(c)

Next == (\E c \in Clients : Invoke(c)) \/ Actor

\* The actor runs whenever it can; nobody has to call it.
Spec == Init /\ [][Next]_vars /\ WF_vars(Actor)

-----------------------------------------------------------------------------

\* The actor is answering a query exactly when a client awaits the response:
\* there is at most one, and the actor never leaves it behind (39-44, 61-66).
AnswersOneAwaiting ==
    \A c \in Clients : call[c] = Awaiting <=> \E v \in Values \union {Absent} : actor = Replying(c, v)

\* The map the callers see: a stored entry counts from the moment Store returns.
Seen == IF actor.at = "store" THEN [db EXCEPT ![actor.key] = actor.value] ELSE db
Pending(c) == IF call[c] = Awaiting THEN [op |-> "answer", value |-> actor.value] ELSE call[c]

\* The actor is an atomic map for all its callers, although Store returns before
\* the entry is written: no later Fetch misses it (34-46, 57-66).
Atomic == INSTANCE AtomicMap WITH
    map <- Seen, call <- [c \in Clients |-> Pending(c)], closed <- actor = Gone
ImplementsAtomicMap == Atomic!Spec

\* Every call returns unless the database is closed; a query the actor has taken
\* is answered even then.  Calls that meet a closed database block for ever (52-66).
ServedUnlessClosed ==
    \A c \in Clients :
        /\ call[c] # NoCall ~> call[c] = NoCall \/ actor = Gone
        /\ call[c] = Awaiting ~> call[c] = NoCall
=============================================================================
