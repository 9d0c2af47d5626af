----------------------------- MODULE AtomicMap ------------------------------
(***************************************************************************)
(* What the key-value actor of test816 promises its callers: a map on      *)
(* which every call takes effect at one instant between its start and its  *)
(* return, until it is closed.  A call started after that never returns.   *)
(***************************************************************************)
CONSTANTS Clients, Keys, Values, Absent

VARIABLES
    map,        \* the value of each key, or Absent
    call,       \* call[c]: the call client c is in
    closed

NoCall == [op |-> "none"]
Close  == [op |-> "close"]
Store(k, v) == [op |-> "store", key |-> k, value |-> v]
Fetch(k)    == [op |-> "fetch", key |-> k]
Answer(v)   == [op |-> "answer", value |-> v]

Request ==
    {Close} \union {Store(k, v) : k \in Keys, v \in Values} \union {Fetch(k) : k \in Keys}

Init ==
    /\ map = [k \in Keys |-> Absent]
    /\ call = [c \in Clients |-> NoCall]
    /\ closed = FALSE

Become(c, from, to) == call[c] = from /\ call' = [call EXCEPT ![c] = to]

Invoke(c) ==
    /\ \E r \in Request : Become(c, NoCall, r)
    /\ UNCHANGED <<map, closed>>

\* A store takes effect and returns; a fetch takes its answer, and returns later.
DoStore(c) ==
    /\ ~closed
    /\ \E k \in Keys, v \in Values :
          /\ Become(c, Store(k, v), NoCall)
          /\ map' = [map EXCEPT ![k] = v]
    /\ UNCHANGED closed

DoFetch(c) ==
    /\ ~closed
    /\ \E k \in Keys : Become(c, Fetch(k), Answer(map[k]))
    /\ UNCHANGED <<map, closed>>

Return(c) ==
    /\ \E v \in Values \union {Absent} : Become(c, Answer(v), NoCall)
    /\ UNCHANGED <<map, closed>>

DoClose(c) ==
    /\ ~closed /\ closed' = TRUE
    /\ Become(c, Close, NoCall)
    /\ UNCHANGED map

Next == \E c \in Clients :
    Invoke(c) \/ DoStore(c) \/ DoFetch(c) \/ Return(c) \/ DoClose(c)

Spec == Init /\ [][Next]_<<map, call, closed>>
=============================================================================
