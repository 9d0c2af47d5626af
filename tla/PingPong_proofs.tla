--------------------------- MODULE PingPong_proofs ---------------------------
(***************************************************************************)
(* Proofs about PingPong, for both programs, any link and any bound on     *)
(* queues.                                                                 *)
(***************************************************************************)
EXTENDS PingPong, SequenceTheorems, TLAPS

Message == {"ping", "pong", "hello"}
Has(p, m) == \E i \in DOMAIN net[p] : net[p][i] = m

\* A peer has closed pingCh once if it was pinged, or took a pong for a ping;
\* otherwise it has not closed it.
ClosedWhenHeard ==
    \A p \in Peer : closes[p] = IF pinged[p] \/ (proceed /\ Synced(p)) THEN 1 ELSE 0

\* A pong on its way was sent by a peer that was heard, and the first peer to be heard
\* was heard by a ping.
PongMeansHeard ==
    /\ \A p \in Peer : pinger[p] = "ended" => closes[p] > 0
    /\ \A p \in Peer : Has(p, "pong") \/ Synced(p) => pinger[Other(p)] = "ended"
    /\ \A p \in Peer : closes[p] > 0 => \E r \in Peer : pinged[r]

\* A peer sends one pong and one Hello; pings do not fill the last two places.
Greeted(p) == stage[p] \in {"read", "done", "failed"} \/ (stage[p] = "pause" /\ ~proceed)
Room(p) ==
    NetCap + (IF pinger[Other(p)] = "ended" THEN 1 ELSE 0) + (IF Greeted(Other(p)) THEN 1 ELSE 0)
PlaceLeft == \A p \in Peer : Len(net[p]) <= Room(p)

\* The pinger is started with its peer.
NotStarted == \A p \in Peer : stage[p] = "off" => pinger[p] = "off"

IInv == PingTypeOK /\ ClosedWhenHeard /\ PongMeansHeard /\ PlaceLeft /\ NotStarted

-----------------------------------------------------------------------------

LEMMA OtherPeer == \A p \in Peer : Other(p) \in Peer /\ Other(p) # p /\ Other(Other(p)) = p
BY DEF Peer, Other

\* Taking a datagram out of a queue leaves the others.
LEMMA RemoveOne ==
    ASSUME NEW S, NEW s \in Seq(S), NEW i \in DOMAIN s
    PROVE  /\ RemoveAt(s, i) \in Seq(S)
           /\ Len(RemoveAt(s, i)) = Len(s) - 1
           /\ \A k \in DOMAIN RemoveAt(s, i) : \E j \in DOMAIN s : RemoveAt(s, i)[k] = s[j]
<1> DEFINE a == SubSeq(s, 1, i - 1)
           b == SubSeq(s, i + 1, Len(s))
<1>1. i \in 1 .. Len(s) /\ Len(s) \in Nat
  OBVIOUS
<1>2. /\ a \in Seq(S) /\ Len(a) = i - 1
      /\ \A k \in 1 .. i - 1 : a[k] = s[k]
  BY <1>1
<1>3. /\ b \in Seq(S) /\ Len(b) = Len(s) - i
      /\ \A k \in 1 .. Len(s) - i : b[k] = s[i + k]
  BY <1>1
<1> DEFINE c == a \o b
<1>4. RemoveAt(s, i) = c
  BY DEF RemoveAt
<1> HIDE DEF a, b
<1>5. /\ c \in Seq(S) /\ Len(c) = Len(s) - 1
      /\ DOMAIN c = 1 .. Len(s) - 1
      /\ \A k \in 1 .. Len(s) - 1 : c[k] = IF k <= i - 1 THEN a[k] ELSE b[k - (i - 1)]
  <2>1. Len(a) + Len(b) = Len(s) - 1 /\ Len(a) = i - 1
    BY <1>1, <1>2, <1>3
  <2>2. /\ c \in Seq(S) /\ Len(c) = Len(a) + Len(b)
        /\ \A k \in 1 .. Len(a) + Len(b) : c[k] = IF k <= Len(a) THEN a[k] ELSE b[k - Len(a)]
    BY <1>2, <1>3, ConcatProperties
  <2> HIDE DEF c
  <2>3. DOMAIN c = 1 .. Len(c)
    BY <2>2
  <2> QED
    BY <2>1, <2>2, <2>3
<1> HIDE DEF c
<1>6. ASSUME NEW k \in 1 .. Len(s) - 1
      PROVE  \E j \in DOMAIN s : c[k] = s[j]
  <2>1. CASE k <= i - 1
    BY <1>1, <1>2, <1>5, <2>1
  <2>2. CASE k > i - 1
    <3>1. k - (i - 1) \in 1 .. Len(s) - i /\ k + 1 \in DOMAIN s
      BY <1>1, <2>2
    <3>2. i + (k - (i - 1)) = k + 1 /\ ~(k <= i - 1)
      BY <1>1, <2>2
    <3>3. c[k] = s[k + 1]
      BY <1>3, <1>5, <3>1, <3>2
    <3> QED
      BY <3>1, <3>3
  <2>3. i - 1 \in Int /\ k \in Int
    BY <1>1
  <2> QED
    BY <2>1, <2>2, <2>3
<1> QED
  BY <1>4, <1>5, <1>6

\* What Receive does to the queues.
LEMMA ReceiveEffect ==
    ASSUME PingTypeOK, NEW p \in Peer, NEW m, Receive(p, m)
    PROVE  /\ net' \in [Peer -> Seq(Message)]
           /\ \A q \in Peer : Len(net'[q]) <= Len(net[q])
           /\ \A q \in Peer : Has(q, "pong")' => Has(q, "pong")
           /\ Has(p, m)
<1>1. PICK i \in DOMAIN net[p] : net[p][i] = m /\ net' = [net EXCEPT ![p] = RemoveAt(@, i)]
  BY DEF Receive
<1>2. net \in [Peer -> Seq(Message)]
  BY DEF PingTypeOK, Message
<1>3. net[p] \in Seq(Message) /\ net'[p] = RemoveAt(net[p], i)
  BY <1>1, <1>2
<1>4. \A q \in Peer : q # p => net'[q] = net[q]
  BY <1>1, <1>2
<1>5. /\ net'[p] \in Seq(Message) /\ Len(net'[p]) <= Len(net[p])
      /\ \A k \in DOMAIN net'[p] : \E j \in DOMAIN net[p] : net'[p][k] = net[p][j]
  <2>1. Len(net[p]) - 1 <= Len(net[p])
    BY <1>3
  <2> QED
    BY <1>3, <2>1, RemoveOne
<1>6. net' \in [Peer -> Seq(Message)]
  BY <1>1, <1>2, <1>3, <1>5
<1>7. \A q \in Peer : Len(net'[q]) <= Len(net[q])
  <2> SUFFICES ASSUME NEW q \in Peer PROVE Len(net'[q]) <= Len(net[q])
    OBVIOUS
  <2>1. net[q] \in Seq(Message)
    BY <1>2
  <2> QED
    BY <1>4, <1>5, <2>1
<1>8. \A q \in Peer : Has(q, "pong")' => Has(q, "pong")
  BY <1>4, <1>5 DEF Has
<1> QED
  BY <1>1, <1>6, <1>7, <1>8 DEF Has

\* What a datagram that is sent does to the queues, whether it arrives or not.
LEMMA SendEffect ==
    ASSUME PingTypeOK, NEW q \in Peer, NEW m \in Message, Reaches(q, m) \/ Lost(q)
    PROVE  /\ net' \in [Peer -> Seq(Message)]
           /\ Len(net'[q]) <= Len(net[q]) + 1
           /\ \A r \in Peer \ {q} : net'[r] = net[r]
           /\ \A r \in Peer : Has(r, "pong")' => Has(r, "pong") \/ (r = q /\ m = "pong")
<1>1. net \in [Peer -> Seq(Message)] /\ net[q] \in Seq(Message)
  BY DEF PingTypeOK, Message
<1>2. CASE net' = net
  BY <1>1, <1>2 DEF Has
<1>3. CASE net' = [net EXCEPT ![q] = Append(@, m)]
  <2>1. net'[q] = Append(net[q], m) /\ \A r \in Peer \ {q} : net'[r] = net[r]
    BY <1>1, <1>3
  <2>2. net' \in [Peer -> Seq(Message)] /\ Len(net'[q]) = Len(net[q]) + 1
    BY <1>1, <1>3, <2>1
  <2>3. Has(q, "pong")' => Has(q, "pong") \/ m = "pong"
    BY <1>1, <2>1 DEF Has
  <2>4. \A r \in Peer \ {q} : Has(r, "pong")' => Has(r, "pong")
    BY <2>1 DEF Has
  <2>5. Len(net'[q]) <= Len(net[q]) + 1
    BY <1>1, <2>2
  <2> QED
    BY <2>1, <2>2, <2>3, <2>4, <2>5
<1> QED
  BY <1>2, <1>3 DEF Reaches, Lost

-----------------------------------------------------------------------------

LEMMA InitIInv == PingInit => IInv
<1> SUFFICES ASSUME PingInit PROVE IInv
  OBVIOUS
<1>1. PingTypeOK
  <2>1. net \in [Peer -> Seq(Message)] /\ \A p \in Peer : Len(net[p]) = 0
    BY EmptySeq DEF PingInit
  <2>2. \A p \in Peer : Len(net[p]) <= NetCap + 2
    BY <2>1, NetCapAssumption
  <2> QED
    BY <2>1, <2>2 DEF PingInit, PingTypeOK, Stage, Message
<1>2. ClosedWhenHeard
  BY DEF PingInit, ClosedWhenHeard, Synced
<1>3. PongMeansHeard /\ PlaceLeft /\ NotStarted
  BY NetCapAssumption, OtherPeer DEF PingInit, PongMeansHeard, PlaceLeft, Room, Greeted, Has, Synced,
    NotStarted
<1> QED
  BY <1>1, <1>2, <1>3 DEF IInv

-----------------------------------------------------------------------------

\* What a step may do to the pingers, the channels and the pongs under way: a pong
\* is sent by a peer that was heard, and a search ends on a pong that was under way.
LEMMA HeardKept ==
    ASSUME IInv, PingTypeOK',
           \A p \in Peer : pinger[p] = "ended" => pinger'[p] = "ended",
           \A p \in Peer : pinger'[p] = "ended" => pinger[p] = "ended" \/ closes[p] > 0,
           \A p \in Peer : closes[p] > 0 => closes'[p] > 0,
           \A p \in Peer : pinged[p] => pinged'[p],
           \A p \in Peer : Has(p, "pong")' => Has(p, "pong") \/ pinger'[Other(p)] = "ended",
           \A p \in Peer : Synced(p)' => Synced(p) \/ Has(p, "pong"),
           \A p \in Peer : closes'[p] > 0 => closes[p] > 0 \/ pinged'[p] \/ Has(p, "pong")
    PROVE  PongMeansHeard'
<1>0. PongMeansHeard
  BY DEF IInv
<1>1. \A p \in Peer : pinger'[p] = "ended" => closes'[p] > 0
  BY <1>0 DEF PongMeansHeard
<1>2. \A p \in Peer : Has(p, "pong")' \/ Synced(p)' => pinger'[Other(p)] = "ended"
  BY <1>0, OtherPeer DEF PongMeansHeard
<1>3. \A p \in Peer : closes'[p] > 0 => \E r \in Peer : pinged'[r]
  <2> SUFFICES ASSUME NEW p \in Peer, closes'[p] > 0 PROVE \E r \in Peer : pinged'[r]
    OBVIOUS
  <2>1. CASE pinged'[p]
    BY <2>1
  <2>2. CASE closes[p] > 0
    BY <1>0, <2>2 DEF PongMeansHeard
  <2>3. CASE Has(p, "pong")
    <3>1. Other(p) \in Peer /\ closes[Other(p)] > 0
      BY <1>0, <2>3, OtherPeer DEF PongMeansHeard
    <3> QED
      BY <1>0, <3>1 DEF PongMeansHeard
  <2> QED
    BY <2>1, <2>2, <2>3
<1> QED
  BY <1>1, <1>2, <1>3 DEF PongMeansHeard

\* A queue grows by a ping that found it short, or by the one pong or the one Hello of
\* the other peer.
LEMMA PlaceKept ==
    ASSUME IInv, net' \in [Peer -> Seq(Message)],
           \A q \in Peer : pinger[q] = "ended" => pinger'[q] = "ended",
           \A q \in Peer : Greeted(q) => Greeted(q)',
           \A q \in Peer :
               \/ Len(net'[q]) <= Len(net[q])
               \/ /\ Len(net'[q]) <= Len(net[q]) + 1
                  /\ \/ Len(net[q]) < NetCap
                     \/ pinger[Other(q)] # "ended" /\ pinger'[Other(q)] = "ended"
                     \/ ~Greeted(Other(q)) /\ Greeted(Other(q))'
    PROVE  PlaceLeft'
<1> SUFFICES ASSUME NEW q \in Peer PROVE Len(net'[q]) <= Room(q)'
  BY DEF PlaceLeft
<1>1. /\ Len(net[q]) <= Room(q) /\ Len(net[q]) \in Nat /\ Len(net'[q]) \in Nat
      /\ NetCap \in Nat /\ Other(q) \in Peer
  BY OtherPeer, NetCapAssumption DEF IInv, PlaceLeft, PingTypeOK
<1>2. Room(q) \in Nat /\ Room(q)' \in Nat /\ Room(q) <= Room(q)' /\ NetCap <= Room(q)'
  BY <1>1 DEF Room
<1>3. ASSUME \/ pinger[Other(q)] # "ended" /\ pinger'[Other(q)] = "ended"
             \/ ~Greeted(Other(q)) /\ Greeted(Other(q))'
      PROVE  Room(q) + 1 <= Room(q)'
  BY <1>1, <1>3 DEF Room
<1> QED
  BY <1>1, <1>2, <1>3

\* A move of p to the place s, which touches neither pinged nor closes.
LEMMA MovesOn ==
    ASSUME IInv, NEW p \in Peer, NEW s \in Stage, Goto(p, s),
           Synced(p) <=> s \notin {"off", "sync"},
           UNCHANGED <<proceed, pinged, closes>>
    PROVE  /\ stage' \in [Peer -> Stage] /\ stage'[p] = s
           /\ \A q \in Peer \ {p} : stage'[q] = stage[q]
           /\ \A q \in Peer : Synced(q)' <=> Synced(q)
           /\ ClosedWhenHeard'
<1>1. stage' = [stage EXCEPT ![p] = s] /\ stage \in [Peer -> Stage] /\ ClosedWhenHeard
  BY DEF Goto, IInv, PingTypeOK
<1>2. stage' \in [Peer -> Stage] /\ stage'[p] = s /\ \A q \in Peer \ {p} : stage'[q] = stage[q]
  BY <1>1
<1>3. \A q \in Peer : Synced(q)' <=> Synced(q)
  BY <1>2 DEF Synced
<1> QED
  BY <1>1, <1>2, <1>3 DEF ClosedWhenHeard

\* The type of the queues follows from the room in them.
LEMMA TypedStep ==
    ASSUME PlaceLeft', net' \in [Peer -> Seq(Message)],
           proceed' \in BOOLEAN, faulty' \in BOOLEAN, stage' \in [Peer -> Stage],
           pinger' \in [Peer -> {"off", "start", "pinging", "ended"}],
           pinged' \in [Peer -> BOOLEAN], closes' \in [Peer -> Nat],
           got' \in [Peer -> {"none", "ping", "pong", "hello"}],
           pongLost' \in BOOLEAN, helloIgnored' \in BOOLEAN
    PROVE  PingTypeOK'
<1>1. \A p \in Peer : Len(net'[p]) <= NetCap + 2
  <2> SUFFICES ASSUME NEW p \in Peer PROVE Len(net'[p]) <= NetCap + 2
    OBVIOUS
  <2>1. Len(net'[p]) \in Nat /\ NetCap \in Nat /\ Len(net'[p]) <= Room(p)'
    BY NetCapAssumption DEF PlaceLeft
  <2>2. Room(p)' \in Nat /\ Room(p)' <= NetCap + 2
    BY <2>1 DEF Room
  <2> QED
    BY <2>1, <2>2
<1> QED
  BY <1>1 DEF PingTypeOK, Message

LEMMA StepIInv == IInv /\ [PingNext]_pingVars => IInv'
<1> SUFFICES ASSUME IInv, [PingNext]_pingVars PROVE IInv'
  OBVIOUS
<1>0. PingTypeOK /\ ClosedWhenHeard /\ NotStarted /\ PlaceLeft
  BY DEF IInv
<1>T. /\ net \in [Peer -> Seq(Message)] /\ stage \in [Peer -> Stage] /\ closes \in [Peer -> Nat]
      /\ pinger \in [Peer -> {"off", "start", "pinging", "ended"}]
      /\ pinged \in [Peer -> BOOLEAN] /\ proceed \in BOOLEAN
      /\ got \in [Peer -> {"none", "ping", "pong", "hello"}]
  BY <1>0 DEF PingTypeOK, Message
<1>1. ASSUME NEW p \in Peer, Start(p) PROVE IInv'
  <2>1. /\ stage' \in [Peer -> Stage] /\ ClosedWhenHeard' /\ stage'[p] = "sync"
        /\ \A q \in Peer \ {p} : stage'[q] = stage[q]
        /\ \A q \in Peer : Synced(q)' <=> Synced(q)
    BY <1>1, MovesOn DEF Start, Synced, Stage, setting
  <2>2. pinger' = [pinger EXCEPT ![p] = "start"] /\ pinger[p] = "off"
    BY <1>0, <1>1 DEF Start, NotStarted
  <2>3. PlaceLeft'
    BY <1>1, <1>T, <2>1, <2>2, PlaceKept DEF Start, setting, Greeted
  <2>4. PingTypeOK'
    BY <1>0, <1>1, <1>T, <2>1, <2>2, <2>3, TypedStep DEF Start, setting, PingTypeOK
  <2>5. PongMeansHeard'
    BY <1>1, <1>T, <2>1, <2>2, <2>4, HeardKept DEF Start, Has
  <2>6. NotStarted'
    BY <1>0, <1>T, <2>1, <2>2 DEF NotStarted
  <2> QED
    BY <2>1, <2>3, <2>4, <2>5, <2>6 DEF IInv
<1>2. ASSUME NEW p \in Peer, Ping(p) PROVE IInv'
  <2>1. /\ pinger' = [pinger EXCEPT ![p] = "pinging"] /\ pinger[p] \in {"start", "pinging"}
        /\ stage[p] # "off"
        /\ UNCHANGED <<proceed, faulty, stage, pinged, closes, got, pongLost, helloIgnored>>
    BY <1>2 DEF Ping, setting, Bound
  <2>2. /\ net' \in [Peer -> Seq(Message)]
        /\ \A q \in Peer : \/ net'[q] = net[q]
                           \/ Len(net'[q]) <= Len(net[q]) + 1 /\ Len(net[q]) < NetCap
        /\ \A q \in Peer : Has(q, "pong")' => Has(q, "pong")
    <3>1. Other(p) \in Peer /\ "ping" \in Message /\ "ping" # "pong"
      BY OtherPeer DEF Message
    <3>2. CASE Len(net[Other(p)]) < NetCap /\ Reaches(Other(p), "ping")
      BY <1>0, <3>1, <3>2, SendEffect
    <3>3. CASE UNCHANGED net
      BY <1>T, <3>3 DEF Has
    <3> QED
      BY <1>2, <3>2, <3>3 DEF Ping, Lost
  <2>3. PlaceLeft'
    <3>1. \A q \in Peer : Len(net[q]) \in Nat
      BY <1>T
    <3>2. \A q \in Peer : \/ Len(net'[q]) <= Len(net[q])
                          \/ Len(net'[q]) <= Len(net[q]) + 1 /\ Len(net[q]) < NetCap
      BY <2>2, <3>1
    <3> QED
      BY <1>T, <2>1, <2>2, <3>2, PlaceKept DEF Greeted
  <2>4. PingTypeOK'
    BY <1>0, <1>T, <2>1, <2>2, <2>3, TypedStep DEF PingTypeOK
  <2>5. PongMeansHeard'
    BY <1>T, <2>1, <2>2, <2>4, HeardKept DEF Synced
  <2>6. ClosedWhenHeard' /\ NotStarted'
    BY <1>0, <1>T, <2>1 DEF ClosedWhenHeard, NotStarted, Synced
  <2> QED
    BY <2>3, <2>4, <2>5, <2>6 DEF IInv
<1>3. ASSUME NEW p \in Peer, Pong(p) PROVE IInv'
  <2>1. /\ pinger' = [pinger EXCEPT ![p] = "ended"] /\ pinger[p] = "pinging" /\ closes[p] > 0
        /\ stage[p] # "off" /\ pongLost' \in BOOLEAN
        /\ UNCHANGED <<proceed, faulty, stage, pinged, closes, got, helloIgnored>>
    BY <1>0, <1>3 DEF Pong, setting, Bound, PingTypeOK
  <2>2. Other(p) \in Peer /\ Other(Other(p)) = p /\ "pong" \in Message
    BY OtherPeer DEF Message
  <2>3. /\ net' \in [Peer -> Seq(Message)]
        /\ Len(net'[Other(p)]) <= Len(net[Other(p)]) + 1
        /\ \A r \in Peer \ {Other(p)} : net'[r] = net[r]
        /\ \A r \in Peer : Has(r, "pong")' => Has(r, "pong") \/ r = Other(p)
    BY <1>0, <1>3, <2>2, SendEffect DEF Pong
  <2>4. PlaceLeft'
    <3>1. ASSUME NEW q \in Peer PROVE Len(net'[q]) <= Len(net[q]) \/ q = Other(p)
      <4>1. Len(net[q]) \in Nat
        BY <1>T
      <4> QED
        BY <2>3, <4>1
    <3>2. pinger'[p] = "ended" /\ \A q \in Peer : pinger[q] = "ended" => pinger'[q] = "ended"
      BY <1>T, <2>1
    <3>3. \A q \in Peer : Greeted(q) => Greeted(q)'
      BY <2>1 DEF Greeted
    <3> QED
      BY <2>1, <2>2, <2>3, <3>1, <3>2, <3>3, PlaceKept
  <2>5. PingTypeOK'
    BY <1>0, <1>T, <2>1, <2>3, <2>4, TypedStep DEF PingTypeOK
  <2>6. PongMeansHeard'
    <3>1. \A q \in Peer : /\ pinger[q] = "ended" => pinger'[q] = "ended"
                          /\ pinger'[q] = "ended" => pinger[q] = "ended" \/ closes[q] > 0
      BY <1>T, <2>1
    <3>2. \A q \in Peer : Has(q, "pong")' => Has(q, "pong") \/ pinger'[Other(q)] = "ended"
      BY <1>T, <2>1, <2>2, <2>3
    <3> QED
      BY <2>1, <2>5, <3>1, <3>2, HeardKept DEF Synced
  <2>7. ClosedWhenHeard' /\ NotStarted'
    BY <1>0, <1>T, <2>1 DEF ClosedWhenHeard, NotStarted, Synced
  <2> QED
    BY <2>4, <2>5, <2>6, <2>7 DEF IInv
<1>4. ASSUME NEW p \in Peer, SyncPing(p) PROVE IInv'
  <2>1. /\ stage[p] = "sync" /\ pinged' = [pinged EXCEPT ![p] = TRUE]
        /\ closes' = IF pinged[p] THEN closes ELSE [closes EXCEPT ![p] = @ + 1]
        /\ UNCHANGED <<proceed, faulty, stage, pinger, got, pongLost, helloIgnored>>
    BY <1>4 DEF SyncPing, setting
  <2>2. /\ net' \in [Peer -> Seq(Message)]
        /\ \A q \in Peer : Len(net'[q]) <= Len(net[q])
        /\ \A q \in Peer : Has(q, "pong")' => Has(q, "pong")
    BY <1>0, <1>4, ReceiveEffect DEF SyncPing
  <2>3. PlaceLeft'
    BY <2>1, <2>2, PlaceKept DEF Greeted
  <2>4. closes' \in [Peer -> Nat] /\ pinged' \in [Peer -> BOOLEAN]
    BY <1>T, <2>1
  <2>5. PingTypeOK'
    BY <1>0, <1>T, <2>1, <2>2, <2>3, <2>4, TypedStep DEF PingTypeOK
  <2>6. closes'[p] = 1 /\ pinged'[p]
    BY <1>0, <1>T, <2>1 DEF ClosedWhenHeard, Synced
  <2>7. \A q \in Peer \ {p} : closes'[q] = closes[q] /\ pinged'[q] = pinged[q]
    BY <1>T, <2>1
  <2>8. ClosedWhenHeard' /\ NotStarted'
    BY <1>0, <2>1, <2>6, <2>7 DEF ClosedWhenHeard, NotStarted, Synced
  <2>9. PongMeansHeard'
    BY <2>1, <2>2, <2>5, <2>6, <2>7, HeardKept DEF Synced
  <2> QED
    BY <2>3, <2>5, <2>8, <2>9 DEF IInv
<1>5. ASSUME NEW p \in Peer, SyncPong(p) PROVE IInv'
  <2> DEFINE next == IF proceed THEN "pause" ELSE "greet"
  <2>1. /\ stage' = [stage EXCEPT ![p] = next] /\ stage[p] = "sync"
        /\ closes' = IF proceed /\ ~pinged[p] THEN [closes EXCEPT ![p] = @ + 1] ELSE closes
        /\ UNCHANGED <<proceed, faulty, pinger, pinged, got, pongLost, helloIgnored>>
    BY <1>5 DEF SyncPong, Goto, setting
  <2>2. /\ net' \in [Peer -> Seq(Message)]
        /\ \A q \in Peer : Len(net'[q]) <= Len(net[q])
        /\ \A q \in Peer : Has(q, "pong")' => Has(q, "pong")
        /\ Has(p, "pong")
    BY <1>0, <1>5, ReceiveEffect DEF SyncPong
  <2>3. next \in Stage /\ next \notin {"off", "sync"}
    BY DEF Stage
  <2> HIDE DEF next
  <2>4. /\ stage' \in [Peer -> Stage] /\ closes' \in [Peer -> Nat] /\ stage'[p] = next
        /\ \A q \in Peer \ {p} : closes'[q] = closes[q] /\ stage'[q] = stage[q]
    BY <1>T, <2>1, <2>3
  <2>5. PlaceLeft'
    BY <2>1, <2>2, <2>4, PlaceKept DEF Greeted
  <2>6. PingTypeOK'
    BY <1>0, <1>T, <2>1, <2>2, <2>4, <2>5, TypedStep DEF PingTypeOK
  <2>7. closes'[p] = IF pinged'[p] \/ (proceed /\ Synced(p)') THEN 1 ELSE 0
    BY <1>0, <1>T, <2>1, <2>3, <2>4 DEF ClosedWhenHeard, Synced
  <2>8. ClosedWhenHeard' /\ NotStarted'
    BY <1>0, <2>1, <2>3, <2>4, <2>7 DEF ClosedWhenHeard, NotStarted, Synced
  <2>9. PongMeansHeard'
    <3>1. \A q \in Peer : closes[q] > 0 => closes'[q] > 0
      BY <1>T, <2>1, <2>4
    <3>2. \A q \in Peer : closes'[q] > 0 => closes[q] > 0 \/ Has(q, "pong")
      BY <2>2, <2>4
    <3>3. \A q \in Peer : Synced(q)' => Synced(q) \/ Has(q, "pong")
      BY <2>2, <2>4 DEF Synced
    <3> QED
      BY <2>1, <2>2, <2>6, <3>1, <3>2, <3>3, HeardKept
  <2> QED
    BY <2>5, <2>6, <2>8, <2>9 DEF IInv
<1>6. ASSUME NEW p \in Peer, SyncOther(p) PROVE IInv'
  <2>1. UNCHANGED <<proceed, faulty, stage, pinger, pinged, closes, got, pongLost>> /\ helloIgnored' = TRUE
    BY <1>6 DEF SyncOther, setting
  <2>2. /\ net' \in [Peer -> Seq(Message)]
        /\ \A q \in Peer : Len(net'[q]) <= Len(net[q])
        /\ \A q \in Peer : Has(q, "pong")' => Has(q, "pong")
    BY <1>0, <1>6, ReceiveEffect DEF SyncOther
  <2>3. PlaceLeft'
    BY <2>1, <2>2, PlaceKept DEF Greeted
  <2>4. PingTypeOK'
    BY <1>0, <1>T, <2>1, <2>2, <2>3, TypedStep DEF PingTypeOK
  <2>5. PongMeansHeard'
    BY <2>1, <2>2, <2>4, HeardKept DEF Synced
  <2> QED
    BY <1>0, <2>1, <2>3, <2>4, <2>5 DEF IInv, ClosedWhenHeard, NotStarted, Synced
<1>7. ASSUME NEW p \in Peer, Pause(p) \/ ReadLastTimeout(p) PROVE IInv'
  <2>1. PICK s \in Stage : /\ Goto(p, s) /\ Synced(p) /\ s \notin {"off", "sync"}
                           /\ Greeted(p) => s \in {"read", "done", "failed"}
    BY <1>7 DEF Pause, ReadLastTimeout, Stage, Synced, Greeted
  <2>2. UNCHANGED <<proceed, faulty, pinger, pinged, closes, net, got, pongLost, helloIgnored>>
    BY <1>7 DEF Pause, ReadLastTimeout, setting
  <2>3. /\ stage' \in [Peer -> Stage] /\ ClosedWhenHeard' /\ stage'[p] = s
        /\ \A q \in Peer \ {p} : stage'[q] = stage[q]
        /\ \A q \in Peer : Synced(q)' <=> Synced(q)
    BY <2>1, <2>2, MovesOn
  <2>4. PlaceLeft'
    BY <1>T, <2>1, <2>2, <2>3, PlaceKept DEF Greeted
  <2>5. PingTypeOK'
    BY <1>0, <1>T, <2>2, <2>3, <2>4, TypedStep DEF PingTypeOK
  <2>6. PongMeansHeard'
    BY <2>2, <2>3, <2>5, HeardKept DEF Has
  <2>7. NotStarted'
    BY <1>0, <2>1, <2>2, <2>3 DEF NotStarted
  <2> QED
    BY <2>3, <2>4, <2>5, <2>6, <2>7 DEF IInv
<1>8. ASSUME NEW p \in Peer, Greet(p) PROVE IInv'
  <2>1. PICK s \in Stage : /\ Goto(p, s) /\ Synced(p) /\ s \notin {"off", "sync"}
                           /\ stage[p] = "greet" /\ s = IF proceed THEN "read" ELSE "pause"
    BY <1>8 DEF Greet, Stage, Synced
  <2>2. UNCHANGED <<proceed, faulty, pinger, pinged, closes, got, pongLost, helloIgnored>>
    BY <1>8 DEF Greet, setting
  <2>3. /\ stage' \in [Peer -> Stage] /\ ClosedWhenHeard' /\ stage'[p] = s
        /\ \A q \in Peer \ {p} : stage'[q] = stage[q]
        /\ \A q \in Peer : Synced(q)' <=> Synced(q)
    BY <2>1, <2>2, MovesOn
  <2>4. Other(p) \in Peer /\ Other(Other(p)) = p /\ "hello" \in Message /\ "hello" # "pong"
    BY OtherPeer DEF Message
  <2>5. /\ net' \in [Peer -> Seq(Message)]
        /\ Len(net'[Other(p)]) <= Len(net[Other(p)]) + 1
        /\ \A r \in Peer \ {Other(p)} : net'[r] = net[r]
        /\ \A r \in Peer : Has(r, "pong")' => Has(r, "pong")
    BY <1>0, <1>8, <2>4, SendEffect DEF Greet
  <2>6. PlaceLeft'
    <3>1. ASSUME NEW q \in Peer PROVE Len(net'[q]) <= Len(net[q]) \/ q = Other(p)
      <4>1. Len(net[q]) \in Nat
        BY <1>T
      <4> QED
        BY <2>5, <4>1
    <3>2. ~Greeted(p) /\ Greeted(p)' /\ \A q \in Peer : Greeted(q) => Greeted(q)'
      BY <1>T, <2>1, <2>2, <2>3 DEF Greeted
    <3> QED
      BY <2>2, <2>4, <2>5, <3>1, <3>2, PlaceKept
  <2>7. PingTypeOK'
    BY <1>0, <1>T, <2>2, <2>3, <2>5, <2>6, TypedStep DEF PingTypeOK
  <2>8. PongMeansHeard'
    BY <2>2, <2>3, <2>5, <2>7, HeardKept
  <2>9. NotStarted'
    BY <1>0, <2>1, <2>2, <2>3 DEF NotStarted
  <2> QED
    BY <2>3, <2>6, <2>7, <2>8, <2>9 DEF IInv
<1>9. ASSUME NEW p \in Peer, ReadLast(p) PROVE IInv'
  <2>1. /\ Goto(p, "done") /\ Synced(p) /\ "done" \in Stage
        /\ UNCHANGED <<proceed, faulty, pinger, pinged, closes, pongLost, helloIgnored>>
    BY <1>9 DEF ReadLast, Stage, Synced, setting
  <2>2. PICK m \in {"ping", "pong", "hello"} : Receive(p, m) /\ got' = [got EXCEPT ![p] = m]
    BY <1>9 DEF ReadLast
  <2>3. /\ stage' \in [Peer -> Stage] /\ ClosedWhenHeard' /\ stage'[p] = "done"
        /\ \A q \in Peer \ {p} : stage'[q] = stage[q]
        /\ \A q \in Peer : Synced(q)' <=> Synced(q)
    BY <2>1, MovesOn DEF Synced
  <2>4. /\ net' \in [Peer -> Seq(Message)]
        /\ \A q \in Peer : Len(net'[q]) <= Len(net[q])
        /\ \A q \in Peer : Has(q, "pong")' => Has(q, "pong")
    BY <1>0, <2>2, ReceiveEffect
  <2>5. PlaceLeft'
    BY <2>1, <2>3, <2>4, PlaceKept DEF Greeted
  <2>6. PingTypeOK'
    BY <1>0, <1>T, <2>1, <2>2, <2>3, <2>4, <2>5, TypedStep DEF PingTypeOK
  <2>7. PongMeansHeard'
    BY <2>1, <2>3, <2>4, <2>6, HeardKept
  <2>8. NotStarted'
    BY <1>0, <2>1, <2>3 DEF NotStarted
  <2> QED
    BY <2>3, <2>5, <2>6, <2>7, <2>8 DEF IInv
<1>10. CASE UNCHANGED pingVars \/ Exited
  BY <1>0, <1>10 DEF Exited, pingVars, setting, IInv, PingTypeOK, ClosedWhenHeard, PongMeansHeard, PlaceLeft,
     NotStarted, Room, Greeted, Has, Synced
<1> QED
  BY <1>1, <1>2, <1>3, <1>4, <1>5, <1>6, <1>7, <1>8, <1>9, <1>10 DEF PingNext, Main

-----------------------------------------------------------------------------

\* Type correctness.  A queue never holds more than the pings the bound allows, one
\* pong and one Hello.
THEOREM TypeCorrect == PingSpec => []PingTypeOK
<1>1. IInv => PingTypeOK
  BY DEF IInv
<1> QED
  BY <1>1, InitIInv, StepIInv, PTL DEF PingSpec

\* Whatever the link loses or reorders, neither program ever closes pingCh twice,
\* which would panic (492: 92-96, 493: 92-105).
THEOREM ChannelClosedOnce == PingSpec => []ClosedOnce
<1>1. IInv => ClosedOnce
  BY DEF IInv, PingTypeOK, ClosedWhenHeard, ClosedOnce
<1> QED
  BY <1>1, InitIInv, StepIInv, PTL DEF PingSpec

\* Whatever the link loses or reorders, a peer whose search has ended was heard by the
\* other one: the pong it got was sent after pingCh was closed there, and the first
\* pong of all answers a ping (492: 91-104, 493: 91-109).
THEOREM BothWaysWork == PingSpec => []SyncedMeansHeard
<1>1. IInv => SyncedMeansHeard
  <2> SUFFICES ASSUME IInv, NEW p \in Peer, Synced(p)
               PROVE  /\ pinged[Other(p)] \/ (proceed /\ Synced(Other(p)))
                      /\ \E r \in Peer : pinged[r]
    BY DEF SyncedMeansHeard
  <2>1. Other(p) \in Peer /\ closes[Other(p)] > 0
    BY OtherPeer DEF IInv, PongMeansHeard
  <2> QED
    BY <2>1 DEF IInv, ClosedWhenHeard, PongMeansHeard
<1> QED
  BY <1>1, InitIInv, StepIInv, PTL DEF PingSpec
=============================================================================
