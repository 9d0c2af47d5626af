------------------------------- MODULE GcmSeq --------------------------------
(***************************************************************************)
(* test516-gcm_session, gcmseq.go: a Cipher that seals messages under a    *)
(* counter and one that opens them, over a link that loses, repeats,       *)
(* reorders and damages datagrams.  The counter is the nonce of a message; *)
(* it travels in the header, which is authenticated with the data.         *)
(*                                                                         *)
(* AES-GCM is abstracted: a message opens if it is as it was sealed.       *)
(***************************************************************************)
EXTENDS Integers, Sequences

CONSTANTS
    CounterSize,    \* 2^64: the counter wraps around
    MaxRepeats      \* bound on the datagrams the link repeats

ASSUME GcmAssumption == CounterSize \in Nat \ {0} /\ MaxRepeats \in Nat

Counter == 0 .. CounterSize - 1

VARIABLES
    sealer,         \* the counter of the Cipher that seals
    sealed,         \* history: the nonces of all messages sealed
    panicked,       \* "counter wraparound"
    link,           \* messages on their way
    repeats,        \* datagrams repeated so far
    opener,         \* the counter of the Cipher that opens
    opened,         \* history: the counters of the messages opened
    rejected,       \* history: the counters of intact messages refused
    believed        \* history: the counters of damaged messages that moved the opener's

gcmVars == <<sealer, sealed, panicked, link, repeats, opener, opened, rejected, believed>>

Datagram(c, i) == [counter |-> c, intact |-> i]

GcmInit ==
    /\ sealer = 0 /\ sealed = <<>> /\ panicked = FALSE
    /\ link = {} /\ repeats = 0
    /\ opener = 0 /\ opened = <<>> /\ rejected = {} /\ believed = {}

-----------------------------------------------------------------------------

Emit(c) ==
    /\ sealed' = Append(sealed, c)
    /\ link' = link \union {Datagram(c, TRUE)}

Seal ==
    /\ ~panicked
    /\ sealer' = (sealer + 1) % CounterSize
    /\ IF sealer' = 0
       THEN panicked' = TRUE /\ UNCHANGED <<sealed, link>>
       ELSE Emit(sealer') /\ UNCHANGED panicked
    /\ UNCHANGED <<repeats, opener, opened, rejected, believed>>

\* What becomes of a datagram that has arrived: the link may still hold a copy.
Taken(m) ==
    \/ link' = link \ {m} /\ UNCHANGED repeats
    \/ repeats < MaxRepeats /\ repeats' = repeats + 1 /\ UNCHANGED link

\* Mutant: a message with the counter of the last one is new.
OpenAgain(m) ==
    /\ Taken(m)
    /\ m.counter >= opener
    /\ opener' = m.counter
    /\ IF m.intact
       THEN opened' = Append(opened, m.counter) /\ UNCHANGED believed
       ELSE believed' = believed \union {m.counter} /\ UNCHANGED opened
    /\ UNCHANGED <<sealer, sealed, panicked, rejected>>

\* The counter moves before the message is authenticated.
Open(m) ==
    /\ Taken(m)
    /\ m.counter > opener
    /\ opener' = m.counter
    /\ IF m.intact
       THEN opened' = Append(opened, m.counter) /\ UNCHANGED believed
       ELSE believed' = believed \union {m.counter} /\ UNCHANGED opened
    /\ UNCHANGED <<sealer, sealed, panicked, rejected>>

\* ErrReplayAttack.
Refuse(m) ==
    /\ Taken(m)
    /\ m.counter <= opener
    /\ rejected' = IF m.intact THEN rejected \union {m.counter} ELSE rejected
    /\ UNCHANGED <<sealer, sealed, panicked, opener, opened, believed>>

\* A message that is lost, or cut off and refused for its length (85-87).
Lose(m) ==
    /\ link' = link \ {m}
    /\ UNCHANGED <<sealer, sealed, panicked, repeats, opener, opened, rejected, believed>>

\* Noise on the link changes the data of a message, or its counter.
Damage(m) ==
    /\ m.intact
    /\ \E c \in Counter : link' = (link \ {m}) \union {Datagram(c, FALSE)}
    /\ UNCHANGED <<sealer, sealed, panicked, repeats, opener, opened, rejected, believed>>

GcmNext == Seal \/ \E m \in link : Open(m) \/ Refuse(m) \/ Lose(m) \/ Damage(m)

GcmSpec == GcmInit /\ [][GcmNext]_gcmVars

-----------------------------------------------------------------------------

InOpened(c) == \E i \in 1 .. Len(opened) : opened[i] = c
OpenedFrom(c) == \E i \in 1 .. Len(opened) : opened[i] >= c

\* No nonce is used for two messages, even where the counter wraps around (61-64); each
\* message opens once at most, in the order of sealing, whatever the link does (94-97);
\* an intact one is refused only if it, a later one, or a damaged one of as high a
\* counter came before it, since the counter moves ahead of the check (97-108).
OpenedOnceInOrder ==
    /\ \A i, j \in 1 .. Len(sealed) : i < j => sealed[i] # sealed[j]
    /\ \A i, j \in 1 .. Len(opened) : i < j => opened[i] < opened[j]
    /\ \A c \in Counter : InOpened(c) => \E i \in 1 .. Len(sealed) : sealed[i] = c
    /\ \A c \in rejected : OpenedFrom(c) \/ \E d \in believed : d >= c

\* "ErrReplayAttack is returned by Open if the counter value of a message is not greater
\* than that of a previously decrypted one" (20-21): an intact message that is refused
\* comes after itself or a later one, decrypted.  A damaged message breaks this, since
\* its counter is kept though it was not decrypted (97, 105-108).
ReplayMeansDecrypted == \A c \in rejected : OpenedFrom(c)
=============================================================================
