------------------------- MODULE DeadlinePipe_proofs -------------------------
(***************************************************************************)
(* Proofs about DeadlinePipe, for any finite sets of readers and writers   *)
(* and any bounds on their calls.                                          *)
(***************************************************************************)
EXTENDS DeadlinePipe, FiniteSetTheorems, TLAPS

\* Whoever is acking has copied somebody's slice.
CopiedWhenAcking == \A r \in Acking : copied[r] \in Writers

IInv == DeadlineTypeOK /\ AcksPairOff /\ CopiedWhenAcking

LEMMA Finite == IsFiniteSet(Acking) /\ IsFiniteSet(Awaiting)
BY ConstantsAssumption, FS_Subset DEF Acking, Awaiting

LEMMA InitIInv == DeadlineInit => IInv
<1> SUFFICES ASSUME DeadlineInit PROVE IInv
  OBVIOUS
<1>1. DeadlineTypeOK
  BY ConstantsAssumption DEF DeadlineInit, DeadlineTypeOK
<1>2. Acking = {} /\ Awaiting = {}
  BY DEF DeadlineInit, Acking, Awaiting
<1> QED
  BY <1>1, <1>2 DEF IInv, AcksPairOff, CopiedWhenAcking

\* A step that moves nobody into or out of acking and awaiting keeps the rest.
LEMMA PairsKept ==
    ASSUME IInv, DeadlineTypeOK', Acking' = Acking, Awaiting' = Awaiting, UNCHANGED copied
    PROVE  IInv'
BY DEF IInv, AcksPairOff, CopiedWhenAcking

\* Every step keeps the invariant: a transfer adds one on either side, an
\* acknowledgement takes one away from either side.
LEMMA StepIInv == IInv /\ [DeadlineNext]_deadlineVars => IInv'
<1> SUFFICES ASSUME IInv, [DeadlineNext]_deadlineVars PROVE IInv'
  OBVIOUS
<1> USE DEF callVars, timerVars
<1>0. DeadlineTypeOK /\ AcksPairOff /\ CopiedWhenAcking /\ IsFiniteSet(Acking) /\ IsFiniteSet(Awaiting)
  BY Finite DEF IInv
<1>1. ASSUME NEW r \in Readers, Read(r) PROVE IInv'
  <2>1. DeadlineTypeOK'
    BY <1>0, <1>1, ConstantsAssumption DEF Read, Call, DeadlineTypeOK
  <2>2. Acking' = Acking /\ Awaiting' = Awaiting /\ UNCHANGED copied
    BY <1>0, <1>1 DEF Read, DeadlineTypeOK, Acking, Awaiting
  <2> QED
    BY <2>1, <2>2, PairsKept
<1>2. ASSUME NEW w \in Writers, Write(w) PROVE IInv'
  <2>1. DeadlineTypeOK'
    BY <1>0, <1>2, ConstantsAssumption DEF Write, Call, DeadlineTypeOK
  <2>2. Acking' = Acking /\ Awaiting' = Awaiting /\ UNCHANGED copied
    BY <1>0, <1>2 DEF Write, DeadlineTypeOK, Acking, Awaiting
  <2> QED
    BY <2>1, <2>2, PairsKept
<1>3. ASSUME NEW w \in Writers, NEW r \in Readers, Transfer(w, r) PROVE IInv'
  <2>1. DeadlineTypeOK'
    BY <1>0, <1>3 DEF Transfer, DeadlineTypeOK
  <2>2. /\ Acking' = Acking \union {r} /\ r \notin Acking
        /\ Awaiting' = Awaiting \union {w} /\ w \notin Awaiting
    BY <1>0, <1>3 DEF Transfer, DeadlineTypeOK, Acking, Awaiting
  <2>3. AcksPairOff'
    <3>1. Cardinality(Acking') = Cardinality(Acking) + 1
      BY <1>0, <2>2, FS_AddElement
    <3>2. Cardinality(Awaiting') = Cardinality(Awaiting) + 1
      BY <1>0, <2>2, FS_AddElement
    <3> QED
      BY <1>0, <3>1, <3>2 DEF AcksPairOff
  <2>4. CopiedWhenAcking'
    BY <1>0, <1>3, <2>2 DEF Transfer, DeadlineTypeOK, CopiedWhenAcking
  <2> QED
    BY <2>1, <2>3, <2>4 DEF IInv
<1>4. ASSUME NEW w \in Writers, NEW r \in Readers, Acknowledge(w, r) PROVE IInv'
  <2>1. DeadlineTypeOK'
    BY <1>0, <1>4 DEF Acknowledge, DeadlineTypeOK
  <2>2. /\ Acking' = Acking \ {r} /\ r \in Acking
        /\ Awaiting' = Awaiting \ {w} /\ w \in Awaiting
    BY <1>0, <1>4 DEF Acknowledge, DeadlineTypeOK, Acking, Awaiting
  <2>3. AcksPairOff'
    <3>1. Cardinality(Acking') = Cardinality(Acking) - 1
      BY <1>0, <2>2, FS_RemoveElement
    <3>2. Cardinality(Awaiting') = Cardinality(Awaiting) - 1
      BY <1>0, <2>2, FS_RemoveElement
    <3> QED
      BY <1>0, <3>1, <3>2 DEF AcksPairOff
  <2>4. CopiedWhenAcking'
    BY <1>0, <1>4, <2>2 DEF Acknowledge, DeadlineTypeOK, CopiedWhenAcking
  <2> QED
    BY <2>1, <2>3, <2>4 DEF IInv
<1>5. ASSUME NEW r \in Readers, ReadTimeout(r) PROVE IInv'
  <2>1. DeadlineTypeOK'
    BY <1>0, <1>5 DEF ReadTimeout, TakeTick, DeadlineTypeOK, Side
  <2>2. Acking' = Acking /\ Awaiting' = Awaiting /\ UNCHANGED copied
    BY <1>0, <1>5 DEF ReadTimeout, DeadlineTypeOK, Acking, Awaiting
  <2> QED
    BY <2>1, <2>2, PairsKept
<1>6. ASSUME NEW w \in Writers, WriteTimeout(w) PROVE IInv'
  <2>1. DeadlineTypeOK'
    BY <1>0, <1>6 DEF WriteTimeout, TakeTick, DeadlineTypeOK, Side
  <2>2. Acking' = Acking /\ Awaiting' = Awaiting /\ UNCHANGED copied
    BY <1>0, <1>6 DEF WriteTimeout, DeadlineTypeOK, Acking, Awaiting
  <2> QED
    BY <2>1, <2>2, PairsKept
<1>7. ASSUME NEW d \in Side, SetDeadline(d) \/ ClearDeadline(d) \/ DrainTick(d) \/ Expire(d)
      PROVE  IInv'
  <2>1. /\ armed' \in [Side -> BOOLEAN] /\ tick' \in [Side -> BOOLEAN]
        /\ setter' \in [Side -> {"idle", "draining"}] /\ sets' \in [Side -> 0 .. MaxSets]
        /\ due' \in [Side -> BOOLEAN] /\ premature' \in [Side -> BOOLEAN]
    <3>1. CASE SetDeadline(d)
      BY <1>0, <3>1, ConstantsAssumption DEF SetDeadline, Set, DeadlineTypeOK
    <3>2. CASE ClearDeadline(d)
      BY <1>0, <3>2, ConstantsAssumption DEF ClearDeadline, Set, DeadlineTypeOK
    <3>3. CASE DrainTick(d)
      BY <1>0, <3>3 DEF DrainTick, DeadlineTypeOK
    <3>4. CASE Expire(d)
      BY <1>0, <3>4 DEF Expire, DeadlineTypeOK
    <3> QED
      BY <1>7, <3>1, <3>2, <3>3, <3>4
  <2>2. UNCHANGED callVars
    BY <1>7 DEF SetDeadline, ClearDeadline, DrainTick, Expire
  <2> QED
    BY <1>0, <2>1, <2>2, PairsKept DEF DeadlineTypeOK, Acking, Awaiting
<1>8. CASE UNCHANGED deadlineVars
  BY <1>0, <1>8, PairsKept DEF deadlineVars, DeadlineTypeOK, Acking, Awaiting
<1> QED
  BY <1>1, <1>2, <1>3, <1>4, <1>5, <1>6, <1>7, <1>8 DEF DeadlineNext, Selected, Acknowledged

-----------------------------------------------------------------------------
\* Type correctness of the pipe.
THEOREM TypeCorrect == DeadlineSpec => []DeadlineTypeOK
<1>1. IInv => DeadlineTypeOK
  BY DEF IInv
<1> QED
  BY InitIInv, StepIInv, <1>1, PTL DEF DeadlineSpec

\* No timeout ever separates an ack from the Write that awaits it, for any
\* number of concurrent readers and writers (59, 71-74).
THEOREM AcksMatch == DeadlineSpec => []AcksPairOff
<1>1. IInv => AcksPairOff
  BY DEF IInv
<1> QED
  BY InitIInv, StepIInv, <1>1, PTL DEF DeadlineSpec

-----------------------------------------------------------------------------

Lone == Cardinality(Readers) = 1 \/ Cardinality(Writers) = 1

\* With a single reader or a single writer a transfer is the only one: whoever awaits an
\* ack awaits that of its own slice.
AwaitsOwn == Lone => \A r \in Acking, w \in Awaiting : copied[r] = w

AckInv == IInv /\ AwaitsOwn /\ AckOwn

\* Being alone, the reader or the writer of a transfer finds no other transfer.
LEMMA LoneTransfer ==
    ASSUME IInv, Lone, NEW w \in Writers, NEW r \in Readers, Transfer(w, r)
    PROVE  \A q \in Acking', v \in Awaiting' : copied'[q] = v
<1>0. DeadlineTypeOK /\ AcksPairOff /\ CopiedWhenAcking /\ DeadlineTypeOK' /\ CopiedWhenAcking'
  <2>1. IInv'
    BY StepIInv DEF DeadlineNext, Selected
  <2> QED
    BY <2>1 DEF IInv
<1>1. CASE Cardinality(Readers) = 1
  <2>1. Readers = {r}
    BY <1>1, ConstantsAssumption, FS_Singleton
  <2>2. Acking = {}
    BY <2>1 DEF Acking, Transfer
  <2>3. Awaiting = {}
    BY <1>0, <2>2, Finite, FS_EmptySet DEF AcksPairOff
  <2> QED
    BY <1>0, <2>1, <2>3 DEF Acking, Awaiting, Transfer, DeadlineTypeOK
<1>2. CASE Cardinality(Writers) = 1
  <2>1. \A v \in Writers : v = w
    BY <1>2, ConstantsAssumption, FS_Singleton
  <2> QED
    BY <1>0, <2>1 DEF CopiedWhenAcking, Awaiting
<1> QED
  BY <1>1, <1>2 DEF Lone

\* Every step keeps it: only a transfer starts to await, only an acknowledgement acks.
LEMMA StepAckInv == AckInv /\ [DeadlineNext]_deadlineVars => AckInv'
<1> SUFFICES ASSUME AckInv, [DeadlineNext]_deadlineVars PROVE AckInv'
  OBVIOUS
<1>0. IInv /\ AwaitsOwn /\ AckOwn /\ DeadlineTypeOK /\ IInv' /\ DeadlineTypeOK'
  BY StepIInv DEF AckInv, IInv
<1> SUFFICES ASSUME Lone
             PROVE  /\ \A r \in Acking', w \in Awaiting' : copied'[r] = w
                    /\ \A w \in Writers : acked'[w] \in {w, Nobody}
  BY <1>0 DEF AckInv, AwaitsOwn, AckOwn, Lone
<1>1. /\ \A r \in Acking, w \in Awaiting : copied[r] = w
      /\ \A w \in Writers : acked[w] \in {w, Nobody}
  BY <1>0 DEF AwaitsOwn, AckOwn, Lone
<1>2. ASSUME NEW w \in Writers, NEW r \in Readers, Transfer(w, r)
      PROVE  \A q \in Acking', v \in Awaiting' : copied'[q] = v
  BY <1>0, <1>2, LoneTransfer
<1>3. ASSUME NEW w \in Writers, NEW r \in Readers, Acknowledge(w, r)
      PROVE  /\ \A q \in Acking', v \in Awaiting' : copied'[q] = v
             /\ \A v \in Writers : acked'[v] \in {v, Nobody}
  <2>1. /\ r \in Acking /\ w \in Awaiting
        /\ Acking' \subseteq Acking \ {r} /\ Awaiting' \subseteq Awaiting
        /\ \A q \in Readers : q # r => copied'[q] = copied[q]
    BY <1>0, <1>3 DEF Acknowledge, Acking, Awaiting, DeadlineTypeOK
  <2>2. acked' = [acked EXCEPT ![w] = w]
    BY <1>1, <1>3, <2>1 DEF Acknowledge
  <2> QED
    BY <1>0, <1>1, <2>1, <2>2 DEF Acking, DeadlineTypeOK
<1>4. ASSUME NEW r \in Readers, Read(r) \/ ReadTimeout(r)
      PROVE  Acking' \subseteq Acking /\ Awaiting' = Awaiting /\ UNCHANGED <<copied, acked>>
  BY <1>0, <1>4 DEF Read, ReadTimeout, Acking, Awaiting, DeadlineTypeOK
<1>5. ASSUME NEW w \in Writers, Write(w) \/ WriteTimeout(w)
      PROVE  Awaiting' \subseteq Awaiting /\ Acking' = Acking /\ UNCHANGED <<copied, acked>>
  BY <1>0, <1>5 DEF Write, WriteTimeout, Acking, Awaiting, DeadlineTypeOK
<1>6. ASSUME \/ UNCHANGED deadlineVars
             \/ \E d \in Side : SetDeadline(d) \/ ClearDeadline(d) \/ DrainTick(d) \/ Expire(d)
      PROVE  Awaiting' = Awaiting /\ Acking' = Acking /\ UNCHANGED <<copied, acked>>
  BY <1>6 DEF SetDeadline, ClearDeadline, DrainTick, Expire, callVars, deadlineVars, Acking, Awaiting
<1>7. ASSUME NEW w \in Writers, NEW r \in Readers, Transfer(w, r) PROVE acked' = acked
  BY <1>7 DEF Transfer
<1> QED
  BY <1>1, <1>2, <1>3, <1>4, <1>5, <1>6, <1>7 DEF DeadlineNext, Selected, Acknowledged

\* With one reader or one writer, and any number on the other side, a Write returns the
\* count of its own slice, however deadlines strike (54-74).
THEOREM AcksOwn == DeadlineSpec => []AckOwn
<1>1. DeadlineInit => AckInv
  <2> SUFFICES ASSUME DeadlineInit PROVE AckInv
    OBVIOUS
  <2>1. IInv /\ Acking = {} /\ \A w \in Writers : acked[w] = Nobody
    BY InitIInv DEF DeadlineInit, Acking
  <2> QED
    BY <2>1 DEF AckInv, AwaitsOwn, AckOwn
<1>2. AckInv => AckOwn
  BY DEF AckInv
<1> QED
  BY <1>1, <1>2, StepAckInv, PTL DEF DeadlineSpec
=============================================================================
