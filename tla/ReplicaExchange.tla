-------------------------- MODULE ReplicaExchange ----------------------------
(***************************************************************************)
(* test877-mpirex/rex/replica_agent.hpp: processes of an MPI program that  *)
(* exchange replicas with the process next to them, with the one above on  *)
(* one trial and with the one below on the next.  The lower process, the   *)
(* slave, sends its replica; the upper one, the master, decides, and sends *)
(* back the replica the slave holds from then on.                          *)
(*                                                                         *)
(* Messages between two processes keep their order and are not lost.       *)
(* MPI_Send may return at once, if the message is buffered, and does       *)
(* return when the message has been received; MPI promises no more.        *)
(***************************************************************************)
EXTENDS Integers, Sequences

CONSTANTS
    Size,         \* mpi::size
    Trials        \* calls of exchange: 10 in main

ASSUME RexAssumption == Size \in Nat /\ Trials \in Nat

Ranks == 0 .. Size - 1

VARIABLES
    id,           \* id[p]: id_ of process p
    trials,       \* trials[p]: exchange_trials_
    at,           \* at[p]: where process p is
    newId,        \* newId[p]: new_id of a master that is sending its answer
    mail          \* mail[p][q]: messages from p to q not yet received

rexVars == <<id, trials, at, newId, mail>>

\* Between two exchanges; in MPI_Send, then in MPI_Recv of a slave; in MPI_Send of a master.
Place == {"computing", "sending", "awaiting", "answering"}

\* A message carries a replica; the trial is history.
Letter == [id : Ranks, trial : Nat]

RexTypeOK ==
    /\ id \in [Ranks -> Ranks] /\ newId \in [Ranks -> Ranks]
    /\ trials \in [Ranks -> Nat]
    /\ at \in [Ranks -> Place]
    /\ mail \in [Ranks -> [Ranks -> Seq(Letter)]]

RexInit ==
    /\ id = [p \in Ranks |-> p] /\ newId = [p \in Ranks |-> p]
    /\ trials = [p \in Ranks |-> 0]
    /\ at = [p \in Ranks |-> "computing"]
    /\ mail = [p \in Ranks |-> [q \in Ranks |-> <<>>]]

\* Mutant: the pattern does not alternate for odd ranks.
PairStuck(p) ==
    IF trials[p] % 2 = 1 /\ p % 2 = 0 THEN p - 1
    ELSE IF p % 2 = 1 THEN p - 1 ELSE p + 1

\* pair_rank.
Pair(p) ==
    IF trials[p] % 2 = 1 THEN (IF p % 2 = 1 THEN p + 1 ELSE p - 1)
    ELSE (IF p % 2 = 1 THEN p - 1 ELSE p + 1)

Begins(p) == at[p] = "computing" /\ trials[p] < Trials

Send(p, q, i) == mail' = [mail EXCEPT ![p][q] = Append(@, [id |-> i, trial |-> trials[p]])]

\* exchange returns.
Return(p) ==
    /\ trials' = [trials EXCEPT ![p] = @ + 1]
    /\ at' = [at EXCEPT ![p] = "computing"]

\* There is no pair at this end of the row.
NoPair(p) ==
    /\ Begins(p) /\ Pair(p) \notin Ranks
    /\ Return(p)
    /\ UNCHANGED <<id, newId, mail>>

\* exchange_as_slave: step (1) of the protocol begins ...
SlaveSend(p) ==
    /\ Begins(p) /\ Pair(p) \in Ranks /\ p < Pair(p)
    /\ Send(p, Pair(p), id[p])
    /\ at' = [at EXCEPT ![p] = "sending"]
    /\ UNCHANGED <<id, trials, newId>>

\* ... and MPI_Send returns.
SlaveSent(p) ==
    /\ at[p] = "sending"
    /\ at' = [at EXCEPT ![p] = "awaiting"]
    /\ UNCHANGED <<id, trials, newId, mail>>

\* Step (3) at the slave.
SlaveReceive(p) ==
    /\ at[p] = "awaiting" /\ mail[Pair(p)][p] # <<>>
    /\ id' = [id EXCEPT ![p] = Head(mail[Pair(p)][p]).id]
    /\ mail' = [mail EXCEPT ![Pair(p)][p] = Tail(@)]
    /\ Return(p)
    /\ UNCHANGED newId

\* Mutant: the slave is sent the master's replica even if the master keeps it.
MasterDecideAlways(p) ==
    /\ Begins(p) /\ Pair(p) \in Ranks /\ p > Pair(p)
    /\ mail[Pair(p)][p] # <<>>
    /\ LET theirs == Head(mail[Pair(p)][p]).id
       IN  \E mine \in {id[p], theirs} :
             /\ newId' = [newId EXCEPT ![p] = mine]
             /\ mail' = [mail EXCEPT ![Pair(p)][p] = Tail(@),
                                     ![p][Pair(p)] = Append(@, [id |-> id[p], trial |-> trials[p]])]
    /\ at' = [at EXCEPT ![p] = "answering"]
    /\ UNCHANGED <<id, trials>>

\* exchange_as_master: steps (1) and (2), and step (3) begins.  The energies and
\* the random number decide whether the two replicas change places.
MasterDecide(p) ==
    /\ Begins(p) /\ Pair(p) \in Ranks /\ p > Pair(p)
    /\ mail[Pair(p)][p] # <<>>
    /\ LET theirs == Head(mail[Pair(p)][p]).id
       IN  \E mine \in {id[p], theirs} :
             /\ newId' = [newId EXCEPT ![p] = mine]
             /\ mail' = [mail EXCEPT
                    ![Pair(p)][p] = Tail(@),
                    ![p][Pair(p)] = Append(@, [id |-> IF mine = theirs THEN id[p] ELSE theirs,
                                               trial |-> trials[p]])]
    /\ at' = [at EXCEPT ![p] = "answering"]
    /\ UNCHANGED <<id, trials>>

\* MPI_Send of the master returns, and id_ is set.
MasterSent(p) ==
    /\ at[p] = "answering"
    /\ id' = [id EXCEPT ![p] = newId[p]]
    /\ Return(p)
    /\ UNCHANGED <<newId, mail>>

Received(p) == mail[p][Pair(p)] = <<>>

Proceed(p) == NoPair(p) \/ SlaveSend(p) \/ SlaveReceive(p) \/ MasterDecide(p)
Sent(p) == SlaveSent(p) \/ MasterSent(p)

RexDone == (\A p \in Ranks : trials[p] = Trials) /\ UNCHANGED rexVars

RexNext == (\E p \in Ranks : Proceed(p) \/ Sent(p)) \/ RexDone

\* A process computes for a finite time and a message that was sent can be received; a
\* send whose message is still there may block for ever.
RexFairness == \A p \in Ranks : WF_rexVars(Proceed(p)) /\ WF_rexVars(Sent(p) /\ Received(p))

RexSpec == RexInit /\ [][RexNext]_rexVars /\ RexFairness

-----------------------------------------------------------------------------

Waiting(p) == at[p] \in {"sending", "awaiting"}

\* The replica that process p holds, be it on its way back to p.
Holds(p) ==
    IF at[p] = "answering" THEN newId[p]
    ELSE IF Waiting(p) /\ mail[Pair(p)][p] # <<>> THEN Head(mail[Pair(p)][p]).id
    ELSE id[p]

\* No replica is lost or held twice, at any moment of the three-step protocol:
\* every exchange is a swap of two neighbors at the instant of the master's decision.
Swaps == INSTANCE ReplicaSwap WITH holds <- [p \in Ranks |-> Holds(p)]
ImplementsSwaps == Swaps!Spec

\* All messages have the same tag, and processes run ahead of each other by several
\* trials: still a message is received in the trial it was sent in, as one of a pair
\* that agree who is master (exchange, 82-97).
TrialsMatch ==
    \A p, q \in Ranks :
        /\ Pair(p) = q /\ trials[p] < Trials /\ at[p] # "answering" /\ mail[q][p] # <<>> =>
              Head(mail[q][p]).trial = trials[p]
        /\ Len(mail[p][q]) <= 1

\* Every process gets through all its exchanges, however long MPI_Send blocks: a slave
\* sends first and its master receives first (protocol, 106-110).
ExchangeEnds == <>(\A p \in Ranks : trials[p] = Trials)
=============================================================================
