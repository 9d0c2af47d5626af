---------------------------- MODULE ReplicaSwap ------------------------------
(***************************************************************************)
(* What replica_agent (test877) promises: each process holds one replica,  *)
(* at first the one of its rank, and an exchange swaps the replicas of two *)
(* processes next to each other at one instant.  Which exchanges happen is *)
(* decided by energies and chance.                                         *)
(***************************************************************************)
EXTENDS Naturals

CONSTANT Ranks

VARIABLE holds      \* holds[p]: the replica of process p

Init == holds = [p \in Ranks |-> p]

Swap(p) ==
    /\ p + 1 \in Ranks
    /\ holds' = [holds EXCEPT ![p] = holds[p + 1], ![p + 1] = holds[p]]

Next == \E p \in Ranks : Swap(p)

Spec == Init /\ [][Next]_holds
=============================================================================
