---------------------------- MODULE NeighborList -----------------------------
(***************************************************************************)
(* md::neighbor_list (test619, test716 md.hpp): the forcefields of a       *)
(* simulation take the pairs of near particles from a list that is rebuilt *)
(* only when it may have become incomplete.  It lists pairs up to a        *)
(* distance 1.2 times the cutoff, and is good as long as no particle has   *)
(* moved by more than half of the difference since.                        *)
(*                                                                         *)
(* Between two updates particles move and are added, and the cutoff may    *)
(* change.  Distances are in units such that every cutoff is a multiple of *)
(* five.                                                                   *)
(***************************************************************************)
EXTENDS HashSearch

CONSTANTS
    Sites,        \* the places a particle can be in
    Cutoffs,      \* the cutoffs a forcefield asks for
    MaxPoints     \* bound on the particles

\* skin_factor.
Verlet(dcut) == 6 * (dcut \div 5)

ASSUME ListAssumption ==
    /\ \A p \in Sites : p \in Point
    /\ \A d \in Cutoffs : d \in Nat /\ d > 0 /\ d % 5 = 0
    /\ MaxPoints \in Nat
    /\ \A p \in Sites, d \in Cutoffs :
          /\ Offset + p.x \div Verlet(d) \in 0 .. UintSize - 1
          /\ Offset + p.y \div Verlet(d) \in 0 .. UintSize - 1
          /\ Offset + p.z \div Verlet(d) \in 0 .. UintSize - 1

VARIABLES
    points,       \* the particles of the system
    cached,       \* cached_points_: the particles at the last rebuild
    verlet,       \* verlet_radius_
    pairs         \* pairs_: the list, in the order of Search

listVars == <<points, cached, verlet, pairs>>

ListTypeOK ==
    /\ points \in Seq(Sites) /\ cached \in Seq(Sites)
    /\ verlet \in {0} \union {Verlet(d) : d \in Cutoffs}
    /\ pairs \subseteq (1 .. Len(cached)) \X (1 .. Len(cached))

ListInit ==
    /\ points = <<>>
    /\ cached = <<>> /\ verlet = 0 /\ pairs = {}

\* The system, between two updates.
AddParticle ==
    /\ Len(points) < MaxPoints
    /\ \E p \in Sites : points' = Append(points, p)
    /\ UNCHANGED <<cached, verlet, pairs>>

MoveParticle ==
    /\ \E i \in DOMAIN points, p \in Sites : points' = [points EXCEPT ![i] = p]
    /\ UNCHANGED <<cached, verlet, pairs>>

\* Mutant: the whole difference is allowed to each particle of a pair.
ConsistentWhole(ps, dcut) ==
    /\ Len(ps) = Len(cached)
    /\ verlet > dcut
    /\ \A i \in DOMAIN ps : SqDist(ps[i], cached[i]) <= (verlet - dcut) * (verlet - dcut)

\* check_consistency; both sides of the comparison are doubled.
Consistent(ps, dcut) ==
    /\ Len(ps) = Len(cached)
    /\ verlet > dcut
    /\ \A i \in DOMAIN ps : 4 * SqDist(ps[i], cached[i]) <= (verlet - dcut) * (verlet - dcut)

Rebuild(dcut) ==
    /\ verlet' = Verlet(dcut)
    /\ cached' = points
    /\ pairs' = Search(points, Verlet(dcut), Modulus(Len(points)))

\* update, as get_neighbor_list calls it before the pairs are used.
Update(dcut) ==
    /\ IF Consistent(points, dcut) THEN UNCHANGED <<cached, verlet, pairs>> ELSE Rebuild(dcut)
    /\ UNCHANGED points

ListNext == AddParticle \/ MoveParticle \/ \E d \in Cutoffs : Update(d)

ListSpec == ListInit /\ [][ListNext]_listVars

-----------------------------------------------------------------------------

\* The hashed search finds every near pair exactly once, in one of its two orders, and
\* no other, although far cells share a bucket; and query finds the points
\* strictly nearer than the distance (comments 3047, 3061).
SearchExact == verlet > 0 =>
    /\ \A i, j \in DOMAIN cached :
          /\ <<i, i>> \notin pairs
          /\ <<i, j>> \in pairs => <<j, i>> \notin pairs
          /\ i # j => (<<i, j>> \in pairs \/ <<j, i>> \in pairs
                         <=> SqDist(cached[i], cached[j]) <= verlet * verlet)
    /\ \A p \in Sites :
          Query(p, cached, verlet, Modulus(Len(cached)))
              = {i \in DOMAIN cached : SqDist(cached[i], p) < verlet * verlet}

\* A list that update keeps has every pair within the cutoff asked for, however the
\* particles have moved and the cutoff has changed since it was built
\* (comment of check_consistency: "False negatives won't arise").
ListComplete ==
    \A d \in Cutoffs : Consistent(points, d) =>
        \A i, j \in DOMAIN points :
            i # j /\ SqDist(points[i], points[j]) <= d * d
                => <<i, j>> \in pairs \/ <<j, i>> \in pairs
=============================================================================
