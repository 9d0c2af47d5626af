--------------------------- MODULE PeriodicSearch ----------------------------
(***************************************************************************)
(* test851-periodic: neighbor_searcher<Box> for boxes that repeat in all   *)
(* directions, in x and y only, or not at all.  The constructor builds a   *)
(* grid of buckets for a box and a distance; set_points puts points into   *)
(* the buckets; search compares the points of linked buckets.              *)
(*                                                                         *)
(* Points lie on a grid of integers; One is the unit of length in which    *)
(* the members of a default box are 1.                                     *)
(***************************************************************************)
EXTENDS HashSearch, FiniteSets

CONSTANTS
    Boxes,        \* the boxes a searcher is made for
    Distances,    \* its cut-off distances
    Places,       \* where points can be
    MaxPlaced,    \* bound on the points
    MaxLayers,    \* bound on the z bins of an xy-periodic box
    One

PeriodicBox(x, y, z) == [kind |-> "periodic", x |-> x, y |-> y, z |-> z]
XYBox(x, y) == [kind |-> "xy", x |-> x, y |-> y]
OpenBox(n) == [kind |-> "open", count |-> n]

\* A box that repeats has positive periods.  No cell number of an open one is cut off.
ASSUME PeriodicAssumption ==
    /\ \A d \in Distances \union {One} : d \in Nat /\ d > 0
    /\ MaxPlaced \in Nat /\ MaxLayers \in Nat \ {0}
    /\ \A b \in Boxes :
          \/ b.kind = "periodic" /\ {b.x, b.y, b.z} \subseteq Nat \ {0}
          \/ b.kind = "xy" /\ {b.x, b.y} \subseteq Nat \ {0}
          \/ b.kind = "open" /\ b.count \in Nat
    /\ \A p \in Places : p \in Point
    /\ \A p \in Places, d \in Distances : \A c \in {p.x, p.y, p.z} :
          Offset + c \div d \in 0 .. UintSize - 1

VARIABLES
    box,          \* the box the searcher was made for
    dcut,         \* dcut_
    layers,       \* z_bins.count of an xy-periodic box
    placed        \* the points in the buckets

periodicVars == <<box, dcut, layers, placed>>

-----------------------------------------------------------------------------
(* box.hpp.                                                                 *)

\* |round_mod(d, m)|: the difference of the nearest images of two coordinates.
Gap(d, m) == LET e == d % m IN IF 2 * e > m THEN m - e ELSE e

\* The square of shortest_displacement(p, q) in box b.
BoxSqDist(b, p, q) ==
    LET dx == IF b.kind = "open" THEN p.x - q.x ELSE Gap(p.x - q.x, b.x)
        dy == IF b.kind = "open" THEN p.y - q.y ELSE Gap(p.y - q.y, b.y)
        dz == IF b.kind = "periodic" THEN Gap(p.z - q.z, b.z) ELSE p.z - q.z
    IN  dx * dx + dy * dy + dz * dz

\* box_, which no constructor initializes: a default box of the same kind.
Measured ==
    CASE box.kind = "periodic" -> PeriodicBox(One, One, One)
      [] box.kind = "xy" -> XYBox(One, One)
      [] OTHER -> box

-----------------------------------------------------------------------------
(* search_grid.                                                             *)

\* define_bins.
BinCount(span) == IF span < dcut THEN 1 ELSE span \div dcut

\* The spans and the numbers of bins of the three axes.  estimate_z_bins tries for
\* four points to a bucket: any number of layers, each dcut high.
Span == [x |-> box.x, y |-> box.y, z |-> IF box.kind = "xy" THEN dcut * layers ELSE box.z]
Bins == [x |-> BinCount(box.x), y |-> BinCount(box.y),
         z |-> IF box.kind = "xy" THEN layers ELSE BinCount(box.z)]

\* locate_bin, for axis a.
LocateBin(c, a) == ((c % Span[a]) * Bins[a]) \div Span[a]

\* do_locate_bucket.
BucketOf(x, y, z) == x + Bins.x * (y + Bins.y * z)

\* locate_bucket of both grids.
LocateBucket(p) ==
    IF box.kind = "open" THEN Locate(p, dcut, Modulus(box.count))
    ELSE BucketOf(LocateBin(p.x, "x"), LocateBin(p.y, "y"), LocateBin(p.z, "z"))

\* Mutant: the lists are not made unique.
KeepCopies(pushed) ==
    [b \in {pushed[e] : e \in DOMAIN pushed} |-> Cardinality({e \in DOMAIN pushed : pushed[e] = b})]

\* sort_unique: how often a list holds each bucket that was pushed.
SortUnique(pushed) == [b \in {pushed[e] : e \in DOMAIN pushed} |-> 1]

\* init_bucket_adjacents: what its three loops push for the bucket at p, a neighbor for
\* each choice of three offsets.
Offsets(a) == <<0, 1, Bins[a] - 1>>
Entries == (1 .. 3) \X (1 .. 3) \X (1 .. 3)

AddMod(c, a, k) == (LocateBin(c, a) + Offsets(a)[k]) % Bins[a]

Adjacents(p) ==
    [e \in Entries |-> BucketOf(AddMod(p.x, "x", e[1]), AddMod(p.y, "y", e[2]), AddMod(p.z, "z", e[3]))]

\* complete_neighbors of the bucket at p, with how often each is in the list; the hash
\* deltas of an open box are a set.
Linked(p) ==
    IF box.kind = "open" THEN [b \in Adjacent(LocateBucket(p), Modulus(box.count)) |-> 1]
    ELSE SortUnique(Adjacents(p))

\* directed_neighbors: one direction of each link.
Kept(p, b) == IF box.kind = "open" THEN b >= LocateBucket(p) ELSE b <= LocateBucket(p)

\* How often search compares point i, of the center bucket, with point j of a neighbor.
\* Within one bucket the inner loop ends at j itself.
Meetings(i, j) ==
    LET b == LocateBucket(placed[j])
    IN  IF /\ b \in DOMAIN Linked(placed[i]) /\ Kept(placed[i], b)
           /\ LocateBucket(placed[i]) = b => i < j
        THEN Linked(placed[i])[b] ELSE 0

Reports(i, j) ==
    Meetings(i, j) > 0 /\ BoxSqDist(Measured, placed[i], placed[j]) <= dcut * dcut

-----------------------------------------------------------------------------

\* The constructor.
PeriodicInit ==
    /\ box \in Boxes /\ dcut \in Distances
    /\ layers \in IF box.kind = "xy" THEN 1 .. MaxLayers ELSE {1}
    /\ placed = <<>>

\* set_points.
SetPoints ==
    /\ \E n \in 0 .. MaxPlaced : placed' \in [1 .. n -> Places]
    /\ UNCHANGED <<box, dcut, layers>>

PeriodicNext == SetPoints

PeriodicSpec == PeriodicInit /\ [][PeriodicNext]_periodicVars

-----------------------------------------------------------------------------

Near(i, j) == BoxSqDist(box, placed[i], placed[j]) <= dcut * dcut

\* Two points that are near in the box, across any of its faces, meet in the loops of
\* search, and once: "no duplicates are reported" (85).  With one or two bins on an axis
\* the offsets fall together and a neighbor is pushed up to 27 times.
NearPairsMeetOnce ==
    \A i, j \in DOMAIN placed : i < j /\ Near(i, j) => Meetings(i, j) + Meetings(j, i) = 1

\* The comments of the constructor and of search (61-62, 83-85): the searcher uses the
\* box it is given, and reports the pairs of neighboring points.
SearchFollowsBox ==
    \A i, j \in DOMAIN placed : i < j => (Reports(i, j) \/ Reports(j, i) <=> Near(i, j))
=============================================================================
