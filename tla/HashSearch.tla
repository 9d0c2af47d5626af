----------------------------- MODULE HashSearch ------------------------------
(***************************************************************************)
(* md::linear_hash and md::neighbor_searcher of the simulation library     *)
(* (test619, test716; the grid of open boxes in test851): points are       *)
(* hashed into buckets by the cell of space they are in, so that the pairs *)
(* closer than a distance are found by comparing adjacent buckets only.    *)
(*                                                                         *)
(* Points lie on a grid of integers, and arithmetic is exact; the integer  *)
(* conversion of a cell number keeps its width.                            *)
(***************************************************************************)
EXTENDS Integers, Sequences

CONSTANTS
    CoeffX, CoeffY, CoeffZ,   \* the primes of linear_hash
    Offset,                   \* keeps cell numbers positive: 1L << 16
    UintSize,                 \* 2^32: the range of hash_type
    LoadNum, LoadDen          \* buckets per point: 2 / 11

ASSUME HashAssumption ==
    /\ CoeffX \in Nat /\ CoeffY \in Nat /\ CoeffZ \in Nat
    /\ Offset \in Nat /\ UintSize \in Nat \ {0}
    /\ LoadNum \in Nat /\ LoadDen \in Nat \ {0}

Point == [x : Int, y : Int, z : Int]

SqDist(p, q) ==
    (p.x - q.x) * (p.x - q.x) + (p.y - q.y) * (p.y - q.y) + (p.z - q.z) * (p.z - q.z)

\* linear_hash: summed in 64 bits, where no cell number can overflow it.
Hash(x, y, z, m) == (CoeffX * x + CoeffY * y + CoeffZ * z) % m

\* determine_hash: an odd number of buckets.
Modulus(n) == LET k == (n * LoadNum) \div LoadDen IN IF k % 2 = 0 THEN k + 1 ELSE k

\* Mutant: without the offset.
CellNoOffset(c, r) == (c \div r) % UintSize

\* The number of the cell of size r that coordinate c is in, and the bucket of a point.
Cell(c, r) == (Offset + c \div r) % UintSize
Locate(p, r, m) == Hash(Cell(p.x, r), Cell(p.y, r), Cell(p.z, r), m)

\* The constructor: bucket numbers of adjacent cells differ by one of these, ...
HashDeltas(m) ==
    {Hash(dx, dy, dz, m) : dx \in m - 1 .. m + 1, dy \in m - 1 .. m + 1, dz \in m - 1 .. m + 1}

Adjacent(c, m) == {(c + d) % m : d \in HashDeltas(m)}

\* ... and of the two directions of a link one is kept.
Neighbors(c, m) == {b \in Adjacent(c, m) : b >= c}

\* search: the pairs it outputs, as the loops meet them: first a point of the
\* center bucket, then one of the neighbor; within one bucket in index order.
Search(points, r, m) ==
    LET at == [i \in DOMAIN points |-> Locate(points[i], r, m)]
    IN  {v \in (DOMAIN points) \X (DOMAIN points) :
            /\ at[v[2]] \in Neighbors(at[v[1]], m)
            /\ at[v[1]] = at[v[2]] => v[1] < v[2]
            /\ SqDist(points[v[1]], points[v[2]]) <= r * r}

\* query: the points found near p.
Query(p, points, r, m) ==
    {i \in DOMAIN points :
        /\ Locate(points[i], r, m) \in Adjacent(Locate(p, r, m), m)
        /\ SqDist(points[i], p) < r * r}
=============================================================================
