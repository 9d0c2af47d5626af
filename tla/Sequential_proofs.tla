-------------------------- MODULE Sequential_proofs ---------------------------
(***************************************************************************)
(* Proofs about the programs of MCSequential: the stream through the       *)
(* unreliable reader, of any length, and the neighbor searches, for any    *)
(* number of particles, any cutoffs, and hash parameters within the        *)
(* assumptions of their modules.                                           *)
(***************************************************************************)
EXTENDS ReaderStream, NeighborList, PeriodicSearch, FiniteSetTheorems, TLAPS

\* The defining facts of div and %, as the provers have them.
LEMMA DivMod ==
    ASSUME NEW x \in Int, NEW m \in Nat \ {0}
    PROVE  /\ x \div m \in Int /\ x % m \in 0 .. m - 1
           /\ x = m * (x \div m) + (x % m)
OBVIOUS

\* The remainder of m * q + e, for e below m, is e.
LEMMA ModUnique ==
    ASSUME NEW q \in Int, NEW m \in Nat \ {0}, NEW e \in 0 .. m - 1
    PROVE  (m * q + e) % m = e
<1> DEFINE x == m * q + e
<1>1. x \in Int
  OBVIOUS
<1> DEFINE p == x \div m
<1>2. p \in Int /\ x % m \in 0 .. m - 1 /\ x = m * p + (x % m)
  BY <1>1, DivMod
<1> HIDE DEF p
<1>3. m * (p - q) = e - (x % m)
  BY <1>2
<1>4. p - q \in Int /\ p - q < 1 /\ p - q > -1
  <2>1. CASE p - q >= 1
    <3>1. m * (p - q) >= m
      BY <2>1, <1>2
    <3> QED BY <3>1, <1>3, <1>2
  <2>2. CASE p - q <= -1
    <3>1. m * (p - q) <= -m
      BY <2>2, <1>2
    <3> QED BY <3>1, <1>3, <1>2
  <2> QED
    BY <2>1, <2>2, <1>2
<1>5. p = q
  BY <1>4, <1>2
<1> QED
  BY <1>2, <1>5

\* Adding a multiple of the modulus does not change a remainder.
LEMMA ModShift ==
    ASSUME NEW x \in Int, NEW k \in Int, NEW m \in Nat \ {0}
    PROVE  (x + k * m) % m = x % m
<1> DEFINE q == x \div m  e == x % m
<1>1. q \in Int /\ e \in 0 .. m - 1 /\ x = m * q + e
  BY DivMod
<1> HIDE DEF q, e
<1>2. x + k * m = m * (q + k) + e
  BY <1>1
<1>3. (m * (q + k) + e) % m = e
  BY <1>1, ModUnique
<1> QED
  BY <1>2, <1>3 DEF e

\* A remainder may be taken of a term before the sum.
LEMMA ModAdd ==
    ASSUME NEW x \in Int, NEW y \in Int, NEW m \in Nat \ {0}
    PROVE  ((x % m) + (y % m)) % m = (x + y) % m
<1> DEFINE p == x \div m  q == y \div m  d == x % m  e == y % m
<1>1. p \in Int /\ d \in 0 .. m - 1 /\ x = m * p + d
  BY DivMod
<1>2. q \in Int /\ e \in 0 .. m - 1 /\ y = m * q + e
  BY DivMod
<1> HIDE DEF p, q, d, e
<1> DEFINE s == d + e  t == p + q
<1>3. s \in Int /\ t \in Int /\ x + y = s + t * m
  BY <1>1, <1>2
<1> HIDE DEF s, t
<1>4. (s + t * m) % m = s % m
  BY <1>3, ModShift
<1> QED
  BY <1>3, <1>4 DEF s, d, e

\* Numbers no more than r apart have quotients by r no more than 1 apart.
LEMMA DivStep ==
    ASSUME NEW a \in Int, NEW b \in Int, NEW r \in Nat \ {0}, a - b <= r
    PROVE  (a \div r) - (b \div r) <= 1
<1> DEFINE p == a \div r  q == b \div r
<1>1. p \in Int /\ r * p <= a
  BY DivMod
<1>2. q \in Int /\ b < r * q + r
  BY DivMod
<1> HIDE DEF p, q
<1>3. CASE p - q >= 2
  <2>1. r * (p - q) >= r * 2
    BY <1>3, <1>1, <1>2
  <2>2. r * (p - q) = r * p - r * q
    BY <1>1, <1>2
  <2> QED
    BY <2>1, <2>2, <1>1, <1>2
<1> QED
  BY <1>3, <1>1, <1>2 DEF p, q
-----------------------------------------------------------------------------
\* Cells of points no more than r apart are adjacent or equal.
LEMMA CellStep ==
    ASSUME NEW r \in Nat \ {0}, NEW a \in Int, NEW b \in Int,
           a - b <= r, b - a <= r,
           Offset + a \div r \in 0 .. UintSize - 1, Offset + b \div r \in 0 .. UintSize - 1
    PROVE  /\ Cell(a, r) \in Int /\ Cell(b, r) \in Int
           /\ Cell(b, r) - Cell(a, r) \in -1 .. 1
<1>1. (a \div r) - (b \div r) <= 1 /\ (b \div r) - (a \div r) <= 1
  BY DivStep
<1> DEFINE p == a \div r  q == b \div r
<1>2. p \in Int /\ q \in Int
  BY DivMod
<1>3. Cell(a, r) = (Offset + p) % UintSize /\ Cell(b, r) = (Offset + q) % UintSize
  BY DEF Cell
<1> HIDE DEF p, q
<1>4. ASSUME NEW e \in 0 .. UintSize - 1 PROVE e % UintSize = e
  <2>1. (UintSize * 0 + e) % UintSize = e
    BY HashAssumption, ModUnique
  <2> QED
    BY <2>1, HashAssumption
<1>5. Cell(a, r) = Offset + p /\ Cell(b, r) = Offset + q
  BY <1>3, <1>4 DEF p, q
<1> QED
  BY <1>1, <1>2, <1>5, HashAssumption DEF p, q

\* A difference of one coordinate is no larger than the distance.
LEMMA SquareBound ==
    ASSUME NEW a \in Int, NEW r \in Nat, a * a <= r * r
    PROVE  a <= r /\ -a <= r
<1>1. CASE a > r
  <2>1. a * a > r * r
    BY <1>1
  <2> QED
    BY <2>1
<1>2. CASE -a > r
  <2>1. (-a) * (-a) > r * r
    BY <1>2
  <2>2. (-a) * (-a) = a * a
    OBVIOUS
  <2> QED
    BY <2>1, <2>2
<1> QED
  BY <1>1, <1>2

\* Squares are natural numbers.
LEMMA SquareNat == ASSUME NEW a \in Int PROVE a * a \in Nat
<1>1. CASE a >= 0
  BY <1>1
<1>2. CASE a < 0
  <2>1. (-a) * (-a) \in Nat
    BY <1>2
  <2> QED
    BY <2>1
<1> QED
  BY <1>1, <1>2

\* Points no more than r apart differ by r at most in each coordinate.
LEMMA DistBound ==
    ASSUME NEW p \in Point, NEW q \in Point, NEW r \in Nat, SqDist(p, q) <= r * r
    PROVE  /\ p.x - q.x <= r /\ q.x - p.x <= r
           /\ p.y - q.y <= r /\ q.y - p.y <= r
           /\ p.z - q.z <= r /\ q.z - p.z <= r
<1> DEFINE a == p.x - q.x  b == p.y - q.y  c == p.z - q.z
<1>1. a \in Int /\ b \in Int /\ c \in Int
  BY DEF Point
<1>2. a * a + b * b + c * c <= r * r
  BY DEF SqDist
<1> HIDE DEF a, b, c
<1>3. a * a \in Nat /\ b * b \in Nat /\ c * c \in Nat /\ r * r \in Nat
  BY <1>1, SquareNat
<1>4. a * a <= r * r /\ b * b <= r * r /\ c * c <= r * r
  BY <1>2, <1>3
<1>5. a <= r /\ -a <= r /\ b <= r /\ -b <= r /\ c <= r /\ -c <= r
  BY <1>1, <1>4, SquareBound
<1> QED
  BY <1>5 DEF a, b, c, Point

-----------------------------------------------------------------------------
\* linear_hash yields a bucket (2959-2970).
LEMMA HashInt ==
    ASSUME NEW x \in Int, NEW y \in Int, NEW z \in Int, NEW m \in Nat \ {0}
    PROVE  /\ CoeffX * x + CoeffY * y + CoeffZ * z \in Int
           /\ Hash(x, y, z, m) \in 0 .. m - 1
<1>1. CoeffX * x \in Int /\ CoeffY * y \in Int /\ CoeffZ * z \in Int
  BY HashAssumption
<1> DEFINE sum == CoeffX * x + CoeffY * y + CoeffZ * z
<1>2. sum \in Int
  BY <1>1
<1> HIDE DEF sum
<1>3. sum % m \in 0 .. m - 1
  BY <1>2, DivMod
<1> QED
  BY <1>2, <1>3 DEF Hash, sum

\* The hash of a cell one step away is the hash plus that of the step, which is why the
\* deltas of the constructor (3000-3016) reach the cells around any cell.
LEMMA HashLinear ==
    ASSUME NEW m \in Nat \ {0},
           NEW ax \in Int, NEW ay \in Int, NEW az \in Int,
           NEW ex \in -1 .. 1, NEW ey \in -1 .. 1, NEW ez \in -1 .. 1
    PROVE  Hash(ax + ex, ay + ey, az + ez, m) \in Adjacent(Hash(ax, ay, az, m), m)
<1> DEFINE d  == Hash(m + ex, m + ey, m + ez, m)
           sa == CoeffX * ax + CoeffY * ay + CoeffZ * az
           sd == CoeffX * (m + ex) + CoeffY * (m + ey) + CoeffZ * (m + ez)
           sb == CoeffX * (ax + ex) + CoeffY * (ay + ey) + CoeffZ * (az + ez)
           k  == CoeffX + CoeffY + CoeffZ
<1>1. d \in HashDeltas(m)
  BY DEF HashDeltas
<1>2. sa \in Int /\ sd \in Int /\ sb \in Int /\ k \in Int
  BY HashAssumption, HashInt
<1>3. sa + sd = sb + k * m
  BY HashAssumption
<1>4. d = sd % m /\ Hash(ax, ay, az, m) = sa % m /\ Hash(ax + ex, ay + ey, az + ez, m) = sb % m
  BY DEF Hash
<1> HIDE DEF d, sa, sd, sb, k
<1>5. ((sa % m) + (sd % m)) % m = (sa + sd) % m
  BY <1>2, ModAdd
<1>6. (sb + k * m) % m = sb % m
  BY <1>2, ModShift
<1> QED
  BY <1>1, <1>3, <1>4, <1>5, <1>6 DEF Adjacent

\* Adjacency of buckets is symmetric: for each delta there is the opposite one.
LEMMA AdjacentSym ==
    ASSUME NEW m \in Nat \ {0}, NEW c \in 0 .. m - 1, NEW b \in Adjacent(c, m)
    PROVE  c \in Adjacent(b, m)
<1>1. PICK dx \in m - 1 .. m + 1, dy \in m - 1 .. m + 1, dz \in m - 1 .. m + 1 :
         b = (c + Hash(dx, dy, dz, m)) % m
  BY DEF Adjacent, HashDeltas
<1> DEFINE ux == 2 * m - dx  uy == 2 * m - dy  uz == 2 * m - dz
           d  == Hash(dx, dy, dz, m)
           u  == Hash(ux, uy, uz, m)
           sd == CoeffX * dx + CoeffY * dy + CoeffZ * dz
           su == CoeffX * ux + CoeffY * uy + CoeffZ * uz
           q  == sd \div m
           k  == 2 * (CoeffX + CoeffY + CoeffZ)
<1>2. ux \in m - 1 .. m + 1 /\ uy \in m - 1 .. m + 1 /\ uz \in m - 1 .. m + 1
  OBVIOUS
<1>3. u \in HashDeltas(m)
  BY <1>2 DEF HashDeltas
<1>4. sd \in Int /\ su \in Int /\ k \in Int /\ d = sd % m /\ u = su % m
  BY HashAssumption, HashInt, <1>2 DEF Hash
<1>5. sd + su = k * m
  BY HashAssumption
<1>6. q \in Int /\ d \in 0 .. m - 1 /\ sd = m * q + d
  BY <1>4, DivMod
<1> HIDE DEF ux, uy, uz, d, u, sd, su, q, k
<1> DEFINE s == c + d
<1> DEFINE t == k - q
<1>7. /\ s \in Int /\ t \in Int /\ c \in Int
      /\ s + su = c + t * m
  <2>1. c \in Int /\ s \in Int /\ t \in Int
    BY <1>4, <1>6
  <2>2. d + su = (k - q) * m
    BY <1>4, <1>5, <1>6
  <2>3. d \in Int /\ su \in Int
    BY <1>4, <1>6
  <2>4. (c + d) + su = c + (d + su)
    BY <2>1, <2>3
  <2> QED
    BY <2>1, <2>2, <2>4
<1> HIDE DEF s, t
<1>8. ((s % m) + (su % m)) % m = (s + su) % m
  BY <1>4, <1>7, ModAdd
<1>10. (c + t * m) % m = c % m
  BY <1>7, ModShift
<1>11. c % m = c
  <2>1. (m * 0 + c) % m = c
    BY ModUnique
  <2> QED
    BY <2>1, <1>7
<1>12. b = s % m
  BY <1>1 DEF s, d
<1>13. c = (b + u) % m
  BY <1>4, <1>7, <1>8, <1>10, <1>11, <1>12
<1> QED
  BY <1>3, <1>13 DEF Adjacent
-----------------------------------------------------------------------------
\* The triangle inequality, on squares of integers.

\* Lagrange's identity in three dimensions.
LEMMA Lagrange ==
    ASSUME NEW a \in Int, NEW b \in Int, NEW c \in Int, NEW x \in Int, NEW y \in Int, NEW z \in Int
    PROVE  (a * x + b * y + c * z) * (a * x + b * y + c * z)
             + (a * y - b * x) * (a * y - b * x)
             + (a * z - c * x) * (a * z - c * x)
             + (b * z - c * y) * (b * z - c * y)
           = (a * a + b * b + c * c) * (x * x + y * y + z * z)
OBVIOUS

\* The Cauchy-Schwarz inequality, from it.
LEMMA CauchySchwarz ==
    ASSUME NEW a \in Int, NEW b \in Int, NEW c \in Int, NEW x \in Int, NEW y \in Int, NEW z \in Int,
           NEW r \in Nat, NEW t \in Nat,
           a * a + b * b + c * c <= r * r, x * x + y * y + z * z <= t * t
    PROVE  a * x + b * y + c * z <= r * t
<1> DEFINE d == a * x + b * y + c * z
           f == a * y - b * x  g == a * z - c * x  h == b * z - c * y
           n == a * a + b * b + c * c  k == x * x + y * y + z * z
<1>1. d \in Int /\ f \in Int /\ g \in Int /\ h \in Int
  OBVIOUS
<1>2. n \in Nat /\ k \in Nat
  BY SquareNat
<1>3. d * d + f * f + g * g + h * h = n * k
  BY Lagrange
<1>4. n <= r * r /\ k <= t * t
  OBVIOUS
<1> HIDE DEF d, f, g, h, n, k
<1>5. d * d <= n * k
  <2>1. f * f \in Nat /\ g * g \in Nat /\ h * h \in Nat /\ d * d \in Nat
    BY <1>1, SquareNat
  <2>2. n * k \in Nat
    BY <1>2
  <2> QED
    BY <1>3, <2>1, <2>2
<1>6. n * k <= (r * t) * (r * t)
  <2>1. n * k <= (r * r) * k
    BY <1>2, <1>4
  <2>2. (r * r) * k <= (r * r) * (t * t)
    BY <1>2, <1>4
  <2>3. (r * r) * (t * t) = (r * t) * (r * t)
    OBVIOUS
  <2> QED
    BY <1>2, <2>1, <2>2, <2>3
<1>7. d * d <= (r * t) * (r * t) /\ r * t \in Nat
  BY <1>1, <1>2, <1>5, <1>6
<1> QED
  BY <1>1, <1>7, SquareBound DEF d

\* Distances a and b in a row are no longer than a + b.
LEMMA Triangle ==
    ASSUME NEW p \in Point, NEW q \in Point, NEW s \in Point, NEW r \in Nat, NEW t \in Nat,
           4 * SqDist(p, q) <= r * r, 4 * SqDist(q, s) <= t * t
    PROVE  4 * SqDist(p, s) <= (r + t) * (r + t)
<1> DEFINE a == 2 * (p.x - q.x)  b == 2 * (p.y - q.y)  c == 2 * (p.z - q.z)
           x == 2 * (q.x - s.x)  y == 2 * (q.y - s.y)  z == 2 * (q.z - s.z)
           n == a * a + b * b + c * c  k == x * x + y * y + z * z
           d == a * x + b * y + c * z
<1>1. /\ a \in Int /\ b \in Int /\ c \in Int
      /\ x \in Int /\ y \in Int /\ z \in Int
  BY DEF Point
<1>2. n = 4 * SqDist(p, q) /\ k = 4 * SqDist(q, s)
  BY DEF SqDist, Point
<1>3. 4 * SqDist(p, s) = n + 2 * d + k
  BY DEF SqDist, Point
<1>4. n \in Int /\ k \in Int /\ d \in Int
  BY <1>1
<1>5. n <= r * r /\ k <= t * t
  BY <1>2
<1>6. d <= r * t
  <2> HIDE DEF a, b, c, x, y, z
  <2> QED
    BY <1>1, <1>5, CauchySchwarz
<1> HIDE DEF n, k, d
<1> QED
  BY <1>3, <1>4, <1>5, <1>6
-----------------------------------------------------------------------------
\* Near points are in adjacent buckets.

InRange(p, r) ==
    /\ Offset + p.x \div r \in 0 .. UintSize - 1
    /\ Offset + p.y \div r \in 0 .. UintSize - 1
    /\ Offset + p.z \div r \in 0 .. UintSize - 1

\* Points no more than r apart lie in adjacent buckets, or the same (3018-3029, 3121-3134).
LEMMA NearAdjacent ==
    ASSUME NEW r \in Nat \ {0}, NEW m \in Nat \ {0}, NEW p \in Point, NEW q \in Point,
           InRange(p, r), InRange(q, r), SqDist(p, q) <= r * r
    PROVE  /\ Locate(p, r, m) \in 0 .. m - 1
           /\ Locate(q, r, m) \in Adjacent(Locate(p, r, m), m)
<1> DEFINE ax == Cell(p.x, r)  ay == Cell(p.y, r)  az == Cell(p.z, r)
           ex == Cell(q.x, r) - ax  ey == Cell(q.y, r) - ay  ez == Cell(q.z, r) - az
<1>1. /\ p.x \in Int /\ p.y \in Int /\ p.z \in Int
      /\ q.x \in Int /\ q.y \in Int /\ q.z \in Int
  BY DEF Point
<1>2. /\ p.x - q.x <= r /\ q.x - p.x <= r
      /\ p.y - q.y <= r /\ q.y - p.y <= r
      /\ p.z - q.z <= r /\ q.z - p.z <= r
  BY DistBound
<1>3. ax \in Int /\ Cell(q.x, r) \in Int /\ ex \in -1 .. 1
  BY <1>1, <1>2, CellStep DEF InRange
<1>4. ay \in Int /\ Cell(q.y, r) \in Int /\ ey \in -1 .. 1
  BY <1>1, <1>2, CellStep DEF InRange
<1>5. az \in Int /\ Cell(q.z, r) \in Int /\ ez \in -1 .. 1
  BY <1>1, <1>2, CellStep DEF InRange
<1>6. Cell(q.x, r) = ax + ex /\ Cell(q.y, r) = ay + ey /\ Cell(q.z, r) = az + ez
  BY <1>3, <1>4, <1>5
<1> HIDE DEF ax, ay, az, ex, ey, ez
<1>7. Hash(ax + ex, ay + ey, az + ez, m) \in Adjacent(Hash(ax, ay, az, m), m)
  BY <1>3, <1>4, <1>5, HashLinear
<1>8. Hash(ax, ay, az, m) \in 0 .. m - 1
  BY <1>3, <1>4, <1>5, HashInt
<1> QED
  BY <1>6, <1>7, <1>8 DEF Locate, ax, ay, az

\* A point within range has a bucket.
LEMMA LocateInt ==
    ASSUME NEW r \in Nat \ {0}, NEW m \in Nat \ {0}, NEW p \in Point, InRange(p, r)
    PROVE  Locate(p, r, m) \in 0 .. m - 1
<1>1. SqDist(p, p) = 0
  BY DEF SqDist, Point
<1>2. 0 <= r * r
  BY SquareNat
<1> QED
  BY <1>1, <1>2, NearAdjacent

\* Distance is symmetric.
LEMMA DistSym ==
    ASSUME NEW p \in Point, NEW q \in Point
    PROVE  SqDist(p, q) = SqDist(q, p) /\ SqDist(p, q) \in Int
BY DEF SqDist, Point

\* search lists exactly the pairs no more than the distance apart (3050-3057, 3093-3118).
LEMMA SearchCorrect ==
    ASSUME NEW r \in Nat \ {0}, NEW m \in Nat \ {0}, NEW ps \in Seq(Point),
           \A i \in DOMAIN ps : InRange(ps[i], r)
    PROVE  \A i, j \in DOMAIN ps :
             /\ <<i, i>> \notin Search(ps, r, m)
             /\ <<i, j>> \in Search(ps, r, m) => <<j, i>> \notin Search(ps, r, m)
             /\ i # j => (<<i, j>> \in Search(ps, r, m) \/ <<j, i>> \in Search(ps, r, m)
                            <=> SqDist(ps[i], ps[j]) <= r * r)
<1> SUFFICES ASSUME NEW i \in DOMAIN ps, NEW j \in DOMAIN ps
             PROVE  /\ <<i, i>> \notin Search(ps, r, m)
                    /\ <<i, j>> \in Search(ps, r, m) => <<j, i>> \notin Search(ps, r, m)
                    /\ i # j => (<<i, j>> \in Search(ps, r, m) \/ <<j, i>> \in Search(ps, r, m)
                                   <=> SqDist(ps[i], ps[j]) <= r * r)
  OBVIOUS
<1> DEFINE at(k) == Locate(ps[k], r, m)
<1>1. ASSUME NEW k \in DOMAIN ps PROVE k \in Int /\ ps[k] \in Point /\ at(k) \in 0 .. m - 1
  <2>1. k \in Int /\ ps[k] \in Point /\ InRange(ps[k], r)
    OBVIOUS
  <2> QED
    BY <2>1, LocateInt
<1>2. \A k, l \in DOMAIN ps : <<k, l>> \in Search(ps, r, m) <=>
        /\ at(l) \in Neighbors(at(k), m)
        /\ at(k) = at(l) => k < l
        /\ SqDist(ps[k], ps[l]) <= r * r
  BY DEF Search
<1>3. \A k, l \in DOMAIN ps : at(l) \in Neighbors(at(k), m) <=>
        at(l) \in Adjacent(at(k), m) /\ at(l) >= at(k)
  BY DEF Neighbors
<1>4. SqDist(ps[i], ps[j]) <= r * r => at(j) \in Adjacent(at(i), m) /\ at(i) \in Adjacent(at(j), m)
  BY <1>1, NearAdjacent, DistSym
<1>5. SqDist(ps[i], ps[j]) = SqDist(ps[j], ps[i])
  BY <1>1, DistSym
<1> HIDE DEF at
<1>6. <<i, i>> \notin Search(ps, r, m)
  BY <1>1, <1>2
<1>7. <<i, j>> \in Search(ps, r, m) => <<j, i>> \notin Search(ps, r, m)
  BY <1>1, <1>2, <1>3
<1>8. <<i, j>> \in Search(ps, r, m) \/ <<j, i>> \in Search(ps, r, m) => SqDist(ps[i], ps[j]) <= r * r
  BY <1>2, <1>5
<1>9. ASSUME i # j, SqDist(ps[i], ps[j]) <= r * r
      PROVE  <<i, j>> \in Search(ps, r, m) \/ <<j, i>> \in Search(ps, r, m)
  <2>1. \/ at(j) >= at(i) /\ (at(i) = at(j) => i < j)
        \/ at(i) >= at(j) /\ (at(j) = at(i) => j < i)
    BY <1>1, <1>9
  <2> QED
    BY <2>1, <1>2, <1>3, <1>4, <1>5, <1>9
<1> QED
  BY <1>6, <1>7, <1>8, <1>9

\* query lists exactly the points no more than the distance from its point (3061-3076).
LEMMA QueryCorrect ==
    ASSUME NEW r \in Nat \ {0}, NEW m \in Nat \ {0}, NEW ps \in Seq(Point), NEW p \in Point,
           InRange(p, r), \A i \in DOMAIN ps : InRange(ps[i], r)
    PROVE  Query(p, ps, r, m) = {i \in DOMAIN ps : SqDist(ps[i], p) < r * r}
<1> SUFFICES ASSUME NEW i \in DOMAIN ps, SqDist(ps[i], p) < r * r
             PROVE  Locate(ps[i], r, m) \in Adjacent(Locate(p, r, m), m)
  BY DEF Query
<1>1. ps[i] \in Point
  OBVIOUS
<1>2. SqDist(p, ps[i]) <= r * r
  <2>1. r * r \in Int
    OBVIOUS
  <2> QED
    BY <1>1, <2>1, DistSym
<1> QED
  BY <1>1, <1>2, NearAdjacent
-----------------------------------------------------------------------------
\* The numbers a rebuild uses.

\* The Verlet radius is a positive number (3239-3241).
LEMMA VerletOK ==
    ASSUME NEW d \in Cutoffs
    PROVE  d \in Nat /\ Verlet(d) \in Nat \ {0}
BY ListAssumption DEF Verlet

\* determine_hash yields a positive modulus (3164-3179).
LEMMA ModulusOK == ASSUME NEW n \in Nat PROVE Modulus(n) \in Nat \ {0}
<1> DEFINE x == n * LoadNum
<1>1. x \in Nat
  BY HashAssumption
<1> HIDE DEF x
<1> DEFINE k == x \div LoadDen
<1>2. k \in Int /\ x % LoadDen \in 0 .. LoadDen - 1 /\ x = LoadDen * k + (x % LoadDen)
  BY <1>1, HashAssumption, DivMod
<1> HIDE DEF k
<1>3. CASE k <= -1
  <2>1. LoadDen * k <= -LoadDen
    BY <1>2, <1>3, HashAssumption
  <2> QED
    BY <1>1, <1>2, <2>1, HashAssumption
<1>4. CASE k >= 0
  <2>1. Modulus(n) = IF k % 2 = 0 THEN k + 1 ELSE k
    BY DEF Modulus, x, k
  <2> QED
    BY <1>2, <1>4, <2>1
<1> QED
  BY <1>2, <1>3, <1>4

\* Where particles may be, all coordinates stay within the offset of the cells.
LEMMA SitesOK ==
    ASSUME NEW ps \in Seq(Sites), NEW d \in Cutoffs
    PROVE  /\ ps \in Seq(Point) /\ \A i \in DOMAIN ps : ps[i] \in Sites
           /\ \A p \in Sites : p \in Point /\ InRange(p, Verlet(d))
BY ListAssumption DEF InRange

\* The searches of a rebuild are exact.
LEMMA RebuildExact ==
    ASSUME NEW ps \in Seq(Sites), NEW d \in Cutoffs
    PROVE  LET r == Verlet(d)  m == Modulus(Len(ps)) IN
           /\ \A i, j \in DOMAIN ps :
                /\ <<i, i>> \notin Search(ps, r, m)
                /\ <<i, j>> \in Search(ps, r, m) => <<j, i>> \notin Search(ps, r, m)
                /\ i # j => (<<i, j>> \in Search(ps, r, m) \/ <<j, i>> \in Search(ps, r, m)
                               <=> SqDist(ps[i], ps[j]) <= r * r)
           /\ \A p \in Sites : Query(p, ps, r, m) = {i \in DOMAIN ps : SqDist(ps[i], p) < r * r}
<1> DEFINE r == Verlet(d)  m == Modulus(Len(ps))
<1>1. r \in Nat \ {0} /\ m \in Nat \ {0}
  BY VerletOK, ModulusOK
<1>2. /\ ps \in Seq(Point) /\ \A i \in DOMAIN ps : InRange(ps[i], r)
      /\ \A p \in Sites : p \in Point /\ InRange(p, r)
  BY SitesOK
<1> HIDE DEF r, m
<1>3. \A i, j \in DOMAIN ps :
         /\ <<i, i>> \notin Search(ps, r, m)
         /\ <<i, j>> \in Search(ps, r, m) => <<j, i>> \notin Search(ps, r, m)
         /\ i # j => (<<i, j>> \in Search(ps, r, m) \/ <<j, i>> \in Search(ps, r, m)
                        <=> SqDist(ps[i], ps[j]) <= r * r)
  BY <1>1, <1>2, SearchCorrect
<1>4. ASSUME NEW p \in Sites
      PROVE  Query(p, ps, r, m) = {i \in DOMAIN ps : SqDist(ps[i], p) < r * r}
  <2>1. p \in Point /\ InRange(p, r)
    BY <1>2
  <2>2. ps \in Seq(Point) /\ \A i \in DOMAIN ps : InRange(ps[i], r)
    BY <1>2
  <2> QED
    BY <1>1, <2>1, <2>2, QueryCorrect
<1> QED
  BY <1>3, <1>4 DEF r, m

-----------------------------------------------------------------------------
\* Type correctness and exactness of the list are inductive together: the list
\* only ever changes as a whole, in a rebuild.
ListInv == ListTypeOK /\ SearchExact

\* The invariant holds of a list before its first rebuild.
LEMMA InitListInv == ListInit => ListInv
<1> SUFFICES ASSUME ListInit PROVE ListInv
  OBVIOUS
<1>1. ListTypeOK
  BY DEF ListInit, ListTypeOK
<1>2. SearchExact
  BY DEF ListInit, SearchExact
<1> QED
  BY <1>1, <1>2 DEF ListInv

\* Every step keeps the invariant.
LEMMA StepListInv == ListInv /\ [ListNext]_listVars => ListInv'
<1> SUFFICES ASSUME ListInv, [ListNext]_listVars PROVE ListInv'
  OBVIOUS
<1>0. ListTypeOK /\ SearchExact
  BY DEF ListInv
<1>1. ASSUME UNCHANGED <<cached, verlet, pairs>>, points' \in Seq(Sites) PROVE ListInv'
  <2>1. ListTypeOK'
    BY <1>0, <1>1 DEF ListTypeOK
  <2>2. SearchExact'
    BY <1>0, <1>1 DEF SearchExact
  <2> QED
    BY <2>1, <2>2 DEF ListInv
<1>2. CASE AddParticle
  <2>1. points' \in Seq(Sites)
    BY <1>0, <1>2 DEF AddParticle, ListTypeOK
  <2> QED
    BY <1>1, <1>2, <2>1 DEF AddParticle
<1>3. CASE MoveParticle
  <2>1. points' \in Seq(Sites)
    BY <1>0, <1>3 DEF MoveParticle, ListTypeOK
  <2> QED
    BY <1>1, <1>3, <2>1 DEF MoveParticle
<1>4. ASSUME NEW d \in Cutoffs, Update(d) PROVE ListInv'
  <2>1. CASE Consistent(points, d)
    BY <1>0, <1>1, <1>4, <2>1 DEF Update, ListTypeOK
  <2>2. CASE ~Consistent(points, d)
    <3>1. /\ verlet' = Verlet(d) /\ cached' = points /\ points' = points
          /\ pairs' = Search(points, Verlet(d), Modulus(Len(points)))
      BY <1>4, <2>2 DEF Update, Rebuild
    <3>2. points \in Seq(Sites)
      BY <1>0 DEF ListTypeOK
    <3>3. Search(points, Verlet(d), Modulus(Len(points))) \subseteq (1 .. Len(points)) \X (1 .. Len(points))
      BY <3>2 DEF Search
    <3>4. ListTypeOK'
      BY <3>1, <3>2, <3>3 DEF ListTypeOK
    <3>5. SearchExact'
      BY <3>1, <3>2, RebuildExact DEF SearchExact
    <3> QED
      BY <3>4, <3>5 DEF ListInv
  <2> QED
    BY <2>1, <2>2
<1>5. CASE UNCHANGED listVars
  BY <1>0, <1>1, <1>5 DEF listVars, ListTypeOK
<1> QED
  BY <1>2, <1>3, <1>4, <1>5 DEF ListNext

\* The list and what update accepts together are enough: half of the skin for
\* each particle of a pair.
LEMMA InvComplete == ListInv => ListComplete
<1> SUFFICES ASSUME ListInv, NEW d \in Cutoffs, Consistent(points, d),
                    NEW i \in DOMAIN points, NEW j \in DOMAIN points,
                    i # j, SqDist(points[i], points[j]) <= d * d
             PROVE  <<i, j>> \in pairs \/ <<j, i>> \in pairs
  BY DEF ListComplete
<1> DEFINE t == verlet - d
           p == points[i]  q == points[j]  a == cached[i]  b == cached[j]
<1>1. ListTypeOK /\ SearchExact
  BY DEF ListInv
<1>2. d \in Nat /\ verlet \in Nat /\ t \in Nat /\ verlet > 0
  BY <1>1, VerletOK DEF ListTypeOK, Consistent
<1>3. i \in DOMAIN cached /\ j \in DOMAIN cached
  BY <1>1 DEF ListTypeOK, Consistent
<1>4. p \in Point /\ q \in Point /\ a \in Point /\ b \in Point
  BY <1>1, <1>3, ListAssumption DEF ListTypeOK
<1>5. 4 * SqDist(p, a) <= t * t /\ 4 * SqDist(q, b) <= t * t
  BY DEF Consistent
<1>6. 4 * SqDist(p, q) <= (2 * d) * (2 * d)
  BY <1>2, <1>4, DistSym
<1>7. SqDist(a, b) <= verlet * verlet
  <2> HIDE DEF p, q, a, b
  <2>1. 4 * SqDist(a, p) <= t * t
    BY <1>4, <1>5, DistSym
  <2> DEFINE e == 2 * d  w == t + e
  <2>2. e \in Nat /\ w \in Nat /\ w + t = 2 * verlet
    BY <1>2
  <2> HIDE DEF t, e
  <2>3. 4 * SqDist(a, q) <= w * w
    BY <1>2, <1>4, <1>6, <2>1, <2>2, Triangle DEF e
  <2> HIDE DEF w
  <2>4. 4 * SqDist(a, b) <= (w + t) * (w + t)
    BY <1>2, <1>4, <1>5, <2>2, <2>3, Triangle
  <2>5. 4 * SqDist(a, b) <= (2 * verlet) * (2 * verlet)
    BY <2>2, <2>4
  <2> QED
    BY <1>2, <1>4, <2>5, DistSym
<1> QED
  BY <1>1, <1>2, <1>3, <1>7 DEF SearchExact

-----------------------------------------------------------------------------
\* Type correctness of the list, for any sites, cutoffs and number of particles.
THEOREM ListTypeCorrect == ListSpec => []ListTypeOK
<1>1. ListInv => ListTypeOK
  BY DEF ListInv
<1> QED
  BY InitListInv, StepListInv, <1>1, PTL DEF ListSpec

\* For any number of points and any hash coefficients, a search lists exactly the pairs no
\* more than the distance apart: hash collisions add none and linear probing misses none.
THEOREM SearchIsExact == ListSpec => []SearchExact
<1>1. ListInv => SearchExact
  BY DEF ListInv
<1> QED
  BY InitListInv, StepListInv, <1>1, PTL DEF ListSpec

\* After an update the list holds every pair within the cutoff, although it may have been
\* built for earlier positions (3190-3233): half a skin for each particle is enough.
THEOREM NoFalseNegatives == ListSpec => []ListComplete
BY InitListInv, StepListInv, InvComplete, PTL DEF ListSpec
-----------------------------------------------------------------------------
(* The stream through the unreliable reader, of any length.                 *)

ReaderTypeOK ==
    /\ counter \in 0 .. 9 /\ delay \in Nat \union {NoMsg}
    /\ written \in Nat /\ read \in Nat /\ read <= written
    /\ out \in Seq(Nat) /\ direct \subseteq Nat

\* The messages taken since the last one was handed over directly: the counter tells how
\* many, with the delay buffer, since every other "delay" takes none.
Missed ==
    CASE counter \in {0, 6} -> 1
      [] counter \in {1, 7} -> 2
      [] counter \in {2, 8} -> IF delay = NoMsg THEN 2 ELSE 3
      [] counter = 3 -> IF delay = NoMsg THEN 3 ELSE 4
      [] counter = 4 -> 4
      [] OTHER -> 0

LastPassed == read > Missed => read - Missed \in direct

\* Of the first n messages printed at most one has overtaken m.
AtMostOneAbove(m, n) ==
    \A j, k \in 1 .. n : out[j] > m /\ out[k] > m => j = k

\* The delay buffer holds a message not printed yet, which at most one has overtaken, and
\* none has when the next direct one comes before its turn.
DelayedSoon ==
    delay # NoMsg =>
        /\ delay <= read /\ delay > 0 /\ \A i \in 1 .. Len(out) : out[i] # delay
        /\ AtMostOneAbove(delay, Len(out))
        /\ counter \in {2, 3, 4, 8} => \A i \in 1 .. Len(out) : out[i] < delay

Printed ==
    /\ \A i \in 1 .. Len(out) : out[i] \in 1 .. read /\ AtMostOneAbove(out[i], i - 1)
    /\ \A i, j \in 1 .. Len(out) : out[i] = out[j] => i = j

StreamInv ==
    /\ ReaderTypeOK /\ OneOfFivePasses /\ Printed
    /\ ~over => LastPassed /\ DelayedSoon

\* What one pass does with the counter, by cases of its new value.
LEMMA TickCases ==
    ASSUME NEW c \in 0 .. 9
    PROVE  /\ Tick(c) = (IF c = 9 THEN 0 ELSE c + 1)
           /\ \A d : /\ Passes(c, d) <=> c \in {4, 8}
                     /\ Drops(c, d) <=> c \in {9, 0, 2, 5, 6}
                     /\ Stores(c, d) <=> c \in {1, 3, 7} /\ d = NoMsg
                     /\ Returns(c, d) <=> c \in {1, 3, 7} /\ d # NoMsg
<1>1. Tick(c) = (IF c = 9 THEN 0 ELSE c + 1)
  BY DEF Tick, Period
<1>2. /\ Fate(Tick(c)) = "pass" <=> c \in {4, 8}
      /\ Fate(Tick(c)) = "drop" <=> c \in {9, 0, 2, 5, 6}
      /\ Fate(Tick(c)) = "delay" <=> c \in {1, 3, 7}
  BY <1>1 DEF Fate
<1> QED
  BY <1>1, <1>2 DEF Passes, Drops, Stores, Returns

\* Nothing is read and the buffer is empty at first.
LEMMA InitStreamInv == Init => StreamInv
BY MaxStreamAssumption DEF Init, StreamInv, ReaderTypeOK, OneOfFivePasses, Printed, LastPassed,
    DelayedSoon, AtMostOneAbove, Missed

\* Printing a message that was not printed yet, and that at most one has overtaken.
LEMMA Prints ==
    ASSUME out \in Seq(Nat), Printed, NEW m \in Nat, out' = Append(out, m),
           read' \in Nat, read \in Nat, read <= read', m \in 1 .. read',
           \A i \in 1 .. Len(out) : out[i] # m, AtMostOneAbove(m, Len(out))
    PROVE  Printed' /\ out' \in Seq(Nat)
<1>1. /\ out' \in Seq(Nat) /\ Len(out') = Len(out) + 1 /\ Len(out) \in Nat
      /\ out'[Len(out) + 1] = m /\ \A i \in 1 .. Len(out) : out'[i] = out[i]
  OBVIOUS
<1>2. ASSUME NEW i \in 1 .. Len(out')
      PROVE  out'[i] \in 1 .. read' /\ AtMostOneAbove(out[i], i - 1)'
  <2>1. CASE i = Len(out) + 1
    BY <1>1, <2>1 DEF AtMostOneAbove
  <2>2. CASE i \in 1 .. Len(out)
    <3>1. out[i] \in 1 .. read /\ AtMostOneAbove(out[i], i - 1) /\ out'[i] = out[i]
      BY <1>1, <2>2 DEF Printed
    <3>2. \A j \in 1 .. i - 1 : j \in 1 .. Len(out)
      BY <1>1, <2>2
    <3> QED
      BY <1>1, <3>1, <3>2 DEF AtMostOneAbove
  <2> QED
    BY <1>1, <2>1, <2>2
<1>3. \A i, j \in 1 .. Len(out') : out'[i] = out'[j] => i = j
  BY <1>1 DEF Printed
<1> QED
  BY <1>1, <1>2, <1>3 DEF Printed

\* Every pass of Read, and every step of the writer, keeps the invariant.
LEMMA StepStreamInv == StreamInv /\ [Next]_vars => StreamInv'
<1> SUFFICES ASSUME StreamInv, [Next]_vars PROVE StreamInv'
  OBVIOUS
<1>0. /\ ReaderTypeOK /\ OneOfFivePasses /\ Printed
      /\ ~over => LastPassed /\ DelayedSoon
      /\ counter \in 0 .. 9 /\ read \in Nat /\ out \in Seq(Nat) /\ Len(out) \in Nat
      /\ NoMsg \notin Nat /\ \A i \in 1 .. Len(out) : out[i] \in Nat /\ out[i] <= read
  BY MaxStreamAssumption DEF StreamInv, ReaderTypeOK, Printed
<1>1. CASE Write \/ Close \/ Stopped \/ UNCHANGED vars
  <2>1. UNCHANGED <<counter, delay, read, out, direct, over>>
    BY <1>1 DEF Write, Close, Stopped, vars
  <2>2. ReaderTypeOK'
    BY <1>0, <1>1, <2>1 DEF Write, Close, Stopped, vars, ReaderTypeOK
  <2> QED
    BY <1>0, <2>1, <2>2 DEF StreamInv, OneOfFivePasses, Printed, LastPassed, DelayedSoon,
      AtMostOneAbove, Missed
<1>2. CASE Pass
  <2>1. /\ counter \in {4, 8} /\ counter' = counter + 1 /\ ~over /\ over' = over
        /\ read' = read + 1 /\ read < written /\ written' = written /\ delay' = delay
        /\ out' = Append(out, read + 1) /\ direct' = direct \union {read + 1}
    BY <1>0, <1>2, TickCases DEF Pass, Consume
  <2>2. DelayedSoon /\ LastPassed
    BY <1>0, <2>1
  <2>3. Printed' /\ out' \in Seq(Nat)
    <3>1. \A i \in 1 .. Len(out) : out[i] # read + 1
      BY <1>0
    <3>2. AtMostOneAbove(read + 1, Len(out))
      BY <1>0 DEF AtMostOneAbove
    <3>3. read + 1 \in Nat /\ read' \in Nat /\ read <= read' /\ read + 1 \in 1 .. read'
      BY <1>0, <2>1
    <3> QED
      BY <1>0, <2>1, <3>1, <3>2, <3>3, Prints
  <2>4. ReaderTypeOK'
    BY <1>0, <2>1, <2>3 DEF ReaderTypeOK
  <2>5. OneOfFivePasses'
    <3> SUFFICES ASSUME NEW i \in 1 .. read + 1, i + 4 <= read + 1
                 PROVE  (i .. i + 4) \intersect direct' # {}
      BY <2>1 DEF OneOfFivePasses
    <3>1. CASE i + 4 <= read
      BY <1>0, <2>1, <3>1 DEF OneOfFivePasses
    <3>2. CASE i + 4 = read + 1
      <4>1. read + 1 \in i .. i + 4 /\ read + 1 \in direct'
        BY <1>0, <2>1, <3>2
      <4> QED
        BY <4>1
    <3> QED
      BY <1>0, <3>1, <3>2
  <2>6. LastPassed'
    BY <1>0, <2>1 DEF LastPassed, Missed
  <2>7. DelayedSoon'
    <3>1. /\ Len(out') = Len(out) + 1 /\ out'[Len(out) + 1] = read + 1
          /\ \A i \in 1 .. Len(out) : out'[i] = out[i]
      BY <1>0, <2>1
    <3>2. ASSUME delay # NoMsg
          PROVE  delay \in Nat /\ delay <= read /\ \A i \in 1 .. Len(out) : out[i] < delay
      BY <1>0, <2>1, <2>2, <3>2 DEF DelayedSoon, ReaderTypeOK
    <3> QED
      BY <1>0, <2>1, <2>2, <3>1, <3>2 DEF DelayedSoon, AtMostOneAbove
  <2> QED
    BY <2>3, <2>4, <2>5, <2>6, <2>7 DEF StreamInv
<1>3. CASE Drop \/ Store
  <2>1. /\ ~over /\ over' = over /\ read' = read + 1 /\ read < written /\ written' = written
        /\ out' = out /\ direct' = direct
    BY <1>3 DEF Drop, Store, Consume
  <2>2. \/ counter \in {9, 0, 2, 5, 6} /\ delay' = delay
        \/ counter \in {1, 3, 7} /\ delay = NoMsg /\ delay' = read + 1
    BY <1>0, <1>3, TickCases DEF Drop, Store, Consume
  <2>3. counter' = IF counter = 9 THEN 0 ELSE counter + 1
    BY <1>0, <1>3, TickCases DEF Drop, Store, Consume
  <2>4. LastPassed /\ DelayedSoon
    BY <1>0, <2>1
  <2>5. ReaderTypeOK'
    BY <1>0, <2>1, <2>2, <2>3 DEF ReaderTypeOK
  <2>6. Missed \in 0 .. 3 /\ Missed' = Missed + 1
    BY <1>0, <2>2, <2>3 DEF Missed
  <2>7. LastPassed'
    BY <1>0, <2>1, <2>4, <2>6 DEF LastPassed
  <2>8. OneOfFivePasses'
    <3> SUFFICES ASSUME NEW i \in 1 .. read + 1, i + 4 <= read + 1
                 PROVE  (i .. i + 4) \intersect direct # {}
      BY <2>1 DEF OneOfFivePasses
    <3>1. CASE i + 4 <= read
      BY <1>0, <3>1 DEF OneOfFivePasses
    <3>2. CASE i + 4 = read + 1
      <4>1. read > Missed /\ read - Missed \in i .. i + 4
        BY <1>0, <2>6, <3>2
      <4> QED
        BY <2>4, <4>1 DEF LastPassed
    <3> QED
      BY <1>0, <3>1, <3>2
  <2>9. Printed'
    BY <1>0, <2>1 DEF Printed, AtMostOneAbove
  <2>10. DelayedSoon'
    <3>1. CASE delay' = delay
      <4>1. counter' \in {2, 3, 4, 8} => counter \in {2, 3, 4, 8}
        BY <2>2, <2>3, <3>1, <1>0
      <4> QED
        BY <1>0, <2>1, <2>4, <3>1, <4>1 DEF DelayedSoon, AtMostOneAbove, ReaderTypeOK
    <3>2. CASE delay' = read + 1
      BY <1>0, <2>1, <3>2 DEF DelayedSoon, AtMostOneAbove
    <3> QED
      BY <2>2, <3>1, <3>2
  <2> QED
    BY <2>5, <2>7, <2>8, <2>9, <2>10 DEF StreamInv
<1>4. CASE Deliver
  <2>1. /\ counter \in {1, 3, 7} /\ delay # NoMsg /\ delay' = NoMsg /\ counter' = counter + 1
        /\ ~over /\ out' = Append(out, delay)
        /\ UNCHANGED <<written, read, direct, over>>
    BY <1>0, <1>4, TickCases DEF Deliver
  <2>2. /\ LastPassed /\ delay \in Nat /\ delay \in 1 .. read
        /\ \A i \in 1 .. Len(out) : out[i] # delay
        /\ AtMostOneAbove(delay, Len(out))
    BY <1>0, <2>1 DEF DelayedSoon, ReaderTypeOK
  <2>3. Printed' /\ out' \in Seq(Nat)
    BY <1>0, <2>1, <2>2, Prints
  <2>4. ReaderTypeOK'
    BY <1>0, <2>1, <2>3 DEF ReaderTypeOK
  <2>5. Missed' = Missed
    BY <1>0, <2>1 DEF Missed
  <2> QED
    BY <1>0, <2>1, <2>2, <2>3, <2>4, <2>5 DEF StreamInv, OneOfFivePasses, LastPassed, DelayedSoon
<1>5. CASE Eof
  <2>1. /\ over' = TRUE /\ UNCHANGED <<written, read, out, direct>>
        /\ counter' = IF counter = 9 THEN 0 ELSE counter + 1
        /\ delay' \in {delay, Blank}
    BY <1>0, <1>5, TickCases DEF Eof
  <2>2. ReaderTypeOK'
    BY <1>0, <2>1 DEF ReaderTypeOK, Blank
  <2> QED
    BY <1>0, <2>1, <2>2 DEF StreamInv, OneOfFivePasses, Printed, AtMostOneAbove
<1> QED
  BY <1>1, <1>2, <1>3, <1>4, <1>5 DEF Next

\* However long the stream: of any five messages in a row one is handed over directly.
THEOREM OnePasses == Spec => []OneOfFivePasses
<1>1. StreamInv => OneOfFivePasses
  BY DEF StreamInv
<1> QED
  BY <1>1, InitStreamInv, StepStreamInv, PTL DEF Spec

\* However long the stream: what is printed was read, none twice, each overtaken by at
\* most one other.
THEOREM PrintsInTurn == Spec => []PrintedInTurn
<1>1. StreamInv => PrintedInTurn
  <2> SUFFICES ASSUME StreamInv PROVE PrintedInTurn
    OBVIOUS
  <2>0. Printed /\ out \in Seq(Nat) /\ Len(out) \in Nat /\ DOMAIN out = 1 .. Len(out)
    BY DEF StreamInv, ReaderTypeOK
  <2>1. IsInjective(out)
    BY <2>0 DEF Printed, IsInjective
  <2>2. Range(out) \subseteq 1 .. read
    BY <2>0 DEF Printed, Range
  <2>3. ASSUME NEW i \in 1 .. Len(out)
        PROVE  Cardinality({j \in 1 .. i - 1 : out[j] > out[i]}) <= 1
    <3> DEFINE S == {j \in 1 .. i - 1 : out[j] > out[i]}
    <3>1. IsFiniteSet(S)
      <4>1. IsFiniteSet(1 .. i - 1)
        BY <2>0, FS_Interval
      <4> QED
        BY <4>1, FS_Subset
    <3>2. \A j, k \in S : j = k
      BY <2>0 DEF Printed, AtMostOneAbove
    <3> SUFFICES Cardinality(S) <= 1
      OBVIOUS
    <3> HIDE DEF S
    <3>3. CASE S = {}
      BY <3>3, FS_EmptySet
    <3>4. CASE S # {}
      <4>1. PICK j \in S : TRUE
        BY <3>4
      <4>2. S = {j}
        BY <3>2, <4>1
      <4>3. Cardinality(S) = 1
        BY <4>2, FS_Singleton
      <4> QED
        BY <4>3
    <3> QED
      BY <3>3, <3>4
  <2> QED
    BY <2>1, <2>2, <2>3 DEF PrintedInTurn
<1> QED
  BY <1>1, InitStreamInv, StepStreamInv, PTL DEF Spec

-----------------------------------------------------------------------------
(* The periodic search, for any boxes, distances and places.                *)

PeriodicTypeOK ==
    /\ box \in Boxes /\ dcut \in Distances /\ layers \in Nat \ {0}
    /\ DOMAIN placed \subseteq Nat /\ \A i \in DOMAIN placed : placed[i] \in Places

\* Some images of the two coordinates are at most d apart.
AxisNear(x, y, s, d) == \E k \in Int : x - y - k * s <= d /\ y - x + k * s <= d

\* b bins on an axis of length s: the bin of x, bins that are beside each other, and bins
\* not smaller than d, if there are several.
BinOf(x, s, b) == ((x % s) * b) \div s
BesideEachOther(i, j, b) == \E e \in {0, 1, b - 1} : i = (j + e) % b
WideBins(s, b, d) == b = 1 \/ b * d <= s

\* Each coordinate of a short displacement is short.
LEMMA CoordBound ==
    ASSUME NEW a \in Int, NEW b \in Int, NEW c \in Int, NEW r \in Nat,
           a * a + b * b + c * c <= r * r
    PROVE  a <= r /\ -a <= r /\ b <= r /\ -b <= r /\ c <= r /\ -c <= r
<1>1. a * a \in Nat /\ b * b \in Nat /\ c * c \in Nat /\ r * r \in Nat
  BY SquareNat
<1>2. a * a <= r * r /\ b * b <= r * r /\ c * c <= r * r
  BY <1>1
<1> QED
  BY <1>2, SquareBound

\* Of all images of two coordinates, Gap takes the nearest.
LEMMA GapNear ==
    ASSUME NEW x \in Int, NEW y \in Int, NEW s \in Nat \ {0}, NEW d \in Nat
    PROVE  Gap(x - y, s) \in Int /\ (Gap(x - y, s) <= d => AxisNear(x, y, s, d))
<1> DEFINE q == (x - y) \div s  e == (x - y) % s
<1>1. q \in Int /\ e \in 0 .. s - 1 /\ x - y = s * q + e
  BY DivMod
<1>2. Gap(x - y, s) = IF 2 * e > s THEN s - e ELSE e
  BY DEF Gap
<1> HIDE DEF q, e
<1>3. q * s = s * q /\ (q + 1) * s = s * q + s
  BY <1>1
<1>4. ASSUME Gap(x - y, s) <= d PROVE AxisNear(x, y, s, d)
  <2>1. CASE 2 * e > s
    <3>1. x - y - (q + 1) * s <= d /\ y - x + (q + 1) * s <= d
      BY <1>1, <1>2, <1>3, <1>4, <2>1
    <3>2. q + 1 \in Int
      BY <1>1
    <3> QED
      BY <3>1, <3>2 DEF AxisNear
  <2>2. CASE ~(2 * e > s)
    <3>1. x - y - q * s <= d /\ y - x + q * s <= d
      BY <1>1, <1>2, <1>3, <1>4, <2>2
    <3> QED
      BY <1>1, <3>1 DEF AxisNear
  <2> QED
    BY <2>1, <2>2
<1> QED
  BY <1>1, <1>2, <1>4

LEMMA AxisNearSym ==
    ASSUME NEW x \in Int, NEW y \in Int, NEW s \in Nat \ {0}, NEW d \in Nat, AxisNear(x, y, s, d)
    PROVE  AxisNear(y, x, s, d)
<1>1. PICK k \in Int : x - y - k * s <= d /\ y - x + k * s <= d
  BY DEF AxisNear
<1>2. -k \in Int /\ (-k) * s = -(k * s) /\ k * s \in Int
  OBVIOUS
<1>3. y - x - (-k) * s <= d /\ x - y + (-k) * s <= d
  BY <1>1, <1>2
<1> QED
  BY <1>2, <1>3 DEF AxisNear

\* A coordinate lies in one of the bins of its axis.
LEMMA BinRange ==
    ASSUME NEW s \in Nat \ {0}, NEW b \in Nat \ {0}, NEW x \in Int
    PROVE  ((x % s) * b) \div s \in 0 .. b - 1
<1> DEFINE u == x % s
<1>1. u \in 0 .. s - 1
  BY DivMod
<1> HIDE DEF u
<1>2. u * b \in Nat /\ u * b < s * b
  <2>1. u * b <= (s - 1) * b
    BY <1>1
  <2>2. (s - 1) * b = s * b - b /\ u * b \in Nat
    BY <1>1
  <2> QED
    BY <2>1, <2>2
<1> DEFINE w == u * b
<1>7. w \in Int
  BY <1>2
<1> HIDE DEF w
<1> DEFINE i == w \div s
<1>3. i \in Int /\ w % s \in 0 .. s - 1 /\ w = s * i + (w % s)
  BY <1>7, DivMod
<1> DEFINE r == w % s
<1> HIDE DEF i, r
<1>4. w >= 0 /\ w < s * b
  BY <1>2 DEF w
<1>5. i >= 0
  <2>1. i <= -1 => s * i <= -s
    BY <1>3
  <2> QED
    BY <1>3, <1>4, <2>1 DEF r
<1>6. i < b
  <2>1. i >= b => s * i >= s * b
    BY <1>3
  <2> QED
    BY <1>3, <1>4, <2>1 DEF r
<1> QED
  BY <1>3, <1>5, <1>6 DEF i, w, u

\* Bins are no smaller than the distance, so near coordinates are in the same bin or in
\* bins beside each other, be it around the end of the axis.
LEMMA AxisBeside ==
    ASSUME NEW s \in Nat \ {0}, NEW b \in Nat \ {0}, NEW d \in Nat, WideBins(s, b, d),
           NEW x \in Int, NEW y \in Int, AxisNear(x, y, s, d)
    PROVE  BesideEachOther(BinOf(x, s, b), BinOf(y, s, b), b)
<1> DEFINE u == x % s  v == y % s  p == x \div s  q == y \div s
<1>1. /\ u \in 0 .. s - 1 /\ p \in Int /\ x = s * p + u
      /\ v \in 0 .. s - 1 /\ q \in Int /\ y = s * q + v
  BY DivMod
<1> DEFINE i == (u * b) \div s  j == (v * b) \div s
<1>2. i \in 0 .. b - 1 /\ j \in 0 .. b - 1
  BY BinRange
<1>3. PICK k \in Int : x - y - k * s <= d /\ y - x + k * s <= d
  BY DEF AxisNear
<1>4. u * b \in Int /\ v * b \in Int
  BY <1>1
<1> DEFINE ru == (u * b) % s  rv == (v * b) % s
<1>5. ru \in 0 .. s - 1 /\ u * b = s * i + ru /\ rv \in 0 .. s - 1 /\ v * b = s * j + rv
  BY <1>4, DivMod
<1> HIDE DEF u, v, p, q, i, j, ru, rv
<1>6. SUFFICES \E e \in {0, 1, b - 1} : i = (j + e) % b
  BY DEF i, j, u, v, BinOf, BesideEachOther
<1>7. CASE b = 1
  <2>1. i = 0 /\ j = 0 /\ (j + 0) % b = 0
    BY <1>2, <1>7
  <2> QED
    BY <2>1
<1>8. CASE b * d <= s
  <2> DEFINE m == p - q - k  t == u - v + m * s  n == i - j + m * b
  <2>1. m \in Int /\ t \in Int /\ n \in Int /\ t <= d /\ -t <= d
    <3>1. m \in Int /\ m * s = s * p - s * q - k * s
      BY <1>1
    <3> QED
      BY <1>1, <1>2, <1>3, <3>1
  <2>2. t * b = s * n + ru - rv
    <3>1. t * b = u * b - v * b + (m * s) * b
      BY <1>1, <2>1
    <3>2. s * n = s * i - s * j + s * (m * b) /\ s * (m * b) = (m * s) * b
      BY <1>2, <2>1
    <3> QED
      BY <1>2, <1>4, <1>5, <2>1, <3>1, <3>2
  <2> HIDE DEF t, n
  <2>3. t * b <= s /\ -(t * b) <= s
    <3>1. t * b <= b * d /\ (-t) * b <= b * d /\ (-t) * b = -(t * b)
      BY <2>1
    <3> QED
      BY <1>8, <2>1, <3>1
  <2>4. n \in {-1, 0, 1}
    <3>1. n >= 2 => s * n >= s + s
      BY <2>1
    <3>2. n <= -2 => s * n <= -(s + s)
      BY <2>1
    <3> QED
      BY <1>5, <2>1, <2>2, <2>3, <3>1, <3>2
  <2>5. (j + n) % b = i
    <3>1. j + n = b * m + i
      BY <1>2, <2>1 DEF n
    <3> QED
      BY <1>2, <2>1, <3>1, ModUnique
  <2>6. CASE n \in {0, 1}
    BY <2>5, <2>6
  <2>7. CASE n = -1
    <3>1. (j + n + 1 * b) % b = (j + n) % b
      <4>1. j + n \in Int /\ 1 \in Int
        BY <1>2, <2>1
      <4> QED
        BY <4>1, ModShift
    <3>2. j + n + 1 * b = j + (b - 1)
      BY <1>2, <2>7
    <3> QED
      BY <2>5, <3>1, <3>2
  <2> QED
    BY <2>4, <2>6, <2>7
<1> QED
  BY <1>7, <1>8 DEF WideBins

Axes == {"x", "y", "z"}

\* The grid of a box that repeats: every axis has one bin, or bins of the distance or more.
LEMMA BinsOK ==
    ASSUME PeriodicTypeOK, box.kind # "open", NEW a \in Axes
    PROVE  /\ Span[a] \in Nat \ {0} /\ Bins[a] \in Nat \ {0}
           /\ Bins[a] = 1 \/ Bins[a] * dcut <= Span[a]
<1>1. dcut \in Nat \ {0} /\ layers \in Nat \ {0}
  BY PeriodicAssumption DEF PeriodicTypeOK
<1>2. ASSUME NEW s \in Nat \ {0}
      PROVE  BinCount(s) \in Nat \ {0} /\ (BinCount(s) = 1 \/ BinCount(s) * dcut <= s)
  <2>1. CASE s < dcut
    BY <2>1 DEF BinCount
  <2>2. CASE ~(s < dcut)
    <3> DEFINE q == s \div dcut  r == s % dcut
    <3>1. q \in Int /\ r \in 0 .. dcut - 1 /\ s = dcut * q + r
      BY <1>1, DivMod
    <3>2. BinCount(s) = q
      BY <2>2 DEF BinCount
    <3> HIDE DEF q, r
    <3>3. q > 0
      <4>1. q <= 0 => dcut * q <= 0
        BY <1>1, <3>1
      <4> QED
        BY <1>1, <2>2, <3>1, <4>1
    <3> QED
      BY <1>1, <3>1, <3>2, <3>3
  <2> QED
    BY <2>1, <2>2
<1>3. \/ box.kind = "periodic" /\ box.x \in Nat \ {0} /\ box.y \in Nat \ {0} /\ box.z \in Nat \ {0}
      \/ box.kind = "xy" /\ box.x \in Nat \ {0} /\ box.y \in Nat \ {0}
  BY PeriodicAssumption DEF PeriodicTypeOK
<1>4. CASE a \in {"x", "y"}
  BY <1>2, <1>3, <1>4 DEF Span, Bins
<1>5. CASE a = "z" /\ box.kind = "periodic"
  BY <1>2, <1>3, <1>5 DEF Span, Bins
<1>6. CASE a = "z" /\ box.kind = "xy"
  <2>1. dcut * layers \in Nat \ {0} /\ layers * dcut <= dcut * layers
    BY <1>1
  <2> QED
    BY <1>1, <1>6, <2>1 DEF Span, Bins
<1> QED
  BY <1>3, <1>4, <1>5, <1>6 DEF Axes

\* Points near each other in the box are near along every axis.
LEMMA NearOnAxes ==
    ASSUME PeriodicTypeOK, box.kind # "open", NEW p \in Places, NEW q \in Places,
           BoxSqDist(box, p, q) <= dcut * dcut, NEW a \in Axes
    PROVE  p[a] \in Int /\ q[a] \in Int /\ AxisNear(p[a], q[a], Span[a], dcut)
<1>1. dcut \in Nat \ {0} /\ layers \in Nat \ {0}
  BY PeriodicAssumption DEF PeriodicTypeOK
<1>2. /\ p.x \in Int /\ p.y \in Int /\ p.z \in Int
      /\ q.x \in Int /\ q.y \in Int /\ q.z \in Int
  BY PeriodicAssumption DEF Point
<1>3. \/ box.kind = "periodic" /\ box.x \in Nat \ {0} /\ box.y \in Nat \ {0} /\ box.z \in Nat \ {0}
      \/ box.kind = "xy" /\ box.x \in Nat \ {0} /\ box.y \in Nat \ {0}
  BY PeriodicAssumption DEF PeriodicTypeOK
<1> DEFINE dx == Gap(p.x - q.x, box.x)  dy == Gap(p.y - q.y, box.y)
           dz == IF box.kind = "periodic" THEN Gap(p.z - q.z, box.z) ELSE p.z - q.z
<1>4. dx \in Int /\ dy \in Int /\ dz \in Int
  <2>1. dx \in Int /\ dy \in Int
    BY <1>1, <1>2, <1>3, GapNear
  <2>2. box.kind = "periodic" => Gap(p.z - q.z, box.z) \in Int
    BY <1>1, <1>2, <1>3, GapNear
  <2> QED
    BY <1>2, <2>1, <2>2
<1>5. dx * dx + dy * dy + dz * dz <= dcut * dcut
  BY DEF BoxSqDist
<1>6. dx <= dcut /\ dy <= dcut /\ dz <= dcut /\ -dz <= dcut
  <2> HIDE DEF dx, dy, dz
  <2> QED
    BY <1>1, <1>4, <1>5, CoordBound
<1>7. AxisNear(p.x, q.x, box.x, dcut) /\ AxisNear(p.y, q.y, box.y, dcut)
  BY <1>1, <1>2, <1>3, <1>6, GapNear
<1>8. CASE a = "x"
  BY <1>2, <1>7, <1>8 DEF Span
<1>9. CASE a = "y"
  BY <1>2, <1>7, <1>9 DEF Span
<1>10. CASE a = "z" /\ box.kind = "periodic"
  <2>1. AxisNear(p.z, q.z, box.z, dcut)
    BY <1>1, <1>2, <1>3, <1>6, <1>10, GapNear
  <2> QED
    BY <1>2, <1>10, <2>1 DEF Span
<1>11. CASE a = "z" /\ box.kind # "periodic"
  <2>1. p.z - q.z - 0 * (dcut * layers) <= dcut /\ q.z - p.z + 0 * (dcut * layers) <= dcut
    BY <1>1, <1>2, <1>6, <1>11
  <2>2. AxisNear(p.z, q.z, dcut * layers, dcut)
    BY <2>1 DEF AxisNear
  <2>3. Span.z = dcut * layers
    BY <1>3, <1>11 DEF Span
  <2> QED
    BY <1>2, <1>11, <2>2, <2>3
<1> QED
  BY <1>8, <1>9, <1>10, <1>11 DEF Axes

\* The neighbors of bin i on axis a.
Beside(i, a) == {(i + d) % Bins[a] : d \in {0, 1, Bins[a] - 1}}

\* The three loops push every combination of neighbors on the axes.
LEMMA BesideListed ==
    ASSUME NEW p, NEW x \in Beside(LocateBin(p.x, "x"), "x"),
           NEW y \in Beside(LocateBin(p.y, "y"), "y"), NEW z \in Beside(LocateBin(p.z, "z"), "z")
    PROVE  BucketOf(x, y, z) \in DOMAIN SortUnique(Adjacents(p))
<1>1. ASSUME NEW c, NEW a, NEW v \in Beside(LocateBin(c, a), a)
      PROVE  \E k \in 1 .. 3 : v = AddMod(c, a, k)
  <2>1. Offsets(a)[1] = 0 /\ Offsets(a)[2] = 1 /\ Offsets(a)[3] = Bins[a] - 1
    BY DEF Offsets
  <2>2. PICK d \in {0, 1, Bins[a] - 1} : v = (LocateBin(c, a) + d) % Bins[a]
    BY <1>1 DEF Beside
  <2>3. PICK k \in 1 .. 3 : d = Offsets(a)[k]
    BY <2>1, <2>2
  <2> QED
    BY <2>2, <2>3 DEF AddMod
<1>2. PICK k \in 1 .. 3, l \in 1 .. 3, m \in 1 .. 3 :
         x = AddMod(p.x, "x", k) /\ y = AddMod(p.y, "y", l) /\ z = AddMod(p.z, "z", m)
  BY <1>1
<1> DEFINE e == <<k, l, m>>
<1>3. e \in Entries /\ e[1] = k /\ e[2] = l /\ e[3] = m
  BY DEF Entries
<1>4. Adjacents(p)[e] = BucketOf(x, y, z) /\ e \in DOMAIN Adjacents(p)
  BY <1>2, <1>3 DEF Adjacents
<1> QED
  BY <1>4 DEF SortUnique

\* Points near each other are in linked buckets, whichever of them is asked.
LEMMA NearLinked ==
    ASSUME PeriodicTypeOK, NEW p \in Places, NEW q \in Places,
           BoxSqDist(box, p, q) <= dcut * dcut
    PROVE  /\ LocateBucket(p) \in Int /\ LocateBucket(q) \in Int
           /\ LocateBucket(q) \in DOMAIN Linked(p) /\ LocateBucket(p) \in DOMAIN Linked(q)
<1>1. CASE box.kind = "open"
  <2>1. /\ dcut \in Nat \ {0} /\ Modulus(box.count) \in Nat \ {0}
        /\ p \in Point /\ q \in Point /\ InRange(p, dcut) /\ InRange(q, dcut)
    BY <1>1, PeriodicAssumption, ModulusOK DEF PeriodicTypeOK, InRange
  <2>2. SqDist(p, q) <= dcut * dcut
    BY <1>1 DEF BoxSqDist, SqDist
  <2> DEFINE m == Modulus(box.count)
  <2>3. /\ Locate(p, dcut, m) \in 0 .. m - 1 /\ Locate(q, dcut, m) \in 0 .. m - 1
        /\ Locate(q, dcut, m) \in Adjacent(Locate(p, dcut, m), m)
    BY <2>1, <2>2, NearAdjacent, LocateInt
  <2>4. Locate(p, dcut, m) \in Adjacent(Locate(q, dcut, m), m)
    BY <2>1, <2>3, AdjacentSym
  <2>5. LocateBucket(p) = Locate(p, dcut, m) /\ LocateBucket(q) = Locate(q, dcut, m)
    BY <1>1 DEF LocateBucket
  <2> QED
    BY <1>1, <2>1, <2>3, <2>4, <2>5 DEF Linked
<1>2. CASE box.kind # "open"
  <2>1. ASSUME NEW a \in Axes
        PROVE  /\ LocateBin(p[a], a) \in 0 .. Bins[a] - 1 /\ LocateBin(q[a], a) \in 0 .. Bins[a] - 1
               /\ LocateBin(q[a], a) \in Beside(LocateBin(p[a], a), a)
               /\ LocateBin(p[a], a) \in Beside(LocateBin(q[a], a), a)
               /\ Bins[a] \in Nat
    <3>0. dcut \in Nat
      BY PeriodicAssumption DEF PeriodicTypeOK
    <3>1. /\ Span[a] \in Nat \ {0} /\ Bins[a] \in Nat \ {0}
          /\ Bins[a] = 1 \/ Bins[a] * dcut <= Span[a]
      BY <1>2, BinsOK
    <3>2. p[a] \in Int /\ q[a] \in Int /\ AxisNear(p[a], q[a], Span[a], dcut)
      BY <1>2, NearOnAxes
    <3>3. AxisNear(q[a], p[a], Span[a], dcut)
      BY <3>0, <3>1, <3>2, AxisNearSym
    <3>4. LocateBin(p[a], a) \in 0 .. Bins[a] - 1 /\ LocateBin(q[a], a) \in 0 .. Bins[a] - 1
      BY <3>1, <3>2, BinRange DEF LocateBin
    <3>5. /\ LocateBin(p[a], a) = BinOf(p[a], Span[a], Bins[a])
          /\ LocateBin(q[a], a) = BinOf(q[a], Span[a], Bins[a])
      BY DEF LocateBin, BinOf
    <3>6. /\ BesideEachOther(LocateBin(p[a], a), LocateBin(q[a], a), Bins[a])
          /\ BesideEachOther(LocateBin(q[a], a), LocateBin(p[a], a), Bins[a])
      BY <3>0, <3>1, <3>2, <3>3, <3>5, AxisBeside DEF WideBins
    <3> QED
      BY <3>1, <3>4, <3>6 DEF Beside, BesideEachOther
  <2>2. /\ LocateBucket(p) = BucketOf(LocateBin(p.x, "x"), LocateBin(p.y, "y"), LocateBin(p.z, "z"))
        /\ LocateBucket(q) = BucketOf(LocateBin(q.x, "x"), LocateBin(q.y, "y"), LocateBin(q.z, "z"))
    BY <1>2 DEF LocateBucket
  <2>3. ASSUME NEW x \in Nat, NEW y \in Nat, NEW z \in Nat PROVE BucketOf(x, y, z) \in Int
    <3>1. Bins.x \in Nat /\ Bins.y \in Nat
      BY <2>1 DEF Axes
    <3>2. Bins.y * z \in Nat
      BY <3>1
    <3>3. Bins.x * (y + Bins.y * z) \in Nat
      BY <3>1, <3>2
    <3> QED
      BY <3>3 DEF BucketOf
  <2>4. /\ LocateBin(p.x, "x") \in Nat /\ LocateBin(p.y, "y") \in Nat /\ LocateBin(p.z, "z") \in Nat
        /\ LocateBin(q.x, "x") \in Nat /\ LocateBin(q.y, "y") \in Nat /\ LocateBin(q.z, "z") \in Nat
    BY <2>1 DEF Axes
  <2>5. /\ LocateBin(q.x, "x") \in Beside(LocateBin(p.x, "x"), "x")
        /\ LocateBin(q.y, "y") \in Beside(LocateBin(p.y, "y"), "y")
        /\ LocateBin(q.z, "z") \in Beside(LocateBin(p.z, "z"), "z")
        /\ LocateBin(p.x, "x") \in Beside(LocateBin(q.x, "x"), "x")
        /\ LocateBin(p.y, "y") \in Beside(LocateBin(q.y, "y"), "y")
        /\ LocateBin(p.z, "z") \in Beside(LocateBin(q.z, "z"), "z")
    BY <2>1 DEF Axes
  <2> QED
    BY <1>2, <2>2, <2>3, <2>4, <2>5, BesideListed DEF Linked
<1> QED
  BY <1>1, <1>2

\* For any box, distance and points: near points meet exactly once in the loops of
\* search, however often their buckets were pushed into each other's lists, across any faces of the box and however few bins an axis has.
THEOREM PairsMeetOnce == PeriodicSpec => []NearPairsMeetOnce
<1>1. PeriodicInit => PeriodicTypeOK
  BY PeriodicAssumption DEF PeriodicInit, PeriodicTypeOK
<1>2. PeriodicTypeOK /\ [PeriodicNext]_periodicVars => PeriodicTypeOK'
  BY DEF PeriodicTypeOK, PeriodicNext, SetPoints, periodicVars
<1>3. PeriodicTypeOK => NearPairsMeetOnce
  <2> SUFFICES ASSUME PeriodicTypeOK, NEW i \in DOMAIN placed, NEW j \in DOMAIN placed,
                      i < j, Near(i, j)
               PROVE  Meetings(i, j) + Meetings(j, i) = 1
    BY DEF NearPairsMeetOnce
  <2> DEFINE bi == LocateBucket(placed[i])  bj == LocateBucket(placed[j])
  <2>1. /\ bi \in Int /\ bj \in Int
        /\ bj \in DOMAIN Linked(placed[i]) /\ bi \in DOMAIN Linked(placed[j])
    BY NearLinked DEF Near, PeriodicTypeOK
  <2>2. Linked(placed[i])[bj] = 1 /\ Linked(placed[j])[bi] = 1
    BY <2>1 DEF Linked, SortUnique
  <2>3. /\ Meetings(i, j) = IF Kept(placed[i], bj) /\ (bi = bj => i < j) THEN 1 ELSE 0
        /\ Meetings(j, i) = IF Kept(placed[j], bi) /\ (bj = bi => j < i) THEN 1 ELSE 0
    BY <2>1, <2>2 DEF Meetings
  <2>4. /\ Kept(placed[i], bj) <=> IF box.kind = "open" THEN bj >= bi ELSE bj <= bi
        /\ Kept(placed[j], bi) <=> IF box.kind = "open" THEN bi >= bj ELSE bi <= bj
    BY DEF Kept
  <2>5. i \in Int /\ j \in Int
    BY DEF PeriodicTypeOK
  <2> HIDE DEF bi, bj
  <2>6. CASE bi = bj
    BY <2>1, <2>3, <2>4, <2>5, <2>6
  <2>7. CASE bi # bj
    BY <2>1, <2>3, <2>4, <2>7
  <2> QED
    BY <2>6, <2>7
<1> QED
  BY <1>1, <1>2, <1>3, PTL DEF PeriodicSpec
=============================================================================
