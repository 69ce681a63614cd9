--------------------------- MODULE Datasets_proofs ---------------------------
(***************************************************************************)
(* Theorems about the workflow of a dataset, for any requests, retries and *)
(* kills: the plan of any request is whole, every variable keeps its type, *)
(* shards are removed only when their rows are combined, and the manifests *)
(* of a finished combine describe the outputs beside them.  Then about the *)
(* dataset job that starts it (DatasetJobs), for any number of polling     *)
(* requests and failures: type correctness, and that no request brings a   *)
(* deleted job back.                                                       *)
(***************************************************************************)
EXTENDS DatasetPipeline, DatasetJobs, FiniteSetTheorems, WellFoundedInduction, TLAPS

-----------------------------------------------------------------------------
(* The operators.                                                          *)

LEMMA MinOfTwo ==
    ASSUME NEW a \in Int, NEW b \in Int
    PROVE  /\ Min({a, b}) \in {a, b}
           /\ Min({a, b}) <= a /\ Min({a, b}) <= b
<1> DEFINE S == {a, b}
<1>1. \E x \in S : \A y \in S : x <= y
  <2>1. CASE a <= b
    BY <2>1
  <2>2. CASE ~ (a <= b)
    BY <2>2
  <2> QED
    BY <2>1, <2>2
<1>2. Min(S) \in S /\ \A y \in S : Min(S) <= y
  BY <1>1 DEF Min
<1> QED
  BY <1>2

LEMMA Capped ==
    ASSUME NEW n \in Nat
    PROVE  Min({100, n}) \in 0..100
<1>1. Min({100, n}) \in {100, n} /\ Min({100, n}) <= 100
  BY MinOfTwo
<1> QED
  BY <1>1

LEMMA MinOfThree ==
    ASSUME NEW a \in Int, NEW b \in Int, NEW c \in Int
    PROVE  /\ Min({a, b, c}) \in {a, b, c}
           /\ Min({a, b, c}) <= a /\ Min({a, b, c}) <= b /\ Min({a, b, c}) <= c
<1> DEFINE S == {a, b, c}
<1>1. \E x \in S : \A y \in S : x <= y
  <2>1. CASE a <= b /\ a <= c
    BY <2>1
  <2>2. CASE b <= a /\ b <= c
    BY <2>2
  <2>3. CASE c <= a /\ c <= b
    BY <2>3
  <2> QED
    BY <2>1, <2>2, <2>3
<1>2. Min(S) \in S /\ \A y \in S : Min(S) <= y
  BY <1>1 DEF Min
<1> QED
  BY <1>2

LEMMA MaxOfTwo ==
    ASSUME NEW a \in Int, NEW b \in Int
    PROVE  /\ Max({a, b}) \in {a, b}
           /\ a <= Max({a, b}) /\ b <= Max({a, b})
<1> DEFINE S == {a, b}
<1>1. \E x \in S : \A y \in S : x >= y
  <2>1. CASE a >= b
    BY <2>1
  <2>2. CASE ~ (a >= b)
    BY <2>2
  <2> QED
    BY <2>1, <2>2
<1>2. Max(S) \in S /\ \A y \in S : Max(S) >= y
  BY <1>1 DEF Max
<1> QED
  BY <1>2

LEMMA AtLeast1Type ==
    ASSUME NEW n \in Int
    PROVE  /\ AtLeast1(n) \in Nat \ {0} /\ n <= AtLeast1(n)
           /\ 1 <= n => AtLeast1(n) = n
<1>1. AtLeast1(n) \in {1, n} /\ 1 <= AtLeast1(n) /\ n <= AtLeast1(n)
  BY MaxOfTwo DEF AtLeast1
<1> QED
  BY <1>1

\* Division by a positive number, as the provers need it.
LEMMA Division ==
    ASSUME NEW a \in Nat, NEW b \in Nat \ {0}
    PROVE  /\ a \div b \in Nat /\ a \div b <= a /\ a % b \in 0..b - 1
           /\ a = b * (a \div b) + (a % b)
<1>1. /\ a \div b \in Int /\ a % b \in 0..b - 1
      /\ a = b * (a \div b) + (a % b)
  OBVIOUS
<1>2. a \div b >= 0
  BY <1>1
<1>3. a \div b <= b * (a \div b)
  BY <1>1, <1>2
<1> QED
  BY <1>1, <1>2, <1>3

LEMMA MulMono ==
    ASSUME NEW a \in Nat, NEW b \in Nat, NEW c \in Nat, a <= b
    PROVE  a * c \in Nat /\ a * c <= b * c
OBVIOUS

LEMMA IntervalFrom1 ==
    ASSUME NEW n \in Nat
    PROVE  IsFiniteSet(1..n) /\ Cardinality(1..n) = n
<1>1. IsFiniteSet(1..n) /\ Cardinality(1..n) = IF 1 > n THEN 0 ELSE n - 1 + 1
  BY FS_Interval
<1> QED
  BY <1>1

LEMMA IntervalFrom0 ==
    ASSUME NEW n \in Nat \ {0}
    PROVE  IsFiniteSet(0..n - 1) /\ Cardinality(0..n - 1) = n
<1> DEFINE m == n - 1
<1>1. 0 \in Int /\ m \in Int /\ m >= 0 /\ m - 0 + 1 = n
  OBVIOUS
<1> HIDE DEF m
<1>2. IsFiniteSet(0..m) /\ Cardinality(0..m) = IF 0 > m THEN 0 ELSE m - 0 + 1
  BY <1>1, FS_Interval, Zenon
<1> QED
  BY <1>1, <1>2 DEF m

\* A quotient below n*b is below n.
LEMMA QuotientBelow ==
    ASSUME NEW a \in Nat, NEW b \in Nat \ {0}, NEW n \in Nat, a < n * b
    PROVE  a \div b < n
<1>1. a \div b \in Nat /\ a = b * (a \div b) + (a % b) /\ a % b >= 0
  BY Division
<1>2. SUFFICES ASSUME n <= a \div b PROVE FALSE
  BY <1>1
<1>3. n * b <= (a \div b) * b
  BY <1>1, <1>2, MulMono
<1> QED
  BY <1>1, <1>3

LEMMA CeilDivCovers ==
    ASSUME NEW m \in Nat, NEW n \in Nat \ {0}
    PROVE  CeilDiv(m, n) \in Nat /\ m <= CeilDiv(m, n) * n
<1> DEFINE q == (m + n - 1) \div n
<1>1. m + n - 1 \in Nat
  OBVIOUS
<1>2. q \in Nat /\ (m + n - 1) % n \in 0..n - 1 /\ m + n - 1 = n * q + ((m + n - 1) % n)
  BY <1>1, Division
<1>3. m <= n * q
  BY <1>2
<1> QED
  BY <1>2, <1>3 DEF CeilDiv

\* CeilDiv is the least number that covers.
LEMMA CeilDivLeast ==
    ASSUME NEW m \in Nat, NEW n \in Nat \ {0}, NEW k \in Nat, m <= k * n
    PROVE  CeilDiv(m, n) <= k
<1>1. m + n - 1 \in Nat /\ m + n - 1 < (k + 1) * n
  OBVIOUS
<1>2. (m + n - 1) \div n < k + 1
  BY <1>1, QuotientBelow
<1>3. (m + n - 1) \div n \in Nat
  BY <1>1, Division
<1> QED
  BY <1>2, <1>3 DEF CeilDiv

\* Every set of naturals has a least member.
LEMMA LeastNat ==
    ASSUME NEW T \in SUBSET Nat, T # {}
    PROVE  \E x \in T : \A y \in T : x <= y
<1> DEFINE R == OpToRel(<, Nat)
<1>1. IsWellFoundedOn(R, Nat)
  BY NatLessThanWellFounded
<1>2. \A x, y \in Nat : x < y => <<x, y>> \in R
  BY DEF OpToRel
<1> HIDE DEF R
<1>3. PICK x \in T : \A y \in T : ~ (<<y, x>> \in R)
  BY <1>1, WFMin
<1>4. ASSUME NEW y \in T PROVE x <= y
  <2>1. x \in Nat /\ y \in Nat /\ ~ (y < x)
    BY <1>2, <1>3
  <2> QED
    BY <2>1
<1> QED
  BY <1>4

\* The first of any names is one of them.
LEMMA FirstIsOne ==
    ASSUME NEW names \in SUBSET (Nat \X Nat), names # {}
    PROVE  First(names) \in names
<1>1. \A x \in names : x[1] \in Nat /\ x[2] \in Nat
  OBVIOUS
<1> DEFINE G == {x[1] : x \in names}
<1>2. PICK g \in G : \A h \in G : g <= h
  <2>1. G \in SUBSET Nat /\ G # {}
    BY <1>1
  <2> QED
    BY <2>1, LeastNat
<1> DEFINE names1 == {x \in names : x[1] = g}
           C == {x[2] : x \in names1}
<1>3. PICK c \in C : \A d \in C : c <= d
  <2>1. C \in SUBSET Nat /\ C # {}
    BY <1>1, <1>2
  <2> QED
    BY <2>1, LeastNat
<1>4. PICK x \in names1 : x[2] = c
  BY <1>3
<1>5. ASSUME NEW y \in names
      PROVE  x[1] < y[1] \/ (x[1] = y[1] /\ x[2] <= y[2])
  <2>1. x[1] = g /\ y[1] \in G /\ g <= y[1] /\ y[1] \in Nat /\ g \in Nat
    BY <1>1, <1>2, <1>4
  <2>2. CASE y[1] = g
    <3>1. y[2] \in C
      BY <2>2
    <3> QED
      BY <2>1, <2>2, <3>1, <1>3, <1>4
  <2>3. CASE y[1] # g
    BY <2>1, <2>3
  <2> QED
    BY <2>2, <2>3
<1> QED
  BY <1>4, <1>5 DEF First

-----------------------------------------------------------------------------
(* The plan.                                                               *)

LEMMA ShardCountType ==
    ASSUME NEW r \in Request
    PROVE  /\ ShardCount(r) \in Nat \ {0}
           /\ r.symbols > 0 => ShardCount(r) <= r.maxShards /\ ShardCount(r) <= r.symbols
           /\ r.symbols <= r.limit * r.maxShards => r.symbols <= ShardCount(r) * r.limit
<1>1. /\ r.symbols \in Nat /\ r.units \in Nat /\ r.target \in Nat
      /\ r.limit \in Nat \ {0} /\ r.maxShards \in Nat \ {0}
  BY DEF Request
<1> DEFINE work == CeilDiv(r.symbols * r.units, AtLeast1(r.target))
           size == CeilDiv(r.symbols, AtLeast1(r.limit))
           most == Max({work, size})
           least == Min({r.symbols, r.maxShards, most})
<1>2. AtLeast1(r.target) \in Nat \ {0} /\ AtLeast1(r.limit) = r.limit
  BY <1>1, AtLeast1Type
<1>3. r.symbols * r.units \in Nat
  BY <1>1
<1>4. work \in Nat
  BY <1>2, <1>3, CeilDivCovers
<1>5. size \in Nat /\ r.symbols <= size * r.limit
  BY <1>1, <1>2, CeilDivCovers
<1>6. r.symbols <= r.limit * r.maxShards => size <= r.maxShards
  BY <1>1, <1>2, CeilDivLeast
<1>7. size <= r.symbols
  <2>1. r.symbols <= r.symbols * r.limit
    BY <1>1
  <2> QED
    BY <2>1, <1>1, <1>2, CeilDivLeast
<1> HIDE DEF work, size
<1>8. most \in Nat /\ size <= most
  <2>1. work \in Int /\ size \in Int /\ work \in Nat /\ size \in Nat
    BY <1>4, <1>5
  <2>2. most \in {work, size} /\ size <= most
    BY <2>1, MaxOfTwo, Zenon
  <2> QED
    BY <2>1, <2>2, Zenon
<1> HIDE DEF most
<1>9. /\ least \in {r.symbols, r.maxShards, most}
      /\ least <= r.symbols /\ least <= r.maxShards
  <2>1. r.symbols \in Int /\ r.maxShards \in Int /\ most \in Int
    BY <1>1, <1>8
  <2> QED
    BY <2>1, MinOfThree, Zenon
<1>10. ShardCount(r) = AtLeast1(least)
  BY DEF ShardCount, most, work, size
<1> HIDE DEF least
<1>11. least \in Nat
  BY <1>1, <1>8, <1>9
<1>12. ShardCount(r) \in Nat \ {0} /\ least <= ShardCount(r) /\ (1 <= least => ShardCount(r) = least)
  BY <1>10, <1>11, AtLeast1Type
<1>13. ASSUME r.symbols > 0
       PROVE  ShardCount(r) <= r.maxShards /\ ShardCount(r) <= r.symbols
  <2>1. size >= 1
    BY <1>1, <1>5, <1>13
  <2>2. 1 <= r.symbols /\ 1 <= r.maxShards /\ 1 <= most
    BY <1>1, <1>5, <1>8, <1>13, <2>1
  <2>3. 1 <= least
    BY <2>2, <1>9, Zenon
  <2> QED
    BY <2>3, <1>1, <1>9, <1>11, <1>12
<1>14. ASSUME r.symbols <= r.limit * r.maxShards
       PROVE  r.symbols <= ShardCount(r) * r.limit
  <2>1. size <= least
    BY <1>1, <1>5, <1>6, <1>7, <1>8, <1>9, <1>14
  <2>2. size <= ShardCount(r)
    BY <2>1, <1>5, <1>11, <1>12
  <2>3. size * r.limit <= ShardCount(r) * r.limit
    BY <2>2, <1>1, <1>5, <1>12, MulMono
  <2>4. size * r.limit \in Int /\ ShardCount(r) * r.limit \in Int
    BY <1>1, <1>5, <1>12
  <2> QED
    BY <2>3, <2>4, <1>1, <1>5
<1> QED
  BY <1>12, <1>13, <1>14

\* Where the dealing puts a symbol: its group, its place in the group, and
\* its part of the group.
Group(r, s) == ((s - 1) % ShardCount(r)) + 1
Place(r, s) == (s - 1) \div ShardCount(r)
Part(r, s) == Place(r, s) \div r.limit

LEMMA PlaceType ==
    ASSUME NEW r \in Request, NEW s \in 1..r.symbols
    PROVE  /\ Group(r, s) \in 1..ShardCount(r)
           /\ Place(r, s) \in Nat /\ Place(r, s) < r.symbols
           /\ s - 1 = ShardCount(r) * Place(r, s) + Group(r, s) - 1
           /\ Part(r, s) \in 0..r.symbols
           /\ Place(r, s) - Part(r, s) * r.limit \in 0..r.limit - 1
<1> DEFINE C == ShardCount(r)
<1>1. r.symbols \in Nat /\ r.limit \in Nat \ {0} /\ C \in Nat \ {0} /\ s - 1 \in Nat /\ s \in Int
  BY ShardCountType DEF Request
<1> HIDE DEF C
<1>2. /\ (s - 1) \div C \in Nat /\ (s - 1) \div C <= s - 1 /\ (s - 1) % C \in 0..C - 1
      /\ s - 1 = C * ((s - 1) \div C) + ((s - 1) % C)
  BY <1>1, Division
<1> DEFINE p == Place(r, s)
<1>3. p = (s - 1) \div C
  BY DEF Place, C
<1>4. p \in Nat /\ p < r.symbols
  BY <1>1, <1>2, <1>3
<1> HIDE DEF p
<1>5. /\ p \div r.limit \in Nat /\ p \div r.limit <= p /\ p % r.limit \in 0..r.limit - 1
      /\ p = r.limit * (p \div r.limit) + (p % r.limit)
  BY <1>1, <1>4, Division
<1>6. Part(r, s) = p \div r.limit
  BY DEF Part, p
<1>7. Group(r, s) = ((s - 1) % C) + 1
  BY DEF Group, C
<1>8. Group(r, s) \in 1..C /\ s - 1 = C * p + Group(r, s) - 1
  BY <1>1, <1>2, <1>3, <1>7
<1> DEFINE q == p \div r.limit
           m == p % r.limit
<1>9. q \in 0..r.symbols /\ p - q * r.limit \in 0..r.limit - 1
  <2>1. /\ q \in Nat /\ q <= p /\ m \in 0..r.limit - 1
        /\ p = r.limit * q + m
    BY <1>5
  <2> HIDE DEF q, m
  <2>2. p - q * r.limit = m
    BY <2>1, <1>1, <1>4
  <2> QED
    BY <2>1, <2>2, <1>1, <1>4
<1> QED
  BY <1>4, <1>6, <1>8, <1>9 DEF p, C

\* A shard is the symbols that the dealing puts there.
LEMMA ShardOfPlace ==
    ASSUME NEW r \in Request, NEW g \in Int, NEW c
    PROVE  ShardOf(r, g, c) = {s \in 1..r.symbols : Group(r, s) = g /\ Part(r, s) = c}
<1>1. r.symbols \in Nat /\ AtLeast1(r.limit) = r.limit /\ ShardCount(r) \in Nat \ {0}
  BY ShardCountType, AtLeast1Type DEF Request
<1>2. \A s \in 1..r.symbols : (s - 1) % ShardCount(r) \in Int
  <2> TAKE s \in 1..r.symbols
  <2>1. s - 1 \in Nat
    BY <1>1
  <2>2. (s - 1) % ShardCount(r) \in 0..ShardCount(r) - 1
    BY <2>1, <1>1, Division, Zenon
  <2> QED
    BY <2>2
<1>3. \A s \in 1..r.symbols : (s - 1) % ShardCount(r) = g - 1 <=> Group(r, s) = g
  BY <1>2 DEF Group
<1> QED
  BY <1>1, <1>3 DEF ShardOf, Part, Place

LEMMA NamesType ==
    ASSUME NEW r \in Request
    PROVE  /\ ShardNames(r) \in SUBSET (Nat \X Nat) /\ IsFiniteSet(ShardNames(r))
           /\ \A x \in ShardNames(r) : x[1] \in 1..ShardCount(r) /\ x[2] \in 0..r.symbols
<1>1. r.symbols \in Nat /\ ShardCount(r) \in Nat \ {0}
  BY ShardCountType DEF Request
<1> DEFINE N == (1..ShardCount(r)) \X (0..r.symbols)
<1>2. ShardNames(r) \subseteq N
  BY DEF ShardNames
<1>3. IsFiniteSet(N)
  <2>1. IsFiniteSet(1..ShardCount(r)) /\ IsFiniteSet(0..r.symbols)
    BY <1>1, FS_Interval
  <2> QED
    BY <2>1, FS_Product, Zenon
<1>4. IsFiniteSet(ShardNames(r))
  BY <1>2, <1>3, FS_Subset
<1>5. \A x \in N : x \in Nat \X Nat /\ x[1] \in 1..ShardCount(r) /\ x[2] \in 0..r.symbols
  BY <1>1
<1> QED
  BY <1>2, <1>4, <1>5

LEMMA PlanDomain ==
    ASSUME NEW r
    PROVE  /\ DOMAIN PlanOf(r) = ShardNames(r)
           /\ \A x \in ShardNames(r) : PlanOf(r)[x] = ShardOf(r, x[1], x[2])
BY DEF PlanOf

\* Every symbol is in a shard.
LEMMA PlanCovers ==
    ASSUME NEW r \in Request
    PROVE  UNION {PlanOf(r)[x] : x \in DOMAIN PlanOf(r)} = 1..r.symbols
<1>1. ASSUME NEW s \in 1..r.symbols
      PROVE  \E x \in ShardNames(r) : s \in PlanOf(r)[x]
  <2> DEFINE x == <<Group(r, s), Part(r, s)>>
  <2>1. x \in (1..ShardCount(r)) \X (0..r.symbols) /\ Group(r, s) \in Int
    BY PlaceType, ShardCountType
  <2>2. s \in ShardOf(r, x[1], x[2])
    BY <2>1, ShardOfPlace
  <2>3. x \in ShardNames(r)
    BY <2>1, <2>2 DEF ShardNames
  <2> QED
    BY <2>2, <2>3, PlanDomain
<1>2. ASSUME NEW x \in ShardNames(r)
      PROVE  PlanOf(r)[x] \subseteq 1..r.symbols
  BY PlanDomain DEF ShardOf
<1> QED
  BY <1>1, <1>2, PlanDomain

\* No symbol is in two.
LEMMA PlanIsApart ==
    ASSUME NEW r \in Request, NEW x \in DOMAIN PlanOf(r), NEW y \in DOMAIN PlanOf(r), x # y
    PROVE  PlanOf(r)[x] \cap PlanOf(r)[y] = {}
<1>1. x \in ShardNames(r) /\ y \in ShardNames(r)
  BY PlanDomain
<1>2. /\ x[1] \in Int /\ y[1] \in Int
      /\ x = <<x[1], x[2]>> /\ y = <<y[1], y[2]>>
  BY <1>1, NamesType
<1>3. ASSUME NEW s \in PlanOf(r)[x], s \in PlanOf(r)[y] PROVE FALSE
  <2>1. Group(r, s) = x[1] /\ Part(r, s) = x[2]
    BY <1>1, <1>2, ShardOfPlace, PlanDomain
  <2>2. Group(r, s) = y[1] /\ Part(r, s) = y[2]
    BY <1>1, <1>2, <1>3, ShardOfPlace, PlanDomain
  <2> QED
    BY <2>1, <2>2, <1>2
<1> QED
  BY <1>3

\* No shard is larger than the limit: the places of its symbols in their
\* group are apart, and among limit many.
LEMMA PlanKeepsLimit ==
    ASSUME NEW r \in Request, NEW x \in DOMAIN PlanOf(r)
    PROVE  IsFiniteSet(PlanOf(r)[x]) /\ Cardinality(PlanOf(r)[x]) <= r.limit
<1>1. x \in ShardNames(r) /\ x[1] \in Int /\ x[2] \in Int /\ r.limit \in Nat \ {0}
  BY PlanDomain, NamesType DEF Request
<1> DEFINE S == PlanOf(r)[x]
           f == [s \in S |-> Place(r, s) - x[2] * r.limit]
<1>2. \A s \in S : s \in 1..r.symbols /\ Group(r, s) = x[1] /\ Part(r, s) = x[2]
  BY <1>1, ShardOfPlace, PlanDomain
<1>3. \A s \in S : f[s] \in 0..r.limit - 1
  BY <1>2, PlaceType
<1>4. ASSUME NEW s \in S, NEW t \in S, f[s] = f[t] PROVE s = t
  <2>1. Place(r, s) = Place(r, t)
    <3>1. Place(r, s) \in Nat /\ Place(r, t) \in Nat /\ x[2] * r.limit \in Int
      BY <1>1, <1>2, PlaceType
    <3> QED
      BY <3>1, <1>4
  <2>2. /\ s - 1 = ShardCount(r) * Place(r, s) + x[1] - 1
        /\ t - 1 = ShardCount(r) * Place(r, t) + x[1] - 1
    BY <1>2, PlaceType
  <2>3. s \in Int /\ t \in Int
    BY <1>2
  <2> QED
    BY <2>1, <2>2, <2>3
<1>5. f \in Injection(S, 0..r.limit - 1)
  BY <1>3, <1>4 DEF Injection, IsInjective
<1>6. IsFiniteSet(0..r.limit - 1) /\ Cardinality(0..r.limit - 1) = r.limit
  BY <1>1, IntervalFrom0
<1> QED
  BY <1>5, <1>6, FS_Injection
\* Symbols that fit are dealt to at most maxShards groups, and none is cut.
LEMMA PlanFitsIf ==
    ASSUME NEW r \in Request, r.symbols <= r.limit * r.maxShards
    PROVE  PlanFits(r)
<1> DEFINE C == ShardCount(r)
<1>1. /\ r.symbols \in Nat /\ r.limit \in Nat \ {0} /\ r.maxShards \in Nat \ {0}
      /\ C \in Nat \ {0} /\ r.symbols <= C * r.limit
      /\ r.symbols > 0 => C <= r.maxShards
  BY ShardCountType DEF Request
<1> HIDE DEF C
<1>2. ASSUME NEW x \in ShardNames(r)
      PROVE  x \in (1..r.maxShards) \X {0}
  <2>1. x \in Nat \X Nat /\ x[1] \in 1..C /\ x[2] \in 0..r.symbols
    BY NamesType DEF C
  <2>2. PICK s \in 1..r.symbols : s \in ShardOf(r, x[1], x[2])
    BY DEF ShardNames, ShardOf
  <2>3. Part(r, s) = x[2]
    BY <2>1, <2>2, ShardOfPlace
  <2> DEFINE p == Place(r, s)
             q == Part(r, s)
  <2>4. /\ Group(r, s) \in 1..C /\ p \in Nat /\ q \in Nat
        /\ s - 1 = C * p + Group(r, s) - 1
        /\ p - q * r.limit \in 0..r.limit - 1
    BY PlaceType DEF C
  <2> HIDE DEF p, q
  <2>5. C * p < C * r.limit
    <3>1. s - 1 < r.symbols /\ s \in Nat /\ C * p \in Nat /\ C * r.limit = C * r.limit
      BY <1>1, <2>4
    <3>2. C * p <= s - 1
      BY <3>1, <2>4
    <3> QED
      BY <1>1, <3>1, <3>2
  <2>6. p < r.limit
    <3> SUFFICES ASSUME r.limit <= p PROVE FALSE
      BY <1>1, <2>4
    <3>1. r.limit * C <= p * C
      BY <1>1, <2>4, MulMono
    <3> QED
      BY <3>1, <2>5, <1>1, <2>4
  <2>7. q = 0
    <3> SUFFICES ASSUME 1 <= q PROVE FALSE
      BY <2>4
    <3>1. 1 * r.limit <= q * r.limit
      BY <1>1, <2>4, MulMono
    <3> QED
      BY <3>1, <2>4, <2>6, <1>1
  <2>8. C <= r.maxShards
    BY <1>1, <2>2
  <2>9. x = <<x[1], x[2]>> /\ x[1] \in 1..r.maxShards
    BY <2>1, <2>8, <1>1
  <2>10. x[2] = 0
    BY <2>3, <2>7 DEF q
  <2> QED
    BY <2>9, <2>10
<1>3. /\ IsFiniteSet((1..r.maxShards) \X {0})
      /\ Cardinality((1..r.maxShards) \X {0}) = r.maxShards
  <2>1. IsFiniteSet(1..r.maxShards) /\ Cardinality(1..r.maxShards) = r.maxShards
    BY <1>1, IntervalFrom1
  <2>2. IsFiniteSet({0}) /\ Cardinality({0}) = 1
    BY FS_Singleton
  <2>3. /\ IsFiniteSet((1..r.maxShards) \X {0})
        /\ Cardinality((1..r.maxShards) \X {0}) = Cardinality(1..r.maxShards) * Cardinality({0})
    BY <2>1, <2>2, FS_Product, Zenon
  <2> QED
    BY <2>1, <2>2, <2>3, <1>1
<1> QED
  BY <1>2, <1>3, FS_Subset DEF PlanFits

\* Nobody could put more than the limit times the shards into the shards.
LEMMA PlanFitsOnlyIf ==
    ASSUME NEW r \in Request, PlanFits(r)
    PROVE  r.symbols <= r.limit * r.maxShards
<1> DEFINE N == ShardNames(r)
           P == 0..r.limit - 1
           f == [s \in 1..r.symbols |->
                   << <<Group(r, s), Part(r, s)>>, Place(r, s) - Part(r, s) * r.limit >>]
<1>1. r.symbols \in Nat /\ r.limit \in Nat \ {0} /\ r.maxShards \in Nat \ {0}
  BY DEF Request
<1>2. ASSUME NEW s \in 1..r.symbols PROVE f[s] \in N \X P
  <2>1. /\ Group(r, s) \in 1..ShardCount(r) /\ Part(r, s) \in 0..r.symbols
        /\ Place(r, s) - Part(r, s) * r.limit \in P
    BY PlaceType
  <2>2. s \in ShardOf(r, Group(r, s), Part(r, s))
    BY <2>1, ShardOfPlace
  <2>3. <<Group(r, s), Part(r, s)>> \in N
    BY <2>1, <2>2 DEF ShardNames
  <2> QED
    BY <2>1, <2>3
<1>3. ASSUME NEW s \in 1..r.symbols, NEW t \in 1..r.symbols, f[s] = f[t] PROVE s = t
  <2>1. /\ Group(r, s) = Group(r, t) /\ Part(r, s) = Part(r, t)
        /\ Place(r, s) - Part(r, s) * r.limit = Place(r, t) - Part(r, t) * r.limit
    BY <1>3
  <2>2. /\ Place(r, s) \in Nat /\ Place(r, t) \in Nat /\ Part(r, t) \in Nat
        /\ s - 1 = ShardCount(r) * Place(r, s) + Group(r, s) - 1
        /\ t - 1 = ShardCount(r) * Place(r, t) + Group(r, t) - 1
    BY PlaceType
  <2>3. Part(r, t) * r.limit \in Int
    BY <1>1, <2>2
  <2>4. Place(r, s) = Place(r, t)
    BY <2>1, <2>2, <2>3
  <2> QED
    BY <2>1, <2>2, <2>4
<1>4. f \in Injection(1..r.symbols, N \X P)
  BY <1>2, <1>3 DEF Injection, IsInjective
<1>5. IsFiniteSet(P) /\ Cardinality(P) = r.limit
  BY <1>1, IntervalFrom0
<1>6. /\ IsFiniteSet(N) /\ Cardinality(N) \in Nat /\ Cardinality(N) <= r.maxShards
  BY NamesType, FS_CardinalityType DEF PlanFits
<1>7. IsFiniteSet(N \X P) /\ Cardinality(N \X P) = Cardinality(N) * Cardinality(P)
  BY <1>5, <1>6, FS_Product, Zenon
<1>8. Cardinality(1..r.symbols) <= Cardinality(N) * r.limit
  <2> HIDE DEF N, P, f
  <2>1. Cardinality(1..r.symbols) <= Cardinality(N \X P)
    BY <1>4, <1>7, FS_Injection
  <2> QED
    BY <2>1, <1>5, <1>7
<1>9. Cardinality(1..r.symbols) = r.symbols
  BY <1>1, IntervalFrom1
<1>10. Cardinality(N) * r.limit <= r.maxShards * r.limit
  BY <1>1, <1>6, MulMono
<1> HIDE DEF N
<1>11. Cardinality(N) * r.limit \in Nat /\ r.maxShards * r.limit = r.limit * r.maxShards
  BY <1>1, <1>6
<1> QED
  BY <1>1, <1>8, <1>9, <1>10, <1>11

\* The plan of any request has every symbol in one shard, no more than limit
\* of them in a shard, and no more than maxShards shards exactly when a plan
\* of so many shards exists.
THEOREM EveryPlanIsWhole ==
    ASSUME NEW r \in Request
    PROVE  LET plan == PlanOf(r) IN
           /\ UNION {plan[x] : x \in DOMAIN plan} = 1..r.symbols
           /\ \A x, y \in DOMAIN plan : x # y => plan[x] \cap plan[y] = {}
           /\ \A x \in DOMAIN plan : Cardinality(plan[x]) <= r.limit
           /\ PlanFits(r) <=> r.symbols <= r.limit * r.maxShards
<1>1. PlanFits(r) <=> r.symbols <= r.limit * r.maxShards
  BY PlanFitsIf, PlanFitsOnlyIf
<1> QED
  BY <1>1, PlanCovers, PlanIsApart, PlanKeepsLimit

THEOREM PlanWhole == Spec => []PlanIsWhole
<1>1. PlanIsWhole
  BY EveryPlanIsWhole, DatasetPipelineAssumption DEF PlanIsWhole
<1> QED
  BY <1>1, PTL

-----------------------------------------------------------------------------
(* Type correctness.                                                       *)

Active(c) == job[c].at \in {"read", "manifest", "cleanup"}

\* What makes the types inductive: an attempt is counted only of what has not
\* failed, the progress step has none before the plan, and the combine step is
\* running while its program is.
Bounded ==
    /\ node["plan"] = "running" => node["aggregate"] = "waiting"
    /\ \A n \in Step : node[n] # "failed" => tries[n] <= Retries
    /\ \A x \in DOMAIN shards : download[x] = "running" => misses[x] <= Retries
    /\ Active("step") => node["combine"] = "running"

TypeInv == TypeOK /\ Bounded

LEMMA ShardsType ==
    ASSUME TypeOK
    PROVE  /\ request \in Request /\ request.symbols \in Nat /\ request.units \in Nat
           /\ DOMAIN shards \in SUBSET (Nat \X Nat) /\ IsFiniteSet(DOMAIN shards)
           /\ \A x \in DOMAIN shards :
                /\ shards[x] \subseteq All /\ IsFiniteSet(shards[x])
                /\ Cardinality(shards[x]) \in Nat
<1>1. request \in Request /\ request.symbols \in Nat /\ request.units \in Nat
  BY DatasetPipelineAssumption DEF TypeOK, Request
<1>2. CASE shards = <<>>
  <2>1. DOMAIN shards = {}
    BY <1>2
  <2> QED
    BY <1>1, <2>1, FS_EmptySet
<1>3. CASE shards = PlanOf(request)
  <2>1. DOMAIN shards = ShardNames(request)
    BY <1>3, PlanDomain
  <2>2. \A x \in DOMAIN shards : shards[x] \subseteq All /\ IsFiniteSet(shards[x])
    BY <1>1, <1>3, <2>1, PlanDomain, PlanKeepsLimit DEF All, ShardOf
  <2> QED
    BY <1>1, <2>1, <2>2, NamesType, FS_CardinalityType
<1> QED
  BY <1>2, <1>3 DEF TypeOK

LEMMA ProgressType ==
    ASSUME TypeOK, NEW x \in DOMAIN shards
    PROVE  /\ ShardUnits(x) \in Nat \ {0}
           /\ Min({TotalPct, ShardUnits(x)}) \in 0..TotalPct
           /\ \A n \in Nat : Written(x, n) \in 0..TotalPct
<1>1. request.units \in Nat /\ Cardinality(shards[x]) \in Nat
  BY ShardsType
<1>2. Cardinality(shards[x]) * request.units \in Nat
  BY <1>1
<1>3. ShardUnits(x) \in Nat \ {0} /\ AtLeast1(request.units) \in Nat
  BY <1>1, <1>2, AtLeast1Type DEF ShardUnits
<1> DEFINE u == ShardUnits(x)
           w == AtLeast1(request.units)
<1> HIDE DEF u, w
<1>4. Min({100, u}) \in 0..100
  BY <1>3, Capped DEF u
<1>5. ASSUME NEW n \in Nat
      PROVE  Min({100, u, n * w}) \in 0..100
  <2> DEFINE m == n * w
  <2>1. m \in Nat
    BY <1>3 DEF w
  <2> HIDE DEF m
  <2>2. Min({100, u, m}) \in 0..100
    <3>1. 100 \in Int /\ u \in Int /\ m \in Int /\ u >= 0
      BY <2>1, <1>3 DEF u
    <3>2. Min({100, u, m}) \in {100, u, m} /\ Min({100, u, m}) <= 100
      BY <3>1, MinOfThree, Zenon
    <3> QED
      BY <2>1, <3>1, <3>2
  <2> QED
    BY <2>2 DEF m
<1> QED
  BY <1>3, <1>4, <1>5 DEF u, w, Written, TotalPct

LEMMA InitType == Init => TypeInv
<1> SUFFICES ASSUME Init PROVE TypeInv
  OBVIOUS
<1>1. shards = <<>> /\ DOMAIN shards = {}
  BY DEF Init
<1>2. download \in [{} -> {"running", "succeeded", "failed"}] /\ misses \in [{} -> 0..Retries + 1]
  BY DEF Init
<1>3. file \in [Kind -> [{} -> SUBSET All]] /\ progress \in [{} -> 0..TotalPct \cup {Absent}]
  BY DEF Init
<1>4. job \in [Combiner -> [at : Stage, kind : Kind, todo : SUBSET {}, rows : SUBSET All, copied : Nat]]
  BY DEF Init, Idle, Stage, Kind
<1>5. /\ node \in [Step -> StepState] /\ tries \in [Step -> 0..Retries + 1]
      /\ combined \in 0..TotalPct
      /\ output \in [Kind -> SUBSET All] /\ manifest \in [Kind -> SUBSET All]
      /\ kills \in 0..MaxKills
  BY DatasetPipelineAssumption DEF Init, Step, StepState, TotalPct
<1>6. Bounded
  BY <1>1, DatasetPipelineAssumption DEF Init, Bounded, Active, Idle, Combiner, Step
<1> QED
  BY <1>1, <1>2, <1>3, <1>4, <1>5, <1>6 DEF Init, TypeInv, TypeOK

LEMMA PlanType ==
    ASSUME TypeInv, Plan
    PROVE  TypeInv'
<1>1. /\ shards' = PlanOf(request) /\ DOMAIN shards' = ShardNames(request)
      /\ request' = request /\ DOMAIN shards \subseteq ShardNames(request)
  BY PlanDomain DEF Plan, TypeInv, TypeOK
<1>2. /\ download' \in [DOMAIN shards' -> {"running", "succeeded", "failed"}]
      /\ misses' \in [DOMAIN shards' -> 0..Retries + 1]
      /\ progress' \in [DOMAIN shards' -> 0..TotalPct \cup {Absent}]
      /\ file' \in [Kind -> [DOMAIN shards' -> SUBSET All']]
  BY <1>1, DatasetPipelineAssumption DEF Plan
<1>3. node' \in [Step -> StepState]
  BY DEF Plan, TypeInv, TypeOK, Step, StepState
<1>4. job' \in [Combiner -> [at : Stage, kind : Kind, todo : SUBSET DOMAIN shards', rows : SUBSET All', copied : Nat]]
  BY <1>1 DEF Plan, TypeInv, TypeOK, All
<1>5. Bounded'
  <2>1. /\ \A n \in Step : node'[n] # "failed" => tries'[n] <= Retries
        /\ node'["plan"] # "running"
    BY DEF Plan, TypeInv, TypeOK, Bounded, Step
  <2>2. \A x \in DOMAIN shards' : download'[x] = "running" => misses'[x] <= Retries
    BY <1>1, DatasetPipelineAssumption DEF Plan
  <2>3. Active("step")' => node'["combine"] = "running"
    <3>1. node'["combine"] = node["combine"] /\ job' = job
      BY DEF Plan, TypeInv, TypeOK, Step
    <3> QED
      BY <3>1 DEF TypeInv, Bounded, Active
  <2> QED
    BY <2>1, <2>2, <2>3 DEF Bounded
<1> QED
  BY <1>1, <1>2, <1>3, <1>4, <1>5 DEF Plan, TypeInv, TypeOK, final, All

\* What a download does to the files keeps their type, and touches one shard.
LEMMA ReplaceType ==
    ASSUME TypeOK, NEW x \in DOMAIN shards, NEW m \in SUBSET shards[x], NEW o \in OptionsOf(m),
           Replace(x, m, o)
    PROVE  file' \in [Kind -> [DOMAIN shards -> SUBSET All]]
<1>1. m \subseteq All /\ o \subseteq All
  BY ShardsType DEF OptionsOf
<1>2. file \in [Kind -> [DOMAIN shards -> SUBSET All]] /\ "market" \in Kind /\ "options" \in Kind
  BY DEF TypeOK, Kind
<1> DEFINE a == IF m = {} THEN file["market"][x] ELSE m
           b == IF o = {} THEN file["options"][x] ELSE o
<1>3. a \in SUBSET All /\ b \in SUBSET All
  BY <1>1, <1>2
<1>4. file' = [file EXCEPT !["market"][x] = a, !["options"][x] = b]
  BY DEF Replace
<1> HIDE DEF a, b
<1>5. /\ file'["market"] = [file["market"] EXCEPT ![x] = a]
      /\ file'["options"] = [file["options"] EXCEPT ![x] = b]
      /\ file' = [k \in Kind |-> file'[k]]
  BY <1>2, <1>4 DEF Kind
<1>6. /\ [file["market"] EXCEPT ![x] = a] \in [DOMAIN shards -> SUBSET All]
      /\ [file["options"] EXCEPT ![x] = b] \in [DOMAIN shards -> SUBSET All]
  BY <1>2, <1>3
<1> QED
  BY <1>5, <1>6 DEF Kind

LEMMA NoOptions ==
    ASSUME NEW m
    PROVE  {} \in OptionsOf(m)
BY DEF OptionsOf

LEMMA DownloadType ==
    ASSUME TypeInv, NEW x \in DOMAIN shards, DownloadOk(x) \/ DownloadError(x) \/ DownloadKilled(x)
    PROVE  TypeInv'
<1>1. file' \in [Kind -> [DOMAIN shards -> SUBSET All]]
  BY ReplaceType, NoOptions DEF DownloadOk, DownloadError, DownloadKilled, TypeInv
<1>2. progress' \in [DOMAIN shards -> 0..TotalPct \cup {Absent}]
  <2>1. progress \in [DOMAIN shards -> 0..TotalPct \cup {Absent}]
    BY DEF TypeInv, TypeOK
  <2>2. PICK p \in 0..TotalPct : progress' = [progress EXCEPT ![x] = p]
    <3>1. Cardinality(shards[x]) \in Nat
      BY ShardsType DEF TypeInv
    <3>2. CASE DownloadOk(x)
      BY <3>2, ProgressType DEF DownloadOk, TypeInv
    <3>3. CASE DownloadError(x)
      <4>1. PICK n \in 0..Cardinality(shards[x]) - 1 : progress' = [progress EXCEPT ![x] = Written(x, n)]
        BY <3>1, <3>3 DEF DownloadError
      <4>2. n \in Nat
        BY <3>1
      <4> QED
        BY <4>1, <4>2, ProgressType DEF TypeInv
    <3>4. CASE DownloadKilled(x)
      <4>1. PICK n \in 0..Cardinality(shards[x]) : progress' = [progress EXCEPT ![x] = Written(x, n)]
        BY <3>1, <3>4 DEF DownloadKilled
      <4>2. n \in Nat
        BY <3>1
      <4> QED
        BY <4>1, <4>2, ProgressType DEF TypeInv
    <3> QED
      BY <3>2, <3>3, <3>4
  <2> QED
    BY <2>1, <2>2
<1>3. /\ download' \in [DOMAIN shards -> {"running", "succeeded", "failed"}]
      /\ misses' \in [DOMAIN shards -> 0..Retries + 1]
      /\ \A y \in DOMAIN shards : download'[y] = "running" => misses'[y] <= Retries
  <2>1. /\ download \in [DOMAIN shards -> {"running", "succeeded", "failed"}]
        /\ misses \in [DOMAIN shards -> 0..Retries + 1] /\ misses[x] <= Retries
        /\ \A y \in DOMAIN shards : download[y] = "running" => misses[y] <= Retries
    BY DEF TypeInv, TypeOK, Bounded, DownloadOk, DownloadError, DownloadKilled
  <2>2. CASE DownloadOk(x)
    BY <2>1, <2>2 DEF DownloadOk
  <2>3. CASE DownloadError(x) \/ DownloadKilled(x)
    <3>1. Attempts(x, download, misses)
      BY <2>3 DEF DownloadError, DownloadKilled
    <3> QED
      BY <2>1, <3>1, DatasetPipelineAssumption DEF Attempts
  <2> QED
    BY <2>2, <2>3
<1>4. /\ UNCHANGED <<request, shards, node, tries, combined, output, manifest, job>>
      /\ kills' \in 0..MaxKills
  BY DatasetPipelineAssumption DEF TypeInv, TypeOK, DownloadOk, DownloadError, DownloadKilled, Kill, final
<1>5. Bounded'
  BY <1>3, <1>4 DEF Bounded, Active, TypeInv
<1> QED
  BY <1>1, <1>2, <1>3, <1>4, <1>5 DEF TypeInv, TypeOK, All

LEMMA StepType ==
    ASSUME TypeInv, PlanFails \/ AggregateEnds \/ AggregateKilled
    PROVE  TypeInv'
<1>1. /\ UNCHANGED <<request, shards, download, misses, file, progress, combined, output, manifest, job>>
      /\ kills' \in 0..MaxKills
  BY DatasetPipelineAssumption
     DEF TypeInv, TypeOK, PlanFails, AggregateEnds, AggregateKilled, Kill, final, source
<1>2. /\ node' \in [Step -> StepState] /\ tries' \in [Step -> 0..Retries + 1]
      /\ \A n \in Step : node'[n] # "failed" => tries'[n] <= Retries
      /\ node'["plan"] = "running" => node'["aggregate"] = "waiting"
      /\ node'["combine"] = node["combine"]
  <2>1. /\ node \in [Step -> StepState] /\ tries \in [Step -> 0..Retries + 1]
        /\ \A n \in Step : node[n] # "failed" => tries[n] <= Retries
        /\ node["plan"] = "running" => node["aggregate"] = "waiting"
    BY DEF TypeInv, TypeOK, Bounded
  <2>2. CASE PlanFails
    BY <2>1, <2>2 DEF PlanFails, Step, StepState
  <2>3. CASE AggregateEnds
    BY <2>1, <2>3 DEF AggregateEnds, Step, StepState
  <2>4. CASE AggregateKilled
    BY <2>1, <2>4, DatasetPipelineAssumption DEF AggregateKilled, Attempts, Step, StepState
  <2> QED
    BY <2>2, <2>3, <2>4
<1>3. Bounded'
  BY <1>1, <1>2 DEF TypeInv, Bounded, Active
<1> QED
  BY <1>1, <1>2, <1>3 DEF TypeInv, TypeOK, All

Job == [at : Stage, kind : Kind, todo : SUBSET DOMAIN shards, rows : SUBSET All, copied : Nat]

LEMMA JobFacts ==
    ASSUME TypeOK, NEW c \in Combiner
    PROVE  /\ job \in [Combiner -> Job] /\ job[c] \in Job
           /\ job[c].at \in Stage /\ job[c].kind \in Kind /\ job[c].todo \subseteq DOMAIN shards
           /\ job[c].rows \subseteq All /\ job[c].copied \in Nat
           /\ job[c].todo # {} => First(job[c].todo) \in job[c].todo
<1>1. job \in [Combiner -> Job]
  BY DEF TypeOK, Job
<1>2. job[c] \in Job
  BY <1>1
<1>3. /\ job[c].at \in Stage /\ job[c].kind \in Kind /\ job[c].todo \subseteq DOMAIN shards
      /\ job[c].rows \subseteq All /\ job[c].copied \in Nat
  BY <1>2 DEF Job
<1>4. job[c].todo \in SUBSET (Nat \X Nat)
  BY <1>3, ShardsType
<1> QED
  BY <1>1, <1>2, <1>3, <1>4, FirstIsOne

\* What a combine has to show for its types: the plan and the downloads are
\* not its business, its own job and the steps' states are.
LEMMA CombineType ==
    ASSUME TypeInv, UNCHANGED <<request, shards, download, misses>>,
           node' \in [Step -> StepState], tries' \in [Step -> 0..Retries + 1],
           \A n \in Step : node'[n] # "failed" => tries'[n] <= Retries,
           node'["plan"] = node["plan"], node'["aggregate"] = node["aggregate"],
           Active("step")' => node'["combine"] = "running",
           file' \in [Kind -> [DOMAIN shards -> SUBSET All]],
           progress' \in [DOMAIN shards -> 0..TotalPct \cup {Absent}],
           combined' \in 0..TotalPct,
           output' \in [Kind -> SUBSET All], manifest' \in [Kind -> SUBSET All],
           job' \in [Combiner -> Job], kills' \in 0..MaxKills
    PROVE  TypeInv'
<1>1. Bounded'
  BY DEF TypeInv, Bounded
<1> QED
  BY <1>1 DEF TypeInv, TypeOK, All, Job

LEMMA BeginType ==
    ASSUME TypeInv, CombineStarts \/ CombineByHand
    PROVE  TypeInv'
<1>1. PICK c \in Combiner : Begin(c) /\ (c = "step" => node'["combine"] = "running")
  BY DEF CombineStarts, CombineByHand, Combiner, TypeInv, TypeOK, Step
<1>2. job' \in [Combiner -> Job]
  <2>1. [Idle EXCEPT !.at = "read", !.todo = DOMAIN shards] \in Job
    BY DEF Idle, Job, Stage, Kind
  <2> QED
    BY <1>1, <2>1, JobFacts DEF Begin, TypeInv
<1>3. /\ node' \in [Step -> StepState] /\ tries' = tries
      /\ node'["plan"] = node["plan"] /\ node'["aggregate"] = node["aggregate"]
      /\ \A n \in Step : node'[n] # "failed" => node[n] # "failed"
      /\ node["combine"] = "running" => node'["combine"] = "running"
  BY DEF CombineStarts, CombineByHand, TypeInv, TypeOK, Step, StepState, steps
<1>4. Active("step")' => node'["combine"] = "running"
  <2>1. CASE c = "step"
    BY <1>1, <2>1
  <2>2. CASE c = "hand"
    <3>1. job'["step"] = job["step"]
      BY <1>1, <2>2, JobFacts DEF Begin, Combiner, TypeInv
    <3> QED
      BY <3>1, <1>3 DEF Active, TypeInv, Bounded
  <2> QED
    BY <2>1, <2>2 DEF Combiner
<1>5. /\ UNCHANGED <<request, shards, download, misses, file, progress, output, manifest, kills>>
      /\ combined' \in 0..TotalPct
  BY DEF CombineStarts, CombineByHand, steps, source, TotalPct
<1> QED
  BY <1>2, <1>3, <1>4, <1>5, CombineType DEF TypeInv, TypeOK, Bounded

\* The stages of a combine that leave the state of the steps alone.
LEMMA CopyType ==
    ASSUME TypeInv, NEW c \in Combiner,
           CombineReads(c) \/ CombineReplaces(c) \/ CombineWritesManifest(c) \/ CombineCleans(c)
    PROVE  TypeInv'
<1> DEFINE j == job[c]
<1>1. /\ TypeOK /\ j \in Job /\ j.at \in Stage /\ j.kind \in Kind /\ j.todo \subseteq DOMAIN shards
      /\ j.rows \subseteq All /\ j.copied \in Nat /\ job \in [Combiner -> Job]
      /\ j.todo # {} => First(j.todo) \in j.todo
  BY JobFacts DEF TypeInv
<1>2. /\ file \in [Kind -> [DOMAIN shards -> SUBSET All]]
      /\ progress \in [DOMAIN shards -> 0..TotalPct \cup {Absent}]
      /\ output \in [Kind -> SUBSET All] /\ manifest \in [Kind -> SUBSET All]
      /\ combined \in 0..TotalPct
  BY <1>1 DEF TypeOK
<1>3. UNCHANGED <<request, shards, node, download, tries, misses, kills>>
  BY DEF CombineReads, CombineReplaces, CombineWritesManifest, CombineCleans, steps
<1>4. /\ job' \in [Combiner -> Job] /\ \A d \in Combiner : d # c => job'[d] = job[d]
      /\ Active(c)
      /\ file' \in [Kind -> [DOMAIN shards -> SUBSET All]]
      /\ progress' \in [DOMAIN shards -> 0..TotalPct \cup {Absent}]
      /\ combined' \in 0..TotalPct
      /\ output' \in [Kind -> SUBSET All] /\ manifest' \in [Kind -> SUBSET All]
  <2>1. CASE CombineReads(c)
    <3> DEFINE x == First(j.todo)
               rows == file[j.kind][x]
               copied == IF rows = {} THEN j.copied ELSE j.copied + 1
    <3>1. x \in DOMAIN shards /\ rows \in SUBSET All /\ copied \in Nat
      BY <1>1, <1>2, <2>1 DEF CombineReads
    <3>2. /\ job' = [job EXCEPT ![c].todo = @ \ {x}, ![c].rows = @ \cup rows, ![c].copied = copied]
          /\ combined' = IF rows = {} THEN combined ELSE Min({TotalPct, copied})
          /\ j.at = "read" /\ UNCHANGED <<file, progress, output, manifest>>
      BY <2>1 DEF CombineReads, source
    <3> HIDE DEF rows, copied, x
    <3>3. Min({100, copied}) \in 0..100
      BY <3>1, Capped
    <3>4. job'[c] \in Job /\ \A d \in Combiner : d # c => job'[d] = job[d]
      BY <1>1, <3>1, <3>2 DEF Job
    <3> QED
      BY <1>1, <1>2, <3>2, <3>3, <3>4 DEF TotalPct, Active
  <2>2. CASE CombineReplaces(c)
    BY <1>1, <1>2, <2>2 DEF CombineReplaces, source, Active, Job, Stage
  <2>3. CASE CombineWritesManifest(c)
    <3> DEFINE next == AfterManifest(j)
    <3>1. next \in Job
      BY <1>1 DEF AfterManifest, Idle, Job, Stage, Kind
    <3>2. AtLeast1(j.copied) \in Nat
      BY <1>1, AtLeast1Type
    <3>3. Min({100, AtLeast1(j.copied)}) \in 0..100
      BY <3>2, Capped
    <3>4. /\ j.at = "manifest" /\ job' = [job EXCEPT ![c] = next]
          /\ manifest' = [manifest EXCEPT ![j.kind] = j.rows]
          /\ combined' = IF next.at = "read" THEN 0 ELSE Min({TotalPct, AtLeast1(j.copied)})
          /\ UNCHANGED <<file, progress, output>>
      BY <2>3 DEF CombineWritesManifest, NewManifest, source
    <3> HIDE DEF next
    <3> QED
      BY <1>1, <1>2, <3>1, <3>3, <3>4 DEF TotalPct, Active
  <2>4. CASE CombineCleans(c)
    <3> DEFINE x == First(j.todo)
    <3>1. /\ x \in DOMAIN shards /\ j.at = "cleanup"
          /\ file' = [k \in Kind |-> [file[k] EXCEPT ![x] = {}]]
          /\ progress' = [progress EXCEPT ![x] = Absent]
          /\ job' = [job EXCEPT ![c].todo = @ \ {x}]
          /\ UNCHANGED <<combined, output, manifest>>
      BY <1>1, <2>4 DEF CombineCleans, final
    <3> HIDE DEF x
    <3> QED
      BY <1>1, <1>2, <3>1 DEF Active, Job
  <2> QED
    BY <2>1, <2>2, <2>3, <2>4
<1>5. Active("step")' => node'["combine"] = "running"
  <2>1. Active("step")' => Active("step")
    BY <1>4 DEF Active, Combiner
  <2> QED
    BY <1>3, <2>1 DEF TypeInv, Bounded
<1> QED
  BY <1>3, <1>4, <1>5, CombineType DEF TypeInv, TypeOK, Bounded

\* The ends of a combine.
LEMMA EndType ==
    ASSUME TypeInv, NEW c \in Combiner,
           CombineEnds(c) \/ CombineFindsNothing(c) \/ CombineKilled(c)
    PROVE  TypeInv'
<1>1. /\ TypeOK /\ job[c] \in Job /\ job \in [Combiner -> Job]
      /\ Active(c) /\ (c = "step" => node["combine"] = "running")
  BY JobFacts DEF TypeInv, Bounded, CombineEnds, CombineFindsNothing, CombineKilled, Active
<1>2. /\ UNCHANGED <<request, shards, download, misses, file, progress, output, manifest>>
      /\ combined' \in 0..TotalPct /\ kills' \in 0..MaxKills
  BY <1>1, DatasetPipelineAssumption
     DEF CombineEnds, CombineFindsNothing, CombineKilled, Kill, source, final, TypeOK, TotalPct
<1>3. /\ node \in [Step -> StepState] /\ tries \in [Step -> 0..Retries + 1]
      /\ \A n \in Step : node[n] # "failed" => tries[n] <= Retries
  BY DEF TypeInv, TypeOK, Bounded
<1>4. /\ job' \in [Combiner -> Job] /\ \A d \in Combiner : d # c => job'[d] = job[d]
      /\ ~ Active(c)'
      /\ node' \in [Step -> StepState] /\ tries' \in [Step -> 0..Retries + 1]
      /\ \A n \in Step : node'[n] # "failed" => tries'[n] <= Retries
      /\ node'["plan"] = node["plan"] /\ node'["aggregate"] = node["aggregate"]
      /\ c = "hand" => node' = node
  <2>1. Idle \in Job /\ [job[c] EXCEPT !.at = "done"] \in Job /\ [job[c] EXCEPT !.at = "failed"] \in Job
    BY <1>1 DEF Idle, Job, Stage, Kind
  <2>2. CASE CombineEnds(c)
    BY <1>1, <1>3, <2>1, <2>2 DEF CombineEnds, Active, Step, StepState, Job
  <2>3. CASE AttemptEnds(c)
    <3>1. CASE c = "step"
      <4>1. /\ job' = [job EXCEPT ![c] = Idle] /\ tries' = [tries EXCEPT !["combine"] = @ + 1]
            /\ node' = [node EXCEPT !["combine"] = IF tries["combine"] < Retries THEN @ ELSE "failed"]
        BY <2>3, <3>1 DEF AttemptEnds, Attempts
      <4>2. tries["combine"] \in 0..Retries
        BY <1>1, <1>3, <3>1, DatasetPipelineAssumption DEF Step
      <4> QED
        BY <1>1, <1>3, <2>1, <3>1, <4>1, <4>2, DatasetPipelineAssumption
           DEF Active, Idle, Step, StepState
    <3>2. CASE c # "step"
      BY <1>1, <1>3, <2>1, <2>3, <3>2 DEF AttemptEnds, Active, Job
    <3> QED
      BY <3>1, <3>2
  <2> QED
    BY <2>2, <2>3 DEF CombineFindsNothing, CombineKilled
<1>5. Active("step")' => node'["combine"] = "running"
  <2>1. CASE c = "step"
    BY <1>4, <2>1
  <2>2. CASE c = "hand"
    BY <1>4, <2>2 DEF Active, Combiner, TypeInv, Bounded
  <2> QED
    BY <2>1, <2>2 DEF Combiner
<1> QED
  BY <1>2, <1>4, <1>5, CombineType DEF TypeInv, TypeOK

LEMMA TypeStep == TypeInv /\ [Next]_vars => TypeInv'
<1> SUFFICES ASSUME TypeInv, [Next]_vars PROVE TypeInv'
  OBVIOUS
<1>1. CASE Plan
  BY <1>1, PlanType
<1>2. CASE PlanFails \/ AggregateEnds \/ AggregateKilled
  BY <1>2, StepType
<1>3. CASE \E x \in DOMAIN shards : DownloadOk(x) \/ DownloadError(x) \/ DownloadKilled(x)
  BY <1>3, DownloadType
<1>4. CASE CombineStarts \/ CombineByHand
  BY <1>4, BeginType
<1>5. CASE \E c \in Combiner : CombineReads(c) \/ CombineReplaces(c) \/ CombineWritesManifest(c) \/ CombineCleans(c)
  BY <1>5, CopyType
<1>6. CASE \E c \in Combiner : CombineEnds(c) \/ CombineFindsNothing(c) \/ CombineKilled(c)
  BY <1>6, EndType
<1>7. CASE UNCHANGED vars
  BY <1>7 DEF vars, steps, source, final, TypeInv, TypeOK, Bounded, Active, All
<1> QED
  BY <1>1, <1>2, <1>3, <1>4, <1>5, <1>6, <1>7 DEF Next, Work

LEMMA AlwaysTyped == Spec => []TypeInv
BY InitType, TypeStep, PTL DEF Spec

\* Every variable keeps its type: no state of a step, count of attempts,
\* progress or file leaves its range, for any requests, retries and kills.
THEOREM TypeCorrect == Spec => []TypeOK
<1>1. TypeInv => TypeOK
  BY DEF TypeInv
<1> QED
  BY <1>1, AlwaysTyped, PTL

-----------------------------------------------------------------------------
(* The shards outlive the combine.                                         *)

Covered(k) == \A x \in DOMAIN shards : file[k][x] \subseteq output[k]

\* A combine begins after the downloads, and knows options files only where
\* options were asked for.
Ordered ==
    /\ node["plan"] = "running" => shards = <<>>
    /\ \A c \in Combiner : job[c].at # "idle" => Downloaded /\ node["plan"] # "running"
    /\ ~ request.options =>
          /\ \A x \in DOMAIN shards : file["options"][x] = {}
          /\ output["options"] = {} /\ manifest["options"] = {}
          /\ \A c \in Combiner : job[c].kind = "market"

\* What a combine has read covers the files it is through with, and a
\* combine's output the files of its kind, whoever else replaces it.
CopiesCover(c) ==
    LET j == job[c] IN
    /\ j.at = "read" => \A x \in DOMAIN shards \ j.todo : file[j.kind][x] \subseteq j.rows
    /\ j.at \in {"read", "manifest"} /\ j.kind = "options" => Covered("market")
    /\ j.at = "manifest" => Covered(j.kind)
    /\ j.at = "cleanup" => \A k \in Kind : Covered(k)

CoverInv == TypeInv /\ Ordered /\ \A c \in Combiner : CopiesCover(c)

LEMMA InitCover == Init => CoverInv
<1> SUFFICES ASSUME Init PROVE CoverInv
  OBVIOUS
<1>1. DOMAIN shards = {} /\ shards = <<>> /\ \A c \in Combiner : job[c] = Idle
  BY DEF Init
<1>2. Ordered
  BY <1>1 DEF Init, Ordered, Idle, Kind
<1>3. \A c \in Combiner : CopiesCover(c)
  BY <1>1 DEF CopiesCover, Idle
<1> QED
  BY <1>2, <1>3, InitType DEF CoverInv

\* What a combine has done stays good while files only go and what covers
\* them is only replaced by what does too.
LEMMA StaysCovered ==
    ASSUME NEW c, CopiesCover(c), job'[c] = job[c], job[c].kind \in Kind, shards' = shards,
           \A k \in Kind : \A x \in DOMAIN shards : file'[k][x] \subseteq file[k][x],
           \A k \in Kind : Covered(k) => Covered(k)'
    PROVE  CopiesCover(c)'
BY DEF CopiesCover, Kind

LEMMA SameCovers ==
    ASSUME UNCHANGED <<shards, file, output>>
    PROVE  \A k \in Kind : Covered(k)' <=> Covered(k)
BY DEF Covered

LEMMA PlanCover ==
    ASSUME CoverInv, Plan
    PROVE  CoverInv'
<1>1. /\ DOMAIN shards' = ShardNames(request) /\ node'["plan"] = "succeeded"
      /\ UNCHANGED <<request, output, manifest, job>>
      /\ file' = [k \in Kind |-> [x \in ShardNames(request) |-> {}]]
      /\ \A c \in Combiner : job[c].at = "idle"
  BY PlanDomain DEF CoverInv, TypeInv, TypeOK, Ordered, Plan, final, Step
<1>2. Ordered'
  BY <1>1 DEF CoverInv, Ordered, Kind
<1>3. \A c \in Combiner : CopiesCover(c)'
  BY <1>1 DEF CopiesCover
<1> QED
  BY <1>2, <1>3, PlanType DEF CoverInv

LEMMA StepCover ==
    ASSUME CoverInv, PlanFails \/ AggregateEnds \/ AggregateKilled \/ UNCHANGED vars
    PROVE  CoverInv'
<1>1. TypeInv'
  BY TypeStep DEF CoverInv, Next, Work
<1>2. /\ UNCHANGED <<request, shards, download, file, output, manifest, job>>
      /\ node'["plan"] # "running" \/ node'["plan"] = node["plan"]
  BY DEF CoverInv, TypeInv, TypeOK, PlanFails, AggregateEnds, AggregateKilled, Attempts,
         final, source, vars, steps, Step
<1>3. Ordered'
  BY <1>2 DEF CoverInv, Ordered, Downloaded
<1>4. \A c \in Combiner : CopiesCover(c)'
  BY <1>2 DEF CoverInv, CopiesCover, Covered
<1> QED
  BY <1>1, <1>3, <1>4 DEF CoverInv

LEMMA DownloadCover ==
    ASSUME CoverInv, NEW x \in DOMAIN shards, DownloadOk(x) \/ DownloadError(x) \/ DownloadKilled(x)
    PROVE  CoverInv'
<1>1. /\ UNCHANGED <<request, shards, node, output, manifest, job>>
      /\ \A c \in Combiner : job[c].at = "idle"
  BY DEF CoverInv, Ordered, Downloaded, DownloadOk, DownloadError, DownloadKilled, final
<1>2. ~ request.options => file'["options"] = file["options"]
  <2> SUFFICES ASSUME ~ request.options PROVE file'["options"] = file["options"]
    OBVIOUS
  <2>1. \E m \in SUBSET shards[x] : Replace(x, m, {})
    BY DEF DownloadOk, DownloadError, DownloadKilled, OptionsOf
  <2> QED
    BY <2>1 DEF Replace, CoverInv, TypeInv, TypeOK, Kind
<1>3. Ordered'
  BY <1>1, <1>2 DEF CoverInv, Ordered
<1>4. \A c \in Combiner : CopiesCover(c)'
  BY <1>1 DEF CopiesCover
<1> QED
  BY <1>3, <1>4, DownloadType DEF CoverInv

LEMMA BeginCover ==
    ASSUME CoverInv, CombineStarts \/ CombineByHand
    PROVE  CoverInv'
<1>1. PICK c \in Combiner : Begin(c)
  BY DEF CombineStarts, CombineByHand, Combiner
<1>2. /\ UNCHANGED <<request, shards, download, file, output, manifest>>
      /\ Downloaded /\ node'["plan"] = node["plan"] /\ node["plan"] # "running"
  BY DEF CoverInv, TypeInv, TypeOK, Bounded, CombineStarts, CombineByHand, steps, source, Step
<1>3. /\ job'[c].at = "read" /\ job'[c].kind = "market" /\ job'[c].todo = DOMAIN shards
      /\ \A d \in Combiner : d # c => job'[d] = job[d]
      /\ \A d \in Combiner : job[d].kind \in Kind
  BY <1>1, JobFacts DEF CoverInv, TypeInv, Begin, Idle
<1>4. Ordered'
  BY <1>2, <1>3 DEF CoverInv, Ordered, Downloaded
<1>5. CopiesCover(c)'
  BY <1>2, <1>3 DEF CopiesCover
<1>6. \A d \in Combiner : d # c => CopiesCover(d)'
  BY <1>2, <1>3, SameCovers, StaysCovered DEF CoverInv
<1> QED
  BY <1>4, <1>5, <1>6, BeginType DEF CoverInv

LEMMA CopyCover ==
    ASSUME CoverInv, NEW c \in Combiner,
           CombineReads(c) \/ CombineReplaces(c) \/ CombineWritesManifest(c) \/ CombineCleans(c)
    PROVE  CoverInv'
<1> DEFINE j == job[c]
<1>1. /\ job \in [Combiner -> Job] /\ j \in Job /\ j.kind \in Kind /\ j.todo \subseteq DOMAIN shards
      /\ \A d \in Combiner : job[d].kind \in Kind
      /\ file \in [Kind -> [DOMAIN shards -> SUBSET All]]
      /\ output \in [Kind -> SUBSET All] /\ manifest \in [Kind -> SUBSET All]
  BY JobFacts DEF CoverInv, TypeInv, TypeOK
<1>2. /\ UNCHANGED <<request, shards, node, download>>
      /\ j.at # "idle"
      /\ Ordered /\ CopiesCover(c) /\ \A d \in Combiner : CopiesCover(d)
  BY DEF CoverInv, CombineReads, CombineReplaces, CombineWritesManifest, CombineCleans, steps
<1>3. /\ \A d \in Combiner : d # c => job'[d] = job[d]
      /\ \A k \in Kind : \A x \in DOMAIN shards : file'[k][x] \subseteq file[k][x]
      /\ \A k \in Kind : Covered(k) => Covered(k)'
      /\ ~ request.options => output'["options"] = {} /\ manifest'["options"] = {} /\ job'[c].kind = "market"
      /\ CopiesCover(c)'
  <2>1. CASE CombineReads(c)
    <3> DEFINE x == First(j.todo)
               rows == file[j.kind][x]
    <3>1. /\ job'[c].at = "read" /\ job'[c].kind = j.kind /\ job'[c].todo = j.todo \ {x}
          /\ job'[c].rows = j.rows \cup rows /\ j.at = "read"
          /\ \A d \in Combiner : d # c => job'[d] = job[d]
          /\ UNCHANGED <<file, output, manifest>>
      BY <1>1, <2>1 DEF CombineReads, source, Job
    <3>2. CopiesCover(c)'
      BY <1>2, <3>1 DEF CopiesCover, Covered
    <3> QED
      BY <1>2, <3>1, <3>2, SameCovers DEF Ordered
  <2>2. CASE CombineReplaces(c)
    <3>1. /\ job'[c].at = "manifest" /\ job'[c].kind = j.kind /\ j.at = "read" /\ j.todo = {}
          /\ \A d \in Combiner : d # c => job'[d] = job[d]
          /\ output' = [output EXCEPT ![j.kind] = j.rows]
          /\ UNCHANGED <<file, manifest>>
      BY <1>1, <2>2 DEF CombineReplaces, source, Job
    <3>2. \A x \in DOMAIN shards : file[j.kind][x] \subseteq j.rows
      BY <1>2, <3>1 DEF CopiesCover
    <3>3. output'[j.kind] = j.rows /\ \A k \in Kind : k # j.kind => output'[k] = output[k]
      BY <1>1, <3>1
    <3>4. Covered(j.kind)' /\ \A k \in Kind : Covered(k) => Covered(k)'
      BY <1>2, <3>1, <3>2, <3>3 DEF Covered
    <3>5. CopiesCover(c)'
      BY <1>1, <1>2, <3>1, <3>4 DEF CopiesCover, Kind
    <3> QED
      BY <1>1, <1>2, <3>1, <3>3, <3>4, <3>5 DEF Ordered, Kind
  <2>3. CASE CombineWritesManifest(c)
    <3>1. /\ j.at = "manifest" /\ job'[c] = AfterManifest(j)
          /\ \A d \in Combiner : d # c => job'[d] = job[d]
          /\ manifest' = [manifest EXCEPT ![j.kind] = j.rows]
          /\ UNCHANGED <<file, output>>
      BY <1>1, <2>3 DEF CombineWritesManifest, NewManifest, source
    <3>2. Covered(j.kind) /\ (j.kind = "options" => Covered("market"))
      BY <1>2, <3>1 DEF CopiesCover
    <3>3. ~ request.options => Covered("options") /\ j.kind = "market"
      BY <1>2 DEF Ordered, Covered
    <3>4. /\ j.kind = "market" /\ request.options =>
               /\ job'[c].at = "read" /\ job'[c].kind = "options" /\ job'[c].todo = DOMAIN shards
          /\ ~ (j.kind = "market" /\ request.options) =>
               job'[c].at = "cleanup" /\ job'[c].kind = j.kind
      BY <1>1, <3>1 DEF AfterManifest, Idle, Job
    <3>5. CopiesCover(c)'
      <4>1. CASE j.kind = "market" /\ request.options
        BY <4>1, <1>2, <3>1, <3>2, <3>4 DEF CopiesCover, Covered
      <4>2. CASE ~ (j.kind = "market" /\ request.options)
        <5>1. \A k \in Kind : Covered(k)
          BY <4>2, <1>1, <3>2, <3>3 DEF Kind
        <5>2. \A k \in Kind : Covered(k)'
          BY <5>1, <1>2, <3>1, SameCovers
        <5> QED
          BY <4>2, <3>4, <5>2 DEF CopiesCover
      <4> QED
        BY <4>1, <4>2
    <3>6. ~ request.options => manifest'["options"] = {} /\ job'[c].kind = "market"
      BY <1>1, <1>2, <3>1, <3>3, <3>4 DEF Ordered, Kind
    <3> QED
      BY <1>2, <3>1, <3>5, <3>6, SameCovers DEF Ordered
  <2>4. CASE CombineCleans(c)
    <3> DEFINE x == First(j.todo)
    <3>1. /\ j.at = "cleanup" /\ job'[c].at = "cleanup" /\ job'[c].kind = j.kind
          /\ \A d \in Combiner : d # c => job'[d] = job[d]
          /\ file' = [k \in Kind |-> [file[k] EXCEPT ![x] = {}]]
          /\ UNCHANGED <<output, manifest>>
      BY <1>1, <2>4 DEF CombineCleans, final, Job
    <3> HIDE DEF x
    <3>2. \A k \in Kind : \A y \in DOMAIN shards : file'[k][y] \subseteq file[k][y]
      BY <1>1, <3>1
    <3>3. \A k \in Kind : Covered(k) => Covered(k)'
      BY <1>2, <3>1, <3>2 DEF Covered
    <3>4. CopiesCover(c)'
      BY <1>2, <3>1, <3>3 DEF CopiesCover
    <3> QED
      BY <1>2, <3>1, <3>2, <3>3, <3>4 DEF Ordered
  <2> QED
    BY <2>1, <2>2, <2>3, <2>4
<1>4. Ordered'
  <2>1. ~ request.options => \A x \in DOMAIN shards : file'["options"][x] = {}
    BY <1>2, <1>3 DEF Ordered, Kind
  <2> QED
    BY <2>1, <1>2, <1>3 DEF Ordered, Downloaded
<1>5. \A d \in Combiner : d # c => CopiesCover(d)'
  BY <1>1, <1>2, <1>3, StaysCovered
<1> QED
  BY <1>3, <1>4, <1>5, CopyType DEF CoverInv

LEMMA EndCover ==
    ASSUME CoverInv, NEW c \in Combiner,
           CombineEnds(c) \/ CombineFindsNothing(c) \/ CombineKilled(c)
    PROVE  CoverInv'
<1>1. /\ job \in [Combiner -> Job] /\ job[c] \in Job /\ \A d \in Combiner : job[d].kind \in Kind
  BY JobFacts DEF CoverInv, TypeInv
<1>2. /\ UNCHANGED <<request, shards, download, file, output, manifest>>
      /\ job[c].at # "idle" /\ node'["plan"] = node["plan"]
  BY DEF CoverInv, TypeInv, TypeOK, CombineEnds, CombineFindsNothing, CombineKilled, AttemptEnds,
         Attempts, Step, source, final
<1>3. /\ \A d \in Combiner : d # c => job'[d] = job[d]
      /\ job'[c].at \in {"idle", "done", "failed"}
      /\ job'[c].kind \in {job[c].kind, "market"}
  BY <1>1 DEF CombineEnds, CombineFindsNothing, CombineKilled, AttemptEnds, Idle, Job
<1>4. Ordered'
  BY <1>2, <1>3 DEF CoverInv, Ordered, Downloaded
<1>5. CopiesCover(c)'
  BY <1>3 DEF CopiesCover
<1>6. \A d \in Combiner : d # c => CopiesCover(d)'
  BY <1>1, <1>2, <1>3, SameCovers, StaysCovered DEF CoverInv
<1> QED
  BY <1>4, <1>5, <1>6, EndType DEF CoverInv

LEMMA CoverStep == CoverInv /\ [Next]_vars => CoverInv'
<1> SUFFICES ASSUME CoverInv, [Next]_vars PROVE CoverInv'
  OBVIOUS
<1>1. CASE Plan
  BY <1>1, PlanCover
<1>2. CASE PlanFails \/ AggregateEnds \/ AggregateKilled \/ UNCHANGED vars
  BY <1>2, StepCover
<1>3. CASE \E x \in DOMAIN shards : DownloadOk(x) \/ DownloadError(x) \/ DownloadKilled(x)
  BY <1>3, DownloadCover
<1>4. CASE CombineStarts \/ CombineByHand
  BY <1>4, BeginCover
<1>5. CASE \E c \in Combiner : CombineReads(c) \/ CombineReplaces(c) \/ CombineWritesManifest(c) \/ CombineCleans(c)
  BY <1>5, CopyCover
<1>6. CASE \E c \in Combiner : CombineEnds(c) \/ CombineFindsNothing(c) \/ CombineKilled(c)
  BY <1>6, EndCover
<1> QED
  BY <1>1, <1>2, <1>3, <1>4, <1>5, <1>6 DEF Next, Work

LEMMA AlwaysCovered == Spec => []CoverInv
BY InitCover, CoverStep, PTL DEF Spec

LEMMA OutliveStep ==
    ASSUME CoverInv, [Next]_vars, NEW k \in Kind, NEW x \in DOMAIN shards,
           file[k][x] # {}, file'[k][x] = {}
    PROVE  file[k][x] \subseteq output[k]
<1>1. /\ file \in [Kind -> [DOMAIN shards -> SUBSET All]] /\ "market" \in Kind /\ "options" \in Kind
      /\ Kind = {"market", "options"}
  BY DEF CoverInv, TypeInv, TypeOK, Kind
<1>2. CASE Plan
  BY <1>2 DEF CoverInv, Ordered, Plan
<1>3. CASE \E y \in DOMAIN shards : DownloadOk(y) \/ DownloadError(y) \/ DownloadKilled(y)
  <2>1. PICK y \in DOMAIN shards : DownloadOk(y) \/ DownloadError(y) \/ DownloadKilled(y)
    BY <1>3
  <2>2. PICK m, o : Replace(y, m, o)
    BY <2>1 DEF DownloadOk, DownloadError, DownloadKilled
  <2>3. /\ file'["market"] = [file["market"] EXCEPT ![y] = IF m = {} THEN @ ELSE m]
        /\ file'["options"] = [file["options"] EXCEPT ![y] = IF o = {} THEN @ ELSE o]
    BY <1>1, <2>2 DEF Replace
  <2> QED
    BY <1>1, <2>3
<1>4. CASE \E c \in Combiner : CombineCleans(c)
  <2>1. PICK c \in Combiner : CombineCleans(c)
    BY <1>4
  <2> QED
    BY <2>1 DEF CombineCleans, CoverInv, CopiesCover, Covered
<1>5. CASE file' = file
  BY <1>5
<1> QED
  BY <1>2, <1>3, <1>4, <1>5
     DEF Next, Work, vars, source, steps, PlanFails, AggregateEnds, AggregateKilled, CombineStarts,
         CombineByHand, CombineReads, CombineReplaces, CombineWritesManifest, CombineEnds,
         CombineFindsNothing, CombineKilled

\* A shard's files are removed only when the final dataset of their kind has
\* their rows, with two combines at work and either killed anywhere.
THEOREM ShardsOutlive == Spec => ShardsOutliveCombine
<1>1. CoverInv /\ [Next]_vars =>
        [\A k \in Kind : \A x \in DOMAIN shards :
           file[k][x] # {} /\ file'[k][x] = {} => file[k][x] \subseteq output[k]]_vars
  BY OutliveStep
<1> QED
  BY <1>1, AlwaysCovered, PTL DEF Spec, ShardsOutliveCombine

-----------------------------------------------------------------------------
(* A manifest names its output.                                            *)

\* The two combines take turns: the workflow's waits for the progress step,
\* which ends on the files that the one by hand has left.
Turns ==
    /\ node["aggregate"] # "succeeded" => node["combine"] = "waiting"
    /\ node["combine"] = "waiting" => job["step"].at = "idle"
    /\ node["aggregate"] = "succeeded" => job["hand"].at \in {"cleanup", "done", "failed"}
    /\ node["combine"] = "succeeded" => job["step"].at = "done"

\* Until the progress step ends there are only the manifests of the combine
\* by hand.
FirstCombine ==
    node["aggregate"] # "succeeded" =>
        /\ job["hand"].at = "idle" => \A k \in Kind : manifest[k] = {}
        /\ job["hand"].at \in {"read", "manifest"} =>
               /\ manifest["options"] = {}
               /\ job["hand"].kind = "market" => manifest["market"] = {}

\* Nobody but the combine whose turn it is writes outputs and manifests.
HasTurn(c) == c = "step" \/ node["combine"] = "waiting"

TurnInv(c) ==
    LET j == job[c] IN
    HasTurn(c) =>
        /\ j.at = "manifest" => output[j.kind] = j.rows
        /\ j.at \in {"read", "manifest"} /\ j.kind = "options" => manifest["market"] = output["market"]
        /\ j.at \in {"cleanup", "done"} => manifest = output

ManifestInv == CoverInv /\ Turns /\ FirstCombine /\ \A c \in Combiner : TurnInv(c)

LEMMA InitManifest == Init => ManifestInv
<1> SUFFICES ASSUME Init PROVE ManifestInv
  OBVIOUS
<1>1. /\ \A c \in Combiner : job[c] = Idle
      /\ node["aggregate"] = "waiting" /\ node["combine"] = "waiting"
      /\ \A k \in Kind : manifest[k] = {}
  BY DEF Init, Step
<1>2. Turns /\ FirstCombine /\ \A c \in Combiner : TurnInv(c)
  BY <1>1 DEF Turns, FirstCombine, TurnInv, Idle, Combiner
<1> QED
  BY <1>2, InitCover DEF ManifestInv

\* A step that leaves the jobs, the outputs and the combine step alone.
LEMMA StaysManifest ==
    ASSUME ManifestInv, CoverInv', UNCHANGED <<output, manifest, job>>,
           node'["combine"] = node["combine"],
           node'["aggregate"] = "succeeded" <=> node["aggregate"] = "succeeded"
    PROVE  ManifestInv'
BY DEF ManifestInv, Turns, FirstCombine, TurnInv, HasTurn

LEMMA AggregateManifest ==
    ASSUME ManifestInv, AggregateEnds
    PROVE  ManifestInv'
<1>1. CoverInv'
  BY CoverStep DEF ManifestInv, Next, Work
<1>2. /\ UNCHANGED <<output, manifest, job>> /\ Complete
      /\ node'["combine"] = node["combine"] /\ node["aggregate"] # "succeeded"
      /\ node["combine"] = "waiting"
  BY DEF ManifestInv, CoverInv, TypeInv, TypeOK, Turns, AggregateEnds, Step, final
<1>3. job["hand"].at \in {"cleanup", "done", "failed"}
  <2>1. job["hand"].at \in Stage /\ job["hand"].kind \in Kind
    BY JobFacts DEF ManifestInv, CoverInv, TypeInv, Combiner
  <2>2. manifest["market"] # {} /\ (request.options => manifest["options"] # {})
    BY <1>2 DEF Complete, Kind
  <2>3. ~ request.options => job["hand"].kind = "market"
    BY DEF ManifestInv, CoverInv, Ordered, Combiner
  <2> QED
    BY <1>2, <2>1, <2>2, <2>3 DEF ManifestInv, FirstCombine, Stage, Kind
<1>4. Turns' /\ FirstCombine'
  BY <1>2, <1>3 DEF ManifestInv, Turns, FirstCombine, AggregateEnds, CoverInv, TypeInv, TypeOK, Step
<1>5. \A c \in Combiner : TurnInv(c)'
  BY <1>2 DEF ManifestInv, TurnInv, HasTurn
<1> QED
  BY <1>1, <1>4, <1>5 DEF ManifestInv

LEMMA OtherManifest ==
    ASSUME ManifestInv,
           \/ Plan \/ PlanFails \/ AggregateKilled \/ UNCHANGED vars
           \/ \E x \in DOMAIN shards : DownloadOk(x) \/ DownloadError(x) \/ DownloadKilled(x)
    PROVE  ManifestInv'
<1>1. CoverInv'
  BY CoverStep DEF ManifestInv, Next, Work
<1>2. /\ UNCHANGED <<output, manifest, job>>
      /\ node'["combine"] = node["combine"]
      /\ node'["aggregate"] = "succeeded" <=> node["aggregate"] = "succeeded"
  BY DEF ManifestInv, CoverInv, TypeInv, TypeOK, Bounded, Plan, PlanFails, AggregateKilled, Attempts,
         DownloadOk, DownloadError, DownloadKilled, Step, final, vars, steps
<1> QED
  BY <1>1, <1>2, StaysManifest

LEMMA BeginManifest ==
    ASSUME ManifestInv, CombineStarts \/ CombineByHand
    PROVE  ManifestInv'
<1>1. CoverInv'
  BY CoverStep DEF ManifestInv, Next, Work
<1>2. /\ UNCHANGED <<output, manifest>> /\ node'["aggregate"] = node["aggregate"]
      /\ job \in [Combiner -> Job] /\ node \in [Step -> StepState]
  BY JobFacts DEF ManifestInv, CoverInv, TypeInv, TypeOK, CombineStarts, CombineByHand, Step, steps, Combiner
<1> DEFINE j == [Idle EXCEPT !.at = "read", !.todo = DOMAIN shards]
<1>3. j.at = "read" /\ j.kind = "market"
  BY DEF Idle
<1>4. CASE CombineStarts
  <2>1. /\ job'["step"] = j /\ job'["hand"] = job["hand"]
        /\ node["aggregate"] = "succeeded" /\ node'["combine"] = "running"
    BY <1>2, <1>4 DEF CombineStarts, Begin, Combiner, Step
  <2> HIDE DEF j
  <2> QED
    BY <1>1, <1>2, <1>3, <2>1 DEF ManifestInv, Turns, FirstCombine, TurnInv, HasTurn, Combiner
<1>5. CASE CombineByHand
  <2>1. /\ job'["hand"] = j /\ job'["step"] = job["step"] /\ node' = node
        /\ job["hand"].at = "idle"
    BY <1>2, <1>5 DEF CombineByHand, Begin, Combiner, steps
  <2> HIDE DEF j
  <2> QED
    BY <1>1, <1>2, <1>3, <2>1 DEF ManifestInv, Turns, FirstCombine, TurnInv, HasTurn, Combiner, Kind
<1> QED
  BY <1>4, <1>5

\* A combine that has output files to write has its turn.
LEMMA WritesInTurn ==
    ASSUME ManifestInv, NEW c \in Combiner, job[c].at \in {"read", "manifest"}
    PROVE  /\ HasTurn(c)
           /\ \A d \in Combiner : d # c => ~ HasTurn(d) \/ job[d].at = "idle"
           /\ c = "hand" => node["aggregate"] # "succeeded"
           /\ c = "step" => node["aggregate"] = "succeeded"
BY DEF ManifestInv, Turns, HasTurn, Combiner

LEMMA CopyManifest ==
    ASSUME ManifestInv, NEW c \in Combiner,
           CombineReads(c) \/ CombineReplaces(c) \/ CombineWritesManifest(c) \/ CombineCleans(c)
    PROVE  ManifestInv'
<1> DEFINE j == job[c]
<1>1. CoverInv'
  BY CoverStep DEF ManifestInv, Next, Work
<1>2. /\ job \in [Combiner -> Job] /\ j \in Job /\ j.kind \in Kind
      /\ output \in [Kind -> SUBSET All] /\ manifest \in [Kind -> SUBSET All]
      /\ Kind = {"market", "options"}
  BY JobFacts DEF ManifestInv, CoverInv, TypeInv, TypeOK, Kind
<1>3. /\ node' = node /\ Turns /\ FirstCombine /\ TurnInv(c) /\ Combiner = {"step", "hand"}
      /\ \A d \in Combiner : d # c => job'[d] = job[d] /\ TurnInv(d)
  BY <1>2 DEF ManifestInv, Combiner, CombineReads, CombineReplaces, CombineWritesManifest, CombineCleans, steps
<1>4. CASE CombineReads(c) \/ CombineCleans(c)
  <2>1. /\ job'[c].at = j.at /\ job'[c].kind = j.kind /\ j.at \in {"read", "cleanup"}
        /\ UNCHANGED <<output, manifest>>
    <3>1. CASE CombineReads(c)
      BY <1>2, <3>1 DEF CombineReads, Job
    <3>2. CASE CombineCleans(c)
      BY <1>2, <3>2 DEF CombineCleans, final, Job
    <3> QED
      BY <1>4, <3>1, <3>2
  <2>2. Turns' /\ FirstCombine'
    BY <1>3, <2>1 DEF Turns, FirstCombine
  <2>3. \A d \in Combiner : TurnInv(d)'
    BY <1>3, <2>1 DEF TurnInv, HasTurn
  <2> QED
    BY <1>1, <2>2, <2>3 DEF ManifestInv
<1>5. CASE CombineReplaces(c)
  <2>1. /\ job'[c].at = "manifest" /\ job'[c].kind = j.kind /\ job'[c].rows = j.rows /\ j.at = "read"
        /\ output' = [output EXCEPT ![j.kind] = j.rows] /\ manifest' = manifest
    BY <1>2, <1>5 DEF CombineReplaces, source, Job
  <2>2. output'[j.kind] = j.rows /\ (j.kind = "options" => output'["market"] = output["market"])
    BY <1>2, <2>1
  <2>3. Turns' /\ FirstCombine'
    BY <1>3, <2>1 DEF Turns, FirstCombine
  <2>4. TurnInv(c)'
    BY <1>2, <1>3, <2>1, <2>2 DEF TurnInv, HasTurn
  <2>5. \A d \in Combiner : d # c => TurnInv(d)'
    BY <1>3, <2>1, WritesInTurn DEF TurnInv, HasTurn
  <2> QED
    BY <1>1, <2>3, <2>4, <2>5 DEF ManifestInv
<1>6. CASE CombineWritesManifest(c)
  <2>1. /\ j.at = "manifest" /\ job'[c] = AfterManifest(j)
        /\ manifest' = [manifest EXCEPT ![j.kind] = j.rows] /\ output' = output
    BY <1>2, <1>6 DEF CombineWritesManifest, NewManifest, source
  <2>2. /\ HasTurn(c) /\ output[j.kind] = j.rows
        /\ j.kind = "options" => manifest["market"] = output["market"]
    BY <1>3, <2>1, WritesInTurn DEF TurnInv
  <2>3. /\ j.kind = "market" /\ request.options => job'[c].at = "read" /\ job'[c].kind = "options"
        /\ ~ (j.kind = "market" /\ request.options) => job'[c].at = "cleanup"
    BY <1>2, <2>1 DEF AfterManifest, Idle, Job
  <2>4. ~ request.options => output["options"] = {} /\ manifest["options"] = {} /\ j.kind = "market"
    BY DEF ManifestInv, CoverInv, Ordered
  <2>5. manifest'[j.kind] = output'[j.kind] /\ \A k \in Kind : k # j.kind => manifest'[k] = manifest[k]
    BY <1>2, <2>1, <2>2
  <2>6. ~ (j.kind = "market" /\ request.options) => manifest' = output'
    <3> SUFFICES ASSUME ~ (j.kind = "market" /\ request.options) PROVE manifest' = output'
      OBVIOUS
    <3>1. manifest'["market"] = output'["market"] /\ manifest'["options"] = output'["options"]
      BY <1>2, <2>1, <2>2, <2>4, <2>5
    <3> QED
      BY <1>2, <2>1, <3>1
  <2>7. TurnInv(c)'
    BY <1>2, <2>3, <2>5, <2>6 DEF TurnInv
  <2>8. Turns'
    BY <1>3, <2>1, <2>3 DEF Turns
  <2>9. FirstCombine'
    <3>1. CASE c = "hand" /\ j.kind = "market" /\ request.options
      <4>1. manifest'["options"] = manifest["options"] /\ job'["hand"].at = "read" /\ job'["hand"].kind = "options"
        BY <1>2, <2>3, <2>5, <3>1
      <4> QED
        BY <1>3, <2>1, <3>1, <4>1 DEF FirstCombine
    <3>2. CASE c = "hand" /\ ~ (j.kind = "market" /\ request.options)
      BY <2>3, <3>2 DEF FirstCombine
    <3>3. CASE c = "step"
      BY <1>3, <2>1, <3>3, WritesInTurn DEF FirstCombine
    <3> QED
      BY <1>3, <3>1, <3>2, <3>3
  <2>10. \A d \in Combiner : d # c => TurnInv(d)'
    BY <1>3, <2>1, WritesInTurn DEF TurnInv, HasTurn
  <2> QED
    BY <1>1, <2>7, <2>8, <2>9, <2>10 DEF ManifestInv
<1> QED
  BY <1>4, <1>5, <1>6

LEMMA EndManifest ==
    ASSUME ManifestInv, NEW c \in Combiner,
           CombineEnds(c) \/ CombineFindsNothing(c) \/ CombineKilled(c)
    PROVE  ManifestInv'
<1>1. CoverInv'
  BY CoverStep DEF ManifestInv, Next, Work
<1>2. /\ job \in [Combiner -> Job] /\ job[c] \in Job /\ node \in [Step -> StepState]
      /\ UNCHANGED <<output, manifest>> /\ node'["aggregate"] = node["aggregate"]
      /\ \A d \in Combiner : d # c => job'[d] = job[d]
  BY JobFacts DEF ManifestInv, CoverInv, TypeInv, TypeOK, CombineEnds, CombineFindsNothing, CombineKilled,
                  AttemptEnds, Attempts, Step, source, final
<1>3. /\ Turns /\ FirstCombine /\ Combiner = {"step", "hand"} /\ \A d \in Combiner : TurnInv(d)
  BY DEF ManifestInv, Combiner
<1>4. CASE CombineEnds(c)
  <2>1. /\ job[c].at = "cleanup" /\ job'[c].at = "done"
        /\ node' = IF c = "step" THEN [node EXCEPT !["combine"] = "succeeded"] ELSE node
    BY <1>2, <1>4 DEF CombineEnds, Job
  <2>2. c = "step" => node["combine"] # "waiting" /\ node'["combine"] = "succeeded"
    BY <1>2, <1>3, <2>1 DEF Turns, Step
  <2>3. c = "hand" => node' = node
    BY <2>1
  <2> QED
    BY <1>1, <1>2, <1>3, <2>1, <2>2, <2>3 DEF ManifestInv, Turns, FirstCombine, TurnInv, HasTurn
<1>5. CASE AttemptEnds(c) /\ Active(c)
  <2>1. CASE c = "step"
    <3>1. /\ job'["step"].at = "idle" /\ node["combine"] = "running"
          /\ node'["combine"] \in {"running", "failed"}
      BY <1>2, <1>5, <2>1
         DEF AttemptEnds, Attempts, Idle, Step, Active, ManifestInv, CoverInv, TypeInv, Bounded
    <3> QED
      BY <1>1, <1>2, <1>3, <2>1, <3>1 DEF ManifestInv, Turns, FirstCombine, TurnInv, HasTurn
  <2>2. CASE c = "hand"
    <3>1. job'["hand"].at = "failed" /\ node' = node
      BY <1>2, <1>5, <2>2 DEF AttemptEnds, Job
    <3> QED
      BY <1>1, <1>2, <1>3, <2>2, <3>1 DEF ManifestInv, Turns, FirstCombine, TurnInv, HasTurn
  <2> QED
    BY <1>3, <2>1, <2>2
<1> QED
  BY <1>4, <1>5 DEF CombineFindsNothing, CombineKilled, Active

LEMMA ManifestStep == ManifestInv /\ [Next]_vars => ManifestInv'
<1> SUFFICES ASSUME ManifestInv, [Next]_vars PROVE ManifestInv'
  OBVIOUS
<1>1. CASE \/ Plan \/ PlanFails \/ AggregateKilled \/ UNCHANGED vars
           \/ \E x \in DOMAIN shards : DownloadOk(x) \/ DownloadError(x) \/ DownloadKilled(x)
  BY <1>1, OtherManifest
<1>2. CASE AggregateEnds
  BY <1>2, AggregateManifest
<1>3. CASE CombineStarts \/ CombineByHand
  BY <1>3, BeginManifest
<1>4. CASE \E c \in Combiner : CombineReads(c) \/ CombineReplaces(c) \/ CombineWritesManifest(c) \/ CombineCleans(c)
  BY <1>4, CopyManifest
<1>5. CASE \E c \in Combiner : CombineEnds(c) \/ CombineFindsNothing(c) \/ CombineKilled(c)
  BY <1>5, EndManifest
<1> QED
  BY <1>1, <1>2, <1>3, <1>4, <1>5 DEF Next, Work

LEMMA InvNames == ManifestInv => ManifestNamesOutput
<1> SUFFICES ASSUME ManifestInv PROVE ManifestNamesOutput
  OBVIOUS
<1>1. Phase = "Succeeded" => node["combine"] = "succeeded"
  BY DEF Phase
<1>2. node["combine"] = "succeeded" => manifest = output
  BY DEF ManifestInv, Turns, TurnInv, HasTurn, Combiner
<1>3. job["hand"].at = "done" /\ node["combine"] = "waiting" => manifest = output
  BY DEF ManifestInv, TurnInv, HasTurn, Combiner
<1> QED
  BY <1>1, <1>2, <1>3 DEF ManifestNamesOutput

\* When the workflow has succeeded, or a combine by hand is done before the
\* step begins, each manifest describes the dataset beside it, however many
\* attempts were cut short between the two.
THEOREM ManifestNames == Spec => []ManifestNamesOutput
<1>1. Spec => []ManifestInv
  BY InitManifest, ManifestStep, PTL DEF Spec
<1> QED
  BY <1>1, InvNames, PTL

-----------------------------------------------------------------------------
(* The dataset job, for any number of polling requests and failures.       *)

\* A row that names a workflow has one.
Named(r) == r # NoRow /\ r.workflow => phase # "none"

\* The copies a polling request works on are there when it needs them.
CopiesOK ==
    /\ Named(row)
    /\ submission = "accepted" => phase # "none"
    /\ \A c \in Poller :
           /\ Named(item[c]) /\ Named(update[c])
           /\ stage[c] \in {"ask", "hydrate"} => item[c] \in Row
           /\ stage[c] = "ask" => item[c].workflow
           /\ stage[c] \in {"write status", "write path"} => item[c] \in Row /\ update[c] \in Row

\* There is no row before the submission, and no deletion without a row.
DeletionOK ==
    /\ submission = "none" => row = NoRow /\ deletion = "none"
    /\ DeletedIsGone

JobInv == JobTypeOK /\ CopiesOK /\ DeletionOK

-----------------------------------------------------------------------------
(* Its steps.                                                              *)

LEMMA NewIsRow ==
    /\ New \in Row /\ ~New.workflow
    /\ [New EXCEPT !.workflow = TRUE] \in Row
    /\ [New EXCEPT !.status = "failed"] \in Row /\ ~[New EXCEPT !.status = "failed"].workflow
BY DEF New, Row, Status, Path

LEMMA InitJobInv == JobInit => JobInv
<1> SUFFICES ASSUME JobInit PROVE JobInv
  OBVIOUS
<1>1. mirrored \in BOOLEAN /\ reports \in BOOLEAN /\ files \in BOOLEAN
  BY Zenon DEF JobInit
<1>2. watching \in [Poller -> BOOLEAN]
  BY Zenon DEF JobInit
<1>3. row \in Row \cup {NoRow} /\ item \in [Poller -> Row \cup {NoRow}] /\ update \in [Poller -> Row \cup {NoRow}]
  BY DEF JobInit
<1>4. /\ phase \in JobPhase /\ stage \in [Poller -> CallStage] /\ failures \in 0..Budget
      /\ submission \in {"none", "created", "accepted", "refused", "done"}
      /\ deletion \in {"none", "files", "done"}
  BY DatasetJobsAssumption DEF JobInit, JobPhase, CallStage
<1>5. JobTypeOK
  BY <1>1, <1>2, <1>3, <1>4, Zenon DEF JobTypeOK
<1>6. CopiesOK /\ DeletionOK
  BY DEF JobInit, CopiesOK, Named, DeletionOK, DeletedIsGone
<1> QED
  BY <1>5, <1>6 DEF JobInv

\* A step outside the polling requests that leaves the row alone.
LEMMA OutsideStep ==
    ASSUME JobInv, UNCHANGED <<row, mirrored, reports, calls>>,
           files' \in BOOLEAN, phase' \in JobPhase, phase' = phase \/ phase' # "none",
           submission' \in {"none", "created", "accepted", "refused", "done"},
           submission' = submission \/ submission # "none",
           submission' = "none" => submission = "none",
           submission' = "accepted" => phase' # "none",
           deletion' \in {"none", "files", "done"},
           deletion' = deletion \/ (deletion' = "files" /\ row # NoRow),
           failures' \in 0..Budget
    PROVE  JobInv'
<1>1. JobTypeOK'
  BY DEF JobInv, JobTypeOK, calls
<1>2. CopiesOK'
  BY DEF JobInv, CopiesOK, Named, calls
<1>3. DeletionOK'
  BY DEF JobInv, DeletionOK, DeletedIsGone
<1> QED
  BY <1>1, <1>2, <1>3 DEF JobInv

LEMMA OutsideSteps ==
    ASSUME JobInv, SubmitAccepted \/ SubmitRefused \/ DeleteFiles
                 \/ WorkflowRuns \/ WorkflowWrites \/ WorkflowFinishes
    PROVE  JobInv'
<1>0. /\ phase \in JobPhase /\ files \in BOOLEAN /\ failures \in 0..Budget
      /\ submission \in {"none", "created", "accepted", "refused", "done"}
      /\ deletion \in {"none", "files", "done"}
      /\ submission = "accepted" => phase # "none"
  BY DEF JobInv, JobTypeOK, CopiesOK
<1>1. CASE SubmitAccepted
  BY <1>0, <1>1, OutsideStep DEF SubmitAccepted, setup, JobPhase
<1>2. CASE SubmitRefused
  <2>1. failures' \in 0..Budget
    BY <1>0, <1>2, DatasetJobsAssumption DEF SubmitRefused
  <2> QED
    BY <1>0, <1>2, <2>1, OutsideStep DEF SubmitRefused, setup, JobPhase
<1>3. CASE DeleteFiles
  <2>1. files' \in BOOLEAN
    BY <1>3, Zenon DEF DeleteFiles
  <2> QED
    BY <1>0, <1>3, <2>1, OutsideStep DEF DeleteFiles, setup
<1>4. CASE WorkflowRuns \/ WorkflowFinishes
  BY <1>0, <1>4, OutsideStep DEF WorkflowRuns, WorkflowFinishes, setup, JobPhase
<1>5. CASE WorkflowWrites
  <2>1. files' \in BOOLEAN
    BY <1>5, Zenon DEF WorkflowWrites
  <2> QED
    BY <1>0, <1>5, <2>1, OutsideStep DEF WorkflowWrites, setup
<1> QED
  BY <1>1, <1>2, <1>3, <1>4, <1>5

LEMMA SubmitStep == ASSUME JobInv, Submit PROVE JobInv'
<1>1. deletion = "none" /\ row' = New
  BY DEF JobInv, DeletionOK, Submit
<1>2. JobTypeOK'
  BY <1>1, NewIsRow DEF JobInv, JobTypeOK, Submit, world, setup, calls
<1>3. CopiesOK'
  BY <1>1, NewIsRow DEF JobInv, CopiesOK, Named, Submit, world, calls
<1>4. DeletionOK'
  BY <1>1 DEF DeletionOK, DeletedIsGone, Submit
<1> QED
  BY <1>2, <1>3, <1>4 DEF JobInv

LEMMA RecordStep == ASSUME JobInv, Record PROVE JobInv'
<1>1. row' \in Row \cup {NoRow} /\ (row = NoRow => row' = NoRow)
  BY NewIsRow DEF Record, Put
<1>2. Named(row)'
  BY NewIsRow DEF JobInv, CopiesOK, Named, Record, Put, world
<1>3. JobTypeOK'
  BY <1>1 DEF JobInv, JobTypeOK, Record, world, setup, calls
<1>4. CopiesOK'
  BY <1>2 DEF JobInv, CopiesOK, Named, Record, world, calls
<1>5. DeletionOK'
  BY <1>1 DEF JobInv, DeletionOK, DeletedIsGone, Record
<1> QED
  BY <1>3, <1>4, <1>5 DEF JobInv

LEMMA DeleteRowStep == ASSUME JobInv, DeleteRow PROVE JobInv'
<1>1. JobTypeOK'
  BY DEF JobInv, JobTypeOK, DeleteRow, world, setup, calls
<1>2. CopiesOK' /\ DeletionOK'
  BY DEF JobInv, CopiesOK, Named, DeletionOK, DeletedIsGone, DeleteRow, world, calls
<1> QED
  BY <1>1, <1>2 DEF JobInv

\* A step of a polling request: it puts nothing back that was deleted, and goes
\* on with copies that are rows where it needs them.
LEMMA CallGoes ==
    ASSUME JobInv, NEW c \in Poller, NEW to \in CallStage,
           NEW read \in Row \cup {NoRow}, NEW copy \in Row \cup {NoRow}, Go(c, to, read, copy),
           Named(read), Named(copy),
           to \in {"ask", "hydrate"} => read \in Row,
           to = "ask" => read.workflow,
           to \in {"write status", "write path"} => read \in Row /\ copy \in Row,
           row' \in Row \cup {NoRow}, Named(row'), row = NoRow => row' = NoRow,
           UNCHANGED <<world, submission, deletion>>, failures' \in 0..Budget
    PROVE  JobInv'
<1>1. JobTypeOK'
  BY DEF JobInv, JobTypeOK, Go, world, setup
<1>2. CopiesOK'
  <2>1. Named(row)' /\ (submission' = "accepted" => phase' # "none")
    BY DEF JobInv, CopiesOK, Named, world
  <2>2. ASSUME NEW d \in Poller
        PROVE  /\ Named(item[d])' /\ Named(update[d])'
               /\ stage'[d] \in {"ask", "hydrate"} => item'[d] \in Row
               /\ stage'[d] = "ask" => item'[d].workflow
               /\ stage'[d] \in {"write status", "write path"} => item'[d] \in Row /\ update'[d] \in Row
    <3>1. CASE d = c
      BY <3>1 DEF JobInv, JobTypeOK, Go, Named, world
    <3>2. CASE d # c
      BY <3>2 DEF JobInv, JobTypeOK, CopiesOK, Go, Named, world
    <3> QED
      BY <3>1, <3>2
  <2> QED
    BY <2>1, <2>2 DEF CopiesOK
<1>3. DeletionOK'
  BY DEF JobInv, DeletionOK, DeletedIsGone
<1> QED
  BY <1>1, <1>2, <1>3 DEF JobInv

\* What the invariant says of the row and of the copies of one request.
LEMMA CopiesOf ==
    ASSUME JobInv, NEW c \in Poller
    PROVE  /\ row \in Row \cup {NoRow} /\ Named(row) /\ failures \in 0..Budget
           /\ phase \in JobPhase
           /\ item[c] \in Row \cup {NoRow} /\ Named(item[c])
           /\ update[c] \in Row \cup {NoRow} /\ Named(update[c])
           /\ stage[c] \in {"ask", "hydrate"} => item[c] \in Row
           /\ stage[c] = "ask" => item[c].workflow
           /\ stage[c] \in {"write status", "write path"} => item[c] \in Row /\ update[c] \in Row
           /\ Named(NoRow) /\ NoRow \notin Row
BY DatasetJobsAssumption DEF JobInv, JobTypeOK, CopiesOK, Named

LEMMA PollStep == ASSUME JobInv, NEW c \in Poller, Poll(c) PROVE JobInv'
<1> DEFINE to == IF row.workflow THEN "ask" ELSE "hydrate"
<1>1. /\ row \in Row /\ Go(c, to, row, NoRow) /\ to \in {"ask", "hydrate"}
      /\ UNCHANGED <<row, world, submission, deletion, failures>>
  BY CopiesOf DEF Poll
<1>2. row.workflow \in BOOLEAN
  BY <1>1 DEF Row
<1>3. CASE row.workflow
  BY <1>1, <1>3, CopiesOf, CallGoes DEF CallStage, Named, world
<1>4. CASE ~row.workflow
  BY <1>1, <1>4, CopiesOf, CallGoes DEF CallStage, Named, world
<1> QED
  BY <1>2, <1>3, <1>4

\* What a refresh learns from Argo is a row of the same workflow.
LEMMA Refreshed ==
    ASSUME NEW r \in Row, phase \in JobPhase, phase # "none"
    PROVE  [r EXCEPT !.status = StatusOf[phase], !.path = OutputPath(r)] \in Row
BY DEF Row, Status, Path, StatusOf, OutputPath, JobPhase

LEMMA AskStep == ASSUME JobInv, NEW c \in Poller, Ask(c) PROVE JobInv'
<1> DEFINE r == item[c]
           new == [r EXCEPT !.status = StatusOf[phase], !.path = OutputPath(r)]
<1>1. /\ r \in Row /\ r.workflow /\ Named(r) /\ phase # "none"
      /\ UNCHANGED <<row, world, submission, deletion, failures>>
  BY CopiesOf DEF Ask, At, Named
<1>2. new \in Row /\ Named(new)
  BY <1>1, CopiesOf, Refreshed DEF Named
<1>3. Go(c, "write status", r, new) \/ Go(c, "hydrate", r, NoRow) \/ Go(c, "write status", r, r)
  BY DEF Ask
<1> HIDE DEF r, new
<1>4. Named(row') /\ row' \in Row \cup {NoRow} /\ failures' \in 0..Budget
  BY <1>1, CopiesOf DEF Named, world
<1>5. CASE Go(c, "write status", r, new)
  BY <1>1, <1>2, <1>4, <1>5, CallGoes DEF CallStage
<1>6. CASE Go(c, "hydrate", r, NoRow)
  BY <1>1, <1>4, <1>6, CallGoes, CopiesOf DEF CallStage
<1>7. CASE Go(c, "write status", r, r)
  BY <1>1, <1>4, <1>7, CallGoes DEF CallStage
<1> QED
  BY <1>3, <1>5, <1>6, <1>7

LEMMA AskUnansweredStep == ASSUME JobInv, NEW c \in Poller, AskUnanswered(c) PROVE JobInv'
<1>0. failures' \in 0..Budget
  <2>1. failures \in 0..Budget
    BY CopiesOf
  <2> QED
    BY <2>1, DatasetJobsAssumption DEF AskUnanswered
<1>1. /\ item[c] \in Row /\ failures' \in 0..Budget
      /\ Named(row') /\ row' \in Row \cup {NoRow}
      /\ UNCHANGED <<row, world, submission, deletion>>
  BY <1>0, CopiesOf DEF AskUnanswered, At, Named, world
<1>2. CASE Go(c, "hydrate", item[c], NoRow)
  BY <1>1, <1>2, CopiesOf, CallGoes DEF CallStage
<1>3. CASE Go(c, "idle", NoRow, NoRow)
  BY <1>1, <1>3, CopiesOf, CallGoes DEF CallStage
<1> QED
  BY <1>2, <1>3 DEF AskUnanswered

LEMMA WriteStatusStep == ASSUME JobInv, NEW c \in Poller, WriteStatus(c) PROVE JobInv'
<1>1. /\ item[c] \in Row /\ failures' \in 0..Budget
      /\ Named(row') /\ row' \in Row \cup {NoRow} /\ (row = NoRow => row' = NoRow)
      /\ UNCHANGED <<world, submission, deletion>>
  BY CopiesOf DEF WriteStatus, At, Named, world, Put
<1>2. CASE Go(c, "hydrate", item[c], NoRow)
  BY <1>1, <1>2, CopiesOf, CallGoes DEF CallStage
<1>3. CASE Go(c, "idle", NoRow, NoRow)
  BY <1>1, <1>3, CopiesOf, CallGoes DEF CallStage
<1> QED
  BY <1>2, <1>3 DEF WriteStatus

LEMMA HydrateStep == ASSUME JobInv, NEW c \in Poller, Hydrate(c) PROVE JobInv'
<1> DEFINE new == [item[c] EXCEPT !.path = FoundPath]
<1>1. /\ item[c] \in Row /\ failures' \in 0..Budget
      /\ Named(row') /\ row' \in Row \cup {NoRow}
      /\ UNCHANGED <<row, world, submission, deletion>>
  BY CopiesOf DEF Hydrate, At, Named, world
<1>2. new \in Row /\ Named(new)
  BY <1>1, CopiesOf DEF Row, Path, FoundPath, Named
<1>3. Go(c, "write path", item[c], new) \/ Go(c, "answer", NoRow, NoRow)
  BY DEF Hydrate
<1> HIDE DEF new
<1>4. CASE Go(c, "write path", item[c], new)
  BY <1>1, <1>2, <1>4, CopiesOf, CallGoes DEF CallStage
<1>5. CASE Go(c, "answer", NoRow, NoRow)
  BY <1>1, <1>5, CopiesOf, CallGoes DEF CallStage
<1> QED
  BY <1>3, <1>4, <1>5

LEMMA WritePathStep == ASSUME JobInv, NEW c \in Poller, WritePath(c) PROVE JobInv'
<1>1. /\ failures' \in 0..Budget
      /\ Named(row') /\ row' \in Row \cup {NoRow} /\ (row = NoRow => row' = NoRow)
      /\ UNCHANGED <<world, submission, deletion>>
  BY CopiesOf DEF WritePath, At, Named, world, Put
<1>2. Go(c, "idle", NoRow, NoRow) \/ Go(c, "answer", NoRow, NoRow)
  BY DEF WritePath
<1> QED
  BY <1>1, <1>2, CopiesOf, CallGoes DEF CallStage

LEMMA AnswerStep == ASSUME JobInv, NEW c \in Poller, Answer(c) PROVE JobInv'
<1> DEFINE unfinished == row # NoRow /\ row.status \notin {"completed", "failed"}
<1>1. unfinished \in BOOLEAN
  BY Zenon
<1>2. watching' = [watching EXCEPT ![c] = unfinished]
  BY DEF Answer
<1> HIDE DEF unfinished
<1>3. watching \in [Poller -> BOOLEAN]
  BY DEF JobInv, JobTypeOK
<1>4. watching' \in [Poller -> BOOLEAN]
  BY <1>1, <1>2, <1>3, Zenon
<1>5. JobTypeOK'
  BY <1>4 DEF JobInv, JobTypeOK, Answer, world, setup, CallStage
<1>6. CopiesOK' /\ DeletionOK'
  BY DEF JobInv, JobTypeOK, CopiesOK, Named, DeletionOK, DeletedIsGone, Answer, world
<1> QED
  BY <1>5, <1>6 DEF JobInv

LEMMA JobStutterStep == ASSUME JobInv, UNCHANGED jobVars PROVE JobInv'
<1>1. JobTypeOK'
  BY DEF JobInv, JobTypeOK, jobVars, world, setup, calls
<1>2. CopiesOK' /\ DeletionOK'
  BY DEF JobInv, CopiesOK, Named, DeletionOK, DeletedIsGone, jobVars, world, setup, calls
<1> QED
  BY <1>1, <1>2 DEF JobInv

LEMMA NextJobInv == JobInv /\ [JobNext]_jobVars => JobInv'
<1> SUFFICES ASSUME JobInv, [JobNext]_jobVars PROVE JobInv'
  OBVIOUS
<1>1. CASE Submit \/ Record \/ DeleteRow
  BY <1>1, SubmitStep, RecordStep, DeleteRowStep
<1>2. CASE SubmitAccepted \/ SubmitRefused \/ DeleteFiles
           \/ WorkflowRuns \/ WorkflowWrites \/ WorkflowFinishes
  BY <1>2, OutsideSteps
<1>3. ASSUME NEW c \in Poller, Poll(c) \/ CallStep(c) \/ AskUnanswered(c) PROVE JobInv'
  BY <1>3, PollStep, AskStep, AskUnansweredStep, WriteStatusStep, HydrateStep,
     WritePathStep, AnswerStep DEF CallStep
<1>4. CASE UNCHANGED jobVars
  BY <1>4, JobStutterStep
<1> QED
  BY <1>1, <1>2, <1>3, <1>4 DEF JobNext

-----------------------------------------------------------------------------
(* Its theorems.                                                           *)

\* The invariant holds in every state of every behaviour.
THEOREM JobInvariance == JobSpec => []JobInv
BY InitJobInv, NextJobInv, PTL DEF JobSpec

\* Every variable keeps its type: no request writes a status that Argo's phases
\* do not give, and none writes without a row that it read.
THEOREM JobTypeCorrect == JobSpec => []JobTypeOK
<1>1. JobInv => JobTypeOK
  BY DEF JobInv
<1> QED
  BY <1>1, JobInvariance, PTL

\* However many requests read the row before it was deleted, none creates it
\* again (SqlAlchemyDatasetRepository.update), nor does the submitting request.
THEOREM DeletedStaysGone == JobSpec => []DeletedIsGone
<1>1. JobInv => DeletedIsGone
  BY DEF JobInv, DeletionOK
<1> QED
  BY <1>1, JobInvariance, PTL
=============================================================================
