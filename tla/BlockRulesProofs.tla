-------------------------- MODULE BlockRulesProofs --------------------------
(***************************************************************************)
(* The rules for difficulties and timestamps, for every window and for     *)
(* chains of every length: that an alternative block is held to what it    *)
(* will be held to on the main chain, that the main chain's own blocks     *)
(* pass as alternative ones, and that work always grows.                   *)
(***************************************************************************)
EXTENDS BlockRules, SubsequenceProofs, FiniteSetTheorems, TLAPS

LEMMA Quotient ==
  ASSUME NEW p \in Nat, p >= 1, NEW s \in Nat, s >= 1
  PROVE  (p + s - 1) \div s \in Nat /\ (p + s - 1) \div s >= 1 /\ (p + s - 1) \div s <= p
<1> DEFINE a == p + s - 1
           q == a \div s
<1>1. a \in Nat /\ a >= s
  OBVIOUS
<1>2. q \in Int /\ s * q <= a /\ a < s * q + s
  OBVIOUS
<1>3. ASSUME q <= 0 PROVE FALSE
  <2>1. s * q <= 0
    BY <1>2, <1>3
  <2> QED BY <1>1, <1>2, <2>1
<1>4. ASSUME q >= p + 1 PROVE FALSE
  <2>1. s * q >= s * (p + 1)
    BY <1>2, <1>4
  <2>2. s * (p + 1) = s * p + s
    OBVIOUS
  <2>3. s * p >= p
    OBVIOUS
  <2>4. s * p \in Nat /\ s * q \in Int
    BY <1>2
  <2> QED BY <1>2, <2>1, <2>2, <2>3, <2>4
<1> QED BY <1>2, <1>3, <1>4

LEMMA Product ==
  ASSUME NEW p \in Nat, p >= 1, NEW s \in Nat, s >= 1
  PROVE  p * s \in Nat /\ p * s >= 1
OBVIOUS

(* A piece of two lists that reaches into the first one, and one that does not.  *)
LEMMA PieceOfBoth ==
  ASSUME NEW A, NEW s \in Seq(A), NEW t \in Seq(A), NEW h \in 0..Len(s), NEW f \in 1..(h + 1)
  PROVE  SubSeq(SubSeq(s, 1, h) \o t, f, h + Len(t)) = SubSeq(s, f, h) \o t
<1> DEFINE b == SubSeq(s, 1, h)
           u == b \o t
           p == SubSeq(s, f, h)
           n == Len(t)
           l == SubSeq(u, f, h + n)
           r == p \o t
<1>1. b \in Seq(A) /\ Len(b) = h /\ \A k \in 1..h : b[k] = s[k]
  BY FrontPart
<1>2. p \in Seq(A) /\ Len(p) = h - f + 1 /\ \A k \in 1..(h - f + 1) : p[k] = s[f + k - 1]
  BY MiddlePart
<1>0. h \in Nat /\ f \in Nat /\ n \in Nat /\ f >= 1 /\ f <= h + 1
  OBVIOUS
<1> HIDE DEF b, p
<1>3. /\ u \in Seq(A) /\ Len(u) = h + n
      /\ \A k \in 1..h : u[k] = b[k]
      /\ \A k \in 1..n : u[h + k] = t[k]
  <2>1. b \in Seq(A)
    BY <1>1
  <2>2. /\ b \o t \in Seq(A) /\ Len(b \o t) = Len(b) + Len(t)
        /\ \A k \in 1..Len(b) : (b \o t)[k] = b[k]
        /\ \A k \in 1..Len(t) : (b \o t)[Len(b) + k] = t[k]
    BY <2>1, ConcatParts
  <2> QED BY <2>2, <1>1
<1>4. /\ r \in Seq(A) /\ Len(r) = h - f + 1 + n
      /\ \A k \in 1..(h - f + 1) : r[k] = p[k]
      /\ \A k \in 1..n : r[h - f + 1 + k] = t[k]
  <2>1. p \in Seq(A)
    BY <1>2
  <2>2. /\ p \o t \in Seq(A) /\ Len(p \o t) = Len(p) + Len(t)
        /\ \A k \in 1..Len(p) : (p \o t)[k] = p[k]
        /\ \A k \in 1..Len(t) : (p \o t)[Len(p) + k] = t[k]
    BY <2>1, ConcatParts
  <2> QED BY <2>2, <1>2
<1> HIDE DEF u, r
<1>5. /\ l \in Seq(A) /\ Len(l) = h + n - f + 1
      /\ \A k \in 1..(h + n - f + 1) : l[k] = u[f + k - 1]
  <2>1. u \in Seq(A) /\ h + n \in 0..Len(u) /\ f \in 1..(h + n + 1)
    BY <1>0, <1>3
  <2> QED BY <2>1, MiddlePart
<1> HIDE DEF l, n
<1>6. ASSUME NEW k \in 1..(h + n - f + 1) PROVE l[k] = r[k]
  <2>1. l[k] = u[f + k - 1]
    BY <1>5
  <2>2. CASE k <= h - f + 1
    <3>1. k \in 1..(h - f + 1) /\ f + k - 1 \in 1..h
      BY <2>2, <1>0
    <3> QED BY <3>1, <2>1, <1>1, <1>2, <1>3, <1>4
  <2>3. CASE ~(k <= h - f + 1)
    <3> DEFINE j == k - (h - f + 1)
    <3>1. j \in 1..n /\ h + j = f + k - 1 /\ h - f + 1 + j = k
      BY <2>3, <1>0
    <3> HIDE DEF j
    <3>2. u[h + j] = t[j] /\ r[h - f + 1 + j] = t[j]
      BY <3>1, <1>3, <1>4
    <3> QED BY <3>1, <3>2, <2>1
  <2> QED BY <2>2, <2>3
<1>7. Len(l) = Len(r) /\ Len(l) = h + n - f + 1
  BY <1>0, <1>4, <1>5
<1>8. l = r
  <2>1. \A k \in 1..Len(l) : l[k] = r[k]
    BY <1>6, <1>7
  <2> QED BY <2>1, <1>4, <1>5, <1>7, SeqEqual
<1> QED BY <1>8 DEF l, r, u, p, b, n

LEMMA PieceOfSecond ==
  ASSUME NEW A, NEW s \in Seq(A), NEW t \in Seq(A), NEW f \in 1..(Len(t) + 1)
  PROVE  SubSeq(s \o t, Len(s) + f, Len(s) + Len(t)) = SubSeq(t, f, Len(t))
<1> DEFINE m == Len(s)
           n == Len(t)
           u == s \o t
           l == SubSeq(u, m + f, m + n)
           r == SubSeq(t, f, n)
<1>0. m \in Nat /\ f \in Nat /\ n \in Nat /\ f >= 1 /\ f <= n + 1
  OBVIOUS
<1>1. /\ u \in Seq(A) /\ Len(u) = m + n
      /\ \A k \in 1..n : u[m + k] = t[k]
  BY ConcatParts
<1>2. /\ r \in Seq(A) /\ Len(r) = n - f + 1
      /\ \A k \in 1..(n - f + 1) : r[k] = t[f + k - 1]
  <2>1. n \in 0..Len(t) /\ f \in 1..(n + 1)
    BY <1>0
  <2> QED BY <2>1, MiddlePart
<1> HIDE DEF u, r
<1>3. /\ l \in Seq(A) /\ Len(l) = m + n - (m + f) + 1
      /\ \A k \in 1..(m + n - (m + f) + 1) : l[k] = u[m + f + k - 1]
  <2>1. u \in Seq(A) /\ m + n \in 0..Len(u) /\ m + f \in 1..(m + n + 1)
    BY <1>0, <1>1
  <2> QED BY <2>1, MiddlePart
<1> HIDE DEF l, n, m
<1>4. m + n - (m + f) + 1 = n - f + 1
  BY <1>0
<1>5. ASSUME NEW k \in 1..(n - f + 1) PROVE l[k] = r[k]
  <2>1. f + k - 1 \in 1..n /\ m + (f + k - 1) = m + f + k - 1
    BY <1>0
  <2>2. u[m + (f + k - 1)] = t[f + k - 1]
    BY <2>1, <1>1
  <2> QED BY <2>1, <2>2, <1>2, <1>3, <1>4
<1>6. Len(l) = Len(r) /\ \A k \in 1..Len(l) : l[k] = r[k]
  BY <1>2, <1>3, <1>4, <1>5
<1>7. l = r
  BY <1>2, <1>3, <1>6, SeqEqual
<1> QED BY <1>7 DEF l, r, u, m, n
-----------------------------------------------------------------------------
LEMMA Windows ==
  /\ DifficultyBlocksCount \in Nat /\ DifficultyBlocksCount >= 2
  /\ DifficultyWindow \in Nat /\ DifficultyCut \in Nat /\ DifficultyTarget \in Nat /\ DifficultyTarget >= 1
  /\ DifficultyWindow - 2 * DifficultyCut \in Nat /\ DifficultyWindow - 2 * DifficultyCut >= 2
  /\ TimestampWindow \in Nat /\ TimestampWindow >= 1
  /\ WordValues \in Nat /\ WordValues >= 2
BY RulesAssumption DEF DifficultyBlocksCount

LEMMA FromHeight ==
  ASSUME NEW u, NEW l, Len(u) = l
  PROVE  LET a == AtLeastZero(l - DifficultyBlocksCount)
         IN  get_difficulty_for_next_block(u) = next_difficulty(SubSeq(u, (IF a = 0 THEN 1 ELSE a) + 1, l))
BY Zenon DEF get_difficulty_for_next_block, Heights

(***************************************************************************)
(* get_next_difficulty_for_alternative_chain looks at the blocks that      *)
(* get_difficulty_for_next_block looks at on the chain the branch makes.   *)
(***************************************************************************)
LEMMA SameBlocks ==
  ASSUME NEW A, NEW chain \in Seq(A), NEW h \in 1..Len(chain), NEW alt \in Seq(A)
  PROVE  get_next_difficulty_for_alternative_chain(chain, h, alt)
           = get_difficulty_for_next_block(SubSeq(chain, 1, h) \o alt)
<1> DEFINE N == DifficultyBlocksCount
           n == Len(alt)
           b == SubSeq(chain, 1, h)
           u == b \o alt
           a == AtLeastZero((h + n) - N)
           f == (IF a = 0 THEN 1 ELSE a) + 1
<1>1. N \in Nat /\ N >= 2 /\ n \in Nat /\ h \in Nat /\ h >= 1 /\ h \in 0..Len(chain)
  BY Windows
<1>2. b \in Seq(A) /\ Len(b) = h
  BY <1>1, FrontPart
<1>3. Len(u) = h + n
  <2> HIDE DEF b
  <2> QED BY <1>2, ConcatParts
<1>4. get_difficulty_for_next_block(u) = next_difficulty(SubSeq(u, f, h + n))
  <2> DEFINE l == h + n
  <2>1. Len(u) = l
    BY <1>3, Zenon
  <2> HIDE DEF u, l
  <2>2. get_difficulty_for_next_block(u) = next_difficulty(SubSeq(u, (IF AtLeastZero(l - N) = 0 THEN 1 ELSE AtLeastZero(l - N)) + 1, l))
    BY <2>1, FromHeight, Zenon
  <2> QED BY <2>2, Zenon DEF l
<1>5. CASE n < N
  <2>1. h - (N - n) = (h + n) - N
    BY <1>1
  <2>2. f \in 1..(h + 1)
    BY <1>1, <1>5 DEF AtLeastZero
  <2>3. get_next_difficulty_for_alternative_chain(chain, h, alt) = next_difficulty(SubSeq(chain, f, h) \o alt)
    BY <1>5, <2>1, Zenon DEF get_next_difficulty_for_alternative_chain, Heights
  <2>4. SubSeq(u, f, h + n) = SubSeq(chain, f, h) \o alt
    <3> HIDE DEF f
    <3> QED BY <1>1, <2>2, PieceOfBoth
  <2> HIDE DEF f
  <2> QED BY <1>4, <2>3, <2>4, Zenon
<1>6. CASE ~(n < N)
  <2>1. a = (h + n) - N /\ a # 0 /\ f = h + (n - N + 1) /\ n - N + 1 \in 1..(n + 1)
    BY <1>1, <1>6 DEF AtLeastZero
  <2>2. SubSeq(b \o alt, Len(b) + (n - N + 1), Len(b) + Len(alt)) = SubSeq(alt, n - N + 1, Len(alt))
    <3> HIDE DEF b
    <3> QED BY <1>2, <2>1, PieceOfSecond
  <2>3. SubSeq(u, f, h + n) = SubSeq(alt, n - N + 1, n)
    BY <2>1, <2>2, <1>2, Zenon
  <2>4. get_next_difficulty_for_alternative_chain(chain, h, alt) = next_difficulty(SubSeq(alt, n - N + 1, n))
    BY <1>6, Zenon DEF get_next_difficulty_for_alternative_chain
  <2> QED BY <1>4, <2>3, <2>4, Zenon
<1> QED BY <1>5, <1>6
-----------------------------------------------------------------------------
(* The places counted for sorting are finitely many.                       *)
LEMMA Counted ==
  ASSUME NEW v \in Seq(Nat), NEW S, S \subseteq DOMAIN v
  PROVE  IsFiniteSet(S) /\ Cardinality(S) \in Nat /\ Cardinality(S) <= Len(v)
<1>1. Len(v) \in Nat /\ DOMAIN v = 1..Len(v)
  OBVIOUS
<1>2. IsFiniteSet(1..Len(v)) /\ Cardinality(1..Len(v)) = Len(v)
  <2>1. Len(v) \in Int /\ 1 \in Int
    BY <1>1
  <2>2. IsFiniteSet(1..Len(v)) /\ Cardinality(1..Len(v)) = IF 1 > Len(v) THEN 0 ELSE Len(v) - 1 + 1
    BY <2>1, FS_Interval
  <2> QED BY <1>1, <2>2
<1>3. S \in SUBSET (1..Len(v))
  BY <1>1
<1>4. IsFiniteSet(S) /\ Cardinality(S) <= Cardinality(1..Len(v))
  BY <1>2, <1>3, FS_Subset
<1> QED BY <1>2, <1>4, FS_CardinalityType

LEMMA CountedMore ==
  ASSUME NEW v \in Seq(Nat), NEW S, NEW T, S \subseteq T, T \subseteq DOMAIN v
  PROVE  Cardinality(S) <= Cardinality(T)
<1>1. IsFiniteSet(T) /\ S \in SUBSET T
  BY Counted
<1> QED BY <1>1, FS_Subset

(* A list of naturals has an upper bound.                                  *)
LEMMA UpperBound ==
  ASSUME NEW v \in Seq(Nat)
  PROVE  \E b \in Nat : \A i \in DOMAIN v : v[i] <= b
<1> DEFINE n == Len(v)
           S == {m \in 0..n : \E b \in Nat : \A i \in 1..m : v[i] <= b}
<1>1. n \in Nat /\ DOMAIN v = 1..n /\ \A i \in 1..n : v[i] \in Nat
  OBVIOUS
<1> HIDE DEF n
<1>2. 0 \in S
  BY <1>1
<1>3. ASSUME NEW m \in 1..n, m - 1 \in S PROVE m \in S
  <2>1. PICK b \in Nat : \A i \in 1..(m - 1) : v[i] <= b
    BY <1>3
  <2> DEFINE c == IF v[m] <= b THEN b ELSE v[m]
  <2>2. c \in Nat /\ b <= c /\ v[m] <= c
    BY <1>1
  <2> HIDE DEF c
  <2>3. \A i \in 1..m : v[i] <= c
    <3> TAKE i \in 1..m
    <3>1. CASE i = m
      BY <3>1, <2>2
    <3>2. CASE i # m
      <4>1. i \in 1..(m - 1) /\ i \in 1..n
        BY <3>2, <1>1
      <4> QED BY <4>1, <2>1, <2>2, <1>1
    <3> QED BY <3>1, <3>2
  <2> QED BY <2>2, <2>3, <1>1
<1>4. \A m \in 0..n : m \in S
  <2> HIDE DEF S
  <2> QED BY <1>1, <1>2, <1>3, UpTo
<1>5. n \in S
  <2> HIDE DEF S
  <2> QED BY <1>1, <1>4
<1> QED BY <1>1, <1>5

(* Exactly one value can be at place k of the sorted list.                 *)
AtPlace(v, k, x) == Cardinality(Less(v, x)) < k /\ k <= Cardinality(NotGreater(v, x))

LEMMA PlacesOrdered ==
  ASSUME NEW v \in Seq(Nat), NEW k \in Nat, NEW l \in Nat, k <= l,
         NEW x \in Nat, NEW y \in Nat, AtPlace(v, k, x), AtPlace(v, l, y)
  PROVE  x <= y
<1> SUFFICES ASSUME y < x PROVE FALSE
  OBVIOUS
<1>1. NotGreater(v, y) \subseteq Less(v, x) /\ Less(v, x) \subseteq DOMAIN v
  <2>1. \A i \in DOMAIN v : v[i] \in Nat
    OBVIOUS
  <2> QED BY <2>1 DEF NotGreater, Less
<1>2. Cardinality(NotGreater(v, y)) <= Cardinality(Less(v, x))
  BY <1>1, CountedMore
<1>3. Cardinality(Less(v, x)) \in Nat /\ Cardinality(NotGreater(v, y)) \in Nat
  BY <1>1, Counted
<1> QED BY <1>2, <1>3 DEF AtPlace

LEMMA PlaceTaken ==
  ASSUME NEW v \in Seq(Nat), NEW k \in DOMAIN v
  PROVE  \E x \in Range(v) : AtPlace(v, k, x)
<1> DEFINE n == Len(v)
           S == {x \in Nat : k <= Cardinality(NotGreater(v, x))}
<1>1. n \in Nat /\ DOMAIN v = 1..n /\ k \in Nat /\ 1 <= k /\ k <= n /\ \A i \in DOMAIN v : v[i] \in Nat
  OBVIOUS
<1> HIDE DEF n
<1>2. S # {}
  <2>1. PICK b \in Nat : \A i \in DOMAIN v : v[i] <= b
    BY UpperBound
  <2>2. NotGreater(v, b) = 1..n
    BY <1>1, <2>1 DEF NotGreater
  <2>3. Cardinality(1..n) = n
    <3>1. 1 \in Int /\ n \in Int
      BY <1>1
    <3>2. Cardinality(1..n) = IF 1 > n THEN 0 ELSE n - 1 + 1
      BY <3>1, FS_Interval
    <3> QED BY <1>1, <3>2
  <2> QED BY <1>1, <2>2, <2>3
<1>3. PICK x \in S : \A y \in S : x <= y
  <2>1. S \subseteq Nat
    OBVIOUS
  <2> HIDE DEF S
  <2> QED BY <1>2, <2>1, LeastNumber
<1>4. \A z : NotGreater(v, z) \subseteq DOMAIN v /\ Less(v, z) \subseteq DOMAIN v
  BY DEF NotGreater, Less
<1>5. \A z : Cardinality(NotGreater(v, z)) \in Nat /\ Cardinality(Less(v, z)) \in Nat
  BY <1>4, Counted
<1>6. x \in Nat /\ k <= Cardinality(NotGreater(v, x))
  BY <1>3
<1>7. Cardinality(Less(v, x)) < k
  <2>1. CASE x = 0
    <3>1. Less(v, x) = {}
      BY <2>1, <1>1 DEF Less
    <3>2. Cardinality(Less(v, x)) = 0
      BY <3>1, FS_EmptySet
    <3> QED BY <3>2, <1>1
  <2>2. CASE x # 0
    <3>1. x - 1 \in Nat /\ ~(x <= x - 1)
      BY <2>2, <1>6
    <3>2. ~(k <= Cardinality(NotGreater(v, x - 1)))
      BY <3>1, <1>3
    <3>3. Less(v, x) = NotGreater(v, x - 1)
      BY <1>1, <1>6 DEF Less, NotGreater
    <3> QED BY <3>2, <3>3, <1>1, <1>5
  <2> QED BY <2>1, <2>2
<1>8. x \in Range(v)
  <2> SUFFICES ASSUME \A i \in DOMAIN v : v[i] # x PROVE FALSE
    BY DEF Range
  <2>1. Less(v, x) = NotGreater(v, x)
    BY <1>1, <1>6 DEF Less, NotGreater
  <2> QED BY <2>1, <1>1, <1>5, <1>6, <1>7
<1> QED BY <1>6, <1>7, <1>8 DEF AtPlace

(* What std::sort puts at a place.                                         *)
LEMMA SortedPlaces ==
  ASSUME NEW v \in Seq(Nat)
  PROVE  /\ sorted(v) \in Seq(Nat) /\ Len(sorted(v)) = Len(v)
         /\ \A k \in DOMAIN v : sorted(v)[k] \in Nat /\ AtPlace(v, k, sorted(v)[k])
<1>1. Len(v) \in Nat /\ DOMAIN v = 1..Len(v) /\ Range(v) \subseteq Nat
  BY DEF Range
<1>2. ASSUME NEW k \in DOMAIN v PROVE sorted(v)[k] \in Nat /\ AtPlace(v, k, sorted(v)[k])
  <2>1. sorted(v)[k] = CHOOSE x \in Range(v) : AtPlace(v, k, x)
    BY DEF sorted, AtPlace
  <2>2. \E x \in Range(v) : AtPlace(v, k, x)
    BY PlaceTaken
  <2>3. sorted(v)[k] \in Range(v) /\ AtPlace(v, k, sorted(v)[k])
    BY <2>1, <2>2, Zenon
  <2> QED BY <2>3, <1>1
<1>3. sorted(v) = [k \in 1..Len(v) |-> sorted(v)[k]]
  BY <1>1 DEF sorted
<1>4. sorted(v) \in [1..Len(v) -> Nat]
  BY <1>1, <1>2, <1>3
<1>5. sorted(v) \in Seq(Nat) /\ Len(sorted(v)) = Len(v)
  BY <1>1, <1>4
<1> QED BY <1>2, <1>5

LEMMA SortedGrows ==
  ASSUME NEW v \in Seq(Nat), NEW k \in DOMAIN v, NEW l \in DOMAIN v, k <= l
  PROVE  sorted(v)[k] \in Nat /\ sorted(v)[l] \in Nat /\ sorted(v)[k] <= sorted(v)[l]
<1>1. /\ sorted(v)[k] \in Nat /\ AtPlace(v, k, sorted(v)[k])
      /\ sorted(v)[l] \in Nat /\ AtPlace(v, l, sorted(v)[l])
  BY SortedPlaces
<1>2. k \in Nat /\ l \in Nat
  OBVIOUS
<1> QED BY <1>1, <1>2, PlacesOrdered
(* Sorting does not see in which order two lists come.                     *)
LEMMA SortedTurned ==
  ASSUME NEW p \in Seq(Nat), NEW q \in Seq(Nat)
  PROVE  sorted(p \o q) = sorted(q \o p)
<1> DEFINE a == Len(p)
           b == Len(q)
           v == p \o q
           w == q \o p
           turn == [i \in 1..(a + b) |-> IF i <= a THEN i + b ELSE i - a]
<1>1. a \in Nat /\ b \in Nat
  OBVIOUS
<1>2. /\ v \in Seq(Nat) /\ Len(v) = a + b
      /\ \A k \in 1..a : v[k] = p[k]
      /\ \A k \in 1..b : v[a + k] = q[k]
  BY ConcatParts
<1>3. /\ w \in Seq(Nat) /\ Len(w) = b + a
      /\ \A k \in 1..b : w[k] = q[k]
      /\ \A k \in 1..a : w[b + k] = p[k]
  BY ConcatParts
<1> HIDE DEF v, w, a, b
<1>4. DOMAIN v = 1..(a + b) /\ DOMAIN w = 1..(a + b)
  BY <1>1, <1>2, <1>3
<1>5. \A i \in 1..(a + b) : turn[i] \in 1..(a + b) /\ w[turn[i]] = v[i]
  <2> TAKE i \in 1..(a + b)
  <2>1. CASE i <= a
    <3>1. i \in 1..a /\ turn[i] = b + i /\ turn[i] \in 1..(a + b)
      BY <2>1, <1>1
    <3> HIDE DEF turn
    <3> QED BY <3>1, <1>2, <1>3
  <2>2. CASE ~(i <= a)
    <3> DEFINE j == i - a
    <3>1. j \in 1..b /\ turn[i] = j /\ i = a + j /\ j \in 1..(a + b)
      BY <2>2, <1>1
    <3> HIDE DEF j, turn
    <3>2. v[a + j] = q[j] /\ w[j] = q[j]
      BY <3>1, <1>2, <1>3
    <3> QED BY <3>1, <3>2
  <2> QED BY <2>1, <2>2
<1>6. \A i, j \in 1..(a + b) : turn[i] = turn[j] => i = j
  BY <1>1
<1>7. \A j \in 1..(a + b) : \E i \in 1..(a + b) : turn[i] = j
  <2> TAKE j \in 1..(a + b)
  <2>1. CASE j <= b
    <3>1. j + a \in 1..(a + b) /\ turn[j + a] = j
      BY <2>1, <1>1
    <3> QED BY <3>1
  <2>2. CASE ~(j <= b)
    <3>1. j - b \in 1..(a + b) /\ turn[j - b] = j
      BY <2>2, <1>1
    <3> QED BY <3>1
  <2> QED BY <2>1, <2>2
<1> HIDE DEF turn
<1>8. ASSUME NEW S, NEW T, S \subseteq 1..(a + b), T \subseteq 1..(a + b),
             \A i \in 1..(a + b) : i \in S <=> turn[i] \in T
      PROVE  Cardinality(S) = Cardinality(T)
  <2> DEFINE f == [i \in S |-> turn[i]]
  <2>1. f \in Bijection(S, T)
    <3>1. f \in [S -> T]
      BY <1>8
    <3>2. \A i, j \in S : f[i] = f[j] => i = j
      BY <1>6, <1>8
    <3>3. \A t \in T : \E s \in S : f[s] = t
      BY <1>7, <1>8
    <3> HIDE DEF f
    <3> QED BY <3>1, <3>2, <3>3 DEF Bijection, Injection, Surjection, IsInjective
  <2>2. IsFiniteSet(S)
    BY <1>2, <1>4, <1>8, Counted
  <2> QED BY <2>1, <2>2, FS_Bijection DEF ExistsBijection
<1>9. \A x : /\ Cardinality(Less(v, x)) = Cardinality(Less(w, x))
             /\ Cardinality(NotGreater(v, x)) = Cardinality(NotGreater(w, x))
  <2> TAKE x
  <2>1. /\ Less(v, x) \subseteq 1..(a + b) /\ Less(w, x) \subseteq 1..(a + b)
        /\ \A i \in 1..(a + b) : i \in Less(v, x) <=> turn[i] \in Less(w, x)
    BY <1>4, <1>5 DEF Less
  <2>2. /\ NotGreater(v, x) \subseteq 1..(a + b) /\ NotGreater(w, x) \subseteq 1..(a + b)
        /\ \A i \in 1..(a + b) : i \in NotGreater(v, x) <=> turn[i] \in NotGreater(w, x)
    BY <1>4, <1>5 DEF NotGreater
  <2> QED BY <2>1, <2>2, <1>8
<1>10. ASSUME NEW k \in 1..(a + b) PROVE sorted(v)[k] = sorted(w)[k]
  <2> DEFINE x == sorted(v)[k]
             y == sorted(w)[k]
  <2>1. x \in Nat /\ y \in Nat /\ AtPlace(v, k, x) /\ AtPlace(w, k, y) /\ k \in Nat
    BY <1>2, <1>3, <1>4, <1>1, SortedPlaces
  <2> HIDE DEF x, y
  <2>2. AtPlace(v, k, y)
    BY <2>1, <1>9 DEF AtPlace
  <2>3. x <= y /\ y <= x
    <3>1. k <= k /\ v \in Seq(Nat)
      BY <2>1, <1>2
    <3> QED BY <3>1, <2>1, <2>2, PlacesOrdered
  <2> QED BY <2>1, <2>3 DEF x, y
<1>11. sorted(v) \in Seq(Nat) /\ sorted(w) \in Seq(Nat) /\ Len(sorted(v)) = a + b /\ Len(sorted(w)) = a + b
  BY <1>1, <1>2, <1>3, SortedPlaces
<1>12. sorted(v) = sorted(w)
  <2> DEFINE s == sorted(v)
             t == sorted(w)
  <2>1. s \in Seq(Nat) /\ t \in Seq(Nat) /\ Len(s) = Len(t) /\ \A k \in 1..Len(s) : s[k] = t[k]
    BY <1>10, <1>11
  <2> HIDE DEF s, t
  <2>2. s = t
    BY <2>1, SeqEqual
  <2> QED BY <2>2 DEF s, t
<1> QED BY <1>12 DEF v, w
-----------------------------------------------------------------------------
(* Blocks, and chains of blocks.                                           *)
Blocks == [timestamp : Nat, cumulative_difficulty : Nat]

LEMMA BlockFields ==
  ASSUME NEW s \in Seq(Blocks), NEW i \in 1..Len(s)
  PROVE  s[i] \in Blocks /\ s[i].timestamp \in Nat /\ s[i].cumulative_difficulty \in Nat
<1>1. s[i] \in Blocks
  OBVIOUS
<1> QED BY <1>1 DEF Blocks

LEMMA TimestampsType ==
  ASSUME NEW s \in Seq(Blocks)
  PROVE  /\ Timestamps(s) \in Seq(Nat) /\ Len(Timestamps(s)) = Len(s) /\ DOMAIN Timestamps(s) = 1..Len(s)
         /\ \A i \in 1..Len(s) : Timestamps(s)[i] = s[i].timestamp
<1>1. Len(s) \in Nat /\ DOMAIN s = 1..Len(s) /\ \A i \in 1..Len(s) : s[i].timestamp \in Nat
  BY BlockFields
<1>2. Timestamps(s) \in [1..Len(s) -> Nat] /\ \A i \in 1..Len(s) : Timestamps(s)[i] = s[i].timestamp
  BY <1>1 DEF Timestamps
<1> QED BY <1>1, <1>2

(* Work grows from any block to any later one.                             *)
LEMMA GrowsFar ==
  ASSUME NEW s \in Seq(Blocks), Growing(s), NEW i \in 1..Len(s), NEW j \in 1..Len(s), i < j
  PROVE  s[i].cumulative_difficulty < s[j].cumulative_difficulty
<1> DEFINE d(k) == s[k].cumulative_difficulty
           n == Len(s)
           S == {m \in Nat : i + 1 + m <= n => d(i) < d(i + 1 + m)}
<1>1. n \in Nat /\ \A k \in 1..n : d(k) \in Nat
  BY BlockFields
<1>2. \A k \in 2..n : d(k - 1) < d(k)
  BY DEF Growing
<1> HIDE DEF d, n
<1>3. 0 \in S
  <2>1. i + 1 <= n => i + 1 \in 2..n /\ (i + 1) - 1 = i /\ i + 1 + 0 = i + 1
    BY <1>1
  <2> QED BY <2>1, <1>2
<1>4. ASSUME NEW m \in 1..n, m - 1 \in S PROVE m \in S
  <2> SUFFICES ASSUME i + 1 + m <= n PROVE d(i) < d(i + 1 + m)
    BY <1>1
  <2>1. i + 1 + (m - 1) <= n /\ i + 1 + m \in 2..n /\ (i + 1 + m) - 1 = i + 1 + (m - 1)
    BY <1>1
  <2>2. d(i) < d(i + 1 + (m - 1))
    BY <1>4, <2>1
  <2>3. d(i + 1 + (m - 1)) < d(i + 1 + m)
    BY <2>1, <1>2
  <2>4. i \in 1..n /\ i + 1 + (m - 1) \in 1..n /\ i + 1 + m \in 1..n
    BY <2>1, <1>1
  <2> QED BY <2>2, <2>3, <2>4, <1>1
<1>5. \A m \in 0..n : m \in S
  <2> HIDE DEF S
  <2> QED BY <1>1, <1>3, <1>4, UpTo
<1>6. j - (i + 1) \in 0..n /\ i + 1 + (j - (i + 1)) = j /\ j <= n
  BY <1>1 DEF n
<1>7. j - (i + 1) \in S
  <2> HIDE DEF S
  <2> QED BY <1>5, <1>6
<1>8. d(i) < d(j)
  BY <1>6, <1>7
<1> QED BY <1>8 DEF d

(* A piece of a growing chain grows.                                       *)
LEMMA PieceGrows ==
  ASSUME NEW s \in Seq(Blocks), Growing(s), NEW m \in 0..Len(s), NEW f \in 1..(m + 1)
  PROVE  Growing(SubSeq(s, f, m))
<1> DEFINE p == SubSeq(s, f, m)
<1>1. p \in Seq(Blocks) /\ Len(p) = m - f + 1 /\ \A k \in 1..(m - f + 1) : p[k] = s[f + k - 1]
  BY MiddlePart
<1> HIDE DEF p
<1>2. ASSUME NEW i \in 2..Len(p) PROVE p[i - 1].cumulative_difficulty < p[i].cumulative_difficulty
  <2>1. /\ i \in 1..(m - f + 1) /\ i - 1 \in 1..(m - f + 1)
        /\ f + i - 1 \in 2..Len(s) /\ f + (i - 1) - 1 = (f + i - 1) - 1
    BY <1>1
  <2>2. p[i] = s[f + i - 1] /\ p[i - 1] = s[(f + i - 1) - 1]
    <3>1. p[i - 1] = s[f + (i - 1) - 1] /\ p[i] = s[f + i - 1]
      BY <2>1, <1>1
    <3> QED BY <2>1, <3>1
  <2> QED BY <2>1, <2>2 DEF Growing
<1> QED BY <1>2 DEF Growing, p
(* next_difficulty measures at least two blocks.                           *)
LEMMA CutPlaces ==
  ASSUME NEW l \in Nat, l >= 2
  PROVE  /\ cut(l).begin \in Nat /\ cut(l).end \in Nat
         /\ cut(l).begin + 1 < cut(l).end /\ cut(l).end <= l
<1> DEFINE kept == DifficultyWindow - 2 * DifficultyCut
           begin == (l - kept + 1) \div 2
<1>1. kept \in Nat /\ kept >= 2
  BY Windows
<1>2. cut(l) = IF l <= kept THEN [begin |-> 0, end |-> l] ELSE [begin |-> begin, end |-> begin + kept]
  BY DEF cut
<1> HIDE DEF kept
<1>3. ~(l <= kept) => begin \in Nat /\ begin + kept <= l
  BY <1>1
<1> HIDE DEF begin
<1>4. CASE l <= kept
  BY <1>4, <1>2
<1>5. CASE ~(l <= kept)
  BY <1>5, <1>1, <1>2, <1>3
<1> QED BY <1>4, <1>5

(* There is always a next difficulty, whatever the timestamps, unless it does not fit. *)
LEMMA DifficultyPositive ==
  ASSUME NEW s \in Seq(Blocks), Growing(s)
  PROVE  /\ next_difficulty(s) \in Nat
         /\ \A D \in Nat : /\ \A i \in 1..Len(s) : s[i].cumulative_difficulty <= D
                           /\ D * DifficultyTarget <= max128bit
                           => next_difficulty(s) >= 1
<1> DEFINE m == IF Len(s) > DifficultyWindow THEN DifficultyWindow ELSE Len(s)
           used == SubSeq(s, 1, m)
           c == cut(Len(used))
           times == sorted(Timestamps(used))
           span == times[c.end] - times[c.begin + 1]
           work == used[c.end].cumulative_difficulty - used[c.begin + 1].cumulative_difficulty
           one == IF span = 0 THEN 1 ELSE span
<1>1. m \in 0..Len(s) /\ 1 \in 1..(m + 1)
  BY Windows
<1>2. next_difficulty(s) = IF Len(used) <= 1 THEN 1 ELSE Spread(work, one)
  BY DEF next_difficulty
<1> HIDE DEF m
<1>3. used \in Seq(Blocks) /\ Len(used) = m /\ Len(used) \in Nat /\ Growing(used) /\ \A k \in 1..m : used[k] = s[k]
  BY <1>1, FrontPart, PieceGrows
<1> HIDE DEF used
<1>4. CASE Len(used) <= 1
  BY <1>4, <1>2
<1>5. CASE ~(Len(used) <= 1)
  <2>1. c.begin \in Nat /\ c.end \in Nat /\ c.begin + 1 < c.end /\ c.end <= Len(used)
    <3>1. Len(used) >= 2
      BY <1>3, <1>5
    <3> QED BY <1>3, <3>1, CutPlaces
  <2> HIDE DEF c
  <2>2. c.end \in 1..Len(used) /\ c.begin + 1 \in 1..Len(used) /\ c.begin + 1 <= c.end
    BY <2>1, <1>3
  <2>3. span \in Nat
    <3> DEFINE v == Timestamps(used)
    <3>1. v \in Seq(Nat) /\ c.end \in DOMAIN v /\ c.begin + 1 \in DOMAIN v
      BY <1>3, <2>2, TimestampsType
    <3> HIDE DEF v
    <3>2. sorted(v)[c.begin + 1] \in Nat /\ sorted(v)[c.end] \in Nat /\ sorted(v)[c.begin + 1] <= sorted(v)[c.end]
      BY <3>1, <2>2, SortedGrows
    <3> QED BY <3>2 DEF v
  <2>4. work \in Nat /\ work >= 1 /\ work <= s[c.end].cumulative_difficulty /\ c.end \in 1..Len(s)
    <3>1. used[c.begin + 1].cumulative_difficulty < used[c.end].cumulative_difficulty
      BY <1>3, <2>1, <2>2, GrowsFar
    <3>2. used[c.begin + 1].cumulative_difficulty \in Nat /\ used[c.end].cumulative_difficulty \in Nat
      BY <1>3, <2>2, BlockFields
    <3>3. used[c.end] = s[c.end] /\ c.end \in 1..Len(s)
      BY <1>1, <1>3, <2>2
    <3> QED BY <3>1, <3>2, <3>3
  <2> HIDE DEF span, work
  <2>5. one \in Nat /\ one >= 1
    BY <2>3
  <2> HIDE DEF one
  <2> DEFINE p == work * DifficultyTarget
             q == (p + one - 1) \div one
  <2>6. p \in Nat /\ p >= 1
    BY <2>4, Windows, Product
  <2>7. Spread(work, one) = IF q > max128bit THEN 0 ELSE q
    BY DEF Spread
  <2>8. \A D \in Nat : work <= D => p <= D * DifficultyTarget
    <3>1. \A D \in Nat : work <= D => work * DifficultyTarget <= D * DifficultyTarget
      BY <2>4, Windows
    <3> QED BY <3>1
  <2> HIDE DEF p
  <2>9. q \in Nat /\ q >= 1 /\ q <= p
    BY <2>5, <2>6, Quotient
  <2> HIDE DEF q
  <2>10. next_difficulty(s) = IF q > max128bit THEN 0 ELSE q
    BY <2>7, <1>2, <1>5
  <2>11. ASSUME NEW D \in Nat, \A i \in 1..Len(s) : s[i].cumulative_difficulty <= D,
                D * DifficultyTarget <= max128bit
         PROVE  ~(q > max128bit)
    <3>1. work <= D
      <4>1. s[c.end].cumulative_difficulty <= D /\ s[c.end].cumulative_difficulty \in Nat
        BY <2>4, <2>11, BlockFields
      <4> QED BY <4>1, <2>4
    <3>2. p <= D * DifficultyTarget /\ D * DifficultyTarget \in Nat /\ max128bit \in Int
      <4>1. D * DifficultyTarget \in Nat
        BY Windows
      <4>2. max128bit \in Int
        BY Windows DEF max128bit
      <4> QED BY <2>8, <3>1, <4>1, <4>2
    <3> HIDE DEF p, q
    <3> QED BY <3>2, <2>6, <2>9, <2>11
  <2> QED BY <2>9, <2>10, <2>11
<1> QED BY <1>4, <1>5

LEMMA NextPositive ==
  ASSUME NEW s \in Seq(Blocks), Growing(s), Len(s) >= 1
  PROVE  /\ get_difficulty_for_next_block(s) \in Nat
         /\ Last(s).cumulative_difficulty * DifficultyTarget <= max128bit =>
              get_difficulty_for_next_block(s) > 0
<1> DEFINE a == AtLeastZero(Len(s) - DifficultyBlocksCount)
           f == (IF a = 0 THEN 1 ELSE a) + 1
           n == Len(s)
           p == SubSeq(s, f, n)
           D == Last(s).cumulative_difficulty
<1>1. n \in Nat /\ n >= 1 /\ n \in 0..Len(s) /\ f \in 1..(n + 1)
  BY Windows DEF AtLeastZero
<1>2. get_difficulty_for_next_block(s) = next_difficulty(p)
  BY Zenon DEF get_difficulty_for_next_block, Heights
<1> HIDE DEF f
<1>3. p \in Seq(Blocks) /\ Growing(p) /\ Len(p) = n - f + 1 /\ \A k \in 1..(n - f + 1) : p[k] = s[f + k - 1]
  BY <1>1, MiddlePart, PieceGrows
<1>4. Last(s) = s[n] /\ n \in 1..n
  BY <1>1 DEF Last
<1>5. D \in Nat
  BY <1>4, BlockFields
<1>6. \A i \in 1..n : s[i].cumulative_difficulty <= D
  <2> TAKE i \in 1..n
  <2>1. CASE i = n
    BY <2>1, <1>4, <1>5
  <2>2. CASE i # n
    <3>1. i < n
      BY <2>2, <1>1
    <3>2. s[i].cumulative_difficulty < s[n].cumulative_difficulty
      BY <3>1, <1>4, GrowsFar
    <3>3. s[i].cumulative_difficulty \in Nat
      BY BlockFields
    <3> QED BY <3>2, <3>3, <1>4, <1>5
  <2> QED BY <2>1, <2>2
<1> HIDE DEF p, n, D
<1>7. \A k \in 1..Len(p) : p[k].cumulative_difficulty <= D
  <2> TAKE k \in 1..Len(p)
  <2>1. k \in 1..(n - f + 1) /\ f + k - 1 \in 1..n
    BY <1>1, <1>3
  <2> QED BY <2>1, <1>3, <1>6
<1>8. next_difficulty(p) \in Nat /\ (D * DifficultyTarget <= max128bit => next_difficulty(p) >= 1)
  BY <1>3, <1>5, <1>7, DifficultyPositive
<1>9. get_difficulty_for_next_block(s) \in Nat /\ (D * DifficultyTarget <= max128bit => get_difficulty_for_next_block(s) > 0)
  BY <1>2, <1>8
<1> QED BY <1>9 DEF D
-----------------------------------------------------------------------------
(* The chains and branches of the invariant.                               *)
TimesChecked(chain) ==
  \A i \in 2..Len(chain) :
    check_block_timestamp(
      Timestamps(SubSeq(chain, AtLeastZero(i - 1 - TimestampWindow) + 1, i - 1)), chain[i].timestamp)

WorkChecked(chain) ==
  \A i \in 2..Len(chain) :
    LET d == get_difficulty_for_next_block(SubSeq(chain, 1, i - 1))
    IN  d # 0 /\ chain[i] = Block(chain[i].timestamp, chain[i - 1].cumulative_difficulty + d)

Chain(chain) == chain \in Seq(Blocks) /\ Len(chain) >= 1 /\ Growing(chain)

LEMMA Extends ==
  ASSUME NEW chain, Chain(chain), NEW ts \in Nat, get_difficulty_for_next_block(chain) # 0
  PROVE  /\ Chain(Extended(chain, ts))
         /\ Len(Extended(chain, ts)) = Len(chain) + 1
         /\ Extended(chain, ts)[Len(chain) + 1].timestamp = ts
         /\ \A i \in 1..Len(chain) : Extended(chain, ts)[i] = chain[i]
<1> DEFINE d == get_difficulty_for_next_block(chain)
           n == Len(chain)
           cd == Last(chain).cumulative_difficulty
           b == Block(ts, cd + d)
           e == Append(chain, b)
<1>1. chain \in Seq(Blocks) /\ n \in Nat /\ n >= 1 /\ Growing(chain)
  BY DEF Chain
<1>2. d \in Nat /\ d >= 1
  <2>1. d \in Nat /\ d # 0
    BY <1>1, NextPositive
  <2> HIDE DEF d
  <2> QED BY <2>1
<1>3. Last(chain) = chain[n]
  BY DEF Last
<1>4. cd \in Nat
  <2>1. n \in 1..Len(chain)
    BY <1>1
  <2> QED BY <2>1, <1>1, <1>3, BlockFields
<1> HIDE DEF d, cd
<1>5. b \in Blocks /\ b.timestamp = ts /\ b.cumulative_difficulty = cd + d
  BY <1>2, <1>4 DEF Blocks, Block
<1>6. Extended(chain, ts) = e
  BY DEF Extended, d, cd
<1> HIDE DEF b
<1>7. e \in Seq(Blocks) /\ Len(e) = n + 1 /\ e[n + 1] = b /\ \A i \in 1..n : e[i] = chain[i]
  BY <1>1, <1>5, AppendProperties
<1> HIDE DEF e, n
<1>8. Growing(e)
  <2> SUFFICES ASSUME NEW i \in 2..Len(e)
               PROVE  e[i - 1].cumulative_difficulty < e[i].cumulative_difficulty
    BY DEF Growing
  <2>1. CASE i = n + 1
    <3>1. i - 1 = n /\ n \in 1..n
      BY <2>1, <1>1
    <3>2. e[n] = chain[n] /\ e[i] = b
      BY <3>1, <2>1, <1>7
    <3>3. e[i - 1].cumulative_difficulty = cd
      BY <3>1, <3>2, <1>3 DEF cd
    <3> QED BY <3>2, <3>3, <1>2, <1>4, <1>5
  <2>2. CASE i # n + 1
    <3>1. i \in 2..n /\ i - 1 \in 1..n /\ i \in 1..n
      BY <2>2, <1>1, <1>7
    <3> QED BY <3>1, <1>1, <1>7 DEF Growing, n
  <2> QED BY <2>1, <2>2
<1>9. Chain(e)
  BY <1>1, <1>7, <1>8 DEF Chain
<1> QED BY <1>5, <1>6, <1>7, <1>9 DEF n
(* An alternative block is the one that extends the chain its branch makes.      *)
LEMMA AltExtends ==
  ASSUME NEW chain, Chain(chain), NEW h \in 1..Len(chain), NEW alt \in Seq(Blocks), NEW ts \in Nat,
         Growing(SubSeq(chain, 1, h) \o alt), get_next_difficulty_for_alternative_chain(chain, h, alt) # 0
  PROVE  /\ AltBlock(chain, h, alt, ts) \in Blocks
         /\ AltBlock(chain, h, alt, ts).timestamp = ts
         /\ SubSeq(chain, 1, h) \o Append(alt, AltBlock(chain, h, alt, ts))
              = Extended(SubSeq(chain, 1, h) \o alt, ts)
         /\ Growing(SubSeq(chain, 1, h) \o Append(alt, AltBlock(chain, h, alt, ts)))
<1> DEFINE b == SubSeq(chain, 1, h)
           u == b \o alt
           x == AltBlock(chain, h, alt, ts)
           e == Extended(u, ts)
           n == Len(alt)
           cd == (IF alt = <<>> THEN chain[h] ELSE Last(alt)).cumulative_difficulty
           d == get_difficulty_for_next_block(u)
<1>1. chain \in Seq(Blocks) /\ Len(chain) \in Nat /\ h \in 0..Len(chain) /\ h \in Nat /\ h >= 1 /\ n \in Nat
  BY DEF Chain
<1>2. b \in Seq(Blocks) /\ Len(b) = h /\ \A k \in 1..h : b[k] = chain[k]
  BY <1>1, FrontPart
<1>3. get_next_difficulty_for_alternative_chain(chain, h, alt) = d
  BY <1>1, SameBlocks
<1>4. x = Block(ts, cd + d)
  BY <1>3, Zenon DEF AltBlock
<1> HIDE DEF b, d, x
<1>5. /\ u \in Seq(Blocks) /\ Len(u) = h + n
      /\ \A k \in 1..h : u[k] = b[k]
      /\ \A k \in 1..n : u[h + k] = alt[k]
  <2>1. b \in Seq(Blocks)
    BY <1>2
  <2>2. /\ b \o alt \in Seq(Blocks) /\ Len(b \o alt) = Len(b) + Len(alt)
        /\ \A k \in 1..Len(b) : (b \o alt)[k] = b[k]
        /\ \A k \in 1..Len(alt) : (b \o alt)[Len(b) + k] = alt[k]
    BY <2>1, ConcatParts
  <2> QED BY <2>2, <1>2
<1>6. Growing(u)
  BY DEF b
<1> HIDE DEF u
<1>7. Chain(u)
  BY <1>1, <1>5, <1>6 DEF Chain
<1>8. Last(u).cumulative_difficulty = cd
  <2>1. Last(u) = u[h + n]
    BY <1>5 DEF Last
  <2>2. CASE alt = <<>>
    <3>1. n = 0 /\ h \in 1..h /\ h + n = h
      BY <2>2, <1>1
    <3>2. u[h + n] = chain[h]
      BY <3>1, <1>2, <1>5
    <3> QED BY <2>1, <2>2, <3>2
  <2>3. CASE alt # <<>>
    <3>1. n \in 1..n /\ Last(alt) = alt[n]
      BY <2>3, <1>1 DEF Last
    <3> QED BY <2>1, <2>3, <3>1, <1>5
  <2> QED BY <2>2, <2>3
<1>9. x \in Blocks /\ x.timestamp = ts
  <2>1. cd \in Nat
    <3>1. h + n \in 1..Len(u) /\ Last(u) = u[h + n]
      BY <1>1, <1>5 DEF Last
    <3> QED BY <3>1, <1>5, <1>8, BlockFields
  <2>2. d \in Nat
    BY <1>5, <1>6, <1>1, NextPositive DEF d
  <2> HIDE DEF cd
  <2> QED BY <2>1, <2>2, <1>4 DEF Block, Blocks
<1>10. e = Append(u, x)
  BY <1>4, <1>8 DEF Extended, d
<1>11. b \o Append(alt, x) = Append(u, x)
  <2>1. alt \in Seq(Blocks) /\ b \in Seq(Blocks) /\ <<x>> \in Seq(Blocks)
    BY <1>2, <1>9
  <2>2. Append(alt, x) = alt \o <<x>> /\ Append(u, x) = u \o <<x>>
    BY <1>5, <1>9, <2>1, AppendIsConcat
  <2>3. (b \o alt) \o <<x>> = b \o (alt \o <<x>>)
    BY <2>1, ConcatAssociative
  <2> QED BY <2>2, <2>3, Zenon DEF u
<1>12. Growing(e)
  <2>1. get_difficulty_for_next_block(u) # 0
    BY <1>3 DEF d
  <2> QED BY <2>1, <1>7, Extends DEF Chain
<1>13. b \o Append(alt, x) = e /\ Growing(b \o Append(alt, x))
  BY <1>10, <1>11, <1>12, Zenon
<1> QED BY <1>9, <1>13, Zenon DEF b, x, u
(* What is checked of a block depends on the blocks below it only.         *)
LEMMA SamePiece ==
  ASSUME NEW A, NEW s \in Seq(A), NEW t \in Seq(A), NEW n \in Nat, n <= Len(s), n <= Len(t),
         \A i \in 1..n : s[i] = t[i], NEW m \in 0..n, NEW f \in 1..(m + 1)
  PROVE  SubSeq(s, f, m) = SubSeq(t, f, m)
<1> DEFINE p == SubSeq(s, f, m)
           q == SubSeq(t, f, m)
<1>1. m \in 0..Len(s) /\ m \in 0..Len(t)
  OBVIOUS
<1>2. /\ p \in Seq(A) /\ Len(p) = m - f + 1 /\ \A k \in 1..(m - f + 1) : p[k] = s[f + k - 1]
      /\ q \in Seq(A) /\ Len(q) = m - f + 1 /\ \A k \in 1..(m - f + 1) : q[k] = t[f + k - 1]
  BY <1>1, MiddlePart
<1> HIDE DEF p, q
<1>3. \A k \in 1..(m - f + 1) : f + k - 1 \in 1..n
  OBVIOUS
<1>4. Len(p) = Len(q) /\ \A k \in 1..Len(p) : p[k] = q[k]
  BY <1>2, <1>3
<1>5. p = q
  BY <1>2, <1>4, SeqEqual
<1> QED BY <1>5 DEF p, q

LEMMA WindowFrom ==
  ASSUME NEW n \in Nat
  PROVE  AtLeastZero(n - TimestampWindow) + 1 \in 1..(n + 1)
BY Windows DEF AtLeastZero

(* A block the main chain accepts is checked like all before it.           *)
LEMMA ExtendsChecked ==
  ASSUME NEW chain, Chain(chain), TimesChecked(chain), NEW ts \in Nat,
         MainAccepts(chain, ts)
  PROVE  TimesChecked(Extended(chain, ts))
<1> DEFINE n == Len(chain)
           e == Extended(chain, ts)
           from(m) == AtLeastZero(m - TimestampWindow) + 1
<1>1. /\ e \in Seq(Blocks) /\ Len(e) = n + 1
      /\ e[n + 1].timestamp = ts /\ \A i \in 1..n : e[i] = chain[i]
  BY Extends DEF Chain, MainAccepts
<1>2. chain \in Seq(Blocks) /\ n \in Nat /\ n >= 1
  BY DEF Chain
<1>3. check_block_timestamp(Timestamps(SubSeq(chain, from(n), n)), ts)
  BY DEF MainAccepts, check_block_timestamp_main
<1>4. \A i \in 2..n : check_block_timestamp(Timestamps(SubSeq(chain, from(i - 1), i - 1)), chain[i].timestamp)
  BY DEF TimesChecked
<1>5. \A m \in Nat : from(m) \in 1..(m + 1)
  BY WindowFrom
<1> HIDE DEF e, from, n
<1>6. \A m \in 0..n : SubSeq(e, from(m), m) = SubSeq(chain, from(m), m)
  <2> TAKE m \in 0..n
  <2>1. n <= Len(e) /\ n <= Len(chain) /\ from(m) \in 1..(m + 1)
    BY <1>1, <1>2, <1>5 DEF n
  <2>2. e \in Seq(Blocks) /\ chain \in Seq(Blocks) /\ n \in Nat /\ \A i \in 1..n : e[i] = chain[i]
    BY <1>1, <1>2
  <2> QED BY <2>1, <2>2, SamePiece
<1>7. ASSUME NEW i \in 2..(n + 1)
      PROVE  check_block_timestamp(Timestamps(SubSeq(e, from(i - 1), i - 1)), e[i].timestamp)
  <2>1. i - 1 \in 0..n /\ SubSeq(e, from(i - 1), i - 1) = SubSeq(chain, from(i - 1), i - 1)
    <3>1. i - 1 \in 0..n
      BY <1>2
    <3> QED BY <3>1, <1>6, Zenon
  <2>2. CASE i = n + 1
    <3>1. i - 1 = n
      BY <2>2, <1>2
    <3> QED BY <2>1, <2>2, <3>1, <1>1, <1>3
  <2>3. CASE i # n + 1
    <3>1. i \in 2..n /\ i \in 1..n
      BY <2>3, <1>2
    <3> QED BY <3>1, <2>1, <1>1, <1>4
  <2> QED BY <2>2, <2>3
<1> QED BY <1>1, <1>7 DEF TimesChecked, e, from

(* The lower part of a chain is a chain.                                   *)
LEMMA LowerPart ==
  ASSUME NEW chain, Chain(chain), NEW h \in 1..Len(chain)
  PROVE  /\ Chain(SubSeq(chain, 1, h)) /\ Len(SubSeq(chain, 1, h)) = h
         /\ TimesChecked(chain) => TimesChecked(SubSeq(chain, 1, h))
<1> DEFINE b == SubSeq(chain, 1, h)
           from(m) == AtLeastZero(m - TimestampWindow) + 1
<1>1. chain \in Seq(Blocks) /\ h \in Nat /\ h >= 1 /\ Len(chain) \in Nat /\ h \in 0..Len(chain) /\ 1 \in 1..(h + 1) /\ Growing(chain)
  BY DEF Chain
<1>2. b \in Seq(Blocks) /\ Len(b) = h /\ \A k \in 1..h : b[k] = chain[k]
  BY <1>1, FrontPart
<1>3. Growing(b)
  BY <1>1, PieceGrows
<1>4. \A m \in Nat : from(m) \in 1..(m + 1)
  BY WindowFrom
<1> HIDE DEF b, from
<1>5. ASSUME TimesChecked(chain) PROVE TimesChecked(b)
  <2> SUFFICES ASSUME NEW i \in 2..h
               PROVE  check_block_timestamp(Timestamps(SubSeq(b, from(i - 1), i - 1)), b[i].timestamp)
    BY <1>2 DEF TimesChecked, from
  <2>1. check_block_timestamp(Timestamps(SubSeq(chain, from(i - 1), i - 1)), chain[i].timestamp)
    <3>1. i \in 2..Len(chain)
      BY <1>1
    <3> QED BY <1>5, <3>1 DEF TimesChecked, from
  <2>2. i \in 1..h /\ i - 1 \in 0..h /\ i - 1 \in Nat
    BY <1>1
  <2>3. SubSeq(b, from(i - 1), i - 1) = SubSeq(chain, from(i - 1), i - 1)
    <3>1. h <= Len(b) /\ h <= Len(chain) /\ from(i - 1) \in 1..((i - 1) + 1)
      <4>1. from(i - 1) \in 1..((i - 1) + 1)
        BY <1>4, <2>2, Zenon
      <4> QED BY <1>1, <1>2, <4>1
    <3> QED BY <3>1, <1>1, <1>2, <2>2, SamePiece
  <2> QED BY <2>1, <2>2, <2>3, <1>2
<1> QED BY <1>1, <1>2, <1>3, <1>5 DEF Chain, b

(* So does the work it is given.                                           *)
LEMMA ExtendsWork ==
  ASSUME NEW chain, Chain(chain), WorkChecked(chain), NEW ts \in Nat, MainAccepts(chain, ts)
  PROVE  WorkChecked(Extended(chain, ts))
<1> DEFINE n == Len(chain)
           d == get_difficulty_for_next_block(chain)
           b == Block(ts, Last(chain).cumulative_difficulty + d)
           e == Extended(chain, ts)
<1>1. d # 0
  BY DEF MainAccepts
<1>2. e \in Seq(Blocks) /\ Len(e) = n + 1 /\ (\A i \in 1..n : e[i] = chain[i]) /\ e[n + 1].timestamp = ts
  BY <1>1, Extends DEF Chain
<1>3. chain \in Seq(Blocks) /\ n \in Nat /\ n >= 1
  BY DEF Chain
<1>4. e[n + 1] = Block(ts, chain[n].cumulative_difficulty + d)
  <2>1. e = Append(chain, b) /\ Last(chain) = chain[n]
    BY DEF Extended, Last
  <2> HIDE DEF b
  <2>2. Append(chain, b)[n + 1] = b
    BY <1>3
  <2> QED BY <2>1, <2>2 DEF b
<1>5. \A m \in 1..n : SubSeq(e, 1, m) = SubSeq(chain, 1, m)
  <2> HIDE DEF e
  <2> TAKE m \in 1..n
  <2>1. n <= Len(e) /\ n <= Len(chain) /\ m \in 0..n /\ 1 \in 1..(m + 1)
    BY <1>2, <1>3
  <2> QED BY <2>1, <1>2, <1>3, SamePiece
<1>6. SubSeq(chain, 1, n) = chain
  BY <1>3, SubSeqFull
<1> HIDE DEF e, d, n
<1>7. ASSUME NEW i \in 2..(n + 1)
      PROVE  LET x == get_difficulty_for_next_block(SubSeq(e, 1, i - 1))
             IN  x # 0 /\ e[i] = Block(e[i].timestamp, e[i - 1].cumulative_difficulty + x)
  <2>1. i - 1 \in 1..n
    BY <1>3
  <2>2. SubSeq(e, 1, i - 1) = SubSeq(chain, 1, i - 1) /\ e[i - 1] = chain[i - 1]
    BY <2>1, <1>2, <1>5
  <2>3. CASE i = n + 1
    <3>1. i - 1 = n
      BY <2>3, <1>3
    <3>2. SubSeq(e, 1, i - 1) = chain /\ e[i - 1] = chain[n]
      BY <2>2, <3>1, <1>6
    <3> QED BY <3>2, <2>3, <1>1, <1>2, <1>4 DEF d
  <2>4. CASE i # n + 1
    <3>1. i \in 2..n /\ i \in 1..n
      BY <2>4, <1>3
    <3>2. LET x == get_difficulty_for_next_block(SubSeq(chain, 1, i - 1))
          IN  x # 0 /\ chain[i] = Block(chain[i].timestamp, chain[i - 1].cumulative_difficulty + x)
      BY <3>1 DEF WorkChecked, n
    <3>3. e[i] = chain[i]
      BY <3>1, <1>2
    <3> QED BY <2>2, <3>2, <3>3, Zenon
  <2> QED BY <2>3, <2>4
<1> QED BY <1>2, <1>7 DEF WorkChecked, e

LEMMA LowerWork ==
  ASSUME NEW chain, Chain(chain), WorkChecked(chain), NEW h \in 1..Len(chain)
  PROVE  WorkChecked(SubSeq(chain, 1, h))
<1> DEFINE b == SubSeq(chain, 1, h)
<1>1. chain \in Seq(Blocks) /\ h \in Nat /\ h >= 1 /\ Len(chain) \in Nat /\ h \in 0..Len(chain)
  BY DEF Chain
<1>2. b \in Seq(Blocks) /\ Len(b) = h /\ \A k \in 1..h : b[k] = chain[k]
  BY <1>1, FrontPart
<1> HIDE DEF b
<1>3. ASSUME NEW i \in 2..h
      PROVE  LET x == get_difficulty_for_next_block(SubSeq(b, 1, i - 1))
             IN  x # 0 /\ b[i] = Block(b[i].timestamp, b[i - 1].cumulative_difficulty + x)
  <2>1. i - 1 \in 1..h /\ i \in 1..h /\ i - 1 \in 0..h /\ 1 \in 1..((i - 1) + 1) /\ i \in 2..Len(chain)
    BY <1>1
  <2>2. SubSeq(b, 1, i - 1) = SubSeq(chain, 1, i - 1)
    <3>1. h <= Len(b) /\ h <= Len(chain)
      BY <1>1, <1>2
    <3> QED BY <3>1, <2>1, <1>1, <1>2, SamePiece
  <2>3. b[i] = chain[i] /\ b[i - 1] = chain[i - 1]
    BY <2>1, <1>2
  <2>4. LET x == get_difficulty_for_next_block(SubSeq(chain, 1, i - 1))
        IN  x # 0 /\ chain[i] = Block(chain[i].timestamp, chain[i - 1].cumulative_difficulty + x)
    BY <2>1 DEF WorkChecked
  <2> QED BY <2>2, <2>3, <2>4, Zenon
<1> QED BY <1>2, <1>3 DEF WorkChecked, b

(***************************************************************************)
(* What a switch connects is a chain whose blocks have been checked.       *)
(***************************************************************************)
LEMMA ConnectedChain ==
  ASSUME NEW base, Chain(base), TimesChecked(base), WorkChecked(base), NEW alt \in Seq(Blocks)
  PROVE  LET c == Connected(base, alt)
         IN  /\ Chain(c.chain) /\ TimesChecked(c.chain) /\ WorkChecked(c.chain) /\ c.ok \in BOOLEAN
             /\ Len(c.chain) \in Len(base)..(Len(base) + Len(alt))
<1> DEFINE L == Len(alt)
           h == Len(base)
           Chains == {c \in Seq(Blocks) : Chain(c) /\ TimesChecked(c) /\ WorkChecked(c) /\ h <= Len(c)}
           V == [chain : Chains, ok : BOOLEAN]
           first == [chain |-> base, ok |-> TRUE]
           step == [p \in (1..L) \X V |-> Connect(p[2], alt[p[1]].timestamp)]
           Unfolds(f) == f = [n \in 0..L |-> IF n = 0 THEN first ELSE Connect(f[n - 1], alt[n].timestamp)]
<1>1. \A n \in 1..L : alt[n].timestamp \in Nat
  BY BlockFields
<1>2. L \in Nat /\ h \in Nat
  BY DEF Chain
<1>3. first \in V
  <2>1. base \in Chains
    BY <1>2 DEF Chain
  <2> HIDE DEF Chains
  <2> QED BY <2>1
<1>a. ASSUME NEW c \in V, NEW ts \in Nat
      PROVE  /\ Connect(c, ts) \in V
             /\ Len(Connect(c, ts).chain) \in {Len(c.chain), Len(c.chain) + 1}
  <2>1. c.chain \in Chains /\ c.ok \in BOOLEAN
    <3> HIDE DEF Chains
    <3> QED OBVIOUS
  <2>2. Chain(c.chain) /\ TimesChecked(c.chain) /\ WorkChecked(c.chain) /\ h <= Len(c.chain) /\ c.chain \in Seq(Blocks)
    BY <2>1
  <2>3. CASE c.ok /\ MainAccepts(c.chain, ts)
    <3> DEFINE e == Extended(c.chain, ts)
    <3>1. Chain(e) /\ Len(e) = Len(c.chain) + 1 /\ TimesChecked(e) /\ WorkChecked(e)
      <4>1. get_difficulty_for_next_block(c.chain) # 0
        BY <2>3 DEF MainAccepts
      <4> QED BY <2>2, <2>3, <4>1, Extends, ExtendsChecked, ExtendsWork
    <3>2. Connect(c, ts) = [chain |-> e, ok |-> TRUE]
      BY <2>3 DEF Connect
    <3> HIDE DEF e
    <3>3. e \in Chains
      BY <3>1, <2>2, <1>2 DEF Chain
    <3> HIDE DEF Chains
    <3> QED BY <3>1, <3>2, <3>3
  <2>4. CASE ~(c.ok /\ MainAccepts(c.chain, ts))
    <3>1. Connect(c, ts) = [chain |-> c.chain, ok |-> FALSE]
      BY <2>4 DEF Connect
    <3> HIDE DEF Chains
    <3> QED BY <3>1, <2>1
  <2> QED BY <2>3, <2>4
<1> HIDE DEF V
<1>4. \A n \in 1..L : \A v \in V : step[<<n, v>>] = Connect(v, alt[n].timestamp)
  OBVIOUS
<1>5. IsStep(step, L, V)
  <2> HIDE DEF step
  <2> QED BY <1>1, <1>a, <1>4 DEF IsStep
<1> HIDE DEF step
<1>6. PICK f : Iterates(f, L, V, first, step)
  BY <1>2, <1>3, <1>5, RecursionExists
<1>7. Unfolds(f)
  <2>1. f = [n \in 0..L |-> f[n]] /\ f[0] = first
    BY <1>6 DEF Iterates
  <2>2. \A n \in 0..L : n # 0 => n \in 1..L /\ n - 1 \in 0..L
    BY <1>2
  <2>3. \A n \in 0..L : n # 0 => f[n] = Connect(f[n - 1], alt[n].timestamp)
    BY <2>2, <1>4, <1>6 DEF Iterates
  <2>4. \A n \in 0..L : f[n] = IF n = 0 THEN first ELSE Connect(f[n - 1], alt[n].timestamp)
    BY <2>1, <2>3, Zenon
  <2> QED BY <2>1, <2>4, Zenon
<1>8. PICK g : Unfolds(g) /\ Connected(base, alt) = g[L]
  BY <1>7, Zenon DEF Connected
<1>9. g[0] = first /\ \A n \in 1..L : g[n] = Connect(g[n - 1], alt[n].timestamp)
  <2>1. \A n \in 0..L : g[n] = IF n = 0 THEN first ELSE Connect(g[n - 1], alt[n].timestamp)
    BY <1>8
  <2>2. 0 \in 0..L /\ \A n \in 1..L : n \in 0..L /\ n # 0
    BY <1>2
  <2> QED BY <2>1, <2>2
<1> HIDE DEF L, h, Unfolds
<1> DEFINE S == {n \in 0..L : g[n] \in V /\ Len(g[n].chain) <= h + n}
<1>10. \A c \in V : Chain(c.chain) /\ TimesChecked(c.chain) /\ WorkChecked(c.chain) /\ c.ok \in BOOLEAN /\ h <= Len(c.chain) /\ Len(c.chain) \in Nat
  <2> TAKE c \in V
  <2>1. c.chain \in Chains /\ c.ok \in BOOLEAN
    <3> HIDE DEF Chains
    <3> QED BY DEF V
  <2> QED BY <2>1
<1>11. 0 \in S
  <2>1. g[0] = first /\ first.chain = base /\ Len(base) <= h + 0 /\ 0 \in 0..L
    BY <1>2, <1>9 DEF h
  <2> HIDE DEF first
  <2> QED BY <1>3, <2>1
<1>12. ASSUME NEW n \in 1..L, n - 1 \in S PROVE n \in S
  <2> DEFINE c == g[n - 1]
             e == Connect(c, alt[n].timestamp)
  <2>1. c \in V /\ Len(c.chain) <= h + (n - 1) /\ n - 1 \in 0..L
    BY <1>12
  <2>2. g[n] = e /\ alt[n].timestamp \in Nat
    BY <1>1, <1>9
  <2> HIDE DEF c
  <2>3. e \in V /\ Len(e.chain) \in {Len(c.chain), Len(c.chain) + 1}
    BY <2>1, <2>2, <1>a
  <2>4. Len(c.chain) \in Nat
    BY <2>1, <1>10
  <2> HIDE DEF e
  <2>5. Len(e.chain) <= h + n
    BY <1>2, <2>1, <2>3, <2>4
  <2>6. n \in 0..L
    BY <1>2
  <2> QED BY <2>2, <2>3, <2>5, <2>6
<1>13. \A n \in 0..L : n \in S
  <2> HIDE DEF S
  <2> QED BY <1>2, <1>11, <1>12, UpTo
<1>14. L \in S
  <2> HIDE DEF S
  <2> QED BY <1>2, <1>13
<1>15. g[L] \in V /\ Len(g[L].chain) <= h + L
  BY <1>14
<1> DEFINE c == g[L]
<1>16. Connected(base, alt) = c
  BY <1>8
<1> HIDE DEF c
<1>17. Chain(c.chain) /\ TimesChecked(c.chain) /\ WorkChecked(c.chain) /\ c.ok \in BOOLEAN /\ Len(c.chain) \in h..(h + L)
  BY <1>2, <1>10, <1>15 DEF c
<1> QED BY <1>16, <1>17 DEF L, h

LEMMA NoBranchGrows ==
  ASSUME NEW chain, Chain(chain), NEW h \in 1..Len(chain)
  PROVE  <<>> \in Seq(Blocks) /\ Growing(SubSeq(chain, 1, h) \o <<>>)
<1> DEFINE b == SubSeq(chain, 1, h)
<1>1. b \in Seq(Blocks) /\ Growing(b)
  BY LowerPart DEF Chain
<1> HIDE DEF b
<1>2. b \o <<>> = b /\ <<>> \in Seq(Blocks)
  BY <1>1, ConcatEmptySeq
<1>3. Growing(b \o <<>>)
  BY <1>1, <1>2, Zenon
<1> QED BY <1>2, <1>3, Zenon DEF b

(***************************************************************************)
(* The blocks a switch pushes as alternative ones make a growing branch.   *)
(***************************************************************************)
LEMMA PushedUnfolds ==
  ASSUME NEW chain, Chain(chain), NEW h \in 1..Len(chain), NEW blocks \in Seq(Blocks)
  PROVE  \E g : /\ AsAlternative(chain, h, blocks) = g[Len(blocks)]
                /\ g[0] = [alt |-> <<>>, ok |-> TRUE]
                /\ \A n \in 1..Len(blocks) : g[n] = Push(chain, h, g[n - 1], blocks[n].timestamp)
                /\ \A n \in 0..Len(blocks) :
                     /\ g[n].ok \in BOOLEAN /\ g[n].alt \in Seq(Blocks)
                     /\ Growing(SubSeq(chain, 1, h) \o g[n].alt)
<1> DEFINE L == Len(blocks)
           Alts == {a \in Seq(Blocks) : Growing(SubSeq(chain, 1, h) \o a)}
           V == [alt : Alts, ok : BOOLEAN]
           first == [alt |-> <<>>, ok |-> TRUE]
           step == [p \in (1..L) \X V |-> Push(chain, h, p[2], blocks[p[1]].timestamp)]
           Unfolds(f) == f = [n \in 0..L |-> IF n = 0 THEN first ELSE Push(chain, h, f[n - 1], blocks[n].timestamp)]
<1>1. \A n \in 1..L : blocks[n].timestamp \in Nat
  BY BlockFields
<1>2. L \in Nat
  OBVIOUS
<1>3. first \in V
  <2>1. <<>> \in Alts
    BY NoBranchGrows
  <2> HIDE DEF Alts
  <2> QED BY <2>1
<1>a. ASSUME NEW p \in V, NEW ts \in Nat
      PROVE  Push(chain, h, p, ts) \in V
  <2> DEFINE x == AltBlock(chain, h, p.alt, ts)
             a == Append(p.alt, x)
  <2>0. p.alt \in Alts /\ p.ok \in BOOLEAN
    <3> HIDE DEF Alts
    <3> QED OBVIOUS
  <2>1. p.alt \in Seq(Blocks) /\ Growing(SubSeq(chain, 1, h) \o p.alt)
    BY <2>0
  <2>2. CASE p.ok /\ AltAccepts(chain, h, p.alt, ts)
    <3>0. get_next_difficulty_for_alternative_chain(chain, h, p.alt) # 0
      BY <2>2 DEF AltAccepts
    <3>1. x \in Blocks /\ Growing(SubSeq(chain, 1, h) \o Append(p.alt, x))
      <4> DEFINE pa == p.alt
      <4>1. pa \in Seq(Blocks) /\ Growing(SubSeq(chain, 1, h) \o pa) /\ get_next_difficulty_for_alternative_chain(chain, h, pa) # 0
        BY <2>1, <3>0
      <4> HIDE DEF pa
      <4>2. AltBlock(chain, h, pa, ts) \in Blocks /\ Growing(SubSeq(chain, 1, h) \o Append(pa, AltBlock(chain, h, pa, ts)))
        BY <4>1, AltExtends
      <4> QED BY <4>2 DEF pa
    <3>2. Push(chain, h, p, ts) = [alt |-> a, ok |-> TRUE]
      BY <2>2 DEF Push
    <3> HIDE DEF x
    <3>3. a \in Seq(Blocks)
      BY <2>1, <3>1
    <3>4. a \in Alts
      BY <3>1, <3>3
    <3> HIDE DEF a, Alts
    <3> QED BY <3>2, <3>4
  <2>3. CASE ~(p.ok /\ AltAccepts(chain, h, p.alt, ts))
    <3>1. Push(chain, h, p, ts) = [alt |-> p.alt, ok |-> FALSE]
      BY <2>3 DEF Push
    <3> HIDE DEF Alts
    <3> QED BY <3>1, <2>0
  <2> QED BY <2>2, <2>3
<1> HIDE DEF V
<1>4. \A n \in 1..L : \A v \in V : step[<<n, v>>] = Push(chain, h, v, blocks[n].timestamp)
  OBVIOUS
<1>5. IsStep(step, L, V)
  <2> HIDE DEF step
  <2> QED BY <1>1, <1>a, <1>4 DEF IsStep
<1> HIDE DEF step
<1>6. PICK f : Iterates(f, L, V, first, step)
  BY <1>2, <1>3, <1>5, RecursionExists
<1>7. Unfolds(f)
  <2>1. f = [n \in 0..L |-> f[n]] /\ f[0] = first
    BY <1>6 DEF Iterates
  <2>2. \A n \in 0..L : n # 0 => n \in 1..L /\ n - 1 \in 0..L
    BY <1>2
  <2>3. \A n \in 0..L : n # 0 => f[n] = Push(chain, h, f[n - 1], blocks[n].timestamp)
    BY <2>2, <1>4, <1>6 DEF Iterates
  <2>4. \A n \in 0..L : f[n] = IF n = 0 THEN first ELSE Push(chain, h, f[n - 1], blocks[n].timestamp)
    BY <2>1, <2>3, Zenon
  <2> QED BY <2>1, <2>4, Zenon
<1>8. PICK g : Unfolds(g) /\ AsAlternative(chain, h, blocks) = g[L]
  BY <1>7, Zenon DEF AsAlternative
<1>9. g[0] = first /\ \A n \in 1..L : g[n] = Push(chain, h, g[n - 1], blocks[n].timestamp)
  <2>1. \A n \in 0..L : g[n] = IF n = 0 THEN first ELSE Push(chain, h, g[n - 1], blocks[n].timestamp)
    BY <1>8
  <2>2. 0 \in 0..L /\ \A n \in 1..L : n \in 0..L /\ n # 0
    BY <1>2
  <2> QED BY <2>1, <2>2
<1> DEFINE S == {n \in 0..L : g[n] \in V}
<1> HIDE DEF L, Unfolds, first
<1>10. 0 \in S
  BY <1>2, <1>3, <1>9
<1>11. ASSUME NEW n \in 1..L, n - 1 \in S PROVE n \in S
  <2>1. g[n - 1] \in V /\ blocks[n].timestamp \in Nat /\ n \in 0..L
    BY <1>11, <1>1, <1>2
  <2>2. Push(chain, h, g[n - 1], blocks[n].timestamp) \in V
    BY <2>1, <1>a, Zenon
  <2>3. g[n] \in V
    BY <2>2, <1>9
  <2> QED BY <2>1, <2>3
<1>12. \A n \in 0..L : n \in S
  <2> HIDE DEF S
  <2> QED BY <1>2, <1>10, <1>11, UpTo
<1>13. \A n \in 0..L : g[n].ok \in BOOLEAN /\ g[n].alt \in Seq(Blocks) /\ Growing(SubSeq(chain, 1, h) \o g[n].alt)
  <2> TAKE n \in 0..L
  <2>1. g[n] \in V
    BY <1>12
  <2>2. g[n].alt \in Alts /\ g[n].ok \in BOOLEAN
    <3> HIDE DEF Alts
    <3> QED BY <2>1 DEF V
  <2> QED BY <2>2
<1> QED BY <1>8, <1>9, <1>13 DEF L, first

LEMMA AlternativeBranch ==
  ASSUME NEW chain, Chain(chain), NEW h \in 1..Len(chain), NEW blocks \in Seq(Blocks)
  PROVE  /\ AsAlternative(chain, h, blocks).alt \in Seq(Blocks)
         /\ Growing(SubSeq(chain, 1, h) \o AsAlternative(chain, h, blocks).alt)
<1>1. Len(blocks) \in 0..Len(blocks)
  OBVIOUS
<1>2. PICK g : /\ AsAlternative(chain, h, blocks) = g[Len(blocks)]
               /\ g[0] = [alt |-> <<>>, ok |-> TRUE]
               /\ \A n \in 1..Len(blocks) : g[n] = Push(chain, h, g[n - 1], blocks[n].timestamp)
               /\ \A n \in 0..Len(blocks) :
                    /\ g[n].ok \in BOOLEAN /\ g[n].alt \in Seq(Blocks)
                    /\ Growing(SubSeq(chain, 1, h) \o g[n].alt)
  BY PushedUnfolds
<1> DEFINE r == g[Len(blocks)]
<1>3. r.alt \in Seq(Blocks) /\ Growing(SubSeq(chain, 1, h) \o r.alt)
  BY <1>1, <1>2
<1>4. AsAlternative(chain, h, blocks) = r
  BY <1>2
<1> HIDE DEF r
<1> QED BY <1>3, <1>4, Zenon
-----------------------------------------------------------------------------
LEMMA TimestampsOfBoth ==
  ASSUME NEW s \in Seq(Blocks), NEW t \in Seq(Blocks)
  PROVE  Timestamps(s \o t) = Timestamps(s) \o Timestamps(t)
<1> DEFINE m == Len(s)
           n == Len(t)
           u == s \o t
           x == Timestamps(s)
           y == Timestamps(t)
           l == Timestamps(u)
           r == x \o y
<1>1. /\ u \in Seq(Blocks) /\ Len(u) = m + n
      /\ \A k \in 1..m : u[k] = s[k]
      /\ \A k \in 1..n : u[m + k] = t[k]
  BY ConcatParts
<1>2. m \in Nat /\ n \in Nat
  OBVIOUS
<1>3. /\ x \in Seq(Nat) /\ Len(x) = m /\ \A i \in 1..m : x[i] = s[i].timestamp
      /\ y \in Seq(Nat) /\ Len(y) = n /\ \A i \in 1..n : y[i] = t[i].timestamp
  BY TimestampsType
<1> HIDE DEF u, x, y
<1>4. l \in Seq(Nat) /\ Len(l) = Len(u) /\ \A i \in 1..Len(u) : l[i] = u[i].timestamp
  BY <1>1, TimestampsType
<1>5. /\ r \in Seq(Nat) /\ Len(r) = Len(x) + Len(y)
      /\ \A k \in 1..Len(x) : r[k] = x[k]
      /\ \A k \in 1..Len(y) : r[Len(x) + k] = y[k]
  <2>1. x \in Seq(Nat) /\ y \in Seq(Nat)
    BY <1>3
  <2> QED BY <2>1, ConcatParts
<1> HIDE DEF l, r, m, n
<1>6. ASSUME NEW k \in 1..(m + n) PROVE l[k] = r[k]
  <2>1. l[k] = u[k].timestamp
    BY <1>1, <1>4
  <2>2. CASE k <= m
    <3>1. k \in 1..m
      BY <2>2, <1>2
    <3> QED BY <2>1, <3>1, <1>1, <1>3, <1>5
  <2>3. CASE ~(k <= m)
    <3> DEFINE j == k - m
    <3>1. j \in 1..n /\ m + j = k
      BY <2>3, <1>2
    <3> HIDE DEF j
    <3>2. u[m + j] = t[j] /\ r[m + j] = y[j] /\ y[j] = t[j].timestamp
      BY <3>1, <1>1, <1>3, <1>5
    <3> QED BY <2>1, <3>1, <3>2
  <2> QED BY <2>2, <2>3
<1>7. Len(l) = Len(r) /\ \A k \in 1..Len(l) : l[k] = r[k]
  BY <1>1, <1>3, <1>4, <1>5, <1>6
<1>8. l = r
  BY <1>4, <1>5, <1>7, SeqEqual
<1> QED BY <1>8 DEF l, r, u, x, y

(* A timestamp passes whether the branch's blocks come first or the main chain's. *)
LEMMA CheckTurned ==
  ASSUME NEW s \in Seq(Blocks), NEW t \in Seq(Blocks), NEW ts,
         check_block_timestamp(Timestamps(s \o t), ts)
  PROVE  check_block_timestamp(Timestamps(t) \o Timestamps(s), ts)
<1> DEFINE x == Timestamps(s)
           y == Timestamps(t)
<1>1. x \in Seq(Nat) /\ y \in Seq(Nat)
  BY TimestampsType
<1>2. check_block_timestamp(x \o y, ts)
  BY TimestampsOfBoth
<1> HIDE DEF x, y
<1>3. sorted(x \o y) = sorted(y \o x)
  BY <1>1, SortedTurned
<1>4. Len(x \o y) = Len(y \o x)
  BY <1>1
<1>5. median(x \o y) = median(y \o x)
  BY <1>3, Zenon DEF median
<1>6. check_block_timestamp(y \o x, ts)
  BY <1>2, <1>4, <1>5, Zenon DEF check_block_timestamp
<1> QED BY <1>6 DEF x, y

(***************************************************************************)
(* A block of the main chain passes as an alternative one, n blocks above  *)
(* the height h at which the branch leaves.                                *)
(***************************************************************************)
LEMMA BlockReturns ==
  ASSUME NEW chain, Chain(chain), TimesChecked(chain),
         NEW h \in Nat, h >= 1, NEW n \in Nat, n <= TimestampWindow, h + n + 1 <= Len(chain)
  PROVE  check_block_timestamp(AltTimestamps(chain, h, SubSeq(chain, h + 1, h + n)), chain[h + n + 1].timestamp)
<1> DEFINE T == TimestampWindow
           alt == SubSeq(chain, h + 1, h + n)
           ts == chain[h + n + 1].timestamp
           from == AtLeastZero((h + n) - T) + 1
           need == T - n
<1>0. T \in Nat /\ T >= 1
  BY Windows
<1>1. chain \in Seq(Blocks) /\ Len(chain) \in Nat
  BY DEF Chain
<1>2. alt \in Seq(Blocks) /\ Len(alt) = n
  <2>1. h + n \in 0..Len(chain) /\ h + 1 \in 1..((h + n) + 1) /\ (h + n) - (h + 1) + 1 = n
    BY <1>1
  <2> QED BY <1>1, <2>1, MiddlePart
<1>3. check_block_timestamp(Timestamps(SubSeq(chain, from, h + n)), ts)
  <2>1. h + n + 1 \in 2..Len(chain) /\ (h + n + 1) - 1 = h + n
    BY <1>1
  <2> DEFINE i == h + n + 1
  <2>2. check_block_timestamp(Timestamps(SubSeq(chain, AtLeastZero(i - 1 - T) + 1, i - 1)), chain[i].timestamp)
    <3> HIDE DEF i
    <3>1. i \in 2..Len(chain)
      BY <2>1 DEF i
    <3> QED BY <3>1 DEF TimesChecked
  <2>3. i - 1 = h + n /\ i - 1 - T = (h + n) - T
    BY <1>0
  <2> QED BY <2>2, <2>3
<1>4. CASE n = T
  <2>1. AltTimestamps(chain, h, alt) = Timestamps(alt)
    <3> HIDE DEF alt
    <3>1. Len(alt) >= TimestampWindow
      BY <1>0, <1>2, <1>4
    <3> QED BY <3>1, Zenon DEF AltTimestamps
  <2>2. from = h + 1
    BY <1>0, <1>4 DEF AtLeastZero
  <2> QED BY <2>1, <2>2, <1>3
<1>5. CASE n # T
  <2> DEFINE under(f) == SubSeq(chain, f, h)
  <2>1. n < T /\ need \in Nat /\ need >= 1 /\ (h - 1) \in Nat
    BY <1>0, <1>5
  <2>2. AltTimestamps(chain, h, alt) = Timestamps(alt) \o Completed(chain, h - 1, need)
    <3> HIDE DEF alt
    <3>1. ~(Len(alt) >= TimestampWindow) /\ TimestampWindow - Len(alt) = need
      BY <2>1, <1>0, <1>2
    <3> HIDE DEF need
    <3> QED BY <3>1, Zenon DEF AltTimestamps
  <2>3. ASSUME NEW f \in 1..(h + 1), from = f
        PROVE  check_block_timestamp(Timestamps(alt) \o Timestamps(under(f)), ts)
    <3>1. under(f) \in Seq(Blocks)
      <4>1. h \in 0..Len(chain)
        BY <1>1
      <4> QED BY <1>1, <4>1, MiddlePart
    <3>2. under(f) \o alt = SubSeq(chain, f, h + n)
      <4>1. f \in 1..((h + n) + 1) /\ h \in (f - 1)..(h + n) /\ f \in Int /\ h + n \in Int /\ \A i \in f..(h + n) : i \in 1..Len(chain)
        BY <1>1
      <4>2. f <= h + 1 /\ h <= h + n /\ f \in 1..(Len(chain) + 1) /\ h \in (f - 1)..Len(chain) /\ h + n \in h..Len(chain)
        BY <1>1
      <4> QED BY <1>1, <4>1, <4>2, ConcatAdjacentSubSeq
    <3> HIDE DEF alt, under
    <3>3. check_block_timestamp(Timestamps(under(f) \o alt), ts)
      BY <1>3, <2>3, <3>2
    <3> QED BY <1>2, <3>1, <3>3, CheckTurned
  <2>4. ASSUME NEW s \in Seq(Blocks), Len(s) + n < T
        PROVE  check_block_timestamp(Timestamps(alt) \o Timestamps(s), ts)
    <3> HIDE DEF alt
    <3> DEFINE x == Timestamps(alt)
               y == Timestamps(s)
    <3>1. x \in Seq(Nat) /\ Len(x) = n /\ y \in Seq(Nat) /\ Len(y) = Len(s)
      BY <1>2, TimestampsType
    <3> HIDE DEF x, y
    <3>2. Len(x \o y) = n + Len(s)
      <4>1. x \in Seq(Nat) /\ y \in Seq(Nat)
        BY <3>1
      <4>2. Len(x \o y) = Len(x) + Len(y)
        BY <4>1, ConcatParts
      <4> QED BY <4>2, <3>1
    <3>3. Len(x \o y) < TimestampWindow
      BY <3>2, <2>4
    <3>4. check_block_timestamp(x \o y, ts)
      BY <3>3, Zenon DEF check_block_timestamp
    <3> QED BY <3>4 DEF x, y
  <2>5. CASE h = 1
    <3>1. Completed(chain, h - 1, need) = Timestamps(under(1))
      BY <2>5 DEF Completed
    <3>2. under(1) \in Seq(Blocks) /\ Len(under(1)) = 1
      <4>1. 1 \in 0..Len(chain)
        BY <1>1
      <4> QED BY <1>1, <2>5, <4>1, FrontPart
    <3>3. CASE n + 1 = T
      <4>1. from = 1 /\ 1 \in 1..(h + 1)
        BY <3>3, <2>5 DEF AtLeastZero
      <4> HIDE DEF alt, under, from
      <4>2. check_block_timestamp(Timestamps(alt) \o Timestamps(under(1)), ts)
        BY <4>1, <2>3
      <4> QED BY <4>2, <2>2, <3>1, Zenon DEF alt
    <3>4. CASE n + 1 # T
      <4>1. Len(under(1)) + n < T
        BY <3>2, <3>4, <2>1, <1>0
      <4> HIDE DEF alt, under
      <4>2. check_block_timestamp(Timestamps(alt) \o Timestamps(under(1)), ts)
        BY <4>1, <3>2, <2>4
      <4> QED BY <4>2, <2>2, <3>1, Zenon DEF alt
    <3> QED BY <3>3, <3>4
  <2>6. CASE h # 1
    <3> DEFINE f == AtLeastZero((h - 1) - need) + 2
    <3>1. Completed(chain, h - 1, need) = Timestamps(under(f))
      <4>1. h - 1 # 0 /\ (h - 1) + 1 = h
        BY <2>6
      <4> QED BY <4>1 DEF Completed
    <3>2. f \in 1..(h + 1)
      BY <2>1, <2>6 DEF AtLeastZero
    <3>3. under(f) \in Seq(Blocks) /\ Len(under(f)) = h - f + 1
      <4>1. h \in 0..Len(chain)
        BY <1>1
      <4> HIDE DEF f
      <4> QED BY <1>1, <3>2, <4>1, MiddlePart
    <3>4. CASE h - 1 >= need
      <4>1. from = f
        BY <3>4, <2>1, <1>0 DEF AtLeastZero
      <4> HIDE DEF alt, under, from, f
      <4>2. check_block_timestamp(Timestamps(alt) \o Timestamps(under(f)), ts)
        BY <4>1, <3>2, <2>3
      <4> QED BY <4>2, <2>2, <3>1, Zenon DEF alt
    <3>5. CASE ~(h - 1 >= need)
      <4>1. Len(under(f)) + n < T
        <5>1. f = 2
          BY <3>5, <2>1 DEF AtLeastZero
        <5> HIDE DEF under
        <5> QED BY <5>1, <3>3, <3>5, <2>1, <1>0
      <4> HIDE DEF alt, under, f
      <4>2. check_block_timestamp(Timestamps(alt) \o Timestamps(under(f)), ts)
        BY <4>1, <3>3, <2>4
      <4> QED BY <4>2, <2>2, <3>1, Zenon DEF alt
    <3> QED BY <3>4, <3>5
  <2> QED BY <2>5, <2>6
<1> QED BY <1>4, <1>5
(* A branch cut off at some block still grows.                             *)
LEMMA CutBranchGrows ==
  ASSUME NEW s \in Seq(Blocks), NEW t \in Seq(Blocks), Growing(s \o t), NEW k \in 0..Len(t)
  PROVE  SubSeq(t, 1, k) \in Seq(Blocks) /\ Growing(s \o SubSeq(t, 1, k))
<1> DEFINE p == SubSeq(t, 1, k)
           u == s \o t
           w == s \o p
<1>1. p \in Seq(Blocks) /\ Len(p) = k /\ \A i \in 1..k : p[i] = t[i]
  BY FrontPart
<1> HIDE DEF p
<1>2. /\ u \in Seq(Blocks) /\ Len(u) = Len(s) + Len(t)
      /\ \A i \in 1..Len(s) : u[i] = s[i]
      /\ \A i \in 1..Len(t) : u[Len(s) + i] = t[i]
  BY ConcatParts
<1>3. /\ w \in Seq(Blocks) /\ Len(w) = Len(s) + Len(p)
      /\ \A i \in 1..Len(s) : w[i] = s[i]
      /\ \A i \in 1..Len(p) : w[Len(s) + i] = p[i]
  <2>1. p \in Seq(Blocks)
    BY <1>1
  <2> QED BY <2>1, ConcatParts
<1>4. Growing(u) /\ Len(s) \in Nat /\ Len(t) \in Nat
  OBVIOUS
<1> HIDE DEF u, w
<1>5. ASSUME NEW i \in 1..Len(w) PROVE w[i] = u[i]
  <2>1. CASE i <= Len(s)
    <3>1. i \in 1..Len(s)
      BY <2>1, <1>4
    <3> QED BY <3>1, <1>2, <1>3
  <2>2. CASE ~(i <= Len(s))
    <3> DEFINE j == i - Len(s)
    <3>1. j \in 1..k /\ j \in 1..Len(t) /\ Len(s) + j = i
      BY <2>2, <1>1, <1>3, <1>4
    <3> HIDE DEF j
    <3>2. w[Len(s) + j] = p[j] /\ u[Len(s) + j] = t[j] /\ p[j] = t[j]
      BY <3>1, <1>1, <1>2, <1>3
    <3> QED BY <3>1, <3>2
  <2> QED BY <2>1, <2>2
<1>6. Len(w) <= Len(u) /\ Len(w) \in Nat /\ Len(u) \in Nat
  BY <1>1, <1>2, <1>3, <1>4
<1>7. Growing(w)
  <2> SUFFICES ASSUME NEW i \in 2..Len(w)
               PROVE  w[i - 1].cumulative_difficulty < w[i].cumulative_difficulty
    BY DEF Growing
  <2>1. i \in 1..Len(w) /\ i - 1 \in 1..Len(w) /\ i \in 2..Len(u)
    BY <1>6
  <2>2. w[i] = u[i] /\ w[i - 1] = u[i - 1]
    BY <2>1, <1>5
  <2> QED BY <2>1, <2>2, <1>4 DEF Growing
<1> QED BY <1>1, <1>7 DEF w, p
-----------------------------------------------------------------------------
(***************************************************************************)
(* The inductive invariant: work grows along the chain and along the chain *)
(* the branch makes, and every block of the main chain has passed the      *)
(* check of its timestamp over the blocks that are below it now.           *)
(***************************************************************************)
RulesInv ==
  /\ now \in Nat
  /\ Chain(m_db_blocks) /\ TimesChecked(m_db_blocks) /\ WorkChecked(m_db_blocks)
  /\ split \in 1..Len(m_db_blocks)
  /\ alt_chain \in Seq(Blocks)
  /\ Growing(SubSeq(m_db_blocks, 1, split) \o alt_chain)

LEMMA RulesInit == Init => RulesInv
<1> SUFFICES ASSUME Init PROVE RulesInv
  OBVIOUS
<1> DEFINE g == <<Block(0, 1)>>
<1>1. m_db_blocks = g /\ split = 1 /\ alt_chain = <<>> /\ now = 0
  BY DEF Init
<1>2. g \in Seq(Blocks) /\ Len(g) = 1
  <2>1. Block(0, 1) \in Blocks
    BY DEF Block, Blocks
  <2> QED BY <2>1
<1> HIDE DEF g
<1>3. Growing(g) /\ TimesChecked(g) /\ WorkChecked(g)
  BY <1>2 DEF Growing, TimesChecked, WorkChecked
<1>4. Chain(g) /\ 1 \in 1..Len(g)
  BY <1>2, <1>3 DEF Chain
<1>5. <<>> \in Seq(Blocks) /\ Growing(SubSeq(g, 1, 1) \o <<>>)
  BY <1>4, NoBranchGrows
<1> QED BY <1>1, <1>3, <1>4, <1>5 DEF RulesInv

(* handle_block_to_main_chain keeps it.                                    *)
LEMMA AddMainKeeps ==
  ASSUME RulesInv, NEW ts \in Times, AddMain(ts)
  PROVE  RulesInv'
<1> DEFINE c == m_db_blocks
           e == Extended(m_db_blocks, ts)
<1>1. ts \in Nat
  BY RulesAssumption
<1>2. /\ MainAccepts(c, ts) /\ c' = e
      /\ now' = now /\ split' = split /\ alt_chain' = alt_chain
  BY DEF AddMain
<1>3. /\ now \in Nat /\ Chain(c) /\ TimesChecked(c) /\ WorkChecked(c) /\ split \in 1..Len(c) /\ alt_chain \in Seq(Blocks)
      /\ Growing(SubSeq(c, 1, split) \o alt_chain)
  BY DEF RulesInv
<1>4. Chain(e) /\ Len(e) = Len(c) + 1 /\ (\A i \in 1..Len(c) : e[i] = c[i]) /\ TimesChecked(e) /\ WorkChecked(e)
  <2>1. get_difficulty_for_next_block(c) # 0
    BY <1>2 DEF MainAccepts
  <2> QED BY <1>1, <1>2, <1>3, <2>1, Extends, ExtendsChecked, ExtendsWork
<1> HIDE DEF e
<1>5. c \in Seq(Blocks) /\ e \in Seq(Blocks) /\ Len(c) \in Nat
  BY <1>3, <1>4 DEF Chain
<1>6. SubSeq(e, 1, split) = SubSeq(c, 1, split)
  <2>1. Len(c) <= Len(e) /\ Len(c) <= Len(c) /\ split \in 0..Len(c) /\ 1 \in 1..(split + 1)
    BY <1>3, <1>4, <1>5
  <2> QED BY <2>1, <1>4, <1>5, SamePiece
<1>7. split \in 1..Len(e)
  BY <1>3, <1>4, <1>5
<1> QED BY <1>2, <1>3, <1>4, <1>6, <1>7 DEF RulesInv

(* handle_alternative_block, and the switch it makes, keep it.             *)
LEMMA AddAltKeeps ==
  ASSUME RulesInv, NEW ts \in Times, NEW h, AddAlt(h, ts)
  PROVE  RulesInv'
<1> DEFINE m == m_db_blocks
           x == AltBlock(m_db_blocks, h, alt_chain, ts)
           alt == Append(alt_chain, x)
           base == SubSeq(m_db_blocks, 1, h)
           old == SubSeq(m_db_blocks, h + 1, Len(m_db_blocks))
           c == Connected(base, alt)
           pushed == AsAlternative(c.chain, h, old)
<1>1. ts \in Nat
  BY RulesAssumption
<1>2. /\ now \in Nat /\ Chain(m) /\ TimesChecked(m) /\ WorkChecked(m) /\ split \in 1..Len(m) /\ alt_chain \in Seq(Blocks)
      /\ Growing(SubSeq(m, 1, split) \o alt_chain)
  BY DEF RulesInv
<1>3. m \in Seq(Blocks) /\ Len(m) \in Nat
  BY <1>2 DEF Chain
<1>4. h \in 1..Len(m) /\ Growing(base \o alt_chain)
  <2>1. CASE alt_chain = <<>>
    <3>1. h \in 1..(Len(m) - 1)
      BY <2>1 DEF AddAlt
    <3>2. h \in 1..Len(m)
      BY <3>1, <1>3
    <3>3. Growing(base \o <<>>)
      BY <3>2, <1>2, NoBranchGrows
    <3> QED BY <3>2, <3>3, <2>1, Zenon
  <2>2. CASE alt_chain # <<>>
    <3>1. h = split
      BY <2>2 DEF AddAlt
    <3> QED BY <3>1, <1>2
  <2> QED BY <2>1, <2>2
<1>5. x \in Blocks /\ Growing(base \o Append(alt_chain, x))
  <2>1. get_next_difficulty_for_alternative_chain(m, h, alt_chain) # 0
    BY DEF AddAlt, AltAccepts
  <2> QED BY <1>1, <1>2, <1>4, <2>1, AltExtends
<1>6. Chain(base) /\ Len(base) = h /\ TimesChecked(base) /\ WorkChecked(base)
  BY <1>2, <1>4, LowerPart, LowerWork
<1>7. base \in Seq(Blocks) /\ old \in Seq(Blocks) /\ h \in Nat
  <2>1. Len(m) \in 0..Len(m) /\ h + 1 \in 1..(Len(m) + 1)
    BY <1>3, <1>4
  <2>2. old \in Seq(Blocks)
    BY <1>3, <2>1, MiddlePart
  <2> HIDE DEF base, old
  <2> QED BY <1>4, <1>6, <2>2 DEF Chain
<1>8. /\ split' = h /\ now' = now
      /\ \/ alt_chain' = alt /\ m' = m
         \/ alt_chain' = SubSeq(alt, 1, Len(c.chain) - h) /\ m' = m
         \/ m' = c.chain /\ alt_chain' = pushed.alt
  BY Zenon DEF AddAlt
<1> HIDE DEF x
<1>9. alt \in Seq(Blocks) /\ Growing(base \o alt)
  BY <1>2, <1>5
<1> HIDE DEF alt, base, old
<1>10. Chain(c.chain) /\ TimesChecked(c.chain) /\ WorkChecked(c.chain) /\ Len(c.chain) \in h..(h + Len(alt))
  BY <1>6, <1>9, ConnectedChain
<1> HIDE DEF c
<1>11. CASE alt_chain' = alt /\ m' = m
  BY <1>11, <1>2, <1>4, <1>8, <1>9 DEF RulesInv, base
<1>12. CASE alt_chain' = SubSeq(alt, 1, Len(c.chain) - h) /\ m' = m
  <2> DEFINE k == Len(c.chain) - h
  <2>1. k \in 0..Len(alt)
    BY <1>7, <1>9, <1>10
  <2> HIDE DEF k
  <2>2. SubSeq(alt, 1, k) \in Seq(Blocks) /\ Growing(base \o SubSeq(alt, 1, k))
    BY <1>7, <1>9, <2>1, CutBranchGrows
  <2> QED BY <1>12, <1>2, <1>4, <1>8, <2>2 DEF RulesInv, base, k
<1>13. CASE m' = c.chain /\ alt_chain' = pushed.alt
  <2> DEFINE d == c.chain
             a == AsAlternative(d, h, old).alt
  <2>1. h \in 1..Len(d)
    BY <1>4, <1>7, <1>9, <1>10
  <2>2. a \in Seq(Blocks) /\ Growing(SubSeq(d, 1, h) \o a)
    <3> HIDE DEF d
    <3>1. Chain(d)
      BY <1>10 DEF d
    <3> QED BY <1>7, <2>1, <3>1, AlternativeBranch
  <2> QED BY <1>13, <1>2, <1>8, <1>10, <2>1, <2>2 DEF RulesInv
<1> QED BY <1>8, <1>11, <1>12, <1>13

LEMMA RulesStep == RulesInv /\ [Next]_vars => RulesInv'
<1> SUFFICES ASSUME RulesInv, [Next]_vars PROVE RulesInv'
  OBVIOUS
<1>1. CASE Tick
  <2>1. now' \in Nat
    BY <1>1 DEF Tick, RulesInv
  <2> QED BY <1>1, <2>1 DEF Tick, RulesInv
<1>2. CASE Prune
  <2>1. <<>> \in Seq(Blocks) /\ Growing(SubSeq(m_db_blocks, 1, split) \o <<>>)
    BY NoBranchGrows DEF RulesInv
  <2> QED BY <1>2, <2>1 DEF Prune, RulesInv
<1>3. ASSUME NEW ts \in Times, AddMain(ts) PROVE RulesInv'
  BY <1>3, AddMainKeeps
<1>4. ASSUME NEW ts \in Times, NEW h \in 1..MaxHeight, AddAlt(h, ts) PROVE RulesInv'
  BY <1>4, AddAltKeeps
<1>5. CASE UNCHANGED vars
  BY <1>5 DEF vars, RulesInv
<1> QED BY <1>1, <1>2, <1>3, <1>4, <1>5 DEF Next

(***************************************************************************)
(* The inductive invariant holds of every behaviour.                       *)
(***************************************************************************)
THEOREM RulesInvHolds == Spec => []RulesInv
BY RulesInit, RulesStep, PTL DEF Spec
-----------------------------------------------------------------------------
LEMMA AnyPiece ==
  ASSUME NEW A, NEW s \in Seq(A), NEW h \in Nat, NEW n \in 0..Len(s)
  PROVE  SubSeq(s, h + 1, n) \in Seq(A)
<1>1. n \in Int /\ h + 1 \in Int /\ \A i \in (h + 1)..n : i \in 1..Len(s)
  OBVIOUS
<1>2. \A i \in (h + 1)..n : s[i] \in A
  BY <1>1
<1> QED BY <1>1, <1>2, SubSeqProperties

(***************************************************************************)
(* get_next_difficulty_for_alternative_chain asks of a block on any branch *)
(* what get_difficulty_for_next_block would ask on the chain it makes: for *)
(* every window and lag, every height and every length of the branch.      *)
(***************************************************************************)
THEOREM AltDifficultyRightHolds == Spec => []AltDifficultyRight
<1>1. RulesInv => AltDifficultyRight
  <2> SUFFICES ASSUME RulesInv, NEW b \in Branches
               PROVE  get_next_difficulty_for_alternative_chain(m_db_blocks, b.h, b.alt)
                        = get_difficulty_for_next_block(SubSeq(m_db_blocks, 1, b.h) \o b.alt)
    BY DEF AltDifficultyRight
  <2> DEFINE m == m_db_blocks
  <2>1. m \in Seq(Blocks) /\ Len(m) \in Nat /\ split \in 1..Len(m) /\ alt_chain \in Seq(Blocks)
    BY DEF RulesInv, Chain
  <2>2. b.h \in 1..Len(m) /\ b.alt \in Seq(Blocks)
    <3>1. CASE b = [h |-> split, alt |-> alt_chain]
      BY <3>1, <2>1
    <3>2. CASE b # [h |-> split, alt |-> alt_chain]
      <4>1. PICK h \in 1..(Len(m) - 1), n \in 1..Len(m) : b = [h |-> h, alt |-> SubSeq(m, h + 1, n)]
        BY <3>2 DEF Branches
      <4>2. h \in Nat /\ n \in 0..Len(m) /\ h \in 1..Len(m)
        BY <2>1
      <4>3. SubSeq(m, h + 1, n) \in Seq(Blocks)
        BY <2>1, <4>2, AnyPiece
      <4> QED BY <4>1, <4>2, <4>3
    <3> QED BY <3>1, <3>2
  <2> QED BY <2>1, <2>2, SameBlocks
<1> QED BY <1>1, RulesInvHolds, PTL

(***************************************************************************)
(* Work grows along the chain and along the branch, and the next block has *)
(* a difficulty, whatever the timestamps: no division by zero, no work of  *)
(* zero between the blocks next_difficulty measures.                       *)
(***************************************************************************)
THEOREM WorkGrowsHolds == Spec => []WorkGrows
<1>1. RulesInv => WorkGrows
  <2> SUFFICES ASSUME RulesInv PROVE WorkGrows
    OBVIOUS
  <2>1. /\ m_db_blocks \in Seq(Blocks) /\ Len(m_db_blocks) >= 1 /\ Growing(m_db_blocks)
        /\ Growing(SubSeq(m_db_blocks, 1, split) \o alt_chain)
    BY DEF RulesInv, Chain
  <2>3. Last(m_db_blocks).cumulative_difficulty * DifficultyTarget <= max128bit =>
          get_difficulty_for_next_block(m_db_blocks) > 0
    BY <2>1, NextPositive
  <2> QED BY <2>1, <2>3 DEF WorkGrows
<1> QED BY <1>1, RulesInvHolds, PTL

(* One more block of a piece of a chain.                                   *)
LEMMA OneMoreOfPiece ==
  ASSUME NEW A, NEW s \in Seq(A), NEW h \in Nat, NEW n \in Nat, h + n + 1 <= Len(s)
  PROVE  /\ SubSeq(s, h + 1, h + n) \in Seq(A) /\ Len(SubSeq(s, h + 1, h + n)) = n
         /\ \A k \in 1..n : SubSeq(s, h + 1, h + n)[k] = s[h + k]
         /\ Append(SubSeq(s, h + 1, h + n), s[h + n + 1]) = SubSeq(s, h + 1, h + n + 1)
<1> DEFINE p == SubSeq(s, h + 1, h + n)
           q == SubSeq(s, h + 1, h + n + 1)
           x == s[h + n + 1]
           r == Append(p, x)
<1>1. /\ h + n \in 0..Len(s) /\ h + n + 1 \in 0..Len(s) /\ h + 1 \in 1..((h + n) + 1) /\ h + 1 \in 1..((h + n + 1) + 1)
      /\ (h + n) - (h + 1) + 1 = n /\ (h + n + 1) - (h + 1) + 1 = n + 1
      /\ \A k \in 1..(n + 1) : (h + 1) + k - 1 = h + k
      /\ h + n + 1 \in 1..Len(s) /\ n + 1 \in 1..(n + 1) /\ \A k \in 1..n : k \in 1..(n + 1)
  OBVIOUS
<1>2. p \in Seq(A) /\ Len(p) = n /\ \A k \in 1..n : p[k] = s[h + k]
  <2>1. /\ p \in Seq(A) /\ Len(p) = (h + n) - (h + 1) + 1
        /\ \A k \in 1..((h + n) - (h + 1) + 1) : p[k] = s[(h + 1) + k - 1]
    BY <1>1, MiddlePart
  <2> HIDE DEF p
  <2> QED BY <1>1, <2>1
<1>3. q \in Seq(A) /\ Len(q) = n + 1 /\ \A k \in 1..(n + 1) : q[k] = s[h + k]
  <2>1. /\ q \in Seq(A) /\ Len(q) = (h + n + 1) - (h + 1) + 1
        /\ \A k \in 1..((h + n + 1) - (h + 1) + 1) : q[k] = s[(h + 1) + k - 1]
    BY <1>1, MiddlePart
  <2> HIDE DEF q
  <2> QED BY <1>1, <2>1
<1>4. x \in A
  BY <1>1
<1> HIDE DEF p, q, x
<1>5. r \in Seq(A) /\ Len(r) = Len(p) + 1 /\ r[Len(p) + 1] = x /\ \A k \in 1..Len(p) : r[k] = p[k]
  BY <1>2, <1>4, AppendProperties
<1> HIDE DEF r
<1>6. ASSUME NEW k \in 1..(n + 1) PROVE r[k] = q[k]
  <2>1. CASE k = n + 1
    <3>1. h + k = h + n + 1
      BY <2>1
    <3> QED BY <2>1, <3>1, <1>2, <1>3, <1>5 DEF x
  <2>2. CASE k # n + 1
    <3>1. k \in 1..n
      BY <2>2
    <3> QED BY <3>1, <1>2, <1>3, <1>5
  <2> QED BY <2>1, <2>2
<1>7. r = q
  <2>1. Len(r) = Len(q) /\ \A k \in 1..Len(r) : r[k] = q[k]
    BY <1>2, <1>3, <1>5, <1>6
  <2> QED BY <2>1, <1>3, <1>5, SeqEqual
<1> QED BY <1>2, <1>7 DEF r, p, q, x

(* A block of the main chain is pushed as what it was.                     *)
LEMMA PushedBack ==
  ASSUME NEW m, Chain(m), TimesChecked(m), WorkChecked(m),
         NEW h \in Nat, h >= 1, NEW n \in Nat, n <= TimestampWindow, h + n + 1 <= Len(m)
  PROVE  Push(m, h, [alt |-> SubSeq(m, h + 1, h + n), ok |-> TRUE], m[h + n + 1].timestamp)
           = [alt |-> SubSeq(m, h + 1, h + n + 1), ok |-> TRUE]
<1> DEFINE alt == SubSeq(m, h + 1, h + n)
           x == m[h + n + 1]
           ts == x.timestamp
           d == get_next_difficulty_for_alternative_chain(m, h, alt)
           cd == (IF alt = <<>> THEN m[h] ELSE Last(alt)).cumulative_difficulty
<1>1. m \in Seq(Blocks) /\ Len(m) \in Nat /\ h \in 1..Len(m)
  BY DEF Chain
<1>2. /\ alt \in Seq(Blocks) /\ Len(alt) = n /\ (\A k \in 1..n : alt[k] = m[h + k])
      /\ Append(alt, x) = SubSeq(m, h + 1, h + n + 1)
  BY <1>1, OneMoreOfPiece
<1>3. check_block_timestamp(AltTimestamps(m, h, alt), ts)
  BY BlockReturns
<1>4. d = get_difficulty_for_next_block(SubSeq(m, 1, h + n))
  <2>1. 1 \in 1..(Len(m) + 1) /\ h \in (1 - 1)..Len(m) /\ h + n \in h..Len(m)
    BY <1>1
  <2>2. SubSeq(m, 1, h) \o SubSeq(m, h + 1, h + n) = SubSeq(m, 1, h + n)
    BY <1>1, <2>1, ConcatAdjacentSubSeq
  <2>3. d = get_difficulty_for_next_block(SubSeq(m, 1, h) \o alt)
    <3> HIDE DEF alt
    <3> QED BY <1>1, <1>2, SameBlocks
  <2> QED BY <2>2, <2>3, Zenon
<1>5. d # 0 /\ x = Block(ts, m[h + n].cumulative_difficulty + d)
  <2> DEFINE i == h + n + 1
  <2>1. i \in 2..Len(m) /\ i - 1 = h + n
    BY <1>1
  <2> HIDE DEF d
  <2>2. LET e == get_difficulty_for_next_block(SubSeq(m, 1, i - 1))
        IN  e # 0 /\ m[i] = Block(m[i].timestamp, m[i - 1].cumulative_difficulty + e)
    <3> HIDE DEF i
    <3> QED BY <2>1 DEF WorkChecked
  <2>3. get_difficulty_for_next_block(SubSeq(m, 1, i - 1)) = d
    BY <2>1, <1>4
  <2> HIDE DEF i
  <2>4. d # 0 /\ m[i] = Block(m[i].timestamp, m[h + n].cumulative_difficulty + d)
    BY <2>1, <2>2, <2>3
  <2> QED BY <2>4 DEF i
<1>6. cd = m[h + n].cumulative_difficulty
  <2> HIDE DEF alt
  <2>1. CASE alt = <<>>
    <3>1. n = 0 /\ h + n = h
      BY <2>1, <1>2
    <3> QED BY <3>1, <2>1
  <2>2. CASE alt # <<>>
    <3>1. n \in 1..n /\ Last(alt) = alt[n]
      BY <2>2, <1>2 DEF Last
    <3> QED BY <3>1, <2>2, <1>2
  <2> QED BY <2>1, <2>2
<1>7. AltBlock(m, h, alt, ts) = x
  <2>1. AltBlock(m, h, alt, ts) = Block(ts, cd + d)
    BY Zenon DEF AltBlock
  <2> HIDE DEF d, cd, alt
  <2> QED BY <2>1, <1>5, <1>6
<1>8. AltAccepts(m, h, alt, ts)
  BY <1>3, <1>5, Zenon DEF AltAccepts
<1> DEFINE p == [alt |-> alt, ok |-> TRUE]
<1>9. p.ok /\ p.alt = alt
  OBVIOUS
<1> HIDE DEF p, alt
<1>10. Push(m, h, p, ts) = [alt |-> Append(alt, AltBlock(m, h, alt, ts)), ok |-> TRUE]
  BY <1>8, <1>9, Zenon DEF Push
<1>11. Push(m, h, p, ts) = [alt |-> SubSeq(m, h + 1, h + n + 1), ok |-> TRUE]
  BY <1>2, <1>7, <1>10, Zenon
<1> QED BY <1>11 DEF p, alt

(***************************************************************************)
(* The blocks of the main chain that a switch pushes as alternative ones   *)
(* are all accepted, and become what they were: for every window and every *)
(* height.                                                                 *)
(***************************************************************************)
THEOREM OldBlocksReturnHolds == Spec => []OldBlocksReturn
<1>1. RulesInv => OldBlocksReturn
  <2> DEFINE m == m_db_blocks
  <2> SUFFICES ASSUME RulesInv, NEW h \in 1..(Len(m) - 1), Len(m) - h <= TimestampWindow + 1
               PROVE  AsAlternative(m, h, SubSeq(m, h + 1, Len(m))) = [alt |-> SubSeq(m, h + 1, Len(m)), ok |-> TRUE]
    BY DEF OldBlocksReturn
  <2> DEFINE L == Len(m) - h
             old == SubSeq(m, h + 1, Len(m))
             Back(n) == [alt |-> SubSeq(m, h + 1, h + n), ok |-> TRUE]
  <2>1. /\ Chain(m) /\ TimesChecked(m) /\ WorkChecked(m) /\ m \in Seq(Blocks) /\ Len(m) \in Nat
        /\ h \in Nat /\ h >= 1 /\ h \in 1..Len(m) /\ L \in Nat /\ h + L = Len(m) /\ L <= TimestampWindow + 1
    BY Windows DEF RulesInv, Chain
  <2>2. old \in Seq(Blocks) /\ Len(old) = L /\ \A k \in 1..L : old[k] = m[h + k]
    <3>1. /\ Len(m) \in 0..Len(m) /\ h + 1 \in 1..(Len(m) + 1)
          /\ Len(m) - (h + 1) + 1 = L
          /\ \A k \in 1..L : (h + 1) + k - 1 = h + k
      BY <2>1
    <3>2. /\ old \in Seq(Blocks) /\ Len(old) = Len(m) - (h + 1) + 1
          /\ \A k \in 1..(Len(m) - (h + 1) + 1) : old[k] = m[(h + 1) + k - 1]
      BY <2>1, <3>1, MiddlePart
    <3> HIDE DEF old, L
    <3> QED BY <3>1, <3>2
  <2> HIDE DEF old
  <2>3. PICK g : /\ AsAlternative(m, h, old) = g[Len(old)]
                 /\ g[0] = [alt |-> <<>>, ok |-> TRUE]
                 /\ \A n \in 1..Len(old) : g[n] = Push(m, h, g[n - 1], old[n].timestamp)
                 /\ \A n \in 0..Len(old) :
                      /\ g[n].ok \in BOOLEAN /\ g[n].alt \in Seq(Blocks)
                      /\ Growing(SubSeq(m, 1, h) \o g[n].alt)
    BY <2>1, <2>2, PushedUnfolds
  <2> HIDE DEF L
  <2>4. AsAlternative(m, h, old) = g[L] /\ \A n \in 1..L : g[n] = Push(m, h, g[n - 1], m[h + n].timestamp)
    BY <2>2, <2>3
  <2> DEFINE S == {n \in 0..L : g[n] = Back(n)}
  <2>5. 0 \in S
    <3>1. h + 1 \in Int /\ h + 0 \in Int /\ h + 0 < h + 1
      BY <2>1
    <3>2. SubSeq(m, h + 1, h + 0) = <<>>
      BY <3>1, SubSeqEmpty
    <3>3. g[0] = Back(0)
      BY <2>3, <3>2
    <3>4. 0 \in 0..L
      BY <2>1
    <3> HIDE DEF Back
    <3> QED BY <3>3, <3>4
  <2>6. ASSUME NEW n \in 1..L, n - 1 \in S PROVE n \in S
    <3> DEFINE k == n - 1
    <3>1. k \in Nat /\ k <= TimestampWindow /\ h + k + 1 <= Len(m) /\ h + k + 1 = h + n /\ n \in 0..L
      BY <2>1, Windows
    <3>2. g[k] = Back(k)
      BY <2>6
    <3> HIDE DEF k
    <3>3. Push(m, h, Back(k), m[h + k + 1].timestamp) = [alt |-> SubSeq(m, h + 1, h + k + 1), ok |-> TRUE]
      BY <2>1, <3>1, PushedBack
    <3>4. g[n] = Push(m, h, g[k], m[h + n].timestamp)
      BY <2>4 DEF k
    <3> HIDE DEF Back
    <3>5. g[n] = [alt |-> SubSeq(m, h + 1, h + n), ok |-> TRUE]
      BY <3>1, <3>2, <3>3, <3>4
    <3> QED BY <3>1, <3>5 DEF Back
  <2>7. \A n \in 0..L : n \in S
    <3> HIDE DEF S
    <3> QED BY <2>1, <2>5, <2>6, UpTo
  <2>8. L \in S
    <3> HIDE DEF S
    <3> QED BY <2>1, <2>7
  <2>9. g[L] = [alt |-> SubSeq(m, h + 1, Len(m)), ok |-> TRUE]
    BY <2>1, <2>8
  <2> QED BY <2>4, <2>9 DEF old
<1> QED BY <1>1, RulesInvHolds, PTL
-----------------------------------------------------------------------------
(* Arithmetic with words.                                                  *)
Words == 0..(WordValues - 1)

LEMMA DropLow ==
  ASSUME NEW B \in Nat, B >= 2, NEW lo \in 0..(B - 1), NEW x \in Int, NEW y \in Int
  PROVE  lo + B * x < B * y <=> x < y
<1>1. ASSUME x < y PROVE lo + B * x < B * y
  <2>1. x + 1 <= y
    BY <1>1
  <2>2. B * (x + 1) <= B * y
    BY <2>1
  <2>3. B * (x + 1) = B * x + B /\ B * x \in Int /\ B * y \in Int
    OBVIOUS
  <2> QED BY <2>2, <2>3
<1>2. ASSUME y <= x PROVE ~(lo + B * x < B * y)
  <2>1. B * y <= B * x /\ B * x \in Int /\ B * y \in Int
    BY <1>2
  <2> QED BY <2>1
<1> QED BY <1>1, <1>2

(* A product of two words is a high and a low word.                        *)
LEMMA Halves ==
  ASSUME NEW a \in Words, NEW d \in Words
  PROVE  high(a, d) \in Words /\ low(a, d) \in Words /\ a * d = WordValues * high(a, d) + low(a, d)
<1> DEFINE B == WordValues
           p == a * d
           q == p \div B
           r == p % B
<1>1. B \in Nat /\ B >= 2 /\ a \in Nat /\ d \in Nat /\ a <= B - 1 /\ d <= B - 1
  BY Windows DEF Words
<1>2. p \in Nat /\ p <= B * d
  <2>1. p \in Nat
    BY <1>1
  <2>2. a * d <= B * d
    BY <1>1
  <2> QED BY <2>1, <2>2
<1>3. high(a, d) = q /\ low(a, d) = r
  BY DEF high, low
<1> HIDE DEF p, B
<1>4. q \in Int /\ r \in 0..(B - 1) /\ p = B * q + r
  BY <1>1, <1>2
<1> HIDE DEF q, r
<1>5. q >= 0
  <2> SUFFICES ASSUME q <= -1 PROVE FALSE
    BY <1>4
  <2>1. B * q <= B * (-1) /\ B * q \in Int
    BY <1>1, <1>4
  <2> QED BY <2>1, <1>1, <1>2, <1>4
<1>6. q <= d
  <2> SUFFICES ASSUME q >= d + 1 PROVE FALSE
    BY <1>1, <1>4
  <2>1. B * q >= B * (d + 1) /\ B * (d + 1) = B * d + B /\ B * q \in Int /\ B * d \in Int
    BY <1>1, <1>4
  <2> QED BY <2>1, <1>1, <1>2, <1>4
<1>7. q \in 0..(B - 1)
  BY <1>1, <1>4, <1>5, <1>6
<1> QED BY <1>3, <1>4, <1>7 DEF Words, p, B

(* The carry of two words and a carry.                                     *)
LEMMA Carried ==
  ASSUME NEW a \in Words, NEW b \in Words
  PROVE  /\ cadd(a, b) <=> a + b >= WordValues
         /\ \A c \in BOOLEAN : cadc(a, b, c) <=> a + b + (IF c THEN 1 ELSE 0) >= WordValues
<1>1. WordValues \in Nat /\ WordValues >= 2 /\ a \in Nat /\ b \in Nat /\ a <= WordValues - 1 /\ b <= WordValues - 1
  BY Windows DEF Words
<1>2. (a + b) % WordValues = IF a + b >= WordValues THEN (a + b) - WordValues ELSE a + b
  <2> DEFINE s == a + b
             q == s \div WordValues
             r == s % WordValues
  <2>1. s \in Nat /\ s < WordValues + WordValues
    BY <1>1
  <2> HIDE DEF s
  <2>2. q \in Int /\ r \in 0..(WordValues - 1) /\ s = WordValues * q + r
    BY <1>1, <2>1
  <2> HIDE DEF q, r
  <2>3. q = 0 \/ q = 1
    <3>1. ASSUME q <= -1 PROVE FALSE
      <4>1. WordValues * q <= WordValues * (-1) /\ WordValues * q \in Int
        BY <1>1, <2>2, <3>1
      <4> QED BY <4>1, <1>1, <2>1, <2>2
    <3>2. ASSUME q >= 2 PROVE FALSE
      <4>1. WordValues * q >= WordValues * 2 /\ WordValues * q \in Int
        BY <1>1, <2>2, <3>2
      <4> QED BY <4>1, <1>1, <2>1, <2>2
    <3> QED BY <2>2, <3>1, <3>2
  <2>4. r = IF s >= WordValues THEN s - WordValues ELSE s
    <3>1. CASE q = 0
      BY <3>1, <1>1, <2>1, <2>2
    <3>2. CASE q = 1
      BY <3>2, <1>1, <2>1, <2>2
    <3> QED BY <2>3, <3>1, <3>2
  <2> QED BY <2>4, Zenon DEF r, s
<1>3. cadd(a, b) <=> a + b >= WordValues
  BY <1>1, <1>2 DEF cadd
<1>4. cadc(a, b, TRUE) <=> a + b + 1 >= WordValues
  BY <1>1, <1>2 DEF cadc, max64bit
<1>5. cadc(a, b, FALSE) <=> a + b + 0 >= WordValues
  BY <1>1, <1>2 DEF cadc, max64bit
<1> QED BY <1>3, <1>4, <1>5

(* What is left of a sum of two words and a carry.                         *)
LEMMA CarriedSum ==
  ASSUME NEW a \in Words, NEW b \in Words, NEW c \in {0, 1},
         NEW k, k = IF a + b + c >= WordValues THEN 1 ELSE 0
  PROVE  \E r \in Words : a + b + c = r + WordValues * k
<1> DEFINE s == a + b + c
           r == IF s >= WordValues THEN s - WordValues ELSE s
<1>1. WordValues \in Nat /\ WordValues >= 2
  BY Windows
<1>2. r \in Words /\ s = r + WordValues * k
  BY <1>1 DEF Words
<1> QED BY <1>2

(***************************************************************************)
(* The product of four words and a fifth, from the products of each and    *)
(* the carries between them.                                               *)
(***************************************************************************)
LEMMA LongProduct ==
  ASSUME NEW B \in Nat, B >= 2, NEW d \in Int,
         NEW a1 \in Int, NEW a2 \in Int, NEW a3 \in Int, NEW a4 \in Int,
         NEW h1 \in 0..(B - 1), NEW h2 \in 0..(B - 1), NEW h3 \in 0..(B - 1), NEW h4 \in 0..(B - 1),
         NEW l1 \in 0..(B - 1), NEW l2 \in 0..(B - 1), NEW l3 \in 0..(B - 1), NEW l4 \in 0..(B - 1),
         a1 * d = B * h1 + l1, a2 * d = B * h2 + l2, a3 * d = B * h3 + l3, a4 * d = B * h4 + l4,
         NEW k1 \in {0, 1}, NEW k2 \in {0, 1}, NEW r1 \in 0..(B - 1), NEW r2 \in 0..(B - 1),
         h1 + l2 = r1 + B * k1, h2 + l3 + k1 = r2 + B * k2
  PROVE  (a1 + B * (a2 + B * (a3 + B * a4))) * d < B * (B * (B * B)) <=> h4 = 0 /\ h3 + l4 + k2 < B
<1> DEFINE X1 == h1 + a2 * d + B * (a3 * d + B * (a4 * d))
           X2 == k1 + h2 + a3 * d + B * (a4 * d)
           X3 == k2 + h3 + a4 * d
<1>1. (a1 + B * (a2 + B * (a3 + B * a4))) * d = a1 * d + B * (a2 * d + B * (a3 * d + B * (a4 * d)))
  OBVIOUS
<1>2. a1 * d + B * (a2 * d + B * (a3 * d + B * (a4 * d))) = l1 + B * X1
  OBVIOUS
<1>3. X1 = r1 + B * X2
  OBVIOUS
<1>4. X2 = r2 + B * X3
  OBVIOUS
<1>5. X1 \in Int /\ X2 \in Int /\ X3 \in Int /\ B * B \in Int /\ B * (B * B) \in Int /\ B \in Int
  OBVIOUS
<1>6. X3 = (k2 + h3 + l4) + B * h4
  OBVIOUS
<1> HIDE DEF X1, X2, X3
<1>7. l1 + B * X1 < B * (B * (B * B)) <=> X1 < B * (B * B)
  BY <1>5, DropLow
<1>8. r1 + B * X2 < B * (B * B) <=> X2 < B * B
  BY <1>5, DropLow
<1>9. r2 + B * X3 < B * B <=> X3 < B
  BY <1>5, DropLow
<1>10. X3 < B <=> h4 = 0 /\ h3 + l4 + k2 < B
  <2>1. CASE h4 = 0
    BY <2>1, <1>6
  <2>2. CASE h4 # 0
    <3>1. B * h4 >= B /\ B * h4 \in Int
      BY <2>2
    <3> QED BY <3>1, <2>2, <1>6
  <2> QED BY <2>1, <2>2
<1> QED BY <1>1, <1>2, <1>3, <1>4, <1>7, <1>8, <1>9, <1>10
(***************************************************************************)
(* check_hash by words is the comparison of the product with max256bit.    *)
(***************************************************************************)
LEMMA WordsRight ==
  ASSUME NEW hash \in [1..4 -> Words], NEW d \in Words
  PROVE  ByWords(hash, d) <=> HashValue(hash) * d <= max256bit
<1> DEFINE B == WordValues
           a1 == hash[1]
           a2 == hash[2]
           a3 == hash[3]
           a4 == hash[4]
           h1 == high(a1, d)
           h2 == high(a2, d)
           h3 == high(a3, d)
           h4 == high(a4, d)
           l1 == low(a1, d)
           l2 == low(a2, d)
           l3 == low(a3, d)
           l4 == low(a4, d)
           c1 == cadd(h1, l2)
           c2 == cadc(h2, l3, c1)
           k1 == IF h1 + l2 + 0 >= B THEN 1 ELSE 0
           k2 == IF h2 + l3 + k1 >= B THEN 1 ELSE 0
<1>1. B \in Nat /\ B >= 2 /\ Words = 0..(B - 1)
  BY Windows DEF Words
<1>2. a1 \in Words /\ a2 \in Words /\ a3 \in Words /\ a4 \in Words
  OBVIOUS
<1>3. ByWords(hash, d) <=> h4 = 0 /\ ~cadc(h3, l4, c2)
  BY DEF ByWords
<1>4. HashValue(hash) = a1 + B * (a2 + B * (a3 + B * a4))
  BY DEF HashValue
<1> HIDE DEF a1, a2, a3, a4
<1>5. /\ h1 \in Words /\ l1 \in Words /\ a1 * d = B * h1 + l1
      /\ h2 \in Words /\ l2 \in Words /\ a2 * d = B * h2 + l2
      /\ h3 \in Words /\ l3 \in Words /\ a3 * d = B * h3 + l3
      /\ h4 \in Words /\ l4 \in Words /\ a4 * d = B * h4 + l4
  BY <1>2, Halves
<1> HIDE DEF h1, h2, h3, h4, l1, l2, l3, l4
<1>6. c1 \in BOOLEAN /\ c2 \in BOOLEAN
  BY DEF cadd, cadc
<1>7. (c1 <=> h1 + l2 >= B) /\ k1 = IF c1 THEN 1 ELSE 0
  <2>1. c1 <=> h1 + l2 >= B
    BY <1>5, Carried
  <2>2. h1 + l2 + 0 = h1 + l2
    BY <1>1, <1>5
  <2> QED BY <2>1, <2>2
<1>8. k1 \in {0, 1} /\ k2 \in {0, 1}
  OBVIOUS
<1>9. k2 = IF c2 THEN 1 ELSE 0
  <2> HIDE DEF c1, k1
  <2>1. c2 <=> h2 + l3 + (IF c1 THEN 1 ELSE 0) >= B
    BY <1>5, <1>6, Carried
  <2> QED BY <2>1, <1>7
<1>10. PICK r1 \in Words : h1 + l2 + 0 = r1 + B * k1
  <2>1. k1 = IF h1 + l2 + 0 >= WordValues THEN 1 ELSE 0
    OBVIOUS
  <2>2. h1 \in Words /\ l2 \in Words
    BY <1>5
  <2> DEFINE none == 0
  <2>3. none \in {0, 1} /\ k1 = IF h1 + l2 + none >= WordValues THEN 1 ELSE 0
    BY <2>1
  <2> HIDE DEF k1, none
  <2>4. \E r \in Words : h1 + l2 + none = r + WordValues * k1
    BY <2>2, <2>3, CarriedSum
  <2> QED BY <2>4 DEF none
<1>11. PICK r2 \in Words : h2 + l3 + k1 = r2 + B * k2
  <2>1. k1 \in {0, 1} /\ h2 \in Words /\ l3 \in Words
    BY <1>5, <1>8
  <2> HIDE DEF k1
  <2>2. k2 = IF h2 + l3 + k1 >= WordValues THEN 1 ELSE 0
    OBVIOUS
  <2> HIDE DEF k2
  <2> QED BY <2>1, <2>2, CarriedSum
<1> HIDE DEF c2, k1, k2
<1>12. cadc(h3, l4, c2) <=> h3 + l4 + k2 >= B
  <2>1. cadc(h3, l4, c2) <=> h3 + l4 + (IF c2 THEN 1 ELSE 0) >= B
    BY <1>5, <1>6, Carried
  <2> QED BY <2>1, <1>9
<1>13. (a1 + B * (a2 + B * (a3 + B * a4))) * d < B * (B * (B * B)) <=> h4 = 0 /\ h3 + l4 + k2 < B
  <2>1. /\ d \in Int /\ a1 \in Int /\ a2 \in Int /\ a3 \in Int /\ a4 \in Int
        /\ h1 \in 0..(B - 1) /\ h2 \in 0..(B - 1) /\ h3 \in 0..(B - 1) /\ h4 \in 0..(B - 1)
        /\ l1 \in 0..(B - 1) /\ l2 \in 0..(B - 1) /\ l3 \in 0..(B - 1) /\ l4 \in 0..(B - 1)
        /\ r1 \in 0..(B - 1) /\ r2 \in 0..(B - 1)
    BY <1>1, <1>2, <1>5, <1>10, <1>11
  <2>2. h1 + l2 = r1 + B * k1 /\ h2 + l3 + k1 = r2 + B * k2
    <3>1. h1 + l2 + 0 = h1 + l2
      BY <2>1
    <3> QED BY <3>1, <1>10, <1>11
  <2> HIDE DEF B
  <2> QED BY <1>1, <1>5, <1>8, <2>1, <2>2, LongProduct
<1>14. HashValue(hash) * d <= max256bit <=> HashValue(hash) * d < B * (B * (B * B))
  <2>1. max256bit = B * B * B * B - 1 /\ B * B * B * B = B * (B * (B * B)) /\ B * (B * (B * B)) \in Int
    BY <1>1 DEF max256bit
  <2>2. HashValue(hash) * d \in Int
    BY <1>1, <1>2, <1>4 DEF Words
  <2> DEFINE x == HashValue(hash) * d
             y == B * (B * (B * B))
  <2> HIDE DEF x, y
  <2>3. x \in Int /\ y \in Int /\ max256bit = y - 1
    BY <2>1, <2>2 DEF x, y
  <2>4. x <= max256bit <=> x < y
    BY <2>3
  <2> QED BY <2>4 DEF x, y
<1>15. h3 + l4 + k2 >= B <=> ~(h3 + l4 + k2 < B)
  BY <1>1, <1>5, <1>8
<1> QED BY <1>3, <1>4, <1>12, <1>13, <1>14, <1>15

(* Above max64bit only a hash with a highest word of zero can pass.        *)
LEMMA LargeRight ==
  ASSUME NEW hash \in [1..4 -> Words], NEW d \in Nat, d >= WordValues
  PROVE  (hash[4] = 0 /\ HashValue(hash) * d <= max256bit) <=> HashValue(hash) * d <= max256bit
<1> DEFINE B == WordValues
           v == HashValue(hash)
           a1 == hash[1]
           a2 == hash[2]
           a3 == hash[3]
           a4 == hash[4]
<1>1. B \in Nat /\ B >= 2 /\ a1 \in Nat /\ a2 \in Nat /\ a3 \in Nat /\ a4 \in Nat
  BY Windows DEF Words
<1>2. v = a1 + B * (a2 + B * (a3 + B * a4))
  BY DEF HashValue
<1> HIDE DEF a1, a2, a3, a4, v, B
<1>3. ASSUME a4 # 0 PROVE ~(v * d <= max256bit)
  <2>1. B * a4 >= B /\ B * a4 \in Int
    BY <1>1, <1>3
  <2> DEFINE x == a3 + B * a4
  <2>2. x >= B /\ x \in Int
    BY <2>1, <1>1
  <2> HIDE DEF x
  <2>3. B * x >= B * B /\ B * x \in Int /\ B * B \in Int
    BY <1>1, <2>2
  <2> DEFINE y == a2 + B * x
  <2>4. y >= B * B /\ y \in Int
    BY <2>3, <1>1
  <2> HIDE DEF y
  <2>5. B * y >= B * (B * B) /\ B * y \in Int /\ B * (B * B) \in Nat
    BY <1>1, <2>3, <2>4
  <2>6. v = a1 + B * y
    BY <1>2 DEF x, y
  <2>7. v >= B * (B * B) /\ v \in Nat
    BY <2>5, <2>6, <1>1
  <2> DEFINE z == B * (B * B)
  <2>8. v * d >= z * B
    <3>1. z \in Nat /\ v \in Nat /\ v >= z /\ d >= B
      BY <2>5, <2>7 DEF B
    <3> HIDE DEF z
    <3>2. v * d >= z * d
      BY <3>1
    <3>3. z * d >= z * B
      BY <3>1, <1>1
    <3>4. v * d \in Int /\ z * d \in Int /\ z * B \in Int
      BY <3>1, <1>1
    <3> QED BY <3>2, <3>3, <3>4
  <2>9. max256bit = z * B - 1 /\ z * B \in Int /\ v * d \in Int
    <3>1. max256bit = B * B * B * B - 1
      BY DEF max256bit, B
    <3>2. B * B * B * B = z * B /\ z * B \in Int
      BY <1>1
    <3>3. v * d \in Int
      BY <2>7
    <3> QED BY <3>1, <3>2, <3>3
  <2> HIDE DEF z
  <2> DEFINE s == v * d
             t == z * B
  <2> HIDE DEF s, t
  <2>10. s >= t /\ max256bit = t - 1 /\ s \in Int /\ t \in Int
    BY <2>8, <2>9 DEF s, t
  <2>11. ~(s <= max256bit)
    BY <2>10
  <2> QED BY <2>11 DEF s
<1> QED BY <1>3 DEF a4, v

(***************************************************************************)
(* check_hash accepts a hash exactly when its product with the difficulty  *)
(* fits in 256 bits, for every hash and every difficulty but max64bit, and *)
(* for words of every size.                                                *)
(***************************************************************************)
THEOREM HashTestRightHolds == Spec => []HashTestRight
<1>1. RulesInv => HashTestRight
  <2> DEFINE d == get_difficulty_for_next_block(m_db_blocks)
  <2> SUFFICES ASSUME RulesInv, d # max64bit, NEW hash \in Hashes
               PROVE  check_hash(hash, d) <=> HashValue(hash) * d <= max256bit
    BY DEF HashTestRight
  <2>1. hash \in [1..4 -> Words]
    BY RulesAssumption DEF Hashes, Words
  <2>2. d \in Nat
    BY NextPositive DEF RulesInv, Chain
  <2> HIDE DEF d
  <2>3. CASE d < max64bit
    <3>1. d \in Words
      BY <2>2, <2>3, Windows DEF Words, max64bit
    <3>2. check_hash(hash, d) = ByWords(hash, d)
      BY <2>3 DEF check_hash
    <3> QED BY <3>1, <3>2, <2>1, WordsRight
  <2>4. CASE ~(d < max64bit)
    <3>1. d >= WordValues
      BY <2>2, <2>4, Windows DEF max64bit
    <3>2. check_hash(hash, d) = (hash[4] = 0 /\ HashValue(hash) * d <= max256bit)
      BY <2>4 DEF check_hash
    <3> QED BY <3>1, <3>2, <2>1, <2>2, LargeRight
  <2> QED BY <2>3, <2>4
<1> QED BY <1>1, RulesInvHolds, PTL
=============================================================================
