-------------------------- MODULE SubsequenceProofs --------------------------
(***************************************************************************)
(* Induction over the places of a list, and what OnlyIn returns.           *)
(***************************************************************************)
EXTENDS Subsequence, SequenceTheorems, WellFoundedInduction, TLAPS

(* Induction from 0 up to n, for a set instead of a predicate.             *)
LEMMA UpTo ==
  ASSUME NEW n \in Nat, NEW S, 0 \in S, \A i \in 1..n : i - 1 \in S => i \in S
  PROVE  \A i \in 0..n : i \in S
<1> DEFINE R == OpToRel(<, Nat)
           T == {i \in 0..n : i \notin S}
<1> SUFFICES ASSUME T # {} PROVE FALSE
  OBVIOUS
<1>1. IsWellFoundedOn(R, Nat)
  BY NatLessThanWellFounded
<1>2. T \subseteq Nat
  OBVIOUS
<1>3. \E x \in T : \A y \in T : ~(<<y, x>> \in R)
  <2> HIDE DEF R, T
  <2> QED BY <1>1, <1>2, WFMin
<1>4. PICK x \in T : \A y \in T : ~(<<y, x>> \in R)
  BY <1>3
<1>5. \A y \in T : ~(y < x)
  BY <1>2, <1>4 DEF OpToRel
<1>6. x \in 1..n
  <2>1. x \in 0..n /\ x \notin S
    BY <1>4
  <2>2. x # 0
    BY <2>1
  <2> QED BY <2>1, <2>2
<1>7. x - 1 \in 0..n /\ x - 1 < x
  BY <1>6
<1>8. x - 1 \in S
  BY <1>5, <1>7
<1> QED BY <1>4, <1>6, <1>8

(* A nonempty set of naturals has a least element.                         *)
LEMMA LeastNumber ==
  ASSUME NEW S, S \subseteq Nat, S # {}
  PROVE  \E i \in S : \A j \in S : i <= j
<1> DEFINE R == OpToRel(<, Nat)
<1>1. IsWellFoundedOn(R, Nat)
  BY NatLessThanWellFounded
<1>2. \E x \in S : \A y \in S : ~(<<y, x>> \in R)
  <2> HIDE DEF R
  <2> QED BY <1>1, WFMin
<1>3. PICK x \in S : \A y \in S : ~(<<y, x>> \in R)
  BY <1>2
<1>4. \A y \in S : ~(y < x)
  BY <1>3 DEF OpToRel
<1> QED BY <1>4

(* A nonempty set of places of a list has a greatest element.              *)
LEMMA GreatestNumber ==
  ASSUME NEW n \in Nat, NEW S, S \subseteq 1..n, S # {}
  PROVE  \E i \in S : \A j \in S : j <= i
<1> DEFINE T == {n - i : i \in S}
<1>1. T \subseteq Nat /\ T # {}
  <2>1. \A i \in S : n - i \in Nat
    OBVIOUS
  <2> QED BY <2>1
<1>2. PICK x \in T : \A y \in T : x <= y
  <2> HIDE DEF T
  <2> QED BY <1>1, LeastNumber
<1>3. PICK i \in S : x = n - i
  BY <1>2
<1>4. \A j \in S : n - i <= n - j
  BY <1>2, <1>3
<1> QED BY <1>4

-----------------------------------------------------------------------------
(***************************************************************************)
(* A function on 0..L may be defined by a first value and a step from each *)
(* value to the next.                                                      *)
(***************************************************************************)
IsStep(step, L, V) == \A n \in 1..L : \A v \in V : step[<<n, v>>] \in V

Iterates(f, L, V, first, step) ==
  /\ f \in [0..L -> V]
  /\ f[0] = first
  /\ \A n \in 1..L : f[n] = step[<<n, f[n - 1]>>]

LEMMA RecursionExists ==
  ASSUME NEW L \in Nat, NEW V, NEW first \in V, NEW step, IsStep(step, L, V)
  PROVE  \E f : Iterates(f, L, V, first, step)
<1> DEFINE Follows(g, m) == Iterates(g, m, V, first, step)
           Ms == {m \in 0..L : \E g : Follows(g, m)}
<1>1. 0 \in Ms
  <2> DEFINE g == [n \in 0..0 |-> first]
  <2>1. Follows(g, 0)
    BY DEF Iterates
  <2> HIDE DEF Follows
  <2> QED BY <2>1
<1>2. ASSUME NEW m \in 1..L, m - 1 \in Ms PROVE m \in Ms
  <2>1. PICK g : Follows(g, m - 1)
    BY <1>2
  <2> DEFINE f == [n \in 0..m |-> IF n = m THEN step[<<m, g[m - 1]>>] ELSE g[n]]
  <2>2. /\ g \in [0..(m - 1) -> V] /\ g[0] = first
        /\ \A n \in 1..(m - 1) : g[n] = step[<<n, g[n - 1]>>]
    BY <2>1 DEF Iterates
  <2>3. step[<<m, g[m - 1]>>] \in V
    BY <2>2 DEF IsStep
  <2>4. /\ f \in [0..m -> V] /\ f[m] = step[<<m, g[m - 1]>>]
        /\ \A n \in 0..(m - 1) : f[n] = g[n]
    BY <2>2, <2>3
  <2> HIDE DEF f
  <2>5. f[0] = first
    BY <2>2, <2>4
  <2>6. ASSUME NEW n \in 1..m PROVE f[n] = step[<<n, f[n - 1]>>]
    <3>1. n - 1 \in 0..(m - 1) /\ f[n - 1] = g[n - 1]
      BY <2>4
    <3>2. CASE n = m
      BY <3>1, <3>2, <2>4
    <3>3. CASE n # m
      <4>1. n \in 1..(m - 1) /\ f[n] = g[n]
        BY <3>3, <2>4
      <4> QED BY <4>1, <3>1, <2>2
    <3> QED BY <3>2, <3>3
  <2>7. Follows(f, m)
    BY <2>4, <2>5, <2>6 DEF Iterates
  <2> HIDE DEF Follows
  <2> QED BY <2>7
<1>3. \A m \in 0..L : m \in Ms
  <2> HIDE DEF Ms
  <2> QED BY <1>1, <1>2, UpTo
<1>4. L \in Ms
  <2> HIDE DEF Ms
  <2> QED BY <1>3
<1> QED BY <1>4

-----------------------------------------------------------------------------
(* The equations of the function that OnlyIn is defined by.                *)
LEMMA OnlyInUnfolds ==
  ASSUME NEW A, NEW s \in Seq(A), NEW S
  PROVE  \E f : /\ OnlyIn(s, S) = f[Len(s)]
                /\ f[0] = <<>>
                /\ \A n \in 1..Len(s) :
                     f[n] = IF s[n] \in S THEN Append(f[n - 1], s[n]) ELSE f[n - 1]
<1> DEFINE L == Len(s)
           Kept(f) == f = [n \in 0..Len(s) |->
                             IF n = 0 THEN <<>>
                             ELSE IF s[n] \in S THEN Append(f[n - 1], s[n]) ELSE f[n - 1]]
           step == [x \in (1..L) \X Seq(A) |->
                      IF s[x[1]] \in S THEN Append(x[2], s[x[1]]) ELSE x[2]]
<1>1. L \in Nat /\ \A n \in 1..L : s[n] \in A
  OBVIOUS
<1> HIDE DEF L
<1>2. step \in [(1..L) \X Seq(A) -> Seq(A)]
  BY <1>1
<1>3. \A n \in 1..L, t \in Seq(A) :
        step[<<n, t>>] = IF s[n] \in S THEN Append(t, s[n]) ELSE t
  OBVIOUS
<1>4. <<>> \in Seq(A)
  OBVIOUS
<1> HIDE DEF step
<1>5. PICK f \in [0..L -> Seq(A)] :
        f[0] = <<>> /\ \A n \in 1..L : f[n] = step[<<n, f[n - 1]>>]
  <2> DEFINE V == Seq(A)
             e == <<>>
  <2>1. e \in V /\ IsStep(step, L, V)
    BY <1>2, <1>4 DEF IsStep
  <2>2. \E f : Iterates(f, L, V, e, step)
    <3> HIDE DEF V, e
    <3> QED BY <2>1, <1>1, RecursionExists
  <2> QED BY <2>2 DEF Iterates
<1>6. \A n \in 1..L : f[n] = IF s[n] \in S THEN Append(f[n - 1], s[n]) ELSE f[n - 1]
  <2> TAKE n \in 1..L
  <2>1. f[n - 1] \in Seq(A)
    BY <1>1, <1>5
  <2> QED BY <2>1, <1>3, <1>5
<1>7. \A n \in 0..L : f[n] = IF n = 0 THEN <<>>
                             ELSE IF s[n] \in S THEN Append(f[n - 1], s[n]) ELSE f[n - 1]
  <2> TAKE n \in 0..L
  <2>1. n = 0 \/ n \in 1..L
    BY <1>1
  <2>2. CASE n = 0
    BY <2>2, <1>5
  <2>3. CASE n \in 1..L
    <3>1. n # 0
      BY <2>3
    <3> QED BY <3>1, <2>3, <1>6, Zenon
  <2> QED BY <2>1, <2>2, <2>3
<1>8. f = [n \in 0..L |-> f[n]]
  BY <1>5
<1>9. Kept(f)
  BY <1>7, <1>8 DEF L
<1>10. \E g : Kept(g) /\ OnlyIn(s, S) = g[Len(s)]
  BY <1>9, Zenon DEF OnlyIn
<1>11. PICK g : Kept(g) /\ OnlyIn(s, S) = g[Len(s)]
  BY <1>10
<1>12. \A n \in 0..L : g[n] = IF n = 0 THEN <<>>
                              ELSE IF s[n] \in S THEN Append(g[n - 1], s[n]) ELSE g[n - 1]
  BY <1>11 DEF L
<1>13. 0 \in 0..L /\ \A n \in 1..L : n \in 0..L /\ n # 0
  BY <1>1
<1>14. g[0] = <<>>
  BY <1>12, <1>13
<1>15. \A n \in 1..L : g[n] = IF s[n] \in S THEN Append(g[n - 1], s[n]) ELSE g[n - 1]
  BY <1>12, <1>13
<1> QED BY <1>11, <1>14, <1>15 DEF L

(***************************************************************************)
(* OnlyIn returns the elements of s that are in S, at their places from    *)
(* the first to the last.                                                  *)
(***************************************************************************)
LEMMA OnlyInPlaces ==
  ASSUME NEW A, NEW s \in Seq(A), NEW S
  PROVE  /\ OnlyIn(s, S) \in Seq(A)
         /\ \E e \in [1..Len(OnlyIn(s, S)) -> 1..Len(s)] :
              /\ \A j \in 1..Len(OnlyIn(s, S)) :
                   OnlyIn(s, S)[j] = s[e[j]] /\ s[e[j]] \in S
              /\ \A j, k \in 1..Len(OnlyIn(s, S)) : j < k => e[j] < e[k]
              /\ \A i \in 1..Len(s) :
                   s[i] \in S => \E j \in 1..Len(OnlyIn(s, S)) : e[j] = i
<1>1. PICK f : /\ OnlyIn(s, S) = f[Len(s)]
               /\ f[0] = <<>>
               /\ \A n \in 1..Len(s) :
                    f[n] = IF s[n] \in S THEN Append(f[n - 1], s[n]) ELSE f[n - 1]
  BY OnlyInUnfolds
<1>2. Len(s) \in Nat /\ \A i \in 1..Len(s) : s[i] \in A
  OBVIOUS
<1>3. f[0] = <<>>
  BY <1>1
<1>4. \A n \in 1..Len(s) :
        f[n] = IF s[n] \in S THEN Append(f[n - 1], s[n]) ELSE f[n - 1]
  BY <1>1
<1> DEFINE Good(t, e, n) ==
             /\ e \in [1..Len(t) -> 1..n]
             /\ \A j \in 1..Len(t) : t[j] = s[e[j]] /\ s[e[j]] \in S
             /\ \A j, k \in 1..Len(t) : j < k => e[j] < e[k]
             /\ \A i \in 1..n : s[i] \in S => \E j \in 1..Len(t) : e[j] = i
           Ns == {n \in 0..Len(s) : f[n] \in Seq(A) /\ \E e : Good(f[n], e, n)}
<1>5. 0 \in Ns
  <2> DEFINE e == [j \in 1..0 |-> 0]
  <2>1. Good(<<>>, e, 0)
    OBVIOUS
  <2>2. 0 \in 0..Len(s) /\ f[0] \in Seq(A)
    BY <1>2, <1>3
  <2> HIDE DEF Good
  <2> QED BY <2>1, <2>2, <1>3
<1>6. ASSUME NEW n \in 1..Len(s), n - 1 \in Ns PROVE n \in Ns
  <2>1. f[n - 1] \in Seq(A)
    BY <1>6
  <2>2. PICK e : Good(f[n - 1], e, n - 1)
    BY <1>6
  <2>3. CASE s[n] \notin S
    <3>1. f[n] = f[n - 1]
      BY <1>4, <2>3
    <3>2. e \in [1..Len(f[n - 1]) -> 1..n]
      BY <2>1, <2>2
    <3>3. \A i \in 1..n : s[i] \in S => i \in 1..(n - 1)
      BY <2>3
    <3>4. Good(f[n - 1], e, n)
      BY <2>2, <3>2, <3>3
    <3> HIDE DEF Good
    <3> QED BY <2>1, <3>1, <3>4
  <2>4. CASE s[n] \in S
    <3> DEFINE t == f[n - 1]
               l == Len(t)
               u == Append(t, s[n])
               d == [j \in 1..(l + 1) |-> IF j = l + 1 THEN n ELSE e[j]]
    <3>1. f[n] = u
      BY <1>4, <2>4
    <3>2. l \in Nat /\ u \in Seq(A) /\ Len(u) = l + 1 /\ u[l + 1] = s[n]
          /\ \A j \in 1..l : u[j] = t[j]
      BY <2>1, <1>2
    <3>3. d \in [1..(l + 1) -> 1..n] /\ d[l + 1] = n /\ \A j \in 1..l : d[j] = e[j]
      BY <2>2, <3>2
    <3>4. \A j \in 1..l : e[j] \in 1..(n - 1) /\ t[j] = s[e[j]] /\ s[e[j]] \in S
      BY <2>2
    <3>5. \A j, k \in 1..l : j < k => e[j] < e[k]
      BY <2>2
    <3>6. \A i \in 1..(n - 1) : s[i] \in S => \E j \in 1..l : e[j] = i
      BY <2>2
    <3> HIDE DEF t, l, u, d
    <3>7. \A j \in 1..(l + 1) : u[j] = s[d[j]] /\ s[d[j]] \in S
      BY <3>2, <3>3, <3>4, <2>4
    <3>8. ASSUME NEW j \in 1..(l + 1), NEW k \in 1..(l + 1), j < k PROVE d[j] < d[k]
      <4>1. j \in 1..l /\ d[j] = e[j] /\ e[j] \in 1..(n - 1)
        BY <3>2, <3>3, <3>4, <3>8
      <4>2. CASE k = l + 1
        BY <4>1, <4>2, <3>3
      <4>3. CASE k # l + 1
        <5>1. k \in 1..l /\ d[k] = e[k]
          BY <4>3, <3>2, <3>3
        <5> QED BY <5>1, <4>1, <3>5, <3>8
      <4> QED BY <4>2, <4>3
    <3>9. \A i \in 1..n : s[i] \in S => \E j \in 1..(l + 1) : d[j] = i
      <4> SUFFICES ASSUME NEW i \in 1..n, s[i] \in S PROVE \E j \in 1..(l + 1) : d[j] = i
        OBVIOUS
      <4>1. CASE i = n
        BY <4>1, <3>2, <3>3
      <4>2. CASE i # n
        <5>1. PICK j \in 1..l : e[j] = i
          BY <4>2, <3>6
        <5> QED BY <5>1, <3>2, <3>3
      <4> QED BY <4>1, <4>2
    <3>10. Good(u, d, n)
      BY <3>2, <3>3, <3>7, <3>8, <3>9
    <3> HIDE DEF Good
    <3> QED BY <3>1, <3>2, <3>10
  <2> QED BY <2>3, <2>4
<1>7. \A n \in 0..Len(s) : n \in Ns
  <2> HIDE DEF Ns
  <2> QED BY <1>2, <1>5, <1>6, UpTo
<1>8. f[Len(s)] \in Seq(A) /\ \E e : Good(f[Len(s)], e, Len(s))
  <2>1. Len(s) \in Ns
    <3> HIDE DEF Ns
    <3> QED BY <1>2, <1>7
  <2> HIDE DEF Good
  <2> QED BY <2>1
<1>9. PICK e : Good(f[Len(s)], e, Len(s))
  BY <1>8
<1> DEFINE r == OnlyIn(s, S)
<1>10. r = f[Len(s)]
  BY <1>1
<1>11. r \in Seq(A) /\ Good(r, e, Len(s))
  <2> HIDE DEF Good, r
  <2> QED BY <1>8, <1>9, <1>10
<1> HIDE DEF r
<1>12. r \in Seq(A) /\ \E d \in [1..Len(r) -> 1..Len(s)] :
              /\ \A j \in 1..Len(r) : r[j] = s[d[j]] /\ s[d[j]] \in S
              /\ \A j, k \in 1..Len(r) : j < k => d[j] < d[k]
              /\ \A i \in 1..Len(s) : s[i] \in S => \E j \in 1..Len(r) : d[j] = i
  BY <1>11
<1> QED BY <1>12 DEF r

(* Nothing is taken out of a list whose elements are all in S.             *)
LEMMA OnlyInAll ==
  ASSUME NEW A, NEW s \in Seq(A), NEW S, \A i \in 1..Len(s) : s[i] \in S
  PROVE  OnlyIn(s, S) = s
<1>1. PICK f : /\ OnlyIn(s, S) = f[Len(s)]
               /\ f[0] = <<>>
               /\ \A n \in 1..Len(s) :
                    f[n] = IF s[n] \in S THEN Append(f[n - 1], s[n]) ELSE f[n - 1]
  BY OnlyInUnfolds
<1>2. Len(s) \in Nat /\ \A i \in 1..Len(s) : s[i] \in A
  OBVIOUS
<1>3. f[0] = <<>>
  BY <1>1
<1>4. \A n \in 1..Len(s) : f[n] = Append(f[n - 1], s[n])
  BY <1>1
<1> DEFINE Ns == {n \in 0..Len(s) : f[n] = SubSeq(s, 1, n)}
<1>5. 0 \in Ns
  <2>1. SubSeq(s, 1, 0) = <<>> /\ 0 \in 0..Len(s)
    BY <1>2, SubSeqEmpty
  <2> QED BY <2>1, <1>3
<1>6. ASSUME NEW n \in 1..Len(s), n - 1 \in Ns PROVE n \in Ns
  <2>1. f[n - 1] = SubSeq(s, 1, n - 1) /\ f[n] = Append(f[n - 1], s[n])
    BY <1>4, <1>6
  <2>2. Append(SubSeq(s, 1, n - 1), s[n]) = SubSeq(s, 1, n)
    BY <1>2
  <2> QED BY <2>1, <2>2
<1>7. \A n \in 0..Len(s) : n \in Ns
  <2> HIDE DEF Ns
  <2> QED BY <1>2, <1>5, <1>6, UpTo
<1>8. f[Len(s)] = SubSeq(s, 1, Len(s))
  BY <1>2, <1>7
<1> QED BY <1>1, <1>8, SubSeqFull

(* One more element at the end.                                            *)
LEMMA OnlyInAppend ==
  ASSUME NEW A, NEW s \in Seq(A), NEW x \in A, NEW S
  PROVE  OnlyIn(Append(s, x), S) = IF x \in S THEN Append(OnlyIn(s, S), x) ELSE OnlyIn(s, S)
<1> DEFINE L == Len(s)
           long == Append(s, x)
<1>1. /\ L \in Nat /\ long \in Seq(A) /\ Len(long) = L + 1 /\ long[L + 1] = x
      /\ \A n \in 1..L : long[n] = s[n]
  OBVIOUS
<1>2. PICK g : /\ OnlyIn(s, S) = g[L] /\ g[0] = <<>>
               /\ \A n \in 1..L : g[n] = IF s[n] \in S THEN Append(g[n - 1], s[n]) ELSE g[n - 1]
  BY OnlyInUnfolds
<1> HIDE DEF long
<1>3. PICK f : /\ OnlyIn(long, S) = f[L + 1] /\ f[0] = <<>>
               /\ \A n \in 1..(L + 1) : f[n] = IF long[n] \in S THEN Append(f[n - 1], long[n]) ELSE f[n - 1]
  BY <1>1, OnlyInUnfolds
<1> HIDE DEF L
<1> DEFINE T == {n \in 0..L : f[n] = g[n]}
<1>4. 0 \in T
  BY <1>1, <1>2, <1>3
<1>5. ASSUME NEW n \in 1..L, n - 1 \in T PROVE n \in T
  <2>1. n \in 1..(L + 1) /\ n \in 0..L /\ f[n - 1] = g[n - 1]
    BY <1>1, <1>5
  <2>2. f[n] = g[n]
    BY <2>1, <1>1, <1>2, <1>3
  <2> QED BY <2>1, <2>2
<1>6. \A n \in 0..L : n \in T
  <2> HIDE DEF T
  <2> QED BY <1>1, <1>4, <1>5, UpTo
<1>7. f[L] = g[L]
  BY <1>1, <1>6
<1>8. f[L + 1] = IF x \in S THEN Append(f[L], x) ELSE f[L]
  <2>1. L + 1 \in 1..(L + 1) /\ (L + 1) - 1 = L
    BY <1>1
  <2> QED BY <2>1, <1>1, <1>3
<1> QED BY <1>2, <1>3, <1>7, <1>8 DEF long

LEMMA OnlyInEmpty ==
  ASSUME NEW A, NEW s \in Seq(A), NEW S
  PROVE  Len(s) = 0 => OnlyIn(s, S) = <<>>
<1>1. PICK f : /\ OnlyIn(s, S) = f[Len(s)]
               /\ f[0] = <<>>
               /\ \A n \in 1..Len(s) :
                    f[n] = IF s[n] \in S THEN Append(f[n - 1], s[n]) ELSE f[n - 1]
  BY OnlyInUnfolds
<1> QED BY <1>1

(* The first n elements of a list.                                         *)
LEMMA FrontPart ==
  ASSUME NEW A, NEW s \in Seq(A), NEW n \in 0..Len(s)
  PROVE  /\ SubSeq(s, 1, n) \in Seq(A) /\ Len(SubSeq(s, 1, n)) = n
         /\ \A k \in 1..n : SubSeq(s, 1, n)[k] = s[k]
<1>1. Len(s) \in Nat /\ n \in Nat
  OBVIOUS
<1>2. \A k \in 1..n : k \in 1..Len(s)
  BY <1>1
<1>3. \A k \in 1..n : s[k] \in A
  BY <1>2
<1>4. /\ SubSeq(s, 1, n) \in Seq(A)
      /\ Len(SubSeq(s, 1, n)) = IF 1 <= n THEN n - 1 + 1 ELSE 0
      /\ \A k \in 1..(n - 1 + 1) : SubSeq(s, 1, n)[k] = s[1 + k - 1]
  BY <1>1, <1>3, SubSeqProperties
<1>5. \A k \in 1..n : k \in 1..(n - 1 + 1) /\ 1 + k - 1 = k
  BY <1>1
<1>6. (IF 1 <= n THEN n - 1 + 1 ELSE 0) = n
  BY <1>1
<1> QED BY <1>4, <1>5, <1>6

(* Two lists, one after the other.                                         *)
LEMMA ConcatParts ==
  ASSUME NEW A, NEW s \in Seq(A), NEW t \in Seq(A)
  PROVE  /\ s \o t \in Seq(A) /\ Len(s \o t) = Len(s) + Len(t)
         /\ \A k \in 1..Len(s) : (s \o t)[k] = s[k]
         /\ \A k \in 1..Len(t) : (s \o t)[Len(s) + k] = t[k]
<1> DEFINE m == Len(s)
           n == Len(t)
           u == s \o t
<1>1. m \in Nat /\ n \in Nat
  OBVIOUS
<1>2. /\ u \in Seq(A) /\ Len(u) = m + n
      /\ \A i \in 1..(m + n) : u[i] = IF i <= m THEN s[i] ELSE t[i - m]
  BY ConcatProperties
<1> HIDE DEF m, n, u
<1>3. \A k \in 1..m : k \in 1..(m + n) /\ k <= m
  BY <1>1
<1>4. \A k \in 1..n : m + k \in 1..(m + n) /\ ~(m + k <= m) /\ (m + k) - m = k
  BY <1>1
<1>5. \A k \in 1..m : u[k] = s[k]
  BY <1>2, <1>3
<1>6. \A k \in 1..n : u[m + k] = t[k]
  BY <1>2, <1>4
<1> QED BY <1>2, <1>5, <1>6 DEF m, n, u

(* The elements from place f to place m of a list.                         *)
LEMMA MiddlePart ==
  ASSUME NEW A, NEW s \in Seq(A), NEW m \in 0..Len(s), NEW f \in 1..(m + 1)
  PROVE  /\ SubSeq(s, f, m) \in Seq(A) /\ Len(SubSeq(s, f, m)) = m - f + 1
         /\ \A k \in 1..(m - f + 1) : SubSeq(s, f, m)[k] = s[f + k - 1]
<1>1. Len(s) \in Nat /\ m \in Nat /\ f \in Nat /\ f >= 1 /\ f <= m + 1 /\ m <= Len(s)
  OBVIOUS
<1>2. \A k \in f..m : k \in 1..Len(s)
  BY <1>1
<1>3. \A k \in f..m : s[k] \in A
  BY <1>2
<1>4. /\ SubSeq(s, f, m) \in Seq(A)
      /\ Len(SubSeq(s, f, m)) = IF f <= m THEN m - f + 1 ELSE 0
      /\ \A k \in 1..(m - f + 1) : SubSeq(s, f, m)[k] = s[f + k - 1]
  BY <1>1, <1>3, SubSeqProperties
<1>5. (IF f <= m THEN m - f + 1 ELSE 0) = m - f + 1
  BY <1>1
<1> QED BY <1>4, <1>5
=============================================================================
