---------------------------- MODULE NetNodeProofs ----------------------------
(***************************************************************************)
(* Theorems about the peer lists and the connections of NetNode, for every *)
(* number of nodes, connections, sent lists and steps.                     *)
(***************************************************************************)
EXTENDS NetNode, SubsequenceProofs, FiniteSetTheorems, TLAPS

(* Every entry of s is one of t.                                           *)
From(s, t) == \A j \in DOMAIN s : \E i \in DOMAIN t : s[j] = t[i]

Stored(e) == [adr |-> e.adr, id |-> e.id]

(***************************************************************************)
(* Without: erase by address.                                              *)
(***************************************************************************)
LEMMA WithoutKeeps ==
  ASSUME NEW A, NEW list \in Seq(A), NEW adr, OncePerAddr(list)
  PROVE  /\ Without(list, adr) \in Seq(A)
         /\ From(Without(list, adr), list)
         /\ OncePerAddr(Without(list, adr))
         /\ AddrsOf(Without(list, adr)) = AddrsOf(list) \ {adr}
<1> DEFINE S == {e \in Range(list) : e.adr # adr}
           w == OnlyIn(list, S)
<1>1. PICK f \in [1..Len(w) -> 1..Len(list)] :
        /\ \A j \in 1..Len(w) : w[j] = list[f[j]] /\ list[f[j]] \in S
        /\ \A j, k \in 1..Len(w) : j < k => f[j] < f[k]
        /\ \A i \in 1..Len(list) : list[i] \in S => \E j \in 1..Len(w) : f[j] = i
  <2> HIDE DEF S
  <2> QED BY OnlyInPlaces
<1>2. w \in Seq(A)
  <2> HIDE DEF S
  <2> QED BY OnlyInPlaces
<1>3. \A i \in 1..Len(list) : list[i] \in S <=> list[i].adr # adr
  BY DEF Range
<1> HIDE DEF S, w
<1>4. DOMAIN w = 1..Len(w) /\ DOMAIN list = 1..Len(list) /\ Len(w) \in Nat
  BY <1>2
<1>5. From(w, list)
  BY <1>1, <1>4 DEF From
<1>6. OncePerAddr(w)
  <2> SUFFICES ASSUME NEW j \in 1..Len(w), NEW k \in 1..Len(w), w[j].adr = w[k].adr, j < k
               PROVE  FALSE
    BY <1>4 DEF OncePerAddr
  <2>1. list[f[j]].adr = list[f[k]].adr /\ f[j] \in 1..Len(list) /\ f[k] \in 1..Len(list)
    BY <1>1
  <2>2. f[j] = f[k]
    BY <2>1, <1>4 DEF OncePerAddr
  <2>3. f[j] < f[k]
    BY <1>1
  <2> QED BY <2>1, <2>2, <2>3
<1>7. AddrsOf(w) = AddrsOf(list) \ {adr}
  <2>1. ASSUME NEW a \in AddrsOf(w) PROVE a \in AddrsOf(list) \ {adr}
    <3>1. PICK j \in 1..Len(w) : a = w[j].adr
      BY <1>4 DEF AddrsOf
    <3>2. f[j] \in 1..Len(list) /\ a = list[f[j]].adr /\ a # adr
      BY <3>1, <1>1, <1>3
    <3> QED BY <3>2, <1>4 DEF AddrsOf
  <2>2. ASSUME NEW a \in AddrsOf(list), a # adr PROVE a \in AddrsOf(w)
    <3>1. PICK i \in 1..Len(list) : a = list[i].adr
      BY <1>4 DEF AddrsOf
    <3>2. PICK j \in 1..Len(w) : f[j] = i
      BY <3>1, <2>2, <1>1, <1>3
    <3>3. a = w[j].adr
      BY <3>1, <3>2, <1>1
    <3> QED BY <3>3, <1>4 DEF AddrsOf
  <2> QED BY <2>1, <2>2
<1>8. Without(list, adr) = w
  BY DEF Without, w, S
<1> QED BY <1>2, <1>5, <1>6, <1>7, <1>8

(***************************************************************************)
(* InsertByTime puts an entry in the place of the one of its address.      *)
(***************************************************************************)
LEMMA InsertAtPlaces ==
  ASSUME NEW A, NEW s \in Seq(A), NEW i \in 0..Len(s), NEW x \in A
  PROVE  /\ InsertAt(s, i + 1, x) \in Seq(A)
         /\ Len(InsertAt(s, i + 1, x)) = Len(s) + 1
         /\ \A j \in 1..(Len(s) + 1) :
              InsertAt(s, i + 1, x)[j] =
                IF j <= i THEN s[j] ELSE IF j = i + 1 THEN x ELSE s[j - 1]
<1> DEFINE a == SubSeq(s, 1, i)
           b == SubSeq(s, i + 1, Len(s))
<1>1. Len(s) \in Nat /\ i \in Nat
  OBVIOUS
<1>2. a \in Seq(A) /\ Len(a) = i /\ \A j \in 1..i : a[j] = s[j]
  BY <1>1
<1>3. b \in Seq(A) /\ Len(b) = Len(s) - i /\ \A j \in 1..(Len(s) - i) : b[j] = s[i + j]
  BY <1>1
<1>4. InsertAt(s, i + 1, x) = a \o <<x>> \o b
  <2>1. (i + 1) - 1 = i
    BY <1>1
  <2> QED BY <2>1, Zenon DEF InsertAt
<1> HIDE DEF a, b
<1> DEFINE m == a \o <<x>>
<1>5. m \in Seq(A) /\ Len(m) = i + 1 /\ m[i + 1] = x /\ \A j \in 1..i : m[j] = s[j]
  BY <1>1, <1>2
<1> HIDE DEF m
<1> DEFINE r == m \o b
<1>6. r \in Seq(A) /\ Len(r) = Len(s) + 1
  BY <1>1, <1>3, <1>5
<1>7. ASSUME NEW j \in 1..(Len(s) + 1)
      PROVE  r[j] = IF j <= i THEN s[j] ELSE IF j = i + 1 THEN x ELSE s[j - 1]
  <2>1. CASE j <= i + 1
    BY <1>1, <1>3, <1>5, <2>1
  <2>2. CASE j > i + 1
    <3>1. r[j] = b[j - (i + 1)]
      BY <1>1, <1>3, <1>5, <2>2
    <3>2. j - (i + 1) \in 1..(Len(s) - i) /\ i + (j - (i + 1)) = j - 1
      BY <1>1, <2>2
    <3> QED BY <3>1, <3>2, <1>3, <2>2, <1>1
  <2>3. j \in Int /\ i + 1 \in Int
    BY <1>1
  <2> HIDE DEF r
  <2>4. j <= i + 1 \/ j > i + 1
    BY <2>3
  <2> QED BY <2>4, <2>1, <2>2
<1>8. InsertAt(s, i + 1, x) = r
  BY <1>4 DEF m
<1> HIDE DEF r
<1> QED BY <1>6, <1>7, <1>8
LEMMA InsertByTimeKeeps ==
  ASSUME NEW A, NEW list \in Seq(A), OncePerAddr(list),
         NEW e, Stored(e) \in A, e.younger \in Nat
  PROVE  /\ InsertByTime(list, e) \in Seq(A)
         /\ InsertByTime(list, e) # <<>>
         /\ \A j \in DOMAIN InsertByTime(list, e) :
              \/ InsertByTime(list, e)[j] = Stored(e)
              \/ \E i \in DOMAIN list : InsertByTime(list, e)[j] = list[i]
         /\ OncePerAddr(InsertByTime(list, e))
         /\ AddrsOf(InsertByTime(list, e)) = AddrsOf(list) \cup {e.adr}
<1> DEFINE w == Without(list, e.adr)
           x == Stored(e)
           i == IF e.younger <= Len(w) THEN Len(w) - e.younger ELSE 0
           r == InsertAt(w, i + 1, x)
<1>1. /\ w \in Seq(A) /\ From(w, list) /\ OncePerAddr(w)
      /\ AddrsOf(w) = AddrsOf(list) \ {e.adr}
  BY WithoutKeeps
<1>2. InsertByTime(list, e) = r
  BY DEF InsertByTime, Stored
<1>3. x \in A /\ x.adr = e.adr
  BY DEF Stored
<1> HIDE DEF w, x
<1>4. Len(w) \in Nat /\ i \in 0..Len(w)
  BY <1>1
<1> HIDE DEF i
<1>5. /\ r \in Seq(A) /\ Len(r) = Len(w) + 1
      /\ \A j \in 1..(Len(w) + 1) :
           r[j] = IF j <= i THEN w[j] ELSE IF j = i + 1 THEN x ELSE w[j - 1]
  BY <1>1, <1>3, <1>4, InsertAtPlaces
<1> HIDE DEF r
<1>6. DOMAIN r = 1..(Len(w) + 1) /\ DOMAIN w = 1..Len(w) /\ i + 1 \in DOMAIN r /\ r[i + 1] = x
  BY <1>1, <1>4, <1>5
<1> DEFINE Old(j) == IF j <= i THEN j ELSE j - 1
<1>7. ASSUME NEW j \in DOMAIN r, j # i + 1 PROVE Old(j) \in DOMAIN w /\ r[j] = w[Old(j)]
  BY <1>4, <1>5, <1>6, <1>7
<1>8. ASSUME NEW k \in DOMAIN w PROVE \E j \in DOMAIN r : j # i + 1 /\ r[j] = w[k]
  <2>1. CASE k <= i
    BY <1>4, <1>5, <1>6, <2>1
  <2>2. CASE ~(k <= i)
    <3>1. k + 1 \in DOMAIN r /\ k + 1 # i + 1 /\ r[k + 1] = w[(k + 1) - 1] /\ (k + 1) - 1 = k
      BY <1>4, <1>5, <1>6, <2>2
    <3> QED BY <3>1
  <2> QED BY <2>1, <2>2
<1>9. \A k \in DOMAIN w : w[k].adr # x.adr
  BY <1>1, <1>3, Zenon DEF AddrsOf
<1>10. \A j, k \in DOMAIN r : j # i + 1 /\ k # i + 1 /\ Old(j) = Old(k) => j = k
  BY <1>4, <1>6
<1>11. r # <<>>
  BY <1>6
<1>12. \A j \in DOMAIN r : r[j] = x \/ \E k \in DOMAIN list : r[j] = list[k]
  <2> SUFFICES ASSUME NEW j \in DOMAIN r, j # i + 1
               PROVE  \E k \in DOMAIN list : r[j] = list[k]
    BY <1>6
  <2> HIDE DEF Old
  <2> QED BY <1>7, <1>1 DEF From
<1>13. OncePerAddr(r)
  <2> HIDE DEF Old
  <2> SUFFICES ASSUME NEW j \in DOMAIN r, NEW k \in DOMAIN r, r[j].adr = r[k].adr
               PROVE  j = k
    BY DEF OncePerAddr
  <2>1. CASE j = i + 1 /\ k # i + 1
    BY <2>1, <1>6, <1>7, <1>9
  <2>2. CASE j # i + 1 /\ k = i + 1
    BY <2>2, <1>6, <1>7, <1>9
  <2>3. CASE j # i + 1 /\ k # i + 1
    <3>1. Old(j) \in DOMAIN w /\ Old(k) \in DOMAIN w /\ w[Old(j)].adr = w[Old(k)].adr
      BY <2>3, <1>7
    <3>2. Old(j) = Old(k)
      BY <3>1, <1>1 DEF OncePerAddr
    <3> QED BY <3>2, <2>3, <1>10
  <2> QED BY <2>1, <2>2, <2>3
<1>14. AddrsOf(r) = AddrsOf(list) \cup {e.adr}
  <2> HIDE DEF Old
  <2>1. ASSUME NEW a \in AddrsOf(r), a # e.adr PROVE a \in AddrsOf(w)
    <3>1. PICK j \in DOMAIN r : a = r[j].adr
      BY DEF AddrsOf
    <3>2. j # i + 1
      BY <3>1, <1>6, <1>3, <2>1
    <3> QED BY <3>1, <3>2, <1>7 DEF AddrsOf
  <2>2. e.adr \in AddrsOf(r)
    BY <1>6, <1>3 DEF AddrsOf
  <2>3. ASSUME NEW a \in AddrsOf(w) PROVE a \in AddrsOf(r)
    <3>1. PICK k \in DOMAIN w : a = w[k].adr
      BY DEF AddrsOf
    <3>2. PICK j \in DOMAIN r : r[j] = w[k]
      BY <1>8
    <3> QED BY <3>1, <3>2 DEF AddrsOf
  <2> QED BY <2>1, <2>2, <2>3, <1>1
<1> QED BY <1>2, <1>5, <1>11, <1>12, <1>13, <1>14 DEF x

LEMMA YoungestKeeps ==
  ASSUME NEW A, NEW list \in Seq(A), NEW n \in Nat \ {0}, OncePerAddr(list)
  PROVE  /\ Youngest(list, n) \in Seq(A)
         /\ From(Youngest(list, n), list)
         /\ OncePerAddr(Youngest(list, n))
         /\ AddrsOf(Youngest(list, n)) \subseteq AddrsOf(list)
         /\ list # <<>> => Youngest(list, n) # <<>>
<1>1. CASE Len(list) <= n
  <2>1. Youngest(list, n) = list
    BY <1>1 DEF Youngest
  <2> QED BY <2>1 DEF From
<1>2. CASE ~(Len(list) <= n)
  <2> DEFINE d == Len(list) - n
             y == SubSeq(list, d + 1, Len(list))
  <2>1. Len(list) \in Nat /\ d \in Nat /\ d + n = Len(list)
    BY <1>2
  <2>2. Youngest(list, n) = y
    BY <1>2 DEF Youngest
  <2> HIDE DEF d
  <2>3. y \in Seq(A) /\ Len(y) = n /\ \A j \in 1..n : y[j] = list[d + j]
    BY <2>1
  <2> HIDE DEF y
  <2>4. DOMAIN y = 1..n /\ DOMAIN list = 1..Len(list)
    BY <2>3
  <2>5. \A j \in DOMAIN y : d + j \in DOMAIN list /\ y[j] = list[d + j]
    BY <2>1, <2>3, <2>4
  <2>6. y # <<>>
    BY <2>4
  <2>7. From(y, list)
    BY <2>5 DEF From
  <2>8. OncePerAddr(y)
    <3> SUFFICES ASSUME NEW j \in DOMAIN y, NEW k \in DOMAIN y, y[j].adr = y[k].adr
                 PROVE  j = k
      BY DEF OncePerAddr
    <3>1. d + j = d + k
      BY <2>5 DEF OncePerAddr
    <3> QED BY <3>1, <2>1, <2>4
  <2>9. AddrsOf(y) \subseteq AddrsOf(list)
    BY <2>5 DEF AddrsOf
  <2> QED BY <2>2, <2>3, <2>6, <2>7, <2>8, <2>9
<1> QED BY <1>1, <1>2
-----------------------------------------------------------------------------
(***************************************************************************)
(* The operations of peerlist_manager keep the lists apart and with every  *)
(* address once.  Only append_with_peer_white adds to the white list, and  *)
(* nothing that is not empty becomes empty there: a trim leaves the limit. *)
(***************************************************************************)
IsEntry(e) == e.adr \in Addrs /\ e.id \in Ids /\ e.younger \in Nat

LEMMA TrimWhite ==
  ASSUME NEW p, ArePeerLists(p)
  PROVE  /\ ArePeerLists(trim_white_peerlist(p))
         /\ trim_white_peerlist(p).white = p.white
         /\ AddrsOf(trim_white_peerlist(p).gray) \subseteq AddrsOf(p.gray)
<1> DEFINE g == Youngest(p.gray, GrayLimit)
<1>1. g \in Seq(Listed) /\ OncePerAddr(g) /\ AddrsOf(g) \subseteq AddrsOf(p.gray)
  BY YoungestKeeps, LimitAssumption DEF ArePeerLists
<1>2. trim_white_peerlist(p) = [white |-> p.white, gray |-> g]
  BY DEF trim_white_peerlist, ArePeerLists
<1> HIDE DEF g
<1> QED BY <1>1, <1>2 DEF ArePeerLists

LEMMA TrimGray ==
  ASSUME NEW p, ArePeerLists(p)
  PROVE  /\ ArePeerLists(trim_gray_peerlist(p))
         /\ trim_gray_peerlist(p).gray = p.gray
         /\ From(trim_gray_peerlist(p).white, p.white)
         /\ AddrsOf(trim_gray_peerlist(p).white) \subseteq AddrsOf(p.white)
         /\ p.white # <<>> => trim_gray_peerlist(p).white # <<>>
<1> DEFINE w == Youngest(p.white, WhiteLimit)
<1>1. /\ w \in Seq(Listed) /\ OncePerAddr(w) /\ AddrsOf(w) \subseteq AddrsOf(p.white)
      /\ From(w, p.white) /\ (p.white # <<>> => w # <<>>)
  BY YoungestKeeps, LimitAssumption DEF ArePeerLists
<1>2. trim_gray_peerlist(p) = [white |-> w, gray |-> p.gray]
  BY DEF trim_gray_peerlist, ArePeerLists
<1> HIDE DEF w
<1> QED BY <1>1, <1>2 DEF ArePeerLists

(* What append_with_peer_white makes of p, and merge_peerlist of p.        *)
SeenTo(p, q, e) ==
  /\ ArePeerLists(q)
  /\ \A j \in DOMAIN q.white :
       \/ q.white[j] = Stored(e) /\ is_ip_allowed(e.adr)
       \/ \E i \in DOMAIN p.white : q.white[j] = p.white[i]
  /\ AddrsOf(q.gray) \subseteq AddrsOf(p.gray)
  /\ is_ip_allowed(e.adr) \/ p.white # <<>> => q.white # <<>>

MergesTo(p, q) ==
  /\ ArePeerLists(q)
  /\ From(q.white, p.white)
  /\ p.white # <<>> => q.white # <<>>
  /\ AddrsOf(q.gray) \subseteq AddrsOf(p.gray) \cup (Addrs \ LocalAddrs)

LEMMA AppendWhite ==
  ASSUME NEW p, ArePeerLists(p), NEW e, IsEntry(e)
  PROVE  SeenTo(p, append_with_peer_white(p, e), e)
<1> DEFINE q == append_with_peer_white(p, e)
<1>1. CASE ~is_ip_allowed(e.adr)
  <2>1. q = p
    BY <1>1 DEF append_with_peer_white
  <2> QED BY <1>1, <2>1 DEF SeenTo
<1>2. CASE is_ip_allowed(e.adr)
  <2> DEFINE w == InsertByTime(p.white, e)
             g == Youngest(p.gray, GrayLimit)
             h == IF e.adr \in AddrsOf(p.white) THEN p.gray ELSE g
             v == Without(h, e.adr)
  <2>1. Stored(e) \in Listed /\ p.white \in Seq(Listed) /\ p.gray \in Seq(Listed)
    BY DEF Stored, Listed, IsEntry, ArePeerLists
  <2>2. /\ w \in Seq(Listed) /\ w # <<>> /\ OncePerAddr(w)
        /\ \A j \in DOMAIN w : w[j] = Stored(e) \/ \E i \in DOMAIN p.white : w[j] = p.white[i]
        /\ AddrsOf(w) = AddrsOf(p.white) \cup {e.adr}
    BY <2>1, InsertByTimeKeeps DEF ArePeerLists, IsEntry
  <2>3. h \in Seq(Listed) /\ OncePerAddr(h) /\ AddrsOf(h) \subseteq AddrsOf(p.gray)
    BY <2>1, YoungestKeeps, LimitAssumption DEF ArePeerLists
  <2>4. q = [white |-> w, gray |-> v]
    BY <1>2 DEF append_with_peer_white, trim_white_peerlist, ArePeerLists
  <2> HIDE DEF w, h
  <2>5. v \in Seq(Listed) /\ OncePerAddr(v) /\ AddrsOf(v) = AddrsOf(h) \ {e.adr}
    BY <2>3, WithoutKeeps
  <2> HIDE DEF v, q
  <2>6. q.white = w /\ q.gray = v
    BY <2>4
  <2>7. AddrsOf(v) \subseteq AddrsOf(p.gray) /\ AddrsOf(w) \cap AddrsOf(v) = {}
    BY <2>2, <2>3, <2>5 DEF ArePeerLists
  <2>8. ArePeerLists(q)
    BY <2>2, <2>4, <2>5, <2>6, <2>7 DEF ArePeerLists
  <2>9. SeenTo(p, q, e)
    BY <1>2, <2>2, <2>6, <2>7, <2>8 DEF SeenTo
  <2> QED BY <2>9 DEF q
<1> QED BY <1>1, <1>2

LEMMA AppendGray ==
  ASSUME NEW p, ArePeerLists(p), NEW e, IsEntry(e)
  PROVE  MergesTo(p, append_with_peer_gray(p, e))
<1> DEFINE q == append_with_peer_gray(p, e)
<1>1. CASE ~is_ip_allowed(e.adr) \/ e.adr \in AddrsOf(p.white)
  <2>1. q = p
    BY <1>1 DEF append_with_peer_gray
  <2> QED BY <2>1 DEF MergesTo, From
<1>2. CASE is_ip_allowed(e.adr) /\ e.adr \notin AddrsOf(p.white)
  <2> DEFINE g == InsertByTime(p.gray, e)
             r == [white |-> p.white, gray |-> g]
  <2>1. Stored(e) \in Listed /\ p.white \in Seq(Listed) /\ p.gray \in Seq(Listed)
    BY DEF Stored, Listed, IsEntry, ArePeerLists
  <2>2. g \in Seq(Listed) /\ OncePerAddr(g) /\ AddrsOf(g) = AddrsOf(p.gray) \cup {e.adr}
    BY <2>1, InsertByTimeKeeps DEF ArePeerLists, IsEntry
  <2>3. [p EXCEPT !.gray = InsertByTime(@, e)] = r
    BY DEF ArePeerLists
  <2>4. q = IF e.adr \in AddrsOf(p.gray) THEN r ELSE trim_gray_peerlist(r)
    <3> HIDE DEF r
    <3> QED BY <1>2, <2>3, Zenon DEF append_with_peer_gray
  <2> HIDE DEF g
  <2>5. r.white = p.white /\ r.gray = g /\ r \in [white : Seq(Listed), gray : Seq(Listed)]
    BY <2>1, <2>2
  <2> HIDE DEF r, q
  <2>6. ArePeerLists(r)
    BY <1>2, <2>2, <2>5 DEF ArePeerLists
  <2>7. e.adr \in Addrs \ LocalAddrs
    BY <1>2 DEF is_ip_allowed, IsEntry
  <2>8. CASE q = r
    BY <2>8, <2>2, <2>5, <2>6, <2>7 DEF MergesTo, From, q
  <2>9. CASE q = trim_gray_peerlist(r)
    <3>1. /\ ArePeerLists(q) /\ q.gray = g /\ From(q.white, p.white)
          /\ p.white # <<>> => q.white # <<>>
      BY <2>9, <2>5, <2>6, TrimGray
    <3> QED BY <3>1, <2>2, <2>7 DEF MergesTo, q
  <2> QED BY <2>4, <2>8, <2>9
<1> QED BY <1>1, <1>2

LEMMA MergesOn ==
  ASSUME NEW p, NEW q, NEW r, MergesTo(p, q), MergesTo(q, r)
  PROVE  MergesTo(p, r)
<1>1. From(r.white, p.white)
  BY DEF MergesTo, From
<1> QED BY <1>1 DEF MergesTo
LEMMA MergeKeeps ==
  ASSUME NEW p, ArePeerLists(p), NEW list, Len(list) \in Nat,
         \A n \in 1..Len(list) : IsEntry(list[n])
  PROVE  MergesTo(p, merge_peerlist(p, list))
<1> DEFINE L == Len(list)
           V == {q \in [white : Seq(Listed), gray : Seq(Listed)] : MergesTo(p, q)}
           step == [x \in (1..L) \X V |-> append_with_peer_gray(x[2], list[x[1]])]
           Merged(f) == f = [n \in 0..Len(list) |->
                               IF n = 0 THEN p
                               ELSE append_with_peer_gray(f[n - 1], list[n])]
<1>1. \A q : MergesTo(p, q) => q \in V
  BY DEF MergesTo, ArePeerLists
<1>2. p \in V
  BY <1>1 DEF MergesTo, From
<1>3. \A q \in V : MergesTo(p, q) /\ ArePeerLists(q)
  BY DEF MergesTo
<1> HIDE DEF L, V
<1>4. \A n \in 1..L, q \in V : append_with_peer_gray(q, list[n]) \in V
  <2> TAKE n \in 1..L, q \in V
  <2>1. IsEntry(list[n])
    BY DEF L
  <2>2. MergesTo(q, append_with_peer_gray(q, list[n]))
    BY <2>1, <1>3, AppendGray
  <2> QED BY <2>2, <1>3, <1>1, MergesOn
<1>5. \A n \in 1..L, q \in V : step[<<n, q>>] = append_with_peer_gray(q, list[n])
  OBVIOUS
<1> HIDE DEF step
<1>6. PICK f \in [0..L -> V] :
        f[0] = p /\ \A n \in 1..L : f[n] = step[<<n, f[n - 1]>>]
  <2>1. IsStep(step, L, V)
    BY <1>4, <1>5, Zenon DEF IsStep
  <2>2. \E f : Iterates(f, L, V, p, step)
    BY <2>1, <1>2, RecursionExists DEF L
  <2> QED BY <2>2 DEF Iterates
<1>7. L \in Nat
  BY DEF L
<1>8. \A n \in 1..L : f[n] = append_with_peer_gray(f[n - 1], list[n])
  <2> TAKE n \in 1..L
  <2>1. f[n - 1] \in V
    BY <1>6, <1>7
  <2> QED BY <2>1, <1>5, <1>6
<1>9. \A n \in 0..L : f[n] = IF n = 0 THEN p ELSE append_with_peer_gray(f[n - 1], list[n])
  <2> TAKE n \in 0..L
  <2>1. n = 0 \/ (n \in 1..L /\ n # 0)
    BY <1>7
  <2>2. CASE n = 0
    BY <2>2, <1>6
  <2>3. CASE n \in 1..L /\ n # 0
    BY <2>3, <1>8, Zenon
  <2> QED BY <2>1, <2>2, <2>3
<1>10. f = [n \in 0..L |-> f[n]]
  BY <1>6
<1>11. Merged(f)
  BY <1>9, <1>10 DEF L
<1>12. \E g : Merged(g) /\ merge_peerlist(p, list) = trim_gray_peerlist(g[Len(list)])
  BY <1>11, Zenon DEF merge_peerlist
<1>13. PICK g : Merged(g) /\ merge_peerlist(p, list) = trim_gray_peerlist(g[Len(list)])
  BY <1>12
<1>14. \A n \in 0..L : g[n] = IF n = 0 THEN p ELSE append_with_peer_gray(g[n - 1], list[n])
  BY <1>13 DEF L
<1> DEFINE S == {n \in 0..L : g[n] \in V}
<1>15. 0 \in S
  BY <1>2, <1>7, <1>14
<1>16. \A n \in 1..L : n - 1 \in S => n \in S
  <2> SUFFICES ASSUME NEW n \in 1..L, g[n - 1] \in V PROVE n \in 0..L /\ g[n] \in V
    OBVIOUS
  <2>1. n \in 0..L /\ n # 0
    BY <1>7
  <2>2. g[n] = append_with_peer_gray(g[n - 1], list[n])
    BY <2>1, <1>14, Zenon
  <2> QED BY <2>1, <2>2, <1>4
<1>17. L \in S
  <2>1. \A n \in 0..L : n \in S
    <3> HIDE DEF S
    <3> QED BY <1>7, <1>15, <1>16, UpTo
  <2> QED BY <2>1, <1>7
<1>18. MergesTo(p, g[L]) /\ ArePeerLists(g[L])
  BY <1>17, <1>3
<1>19. MergesTo(g[L], trim_gray_peerlist(g[L]))
  BY <1>18, TrimGray DEF MergesTo
<1> QED BY <1>13, <1>18, <1>19, MergesOn DEF L
-----------------------------------------------------------------------------
(***************************************************************************)
(* The inductive invariant.  ConnInv: connections are told apart by their  *)
(* numbers, and an id this node has for the far end of a connection it     *)
(* opened is one that end answered with.  MakerInv: the connection the     *)
(* maker waits for is the one it opened, and leads where it picked.        *)
(***************************************************************************)
Counted == IsFiniteSet(conns) /\ IsFiniteSet(closing) /\ IsFiniteSet(pings)

ConnInv ==
  /\ \A c, d \in conns : c.n = d.n => c = d
  /\ \A c \in conns : c.income => c.adr # Self
  /\ \A c \in conns : ~c.income /\ c.peer_id # NoId => <<c.adr, c.peer_id>> \in answered

Waiting == maker.pc \in {"handshake", "shaken"}

MakerInv ==
  /\ Waiting <=> maker.n # 0
  /\ maker.pc \in {"idle", "lists", "count", "pick"} => ~Seeding
  /\ (maker.pc \in {"pick", "connect"} \/ Waiting) /\ ~Seeding => maker.plan # <<>>
  /\ \A c \in MakersConn :
       ~c.income /\ c.adr = maker.adr /\ c.use = IF Seeding THEN "seed" ELSE "peer"
  /\ maker.pc = "shaken" /\ maker.ok /\ ~Seeding =>
       /\ IdOf(maker.adr) # my_id
       /\ <<maker.adr, IdOf(maker.adr)>> \in answered
       /\ \A c \in MakersConn : c.peer_id = IdOf(maker.adr)

NodeInv ==
  TypeOK /\ Counted /\ ArePeerLists(m_peerlist) /\ WhiteAnswered /\ ConnInv /\ MakerInv

LEMMA FreeNumberFresh ==
  ASSUME TypeOK, Counted
  PROVE  FreeNumber \in Nat \ {0} /\ FreeNumber \notin NumbersInUse
<1> DEFINE C == conns \cup closing
           A == {c.n : c \in C}
           B == {p.n : p \in pings}
           f == [c \in C |-> c.n]
           g == [p \in pings |-> p.n]
           N == NumbersInUse
           I == 1..(Cardinality(N) + 1)
<1>1. IsFiniteSet(A)
  <2>1. f \in Surjection(C, A)
    BY DEF Surjection
  <2>2. IsFiniteSet(C)
    BY FS_Union DEF Counted
  <2> HIDE DEF A, f, C
  <2> QED BY <2>1, <2>2, FS_Surjection
<1>2. IsFiniteSet(B)
  <2>1. g \in Surjection(pings, B)
    BY DEF Surjection
  <2> HIDE DEF B, g
  <2> QED BY <2>1, FS_Surjection DEF Counted
<1>3. IsFiniteSet(N)
  <2>1. N = (A \cup B) \cup {maker.n}
    BY DEF NumbersInUse
  <2> HIDE DEF A, B, N
  <2>2. IsFiniteSet(A \cup B)
    BY <1>1, <1>2, FS_Union
  <2> QED BY <2>1, <2>2, FS_AddElement
<1> HIDE DEF N
<1>4. Cardinality(N) \in Nat
  BY <1>3, FS_CardinalityType
<1>5. IsFiniteSet(I) /\ Cardinality(I) = Cardinality(N) + 1
  <2>1. Cardinality(I) = IF 1 > Cardinality(N) + 1 THEN 0 ELSE (Cardinality(N) + 1) - 1 + 1
    BY <1>4, FS_Interval
  <2>2. IsFiniteSet(I)
    BY <1>4, FS_Interval
  <2> QED BY <2>1, <2>2, <1>4
<1>6. \E n \in I : n \notin N
  <2> SUFFICES ASSUME I \in SUBSET N PROVE FALSE
    OBVIOUS
  <2> HIDE DEF I
  <2>1. Cardinality(I) <= Cardinality(N)
    BY <1>3, FS_Subset
  <2> QED BY <2>1, <1>4, <1>5
<1>7. FreeNumber \in I /\ FreeNumber \notin N
  BY <1>6 DEF FreeNumber, N
<1> QED BY <1>7, <1>4 DEF N

(***************************************************************************)
(* How the parts of the invariant are kept: by a step that only closes     *)
(* connections, by one that opens a connection, and by one after which the *)
(* maker waits for no connection.                                          *)
(***************************************************************************)
LEMMA Fewer ==
  ASSUME ConnInv, conns' \subseteq conns, answered \subseteq answered'
  PROVE  ConnInv'
BY DEF ConnInv

LEMMA FewerMaker ==
  ASSUME MakerInv, conns' \subseteq conns, maker' = maker, answered \subseteq answered'
  PROVE  MakerInv'
<1>1. MakersConn' \subseteq MakersConn
  BY DEF MakersConn
<1>2. (Seeding' <=> Seeding) /\ (Waiting' <=> Waiting)
  BY DEF Seeding, Waiting
<1> QED BY <1>1, <1>2 DEF MakerInv

LEMMA NotWaiting ==
  ASSUME conns' \subseteq Connection, maker' \in MakerStates,
         maker'.pc \in {"idle", "lists", "count", "pick", "connect"}, maker'.n = 0,
         maker'.pc # "connect" => maker'.seed = 0,
         maker'.pc \in {"pick", "connect"} /\ maker'.seed = 0 => maker'.plan # <<>>
  PROVE  MakerInv'
<1>1. MakersConn' = {}
  BY DEF MakersConn, Connection
<1>2. ~Waiting'
  BY DEF Waiting
<1>3. Seeding' <=> maker'.seed # 0
  BY DEF Seeding
<1> QED BY <1>1, <1>2, <1>3 DEF MakerInv

NewConn(adr, income, use) ==
  [n |-> FreeNumber, adr |-> adr, income |-> income, peer_id |-> NoId, use |-> use]

LEMMA OpenKeeps ==
  ASSUME NodeInv, NEW adr \in Addrs, NEW income \in BOOLEAN,
         NEW use \in {"seed", "peer", "ping", "income"}, income => adr # Self,
         Open(adr, income, use), answered' = answered
  PROVE  /\ conns' \subseteq Connection
         /\ IsFiniteSet(conns')
         /\ ConnInv'
<1> DEFINE k == NewConn(adr, income, use)
<1>1. FreeNumber \in Nat \ {0} /\ FreeNumber \notin NumbersInUse
  BY FreeNumberFresh DEF NodeInv
<1>2. conns' = conns \cup {k}
  BY DEF Open, NewConn
<1>3. k \in Connection
  BY <1>1 DEF NewConn, Connection, Ids
<1>4. \A c \in conns : c.n # k.n
  BY <1>1 DEF NewConn, NumbersInUse
<1>5. k.income = income /\ k.adr = adr /\ k.peer_id = NoId
  BY DEF NewConn
<1> HIDE DEF k
<1>6. IsFiniteSet(conns')
  BY <1>2, FS_AddElement DEF NodeInv, Counted
<1>7. conns' \subseteq Connection
  BY <1>2, <1>3 DEF NodeInv, TypeOK
<1>8. \A c, d \in conns' : c.n = d.n => c = d
  BY <1>2, <1>4 DEF NodeInv, ConnInv
<1>9. \A c \in conns' : c.income => c.adr # Self
  BY <1>2, <1>5 DEF NodeInv, ConnInv
<1>10. \A c \in conns' : ~c.income /\ c.peer_id # NoId => <<c.adr, c.peer_id>> \in answered'
  BY <1>2, <1>5 DEF NodeInv, ConnInv
<1> QED BY <1>6, <1>7, <1>8, <1>9, <1>10 DEF ConnInv
-----------------------------------------------------------------------------
(* The steps of the maker between its connections.                         *)
Plans == Seq([white : BOOLEAN, target : 0..connections_count])

(* Where the maker is when it waits for no connection.                     *)
Free(m) ==
  /\ m \in MakerStates
  /\ m.pc \in {"idle", "lists", "count", "pick", "connect"}
  /\ m.n = 0
  /\ m.pc # "connect" => m.seed = 0
  /\ m.pc \in {"pick", "connect"} /\ m.seed = 0 => m.plan # <<>>

LEMMA IdleFree == Free(Idle) /\ Free([Idle EXCEPT !.pc = "lists"])
<1>1. Idle.pc = "idle" /\ Idle.n = 0 /\ Idle.seed = 0
  BY DEF Idle
<1>2. Idle \in MakerStates
  <2> DEFINE empty == <<>>
             none == {}
  <2>1. empty \in Plans /\ none \in SUBSET Nat /\ 0 \in 0..Len(m_seed_nodes) /\ Self \in Addrs
    BY NodeAssumption DEF Plans
  <2>2. Idle = [pc |-> "idle", adr |-> Self, plan |-> empty, seed |-> 0, tries |-> 0,
                max |-> 0, tried |-> none, n |-> 0, ok |-> FALSE]
    BY DEF Idle
  <2> HIDE DEF empty, none
  <2> QED BY <2>1, <2>2 DEF MakerStates, Plans
<1> DEFINE m == Idle
<1> HIDE DEF m
<1>3. [m EXCEPT !.pc = "lists"] \in MakerStates /\ m \in MakerStates
  BY <1>2 DEF m, MakerStates
<1>4. Free(m) /\ Free([m EXCEPT !.pc = "lists"])
  BY <1>1, <1>3 DEF m, Free
<1> QED BY <1>4 DEF m

LEMMA AtCallFree ==
  ASSUME NEW plan \in Plans
  PROVE  Free(AtCall(plan)) /\ AtCall(plan).pc = "count"
<1> DEFINE m == Idle
<1>1. m \in MakerStates /\ m.n = 0 /\ m.seed = 0
  BY IdleFree DEF Free, Idle
<1> HIDE DEF m
<1>2. AtCall(plan) = [m EXCEPT !.pc = "count", !.plan = plan]
  BY DEF AtCall, m
<1>3. [m EXCEPT !.pc = "count", !.plan = plan] \in MakerStates
  BY <1>1 DEF MakerStates, Plans
<1> QED BY <1>1, <1>2, <1>3 DEF Free, MakerStates

LEMMA NextCallFree ==
  ASSUME maker \in MakerStates, maker.plan # <<>>
  PROVE  Free(NextCall) /\ NextCall.pc = "count"
<1>1. Tail(maker.plan) \in Plans
  BY DEF MakerStates, Plans
<1> QED BY <1>1, AtCallFree DEF NextCall

LEMMA PlanForPlans ==
  ASSUME NEW n \in Nat
  PROVE  PlanFor(n) \in Plans
<1> DEFINE w == (connections_count * 70) \div 100
<1>1. connections_count \in Nat
  BY NodeAssumption
<1>2. w \in 0..connections_count
  BY <1>1
<1> HIDE DEF w
<1> DEFINE C == [white : BOOLEAN, target : 0..connections_count]
<1>3. Call(TRUE, w) \in C /\ Call(TRUE, connections_count) \in C
      /\ Call(FALSE, connections_count) \in C
  BY <1>1, <1>2 DEF Call
<1> HIDE DEF C
<1> DEFINE a == Call(TRUE, w)
           b == Call(FALSE, connections_count)
           c == Call(TRUE, connections_count)
<1>4. PlanFor(n) \in {<<>>, <<a, b>>, <<b, c>>}
  BY Zenon DEF PlanFor, expected_white_connections, w
<1>5. a \in C /\ b \in C /\ c \in C
  BY <1>3
<1> HIDE DEF a, b, c
<1>6. <<>> \in Seq(C) /\ <<a, b>> \in Seq(C) /\ <<b, c>> \in Seq(C)
  BY <1>5
<1>7. PlanFor(n) \in Seq(C)
  BY <1>4, <1>6
<1> QED BY <1>7 DEF C, Plans

LEMMA MakerOnly ==
  ASSUME NodeInv, Free(maker'),
         UNCHANGED <<m_peerlist, netVars, m_ip_fails_score, m_blocked_ips, envVars, answered>>,
         m_conn_fails_cache' \subseteq Addrs
  PROVE  NodeInv'
<1>1. conns' = conns /\ closing' = closing /\ pings' = pings
  BY DEF netVars
<1>2. TypeOK'
  BY <1>1 DEF NodeInv, TypeOK, Free, envVars
<1>3. MakerInv'
  BY <1>2, NotWaiting DEF Free, TypeOK
<1>4. ConnInv'
  BY <1>1, Fewer DEF NodeInv
<1> QED BY <1>1, <1>2, <1>3, <1>4 DEF NodeInv, Counted, WhiteAnswered

LEMMA OutgoingFinite ==
  ASSUME Counted
  PROVE  /\ IsFiniteSet(Outgoing) /\ get_outgoing_connections_count \in Nat
         /\ Cardinality(Outgoing) <= get_outgoing_connections_count
<1>1. Outgoing \in SUBSET conns
  BY DEF Outgoing
<1>2. IsFiniteSet(Outgoing)
  BY <1>1, FS_Subset DEF Counted
<1> DEFINE A == {c \in conns \cup closing : ~c.income}
<1>3. A \in SUBSET (conns \cup closing) /\ Outgoing \in SUBSET A
  BY DEF Outgoing
<1>4. IsFiniteSet(conns \cup closing)
  BY FS_Union DEF Counted
<1>5. get_outgoing_connections_count = Cardinality(A)
  BY DEF get_outgoing_connections_count
<1> HIDE DEF A
<1>6. IsFiniteSet(A)
  BY <1>3, <1>4, FS_Subset
<1>7. Cardinality(A) \in Nat /\ Cardinality(Outgoing) <= Cardinality(A)
  BY <1>3, <1>6, FS_Subset, FS_CardinalityType
<1> QED BY <1>2, <1>5, <1>7

LEMMA StartMakerKeeps ==
  ASSUME NodeInv, StartMaker
  PROVE  NodeInv'
<1>1. Free(maker')
  <2>1. ASSUME NEW i \in DOMAIN m_seed_nodes,
               maker' = [Idle EXCEPT !.pc = "connect", !.seed = i, !.adr = m_seed_nodes[i]]
        PROVE  Free(maker')
    <3>1. i \in 1..Len(m_seed_nodes) /\ m_seed_nodes[i] \in Addrs
      BY NodeAssumption
    <3>2. maker' = [pc |-> "connect", adr |-> m_seed_nodes[i], plan |-> <<>>, seed |-> i,
                    tries |-> 0, max |-> 0, tried |-> {}, n |-> 0, ok |-> FALSE]
      BY <2>1 DEF Idle
    <3> QED BY <3>1, <3>2 DEF Free, MakerStates
  <2>2. CASE maker' = [Idle EXCEPT !.pc = "lists"]
    BY <2>2, IdleFree
  <2> QED BY <2>1, <2>2, Zenon DEF StartMaker
<1> QED BY <1>1, MakerOnly, Zenon DEF StartMaker, ipVars, NodeInv, TypeOK

LEMMA PlanCallsKeeps ==
  ASSUME NodeInv, PlanCalls
  PROVE  NodeInv'
<1>1. Free(maker')
  BY OutgoingFinite, PlanForPlans, AtCallFree DEF PlanCalls, NodeInv
<1> QED BY <1>1, MakerOnly DEF PlanCalls, ipVars, NodeInv, TypeOK

LEMMA CountConnectionsKeeps ==
  ASSUME NodeInv, CountConnections
  PROVE  NodeInv'
<1>1. maker \in MakerStates /\ maker.n = 0 /\ maker.seed = 0
  BY DEF NodeInv, TypeOK, MakerInv, CountConnections, Waiting, Seeding
<1>2. CASE maker' = Idle
  BY <1>2, IdleFree, MakerOnly DEF CountConnections, ipVars, NodeInv, TypeOK
<1>3. CASE maker.plan # <<>> /\ maker' = NextCall
  BY <1>1, <1>3, NextCallFree, MakerOnly DEF CountConnections, ipVars, NodeInv, TypeOK
<1>4. ASSUME maker.plan # <<>>, NEW size \in Nat \ {0},
             maker' = [maker EXCEPT !.pc = "pick",
                                    !.max = IF size - 1 <= 50 THEN size - 1 ELSE 50]
      PROVE  NodeInv'
  <2> DEFINE mx == IF size - 1 <= 50 THEN size - 1 ELSE 50
  <2>1. mx \in Nat
    OBVIOUS
  <2>2. maker' = [maker EXCEPT !.pc = "pick", !.max = mx]
    BY <1>4
  <2> HIDE DEF mx
  <2>3. maker' \in MakerStates
    BY <1>1, <2>1, <2>2 DEF MakerStates
  <2>4. /\ maker'.pc = "pick" /\ maker'.n = maker.n /\ maker'.seed = maker.seed
        /\ maker'.plan = maker.plan
    BY <1>1, <2>2 DEF MakerStates
  <2>5. Free(maker')
    BY <1>1, <1>4, <2>3, <2>4 DEF Free
  <2> QED BY <2>5, MakerOnly DEF CountConnections, ipVars, NodeInv, TypeOK
<1>5. Len(ListOf(Head(maker.plan).white)) \in Nat
  BY DEF ListOf, NodeInv, ArePeerLists
<1> QED BY <1>2, <1>3, <1>4, <1>5, Zenon DEF CountConnections

LEMMA PickPeerKeeps ==
  ASSUME NodeInv, NEW i \in 0..50, PickPeer(i)
  PROVE  NodeInv'
<1>1. maker \in MakerStates /\ maker.n = 0 /\ maker.seed = 0 /\ maker.plan # <<>>
  BY DEF NodeInv, TypeOK, MakerInv, PickPeer, Waiting, Seeding
<1> DEFINE list == ListOf(Head(maker.plan).white)
           pe == PeerByIndex(list, i)
<1>2. list \in Seq(Listed)
  BY DEF ListOf, NodeInv, ArePeerLists
<1>3. i < Len(list) => pe.adr \in Addrs
  <2> SUFFICES ASSUME i < Len(list) PROVE pe.adr \in Addrs
    OBVIOUS
  <2> HIDE DEF list
  <2>1. Len(list) - i \in 1..Len(list)
    BY <1>2
  <2>2. list[Len(list) - i] \in Listed
    BY <1>2, <2>1
  <2> QED BY <2>2 DEF PeerByIndex, Listed
<1>4. Len(list) \in Nat
  BY <1>2
<1>5. \/ maker' = NextCall
      \/ maker' = [maker EXCEPT !.tried = @ \cup {i}]
      \/ /\ i < Len(list)
         /\ maker' = [maker EXCEPT !.tried = @ \cup {i}, !.pc = "connect", !.adr = pe.adr]
  <2> HIDE DEF list
  <2>1. i >= Len(list) \/ i < Len(list)
    BY <1>4
  <2> QED BY <2>1, Zenon DEF PickPeer, list
<1> HIDE DEF pe, list
<1>6. Free(maker')
  <2>1. CASE maker' = NextCall
    BY <1>1, <2>1, NextCallFree
  <2> DEFINE tr == maker.tried \cup {i}
             a == pe.adr
  <2>4. tr \in SUBSET Nat
    BY <1>1 DEF MakerStates
  <2>2. CASE maker' = [maker EXCEPT !.tried = @ \cup {i}]
    <3>1. maker' = [maker EXCEPT !.tried = tr]
      BY <2>2
    <3> HIDE DEF tr
    <3>2. maker' \in MakerStates
      BY <1>1, <2>4, <3>1 DEF MakerStates
    <3>3. /\ maker'.pc = "pick" /\ maker'.n = 0 /\ maker'.seed = 0
          /\ maker'.plan # <<>>
      BY <1>1, <3>1 DEF MakerStates, PickPeer
    <3> QED BY <3>2, <3>3 DEF Free
  <2>3. CASE /\ i < Len(list)
             /\ maker' = [maker EXCEPT !.tried = @ \cup {i}, !.pc = "connect", !.adr = pe.adr]
    <3>1. maker' = [maker EXCEPT !.tried = tr, !.pc = "connect", !.adr = a]
      BY <2>3
    <3>4. a \in Addrs
      BY <2>3, <1>3
    <3> HIDE DEF tr, a
    <3>2. maker' \in MakerStates
      BY <1>1, <2>4, <3>1, <3>4 DEF MakerStates
    <3>3. /\ maker'.pc = "connect" /\ maker'.n = 0 /\ maker'.seed = 0
          /\ maker'.plan # <<>>
      BY <1>1, <3>1 DEF MakerStates
    <3> QED BY <3>2, <3>3 DEF Free
  <2> QED BY <1>5, <2>1, <2>2, <2>3
<1> QED BY <1>6, MakerOnly DEF PickPeer, ipVars, NodeInv, TypeOK

LEMMA GiveUpKeeps ==
  ASSUME NodeInv, GiveUp
  PROVE  NodeInv'
<1>1. maker \in MakerStates /\ maker.plan # <<>>
  BY DEF NodeInv, TypeOK, MakerInv, GiveUp, Waiting, Seeding
<1> QED BY <1>1, NextCallFree, MakerOnly DEF GiveUp, ipVars, NodeInv, TypeOK

LEMMA TryFailedFree ==
  ASSUME NodeInv, TryFailed, maker.pc \in {"connect", "shaken"}
  PROVE  Free(maker') /\ m_conn_fails_cache' \subseteq Addrs
<1>1. maker \in MakerStates /\ (maker.seed = 0 => maker.plan # <<>>)
      /\ m_conn_fails_cache \subseteq Addrs
  BY DEF NodeInv, TypeOK, MakerInv, Waiting, Seeding
<1>2. CASE maker.seed # 0
  <2>1. maker' = NextSeed /\ m_conn_fails_cache' = m_conn_fails_cache
    BY <1>2 DEF TryFailed, Seeding
  <2>2. CASE maker' = [Idle EXCEPT !.pc = "lists"]
    BY <1>1, <2>1, <2>2, IdleFree
  <2>3. ASSUME NEW i \in 1..Len(m_seed_nodes),
               maker' = [maker EXCEPT !.pc = "connect", !.tries = @ + 1, !.seed = i,
                                      !.adr = m_seed_nodes[i], !.n = 0]
        PROVE  Free(maker')
    <3>1. m_seed_nodes[i] \in Addrs
      BY NodeAssumption
    <3> DEFINE t == maker.tries + 1
               a == m_seed_nodes[i]
    <3>2. t \in Nat
      BY <1>1 DEF MakerStates
    <3>3. maker' = [maker EXCEPT !.pc = "connect", !.tries = t, !.seed = i,
                                 !.adr = a, !.n = 0]
      BY <2>3
    <3> HIDE DEF t, a
    <3>4. a \in Addrs
      BY <3>1 DEF a
    <3>5. i \in 0..Len(m_seed_nodes) /\ i # 0
      BY NodeAssumption
    <3>6. maker' \in MakerStates
      BY <1>1, <3>2, <3>3, <3>4, <3>5 DEF MakerStates
    <3>7. maker'.pc = "connect" /\ maker'.n = 0 /\ maker'.seed = i
      BY <1>1, <3>3 DEF MakerStates
    <3> QED BY <3>5, <3>6, <3>7 DEF Free
  <2>4. Len(m_seed_nodes) \in Nat /\ maker.seed \in 1..Len(m_seed_nodes)
    BY <1>1, <1>2, NodeAssumption DEF MakerStates
  <2>5. (IF maker.seed = Len(m_seed_nodes) THEN 1 ELSE maker.seed + 1) \in 1..Len(m_seed_nodes)
    BY <2>4
  <2>6. Free(maker')
    BY <2>1, <2>2, <2>3, <2>5, Zenon DEF NextSeed
  <2> QED BY <2>1, <2>6, <1>1
<1>3. CASE maker.seed = 0
  <2>1. /\ maker' = [maker EXCEPT !.pc = "pick", !.adr = Self, !.n = 0]
        /\ m_conn_fails_cache' = m_conn_fails_cache \cup {maker.adr}
    BY <1>3 DEF TryFailed, Seeding
  <2>2. Self \in Addrs
    BY NodeAssumption
  <2>3. Free(maker')
    BY <1>1, <1>3, <2>1, <2>2 DEF Free, MakerStates
  <2>4. maker.adr \in Addrs
    BY <1>1 DEF MakerStates
  <2> QED BY <2>1, <2>3, <2>4, <1>1
<1> QED BY <1>2, <1>3

LEMMA ConnectFailsKeeps ==
  ASSUME NodeInv, ConnectFails
  PROVE  NodeInv'
BY TryFailedFree, MakerOnly DEF ConnectFails
-----------------------------------------------------------------------------
(* What several steps share: a failure of an address, an entry added to    *)
(* the lists, a step that only closes connections.                         *)
IpOK ==
  /\ m_conn_fails_cache \subseteq Addrs /\ m_blocked_ips \subseteq Addrs
  /\ m_ip_fails_score \in [Addrs -> 0..IpFailsLimit]

EnvOK ==
  /\ accepts \in 0..MaxAccepts /\ faults \in 0..MaxFaults
  /\ closing \subseteq Connection /\ IsFiniteSet(closing)

PingsOK == pings \subseteq [adr : Addrs, id : Ids, n : Nat] /\ IsFiniteSet(pings)

ListsOK == ArePeerLists(m_peerlist) /\ WhiteAnswered

LEMMA Parts ==
  ASSUME NodeInv
  PROVE  /\ IpOK /\ EnvOK /\ PingsOK /\ ListsOK
         /\ conns \subseteq Connection /\ IsFiniteSet(conns) /\ maker \in MakerStates
         /\ ConnInv /\ MakerInv
BY DEF NodeInv, TypeOK, Counted, IpOK, EnvOK, PingsOK, ListsOK

LEMMA Whole ==
  ASSUME IpOK', EnvOK', PingsOK', ListsOK', conns' \subseteq Connection, IsFiniteSet(conns'),
         maker' \in MakerStates, ConnInv', MakerInv'
  PROVE  NodeInv'
BY DEF NodeInv, TypeOK, Counted, IpOK, EnvOK, PingsOK, ListsOK, ArePeerLists

LEMMA ClosingKeeps ==
  ASSUME NodeInv, conns' \subseteq conns, maker' = maker, answered \subseteq answered',
         IpOK', EnvOK', PingsOK', ListsOK'
  PROVE  NodeInv'
<1>1. conns' \in SUBSET conns /\ conns' \subseteq Connection
  BY Parts
<1>2. IsFiniteSet(conns')
  BY <1>1, Parts, FS_Subset
<1>3. ConnInv' /\ MakerInv' /\ maker' \in MakerStates
  BY Parts, Fewer, FewerMaker
<1> QED BY <1>1, <1>2, <1>3, Whole

LEMMA AddIpFail ==
  ASSUME IpOK, NEW a \in Addrs, add_ip_fail(a), m_conn_fails_cache' = m_conn_fails_cache
  PROVE  IpOK'
<1>1. IpFailsLimit \in Nat
  BY NodeAssumption
<1> DEFINE s == m_ip_fails_score[a]
           t == IF s + 1 > IpFailsLimit THEN IpFailsLimit \div 2 ELSE s + 1
<1>2. s \in 0..IpFailsLimit
  BY DEF IpOK
<1>3. t \in 0..IpFailsLimit
  <2> HIDE DEF s
  <2> QED BY <1>1, <1>2
<1>4. m_ip_fails_score' = [m_ip_fails_score EXCEPT ![a] = t]
  BY DEF add_ip_fail
<1> HIDE DEF t
<1>5. m_ip_fails_score' \in [Addrs -> 0..IpFailsLimit]
  BY <1>3, <1>4 DEF IpOK
<1>6. m_blocked_ips' \subseteq Addrs
  BY DEF add_ip_fail, IpOK
<1> QED BY <1>5, <1>6 DEF IpOK

LEMMA SentEntries ==
  ASSUME NEW list \in SentLists, fix_time_delta(list)
  PROVE  Len(list) \in Nat /\ \A n \in 1..Len(list) : IsEntry(list[n])
<1> DEFINE E == [adr : Addrs, id : Ids, younger : Int]
<1>1. list \in Seq(E)
  BY ListAssumption
<1> HIDE DEF E
<1>2. DOMAIN list = 1..Len(list)
  BY <1>1
<1>3. Len(list) \in Nat
  BY <1>1
<1>4. ASSUME NEW n \in 1..Len(list) PROVE IsEntry(list[n])
  <2>1. list[n] \in E
    BY <1>1, <1>2
  <2>2. list[n].younger >= 0
    BY <1>2 DEF fix_time_delta
  <2> QED BY <2>1, <2>2 DEF IsEntry, E
<1> QED BY <1>3, <1>4

(* A list the peer has sent, or none, and then an entry of a peer seen.    *)
LEMMA MergedLists ==
  ASSUME ListsOK, NEW list \in SentLists, fix_time_delta(list)
  PROVE  MergesTo(m_peerlist, merge_peerlist(m_peerlist, list))
BY SentEntries, MergeKeeps DEF ListsOK

LEMMA MergesKeep ==
  ASSUME ListsOK, MergesTo(m_peerlist, m_peerlist'), answered \subseteq answered'
  PROVE  ListsOK'
<1> DEFINE p == m_peerlist
           q == m_peerlist'
<1>1. ArePeerLists(q) /\ From(q.white, p.white)
  BY DEF MergesTo
<1>2. WhiteAnswered'
  BY <1>1 DEF From, WhiteAnswered, ListsOK
<1> QED BY <1>1, <1>2 DEF ListsOK

LEMMA SeenKeeps ==
  ASSUME ListsOK, NEW p, MergesTo(m_peerlist, p), answered \subseteq answered',
         NEW a \in Addrs, NEW id \in Ids, <<a, id>> \in answered',
         m_peerlist' = append_with_peer_white(p, Entry(a, id, 0))
  PROVE  ListsOK'
<1> DEFINE e == Entry(a, id, 0)
           q == m_peerlist'
<1>1. IsEntry(e) /\ Stored(e) = [adr |-> a, id |-> id]
  BY DEF Entry, IsEntry, Stored
<1> HIDE DEF e
<1>2. SeenTo(p, q, e)
  BY <1>1, AppendWhite DEF MergesTo, e
<1>3. ASSUME NEW j \in DOMAIN q.white PROVE <<q.white[j].adr, q.white[j].id>> \in answered'
  <2>1. CASE q.white[j] = Stored(e)
    BY <2>1, <1>1
  <2>2. CASE \E i \in DOMAIN p.white : q.white[j] = p.white[i]
    BY <2>2 DEF MergesTo, From, WhiteAnswered, ListsOK
  <2> QED BY <1>2, <2>1, <2>2 DEF SeenTo
<1>4. ArePeerLists(q)
  BY <1>2 DEF SeenTo
<1> QED BY <1>3, <1>4 DEF ListsOK, WhiteAnswered

LEMMA MergesNothing ==
  ASSUME ListsOK PROVE MergesTo(m_peerlist, m_peerlist)
BY DEF MergesTo, From, ListsOK

LEMMA IdOfType ==
  ASSUME NEW a \in Addrs PROVE IdOf(a) \in Ids
BY DEF IdOf, Ids

(* A step that leaves the lists and what was answered.                     *)
LEMMA ListsSame ==
  ASSUME ListsOK, m_peerlist' = m_peerlist, answered \subseteq answered'
  PROVE  ListsOK'
BY MergesNothing, MergesKeep

LEMMA FaultEnv ==
  ASSUME EnvOK, Fault, accepts' = accepts, closing' = closing
  PROVE  EnvOK'
BY NodeAssumption DEF EnvOK, Fault
-----------------------------------------------------------------------------
(* The handshake of the maker.                                             *)
LEMMA ConnectKeeps ==
  ASSUME NodeInv, Connect
  PROVE  NodeInv'
<1> DEFINE use == IF Seeding THEN "seed" ELSE "peer"
           k == NewConn(maker.adr, FALSE, use)
<1>1. maker \in MakerStates /\ maker.adr \in Addrs /\ maker.pc = "connect" /\ maker.n = 0
      /\ (maker.seed = 0 => maker.plan # <<>>)
  BY Parts DEF MakerStates, Connect, MakerInv, Waiting, Seeding
<1>2. use \in {"seed", "peer", "ping", "income"}
  OBVIOUS
<1>3. conns' \subseteq Connection /\ IsFiniteSet(conns') /\ ConnInv'
  <2> HIDE DEF use
  <2> QED BY <1>1, <1>2, OpenKeeps DEF Connect, use
<1>4. FreeNumber \in Nat \ {0} /\ FreeNumber \notin NumbersInUse
  BY FreeNumberFresh DEF NodeInv
<1> DEFINE f == FreeNumber
<1> HIDE DEF f
<1>5. maker' = [maker EXCEPT !.pc = "handshake", !.n = f]
  BY DEF Connect, f
<1>6. maker' \in MakerStates
  BY <1>1, <1>4, <1>5 DEF MakerStates, f
<1>7. /\ maker'.pc = "handshake" /\ maker'.n = f /\ maker'.adr = maker.adr
      /\ maker'.seed = maker.seed /\ maker'.plan = maker.plan
  BY <1>1, <1>5 DEF MakerStates
<1>8. MakersConn' \subseteq {k}
  <2>1. conns' = conns \cup {k}
    BY DEF Connect, Open, NewConn
  <2>2. \A c \in conns : c.n # f
    BY <1>4 DEF NumbersInUse, f
  <2> HIDE DEF k
  <2> QED BY <1>7, <2>1, <2>2 DEF MakersConn
<1>9. k.adr = maker.adr /\ k.use = use /\ ~k.income
  BY DEF NewConn
<1> HIDE DEF k, use
<1>10. MakerInv'
  <2>1. Waiting' /\ maker'.n # 0
    BY <1>4, <1>7 DEF Waiting, f
  <2>2. Seeding' <=> Seeding
    BY <1>7 DEF Seeding
  <2>3. \A c \in MakersConn' :
          ~c.income /\ c.adr = maker'.adr /\ c.use = IF Seeding' THEN "seed" ELSE "peer"
    BY <1>7, <1>8, <1>9, <2>2 DEF use
  <2> QED BY <1>1, <1>7, <2>1, <2>2, <2>3 DEF MakerInv, Seeding
<1>11. IpOK' /\ EnvOK' /\ PingsOK' /\ ListsOK'
  BY Parts, ListsSame DEF Connect, Open, IpOK, EnvOK, PingsOK, ipVars, envVars
<1> QED BY <1>3, <1>6, <1>10, <1>11, Whole

(* The end of a handshake that has no answer to use.                       *)
LEMMA ShakenBadly ==
  ASSUME NodeInv, maker.pc = "handshake",
         maker' = [maker EXCEPT !.pc = "shaken", !.ok = FALSE],
         UNCHANGED <<conns, closing, pings, envVars, answered, m_peerlist>>, IpOK'
  PROVE  NodeInv'
<1>1. maker \in MakerStates
  BY Parts
<1>2. maker' \in MakerStates
  BY <1>1 DEF MakerStates
<1>3. /\ maker'.pc = "shaken" /\ maker'.ok = FALSE /\ maker'.n = maker.n
      /\ maker'.adr = maker.adr /\ maker'.seed = maker.seed /\ maker'.plan = maker.plan
  BY <1>1 DEF MakerStates
<1>4. Waiting /\ Waiting' /\ (Seeding' <=> Seeding) /\ MakersConn' = MakersConn
  BY <1>3 DEF Waiting, Seeding, MakersConn
<1>5. MakerInv'
  BY <1>3, <1>4, Parts DEF MakerInv
<1>6. EnvOK' /\ PingsOK' /\ ListsOK' /\ ConnInv'
  BY Parts, ListsSame, Fewer DEF EnvOK, PingsOK, envVars
<1> QED BY <1>2, <1>5, <1>6, Parts, Whole

LEMMA HandshakeRefusedKeeps ==
  ASSUME NodeInv, HandshakeRefused
  PROVE  NodeInv'
<1>1. IpOK'
  BY Parts DEF HandshakeRefused, ipVars, IpOK
<1> QED BY <1>1, ShakenBadly DEF HandshakeRefused, netVars

LEMMA HandshakeBadListKeeps ==
  ASSUME NodeInv, HandshakeBadList
  PROVE  NodeInv'
<1>1. maker.adr \in Addrs
  BY Parts DEF MakerStates
<1>2. IpOK'
  BY <1>1, Parts, AddIpFail DEF HandshakeBadList
<1> QED BY <1>2, ShakenBadly DEF HandshakeBadList, netVars

(***************************************************************************)
(* Associated gives one connection its id and leaves the others.           *)
(***************************************************************************)
LEMMA AssociatedKeeps ==
  ASSUME NodeInv, NEW c \in conns, NEW id \in Ids, conns' = Associated(c, id),
         answered \subseteq answered', ~c.income => <<c.adr, id>> \in answered'
  PROVE  /\ conns' \subseteq Connection
         /\ IsFiniteSet(conns')
         /\ ConnInv'
         /\ [c EXCEPT !.peer_id = id].n = c.n /\ [c EXCEPT !.peer_id = id].adr = c.adr
         /\ [c EXCEPT !.peer_id = id].income = c.income
         /\ [c EXCEPT !.peer_id = id].use = c.use
         /\ [c EXCEPT !.peer_id = id].peer_id = id
<1> DEFINE k == [c EXCEPT !.peer_id = id]
<1>1. c \in Connection /\ conns \subseteq Connection
  BY Parts
<1>2. k \in Connection
  BY <1>1 DEF Connection
<1>3. k.n = c.n /\ k.adr = c.adr /\ k.income = c.income /\ k.use = c.use /\ k.peer_id = id
  BY <1>1 DEF Connection
<1>4. conns' = (conns \ {c}) \cup {k}
  BY DEF Associated
<1> HIDE DEF k
<1>5. IsFiniteSet(conns')
  <2>1. IsFiniteSet(conns \ {c})
    BY Parts, FS_RemoveElement
  <2> QED BY <1>4, <2>1, FS_AddElement
<1>6. conns' \subseteq Connection
  BY <1>1, <1>2, <1>4
<1>7. \A d \in conns' : d = k \/ (d \in conns /\ d # c)
  BY <1>4
<1>8. \A d \in conns : d # c => d.n # c.n
  BY Parts DEF ConnInv
<1>9. \A d, e \in conns' : d.n = e.n => d = e
  BY <1>3, <1>7, <1>8, Parts DEF ConnInv
<1>10. \A d \in conns' : d.income => d.adr # Self
  BY <1>3, <1>7, Parts DEF ConnInv
<1>11. \A d \in conns' : ~d.income /\ d.peer_id # NoId => <<d.adr, d.peer_id>> \in answered'
  BY <1>3, <1>7, Parts DEF ConnInv
<1> QED BY <1>3, <1>5, <1>6, <1>9, <1>10, <1>11 DEF ConnInv, k
LEMMA HandshakeAnsweredKeeps ==
  ASSUME NodeInv, NEW list \in SentLists, NEW payloadOk \in BOOLEAN,
         HandshakeAnswered(list, payloadOk)
  PROVE  NodeInv'
<1> DEFINE merged == merge_peerlist(m_peerlist, list)
<1>1. PICK c \in MakersConn :
        LET id == IdOf(c.adr)
        IN  IF Seeding \/ ~payloadOk
            THEN /\ m_peerlist' = merged
                 /\ maker' = [maker EXCEPT !.pc = "shaken", !.ok = Seeding]
                 /\ UNCHANGED <<conns, answered>>
            ELSE /\ m_peerlist' = set_peer_just_seen(merged, RemoteAddr(c), id)
                 /\ conns' = Associated(c, id)
                 /\ answered' = answered \cup {<<c.adr, id>>}
                 /\ maker' = [maker EXCEPT !.pc = "shaken", !.ok = id # my_id]
  BY Zenon DEF HandshakeAnswered
<1>2. /\ c \in conns /\ c.n = maker.n /\ ~c.income /\ c.adr = maker.adr
      /\ maker \in MakerStates /\ maker.pc = "handshake" /\ c.adr \in Addrs
  BY Parts DEF MakersConn, MakerInv, HandshakeAnswered, MakerStates
<1>3. MergesTo(m_peerlist, merged)
  BY Parts, MergedLists DEF HandshakeAnswered
<1>4. IpOK' /\ EnvOK' /\ PingsOK'
  BY Parts DEF HandshakeAnswered, IpOK, EnvOK, PingsOK, ipVars, envVars
<1>5. ASSUME NEW ok \in BOOLEAN, maker' = [maker EXCEPT !.pc = "shaken", !.ok = ok]
      PROVE  /\ maker' \in MakerStates
             /\ maker'.pc = "shaken" /\ maker'.ok = ok /\ maker'.n = maker.n
             /\ maker'.adr = maker.adr /\ maker'.seed = maker.seed /\ maker'.plan = maker.plan
             /\ Waiting /\ Waiting' /\ (Seeding' <=> Seeding)
  <2>1. maker' \in MakerStates
    BY <1>2, <1>5 DEF MakerStates
  <2>2. /\ maker'.pc = "shaken" /\ maker'.ok = ok /\ maker'.n = maker.n
        /\ maker'.adr = maker.adr /\ maker'.seed = maker.seed /\ maker'.plan = maker.plan
    BY <1>2, <1>5 DEF MakerStates
  <2> QED BY <2>1, <2>2, <1>2 DEF Waiting, Seeding
<1> HIDE DEF merged
<1>6. CASE Seeding \/ ~payloadOk
  <2>1. /\ m_peerlist' = merged /\ conns' = conns /\ answered' = answered
        /\ maker' = [maker EXCEPT !.pc = "shaken", !.ok = Seeding]
    BY <1>1, <1>6
  <2>2. Seeding \in BOOLEAN
    BY DEF Seeding
  <2>3. /\ maker' \in MakerStates
        /\ maker'.pc = "shaken" /\ maker'.ok = Seeding /\ maker'.n = maker.n
        /\ maker'.adr = maker.adr /\ maker'.seed = maker.seed /\ maker'.plan = maker.plan
        /\ Waiting /\ Waiting' /\ (Seeding' <=> Seeding)
    BY <1>5, <2>1, <2>2, Zenon
  <2>4. MakersConn' = MakersConn
    BY <2>1, <2>3 DEF MakersConn
  <2>5. maker'.ok => Seeding
    BY <2>3
  <2>6. MakerInv'
    <3>1. \A d \in MakersConn' :
           ~d.income /\ d.adr = maker'.adr /\ d.use = IF Seeding' THEN "seed" ELSE "peer"
      BY <2>3, <2>4, Parts DEF MakerInv
    <3>2. ~(maker'.ok /\ ~Seeding')
      BY <2>3
    <3>3. (Waiting' <=> maker'.n # 0) /\ (~Seeding' => maker'.plan # <<>>)
      BY <2>3, Parts DEF MakerInv
    <3> QED BY <2>3, <3>1, <3>2, <3>3 DEF MakerInv
  <2>7. ListsOK' /\ ConnInv'
    BY <1>3, <2>1, Parts, MergesKeep, Fewer
  <2> QED BY <1>4, <2>1, <2>3, <2>6, <2>7, Parts, Whole
<1>7. CASE ~(Seeding \/ ~payloadOk)
  <2> DEFINE id == IdOf(c.adr)
             k == [c EXCEPT !.peer_id = id]
             ok == (id # my_id)
  <2>1. /\ m_peerlist' = set_peer_just_seen(merged, RemoteAddr(c), id)
        /\ conns' = Associated(c, id) /\ answered' = answered \cup {<<c.adr, id>>}
        /\ maker' = [maker EXCEPT !.pc = "shaken", !.ok = ok]
    BY <1>1, <1>7
  <2>2. id \in Ids /\ ok \in BOOLEAN
    BY <1>2, IdOfType
  <2>3. /\ maker' \in MakerStates
        /\ maker'.pc = "shaken" /\ maker'.ok = ok /\ maker'.n = maker.n
        /\ maker'.adr = maker.adr /\ maker'.seed = maker.seed /\ maker'.plan = maker.plan
        /\ Waiting /\ Waiting' /\ (Seeding' <=> Seeding)
    <3> HIDE DEF ok
    <3> QED BY <1>5, <2>1, <2>2, Zenon
  <2> HIDE DEF id
  <2>4. /\ conns' \subseteq Connection /\ IsFiniteSet(conns') /\ ConnInv'
        /\ k.n = c.n /\ k.adr = c.adr /\ k.income = c.income /\ k.use = c.use
        /\ k.peer_id = id
    BY <1>2, <2>1, <2>2, AssociatedKeeps
  <2> HIDE DEF k
  <2>5. MakersConn' = {k}
    <3>1. conns' = (conns \ {c}) \cup {k}
      BY <2>1 DEF Associated, k
    <3>2. \A d \in conns : d # c => d.n # maker.n
      BY <1>2, Parts DEF ConnInv
    <3> QED BY <1>2, <2>3, <2>4, <3>1, <3>2 DEF MakersConn
  <2>6. MakerInv'
    <3>1. \A d \in MakersConn' :
           ~d.income /\ d.adr = maker'.adr /\ d.use = IF Seeding' THEN "seed" ELSE "peer"
      <4>1. c.use = IF Seeding THEN "seed" ELSE "peer"
        BY Parts DEF MakerInv
      <4> QED BY <4>1, <1>2, <2>3, <2>4, <2>5
    <3>2. maker'.ok => /\ IdOf(maker'.adr) # my_id
                       /\ <<maker'.adr, IdOf(maker'.adr)>> \in answered'
                       /\ \A d \in MakersConn' : d.peer_id = IdOf(maker'.adr)
      <4>1. id = IdOf(maker'.adr)
        BY <1>2, <2>3 DEF id
      <4>2. maker'.ok => id # my_id
        BY <2>3
      <4>3. <<maker'.adr, id>> \in answered'
        BY <1>2, <2>1, <2>3
      <4>4. \A d \in MakersConn' : d.peer_id = id
        BY <2>4, <2>5
      <4> HIDE DEF ok
      <4> QED BY <4>1, <4>2, <4>3, <4>4, Zenon
    <3>3. (Waiting' <=> maker'.n # 0) /\ (~Seeding' => maker'.plan # <<>>)
      BY <2>3, Parts DEF MakerInv
    <3> HIDE DEF ok
    <3> QED BY <2>3, <3>1, <3>2, <3>3 DEF MakerInv, IdOf
  <2>7. ListsOK'
    <3>1. RemoteAddr(c) = c.adr
      BY <1>2 DEF RemoteAddr
    <3>2. m_peerlist' = append_with_peer_white(merged, Entry(c.adr, id, 0))
      BY <2>1, <3>1 DEF set_peer_just_seen
    <3> QED BY <1>2, <1>3, <2>1, <2>2, <3>2, Parts, SeenKeeps
  <2> QED BY <1>4, <2>3, <2>4, <2>6, <2>7, Whole
<1> QED BY <1>6, <1>7

LEMMA HandshakeDoneKeeps ==
  ASSUME NodeInv, HandshakeDone
  PROVE  NodeInv'
<1>1. /\ maker \in MakerStates /\ maker.pc = "shaken" /\ maker.adr \in Addrs
      /\ maker.plan \in Plans /\ m_conn_fails_cache \subseteq Addrs
  BY Parts DEF MakerStates, HandshakeDone, Plans, IpOK
<1>2. /\ conns' \subseteq conns /\ answered' = answered
      /\ Free(maker') /\ m_conn_fails_cache' \subseteq Addrs
  <2>1. CASE ~maker.ok
    BY <1>1, <2>1, TryFailedFree DEF HandshakeDone, Close
  <2>2. CASE maker.ok /\ Seeding
    BY <1>1, <2>2, IdleFree DEF HandshakeDone, Close
  <2>3. CASE maker.ok /\ ~Seeding
    BY <1>1, <2>3, AtCallFree DEF HandshakeDone
  <2> QED BY <2>1, <2>2, <2>3
<1>3. conns' \subseteq Connection /\ IsFiniteSet(conns') /\ ConnInv'
  <2>1. conns' \in SUBSET conns
    BY <1>2
  <2> QED BY <1>2, <2>1, Parts, FS_Subset, Fewer
<1>4. MakerInv' /\ maker' \in MakerStates
  BY <1>2, <1>3, NotWaiting DEF Free
<1>5. IpOK' /\ EnvOK' /\ PingsOK'
  <2>1. IpOK' /\ PingsOK' /\ UNCHANGED envVars
    BY <1>2, Parts DEF HandshakeDone, IpOK, PingsOK
  <2>2. closing' \in {closing, closing \cup MakersConn}
    BY DEF HandshakeDone, Close
  <2>3. MakersConn \in SUBSET conns
    BY DEF MakersConn
  <2>4. IsFiniteSet(closing) /\ IsFiniteSet(MakersConn) /\ MakersConn \subseteq Connection
    BY <2>3, Parts, FS_Subset DEF EnvOK
  <2>5. IsFiniteSet(closing')
    BY <2>2, <2>4, FS_Union
  <2>6. closing' \subseteq Connection
    BY <2>2, <2>4, Parts DEF EnvOK
  <2> QED BY <2>1, <2>5, <2>6, Parts DEF EnvOK, envVars
<1>6. ListsOK'
  <2>1. CASE ~maker.ok \/ Seeding
    <3>1. m_peerlist' = m_peerlist
      BY <2>1 DEF HandshakeDone
    <3> QED BY <3>1, <1>2, Parts, ListsSame
  <2>2. CASE maker.ok /\ ~Seeding
    <3>1. /\ <<maker.adr, IdOf(maker.adr)>> \in answered
          /\ m_peerlist' = append_with_peer_white(m_peerlist, Entry(maker.adr, IdOf(maker.adr), 0))
      BY <1>1, <2>2, Parts DEF MakerInv, HandshakeDone
    <3> QED BY <1>1, <1>2, <3>1, Parts, MergesNothing, IdOfType, SeenKeeps
  <2> QED BY <2>1, <2>2
<1> QED BY <1>3, <1>4, <1>5, <1>6, Whole
-----------------------------------------------------------------------------
(* The steps of the other threads.                                         *)
LEMMA OpenOther ==
  ASSUME NodeInv, NEW adr \in Addrs, NEW income \in BOOLEAN, NEW use \in {"ping", "income"},
         income => adr # Self, Open(adr, income, use), answered' = answered,
         maker' = maker, m_peerlist' = m_peerlist, IpOK', EnvOK', PingsOK'
  PROVE  NodeInv'
<1> DEFINE k == NewConn(adr, income, use)
<1>1. conns' \subseteq Connection /\ IsFiniteSet(conns') /\ ConnInv'
  BY OpenKeeps
<1>2. conns' = conns \cup {k}
  BY DEF Open, NewConn
<1>3. k.n # maker.n
  BY FreeNumberFresh DEF NodeInv, NewConn, NumbersInUse
<1> HIDE DEF k
<1>4. MakersConn' = MakersConn
  BY <1>2, <1>3 DEF MakersConn
<1>5. (Seeding' <=> Seeding) /\ (Waiting' <=> Waiting)
  BY DEF Seeding, Waiting
<1>6. MakerInv'
  BY <1>4, <1>5, Parts DEF MakerInv
<1>7. ListsOK'
  BY Parts, ListsSame
<1> QED BY <1>1, <1>6, <1>7, Parts, Whole

LEMMA AcceptKeeps ==
  ASSUME NodeInv, NEW a \in Addrs, Accept(a)
  PROVE  NodeInv'
<1>1. IpOK' /\ PingsOK'
  BY Parts DEF Accept, IpOK, PingsOK, ipVars
<1>2. EnvOK'
  BY Parts, NodeAssumption DEF Accept, Open, EnvOK
<1> QED BY <1>1, <1>2, OpenOther DEF Accept

LEMMA RefuseHandshakeKeeps ==
  ASSUME NodeInv, NEW c \in conns, RefuseHandshake(c)
  PROVE  NodeInv'
<1>1. c.adr \in Addrs
  BY Parts DEF Connection
<1>2. IpOK'
  <2>1. CASE add_ip_fail(c.adr)
    BY <1>1, <2>1, Parts, AddIpFail DEF RefuseHandshake
  <2>2. CASE UNCHANGED <<m_ip_fails_score, m_blocked_ips>>
    BY <2>2, Parts DEF IpOK, RefuseHandshake
  <2> QED BY <2>1, <2>2 DEF RefuseHandshake
<1>3. EnvOK' /\ PingsOK' /\ ListsOK'
  BY Parts, FaultEnv, ListsSame DEF RefuseHandshake, PingsOK
<1> QED BY <1>2, <1>3, ClosingKeeps DEF RefuseHandshake

LEMMA handle_handshakeKeeps ==
  ASSUME NodeInv, NEW c \in conns, NEW port \in BOOLEAN, NEW id \in Claims[c.adr],
         c.income, handle_handshake(c, id, port)
  PROVE  NodeInv'
<1> DEFINE k == [c EXCEPT !.peer_id = id]
           ping == [adr |-> c.adr, id |-> id, n |-> 0]
<1>1. c.adr \in Addrs /\ c.adr # Self
  BY Parts DEF Connection, ConnInv
<1>2. id \in Ids
  BY <1>1, ListAssumption
<1>3. conns' = Associated(c, id) /\ answered' = answered /\ maker' = maker
      /\ m_peerlist' = m_peerlist
  BY DEF handle_handshake
<1>4. /\ conns' \subseteq Connection /\ IsFiniteSet(conns') /\ ConnInv'
      /\ k.n = c.n /\ k.adr = c.adr /\ k.income = c.income /\ k.use = c.use
  BY <1>2, <1>3, AssociatedKeeps
<1>5. ping \in [adr : Addrs, id : Ids, n : Nat]
  BY <1>1, <1>2
<1>6. pings' = pings \/ pings' = pings \cup {ping}
  BY DEF handle_handshake
<1> HIDE DEF k, ping
<1>7. PingsOK'
  BY <1>5, <1>6, Parts, FS_AddElement DEF PingsOK
<1>8. IpOK' /\ EnvOK' /\ ListsOK'
  BY <1>3, Parts, ListsSame DEF handle_handshake, IpOK, EnvOK, ipVars, envVars
<1>9. MakersConn' = MakersConn
  <2>1. conns' = (conns \ {c}) \cup {k}
    BY <1>3 DEF Associated, k
  <2>2. c.n # maker.n
    BY Parts DEF MakerInv, MakersConn
  <2> QED BY <1>3, <1>4, <2>1, <2>2 DEF MakersConn
<1>10. (Seeding' <=> Seeding) /\ (Waiting' <=> Waiting)
  BY <1>3 DEF Seeding, Waiting
<1>11. MakerInv'
  BY <1>3, <1>9, <1>10, Parts DEF MakerInv
<1> QED BY <1>3, <1>4, <1>7, <1>8, <1>11, Parts, Whole

LEMMA PingConnectsKeeps ==
  ASSUME NodeInv, NEW p \in pings, PingConnects(p)
  PROVE  NodeInv'
<1> DEFINE f == FreeNumber
           r == [p EXCEPT !.n = f]
<1>1. p \in [adr : Addrs, id : Ids, n : Nat]
  BY Parts DEF PingsOK
<1>2. f \in Nat
  BY FreeNumberFresh DEF NodeInv
<1> HIDE DEF f
<1>3. r \in [adr : Addrs, id : Ids, n : Nat]
  BY <1>1, <1>2
<1>4. pings' = (pings \ {p}) \cup {r}
  BY DEF PingConnects, f
<1> HIDE DEF r
<1>5. PingsOK'
  <2>1. IsFiniteSet(pings \ {p})
    BY Parts, FS_RemoveElement DEF PingsOK
  <2>2. IsFiniteSet(pings')
    BY <1>4, <2>1, FS_AddElement
  <2> QED BY <1>3, <1>4, <2>2, Parts DEF PingsOK
<1>6. IpOK' /\ EnvOK'
  BY Parts DEF PingConnects, Open, IpOK, EnvOK, ipVars, envVars
<1>7. p.adr \in Addrs
  BY <1>1
<1> QED BY <1>5, <1>6, <1>7, OpenOther DEF PingConnects

LEMMA PingGone ==
  ASSUME NodeInv, NEW p \in pings, pings' = pings \ {p}
  PROVE  PingsOK'
BY Parts, FS_RemoveElement DEF PingsOK

LEMMA PingFailsKeeps ==
  ASSUME NodeInv, NEW p \in pings, PingFails(p)
  PROVE  NodeInv'
<1>1. IpOK' /\ EnvOK' /\ PingsOK' /\ ListsOK'
  BY Parts, PingGone, ListsSame DEF PingFails, IpOK, EnvOK, ipVars, envVars
<1>2. conns' \subseteq conns
  BY DEF PingFails
<1> QED BY <1>1, <1>2, ClosingKeeps DEF PingFails

LEMMA PingAnsweredKeeps ==
  ASSUME NodeInv, NEW p \in pings, PingAnswered(p)
  PROVE  NodeInv'
<1>1. IpOK' /\ EnvOK' /\ PingsOK'
  BY Parts, PingGone DEF PingAnswered, IpOK, EnvOK, ipVars, envVars
<1>2. conns' \subseteq conns /\ answered \subseteq answered'
  BY DEF PingAnswered
<1>3. p.adr \in Addrs /\ p.id \in Ids
  BY Parts DEF PingsOK
<1>4. ListsOK'
  <2>1. CASE PingAgrees(p)
    <3>1. <<p.adr, p.id>> \in answered'
      BY <2>1 DEF PingAnswered, PingAgrees
    <3>2. m_peerlist' = append_with_peer_white(m_peerlist, Entry(p.adr, p.id, 0))
      BY <2>1 DEF PingAnswered, set_peer_just_seen
    <3> QED BY <1>2, <1>3, <3>1, <3>2, Parts, MergesNothing, SeenKeeps
  <2>2. CASE ~PingAgrees(p)
    BY <1>2, <2>2, Parts, ListsSame DEF PingAnswered
  <2> QED BY <2>1, <2>2
<1> QED BY <1>1, <1>2, <1>4, ClosingKeeps DEF PingAnswered

LEMMA TimedSyncKeeps ==
  ASSUME NodeInv, NEW c \in conns, NEW list \in SentLists, TimedSync(c, list)
  PROVE  NodeInv'
<1> DEFINE good == fix_time_delta(list)
           merged == IF good THEN merge_peerlist(m_peerlist, list) ELSE m_peerlist
<1>1. c.adr \in Addrs /\ c.peer_id \in Ids /\ c.peer_id # NoId
  BY Parts DEF Connection, TimedSync
<1>2. MergesTo(m_peerlist, merged)
  BY Parts, MergedLists, MergesNothing
<1>3. m_peerlist' = IF c.income THEN merged
                    ELSE append_with_peer_white(merged, Entry(RemoteAddr(c), c.peer_id, 0))
  BY DEF TimedSync, set_peer_just_seen
<1>4. conns' \subseteq conns /\ answered' = answered /\ IpOK' /\ EnvOK'
  <2>1. CASE good
    BY <2>1, Parts DEF TimedSync, IpOK, EnvOK
  <2>2. CASE ~good
    <3>1. conns' \subseteq conns /\ answered' = answered
      BY <2>2 DEF TimedSync
    <3>2. IpOK'
      BY <1>1, <2>2, Parts, AddIpFail DEF TimedSync
    <3>3. EnvOK'
      BY <2>2, Parts, FaultEnv DEF TimedSync
    <3> QED BY <3>1, <3>2, <3>3
  <2> QED BY <2>1, <2>2
<1> HIDE DEF merged
<1>5. ListsOK'
  <2>1. CASE c.income
    BY <1>2, <1>3, <1>4, <2>1, Parts, MergesKeep
  <2>2. CASE ~c.income
    <3>1. <<c.adr, c.peer_id>> \in answered'
      BY <1>1, <1>4, <2>2, Parts DEF ConnInv
    <3>2. m_peerlist' = append_with_peer_white(merged, Entry(c.adr, c.peer_id, 0))
      BY <1>3, <2>2 DEF RemoteAddr
    <3> QED BY <1>1, <1>2, <1>4, <3>1, <3>2, Parts, SeenKeeps
  <2> QED BY <2>1, <2>2
<1>6. PingsOK'
  BY Parts DEF TimedSync, PingsOK
<1> QED BY <1>4, <1>5, <1>6, ClosingKeeps DEF TimedSync

LEMMA CloseConnectionKeeps ==
  ASSUME NodeInv, NEW c \in conns, CloseConnection(c)
  PROVE  NodeInv'
<1>1. IpOK' /\ PingsOK' /\ ListsOK'
  BY Parts, ListsSame DEF CloseConnection, IpOK, PingsOK, ipVars
<1>2. EnvOK'
  BY Parts, FaultEnv DEF CloseConnection, EnvOK
<1> QED BY <1>1, <1>2, ClosingKeeps DEF CloseConnection

LEMMA ConnectionGoneKeeps ==
  ASSUME NodeInv, NEW c \in closing, ConnectionGone(c)
  PROVE  NodeInv'
<1>1. IpOK' /\ PingsOK' /\ ListsOK'
  BY Parts, ListsSame DEF ConnectionGone, IpOK, PingsOK, ipVars
<1>2. EnvOK'
  BY Parts, FS_RemoveElement DEF ConnectionGone, EnvOK, envVars
<1> QED BY <1>1, <1>2, ClosingKeeps DEF ConnectionGone

LEMMA ForgetKeeps ==
  ASSUME NodeInv, NEW a \in Addrs, Forget(a)
  PROVE  NodeInv'
<1>1. IpOK' /\ EnvOK' /\ PingsOK' /\ ListsOK'
  BY Parts, ListsSame DEF Forget, IpOK, EnvOK, PingsOK, netVars, envVars
<1> QED BY <1>1, ClosingKeeps DEF Forget, netVars
-----------------------------------------------------------------------------
LEMMA NodeInit == Init => NodeInv
<1> SUFFICES ASSUME Init PROVE NodeInv
  OBVIOUS
<1>1. ArePeerLists(m_peerlist)
  BY ListAssumption DEF Init
<1>2. WhiteAnswered
  BY DEF Init, WhiteAnswered, Range
<1>3. Free(maker) /\ maker.pc = "idle"
  BY IdleFree DEF Init, Idle
<1>4. ConnInv /\ Counted
  BY FS_EmptySet DEF Init, ConnInv, Counted
<1>5. MakerInv
  BY <1>3 DEF MakerInv, Free, Waiting, Seeding, MakersConn, Init
<1>6. TypeOK
  BY <1>1, <1>3, NodeAssumption DEF Init, TypeOK, ArePeerLists, Free
<1> QED BY <1>1, <1>2, <1>4, <1>5, <1>6 DEF NodeInv

LEMMA NodeNext == NodeInv /\ [Next]_vars => NodeInv'
<1> SUFFICES ASSUME NodeInv, [Next]_vars PROVE NodeInv'
  OBVIOUS
<1>1. CASE MakerStep
  BY <1>1, StartMakerKeeps, PlanCallsKeeps, CountConnectionsKeeps, GiveUpKeeps,
     PickPeerKeeps, ConnectFailsKeeps, ConnectKeeps, HandshakeDoneKeeps DEF MakerStep
<1>2. CASE HandshakeAnswer
  BY <1>2, HandshakeRefusedKeeps, HandshakeBadListKeeps, HandshakeAnsweredKeeps
     DEF HandshakeAnswer
<1>3. CASE IncomingStep
  BY <1>3, AcceptKeeps, RefuseHandshakeKeeps, handle_handshakeKeeps,
     PingConnectsKeeps, PingFailsKeeps, PingAnsweredKeeps DEF IncomingStep
<1>4. CASE OtherStep
  BY <1>4, TimedSyncKeeps, CloseConnectionKeeps, ConnectionGoneKeeps, ForgetKeeps DEF OtherStep
<1>5. CASE UNCHANGED vars
  <2>1. /\ conns' = conns /\ closing' = closing /\ pings' = pings /\ maker' = maker
        /\ m_peerlist' = m_peerlist /\ answered' = answered
    BY <1>5 DEF vars, netVars
  <2>2. IpOK' /\ EnvOK' /\ PingsOK' /\ ListsOK'
    BY <1>5, <2>1, Parts, ListsSame DEF vars, ipVars, envVars, IpOK, EnvOK, PingsOK
  <2> QED BY <2>1, <2>2, ClosingKeeps
<1> QED BY <1>1, <1>2, <1>3, <1>4, <1>5 DEF Next

(***************************************************************************)
(* The invariant of the node: types, lists that are apart, white entries   *)
(* that answered, connections with numbers of their own, and the maker's   *)
(* connection leading where the maker went.                                *)
(***************************************************************************)
THEOREM NodeInvariance == Spec => []NodeInv
BY NodeInit, NodeNext, PTL DEF Spec

(***************************************************************************)
(* The types of the node's variables.                                      *)
(***************************************************************************)
THEOREM NodeTypes == Spec => []TypeOK
<1>1. NodeInv => TypeOK
  BY DEF NodeInv
<1> QED BY <1>1, NodeInvariance, PTL

(***************************************************************************)
(* Whatever lists are sent, merged and trimmed and whichever peers are     *)
(* seen in between, every white entry is an address that answered this     *)
(* node itself with that id (append_with_peer_white is called for nothing  *)
(* else).                                                                  *)
(***************************************************************************)
THEOREM WhiteReached == Spec => []WhiteAnswered
<1>1. NodeInv => WhiteAnswered
  BY DEF NodeInv
<1> QED BY <1>1, NodeInvariance, PTL

LEMMA OnceCounted ==
  ASSUME NEW A, NEW list \in Seq(A), OncePerAddr(list)
  PROVE  Cardinality(AddrsOf(list)) = Len(list)
<1> DEFINE n == Len(list)
           f == [i \in 1..n |-> list[i].adr]
           S == AddrsOf(list)
<1>1. n \in Nat /\ DOMAIN list = 1..n
  OBVIOUS
<1> HIDE DEF n
<1>2. f \in Bijection(1..n, S)
  <2>1. f \in [1..n -> S] /\ \A t \in S : \E i \in 1..n : f[i] = t
    BY <1>1 DEF AddrsOf
  <2>2. \A i, j \in 1..n : f[i] = f[j] => i = j
    BY <1>1 DEF OncePerAddr
  <2> HIDE DEF f, S
  <2> QED BY <2>1, <2>2 DEF Bijection, Injection, Surjection, IsInjective
<1> HIDE DEF f, S
<1>3. ExistsBijection(1..n, S)
  BY <1>2 DEF ExistsBijection
<1>4. Cardinality(S) = n
  BY <1>1, <1>3, FS_CountingElements
<1> QED BY <1>4 DEF n, S

(***************************************************************************)
(* No address is twice in a list or in both lists, over every sequence of  *)
(* merges, insertions and (swapped) trims.                                 *)
(***************************************************************************)
THEOREM ListsApart == Spec => []ListsDisjoint
<1>1. NodeInv => ListsDisjoint
  <2> SUFFICES ASSUME NodeInv PROVE ListsDisjoint
    OBVIOUS
  <2>1. ArePeerLists(m_peerlist)
    BY DEF NodeInv
  <2>2. /\ Cardinality(AddrsOf(m_peerlist.white)) = Len(m_peerlist.white)
        /\ Cardinality(AddrsOf(m_peerlist.gray)) = Len(m_peerlist.gray)
    BY <2>1, OnceCounted DEF ArePeerLists
  <2> QED BY <2>1, <2>2 DEF ListsDisjoint, ArePeerLists
<1> QED BY <1>1, NodeInvariance, PTL
-----------------------------------------------------------------------------
(***************************************************************************)
(* The bound on connections.  The maker compares its target with a count   *)
(* that pings raise, and asks the seeds whenever the white list is empty.  *)
(* The bound rests on this: a connection the maker keeps has put its       *)
(* address on the white list, which never becomes empty again, so no seed  *)
(* is asked beside it.  An address that is_ip_allowed refuses does not get *)
(* on the list; the lists that were stored must not hold one.              *)
(***************************************************************************)
NoneLocal(p) ==
  AddrsOf(p.white) \cap LocalAddrs = {} /\ AddrsOf(p.gray) \cap LocalAddrs = {}

(* What holds of the set K of connections the maker keeps, ...             *)
KeptOK(K) ==
  /\ Cardinality(K) <= connections_count
  /\ \A c \in K : c.peer_id # my_id
  /\ \A c, d \in K : c.adr = d.adr => c = d

(* ... and of K while the maker is at m.                                   *)
PlaceOK(m, K) ==
  /\ m.seed # 0 => K = {}
  /\ m.seed = 0 /\ m.pc \in {"pick", "connect", "handshake", "shaken"} =>
       Cardinality(K) < connections_count
  /\ m.seed = 0 /\ m.pc \in {"connect", "handshake", "shaken"} =>
       m.adr \notin LocalAddrs /\ \A c \in K : c.adr # m.adr

BoundInv ==
  /\ NoneLocal(m_peerlist)
  /\ KeptConns # {} => m_peerlist.white # <<>>
  /\ KeptOK(KeptConns)
  /\ PlaceOK(maker, KeptConns)

LEMMA KeptFinite ==
  ASSUME NodeInv
  PROVE  /\ IsFiniteSet(KeptConns) /\ Cardinality(KeptConns) \in Nat
         /\ IsFiniteSet(MakersConn) /\ Cardinality(MakersConn) <= 1
<1>1. KeptConns \in SUBSET conns /\ MakersConn \in SUBSET conns
  BY DEF KeptConns, Outgoing, MakersConn
<1>2. IsFiniteSet(KeptConns) /\ IsFiniteSet(MakersConn)
  BY <1>1, Parts, FS_Subset
<1>3. Cardinality(KeptConns) \in Nat
  BY <1>2, FS_CardinalityType
<1>4. Cardinality(MakersConn) <= 1
  <2>1. CASE MakersConn = {}
    BY <2>1, FS_EmptySet
  <2>2. CASE MakersConn # {}
    <3>1. PICK c \in MakersConn : TRUE
      BY <2>2
    <3>2. MakersConn = {c}
      BY <3>1, Parts DEF MakersConn, ConnInv
    <3> QED BY <3>2, FS_Singleton
  <2> QED BY <2>1, <2>2
<1> QED BY <1>2, <1>3, <1>4

LEMMA FewerKept ==
  ASSUME NEW K, IsFiniteSet(K), NEW L \in SUBSET K, KeptOK(K)
  PROVE  KeptOK(L) /\ \A m : PlaceOK(m, K) => PlaceOK(m, L)
<1>1. Cardinality(L) \in Nat /\ Cardinality(K) \in Nat /\ Cardinality(L) <= Cardinality(K)
  BY FS_Subset, FS_CardinalityType
<1>2. connections_count \in Nat
  BY NodeAssumption
<1>3. Cardinality(L) <= connections_count
  BY <1>1, <1>2 DEF KeptOK
<1>4. Cardinality(K) < connections_count => Cardinality(L) < connections_count
  BY <1>1, <1>2
<1> QED BY <1>3, <1>4 DEF KeptOK, PlaceOK

(* How the lists change in a step: they keep off local addresses, and the  *)
(* white list, once it has an entry, keeps one.                            *)
ListsGrow == NoneLocal(m_peerlist') /\ (m_peerlist.white # <<>> => m_peerlist'.white # <<>>)

LEMMA MergesGrow ==
  ASSUME NEW p, NEW q, NoneLocal(p), MergesTo(p, q)
  PROVE  NoneLocal(q) /\ (p.white # <<>> => q.white # <<>>)
<1>1. AddrsOf(q.white) \subseteq AddrsOf(p.white)
  BY DEF MergesTo, From, AddrsOf
<1> QED BY <1>1 DEF MergesTo, NoneLocal

LEMMA SeenGrows ==
  ASSUME NEW p, NEW a \in Addrs, NEW id \in Ids, NoneLocal(p), ArePeerLists(p)
  PROVE  LET q == append_with_peer_white(p, Entry(a, id, 0))
         IN  /\ NoneLocal(q)
             /\ a \notin LocalAddrs \/ p.white # <<>> => q.white # <<>>
<1> DEFINE e == Entry(a, id, 0)
           q == append_with_peer_white(p, e)
<1>1. IsEntry(e) /\ Stored(e).adr = a /\ e.adr = a
  BY DEF Entry, IsEntry, Stored
<1> HIDE DEF e
<1>2. SeenTo(p, q, e)
  BY <1>1, AppendWhite
<1> HIDE DEF q
<1>3. AddrsOf(q.gray) \cap LocalAddrs = {}
  BY <1>2 DEF SeenTo, NoneLocal
<1>4. AddrsOf(q.white) \cap LocalAddrs = {}
  <2> SUFFICES ASSUME NEW j \in DOMAIN q.white PROVE q.white[j].adr \notin LocalAddrs
    BY DEF AddrsOf
  <2>1. CASE q.white[j] = Stored(e) /\ is_ip_allowed(e.adr)
    BY <2>1, <1>1 DEF is_ip_allowed
  <2>2. CASE \E i \in DOMAIN p.white : q.white[j] = p.white[i]
    BY <2>2 DEF NoneLocal, AddrsOf
  <2> QED BY <1>2, <2>1, <2>2 DEF SeenTo
<1>5. a \notin LocalAddrs \/ p.white # <<>> => q.white # <<>>
  BY <1>1, <1>2 DEF SeenTo, is_ip_allowed
<1> QED BY <1>3, <1>4, <1>5 DEF NoneLocal, q, e

LEMMA SeenMerged ==
  ASSUME NEW p, MergesTo(m_peerlist, p), NoneLocal(m_peerlist),
         NEW a \in Addrs, NEW id \in Ids,
         m_peerlist' = append_with_peer_white(p, Entry(a, id, 0))
  PROVE  ListsGrow
<1>1. NoneLocal(p) /\ ArePeerLists(p) /\ (m_peerlist.white # <<>> => p.white # <<>>)
  BY MergesGrow DEF MergesTo
<1> QED BY <1>1, SeenGrows DEF ListsGrow

LEMMA SameGrow ==
  ASSUME NoneLocal(m_peerlist), m_peerlist' = m_peerlist
  PROVE  ListsGrow
BY DEF ListsGrow

(* A step that keeps no further connection and leaves the maker.           *)
LEMMA KeepsNoMore ==
  ASSUME NodeInv, BoundInv, ListsGrow, KeptConns' \subseteq KeptConns, PlaceOK(maker', KeptConns)
  PROVE  BoundInv'
<1> DEFINE K == KeptConns
           L == KeptConns'
           m == maker'
<1>1. IsFiniteSet(K) /\ L \in SUBSET K /\ KeptOK(K) /\ PlaceOK(m, K)
  BY KeptFinite DEF BoundInv
<1>2. NoneLocal(m_peerlist)' /\ (L # {} => m_peerlist'.white # <<>>)
  BY <1>1 DEF ListsGrow, BoundInv, NoneLocal
<1> HIDE DEF K, L, m
<1>3. KeptOK(L) /\ PlaceOK(m, L)
  BY <1>1, FewerKept
<1>4. KeptOK(KeptConns)' /\ PlaceOK(maker, KeptConns)'
  BY <1>3 DEF KeptOK, PlaceOK, K, L, m
<1> QED BY <1>2, <1>4 DEF BoundInv, L
LEMMA OthersBound ==
  ASSUME NodeInv, BoundInv, IncomingStep \/ OtherStep
  PROVE  BoundInv'
<1>1. maker' = maker
  BY DEF IncomingStep, OtherStep, Accept, RefuseHandshake, handle_handshake, PingConnects,
         PingFails, PingAnswered, TimedSync, CloseConnection, ConnectionGone, Forget
<1>2. NoneLocal(m_peerlist) /\ MergesTo(m_peerlist, m_peerlist)
  BY Parts, MergesNothing DEF BoundInv
<1>3. ASSUME conns' \subseteq conns PROVE KeptConns' \subseteq KeptConns
  BY <1>1, <1>3 DEF KeptConns, Outgoing
<1>4. ASSUME NEW k, k.income \/ k.use = "ping", NEW D \in SUBSET conns, conns' = D \cup {k}
      PROVE  KeptConns' \subseteq KeptConns
  BY <1>1, <1>4 DEF KeptConns, Outgoing
<1>5. KeptConns' \subseteq KeptConns
  <2>1. ASSUME NEW a \in Addrs, Accept(a) PROVE KeptConns' \subseteq KeptConns
    <3> DEFINE k == NewConn(a, TRUE, "income")
    <3>1. conns' = conns \cup {k} /\ k.income
      BY <2>1 DEF Accept, Open, NewConn
    <3> HIDE DEF k
    <3> QED BY <3>1, <1>4
  <2>2. ASSUME NEW p \in pings, PingConnects(p) PROVE KeptConns' \subseteq KeptConns
    <3> DEFINE k == NewConn(p.adr, FALSE, "ping")
    <3>1. conns' = conns \cup {k} /\ k.use = "ping"
      BY <2>2 DEF PingConnects, Open, NewConn
    <3> HIDE DEF k
    <3> QED BY <3>1, <1>4
  <2>3. ASSUME NEW c \in conns, c.income, NEW port \in BOOLEAN, NEW id \in Claims[c.adr],
               handle_handshake(c, id, port)
        PROVE  KeptConns' \subseteq KeptConns
    <3> DEFINE k == [c EXCEPT !.peer_id = id]
    <3>1. k.income
      BY <2>3, Parts DEF Connection
    <3>2. conns' = (conns \ {c}) \cup {k}
      BY <2>3 DEF handle_handshake, Associated
    <3> HIDE DEF k
    <3> QED BY <3>1, <3>2, <1>4
  <2>4. ASSUME NEW c \in conns, RefuseHandshake(c) PROVE conns' \subseteq conns
    BY <2>4 DEF RefuseHandshake
  <2>5. ASSUME NEW p \in pings, PingFails(p) \/ PingAnswered(p) PROVE conns' \subseteq conns
    BY <2>5 DEF PingFails, PingAnswered
  <2>6. ASSUME NEW c \in conns, NEW list \in SentLists, TimedSync(c, list)
        PROVE  conns' \subseteq conns
    BY <2>6 DEF TimedSync
  <2>7. ASSUME NEW c \in conns, CloseConnection(c) PROVE conns' \subseteq conns
    BY <2>7 DEF CloseConnection
  <2>8. ASSUME NEW a \in Addrs, Forget(a) PROVE conns' \subseteq conns
    BY <2>8 DEF Forget, netVars
  <2>9. ASSUME NEW c \in closing, ConnectionGone(c) PROVE conns' \subseteq conns
    BY <2>9 DEF ConnectionGone
  <2> QED BY <1>3, <2>1, <2>2, <2>3, <2>4, <2>5, <2>6, <2>7, <2>8, <2>9, Zenon
          DEF IncomingStep, OtherStep
<1>6. ListsGrow
  <2>1. ASSUME NEW p \in pings, PingAnswered(p) PROVE ListsGrow
    <3>1. p.adr \in Addrs /\ p.id \in Ids
      BY Parts DEF PingsOK
    <3>2. CASE PingAgrees(p)
      BY <1>2, <2>1, <3>1, <3>2, SeenMerged DEF PingAnswered, set_peer_just_seen
    <3>3. CASE ~PingAgrees(p)
      BY <1>2, <2>1, <3>3, SameGrow DEF PingAnswered
    <3> QED BY <3>2, <3>3
  <2>2. ASSUME NEW c \in conns, NEW list \in SentLists, TimedSync(c, list) PROVE ListsGrow
    <3> DEFINE merged == IF fix_time_delta(list) THEN merge_peerlist(m_peerlist, list)
                                                 ELSE m_peerlist
    <3>1. MergesTo(m_peerlist, merged)
      BY Parts, MergedLists, MergesNothing
    <3>2. m_peerlist' = IF c.income THEN merged
                        ELSE append_with_peer_white(merged, Entry(c.adr, c.peer_id, 0))
      BY <2>2 DEF TimedSync, set_peer_just_seen, RemoteAddr
    <3>3. c.adr \in Addrs /\ c.peer_id \in Ids
      BY Parts DEF Connection
    <3> HIDE DEF merged
    <3>4. CASE c.income
      BY <1>2, <3>1, <3>2, <3>4, MergesGrow DEF ListsGrow
    <3>5. CASE ~c.income
      BY <1>2, <3>1, <3>2, <3>3, <3>5, SeenMerged
    <3> QED BY <3>4, <3>5
  <2>3. CASE m_peerlist' = m_peerlist
    BY <1>2, <2>3, SameGrow
  <2>4. \/ m_peerlist' = m_peerlist
        \/ \E p \in pings : PingAnswered(p)
        \/ \E c \in conns, list \in SentLists : TimedSync(c, list)
    BY DEF IncomingStep, OtherStep, Accept, RefuseHandshake, handle_handshake, PingConnects,
           PingFails, CloseConnection, ConnectionGone, Forget
  <2> QED BY <2>1, <2>2, <2>3, <2>4
<1>7. PlaceOK(maker', KeptConns)
  BY <1>1 DEF BoundInv
<1> QED BY <1>5, <1>6, <1>7, KeepsNoMore

(* While the maker waits for no connection, it keeps all it has opened.    *)
LEMMA KeptSame ==
  ASSUME conns' = conns, maker'.n = maker.n
  PROVE  KeptConns' = KeptConns
BY DEF KeptConns, Outgoing

LEMMA KeptWhenFree ==
  ASSUME NodeInv, maker'.n = 0, conns' = conns \ MakersConn
  PROVE  KeptConns' = KeptConns
<1>1. \A c \in conns : c.n # 0
  BY Parts DEF Connection
<1> QED BY <1>1 DEF KeptConns, Outgoing, MakersConn

LEMMA AwayFromCalls ==
  ASSUME NEW m, m.seed = 0, m.pc \in {"idle", "lists", "count"}, NEW K
  PROVE  PlaceOK(m, K)
BY DEF PlaceOK

LEMMA NextCallPlace ==
  ASSUME maker \in MakerStates, maker.plan # <<>>, NEW K
  PROVE  NextCall.n = 0 /\ PlaceOK(NextCall, K)
<1>1. NextCall.n = 0 /\ NextCall.seed = 0 /\ NextCall.pc = "count"
  BY NextCallFree DEF Free
<1> QED BY <1>1, AwayFromCalls

LEMMA TryFailedPlace ==
  ASSUME NodeInv, BoundInv, TryFailed, maker.pc \in {"connect", "shaken"}
  PROVE  maker'.n = 0 /\ PlaceOK(maker', KeptConns)
<1>1. Free(maker') /\ maker \in MakerStates /\ PlaceOK(maker, KeptConns)
  BY TryFailedFree, Parts DEF BoundInv
<1>2. CASE maker.seed # 0
  <2>1. KeptConns = {}
    BY <1>1, <1>2 DEF PlaceOK
  <2>2. maker'.pc = "lists" \/ (maker'.pc = "connect" /\ maker'.seed # 0)
    <3>1. CASE maker' = [Idle EXCEPT !.pc = "lists"]
      BY <3>1 DEF Idle
    <3>2. ASSUME NEW i \in 1..Len(m_seed_nodes), NEW t, NEW a,
                 maker' = [maker EXCEPT !.pc = "connect", !.tries = t, !.seed = i,
                                        !.adr = a, !.n = 0]
          PROVE  maker'.pc = "connect" /\ maker'.seed # 0
      <4>1. maker'.pc = "connect" /\ maker'.seed = i
        BY <1>1, <3>2 DEF MakerStates
      <4>2. i # 0
        BY NodeAssumption
      <4> QED BY <4>1, <4>2
    <3>3. Len(m_seed_nodes) \in Nat /\ maker.seed \in 1..Len(m_seed_nodes)
      BY <1>1, <1>2, NodeAssumption DEF MakerStates
    <3>4. (IF maker.seed = Len(m_seed_nodes) THEN 1 ELSE maker.seed + 1) \in 1..Len(m_seed_nodes)
      BY <3>3
    <3>5. maker' = NextSeed
      BY <1>2 DEF TryFailed, Seeding
    <3> DEFINE i == IF maker.seed = Len(m_seed_nodes) THEN 1 ELSE maker.seed + 1
    <3>6. \/ maker' = [Idle EXCEPT !.pc = "lists"]
          \/ maker' = [maker EXCEPT !.pc = "connect", !.tries = maker.tries + 1, !.seed = i,
                                    !.adr = m_seed_nodes[i], !.n = 0]
      BY <3>5, Zenon DEF NextSeed
    <3> HIDE DEF i
    <3>7. i \in 1..Len(m_seed_nodes)
      BY <3>4 DEF i
    <3> QED BY <3>1, <3>2, <3>6, <3>7, Zenon
  <2> QED BY <1>1, <2>1, <2>2 DEF PlaceOK, Free
<1>3. CASE maker.seed = 0
  <2>1. maker' = [maker EXCEPT !.pc = "pick", !.adr = Self, !.n = 0]
    BY <1>3 DEF TryFailed, Seeding
  <2>2. maker'.pc = "pick" /\ maker'.seed = 0
    BY <1>1, <1>3, <2>1 DEF MakerStates
  <2>3. Cardinality(KeptConns) < connections_count
    BY <1>1, <1>3 DEF PlaceOK
  <2> QED BY <1>1, <2>2, <2>3 DEF PlaceOK, Free
<1> QED BY <1>2, <1>3
LEMMA StartMakerBound ==
  ASSUME NodeInv, BoundInv, StartMaker
  PROVE  BoundInv'
<1>1. conns' = conns /\ m_peerlist' = m_peerlist /\ maker.n = 0
  BY Parts, Zenon DEF StartMaker, netVars, MakerInv, Waiting
<1>2. ListsGrow
  BY <1>1, SameGrow DEF BoundInv
<1>3. CASE maker' = [Idle EXCEPT !.pc = "lists"]
  <2>1. maker'.n = 0 /\ maker'.seed = 0 /\ maker'.pc = "lists"
    BY <1>3 DEF Idle
  <2> QED BY <1>1, <1>2, <2>1, KeptSame, AwayFromCalls, KeepsNoMore
<1>4. CASE /\ m_peerlist.white = <<>>
           /\ \E i \in DOMAIN m_seed_nodes :
                maker' = [Idle EXCEPT !.pc = "connect", !.seed = i, !.adr = m_seed_nodes[i]]
  <2>1. PICK i \in DOMAIN m_seed_nodes :
               maker' = [Idle EXCEPT !.pc = "connect", !.seed = i, !.adr = m_seed_nodes[i]]
    BY <1>4, Zenon
  <2>2. i # 0
    BY NodeAssumption
  <2>3. maker'.n = 0 /\ maker'.seed = i
    BY <2>1 DEF Idle
  <2>4. KeptConns = {}
    BY <1>4 DEF BoundInv
  <2>5. PlaceOK(maker', KeptConns)
    BY <2>2, <2>3, <2>4 DEF PlaceOK
  <2> QED BY <1>1, <1>2, <2>3, <2>5, KeptSame, KeepsNoMore
<1> QED BY <1>3, <1>4, Zenon DEF StartMaker

LEMMA CountConnectionsBound ==
  ASSUME NodeInv, BoundInv, CountConnections
  PROVE  BoundInv'
<1>1. /\ conns' = conns /\ m_peerlist' = m_peerlist /\ maker.n = 0 /\ maker.seed = 0
      /\ maker \in MakerStates
  BY Parts DEF CountConnections, netVars, MakerInv, Waiting, Seeding
<1>2. ListsGrow
  BY <1>1, SameGrow DEF BoundInv
<1> DEFINE call == Head(maker.plan)
<1>3. ASSUME maker.plan # <<>>, ~TargetReached(call.target)
      PROVE  Cardinality(KeptConns) < connections_count
  <2> DEFINE C == [white : BOOLEAN, target : 0..connections_count]
  <2>1. maker.plan \in Seq(C)
    BY <1>1 DEF MakerStates
  <2> HIDE DEF C
  <2>2. call \in C
    BY <1>3, <2>1
  <2>3. call.target \in 0..connections_count
    BY <2>2 DEF C
  <2> HIDE DEF call
  <2>4. /\ IsFiniteSet(Outgoing) /\ get_outgoing_connections_count \in Nat
        /\ Cardinality(Outgoing) <= get_outgoing_connections_count
        /\ Cardinality(Outgoing) \in Nat
    BY OutgoingFinite, FS_CardinalityType DEF NodeInv
  <2>5. get_outgoing_connections_count < call.target
    BY <1>3, <2>3, <2>4 DEF TargetReached
  <2>6. Cardinality(KeptConns) <= Cardinality(Outgoing)
    <3>1. KeptConns \in SUBSET Outgoing
      BY DEF KeptConns
    <3> QED BY <3>1, <2>4, FS_Subset
  <2>7. Cardinality(KeptConns) \in Nat /\ connections_count \in Nat
    BY KeptFinite, NodeAssumption
  <2> QED BY <2>3, <2>4, <2>5, <2>6, <2>7
<1>4. CASE maker' = Idle
  <2>1. maker'.n = 0 /\ maker'.seed = 0 /\ maker'.pc = "idle"
    BY <1>4 DEF Idle
  <2> QED BY <1>1, <1>2, <2>1, KeptSame, AwayFromCalls, KeepsNoMore
<1>5. CASE maker.plan # <<>> /\ maker' = NextCall
  BY <1>1, <1>2, <1>5, NextCallPlace, KeptSame, KeepsNoMore
<1>6. ASSUME maker.plan # <<>>, ~TargetReached(call.target), NEW mx,
             maker' = [maker EXCEPT !.pc = "pick", !.max = mx]
      PROVE  BoundInv'
  <2>1. maker'.pc = "pick" /\ maker'.n = 0 /\ maker'.seed = 0
    BY <1>1, <1>6 DEF MakerStates
  <2>2. PlaceOK(maker', KeptConns)
    BY <1>3, <1>6, <2>1 DEF PlaceOK
  <2> QED BY <1>1, <1>2, <2>1, <2>2, KeptSame, KeepsNoMore
<1> QED BY <1>4, <1>5, <1>6, Zenon DEF CountConnections

LEMMA PickPeerBound ==
  ASSUME NodeInv, BoundInv, NEW i \in 0..50, PickPeer(i)
  PROVE  BoundInv'
<1>1. /\ conns' = conns /\ m_peerlist' = m_peerlist /\ maker.n = 0 /\ maker.seed = 0
      /\ maker.pc = "pick" /\ maker \in MakerStates /\ maker.plan # <<>>
  BY Parts DEF PickPeer, netVars, MakerInv, Waiting, Seeding
<1>2. ListsGrow
  BY <1>1, SameGrow DEF BoundInv
<1> DEFINE list == ListOf(Head(maker.plan).white)
           pe == PeerByIndex(list, i)
<1>3. list \in Seq(Listed) /\ AddrsOf(list) \cap LocalAddrs = {}
  BY Parts DEF ListOf, ListsOK, ArePeerLists, BoundInv, NoneLocal
<1>4. i < Len(list) => pe.adr \notin LocalAddrs
  <2> HIDE DEF list
  <2> SUFFICES ASSUME i < Len(list) PROVE pe.adr \notin LocalAddrs
    OBVIOUS
  <2>1. Len(list) - i \in DOMAIN list
    BY <1>3
  <2> QED BY <2>1, <1>3 DEF PeerByIndex, AddrsOf
<1>5. Cardinality(KeptConns) < connections_count
  BY <1>1 DEF BoundInv, PlaceOK
<1>6. \/ maker' = NextCall
      \/ maker' = [maker EXCEPT !.tried = @ \cup {i}]
      \/ /\ i < Len(list) /\ ~is_peer_used(pe)
         /\ maker' = [maker EXCEPT !.tried = @ \cup {i}, !.pc = "connect", !.adr = pe.adr]
  <2> HIDE DEF list
  <2>1. i >= Len(list) \/ i < Len(list)
    BY <1>3
  <2> QED BY <2>1, Zenon DEF PickPeer, list
<1>7. ~is_peer_used(pe) => \A c \in KeptConns : c.adr # pe.adr
  BY DEF is_peer_used, KeptConns, Outgoing
<1> HIDE DEF pe, list
<1>8. CASE maker' = NextCall
  BY <1>1, <1>2, <1>8, NextCallPlace, KeptSame, KeepsNoMore
<1>9. CASE maker' = [maker EXCEPT !.tried = @ \cup {i}]
  <2> DEFINE tr == maker.tried \cup {i}
  <2>1. maker' = [maker EXCEPT !.tried = tr]
    BY <1>9
  <2> HIDE DEF tr
  <2>2. maker'.pc = "pick" /\ maker'.n = 0 /\ maker'.seed = 0
    BY <1>1, <2>1 DEF MakerStates
  <2>3. PlaceOK(maker', KeptConns)
    BY <1>5, <2>2 DEF PlaceOK
  <2> QED BY <1>1, <1>2, <2>2, <2>3, KeptSame, KeepsNoMore
<1>10. CASE /\ i < Len(list) /\ ~is_peer_used(pe)
            /\ maker' = [maker EXCEPT !.tried = @ \cup {i}, !.pc = "connect", !.adr = pe.adr]
  <2> DEFINE tr == maker.tried \cup {i}
             a == pe.adr
  <2>1. maker' = [maker EXCEPT !.tried = tr, !.pc = "connect", !.adr = a]
    BY <1>10
  <2>2. a \notin LocalAddrs /\ \A c \in KeptConns : c.adr # a
    BY <1>4, <1>7, <1>10
  <2> HIDE DEF tr, a
  <2>3. maker'.pc = "connect" /\ maker'.n = 0 /\ maker'.seed = 0 /\ maker'.adr = a
    BY <1>1, <2>1 DEF MakerStates
  <2>4. PlaceOK(maker', KeptConns)
    BY <1>5, <2>2, <2>3 DEF PlaceOK
  <2> QED BY <1>1, <1>2, <2>3, <2>4, KeptSame, KeepsNoMore
<1> QED BY <1>6, <1>8, <1>9, <1>10

LEMMA RoundBound ==
  ASSUME NodeInv, BoundInv, PlanCalls \/ GiveUp \/ ConnectFails
  PROVE  BoundInv'
<1>1. conns' = conns /\ m_peerlist' = m_peerlist /\ maker.n = 0 /\ maker \in MakerStates
  BY Parts DEF PlanCalls, GiveUp, ConnectFails, netVars, MakerInv, Waiting
<1>2. ListsGrow
  BY <1>1, SameGrow DEF BoundInv
<1>3. maker'.n = 0 /\ PlaceOK(maker', KeptConns)
  <2>1. CASE PlanCalls
    <3>1. maker'.n = 0 /\ maker'.seed = 0 /\ maker'.pc = "count"
      BY <2>1, OutgoingFinite, PlanForPlans, AtCallFree DEF PlanCalls, NodeInv, Free
    <3> QED BY <3>1, AwayFromCalls
  <2>2. CASE GiveUp
    <3>1. maker.plan # <<>>
      BY <2>2, Parts DEF GiveUp, MakerInv, Waiting, Seeding
    <3> QED BY <1>1, <2>2, <3>1, NextCallPlace DEF GiveUp
  <2>3. CASE ConnectFails
    BY <2>3, TryFailedPlace DEF ConnectFails
  <2> QED BY <2>1, <2>2, <2>3
<1> QED BY <1>1, <1>2, <1>3, KeptSame, KeepsNoMore

LEMMA ConnectBound ==
  ASSUME NodeInv, BoundInv, Connect
  PROVE  BoundInv'
<1> DEFINE use == IF Seeding THEN "seed" ELSE "peer"
           k == NewConn(maker.adr, FALSE, use)
           f == FreeNumber
<1>1. maker \in MakerStates /\ maker.pc = "connect" /\ m_peerlist' = m_peerlist
      /\ maker.n = 0
  BY Parts DEF Connect, MakerInv, Waiting
<1>2. ListsGrow
  BY <1>1, SameGrow DEF BoundInv
<1>3. conns' = conns \cup {k} /\ k.n = f
  BY DEF Connect, Open, NewConn
<1>4. \A c \in conns : c.n # 0
  BY Parts DEF Connection
<1> HIDE DEF k, f
<1>5. maker' = [maker EXCEPT !.pc = "handshake", !.n = f]
  BY DEF Connect, f
<1>6. /\ maker'.pc = "handshake" /\ maker'.n = f /\ maker'.adr = maker.adr
      /\ maker'.seed = maker.seed
  BY <1>1, <1>5 DEF MakerStates
<1>7. KeptConns' \subseteq KeptConns
  BY <1>1, <1>3, <1>4, <1>6 DEF KeptConns, Outgoing
<1>8. PlaceOK(maker', KeptConns)
  BY <1>1, <1>6 DEF BoundInv, PlaceOK
<1> QED BY <1>2, <1>7, <1>8, KeepsNoMore

LEMMA HandshakeBound ==
  ASSUME NodeInv, BoundInv, HandshakeAnswer
  PROVE  BoundInv'
<1>1. maker \in MakerStates /\ maker.pc = "handshake"
  BY Parts, Zenon DEF HandshakeAnswer, HandshakeRefused, HandshakeBadList, HandshakeAnswered
<1>2. ASSUME NEW ok, maker' = [maker EXCEPT !.pc = "shaken", !.ok = ok]
      PROVE  maker'.n = maker.n /\ PlaceOK(maker', KeptConns)
  <2>1. /\ maker'.pc = "shaken" /\ maker'.n = maker.n /\ maker'.adr = maker.adr
        /\ maker'.seed = maker.seed
    BY <1>1, <1>2 DEF MakerStates
  <2> QED BY <1>1, <2>1 DEF BoundInv, PlaceOK
<1>3. CASE HandshakeRefused \/ HandshakeBadList
  <2>1. conns' = conns /\ m_peerlist' = m_peerlist
        /\ maker' = [maker EXCEPT !.pc = "shaken", !.ok = FALSE]
    BY <1>3 DEF HandshakeRefused, HandshakeBadList, netVars
  <2>2. ListsGrow
    BY <2>1, SameGrow DEF BoundInv
  <2> QED BY <1>2, <2>1, <2>2, KeptSame, KeepsNoMore, Zenon
<1>4. ASSUME NEW list \in SentLists, NEW payloadOk \in BOOLEAN, HandshakeAnswered(list, payloadOk)
      PROVE  BoundInv'
  <2> DEFINE merged == merge_peerlist(m_peerlist, list)
  <2>1. PICK c \in MakersConn :
          LET id == IdOf(c.adr)
          IN  IF Seeding \/ ~payloadOk
              THEN /\ m_peerlist' = merged
                   /\ maker' = [maker EXCEPT !.pc = "shaken", !.ok = Seeding]
                   /\ UNCHANGED <<conns, answered>>
              ELSE /\ m_peerlist' = set_peer_just_seen(merged, RemoteAddr(c), id)
                   /\ conns' = Associated(c, id)
                   /\ answered' = answered \cup {<<c.adr, id>>}
                   /\ maker' = [maker EXCEPT !.pc = "shaken", !.ok = id # my_id]
    BY <1>4, Zenon DEF HandshakeAnswered
  <2>2. c \in conns /\ c \in Connection /\ c.n = maker.n /\ ~c.income /\ c.adr \in Addrs
    BY Parts DEF MakersConn, MakerInv, Connection
  <2>3. MergesTo(m_peerlist, merged) /\ NoneLocal(m_peerlist)
    BY <1>4, Parts, MergedLists DEF HandshakeAnswered, BoundInv
  <2> HIDE DEF merged
  <2>4. CASE Seeding \/ ~payloadOk
    <3>1. /\ m_peerlist' = merged /\ conns' = conns
          /\ maker' = [maker EXCEPT !.pc = "shaken", !.ok = Seeding]
      BY <2>1, <2>4
    <3>2. ListsGrow
      BY <2>3, <3>1, MergesGrow DEF ListsGrow
    <3> QED BY <1>2, <3>1, <3>2, KeptSame, KeepsNoMore, Zenon
  <2>5. CASE ~(Seeding \/ ~payloadOk)
    <3> DEFINE id == IdOf(c.adr)
               k == [c EXCEPT !.peer_id = id]
               ok == (id # my_id)
    <3>1. /\ m_peerlist' = set_peer_just_seen(merged, RemoteAddr(c), id)
          /\ conns' = (conns \ {c}) \cup {k}
          /\ maker' = [maker EXCEPT !.pc = "shaken", !.ok = ok]
      BY <2>1, <2>5 DEF Associated
    <3>2. id \in Ids
      BY <2>2, IdOfType
    <3> HIDE DEF id, ok
    <3>3. k.n = c.n
      BY <2>2 DEF Connection
    <3> HIDE DEF k
    <3>4. m_peerlist' = append_with_peer_white(merged, Entry(c.adr, id, 0))
      BY <2>2, <3>1 DEF RemoteAddr, set_peer_just_seen
    <3>5. ListsGrow
      BY <2>2, <2>3, <3>2, <3>4, SeenMerged
    <3>6. maker'.n = maker.n /\ PlaceOK(maker', KeptConns)
      BY <1>2, <3>1, Zenon
    <3>7. KeptConns' \subseteq KeptConns
      BY <2>2, <3>1, <3>3, <3>6 DEF KeptConns, Outgoing
    <3> QED BY <3>5, <3>6, <3>7, KeepsNoMore
  <2> QED BY <2>4, <2>5
<1> QED BY <1>3, <1>4 DEF HandshakeAnswer
(***************************************************************************)
(* The end of a handshake: the only step after which the maker keeps one   *)
(* more connection.                                                        *)
(***************************************************************************)
LEMMA HandshakeDoneBound ==
  ASSUME NodeInv, BoundInv, HandshakeDone
  PROVE  BoundInv'
<1>1. /\ maker \in MakerStates /\ maker.pc = "shaken" /\ maker.adr \in Addrs
      /\ maker.plan \in Plans
  BY Parts DEF MakerStates, HandshakeDone, Plans
<1>2. CASE ~maker.ok
  <2>1. conns' = conns \ MakersConn /\ TryFailed /\ m_peerlist' = m_peerlist
    BY <1>2 DEF HandshakeDone, Close
  <2>2. ListsGrow
    BY <2>1, SameGrow DEF BoundInv
  <2> QED BY <1>1, <2>1, <2>2, TryFailedPlace, KeptWhenFree, KeepsNoMore
<1>3. CASE maker.ok /\ Seeding
  <2>1. /\ conns' = conns \ MakersConn /\ m_peerlist' = m_peerlist
        /\ maker' = [Idle EXCEPT !.pc = "lists"]
    BY <1>3 DEF HandshakeDone, Close
  <2>2. ListsGrow
    BY <2>1, SameGrow DEF BoundInv
  <2>3. maker'.n = 0 /\ maker'.seed = 0 /\ maker'.pc = "lists"
    BY <2>1 DEF Idle
  <2> QED BY <2>1, <2>2, <2>3, AwayFromCalls, KeptWhenFree, KeepsNoMore
<1>4. CASE maker.ok /\ ~Seeding
  <2> DEFINE K == KeptConns
             M == MakersConn
             L == KeptConns'
  <2>1. /\ conns' = conns /\ maker' = AtCall(maker.plan)
        /\ m_peerlist' = append_with_peer_white(m_peerlist, Entry(maker.adr, IdOf(maker.adr), 0))
    BY <1>4 DEF HandshakeDone
  <2>2. maker'.n = 0 /\ maker'.seed = 0 /\ maker'.pc = "count"
    BY <1>1, <2>1, AtCallFree DEF Free
  <2>3. /\ maker.adr \notin LocalAddrs /\ Cardinality(K) < connections_count
        /\ \A c \in K : c.adr # maker.adr
    BY <1>1, <1>4 DEF BoundInv, PlaceOK, Seeding
  <2>4. \A c \in M : c.peer_id # my_id /\ c.adr = maker.adr
    BY <1>1, <1>4, Parts DEF MakerInv
  <2>5. L \subseteq K \cup M
    BY <2>1 DEF KeptConns, Outgoing, MakersConn
  <2>6. /\ IsFiniteSet(K) /\ Cardinality(K) \in Nat
        /\ IsFiniteSet(M) /\ Cardinality(M) <= 1
    BY KeptFinite
  <2>7. KeptOK(K) /\ NoneLocal(m_peerlist) /\ ArePeerLists(m_peerlist)
    BY Parts DEF BoundInv, ListsOK
  <2>8. \A c, d \in M : c = d
    BY Parts DEF MakersConn, ConnInv
  <2>9. NoneLocal(m_peerlist') /\ m_peerlist'.white # <<>>
    BY <1>1, <2>1, <2>3, <2>7, IdOfType, SeenGrows
  <2> HIDE DEF K, M, L
  <2>10. Cardinality(L) <= connections_count
    <3>1. IsFiniteSet(K \cup M) /\ Cardinality(M) \in Nat
      BY <2>6, FS_Union, FS_CardinalityType
    <3>2. Cardinality(K \cup M) = Cardinality(K) + Cardinality(M) - Cardinality(K \cap M)
      BY <2>6, FS_Union
    <3>3. Cardinality(K \cap M) \in Nat
      <4>1. K \cap M \in SUBSET K
        OBVIOUS
      <4> QED BY <4>1, <2>6, FS_Subset, FS_CardinalityType
    <3>4. Cardinality(L) <= Cardinality(K \cup M) /\ Cardinality(L) \in Nat
      <4>1. L \in SUBSET (K \cup M)
        BY <2>5
      <4> QED BY <4>1, <3>1, FS_Subset, FS_CardinalityType
    <3>5. connections_count \in Nat
      BY NodeAssumption
    <3> DEFINE x == Cardinality(K)
               y == Cardinality(M)
               z == Cardinality(K \cap M)
               u == Cardinality(K \cup M)
               v == Cardinality(L)
    <3>6. /\ x \in Nat /\ y \in Nat /\ z \in Nat /\ v \in Nat /\ y <= 1
          /\ u = x + y - z /\ v <= u /\ x < connections_count
      BY <2>3, <2>6, <3>1, <3>2, <3>3, <3>4
    <3> HIDE DEF x, y, z, u, v
    <3>7. v <= connections_count
      BY <3>5, <3>6
    <3> QED BY <3>7 DEF v
  <2>11. KeptOK(L)
    <3>1. \A c \in L : c.peer_id # my_id
      BY <2>4, <2>5, <2>7 DEF KeptOK
    <3>2. \A c, d \in L : c.adr = d.adr => c = d
      BY <2>3, <2>4, <2>5, <2>7, <2>8 DEF KeptOK
    <3> QED BY <2>10, <3>1, <3>2 DEF KeptOK
  <2>12. PlaceOK(maker', L)
    BY <2>2, AwayFromCalls
  <2>13. KeptOK(KeptConns)' /\ PlaceOK(maker, KeptConns)'
    BY <2>11, <2>12 DEF KeptOK, PlaceOK, L
  <2> QED BY <2>9, <2>13 DEF BoundInv, NoneLocal
<1> QED BY <1>2, <1>3, <1>4

(* No address that is_ip_allowed refuses was stored: the node has run with *)
(* the same allow-local-ip before.                                         *)
StoredAllowed == \A p \in StoredLists : NoneLocal(p)

LEMMA BoundInit ==
  ASSUME StoredAllowed, Init PROVE BoundInv
<1>1. KeptConns = {}
  BY DEF Init, KeptConns, Outgoing
<1>2. NoneLocal(m_peerlist)
  BY DEF Init, StoredAllowed
<1>3. maker.seed = 0 /\ maker.pc = "idle"
  BY DEF Init, Idle
<1>4. KeptOK({})
  BY FS_EmptySet, NodeAssumption DEF KeptOK
<1>5. PlaceOK(maker, KeptConns)
  BY <1>3, AwayFromCalls
<1> QED BY <1>1, <1>2, <1>4, <1>5 DEF BoundInv

LEMMA BoundNext == NodeInv /\ BoundInv /\ [Next]_vars => BoundInv'
<1> SUFFICES ASSUME NodeInv, BoundInv, [Next]_vars PROVE BoundInv'
  OBVIOUS
<1>1. CASE MakerStep
  BY <1>1, StartMakerBound, CountConnectionsBound, PickPeerBound, RoundBound, ConnectBound,
     HandshakeDoneBound DEF MakerStep
<1>2. CASE HandshakeAnswer
  BY <1>2, HandshakeBound
<1>3. CASE IncomingStep \/ OtherStep
  BY <1>3, OthersBound
<1>4. CASE UNCHANGED vars
  <2>1. conns' = conns /\ maker' = maker /\ m_peerlist' = m_peerlist
    BY <1>4 DEF vars, netVars
  <2>2. ListsGrow
    BY <2>1, SameGrow DEF BoundInv
  <2>3. PlaceOK(maker', KeptConns)
    BY <2>1 DEF BoundInv
  <2> QED BY <2>1, <2>2, <2>3, KeptSame, KeepsNoMore
<1> QED BY <1>1, <1>2, <1>3, <1>4 DEF Next

(***************************************************************************)
(* What bounds the connections: see BoundInv.                              *)
(***************************************************************************)
THEOREM BoundInvariance ==
  ASSUME StoredAllowed PROVE Spec => [](NodeInv /\ BoundInv)
<1>1. Init => NodeInv /\ BoundInv
  BY NodeInit, BoundInit
<1>2. (NodeInv /\ BoundInv) /\ [Next]_vars => (NodeInv /\ BoundInv)'
  BY NodeNext, BoundNext
<1> QED BY <1>1, <1>2, PTL DEF Spec

LEMMA OpenedKeptOrMakers ==
  {c \in Outgoing : c.use # "ping"} \subseteq KeptConns \cup MakersConn
BY DEF KeptConns, MakersConn, Outgoing

(* Beside the connection it waits for, the maker keeps fewer than its      *)
(* limit, and none if it asks a seed.                                      *)
LEMMA RoomForOne ==
  ASSUME NodeInv, BoundInv, MakersConn # {}
  PROVE  /\ Cardinality(KeptConns) < connections_count
         /\ \A c \in KeptConns, d \in MakersConn : c.adr # d.adr
<1>1. Waiting
  <2>1. maker.n # 0
    BY Parts DEF MakersConn, Connection
  <2> QED BY <2>1, Parts DEF MakerInv
<1>2. \A d \in MakersConn : d.adr = maker.adr
  BY Parts DEF MakerInv
<1>3. CASE maker.seed = 0
  BY <1>1, <1>2, <1>3 DEF BoundInv, PlaceOK, Waiting
<1>4. CASE maker.seed # 0
  <2>1. KeptConns = {}
    BY <1>4 DEF BoundInv, PlaceOK
  <2> QED BY <2>1, FS_EmptySet, NodeAssumption
<1> QED BY <1>3, <1>4

(***************************************************************************)
(* connections_maker never has more connections of its own open than       *)
(* connections_count, although the count it compares with its targets also *)
(* holds pings and changes while it waits, and although the seeds are      *)
(* asked without comparing it.                                             *)
(***************************************************************************)
THEOREM OutgoingWithinCount ==
  ASSUME StoredAllowed PROVE Spec => []OutgoingBounded
<1>1. NodeInv /\ BoundInv => OutgoingBounded
  <2> SUFFICES ASSUME NodeInv, BoundInv PROVE OutgoingBounded
    OBVIOUS
  <2> DEFINE O == {c \in Outgoing : c.use # "ping"}
             K == KeptConns
             M == MakersConn
  <2>1. /\ IsFiniteSet(K) /\ Cardinality(K) \in Nat /\ IsFiniteSet(M) /\ Cardinality(M) <= 1
        /\ Cardinality(K) <= connections_count
    BY KeptFinite DEF BoundInv, KeptOK
  <2>2. O \in SUBSET (K \cup M) /\ (M # {} => Cardinality(K) < connections_count)
    BY OpenedKeptOrMakers, RoomForOne
  <2>3. connections_count \in Nat
    BY NodeAssumption
  <2> HIDE DEF O, K, M
  <2>4. CASE M = {}
    <3>1. O \in SUBSET K
      BY <2>2, <2>4
    <3>2. Cardinality(O) <= Cardinality(K) /\ Cardinality(O) \in Nat
      BY <2>1, <3>1, FS_Subset, FS_CardinalityType
    <3>3. Cardinality(O) <= connections_count
      BY <2>1, <2>3, <3>2
    <3> QED BY <3>3 DEF OutgoingBounded, O
  <2>5. CASE M # {}
    <3>1. PICK x \in M : TRUE
      BY <2>5
    <3>2. M = {x}
      <4>1. \A c, d \in M : c = d
        BY Parts DEF M, MakersConn, ConnInv
      <4> QED BY <3>1, <4>1
    <3>3. /\ IsFiniteSet(K \cup {x})
          /\ Cardinality(K \cup {x}) = IF x \in K THEN Cardinality(K) ELSE Cardinality(K) + 1
      BY <2>1, FS_AddElement
    <3>4. Cardinality(O) <= Cardinality(K \cup {x}) /\ Cardinality(O) \in Nat
      BY <2>2, <3>2, <3>3, FS_Subset, FS_CardinalityType
    <3>5. Cardinality(O) <= connections_count
      BY <2>1, <2>2, <2>3, <2>5, <3>3, <3>4
    <3> QED BY <3>5 DEF OutgoingBounded, O
  <2> QED BY <2>4, <2>5
<1> QED BY <1>1, BoundInvariance, PTL

(***************************************************************************)
(* Two connections the maker opened lead to different addresses and none   *)
(* that it keeps back to this node: is_peer_used looks at the address and  *)
(* not at the id alone, which a list may have wrong, and at seeds and      *)
(* peers alike.                                                            *)
(***************************************************************************)
THEOREM PeersDistinct ==
  ASSUME StoredAllowed PROVE Spec => []DistinctPeers
<1>1. NodeInv /\ BoundInv => DistinctPeers
  <2> SUFFICES ASSUME NodeInv, BoundInv PROVE DistinctPeers
    OBVIOUS
  <2>1. \A c \in KeptConns : c.peer_id # my_id
    BY DEF BoundInv, KeptOK
  <2>2. \A c, d \in KeptConns \cup MakersConn : c.adr = d.adr => c = d
    <3>1. \A c, d \in KeptConns : c.adr = d.adr => c = d
      BY DEF BoundInv, KeptOK
    <3>2. \A c, d \in MakersConn : c = d
      BY Parts DEF MakersConn, ConnInv
    <3>3. \A c \in KeptConns, d \in MakersConn : c.adr # d.adr
      BY RoomForOne
    <3> QED BY <3>1, <3>2, <3>3
  <2>3. \A c \in Outgoing : c.use # "ping" => c \in KeptConns \cup MakersConn
    BY OpenedKeptOrMakers
  <2> QED BY <2>1, <2>2, <2>3 DEF DistinctPeers
<1> QED BY <1>1, BoundInvariance, PTL
=============================================================================
