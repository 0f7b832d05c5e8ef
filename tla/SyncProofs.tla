----------------------------- MODULE SyncProofs -----------------------------
(***************************************************************************)
(* Theorems about SyncProtocol: the types, what is under way on a          *)
(* connection, what the answers are checked against, and that a peer with  *)
(* a good chain is not blamed before another one has spoilt a block of it, *)
(* for every block tree, every set of peers and every interleaving of      *)
(* their messages.                                                         *)
(***************************************************************************)
EXTENDS SyncProtocol, SubsequenceProofs, FiniteSetTheorems

-----------------------------------------------------------------------------
(***************************************************************************)
(* The block tree.                                                         *)
(***************************************************************************)
LEMMA PathFacts ==
  ASSUME NEW b \in Blocks
  PROVE  /\ Path[b] \in Seq(Blocks) /\ Len(Path[b]) \in Nat \ {0}
         /\ DOMAIN Path[b] = 1..Len(Path[b])
         /\ Path[b][1] = Genesis /\ Path[b][Len(Path[b])] = b
         /\ \A i \in 1..Len(Path[b]) : /\ Path[b][i] \in Blocks
                                       /\ Path[Path[b][i]] = SubSeq(Path[b], 1, i)
<1>1. Path[b] \in Seq(Blocks) /\ Path[b] # <<>>
  BY SyncAssumption
<1>2. Len(Path[b]) \in Nat \ {0} /\ DOMAIN Path[b] = 1..Len(Path[b])
  BY <1>1
<1>3. \A i \in 1..Len(Path[b]) : Path[b][i] \in Blocks
  BY <1>1
<1>4. \A i \in 1..Len(Path[b]) : Path[Path[b][i]] = SubSeq(Path[b], 1, i)
  BY <1>2, SyncAssumption
<1>5. Path[b][1] = Genesis /\ Path[b][Len(Path[b])] = b
  BY SyncAssumption
<1> QED BY <1>1, <1>2, <1>3, <1>4, <1>5

(* The blocks of the chain that ends in b.                                 *)
LEMMA MainFacts ==
  ASSUME NEW b \in Blocks
  PROVE  /\ Main(b) = {Path[b][i] : i \in 1..Len(Path[b])}
         /\ Main(b) \subseteq Blocks /\ b \in Main(b) /\ Genesis \in Main(b)
<1>1. Main(b) = {Path[b][i] : i \in 1..Len(Path[b])}
  BY PathFacts DEF Main, ToSet
<1>2. 1 \in 1..Len(Path[b]) /\ Len(Path[b]) \in 1..Len(Path[b])
  BY PathFacts
<1> QED BY <1>1, <1>2, PathFacts

(* The chain of a block on b's chain is a part of it.                      *)
LEMMA MainDown ==
  ASSUME NEW b \in Blocks, NEW x \in Main(b)
  PROVE  Main(x) \subseteq Main(b)
<1>1. PICK i \in 1..Len(Path[b]) : x = Path[b][i]
  BY MainFacts
<1>2. x \in Blocks /\ Path[x] = SubSeq(Path[b], 1, i)
  BY <1>1, PathFacts
<1>3. Len(Path[x]) = i /\ \A j \in 1..i : Path[x][j] = Path[b][j]
  BY <1>2, PathFacts
<1>4. \A j \in 1..i : j \in 1..Len(Path[b])
  BY PathFacts
<1>5. Main(x) = {Path[x][j] : j \in 1..i}
  BY <1>2, <1>3, MainFacts
<1>6. Main(b) = {Path[b][j] : j \in 1..Len(Path[b])}
  BY MainFacts
<1> QED BY <1>3, <1>4, <1>5, <1>6

(* Every block but the first has one before it.                            *)
LEMMA PrevFacts ==
  ASSUME NEW b \in Blocks, b # Genesis
  PROVE  /\ Len(Path[b]) > 1 /\ Prev(b) \in Blocks /\ Prev(b) \in Main(b)
         /\ Main(b) = Main(Prev(b)) \cup {b}
<1> DEFINE n == Len(Path[b])
<1>1. n \in Nat \ {0} /\ n # 1
  BY PathFacts
<1>2. n - 1 \in 1..n /\ n \in 1..n
  <2> HIDE DEF n
  <2> QED BY <1>1
<1>3. Prev(b) = Path[b][n - 1] /\ Prev(b) \in Blocks /\ Path[Prev(b)] = SubSeq(Path[b], 1, n - 1)
  BY <1>2, PathFacts DEF Prev
<1>4. Len(Path[Prev(b)]) = n - 1 /\ \A j \in 1..(n - 1) : Path[Prev(b)][j] = Path[b][j]
  BY <1>1, <1>3, PathFacts
<1>5. Prev(b) \in Main(b)
  BY <1>2, <1>3, MainFacts
<1>6. \A j \in 1..n : j = n \/ j \in 1..(n - 1)
  BY <1>1
<1>7. \A j \in 1..(n - 1) : j \in 1..n
  BY <1>1
<1>8. Path[b][n] = b
  BY PathFacts
<1>9. Main(b) = {Path[b][i] : i \in 1..n} /\ Main(Prev(b)) = {Path[b][i] : i \in 1..(n - 1)}
  <2>1. Main(Prev(b)) = {Path[Prev(b)][i] : i \in 1..(n - 1)}
    BY <1>3, <1>4, MainFacts
  <2> QED BY <2>1, <1>4, MainFacts
<1> HIDE DEF n
<1>10. n > 1
  BY <1>1
<1>11. Main(b) = Main(Prev(b)) \cup {b}
  BY <1>2, <1>6, <1>7, <1>8, <1>9
<1> QED BY <1>3, <1>5, <1>10, <1>11 DEF n

-----------------------------------------------------------------------------
(***************************************************************************)
(* The core.  It never forgets a block, and never loses one from its       *)
(* chains that it has no reason to refuse.                                 *)
(*                                                                         *)
(* D is any set that holds the spoilt blocks, and stays fixed while they   *)
(* grow: everything is stated relative to it, and the invariant for every  *)
(* D at once.                                                              *)
(***************************************************************************)
Cores(D) ==
  {c \in [top : Blocks, alt : SUBSET Blocks, invalid : SUBSET Blocks, spoilt : SUBSET Blocks] :
     c.spoilt \subseteq D /\ Main(c.top) \cap Invalid = {}}

InChain(c) == Main(c.top) \cup c.alt
Known(c)   == InChain(c) \cup c.invalid

Clean(D, b) == CheckpointSettled /\ Main(b) \cap (Invalid \cup D) = {}

OnlyDirtyInvalid(D, c) == \A x \in c.invalid : ~Clean(D, x)

Extends(D, d, c) ==
  /\ d \in Cores(D) /\ c.spoilt \subseteq d.spoilt
  /\ Known(c) \subseteq Known(d)
  /\ \A x \in InChain(c) : Clean(D, x) => x \in InChain(d)
  /\ OnlyDirtyInvalid(D, c) => OnlyDirtyInvalid(D, d)

Results == {"exists", "added", "alternative", "orphaned", "failed", "tx_failed"}

LEMMA KnownFacts ==
  ASSUME NEW D, NEW c \in Cores(D)
  PROVE  /\ InChain(c) \subseteq Blocks /\ Known(c) \subseteq Blocks /\ Genesis \in InChain(c)
         /\ \A b : have_block(c, b) <=> b \in Known(c)
<1>1. c.top \in Blocks /\ c.alt \subseteq Blocks /\ c.invalid \subseteq Blocks
  BY DEF Cores
<1> QED BY <1>1, MainFacts DEF InChain, Known, have_block

LEMMA ExtendsRefl ==
  ASSUME NEW D, NEW c \in Cores(D) PROVE Extends(D, c, c)
BY DEF Extends

LEMMA ExtendsTrans ==
  ASSUME NEW D, NEW c, NEW d, NEW e, Extends(D, d, c), Extends(D, e, d)
  PROVE  Extends(D, e, c)
BY DEF Extends

(* A core that differs from another one in what a block changes.           *)
With(c, t, a, i) == [c EXCEPT !.top = t, !.alt = a, !.invalid = i]

LEMMA CoreWith ==
  ASSUME NEW D, NEW c \in Cores(D), NEW t \in Blocks, Main(t) \cap Invalid = {},
         NEW a \in SUBSET Blocks, NEW i \in SUBSET Blocks
  PROVE  /\ With(c, t, a, i) \in Cores(D)
         /\ With(c, t, a, i).top = t /\ With(c, t, a, i).alt = a
         /\ With(c, t, a, i).invalid = i /\ With(c, t, a, i).spoilt = c.spoilt
<1> DEFINE d == With(c, t, a, i)
<1>1. /\ d \in [top : Blocks, alt : SUBSET Blocks, invalid : SUBSET Blocks, spoilt : SUBSET Blocks]
      /\ d.top = t /\ d.alt = a /\ d.invalid = i /\ d.spoilt = c.spoilt
  BY DEF Cores, With
<1> HIDE DEF d
<1>2. d \in Cores(D)
  BY <1>1 DEF Cores
<1> QED BY <1>1, <1>2 DEF d

(* A block the node has no reason to refuse, and the one below it.         *)
LEMMA CleanFacts ==
  ASSUME NEW D, NEW b \in Blocks
  PROVE  /\ Clean(D, b) => CheckpointSettled /\ Main(b) \cap Invalid = {}
         /\ Clean(D, b) => b \notin Invalid /\ b \notin D
         /\ b # Genesis /\ Clean(D, b) => Clean(D, Prev(b))
<1>1. b \in Main(b)
  BY MainFacts
<1>2. b # Genesis => Main(Prev(b)) \subseteq Main(b)
  BY PrevFacts
<1> QED BY <1>1, <1>2 DEF Clean

LEMMA FromInvalidFacts ==
  ASSUME NEW D, NEW c \in Cores(D), NEW b \in Blocks
  PROVE  /\ Clean(D, b) => FromInvalid(c, b) = {}
         /\ FromInvalid(c, b) = {} => Main(b) \cap Invalid = {}
         /\ FromInvalid(c, b) \subseteq Main(b)
         /\ \A x \in FromInvalid(c, b) : ~Clean(D, x)
<1>1. b \in Main(b) /\ \A x \in Main(b) : Main(x) \subseteq Main(b)
  BY MainFacts, MainDown
<1>2. c.spoilt \subseteq D
  BY DEF Cores
<1>3. Clean(D, b) => FromInvalid(c, b) = {}
  BY <1>1, <1>2 DEF Clean, FromInvalid
<1>4. FromInvalid(c, b) = {} => Main(b) \cap Invalid = {}
  BY <1>1 DEF FromInvalid
<1>5. FromInvalid(c, b) \subseteq Main(b) /\ \A x \in FromInvalid(c, b) : ~Clean(D, x)
  BY <1>2 DEF Clean, FromInvalid
<1> QED BY <1>3, <1>4, <1>5

(* Up to the checkpoint a chain that has passed it holds all valid blocks. *)
LEMMA BelowCheckpoint ==
  ASSUME CheckpointSettled, NEW b \in Blocks, NEW t \in Blocks, PassedZone(b, t),
         Main(b) \cap Invalid = {}, Main(t) \cap Invalid = {}
  PROVE  b \in Main(t)
<1> DEFINE n == Len(Path[b])
           y == Path[t][n]
<1>1. n \in Nat \ {0} /\ Len(Path[t]) \in Nat /\ LocalCheckpoint \in Nat
  BY PathFacts, SyncAssumption
<1>2. n <= Len(Path[t]) /\ n - 1 <= LocalCheckpoint
  BY <1>1 DEF PassedZone, Height
<1>3. n \in 1..Len(Path[t])
  <2> DEFINE l == Len(Path[t])
  <2> HIDE DEF n, l
  <2> QED BY <1>1, <1>2 DEF l
<1>4. y \in Blocks /\ Path[y] = SubSeq(Path[t], 1, n) /\ y \in Main(t)
  <2>1. \A i \in 1..Len(Path[t]) : /\ Path[t][i] \in Blocks
                                   /\ Path[Path[t][i]] = SubSeq(Path[t], 1, i)
    BY PathFacts
  <2>2. Main(t) = {Path[t][i] : i \in 1..Len(Path[t])}
    BY MainFacts
  <2> HIDE DEF n
  <2> QED BY <1>3, <2>1, <2>2
<1>5. Len(Path[y]) = n
  <2>1. Path[t] \in Seq(Blocks)
    BY PathFacts
  <2> HIDE DEF n, y
  <2> QED BY <1>1, <1>3, <1>4, <2>1
<1>6. Main(y) \subseteq Main(t)
  BY <1>4, MainDown
<1>7. Height(b) = Height(y) /\ Height(b) - 1 <= LocalCheckpoint
  BY <1>2, <1>5 DEF Height
<1> HIDE DEF y, n
<1>8. b = y
  BY <1>4, <1>6, <1>7 DEF CheckpointSettled
<1> QED BY <1>4, <1>8

(***************************************************************************)
(* add_new_block.  A clean block that is known, or whose predecessor is in *)
(* one of the chains, is never refused.                                    *)
(***************************************************************************)
Fits(b, S) == b \in S \/ (b # Genesis /\ Prev(b) \in S)

Accepted(D, c, b, v) ==
  /\ Extends(D, v.core, c) /\ v.result \in Results
  /\ OnlyDirtyInvalid(D, c) /\ Clean(D, b) /\ Fits(b, InChain(c))
       => v.result \notin Failures /\ b \in InChain(v.core)

LEMMA ToMainFacts ==
  ASSUME NEW D, NEW c \in Cores(D), NEW b \in Blocks, b # Genesis, Prev(b) = c.top
  PROVE  Accepted(D, c, b, ToMain(c, b)) /\ \E d, r : ToMain(c, b) = [core |-> d, result |-> r]
<1> DEFINE v == ToMain(c, b)
<1>0. /\ c.top \in Blocks /\ c.alt \in SUBSET Blocks /\ c.invalid \in SUBSET Blocks
      /\ c.spoilt \subseteq D /\ Main(c.top) \cap Invalid = {} /\ b \in Main(b)
      /\ c = [c EXCEPT !.top = c.top, !.alt = c.alt, !.invalid = c.invalid]
  BY MainFacts DEF Cores
<1>1. Main(b) = Main(c.top) \cup {b}
  BY PrevFacts
<1>2. CASE b \in Invalid
  <2>1. v = Verdict(c, "failed")
    BY <1>2 DEF ToMain
  <2>2. v = [core |-> c, result |-> "failed"] /\ v.core = c /\ v.result = "failed"
    BY <2>1 DEF Verdict
  <2>3. ~Clean(D, b)
    BY <1>2, CleanFacts
  <2> QED BY <2>2, <2>3, ExtendsRefl DEF Results, Accepted
<1>3. CASE b \notin Invalid /\ b \in c.spoilt
  <2> DEFINE i == c.invalid \cup {b}
             d == [c EXCEPT !.invalid = i]
  <2>1. v = [core |-> d, result |-> "failed"] /\ v.core = d /\ v.result = "failed"
    BY <1>3 DEF ToMain, Verdict
  <2>2. i \in SUBSET Blocks /\ d = With(c, c.top, c.alt, i)
    BY <1>0 DEF Cores, With
  <2>3. i = c.invalid \cup {b}
    OBVIOUS
  <2> HIDE DEF v, d, i
  <2>4. d \in Cores(D) /\ d.top = c.top /\ d.alt = c.alt /\ d.invalid = i /\ d.spoilt = c.spoilt
    BY <1>0, <2>2, CoreWith
  <2>5. ~Clean(D, b)
    BY <1>0, <1>3, CleanFacts
  <2>6. Extends(D, d, c)
    BY <2>3, <2>4, <2>5 DEF Extends, Known, InChain, OnlyDirtyInvalid
  <2> QED BY <2>1, <2>5, <2>6 DEF Results, Accepted, v
<1>4. CASE b \notin Invalid /\ b \notin c.spoilt
  <2> DEFINE d == [c EXCEPT !.top = b]
  <2>1. v = [core |-> d, result |-> "added"] /\ v.core = d /\ v.result = "added"
    BY <1>4 DEF ToMain, Verdict
  <2>2. d = With(c, b, c.alt, c.invalid)
    BY <1>0 DEF Cores, With
  <2>3. Main(b) \cap Invalid = {}
    BY <1>0, <1>1, <1>4
  <2> HIDE DEF v, d
  <2>4. /\ d \in Cores(D) /\ d.top = b /\ d.alt = c.alt /\ d.invalid = c.invalid
        /\ d.spoilt = c.spoilt
    BY <1>0, <2>2, <2>3, CoreWith
  <2>5. InChain(c) \subseteq InChain(d) /\ b \in InChain(d)
    BY <1>0, <1>1, <2>4 DEF InChain
  <2>6. Extends(D, d, c)
    BY <2>4, <2>5 DEF Extends, Known, OnlyDirtyInvalid
  <2> QED BY <2>1, <2>5, <2>6 DEF Results, Failures, Accepted, v
<1> QED BY <1>2, <1>3, <1>4

(* A heavier branch: a clean block on top of it makes it the main chain.   *)
LEMMA SwitchFacts ==
  ASSUME NEW D, NEW c \in Cores(D), NEW b \in Blocks
  PROVE  Accepted(D, c, b, Switch(c, b)) /\ \E d, r : Switch(c, b) = [core |-> d, result |-> r]
<1> DEFINE v == Switch(c, b)
           Old == \E x \in Main(c.top) \ Main(b) : PassedZone(x, b)
<1>0. /\ c.top \in Blocks /\ c.alt \in SUBSET Blocks /\ c.invalid \in SUBSET Blocks
      /\ c.spoilt \subseteq D /\ Main(c.top) \cap Invalid = {} /\ b \in Main(b)
      /\ Main(b) \subseteq Blocks /\ Main(c.top) \subseteq Blocks
  BY MainFacts DEF Cores
<1>1. /\ Clean(D, b) => FromInvalid(c, b) = {}
      /\ FromInvalid(c, b) = {} => Main(b) \cap Invalid = {}
      /\ FromInvalid(c, b) \subseteq Main(b)
      /\ \A x \in FromInvalid(c, b) : ~Clean(D, x)
  BY FromInvalidFacts
<1>2. CASE FromInvalid(c, b) # {}
  <2> DEFINE a == c.alt \ FromInvalid(c, b)
             i == c.invalid \cup FromInvalid(c, b)
             d == [c EXCEPT !.alt = a, !.invalid = i]
  <2>1. v = [core |-> d, result |-> "failed"] /\ v.core = d /\ v.result = "failed"
    BY <1>2 DEF Switch, Verdict
  <2>2. /\ a \in SUBSET Blocks /\ i \in SUBSET Blocks
        /\ a = c.alt \ FromInvalid(c, b) /\ i = c.invalid \cup FromInvalid(c, b)
    BY <1>0, <1>1
  <2> HIDE DEF a, i
  <2>3. d = With(c, c.top, a, i)
    BY DEF Cores, With
  <2> HIDE DEF v, d
  <2>4. d \in Cores(D) /\ d.top = c.top /\ d.alt = a /\ d.invalid = i /\ d.spoilt = c.spoilt
    BY <1>0, <2>2, <2>3, CoreWith
  <2>5. Known(c) \subseteq Known(d)
    BY <2>2, <2>4 DEF Known, InChain
  <2>6. \A x \in InChain(c) : Clean(D, x) => x \in InChain(d)
    BY <1>1, <2>2, <2>4 DEF InChain
  <2>7. OnlyDirtyInvalid(D, c) => OnlyDirtyInvalid(D, d)
    BY <1>1, <2>2, <2>4 DEF OnlyDirtyInvalid
  <2>8. Extends(D, d, c)
    BY <2>4, <2>5, <2>6, <2>7 DEF Extends
  <2> QED BY <1>1, <1>2, <2>1, <2>8 DEF Results, Accepted, v
<1>3. CASE FromInvalid(c, b) = {} /\ Old
  <2> DEFINE a == c.alt \cup {b}
             d == [c EXCEPT !.alt = a]
  <2>1. v = [core |-> d, result |-> "failed"] /\ v.core = d /\ v.result = "failed"
    BY <1>3 DEF Switch, Verdict
  <2>2. a \in SUBSET Blocks /\ a = c.alt \cup {b}
    BY <1>0
  <2> HIDE DEF a
  <2>3. d = With(c, c.top, a, c.invalid)
    BY DEF Cores, With
  <2> HIDE DEF v, d
  <2>4. /\ d \in Cores(D) /\ d.top = c.top /\ d.alt = a /\ d.invalid = c.invalid
        /\ d.spoilt = c.spoilt
    BY <1>0, <2>2, <2>3, CoreWith
  <2>5. InChain(c) \subseteq InChain(d)
    BY <2>2, <2>4 DEF InChain
  <2>6. Extends(D, d, c)
    BY <2>4, <2>5 DEF Extends, Known, OnlyDirtyInvalid
  <2>7. ~Clean(D, b)
    <3> SUFFICES ASSUME Clean(D, b) PROVE FALSE
      OBVIOUS
    <3>1. PICK x \in Main(c.top) \ Main(b) : PassedZone(x, b)
      BY <1>3
    <3>2. x \in Blocks /\ Main(x) \subseteq Main(c.top)
      BY <1>0, <3>1, MainDown
    <3>3. CheckpointSettled /\ Main(b) \cap Invalid = {} /\ Main(x) \cap Invalid = {}
      BY <1>0, <3>2, CleanFacts
    <3> QED BY <3>1, <3>2, <3>3, BelowCheckpoint
  <2> QED BY <2>1, <2>6, <2>7 DEF Results, Accepted, v
<1>4. CASE FromInvalid(c, b) = {} /\ ~Old
  <2> DEFINE a == (c.alt \cup Main(c.top)) \ Main(b)
             d == [c EXCEPT !.top = b, !.alt = a]
  <2>1. v = [core |-> d, result |-> "added"] /\ v.core = d /\ v.result = "added"
    BY <1>4 DEF Switch, Verdict
  <2>2. a \in SUBSET Blocks /\ a = (c.alt \cup Main(c.top)) \ Main(b)
    BY <1>0
  <2> HIDE DEF a
  <2>3. d = With(c, b, a, c.invalid)
    BY DEF Cores, With
  <2> HIDE DEF v, d
  <2>4. /\ d \in Cores(D) /\ d.top = b /\ d.alt = a /\ d.invalid = c.invalid
        /\ d.spoilt = c.spoilt
    BY <1>0, <1>1, <1>4, <2>2, <2>3, CoreWith
  <2>5. InChain(c) \subseteq InChain(d) /\ b \in InChain(d)
    BY <1>0, <2>2, <2>4 DEF InChain
  <2>6. Extends(D, d, c)
    BY <2>4, <2>5 DEF Extends, Known, OnlyDirtyInvalid
  <2> QED BY <2>1, <2>5, <2>6 DEF Results, Failures, Accepted, v
<1> QED BY <1>2, <1>3, <1>4

LEMMA AddNewBlock ==
  ASSUME NEW D, NEW c \in Cores(D), NEW b \in Blocks
  PROVE  /\ Accepted(D, c, b, add_new_block(c, b))
         /\ \E d, r : add_new_block(c, b) = [core |-> d, result |-> r]
<1> DEFINE v == add_new_block(c, b)
           Near == Prev(b) \in Main(c.top) \cup c.alt
<1>0. /\ c.top \in Blocks /\ c.alt \in SUBSET Blocks /\ c.invalid \in SUBSET Blocks
      /\ Main(c.top) \cap Invalid = {} /\ Genesis \in InChain(c)
  BY KnownFacts DEF Cores
<1>1. CASE have_block(c, b)
  <2>1. v = [core |-> c, result |-> "exists"] /\ v.core = c /\ v.result = "exists"
    BY <1>1 DEF add_new_block, Verdict
  <2>2. OnlyDirtyInvalid(D, c) /\ Clean(D, b) => b \in InChain(c)
    BY <1>1 DEF OnlyDirtyInvalid, have_block, InChain
  <2> QED BY <2>1, <2>2, ExtendsRefl DEF Results, Failures, Accepted
<1>2. ~have_block(c, b) => b # Genesis /\ b \notin InChain(c)
  BY <1>0, KnownFacts DEF Known
<1>3. CASE ~have_block(c, b) /\ Prev(b) = c.top
  <2>1. v = ToMain(c, b)
    BY <1>3 DEF add_new_block
  <2> QED BY <1>2, <1>3, <2>1, ToMainFacts
<1>4. CASE ~have_block(c, b) /\ Prev(b) # c.top /\ PassedZone(b, c.top)
  <2>1. v = [core |-> c, result |-> "failed"] /\ v.core = c /\ v.result = "failed"
    BY <1>4 DEF add_new_block, Verdict
  <2>2. ~Clean(D, b)
    <3> SUFFICES ASSUME Clean(D, b) PROVE FALSE
      OBVIOUS
    <3>1. b \in Main(c.top)
      BY <1>0, <1>4, CleanFacts, BelowCheckpoint
    <3> QED BY <1>2, <1>4, <3>1 DEF InChain
  <2> QED BY <2>1, <2>2, ExtendsRefl DEF Results, Accepted
<1>5. CASE ~have_block(c, b) /\ Prev(b) # c.top /\ ~PassedZone(b, c.top) /\ Near
  <2>1. v = IF Work[b] <= Work[c.top]
              THEN Verdict([c EXCEPT !.alt = @ \cup {b}], "alternative")
              ELSE Switch(c, b)
    BY <1>5 DEF add_new_block
  <2>2. CASE ~(Work[b] <= Work[c.top])
    BY <2>1, <2>2, SwitchFacts
  <2>3. CASE Work[b] <= Work[c.top]
    <3> DEFINE a == c.alt \cup {b}
               d == [c EXCEPT !.alt = a]
    <3>1. v = [core |-> d, result |-> "alternative"] /\ v.core = d /\ v.result = "alternative"
      BY <2>1, <2>3 DEF Verdict
    <3>2. a \in SUBSET Blocks /\ a = c.alt \cup {b}
      BY <1>0
    <3> HIDE DEF a
    <3>3. d = With(c, c.top, a, c.invalid)
      BY DEF Cores, With
    <3> HIDE DEF v, d
    <3>4. /\ d \in Cores(D) /\ d.top = c.top /\ d.alt = a /\ d.invalid = c.invalid
          /\ d.spoilt = c.spoilt
      BY <1>0, <3>2, <3>3, CoreWith
    <3>5. InChain(c) \subseteq InChain(d) /\ b \in InChain(d)
      BY <3>2, <3>4 DEF InChain
    <3>6. Extends(D, d, c)
      BY <3>4, <3>5 DEF Extends, Known, OnlyDirtyInvalid
    <3> QED BY <3>1, <3>5, <3>6 DEF Results, Failures, Accepted, v
  <2> QED BY <2>2, <2>3
<1>6. CASE ~have_block(c, b) /\ Prev(b) # c.top /\ ~PassedZone(b, c.top) /\ ~Near
  <2>1. v = [core |-> c, result |-> "orphaned"] /\ v.core = c /\ v.result = "orphaned"
    BY <1>6 DEF add_new_block, Verdict
  <2>2. ~Fits(b, InChain(c))
    BY <1>2, <1>6 DEF Fits, InChain
  <2> QED BY <2>1, <2>2, ExtendsRefl DEF Results, Accepted
<1> QED BY <1>1, <1>3, <1>4, <1>5, <1>6

(* The transactions of an entry come first; one of them may be refused.    *)
LEMMA HandleEntry ==
  ASSUME NEW D, NEW c \in Cores(D), NEW b \in Blocks
  PROVE  LET v == handle_entry(c, b) IN
         /\ Extends(D, v.core, c) /\ v.result \in Results
         /\ OnlyDirtyInvalid(D, c) /\ Clean(D, b) /\ Fits(b, InChain(c))
              => /\ v.result \notin {"failed", "orphaned"}
                 /\ v.result \notin Failures => b \in InChain(v.core)
<1>1. CASE b \in BadTx
  <2>1. handle_entry(c, b) = Verdict(c, "tx_failed")
    BY <1>1 DEF handle_entry
  <2>2. handle_entry(c, b).core = c /\ handle_entry(c, b).result = "tx_failed"
    BY <2>1 DEF Verdict
  <2> QED BY <2>2, ExtendsRefl DEF Results, Failures
<1>2. CASE b \notin BadTx
  <2>1. handle_entry(c, b) = add_new_block(c, b)
    BY <1>2 DEF handle_entry
  <2> QED BY <2>1, AddNewBlock DEF Accepted, Failures
<1> QED BY <1>1, <1>2

Verdicts(D) == [core : Cores(D), result : Results]

LEMMA EntryType ==
  ASSUME NEW D, NEW c \in Cores(D), NEW b \in Blocks
  PROVE  handle_entry(c, b) \in Verdicts(D)
<1>1. \E d, r : handle_entry(c, b) = [core |-> d, result |-> r]
  BY AddNewBlock DEF handle_entry, Verdict
<1>2. handle_entry(c, b).core \in Cores(D) /\ handle_entry(c, b).result \in Results
  BY HandleEntry DEF Extends
<1> QED BY <1>1, <1>2 DEF Verdicts

(* What another peer's transactions change: the spoilt blocks.             *)
LEMMA WithTxsFacts ==
  ASSUME NEW D, NEW p \in Peers, NEW c \in Cores(D), NEW d \in WithTxsOf(p, c)
  PROVE  /\ d \in Cores(Blocks)
         /\ p \in Honest => d = c
         /\ d.spoilt \subseteq D => d \in Cores(D) /\ Extends(D, d, c)
<1>1. PICK S \in IF p \in Tampering THEN SUBSET (TxBlocks \ Main(c.top)) ELSE {{}} :
           d = [c EXCEPT !.spoilt = c.spoilt \cup S]
  BY DEF WithTxsOf
<1>2. S \subseteq Blocks /\ (p \notin Tampering => S = {})
  BY <1>1, SyncAssumption
<1>3. /\ c.top \in Blocks /\ c.alt \in SUBSET Blocks /\ c.invalid \in SUBSET Blocks
      /\ c.spoilt \in SUBSET Blocks /\ Main(c.top) \cap Invalid = {}
      /\ c = [c EXCEPT !.spoilt = c.spoilt]
  BY DEF Cores
<1> DEFINE T == c.spoilt \cup S
<1>4. T \in SUBSET Blocks /\ c.spoilt \subseteq T /\ (p \notin Tampering => T = c.spoilt)
  BY <1>2, <1>3
<1>5. d = [c EXCEPT !.spoilt = T]
  BY <1>1
<1> HIDE DEF T
<1>6. /\ d \in [top : Blocks, alt : SUBSET Blocks, invalid : SUBSET Blocks, spoilt : SUBSET Blocks]
      /\ d.top = c.top /\ d.alt = c.alt /\ d.invalid = c.invalid /\ d.spoilt = T
  BY <1>4, <1>5 DEF Cores
<1>7. d \in Cores(Blocks) /\ (d.spoilt \subseteq D => d \in Cores(D))
  BY <1>3, <1>4, <1>6 DEF Cores
<1>8. p \in Honest => d = c
  BY <1>3, <1>4, <1>5 DEF Honest
<1>9. d.spoilt \subseteq D => Extends(D, d, c)
  BY <1>4, <1>6, <1>7 DEF Extends, Known, InChain, OnlyDirtyInvalid
<1> QED BY <1>7, <1>8, <1>9

(* They stay spoilt in whatever the core becomes.                          *)
LEMMA TxsTaken ==
  ASSUME NEW D, NEW p \in Peers, NEW c \in Cores(D), NEW d \in WithTxsOf(p, c), NEW e,
         Extends(Blocks, e, d), e.spoilt \subseteq D
  PROVE  d \in Cores(D) /\ Extends(D, d, c)
<1>1. d.spoilt \subseteq D
  BY DEF Extends
<1> QED BY <1>1, WithTxsFacts

(* The equations of the loop over a batch.                                 *)
LEMMA BatchUnfolds ==
  ASSUME NEW D, NEW c \in Cores(D), NEW blocks \in Seq(Blocks)
  PROVE  \E f : /\ handle_batch(c, blocks) = f[Len(blocks)]
                /\ f[0] = Verdict(c, "added")
                /\ \A n \in 1..Len(blocks) :
                     f[n] = IF f[n - 1].result \in Failures THEN f[n - 1]
                            ELSE handle_entry(f[n - 1].core, blocks[n])
<1> DEFINE L == Len(blocks)
           first == Verdict(c, "added")
           Loop(f) == f = [n \in 0..Len(blocks) |->
                        IF n = 0 THEN first
                        ELSE IF f[n - 1].result \in Failures THEN f[n - 1]
                        ELSE handle_entry(f[n - 1].core, blocks[n])]
           step == [x \in (1..L) \X Verdicts(D) |->
                      IF x[2].result \in Failures THEN x[2]
                      ELSE handle_entry(x[2].core, blocks[x[1]])]
<1>1. L \in Nat /\ \A n \in 1..L : blocks[n] \in Blocks
  OBVIOUS
<1>2. first \in Verdicts(D)
  BY DEF Verdict, Verdicts, Results
<1> HIDE DEF L
<1>3. \A n \in 1..L, v \in Verdicts(D) :
        step[<<n, v>>] = IF v.result \in Failures THEN v
                         ELSE handle_entry(v.core, blocks[n])
  OBVIOUS
<1> HIDE DEF step
<1>4. IsStep(step, L, Verdicts(D))
  <2>1. ASSUME NEW n \in 1..L, NEW v \in Verdicts(D) PROVE step[<<n, v>>] \in Verdicts(D)
    <3>1. v.core \in Cores(D) /\ blocks[n] \in Blocks
      BY <1>1 DEF Verdicts
    <3>2. handle_entry(v.core, blocks[n]) \in Verdicts(D)
      BY <3>1, EntryType
    <3>3. step[<<n, v>>] = IF v.result \in Failures THEN v
                           ELSE handle_entry(v.core, blocks[n])
      BY <1>3
    <3>4. step[<<n, v>>] = v \/ step[<<n, v>>] = handle_entry(v.core, blocks[n])
      BY <3>3
    <3> QED BY <3>2, <3>4
  <2> QED BY <2>1 DEF IsStep
<1>5. PICK f : Iterates(f, L, Verdicts(D), first, step)
  <2> HIDE DEF first
  <2> QED BY <1>1, <1>2, <1>4, RecursionExists
<1> HIDE DEF first
<1>6. \A n \in 1..L : f[n] = IF f[n - 1].result \in Failures THEN f[n - 1]
                             ELSE handle_entry(f[n - 1].core, blocks[n])
  <2> TAKE n \in 1..L
  <2>1. f[n - 1] \in Verdicts(D) /\ f[n] = step[<<n, f[n - 1]>>]
    BY <1>1, <1>5 DEF Iterates
  <2> QED BY <2>1, <1>3
<1>7. \A n \in 0..L : f[n] = IF n = 0 THEN first
                             ELSE IF f[n - 1].result \in Failures THEN f[n - 1]
                             ELSE handle_entry(f[n - 1].core, blocks[n])
  <2> TAKE n \in 0..L
  <2>1. n = 0 \/ (n \in 1..L /\ n # 0)
    BY <1>1
  <2>2. CASE n = 0
    BY <2>2, <1>5 DEF Iterates
  <2>3. CASE n \in 1..L /\ n # 0
    BY <2>3, <1>6, Zenon
  <2> QED BY <2>1, <2>2, <2>3
<1>8. f = [n \in 0..L |-> f[n]]
  BY <1>5 DEF Iterates
<1>9. Loop(f)
  BY <1>7, <1>8 DEF L
<1>10. \E g : Loop(g) /\ handle_batch(c, blocks) = g[Len(blocks)]
  BY <1>9, Zenon DEF handle_batch, first
<1>11. PICK g : Loop(g) /\ handle_batch(c, blocks) = g[Len(blocks)]
  BY <1>10
<1>12. \A n \in 0..L : g[n] = IF n = 0 THEN first
                              ELSE IF g[n - 1].result \in Failures THEN g[n - 1]
                              ELSE handle_entry(g[n - 1].core, blocks[n])
  BY <1>11 DEF L
<1>13. 0 \in 0..L /\ \A n \in 1..L : n \in 0..L /\ n # 0
  BY <1>1
<1>14. g[0] = first
  BY <1>12, <1>13
<1>15. \A n \in 1..L : g[n] = IF g[n - 1].result \in Failures THEN g[n - 1]
                              ELSE handle_entry(g[n - 1].core, blocks[n])
  BY <1>12, <1>13
<1> QED BY <1>11, <1>14, <1>15 DEF L, first

(***************************************************************************)
(* A list of blocks that can be added one after the other: each is clean   *)
(* and is, or comes right after, a block of the chains, a block of S or an *)
(* earlier block of the list.                                              *)
(***************************************************************************)
Before(s, i) == {s[j] : j \in 1..(i - 1)}

Linked(D, c, S, s) ==
  \A i \in 1..Len(s) :
    Clean(D, s[i]) /\ Fits(s[i], InChain(c) \cup S \cup Before(s, i))

(* The loop over a batch extends the core; linked blocks are not refused.  *)
LEMMA HandleBatch ==
  ASSUME NEW D, NEW c \in Cores(D), NEW blocks \in Seq(Blocks)
  PROVE  LET v == handle_batch(c, blocks) IN
         /\ Extends(D, v.core, c) /\ v.result \in Results
         /\ OnlyDirtyInvalid(D, c) /\ Linked(D, c, {}, blocks)
              => /\ v.result \notin {"failed", "orphaned"}
                 /\ v.result \notin Failures
                      => \A i \in 1..Len(blocks) : blocks[i] \in InChain(v.core)
<1> DEFINE L == Len(blocks)
           Good == OnlyDirtyInvalid(D, c) /\ Linked(D, c, {}, blocks)
<1>1. PICK f : /\ handle_batch(c, blocks) = f[Len(blocks)]
               /\ f[0] = Verdict(c, "added")
               /\ \A n \in 1..Len(blocks) :
                    f[n] = IF f[n - 1].result \in Failures THEN f[n - 1]
                           ELSE handle_entry(f[n - 1].core, blocks[n])
  BY BatchUnfolds
<1>2. L \in Nat /\ \A n \in 1..L : blocks[n] \in Blocks
  OBVIOUS
<1> DEFINE P(n) ==
             /\ Extends(D, f[n].core, c) /\ f[n].result \in Results
             /\ Good => /\ f[n].result \notin {"failed", "orphaned"}
                        /\ f[n].result \notin Failures
                             => \A i \in 1..n : blocks[i] \in InChain(f[n].core)
           Ns == {n \in 0..L : P(n)}
<1>3. 0 \in Ns
  <2>1. f[0].core = c /\ f[0].result = "added"
    BY <1>1 DEF Verdict
  <2>2. P(0)
    BY <2>1, ExtendsRefl DEF Results
  <2>3. 0 \in 0..L
    BY <1>2
  <2> HIDE DEF P
  <2> QED BY <2>2, <2>3
<1>4. ASSUME NEW n \in 1..L, n - 1 \in Ns PROVE n \in Ns
  <2> DEFINE g == f[n - 1]
             b == blocks[n]
  <2>1. P(n - 1)
    BY <1>4
  <2>2. g.core \in Cores(D) /\ b \in Blocks
    BY <2>1, <1>2 DEF Extends
  <2>3. f[n] = IF g.result \in Failures THEN g ELSE handle_entry(g.core, b)
    BY <1>1
  <2>4. n \in 0..L /\ n - 1 \in 0..L
    BY <1>2
  <2>5. CASE g.result \in Failures
    <3>1. f[n] = g
      BY <2>3, <2>5
    <3>2. P(n)
      BY <2>1, <2>5, <3>1
    <3> HIDE DEF P
    <3> QED BY <3>2, <2>4
  <2>6. CASE g.result \notin Failures
    <3>1. f[n] = handle_entry(g.core, b)
      BY <2>3, <2>6
    <3>2. /\ Extends(D, f[n].core, g.core) /\ f[n].result \in Results
          /\ OnlyDirtyInvalid(D, g.core) /\ Clean(D, b) /\ Fits(b, InChain(g.core))
              => /\ f[n].result \notin {"failed", "orphaned"}
                 /\ f[n].result \notin Failures => b \in InChain(f[n].core)
      BY <3>1, <2>2, HandleEntry
    <3>3. Extends(D, g.core, c)
      BY <2>1
    <3>4. Extends(D, f[n].core, c)
      BY <3>2, <3>3, ExtendsTrans
    <3>5. ASSUME Good
          PROVE  /\ f[n].result \notin {"failed", "orphaned"}
                 /\ f[n].result \notin Failures
                      => \A i \in 1..n : blocks[i] \in InChain(f[n].core)
      <4>1. OnlyDirtyInvalid(D, g.core)
        BY <3>3, <3>5 DEF Extends
      <4>2. \A i \in 1..(n - 1) : blocks[i] \in InChain(g.core)
        BY <2>1, <2>6, <3>5
      <4>3. Clean(D, b) /\ Fits(b, InChain(c) \cup {} \cup Before(blocks, n))
        BY <3>5 DEF Linked
      <4>4. Before(blocks, n) \subseteq InChain(g.core)
        BY <4>2 DEF Before
      <4>5. \A x \in InChain(c) : Clean(D, x) => x \in InChain(g.core)
        BY <3>3 DEF Extends
      <4>6. b # Genesis => Clean(D, Prev(b))
        BY <2>2, <4>3, CleanFacts
      <4>7. Fits(b, InChain(g.core))
        BY <4>3, <4>4, <4>5, <4>6 DEF Fits
      <4>8. /\ f[n].result \notin {"failed", "orphaned"}
            /\ f[n].result \notin Failures => b \in InChain(f[n].core)
        BY <3>2, <4>1, <4>3, <4>7
      <4>9. \A i \in 1..(n - 1) : Clean(D, blocks[i])
        <5>1. \A i \in 1..(n - 1) : i \in 1..L
          BY <1>2
        <5> QED BY <5>1, <3>5 DEF Linked
      <4>10. \A i \in 1..(n - 1) : blocks[i] \in InChain(f[n].core)
        BY <3>2, <4>2, <4>9 DEF Extends
      <4>11. \A i \in 1..n : i = n \/ i \in 1..(n - 1)
        BY <1>2
      <4> QED BY <4>8, <4>10, <4>11
    <3>6. P(n)
      BY <3>2, <3>4, <3>5
    <3> HIDE DEF P
    <3> QED BY <3>6, <2>4
  <2> QED BY <2>5, <2>6
<1>5. \A n \in 0..L : n \in Ns
  <2> HIDE DEF Ns
  <2> QED BY <1>2, <1>3, <1>4, UpTo
<1>6. P(L)
  <2>1. L \in Ns
    <3> HIDE DEF Ns
    <3> QED BY <1>2, <1>5
  <2> HIDE DEF P
  <2> QED BY <2>1
<1> QED BY <1>1, <1>6
-----------------------------------------------------------------------------
(***************************************************************************)
(* Linked lists.                                                           *)
(***************************************************************************)
LEMMA LinkedStable ==
  ASSUME NEW D, NEW c \in Cores(D), NEW d, Extends(D, d, c), NEW S, NEW s \in Seq(Blocks), Linked(D, c, S, s)
  PROVE  Linked(D, d, S, s)
<1> SUFFICES ASSUME NEW i \in 1..Len(s)
             PROVE  Clean(D, s[i]) /\ Fits(s[i], InChain(d) \cup S \cup Before(s, i))
  BY DEF Linked
<1>1. s[i] \in Blocks
  OBVIOUS
<1>2. Clean(D, s[i]) /\ Fits(s[i], InChain(c) \cup S \cup Before(s, i))
  BY DEF Linked
<1>3. s[i] # Genesis => Clean(D, Prev(s[i]))
  BY <1>1, <1>2, CleanFacts
<1>4. \A x \in InChain(c) : Clean(D, x) => x \in InChain(d)
  BY DEF Extends
<1> QED BY <1>2, <1>3, <1>4 DEF Fits

(* Known blocks may be left out of a linked list.                          *)
LEMMA OnlyInLinked ==
  ASSUME NEW D, NEW c \in Cores(D), OnlyDirtyInvalid(D, c), NEW s \in Seq(Blocks), NEW W,
         Linked(D, c, {}, s), \A i \in 1..Len(s) : s[i] \in W \/ s[i] \in Known(c)
  PROVE  /\ Linked(D, c, {}, OnlyIn(s, W))
         /\ \A i \in 1..Len(s) : s[i] \in InChain(c) \cup ToSet(OnlyIn(s, W))
<1> DEFINE r == OnlyIn(s, W)
<1>1. r \in Seq(Blocks)
  BY OnlyInPlaces
<1>2. PICK e \in [1..Len(r) -> 1..Len(s)] :
              /\ \A j \in 1..Len(r) : r[j] = s[e[j]] /\ s[e[j]] \in W
              /\ \A j, k \in 1..Len(r) : j < k => e[j] < e[k]
              /\ \A i \in 1..Len(s) : s[i] \in W => \E j \in 1..Len(r) : e[j] = i
  BY OnlyInPlaces
<1> HIDE DEF r
<1>3. Len(r) \in Nat /\ DOMAIN r = 1..Len(r) /\ Len(s) \in Nat
  BY <1>1
<1>4. \A i \in 1..Len(s) : s[i] \in W \/ s[i] \in InChain(c)
  BY DEF Linked, Known, OnlyDirtyInvalid
<1>5. ASSUME NEW j \in 1..Len(r) PROVE Clean(D, r[j]) /\ Fits(r[j], InChain(c) \cup {} \cup Before(r, j))
  <2> DEFINE i == e[j]
  <2>1. i \in 1..Len(s) /\ r[j] = s[i]
    BY <1>2
  <2>2. Clean(D, s[i]) /\ Fits(s[i], InChain(c) \cup {} \cup Before(s, i))
    BY <2>1 DEF Linked
  <2>3. ASSUME NEW k \in 1..(i - 1) PROVE s[k] \in InChain(c) \cup Before(r, j)
    <3>1. k \in 1..Len(s) /\ k < i
      BY <2>1, <1>3
    <3>2. CASE s[k] \in W
      <4>1. PICK l \in 1..Len(r) : e[l] = k
        BY <3>1, <3>2, <1>2
      <4>2. ~(j < l) /\ j # l
        <5>1. e[l] \in Nat /\ e[j] \in Nat /\ e[l] < e[j]
          BY <4>1, <3>1, <1>2, <1>3
        <5>2. j < l => e[j] < e[l]
          BY <1>2
        <5> QED BY <5>1, <5>2
      <4>3. l \in 1..(j - 1)
        BY <4>2, <1>3
      <4>4. r[l] = s[k]
        BY <4>1, <1>2
      <4> QED BY <4>3, <4>4 DEF Before
    <3> QED BY <3>1, <3>2, <1>4
  <2>4. Before(s, i) \subseteq InChain(c) \cup Before(r, j)
    BY <2>3 DEF Before
  <2> QED BY <2>1, <2>2, <2>4 DEF Fits
<1>6. Linked(D, c, {}, r)
  BY <1>5 DEF Linked
<1>7. ASSUME NEW i \in 1..Len(s) PROVE s[i] \in InChain(c) \cup ToSet(r)
  <2>1. CASE s[i] \in W
    <3>1. PICK j \in 1..Len(r) : e[j] = i
      BY <2>1, <1>2
    <3> QED BY <3>1, <1>2, <1>3 DEF ToSet
  <2> QED BY <2>1, <1>4
<1> QED BY <1>6, <1>7 DEF r

(***************************************************************************)
(* What request_missing_objects takes off the list of needed blocks.       *)
(***************************************************************************)
LEMMA AskedFacts ==
  ASSUME NEW D, NEW ctx, ctx.needed \in Seq(Blocks), ctx.needed # <<>>, NEW c \in Cores(D), NEW check \in BOOLEAN
  PROVE  LET a == Asked(ctx, c, check) IN
         /\ a.blocks \in Seq(Blocks) /\ a.rest \in Seq(Blocks)
         /\ OnlyDirtyInvalid(D, c) /\ Linked(D, c, {}, ctx.needed)
              => Linked(D, c, {}, a.blocks) /\ Linked(D, c, ToSet(a.blocks), a.rest)
<1> DEFINE N == ctx.needed
           L == Len(N)
           wanted == {b \in ToSet(N) : ~(check /\ have_block(c, b))}
           full == {i \in DOMAIN N : Cardinality({j \in 1..i : N[j] \in wanted}) = BatchCount}
           taken == Min(full \cup {L})
           t == SubSeq(N, 1, taken)
           a == Asked(ctx, c, check)
           rest == SubSeq(N, taken + 1, L)
<1>1. a.blocks = OnlyIn(t, wanted) /\ a.rest = rest
  BY DEF Asked
<1>2. N \in Seq(Blocks) /\ L \in Nat \ {0} /\ DOMAIN N = 1..L /\ \A i \in 1..L : N[i] \in Blocks
  OBVIOUS
<1> HIDE DEF N, L
<1>3. taken \in 1..L
  <2> DEFINE F == full \cup {L}
  <2>1. F \subseteq 1..L /\ F # {}
    BY <1>2
  <2> HIDE DEF F
  <2>2. F \subseteq Nat
    BY <2>1, <1>2
  <2>3. \E x \in F : \A y \in F : x <= y
    BY <2>1, <2>2, LeastNumber
  <2>4. Min(F) \in F
    BY <2>3, Zenon DEF Min
  <2> QED BY <2>1, <2>4 DEF F
<1> HIDE DEF taken
<1>4. /\ t \in Seq(Blocks) /\ Len(t) = taken /\ \A i \in 1..taken : t[i] = N[i]
      /\ rest \in Seq(Blocks) /\ Len(rest) = L - taken
      /\ \A i \in 1..(L - taken) : rest[i] = N[taken + i]
  BY <1>2, <1>3
<1> HIDE DEF t, rest
<1>5. OnlyIn(t, wanted) \in Seq(Blocks)
  BY <1>4, OnlyInPlaces
<1>6. ASSUME OnlyDirtyInvalid(D, c), Linked(D, c, {}, N)
      PROVE  Linked(D, c, {}, OnlyIn(t, wanted)) /\ Linked(D, c, ToSet(OnlyIn(t, wanted)), rest)
  <2>1. Linked(D, c, {}, t)
    <3> SUFFICES ASSUME NEW i \in 1..taken
                 PROVE  Clean(D, t[i]) /\ Fits(t[i], InChain(c) \cup {} \cup Before(t, i))
      BY <1>4 DEF Linked
    <3>1. i \in 1..L /\ t[i] = N[i] /\ \A j \in 1..(i - 1) : t[j] = N[j]
      BY <1>2, <1>3, <1>4
    <3>2. Before(t, i) = Before(N, i)
      BY <3>1 DEF Before
    <3> QED BY <1>6, <3>1, <3>2 DEF Linked, L
  <2>2. \A i \in 1..Len(t) : t[i] \in wanted \/ t[i] \in Known(c)
    <3> SUFFICES ASSUME NEW i \in 1..taken PROVE t[i] \in wanted \/ t[i] \in Known(c)
      BY <1>4
    <3>1. i \in 1..L /\ t[i] = N[i]
      BY <1>2, <1>3, <1>4
    <3>2. t[i] \in ToSet(N)
      BY <3>1, <1>2 DEF ToSet
    <3> QED BY <3>2, KnownFacts
  <2> HIDE DEF wanted
  <2>3. /\ Linked(D, c, {}, OnlyIn(t, wanted))
        /\ \A i \in 1..Len(t) : t[i] \in InChain(c) \cup ToSet(OnlyIn(t, wanted))
    BY <1>4, <1>6, <2>1, <2>2, OnlyInLinked
  <2> DEFINE B == ToSet(OnlyIn(t, wanted))
  <2>4. ASSUME NEW i \in 1..(L - taken)
        PROVE  Clean(D, rest[i]) /\ Fits(rest[i], InChain(c) \cup B \cup Before(rest, i))
    <3> HIDE DEF B
    <3>1. taken + i \in 1..L /\ rest[i] = N[taken + i]
      BY <1>2, <1>3, <1>4
    <3>2. Clean(D, rest[i]) /\ Fits(rest[i], InChain(c) \cup {} \cup Before(N, taken + i))
      BY <1>6, <3>1 DEF Linked, L
    <3>3. ASSUME NEW k \in 1..((taken + i) - 1) PROVE N[k] \in InChain(c) \cup B \cup Before(rest, i)
      <4>1. CASE k \in 1..taken
        BY <4>1, <1>4, <2>3 DEF B
      <4>2. CASE k \notin 1..taken
        <5>1. k - taken \in 1..(i - 1) /\ k - taken \in 1..(L - taken) /\ taken + (k - taken) = k
          BY <4>2, <1>2, <1>3
        <5>2. rest[k - taken] = N[k]
          BY <5>1, <1>4
        <5> QED BY <5>1, <5>2 DEF Before
      <4> QED BY <4>1, <4>2
    <3>4. Before(N, taken + i) \subseteq InChain(c) \cup B \cup Before(rest, i)
      BY <3>3 DEF Before
    <3> QED BY <3>2, <3>4 DEF Fits
  <2>5. Linked(D, c, B, rest)
    <3> HIDE DEF B
    <3> QED BY <2>4, <1>4 DEF Linked
  <2> QED BY <2>3, <2>5
<1> QED BY <1>1, <1>4, <1>5, <1>6 DEF N
(***************************************************************************)
(* The three outcomes of request_missing_objects when nothing is           *)
(* requested: blocks are asked for, ids are asked for, or the download     *)
(* ends (or stops, if the final condition does not hold).                  *)
(***************************************************************************)
LEMMA RequestFacts ==
  ASSUME NEW D, NEW ctx \in Contexts, ctx.requested = {}, ctx.m_state = "synchronizing",
         NEW c \in Cores(D), NEW check \in BOOLEAN
  PROVE  LET r == request_missing_objects(ctx, c, check)
             a == Asked(ctx, c, check)
         IN /\ r.ctx \in Contexts
            /\ r.ctx.callbacks = ctx.callbacks /\ r.ctx.last_response = ctx.last_response
            /\ \/ /\ ctx.needed # <<>>
                  /\ r.out = <<[type |-> "objects", blocks |-> a.blocks]>>
                  /\ r.ctx.m_state = "synchronizing"
                  /\ r.ctx.requested = ToSet(a.blocks) /\ r.ctx.needed = a.rest
               \/ /\ ctx.needed = <<>> /\ r.ctx = ctx
                  /\ r.out = <<ChainRequest(c)>>
               \/ /\ ctx.needed = <<>> /\ r.out = <<>>
                  /\ r.ctx.m_state \in {"normal", "synchronizing"}
                  /\ r.ctx.requested = {} /\ r.ctx.needed = <<>>
                  /\ ctx.last_response <= ctx.remote_height - 1 => r.ctx.m_state = "normal"
<1> DEFINE r == request_missing_objects(ctx, c, check)
           a == Asked(ctx, c, check)
<1>0. /\ ctx.needed \in Seq(Blocks) /\ ctx.requested \in SUBSET Blocks
      /\ ctx.last_response \in Nat /\ ctx.remote_height \in Nat
  BY DEF Contexts
<1>1. CASE ctx.needed # <<>>
  <2>1. a.blocks \in Seq(Blocks) /\ a.rest \in Seq(Blocks)
    BY <1>0, <1>1, AskedFacts
  <2>2. ToSet(a.blocks) \in SUBSET Blocks
    BY <2>1 DEF ToSet
  <2> HIDE DEF a
  <2>3. /\ r.ctx = [ctx EXCEPT !.needed = a.rest, !.requested = @ \cup ToSet(a.blocks)]
        /\ r.out = <<[type |-> "objects", blocks |-> a.blocks]>>
    BY <1>1 DEF request_missing_objects, a
  <2>4. r.ctx = [ctx EXCEPT !.needed = a.rest, !.requested = ToSet(a.blocks)]
    BY <2>3
  <2> HIDE DEF r
  <2>5. /\ r.ctx \in Contexts /\ r.ctx.callbacks = ctx.callbacks
        /\ r.ctx.last_response = ctx.last_response /\ r.ctx.m_state = "synchronizing"
        /\ r.ctx.requested = ToSet(a.blocks) /\ r.ctx.needed = a.rest
    BY <2>1, <2>2, <2>4 DEF Contexts
  <2> QED BY <2>3, <2>5, <1>1 DEF r, a
<1>2. CASE ctx.needed = <<>> /\ ctx.last_response < ctx.remote_height - 1
  <2>1. r.ctx = ctx /\ r.out = <<ChainRequest(c)>>
    BY <1>2 DEF request_missing_objects
  <2> QED BY <2>1, <1>2
<1>3. CASE ctx.needed = <<>> /\ ~(ctx.last_response < ctx.remote_height - 1)
  <2>1. /\ r.ctx = IF FinalCondition(ctx) THEN [ctx EXCEPT !.m_state = "normal"] ELSE ctx
        /\ r.out = <<>>
    BY <1>3 DEF request_missing_objects
  <2>2. ctx.last_response <= ctx.remote_height - 1 => FinalCondition(ctx)
    BY <1>0, <1>3 DEF FinalCondition
  <2> HIDE DEF r
  <2>3. CASE FinalCondition(ctx)
    <3>1. r.ctx = [ctx EXCEPT !.m_state = "normal"]
      BY <2>1, <2>3
    <3>2. /\ r.ctx \in Contexts /\ r.ctx.callbacks = ctx.callbacks
          /\ r.ctx.last_response = ctx.last_response /\ r.ctx.m_state = "normal"
          /\ r.ctx.requested = ctx.requested /\ r.ctx.needed = ctx.needed
      BY <3>1 DEF Contexts, States
    <3> QED BY <3>2, <2>1, <1>3 DEF r
  <2>4. CASE ~FinalCondition(ctx)
    <3>1. r.ctx = ctx
      BY <2>1, <2>4
    <3> QED BY <3>1, <2>1, <2>2, <2>4, <1>3 DEF r
  <2> QED BY <2>3, <2>4
<1> QED BY <1>0, <1>1, <1>2, <1>3

-----------------------------------------------------------------------------
(***************************************************************************)
(* Requests and answers for ids.                                           *)
(***************************************************************************)
LEMMA HistoryFacts ==
  ASSUME NEW D, NEW c \in Cores(D)
  PROVE  /\ ChainRequest(c) \in Requests /\ ChainRequest(c).type = "chain"
         /\ Genesis \in ChainRequest(c).ids /\ ChainRequest(c).ids \subseteq Known(c)
<1> DEFINE top == c.top
           n == Len(Path[top])
           H == get_short_chain_history(top)
<1>1. top \in Blocks
  BY DEF Cores
<1>2. Genesis \in H
  BY DEF get_short_chain_history
<1>3. n \in Nat \ {0} /\ Height(top) = n
  BY <1>1, PathFacts DEF Height
<1>4. H \subseteq Main(top)
  <2>1. \A o \in BackOffsets(n) : o \in 1..(n - 1)
    BY DEF BackOffsets
  <2>2. \A o \in 1..(n - 1) : n + 1 - o \in 1..n
    <3> HIDE DEF n
    <3> QED BY <1>3
  <2>3. \A i \in 1..n : Path[top][i] \in Main(top)
    BY <1>1, MainFacts
  <2>4. Genesis \in Main(top)
    BY <1>1, MainFacts
  <2>5. H = {Genesis} \cup {Path[top][n + 1 - o] : o \in BackOffsets(n)}
    BY <1>3 DEF get_short_chain_history
  <2> HIDE DEF H, n, top
  <2> QED BY <2>1, <2>2, <2>3, <2>4, <2>5
<1>5. H \subseteq Blocks
  BY <1>1, <1>4, MainFacts
<1>6. ChainRequest(c) = [type |-> "chain", ids |-> H]
  BY DEF ChainRequest
<1> HIDE DEF H
<1>7. ChainRequest(c) \in Requests
  BY <1>5, <1>6 DEF Requests
<1>8. H \subseteq Known(c)
  BY <1>4 DEF Known, InChain
<1> QED BY <1>2, <1>6, <1>7, <1>8

(* The ids of an answer are a piece of a chain that starts in the history. *)
LEMMA SupplementFacts ==
  ASSUME NEW top \in Blocks, NEW history, Genesis \in history
  PROVE  LET m == find_blockchain_supplement(top, history) IN
         /\ m \in Messages /\ m.type = "chain" /\ m.total = Height(top)
         /\ m.ids \in Seq(Blocks) /\ m.ids # <<>> /\ m.ids[1] \in history
         /\ m.start \in Nat /\ m.start + Len(m.ids) <= m.total
         /\ \A i \in 1..Len(m.ids) : /\ m.ids[i] \in Main(top)
                                     /\ i > 1 => /\ m.ids[i] # Genesis
                                                 /\ Prev(m.ids[i]) = m.ids[i - 1]
<1> DEFINE P == Path[top]
           n == Len(P)
           S == {i \in DOMAIN P : P[i] \in history}
           split == Max(S)
           last == Min({n, split + IdsCount - 1})
           ids == SubSeq(P, split, last)
           m == find_blockchain_supplement(top, history)
<1>1. /\ P \in Seq(Blocks) /\ n \in Nat \ {0} /\ DOMAIN P = 1..n /\ P[1] = Genesis
      /\ \A i \in 1..n : P[i] \in Blocks /\ Path[P[i]] = SubSeq(P, 1, i)
  BY PathFacts
<1>2. m = [type |-> "chain", start |-> split - 1, total |-> n, ids |-> ids]
  BY DEF find_blockchain_supplement, Height
<1>3. IdsCount \in Nat \ {0, 1}
  BY SyncAssumption
<1> HIDE DEF P, n
<1>4. S \subseteq 1..n /\ 1 \in S
  BY <1>1
<1> HIDE DEF S
<1>5. split \in S
  <2>1. \E i \in S : \A j \in S : j <= i
    BY <1>1, <1>4, GreatestNumber
  <2>2. \E i \in S : \A j \in S : i >= j
    BY <2>1, <1>4, <1>1
  <2> QED BY <2>2, Zenon DEF Max
<1>6. split \in 1..n /\ P[split] \in history
  BY <1>4, <1>5 DEF S
<1> HIDE DEF split
<1>7. last \in split..n
  <2> DEFINE x == split + IdsCount - 1
             T == {n, x}
  <2>1. x \in Int /\ n \in Int /\ x >= split /\ n >= split
    BY <1>1, <1>3, <1>6
  <2> HIDE DEF x
  <2>2. \E i \in T : \A j \in T : i <= j
    BY <2>1
  <2>3. Min(T) \in T /\ \A j \in T : Min(T) <= j
    <3> HIDE DEF T
    <3> QED BY <2>2, Zenon DEF Min
  <2>4. Min(T) \in Int /\ split <= Min(T) /\ Min(T) <= n
    BY <2>1, <2>3
  <2> QED BY <2>4, <1>6, <1>1 DEF x
<1> HIDE DEF last
<1>8. /\ ids \in Seq(Blocks) /\ Len(ids) = last - split + 1
      /\ \A i \in 1..(last - split + 1) : ids[i] = P[split + i - 1]
  <2>1. \A i \in split..last : P[i] \in Blocks
    BY <1>1, <1>6, <1>7
  <2>2. split \in Int /\ last \in Int /\ split <= last
    BY <1>1, <1>6, <1>7
  <2> QED BY <2>1, <2>2, SubSeqProperties
<1> HIDE DEF ids
<1>9. ids # <<>> /\ ids[1] = P[split]
  BY <1>1, <1>6, <1>7, <1>8
<1>10. (split - 1) \in Nat /\ (split - 1) + Len(ids) <= n
  BY <1>1, <1>6, <1>7, <1>8
<1>11. ASSUME NEW i \in 1..Len(ids)
       PROVE  /\ ids[i] \in Main(top)
              /\ i > 1 => ids[i] # Genesis /\ Prev(ids[i]) = ids[i - 1]
  <2> DEFINE k == split + i - 1
  <2>1. k \in 1..n /\ ids[i] = P[k]
    BY <1>1, <1>6, <1>7, <1>8
  <2>2. ids[i] \in Main(top)
    BY <2>1, MainFacts DEF P, n
  <2>3. ASSUME i > 1 PROVE ids[i] # Genesis /\ Prev(ids[i]) = ids[i - 1]
    <3>1. k > 1 /\ k - 1 \in 1..n /\ ids[i - 1] = P[k - 1]
      <4>1. i - 1 \in 1..Len(ids) /\ split + (i - 1) - 1 = k - 1
        BY <2>3, <1>1, <1>6, <1>7, <1>8
      <4>2. ids[i - 1] = P[split + (i - 1) - 1]
        BY <4>1, <1>8
      <4>3. ids[i - 1] = P[k - 1]
        BY <4>1, <4>2, Zenon
      <4>4. k > 1 /\ k - 1 \in 1..n
        BY <1>1, <1>6, <2>1, <2>3
      <4> QED BY <4>3, <4>4
    <3> HIDE DEF k
    <3>2. Path[P[k]] = SubSeq(P, 1, k)
      BY <1>1, <2>1
    <3>3. Len(Path[P[k]]) = k /\ Path[P[k]][k - 1] = P[k - 1]
      BY <1>1, <2>1, <3>1, <3>2
    <3>4. P[k] # Genesis
      <4>1. SUFFICES ASSUME P[k] = Genesis PROVE FALSE
        OBVIOUS
      <4>2. Path[P[1]] = SubSeq(P, 1, 1) /\ P[1] = Genesis
        BY <1>1
      <4>3. Len(Path[P[1]]) = 1
        BY <1>1, <4>2
      <4>4. k = 1
        BY <4>1, <4>2, <4>3, <3>3
      <4> QED BY <4>4, <3>1, <2>1
    <3>5. Prev(P[k]) = P[k - 1]
      BY <3>3 DEF Prev
    <3> QED BY <2>1, <3>1, <3>4, <3>5
  <2> QED BY <2>2, <2>3
<1>12. m \in Messages
  BY <1>1, <1>2, <1>8, <1>10 DEF Messages
<1>13. m.type = "chain" /\ m.total = n /\ m.ids = ids /\ m.start = split - 1
  BY <1>2
<1>14. Height(top) = n
  BY DEF Height, n, P
<1> HIDE DEF m
<1> QED BY <1>6, <1>8, <1>9, <1>10, <1>11, <1>12, <1>13, <1>14 DEF m
-----------------------------------------------------------------------------
(***************************************************************************)
(* The inductive invariant.  At most one thing is under way on a           *)
(* connection: a callback, a request or an answer.  What it is determines  *)
(* what the context may hold, and its content is good against the core of  *)
(* any later moment, since the core only grows.                            *)
(***************************************************************************)
AnswerTypes == {"chain", "objects"}

NoAnswer(in) == \A i \in 1..Len(in) : in[i].type \notin AnswerTypes

OnlyAnswer(in, k) ==
  /\ k \in 1..Len(in) /\ in[k].type \in AnswerTypes
  /\ \A i \in 1..Len(in) : i # k => in[i].type \notin AnswerTypes

Bare(x) == x.requested = {} /\ x.needed = <<>>

GoodHistory(c, q) == Genesis \in q.ids /\ q.ids \subseteq Known(c)

GoodIds(D, c, m, h) ==
  /\ m.ids # <<>> /\ m.ids[1] \in Known(c)
  /\ m.start + Len(m.ids) <= m.total
  /\ h => Linked(D, c, {}, m.ids)

Quiet(x, rq, in) == x.callbacks = 0 /\ rq = <<>> /\ NoAnswer(in) /\ Bare(x)

Called(x, rq, in) == x.callbacks = 1 /\ rq = <<>> /\ NoAnswer(in) /\ Bare(x)

AskedForIds(c, x, rq, in) ==
  /\ x.callbacks = 0 /\ NoAnswer(in) /\ Bare(x)
  /\ Len(rq) = 1 /\ rq[1].type = "chain" /\ GoodHistory(c, rq[1])

AskedForBlocks(D, c, x, rq, in, h) ==
  /\ x.callbacks = 0 /\ NoAnswer(in)
  /\ Len(rq) = 1 /\ rq[1].type = "objects" /\ x.requested = ToSet(rq[1].blocks)
  /\ h => Linked(D, c, {}, rq[1].blocks) /\ Linked(D, c, x.requested, x.needed)

IdsArrived(D, c, x, rq, in, h) ==
  /\ x.callbacks = 0 /\ rq = <<>> /\ Bare(x)
  /\ \E k : OnlyAnswer(in, k) /\ in[k].type = "chain" /\ GoodIds(D, c, in[k], h)

BlocksArrived(D, c, x, rq, in, h) ==
  /\ x.callbacks = 0 /\ rq = <<>>
  /\ \E k : /\ OnlyAnswer(in, k) /\ in[k].type = "objects"
            /\ h => /\ ToSet(in[k].blocks) = x.requested => Linked(D, c, {}, in[k].blocks)
                    /\ Linked(D, c, x.requested, x.needed)

(* One connection: its context, requests and inbox; h for an honest peer.  *)
Conn(D, c, x, rq, in, h) ==
  \/ Quiet(x, rq, in)
  \/ /\ x.m_state = "synchronizing"
     /\ \/ Called(x, rq, in)
        \/ AskedForIds(c, x, rq, in)
        \/ AskedForBlocks(D, c, x, rq, in, h)
        \/ IdsArrived(D, c, x, rq, in, h)
        \/ BlocksArrived(D, c, x, rq, in, h)

(* The good peers none of whose blocks is in D.                            *)
Trusted(D) == {p \in Honest : CheckpointSettled /\ ServedBlocks(p) \cap D = {}}

Blameless(D) == \A p \in Trusted(D) : m_ip_fails_score[p] = 0 /\ p \notin m_blocked_ips

ConnInv(D) ==
  \A p \in Peers : Conn(D, core, context[p], requests[p], inbox[p], p \in Trusted(D))

PeerInv == \A p \in Peers : peer[p].top \in Served[p] \cup {PeerStart[p]}

SyncInv ==
  /\ PeerInv /\ Main(core.top) \cap Invalid = {}
  /\ \A D \in SUBSET Blocks :
       core.spoilt \subseteq D => OnlyDirtyInvalid(D, core) /\ ConnInv(D) /\ Blameless(D)
-----------------------------------------------------------------------------
(***************************************************************************)
(* Messages, requests and queues.                                          *)
(***************************************************************************)
LEMMA MessageFacts ==
  ASSUME NEW m \in Messages
  PROVE  /\ m.type \in {"payload", "chain", "objects", "new_block"}
         /\ m.type = "payload" => m.is_inital \in BOOLEAN /\ m.height \in Nat /\ m.top \in Blocks
         /\ m.type = "chain" => m.start \in Nat /\ m.total \in Nat /\ m.ids \in Seq(Blocks)
         /\ m.type = "objects" => m.blocks \in Seq(Blocks) /\ m.height \in Nat
         /\ m.type = "new_block" => m.block \in Blocks
BY DEF Messages

LEMMA RequestTypes ==
  ASSUME NEW q \in Requests
  PROVE  /\ q.type \in AnswerTypes
         /\ q.type = "chain" => q.ids \in SUBSET Blocks
         /\ q.type = "objects" => q.blocks \in Seq(Blocks)
BY DEF Requests, AnswerTypes

(* The queue of answers after a message is taken from it or put into it.   *)
LEMMA TailOfOne ==
  ASSUME NEW S, NEW q \in Seq(S), Len(q) = 1
  PROVE  Tail(q) = <<>> /\ <<>> \in Seq(S)
<1> DEFINE t == Tail(q)
<1>1. t \in Seq(S) /\ Len(t) = 0
  OBVIOUS
<1> HIDE DEF t
<1>2. t = <<>>
  BY <1>1
<1> QED BY <1>2 DEF t

LEMMA TailFacts ==
  ASSUME NEW in \in Seq(Messages), in # <<>>
  PROVE  /\ Head(in) = in[1] /\ Head(in) \in Messages /\ Tail(in) \in Seq(Messages)
         /\ NoAnswer(in) => NoAnswer(Tail(in)) /\ in[1].type \notin AnswerTypes
         /\ \A k : OnlyAnswer(in, k) /\ in[1].type \in AnswerTypes => k = 1 /\ NoAnswer(Tail(in))
         /\ \A k : OnlyAnswer(in, k) /\ in[1].type \notin AnswerTypes
              => OnlyAnswer(Tail(in), k - 1) /\ Tail(in)[k - 1] = in[k]
<1> DEFINE t == Tail(in)
           n == Len(in)
<1>1. /\ n \in Nat \ {0} /\ t \in Seq(Messages) /\ Len(t) = n - 1
      /\ \A i \in 1..(n - 1) : t[i] = in[i + 1]
      /\ Head(in) = in[1] /\ Head(in) \in Messages
  OBVIOUS
<1> HIDE DEF t, n
<1>2. \A i \in 1..(n - 1) : i + 1 \in 1..n /\ i + 1 # 1
  BY <1>1
<1>3. 1 \in 1..n
  BY <1>1
<1>4. NoAnswer(in) => NoAnswer(t) /\ in[1].type \notin AnswerTypes
  BY <1>1, <1>2, <1>3 DEF NoAnswer, n
<1>5. ASSUME NEW k, OnlyAnswer(in, k), in[1].type \in AnswerTypes PROVE k = 1 /\ NoAnswer(t)
  <2>1. k = 1
    BY <1>3, <1>5 DEF OnlyAnswer, n
  <2>2. \A i \in 1..n : i # 1 => in[i].type \notin AnswerTypes
    BY <1>5, <2>1 DEF OnlyAnswer, n
  <2> QED BY <1>1, <1>2, <2>1, <2>2 DEF NoAnswer
<1>6. ASSUME NEW k, OnlyAnswer(in, k), in[1].type \notin AnswerTypes
      PROVE  OnlyAnswer(t, k - 1) /\ t[k - 1] = in[k]
  <2>1. k \in 1..n /\ in[k].type \in AnswerTypes /\ k # 1
    BY <1>6 DEF OnlyAnswer, n
  <2>2. k - 1 \in 1..(n - 1) /\ (k - 1) + 1 = k
    BY <1>1, <2>1
  <2>3. t[k - 1] = in[k]
    BY <1>1, <2>2
  <2>4. ASSUME NEW i \in 1..(n - 1), i # k - 1 PROVE t[i].type \notin AnswerTypes
    <3>1. i + 1 \in 1..n /\ i + 1 # k
      BY <1>1, <2>1, <2>4
    <3> QED BY <3>1, <1>1, <1>6 DEF OnlyAnswer, n
  <2> QED BY <1>1, <2>1, <2>2, <2>3, <2>4 DEF OnlyAnswer
<1> QED BY <1>1, <1>4, <1>5, <1>6 DEF t

(* Both have the same answers under way.                                   *)
SameAnswers(in, out) ==
  /\ NoAnswer(in) => NoAnswer(out)
  /\ \A k : OnlyAnswer(in, k) => \E j : OnlyAnswer(out, j) /\ out[j] = in[k]

LEMMA AppendFacts ==
  ASSUME NEW in \in Seq(Messages), NEW m \in Messages
  PROVE  /\ Append(in, m) \in Seq(Messages)
         /\ NoAnswer(in) /\ m.type \notin AnswerTypes => NoAnswer(Append(in, m))
         /\ NoAnswer(in) /\ m.type \in AnswerTypes
              => /\ OnlyAnswer(Append(in, m), Len(in) + 1)
                 /\ Append(in, m)[Len(in) + 1] = m
         /\ m.type \notin AnswerTypes => SameAnswers(in, Append(in, m))
<1> DEFINE a == Append(in, m)
           n == Len(in)
<1>1. /\ n \in Nat /\ a \in Seq(Messages) /\ Len(a) = n + 1 /\ a[n + 1] = m
      /\ \A i \in 1..n : a[i] = in[i]
  OBVIOUS
<1> HIDE DEF a, n
<1>2. \A i \in 1..(n + 1) : i = n + 1 \/ i \in 1..n
  BY <1>1
<1>3. \A i \in 1..n : i \in 1..(n + 1) /\ i # n + 1
  BY <1>1
<1>4. NoAnswer(in) /\ m.type \notin AnswerTypes => NoAnswer(a)
  BY <1>1, <1>2 DEF NoAnswer, n
<1>5. NoAnswer(in) /\ m.type \in AnswerTypes => OnlyAnswer(a, n + 1)
  <2>1. n + 1 \in 1..(n + 1)
    BY <1>1
  <2> QED BY <1>1, <1>2, <2>1 DEF NoAnswer, OnlyAnswer, n
<1>6. ASSUME NEW k, OnlyAnswer(in, k), m.type \notin AnswerTypes
      PROVE  OnlyAnswer(a, k) /\ a[k] = in[k]
  <2>1. k \in 1..n
    BY <1>6 DEF OnlyAnswer, n
  <2>2. \A i \in 1..n : i # k => in[i].type \notin AnswerTypes
    BY <1>6 DEF OnlyAnswer, n
  <2>3. \A i \in 1..(n + 1) : i # k => a[i].type \notin AnswerTypes
    BY <1>1, <1>2, <1>6, <2>2
  <2> QED BY <1>1, <1>3, <1>6, <2>1, <2>3 DEF OnlyAnswer
<1>7. m.type \notin AnswerTypes => SameAnswers(in, a)
  BY <1>4, <1>6 DEF SameAnswers
<1> QED BY <1>1, <1>4, <1>5, <1>7 DEF a, n

-----------------------------------------------------------------------------
(***************************************************************************)
(* What leaves a connection as it is: the core grows, a message that is no *)
(* answer comes or goes, the announced height changes.                     *)
(***************************************************************************)
LEMMA ConnStable ==
  ASSUME NEW D, NEW c \in Cores(D), NEW d, Extends(D, d, c), NEW x \in Contexts, NEW rq \in Seq(Requests),
         NEW in \in Seq(Messages), NEW h \in BOOLEAN, Conn(D, c, x, rq, in, h)
  PROVE  Conn(D, d, x, rq, in, h)
<1>0. Known(c) \subseteq Known(d) /\ x.needed \in Seq(Blocks)
  BY DEF Extends, Contexts
<1>1. CASE AskedForIds(c, x, rq, in)
  <2>1. AskedForIds(d, x, rq, in)
    BY <1>0, <1>1 DEF AskedForIds, GoodHistory
  <2> QED BY <2>1, <1>1 DEF Conn, Quiet, Called, AskedForIds
<1>2. CASE AskedForBlocks(D, c, x, rq, in, h)
  <2>0. rq[1] \in Requests
    <3>1. 1 \in 1..Len(rq)
      BY <1>2 DEF AskedForBlocks
    <3> QED BY <3>1
  <2>1. rq[1].blocks \in Seq(Blocks)
    BY <1>2, <2>0, RequestTypes DEF AskedForBlocks
  <2>2. AskedForBlocks(D, d, x, rq, in, h)
    BY <1>0, <1>2, <2>1, LinkedStable DEF AskedForBlocks
  <2> QED BY <2>2, <1>2 DEF Conn, Quiet, AskedForBlocks
<1>3. CASE IdsArrived(D, c, x, rq, in, h)
  <2>1. PICK k : OnlyAnswer(in, k) /\ in[k].type = "chain" /\ GoodIds(D, c, in[k], h)
    BY <1>3 DEF IdsArrived
  <2>2. in[k].ids \in Seq(Blocks)
    BY <2>1, MessageFacts DEF OnlyAnswer
  <2>3. GoodIds(D, d, in[k], h)
    BY <1>0, <2>1, <2>2, LinkedStable DEF GoodIds
  <2>4. IdsArrived(D, d, x, rq, in, h)
    BY <1>3, <2>1, <2>3 DEF IdsArrived
  <2>5. ~NoAnswer(in)
    BY <2>1 DEF NoAnswer, OnlyAnswer
  <2> QED BY <2>4, <2>5 DEF Conn, Quiet, Called, AskedForIds, AskedForBlocks, BlocksArrived
<1>4. CASE BlocksArrived(D, c, x, rq, in, h)
  <2>1. PICK k : /\ OnlyAnswer(in, k) /\ in[k].type = "objects"
                 /\ h => /\ ToSet(in[k].blocks) = x.requested => Linked(D, c, {}, in[k].blocks)
                         /\ Linked(D, c, x.requested, x.needed)
    BY <1>4 DEF BlocksArrived
  <2>2. in[k].blocks \in Seq(Blocks)
    BY <2>1, MessageFacts DEF OnlyAnswer
  <2>3. h => /\ ToSet(in[k].blocks) = x.requested => Linked(D, d, {}, in[k].blocks)
             /\ Linked(D, d, x.requested, x.needed)
    BY <1>0, <2>1, <2>2, LinkedStable
  <2>4. BlocksArrived(D, d, x, rq, in, h)
    BY <1>4, <2>1, <2>3 DEF BlocksArrived
  <2>5. ~NoAnswer(in)
    BY <2>1 DEF NoAnswer, OnlyAnswer
  <2> QED BY <2>4, <2>5 DEF Conn, Quiet, Called, AskedForIds, AskedForBlocks
<1> QED BY <1>1, <1>2, <1>3, <1>4 DEF Conn
(* A connection depends on its context but for the heights, and on its     *)
(* inbox but for the messages that are no answers.                         *)
SameWork(x, y) ==
  /\ y.m_state = x.m_state /\ y.callbacks = x.callbacks
  /\ y.requested = x.requested /\ y.needed = x.needed

LEMMA ConnSame ==
  ASSUME NEW D, NEW c, NEW x, NEW y, NEW rq, NEW in, NEW out, NEW h,
         SameWork(x, y), SameAnswers(in, out), Conn(D, c, x, rq, in, h)
  PROVE  Conn(D, c, y, rq, out, h)
<1>1. CASE Quiet(x, rq, in)
  <2>1. Quiet(y, rq, out)
    BY <1>1, Zenon DEF Quiet, Bare, SameWork, SameAnswers
  <2> QED BY <2>1 DEF Conn
<1>2. CASE x.m_state = "synchronizing" /\ Called(x, rq, in)
  BY <1>2 DEF Conn, Called, Bare, SameWork, SameAnswers
<1>3. CASE x.m_state = "synchronizing" /\ AskedForIds(c, x, rq, in)
  BY <1>3 DEF Conn, AskedForIds, Bare, SameWork, SameAnswers
<1>4. CASE x.m_state = "synchronizing" /\ AskedForBlocks(D, c, x, rq, in, h)
  BY <1>4 DEF Conn, AskedForBlocks, Bare, SameWork, SameAnswers
<1>5. CASE x.m_state = "synchronizing" /\ IdsArrived(D, c, x, rq, in, h)
  <2>1. IdsArrived(D, c, y, rq, out, h)
    BY <1>5 DEF IdsArrived, Bare, SameWork, SameAnswers
  <2> QED BY <1>5, <2>1 DEF Conn, SameWork
<1>6. CASE x.m_state = "synchronizing" /\ BlocksArrived(D, c, x, rq, in, h)
  <2>1. PICK k : /\ OnlyAnswer(in, k) /\ in[k].type = "objects"
                 /\ h => /\ ToSet(in[k].blocks) = x.requested => Linked(D, c, {}, in[k].blocks)
                         /\ Linked(D, c, x.requested, x.needed)
    BY <1>6 DEF BlocksArrived
  <2>2. PICK j : OnlyAnswer(out, j) /\ out[j] = in[k]
    BY <2>1 DEF SameAnswers
  <2>3. BlocksArrived(D, c, y, rq, out, h)
    BY <1>6, <2>1, <2>2 DEF BlocksArrived, SameWork
  <2> QED BY <1>6, <2>3 DEF Conn, SameWork
<1> QED BY <1>1, <1>2, <1>3, <1>4, <1>5, <1>6 DEF Conn

LEMMA QueueSame ==
  ASSUME NEW in \in Seq(Messages)
  PROVE  /\ SameAnswers(in, in)
         /\ in # <<>> /\ Head(in).type \notin AnswerTypes => SameAnswers(in, Tail(in))
         /\ \A m \in Messages : m.type \notin AnswerTypes => SameAnswers(in, Append(in, m))
<1>1. SameAnswers(in, in)
  BY DEF SameAnswers
<1>2. ASSUME in # <<>>, Head(in).type \notin AnswerTypes PROVE SameAnswers(in, Tail(in))
  BY <1>2, TailFacts DEF SameAnswers
<1>3. \A m \in Messages : m.type \notin AnswerTypes => SameAnswers(in, Append(in, m))
  BY AppendFacts
<1> QED BY <1>1, <1>2, <1>3

(* Only a connection that synchronizes has anything under way; an answer   *)
(* that arrives has been asked for.                                        *)
LEMMA ConnFacts ==
  ASSUME NEW D, NEW c, NEW x, NEW rq, NEW in, NEW h, Conn(D, c, x, rq, in, h)
  PROVE  /\ x.m_state # "synchronizing" => Quiet(x, rq, in)
         /\ x.callbacks # 0 => x.m_state = "synchronizing" /\ Called(x, rq, in)
         /\ rq # <<>> => /\ x.m_state = "synchronizing" /\ Len(rq) = 1
                         /\ \/ rq[1].type = "chain" /\ AskedForIds(c, x, rq, in)
                            \/ rq[1].type = "objects" /\ AskedForBlocks(D, c, x, rq, in, h)
         /\ ~NoAnswer(in) => /\ x.m_state = "synchronizing"
                             /\ IdsArrived(D, c, x, rq, in, h) \/ BlocksArrived(D, c, x, rq, in, h)
<1>1. x.callbacks # 0 => x.m_state = "synchronizing" /\ Called(x, rq, in)
  BY DEF Conn, Quiet, Called, AskedForIds, AskedForBlocks, IdsArrived, BlocksArrived
<1>2. rq # <<>> => /\ x.m_state = "synchronizing" /\ Len(rq) = 1
                   /\ \/ rq[1].type = "chain" /\ AskedForIds(c, x, rq, in)
                      \/ rq[1].type = "objects" /\ AskedForBlocks(D, c, x, rq, in, h)
  BY DEF Conn, Quiet, Called, AskedForIds, AskedForBlocks, IdsArrived, BlocksArrived
<1>3. ~NoAnswer(in) => /\ x.m_state = "synchronizing"
                       /\ IdsArrived(D, c, x, rq, in, h) \/ BlocksArrived(D, c, x, rq, in, h)
  BY DEF Conn, Quiet, Called, AskedForIds, AskedForBlocks
<1> QED BY <1>1, <1>2, <1>3 DEF Conn
-----------------------------------------------------------------------------
(***************************************************************************)
(* The invariant in two parts: the node with its connections, and the      *)
(* peers with the failure points against them.                             *)
(***************************************************************************)
NodeInv(D) ==
  /\ core \in Cores(D)
  /\ context \in [Peers -> Contexts]
  /\ requests \in [Peers -> Seq(Requests)]
  /\ inbox \in [Peers -> Seq(Messages)]
  /\ OnlyDirtyInvalid(D, core) /\ ConnInv(D)

FlagTypes == m_synchronized \in BOOLEAN /\ m_been_synchronized \in BOOLEAN /\ m_want_stop \in BOOLEAN

BanInv(D) ==
  /\ m_ip_fails_score \in [Peers -> 0..FailsBeforBlock]
  /\ m_blocked_ips \subseteq Peers
  /\ Blameless(D)

RestInv(D) ==
  /\ peer \in [Peers -> [top : Blocks, synced : BOOLEAN]] /\ PeerInv
  /\ FlagTypes /\ BanInv(D)
  /\ connects \in [Peers -> Nat]

LEMMA InvParts ==
  ASSUME TypeOK, SyncInv, NEW D \in SUBSET Blocks, core.spoilt \subseteq D
  PROVE  NodeInv(D) /\ RestInv(D)
BY DEF TypeOK, SyncInv, NodeInv, RestInv, FlagTypes, BanInv, Cores

ForEveryD ==
  /\ core.spoilt \subseteq Blocks
  /\ \A D \in SUBSET Blocks : core.spoilt \subseteq D => NodeInv(D) /\ RestInv(D)

LEMMA InvWhole == ForEveryD => TypeOK /\ SyncInv
<1> SUFFICES ASSUME ForEveryD PROVE TypeOK /\ SyncInv
  OBVIOUS
<1>1. NodeInv(Blocks) /\ RestInv(Blocks)
  BY DEF ForEveryD
<1>2. TypeOK /\ PeerInv /\ Main(core.top) \cap Invalid = {}
  BY <1>1 DEF TypeOK, NodeInv, RestInv, FlagTypes, BanInv, Cores
<1>3. \A D \in SUBSET Blocks :
        core.spoilt \subseteq D => OnlyDirtyInvalid(D, core) /\ ConnInv(D) /\ Blameless(D)
  BY DEF ForEveryD, NodeInv, RestInv, BanInv
<1> QED BY <1>2, <1>3 DEF SyncInv

(* What is known of p's connection before a step.                          *)
LEMMA Before1 ==
  ASSUME NEW D, NodeInv(D), NEW p \in Peers
  PROVE  /\ core \in Cores(D) /\ context[p] \in Contexts /\ requests[p] \in Seq(Requests)
         /\ inbox[p] \in Seq(Messages) /\ (p \in Trusted(D)) \in BOOLEAN
         /\ Conn(D, core, context[p], requests[p], inbox[p], p \in Trusted(D))
         /\ context = [context EXCEPT ![p] = context[p]]
         /\ requests = [requests EXCEPT ![p] = requests[p]]
         /\ inbox = [inbox EXCEPT ![p] = inbox[p]]
         /\ Extends(D, core, core) /\ OnlyDirtyInvalid(D, core)
<1>1. /\ core \in Cores(D) /\ context[p] \in Contexts /\ requests[p] \in Seq(Requests)
      /\ inbox[p] \in Seq(Messages) /\ OnlyDirtyInvalid(D, core)
      /\ Conn(D, core, context[p], requests[p], inbox[p], p \in Trusted(D))
  BY DEF NodeInv, ConnInv
<1>2. /\ context = [context EXCEPT ![p] = context[p]]
      /\ requests = [requests EXCEPT ![p] = requests[p]]
      /\ inbox = [inbox EXCEPT ![p] = inbox[p]]
  BY DEF NodeInv
<1> QED BY <1>1, <1>2, ExtendsRefl

LEMMA ConnLater ==
  ASSUME NEW D, NodeInv(D), NEW q \in Peers, Extends(D, core', core)
  PROVE  Conn(D, core', context[q], requests[q], inbox[q], q \in Trusted(D))
<1>1. /\ core \in Cores(D) /\ context[q] \in Contexts /\ requests[q] \in Seq(Requests)
      /\ inbox[q] \in Seq(Messages) /\ (q \in Trusted(D)) \in BOOLEAN
      /\ Conn(D, core, context[q], requests[q], inbox[q], q \in Trusted(D))
  BY Before1
<1> DEFINE x == context[q]
           rq == requests[q]
           in == inbox[q]
           d == core'
<1>2. Extends(D, d, core)
  OBVIOUS
<1> HIDE DEF x, rq, in, d
<1>3. \A h \in BOOLEAN : Conn(D, core, x, rq, in, h) => Conn(D, d, x, rq, in, h)
  BY <1>1, <1>2, ConnStable DEF x, rq, in
<1> QED BY <1>1, <1>3 DEF x, rq, in, d

(* A step of one connection: the core grows, p's connection is a good one  *)
(* again, the others are as they were.                                     *)
LEMMA OneConnection ==
  ASSUME NEW D, NodeInv(D), NEW p \in Peers, NEW x \in Contexts, NEW rq \in Seq(Requests),
         NEW in \in Seq(Messages),
         context' = [context EXCEPT ![p] = x],
         requests' = [requests EXCEPT ![p] = rq],
         inbox' = [inbox EXCEPT ![p] = in],
         Extends(D, core', core),
         Conn(D, core', x, rq, in, p \in Trusted(D))
  PROVE  NodeInv(D)'
<1>1. /\ core' \in Cores(D) /\ OnlyDirtyInvalid(D, core')
      /\ context' \in [Peers -> Contexts]
      /\ requests' \in [Peers -> Seq(Requests)]
      /\ inbox' \in [Peers -> Seq(Messages)]
  BY DEF NodeInv, Extends
<1>2. ASSUME NEW q \in Peers
      PROVE  Conn(D, core', context'[q], requests'[q], inbox'[q], q \in Trusted(D))
  <2>1. CASE q = p
    <3>1. context'[q] = x /\ requests'[q] = rq /\ inbox'[q] = in
      BY <2>1 DEF NodeInv
    <3> QED BY <3>1, <2>1
  <2>2. CASE q # p
    <3>1. context'[q] = context[q] /\ requests'[q] = requests[q] /\ inbox'[q] = inbox[q]
      BY <2>2 DEF NodeInv
    <3>3. Conn(D, core', context[q], requests[q], inbox[q], q \in Trusted(D))
      BY ConnLater
    <3> QED BY <3>1, <3>3
  <2> QED BY <2>1, <2>2
<1>3. ConnInv(D)'
  BY <1>2 DEF ConnInv
<1> QED BY <1>1, <1>3 DEF NodeInv

(* The core grows and no connection changes.                               *)
LEMMA CoreGrows ==
  ASSUME NEW D, NodeInv(D), UNCHANGED <<context, requests, inbox>>, Extends(D, core', core)
  PROVE  NodeInv(D)'
<1>1. \A q \in Peers : Conn(D, core', context[q], requests[q], inbox[q], q \in Trusted(D))
  BY ConnLater
<1>2. ConnInv(D)'
  BY <1>1 DEF ConnInv
<1>3. core' \in Cores(D) /\ OnlyDirtyInvalid(D, core')
  BY DEF NodeInv, Extends
<1> QED BY <1>2, <1>3 DEF NodeInv

(* A connection that is dropped is quiet.                                  *)
LEMMA Dropped ==
  ASSUME NEW D, NodeInv(D), NEW p \in Peers, drop_connection(p), Extends(D, core', core)
  PROVE  NodeInv(D)'
<1>1. Closed \in Contexts /\ Quiet(Closed, <<>>, <<>>)
  BY DEF Closed, Contexts, States, Quiet, Bare, NoAnswer
<1>2. Conn(D, core', Closed, <<>>, <<>>, p \in Trusted(D))
  BY <1>1 DEF Conn
<1>3. <<>> \in Seq(Requests) /\ <<>> \in Seq(Messages)
  OBVIOUS
<1> QED BY <1>1, <1>2, <1>3, OneConnection, Zenon DEF drop_connection

(* Nothing is held against the peers.                                      *)
LEMMA SameRest ==
  ASSUME NEW D, RestInv(D), UNCHANGED <<peer, bans, connects>>, FlagTypes'
  PROVE  RestInv(D)'
BY DEF RestInv, bans, PeerInv, BanInv, Blameless

LEMMA SameFlags ==
  ASSUME NEW D, RestInv(D), UNCHANGED flags
  PROVE  FlagTypes'
<1>1. m_synchronized' = m_synchronized /\ m_been_synchronized' = m_been_synchronized
      /\ m_want_stop' = m_want_stop
  BY DEF flags
<1> QED BY <1>1, Zenon DEF RestInv, FlagTypes
-----------------------------------------------------------------------------
(***************************************************************************)
(* A handler that ends.                                                    *)
(***************************************************************************)
LEMMA Finished ==
  ASSUME NEW D, NodeInv(D), NEW p \in Peers, inbox[p] # <<>>, NEW y \in Contexts,
         NEW out \in Seq(Requests), Finish(p, y, out), Extends(D, core', core),
         Conn(D, core', y, requests[p] \o out, Tail(inbox[p]), p \in Trusted(D))
  PROVE  NodeInv(D)'
<1> DEFINE rq == requests[p] \o out
           in == Tail(inbox[p])
<1>1. requests[p] \in Seq(Requests) /\ inbox[p] \in Seq(Messages)
  BY Before1
<1>2. rq \in Seq(Requests) /\ in \in Seq(Messages)
  BY <1>1, TailFacts
<1>3. /\ context' = [context EXCEPT ![p] = y]
      /\ requests' = [requests EXCEPT ![p] = rq]
      /\ inbox' = [inbox EXCEPT ![p] = in]
  BY DEF Finish
<1>4. Conn(D, core', y, rq, in, p \in Trusted(D))
  OBVIOUS
<1> HIDE DEF rq, in, NodeInv
<1> QED BY <1>2, <1>3, <1>4, OneConnection

(* It took a message that is no answer and changed heights at most.        *)
LEMMA FinishedSame ==
  ASSUME NEW D, NodeInv(D), NEW p \in Peers, inbox[p] # <<>>, Head(inbox[p]).type \notin AnswerTypes,
         NEW y \in Contexts, SameWork(context[p], y), Finish(p, y, <<>>), Extends(D, core', core)
  PROVE  NodeInv(D)'
<1> DEFINE rq == requests[p]
           in == Tail(inbox[p])
<1>1. requests[p] \in Seq(Requests) /\ inbox[p] \in Seq(Messages)
  BY Before1
<1>2. Conn(D, core', context[p], rq, inbox[p], p \in Trusted(D))
  BY ConnLater
<1>3. SameAnswers(inbox[p], in)
  BY <1>1, QueueSame
<1> HIDE DEF in
<1>4. Conn(D, core', y, rq, in, p \in Trusted(D))
  BY <1>2, <1>3, ConnSame, Zenon
<1>5. requests[p] \o <<>> = rq /\ <<>> \in Seq(Requests)
  BY <1>1
<1>6. Conn(D, core', y, requests[p] \o <<>>, Tail(inbox[p]), p \in Trusted(D))
  BY <1>4, <1>5 DEF in
<1> QED BY <1>5, <1>6, Finished

(* It posted at most one request on a connection that had nothing under    *)
(* way.                                                                    *)
LEMMA FinishedQuiet ==
  ASSUME NEW D, NodeInv(D), NEW p \in Peers, inbox[p] # <<>>, requests[p] = <<>>,
         NEW y \in Contexts, NEW out \in Seq(Requests), Finish(p, y, out), Extends(D, core', core),
         Conn(D, core', y, out, Tail(inbox[p]), p \in Trusted(D))
  PROVE  NodeInv(D)'
<1>1. requests[p] \o out = out
  OBVIOUS
<1>2. Conn(D, core', y, requests[p] \o out, Tail(inbox[p]), p \in Trusted(D))
  BY <1>1
<1> QED BY <1>2, Finished

-----------------------------------------------------------------------------
(***************************************************************************)
(* The actions, one by one: connections.                                   *)
(***************************************************************************)
LEMMA HeightType ==
  ASSUME NEW b \in Blocks PROVE Height(b) \in Nat \ {0}
BY PathFacts DEF Height

LEMMA PayloadType ==
  ASSUME NEW D, RestInv(D), NEW p \in Peers, NEW i \in BOOLEAN
  PROVE  Payload(p, i) \in Messages /\ Payload(p, i).type = "payload"
<1>1. peer[p].top \in Blocks
  BY DEF RestInv
<1>2. Height(peer[p].top) \in Nat
  BY <1>1, HeightType
<1> QED BY <1>1, <1>2 DEF Payload, Messages

LEMMA ConnectStep ==
  ASSUME NEW D, NodeInv(D), RestInv(D), NEW p \in Peers, Connect(p)
  PROVE  NodeInv(D)' /\ RestInv(D)'
<1> DEFINE x == [context[p] EXCEPT !.m_state = "befor_handshake"]
           in == <<Payload(p, TRUE)>>
<1>1. /\ context[p] \in Contexts
      /\ Conn(D, core, context[p], requests[p], inbox[p], p \in Trusted(D))
      /\ requests = [requests EXCEPT ![p] = requests[p]]
      /\ requests[p] \in Seq(Requests) /\ Extends(D, core, core)
  BY Before1
<1>2. Quiet(context[p], requests[p], inbox[p])
  BY <1>1, ConnFacts DEF Connect
<1>3. x \in Contexts
  BY <1>1 DEF Contexts, States
<1>4. Payload(p, TRUE) \in Messages /\ Payload(p, TRUE).type = "payload"
  BY PayloadType
<1>5. in \in Seq(Messages) /\ NoAnswer(in)
  <2> DEFINE m == Payload(p, TRUE)
  <2>1. m \in Messages /\ m.type \notin AnswerTypes
    BY <1>4 DEF AnswerTypes
  <2> HIDE DEF m
  <2>2. <<m>> \in Seq(Messages) /\ Len(<<m>>) = 1 /\ <<m>>[1] = m
    BY <2>1
  <2>3. NoAnswer(<<m>>)
    BY <2>1, <2>2 DEF NoAnswer
  <2> QED BY <2>2, <2>3 DEF m
<1>6. x.callbacks = 0 /\ Bare(x)
  BY <1>1, <1>2 DEF Quiet, Bare, Contexts
<1>7. Quiet(x, requests[p], in)
  BY <1>2, <1>5, <1>6 DEF Quiet
<1>8. /\ context' = [context EXCEPT ![p] = x] /\ inbox' = [inbox EXCEPT ![p] = in]
      /\ requests' = requests /\ core' = core
  BY DEF Connect
<1> HIDE DEF x, in
<1>9. Conn(D, core', x, requests[p], in, p \in Trusted(D))
  BY <1>7 DEF Conn
<1>10. NodeInv(D)'
  BY <1>1, <1>3, <1>5, <1>8, <1>9, OneConnection
<1>11. connects' \in [Peers -> Nat]
  BY DEF Connect, RestInv
<1>12. FlagTypes'
  BY SameFlags DEF Connect
<1>13. RestInv(D)'
  BY <1>11, <1>12 DEF RestInv, Connect, bans, PeerInv, BanInv, Blameless
<1> QED BY <1>10, <1>13

LEMMA DisconnectStep ==
  ASSUME NEW D, NodeInv(D), RestInv(D), NEW p \in Peers, Disconnect(p)
  PROVE  NodeInv(D)' /\ RestInv(D)'
<1>1. Extends(D, core', core)
  BY Before1 DEF Disconnect
<1>2. NodeInv(D)'
  BY <1>1, Dropped DEF Disconnect
<1> QED BY <1>2, SameRest, SameFlags DEF Disconnect

LEMMA UnblockStep ==
  ASSUME NEW D, NodeInv(D), RestInv(D), NEW p \in Peers, Unblock(p)
  PROVE  NodeInv(D)' /\ RestInv(D)'
<1>1. NodeInv(D)'
  BY Before1, CoreGrows DEF Unblock
<1>2. FlagTypes'
  BY SameFlags DEF Unblock
<1>3. BanInv(D)'
  BY DEF RestInv, BanInv, Blameless, Unblock
<1> QED BY <1>1, <1>2, <1>3 DEF RestInv, PeerInv, Unblock
-----------------------------------------------------------------------------
(***************************************************************************)
(* The node's handlers.                                                    *)
(***************************************************************************)
LEMMA ReceivedFacts ==
  ASSUME NEW D, NodeInv(D), NEW p \in Peers, NEW t, Received(p, t)
  PROVE  /\ inbox[p] \in Seq(Messages) /\ inbox[p] # <<>>
         /\ Head(inbox[p]) \in Messages /\ Head(inbox[p]).type = t
         /\ Head(inbox[p]) = inbox[p][1]
<1>1. inbox[p] \in Seq(Messages) /\ inbox[p] # <<>> /\ Head(inbox[p]).type = t
  BY Before1 DEF Received
<1> QED BY <1>1, TailFacts

LEMMA PayloadStep ==
  ASSUME NEW D, NodeInv(D), RestInv(D), NEW p \in Peers, process_payload_sync_data(p)
  PROVE  NodeInv(D)' /\ RestInv(D)'
<1> DEFINE m == Head(inbox[p])
           x == context[p]
           ctx == [x EXCEPT !.remote_height = m.height]
           in == Tail(inbox[p])
<1>0. SUFFICES NodeInv(D)'
  BY SameRest, SameFlags DEF process_payload_sync_data
<1>1. /\ inbox[p] \in Seq(Messages) /\ inbox[p] # <<>> /\ m \in Messages /\ m.type = "payload"
  BY ReceivedFacts DEF process_payload_sync_data
<1>2. m.height \in Nat
  BY <1>1, MessageFacts
<1>3. /\ x \in Contexts /\ Conn(D, core, x, requests[p], inbox[p], p \in Trusted(D))
      /\ requests[p] \in Seq(Requests)
  BY Before1
<1>4. core' = core /\ Extends(D, core', core)
  BY Before1 DEF process_payload_sync_data
<1>5. Head(inbox[p]).type \notin AnswerTypes
  BY <1>1 DEF AnswerTypes
<1>6. \/ PayloadIgnored(ctx, m) /\ Finish(p, ctx, <<>>)
      \/ ~PayloadIgnored(ctx, m)
         /\ \/ drop_connection(p)
            \/ Finish(p, ctx, <<>>)
            \/ Finish(p, [ctx EXCEPT !.m_state = "normal"], <<>>)
            \/ Finish(p, [ctx EXCEPT !.m_state = "synchronizing", !.callbacks = @ + 1], <<>>)
  BY Zenon DEF process_payload_sync_data
<1> HIDE DEF m
<1>7. ctx \in Contexts /\ SameWork(x, ctx)
  BY <1>2, <1>3 DEF Contexts, SameWork
<1>8. CASE Finish(p, ctx, <<>>)
  <2> HIDE DEF ctx
  <2> QED BY <1>1, <1>4, <1>5, <1>7, <1>8, FinishedSame
<1>9. CASE drop_connection(p)
  BY <1>4, <1>9, Dropped
<1>10. ASSUME ~PayloadIgnored(ctx, m) PROVE Quiet(x, requests[p], inbox[p]) /\ NoAnswer(in)
  <2>1. x.m_state # "synchronizing"
    BY <1>3, <1>7, <1>10 DEF PayloadIgnored, SameWork
  <2>2. Quiet(x, requests[p], inbox[p])
    BY <1>3, <2>1, ConnFacts
  <2> QED BY <2>2, <1>1, TailFacts DEF Quiet
<1>11. <<>> \in Seq(Requests)
  OBVIOUS
<1>12. CASE ~PayloadIgnored(ctx, m) /\ Finish(p, [ctx EXCEPT !.m_state = "normal"], <<>>)
  <2> DEFINE y == [ctx EXCEPT !.m_state = "normal"]
  <2>1. y \in Contexts /\ y.callbacks = x.callbacks /\ y.requested = x.requested /\ y.needed = x.needed
    BY <1>7 DEF Contexts, States, SameWork
  <2> HIDE DEF y, in
  <2>2. Quiet(y, <<>>, in)
    BY <1>10, <1>12, <2>1 DEF Quiet, Bare
  <2>3. Conn(D, core', y, <<>>, in, p \in Trusted(D))
    BY <2>2 DEF Conn
  <2>4. Finish(p, y, <<>>)
    BY <1>12 DEF y
  <2>5. requests[p] = <<>>
    BY <1>10, <1>12 DEF Quiet
  <2> QED BY <1>1, <1>4, <1>11, <2>1, <2>3, <2>4, <2>5, FinishedQuiet DEF in
<1>13. CASE /\ ~PayloadIgnored(ctx, m)
            /\ Finish(p, [ctx EXCEPT !.m_state = "synchronizing", !.callbacks = @ + 1], <<>>)
  <2> DEFINE y == [ctx EXCEPT !.m_state = "synchronizing", !.callbacks = @ + 1]
  <2>0. x.callbacks = 0
    BY <1>10, <1>13 DEF Quiet
  <2>1. /\ y \in Contexts /\ y.callbacks = 1 /\ y.requested = x.requested /\ y.needed = x.needed
        /\ y.m_state = "synchronizing"
    <3>1. ctx.callbacks = 0
      BY <1>3, <2>0, <1>7 DEF SameWork
    <3> HIDE DEF ctx
    <3>2. ctx.callbacks + 1 = 1
      BY <3>1
    <3>3. y = [ctx EXCEPT !.m_state = "synchronizing", !.callbacks = 1]
      BY <3>2
    <3> HIDE DEF y
    <3>4. y \in Contexts /\ y.callbacks = 1 /\ y.m_state = "synchronizing"
      BY <1>7, <3>3 DEF Contexts, States
    <3>5. y.requested = ctx.requested /\ y.needed = ctx.needed
      BY <1>7, <3>3 DEF Contexts
    <3> QED BY <1>7, <3>4, <3>5 DEF SameWork
  <2> HIDE DEF y, in
  <2>2. Called(y, <<>>, in)
    BY <1>10, <1>13, <2>1 DEF Quiet, Called, Bare
  <2>3. Conn(D, core', y, <<>>, in, p \in Trusted(D))
    BY <2>1, <2>2 DEF Conn
  <2>4. Finish(p, y, <<>>)
    BY <1>13, Zenon DEF y
  <2>5. requests[p] = <<>>
    BY <1>10, <1>13 DEF Quiet
  <2> QED BY <1>1, <1>4, <1>11, <2>1, <2>3, <2>4, <2>5, FinishedQuiet DEF in
<1> QED BY <1>6, <1>8, <1>9, <1>12, <1>13

LEMMA CallbackStep ==
  ASSUME NEW D, NodeInv(D), RestInv(D), NEW p \in Peers, on_callback(p)
  PROVE  NodeInv(D)' /\ RestInv(D)'
<1> DEFINE x == context[p]
           y == [x EXCEPT !.callbacks = @ - 1]
           q == ChainRequest(core)
           rq == Append(requests[p], q)
<1>1. /\ x \in Contexts /\ Conn(D, core, x, requests[p], inbox[p], p \in Trusted(D))
      /\ requests[p] \in Seq(Requests) /\ inbox[p] \in Seq(Messages)
      /\ core \in Cores(D) /\ inbox = [inbox EXCEPT ![p] = inbox[p]]
  BY Before1
<1>2. core' = core /\ Extends(D, core', core)
  BY Before1 DEF on_callback
<1>3. x.callbacks # 0
  BY <1>1 DEF on_callback, Contexts
<1>4. x.m_state = "synchronizing" /\ Called(x, requests[p], inbox[p])
  BY <1>1, <1>3, ConnFacts
<1>5. /\ context' = [context EXCEPT ![p] = y] /\ requests' = [requests EXCEPT ![p] = rq]
      /\ inbox' = [inbox EXCEPT ![p] = inbox[p]]
  BY <1>1, <1>4 DEF on_callback
<1>6. q \in Requests /\ q.type = "chain" /\ GoodHistory(core, q)
  BY <1>1, HistoryFacts DEF GoodHistory
<1>7. /\ y \in Contexts /\ y.callbacks = 0 /\ y.m_state = "synchronizing"
      /\ y.requested = x.requested /\ y.needed = x.needed
  BY <1>1, <1>4 DEF Contexts, Called
<1> HIDE DEF y, q
<1>8. rq \in Seq(Requests) /\ Len(rq) = 1 /\ rq[1] = q
  BY <1>1, <1>4, <1>6 DEF Called
<1> HIDE DEF rq
<1>9. AskedForIds(core, y, rq, inbox[p])
  BY <1>4, <1>6, <1>7, <1>8 DEF Called, AskedForIds, Bare
<1>10. Conn(D, core', y, rq, inbox[p], p \in Trusted(D))
  BY <1>2, <1>7, <1>9 DEF Conn
<1>11. NodeInv(D)'
  BY <1>1, <1>2, <1>5, <1>7, <1>8, <1>10, OneConnection, Zenon
<1> QED BY <1>11, SameRest, SameFlags DEF on_callback
LEMMA NewBlockStep ==
  ASSUME NEW D, NodeInv(D), RestInv(D), core'.spoilt \subseteq D, NEW p \in Peers,
         handle_notify_new_block(p)
  PROVE  NodeInv(D)' /\ RestInv(D)'
<1> DEFINE m == Head(inbox[p])
           x == context[p]
           in == Tail(inbox[p])
<1>0. SUFFICES NodeInv(D)'
  BY SameRest, SameFlags DEF handle_notify_new_block
<1>1. inbox[p] \in Seq(Messages) /\ inbox[p] # <<>> /\ m \in Messages /\ m.type = "new_block"
  BY ReceivedFacts DEF handle_notify_new_block
<1>2. m.block \in Blocks
  BY <1>1, MessageFacts
<1>3. /\ x \in Contexts /\ Conn(D, core, x, requests[p], inbox[p], p \in Trusted(D))
      /\ requests[p] \in Seq(Requests) /\ core \in Cores(D) /\ Extends(D, core, core)
  BY Before1
<1>4. PICK c \in WithTxsOf(p, core) :
        IF ~m_synchronized \/ x.m_state # "normal" \/ x.remote_height <= 1
        THEN Finish(p, x, <<>>) /\ UNCHANGED core
        ELSE /\ core' = handle_entry(c, m.block).core
             /\ CASE handle_entry(c, m.block).result \in {"tx_failed", "failed"} -> drop_connection(p)
                  [] handle_entry(c, m.block).result = "orphaned" ->
                       Finish(p, [x EXCEPT !.m_state = "synchronizing"],
                              <<ChainRequest(handle_entry(c, m.block).core)>>)
                  [] OTHER -> Finish(p, x, <<>>)
  BY Zenon DEF handle_notify_new_block
<1> DEFINE v == handle_entry(c, m.block)
<1>5. Head(inbox[p]).type \notin AnswerTypes
  BY <1>1 DEF AnswerTypes
<1>6. \/ Finish(p, x, <<>>) /\ core' = core
      \/ /\ core' = v.core /\ x.m_state = "normal"
         /\ \/ drop_connection(p)
            \/ Finish(p, [x EXCEPT !.m_state = "synchronizing"], <<ChainRequest(v.core)>>)
            \/ Finish(p, x, <<>>)
  <2> HIDE DEF x, m
  <2> QED BY <1>4
<1>a. core' = v.core => Extends(D, v.core, core) /\ v.core \in Cores(D)
  <2> SUFFICES ASSUME core' = v.core PROVE Extends(D, v.core, core) /\ v.core \in Cores(D)
    OBVIOUS
  <2>1. c \in Cores(Blocks)
    BY <1>3, WithTxsFacts
  <2>2. Extends(Blocks, v.core, c)
    BY <1>2, <2>1, HandleEntry
  <2>3. c \in Cores(D) /\ Extends(D, c, core)
    BY <1>3, <2>2, TxsTaken
  <2>4. Extends(D, v.core, c)
    BY <1>2, <2>3, HandleEntry
  <2> QED BY <2>3, <2>4, ExtendsTrans DEF Extends
<1> HIDE DEF v, m
<1>7. Extends(D, core', core)
  BY <1>3, <1>6, <1>a
<1>8. CASE Finish(p, x, <<>>)
  <2>1. SameWork(x, x)
    BY DEF SameWork
  <2> QED BY <1>1, <1>3, <1>5, <1>7, <1>8, <2>1, FinishedSame
<1>9. CASE drop_connection(p)
  BY <1>7, <1>9, Dropped
<1>10. CASE /\ core' = v.core /\ x.m_state = "normal"
            /\ Finish(p, [x EXCEPT !.m_state = "synchronizing"], <<ChainRequest(v.core)>>)
  <2> DEFINE y == [x EXCEPT !.m_state = "synchronizing"]
             q == ChainRequest(v.core)
             rq == <<q>>
  <2>1. Quiet(x, requests[p], inbox[p])
    BY <1>3, <1>10, ConnFacts
  <2>2. NoAnswer(in) /\ requests[p] = <<>> /\ x.callbacks = 0 /\ Bare(x)
    BY <1>1, <2>1, TailFacts DEF Quiet
  <2>3. /\ y \in Contexts /\ y.callbacks = 0 /\ y.m_state = "synchronizing"
        /\ y.requested = x.requested /\ y.needed = x.needed
    BY <1>3, <2>2 DEF Contexts, States
  <2>4. q \in Requests /\ q.type = "chain" /\ GoodHistory(core', q)
    BY <1>a, <1>10, HistoryFacts DEF GoodHistory
  <2>5. Finish(p, y, rq)
    BY <1>10
  <2> HIDE DEF y, q, in
  <2>6. rq \in Seq(Requests) /\ Len(rq) = 1 /\ rq[1] = q
    BY <2>4
  <2> HIDE DEF rq
  <2>7. AskedForIds(core', y, rq, in)
    BY <2>2, <2>3, <2>4, <2>6 DEF AskedForIds, Bare
  <2>8. Conn(D, core', y, rq, in, p \in Trusted(D))
    BY <2>3, <2>7 DEF Conn
  <2> QED BY <1>1, <1>7, <2>2, <2>3, <2>5, <2>6, <2>8, FinishedQuiet DEF in
<1> QED BY <1>6, <1>8, <1>9, <1>10

LEMMA IdleStep ==
  ASSUME NEW D, NodeInv(D), RestInv(D), on_idle
  PROVE  NodeInv(D)' /\ RestInv(D)'
<1>1. NodeInv(D)'
  <2>1. Extends(D, core', core)
    BY ExtendsRefl DEF on_idle, NodeInv
  <2> QED BY <2>1, CoreGrows DEF on_idle
<1>2. m_synchronized' \in BOOLEAN
  BY DEF on_idle, RestInv, FlagTypes
<1>3. m_been_synchronized' \in BOOLEAN /\ m_want_stop' \in BOOLEAN
  BY DEF on_idle, RestInv, FlagTypes
<1>4. FlagTypes'
  BY <1>2, <1>3 DEF FlagTypes
<1> QED BY <1>1, <1>4, SameRest DEF on_idle

LEMMA BlockFoundStep ==
  ASSUME NEW D, NodeInv(D), RestInv(D), NEW b \in Found, handle_block_found(b)
  PROVE  NodeInv(D)' /\ RestInv(D)'
<1>1. b \in Blocks
  BY SyncAssumption
<1>2. Extends(D, core', core)
  BY <1>1, AddNewBlock DEF handle_block_found, NodeInv, Accepted
<1>3. NodeInv(D)'
  BY <1>2, CoreGrows DEF handle_block_found
<1> QED BY <1>3, SameRest, SameFlags DEF handle_block_found

LEMMA StopStep ==
  ASSUME NEW D, NodeInv(D), RestInv(D), set_want_stop
  PROVE  NodeInv(D)' /\ RestInv(D)'
<1>1. NodeInv(D)'
  <2>1. Extends(D, core', core)
    BY ExtendsRefl DEF set_want_stop, NodeInv
  <2> QED BY <2>1, CoreGrows DEF set_want_stop
<1>2. FlagTypes'
  BY DEF set_want_stop, RestInv, FlagTypes
<1> QED BY <1>1, <1>2, SameRest DEF set_want_stop
-----------------------------------------------------------------------------
(***************************************************************************)
(* The peers.                                                              *)
(***************************************************************************)

(* The chain of a peer that only serves good blocks.                       *)
LEMMA HonestClean ==
  ASSUME NEW D, RestInv(D), NEW p \in Peers
  PROVE  /\ peer[p].top \in Blocks
         /\ p \in Trusted(D) => \A b \in Main(peer[p].top) : b \in Blocks /\ Clean(D, b)
<1> DEFINE t == peer[p].top
<1>1. t \in Blocks /\ t \in Served[p] \cup {PeerStart[p]}
  BY DEF RestInv, PeerInv
<1> HIDE DEF t
<1>2. ASSUME p \in Trusted(D), NEW b \in Main(t) PROVE b \in Blocks /\ Clean(D, b)
  <2>1. CheckpointSettled /\ Main(t) \cap (Invalid \cup D) = {}
    BY <1>1, <1>2 DEF Trusted, Honest, ServedBlocks
  <2>2. b \in Blocks /\ Main(b) \subseteq Main(t)
    BY <1>1, MainFacts, MainDown
  <2> QED BY <2>1, <2>2 DEF Clean
<1> QED BY <1>1, <1>2 DEF t

(* A piece of a good chain that starts with a known block is linked.       *)
LEMMA PieceLinked ==
  ASSUME NEW D, NEW c \in Cores(D), OnlyDirtyInvalid(D, c), NEW ids \in Seq(Blocks), ids # <<>>,
         ids[1] \in Known(c),
         \A i \in 1..Len(ids) : /\ Clean(D, ids[i])
                                /\ i > 1 => ids[i] # Genesis /\ Prev(ids[i]) = ids[i - 1]
  PROVE  Linked(D, c, {}, ids)
<1> SUFFICES ASSUME NEW i \in 1..Len(ids)
             PROVE  Clean(D, ids[i]) /\ Fits(ids[i], InChain(c) \cup {} \cup Before(ids, i))
  BY DEF Linked
<1>1. CASE i = 1
  <2>1. ids[1] \in InChain(c)
    BY <1>1 DEF Known, OnlyDirtyInvalid
  <2> QED BY <1>1, <2>1 DEF Fits
<1>2. CASE i > 1
  <2>1. i - 1 \in 1..(i - 1)
    BY <1>2
  <2>2. ids[i - 1] \in Before(ids, i)
    BY <2>1 DEF Before
  <2> QED BY <1>2, <2>2 DEF Fits
<1> QED BY <1>1, <1>2

(* The answer takes the place of the request.                              *)
LEMMA Answered ==
  ASSUME NEW D, NodeInv(D), RestInv(D), NEW p \in Peers, requests[p] # <<>>,
         NEW m \in Messages, Answer(p, m), m.type \in AnswerTypes,
         context[p].m_state = "synchronizing",
         \/ IdsArrived(D, core, context[p], <<>>, Append(inbox[p], m), p \in Trusted(D))
         \/ BlocksArrived(D, core, context[p], <<>>, Append(inbox[p], m), p \in Trusted(D))
  PROVE  NodeInv(D)' /\ RestInv(D)'
<1> DEFINE x == context[p]
           in == Append(inbox[p], m)
<1>1. /\ x \in Contexts /\ requests[p] \in Seq(Requests) /\ inbox[p] \in Seq(Messages)
      /\ Conn(D, core, x, requests[p], inbox[p], p \in Trusted(D))
      /\ context = [context EXCEPT ![p] = x] /\ Extends(D, core, core)
  BY Before1
<1>2. Len(requests[p]) = 1
  BY <1>1, ConnFacts
<1>3. Tail(requests[p]) = <<>> /\ <<>> \in Seq(Requests)
  BY <1>1, <1>2, TailOfOne
<1>4. in \in Seq(Messages)
  BY <1>1, AppendFacts
<1>5. /\ context' = [context EXCEPT ![p] = x]
      /\ requests' = [requests EXCEPT ![p] = <<>>]
      /\ inbox' = [inbox EXCEPT ![p] = in]
      /\ core' = core /\ Extends(D, core', core)
  BY <1>1, <1>3 DEF Answer
<1>6. Conn(D, core', x, <<>>, in, p \in Trusted(D))
  BY <1>5 DEF Conn
<1> HIDE DEF in
<1>7. NodeInv(D)'
  BY <1>1, <1>3, <1>4, <1>5, <1>6, OneConnection, Zenon
<1> QED BY <1>7, SameRest, SameFlags DEF Answer

LEMMA RequestChainStep ==
  ASSUME NEW D, NodeInv(D), RestInv(D), NEW p \in Peers, handle_request_chain(p)
  PROVE  NodeInv(D)' /\ RestInv(D)'
<1> DEFINE x == context[p]
           q == Head(requests[p])
           top == peer[p].top
           m1 == find_blockchain_supplement(top, q.ids)
           m2 == [type |-> "chain", start |-> 0, total |-> 1, ids |-> <<Genesis>>]
           h == p \in Trusted(D)
<1>1. /\ x \in Contexts /\ requests[p] \in Seq(Requests) /\ inbox[p] \in Seq(Messages)
      /\ Conn(D, core, x, requests[p], inbox[p], p \in Trusted(D)) /\ core \in Cores(D)
      /\ OnlyDirtyInvalid(D, core)
  BY Before1
<1>2. requests[p] # <<>> /\ q.type = "chain" /\ q = requests[p][1]
  BY <1>1 DEF handle_request_chain, Requested
<1>3. x.m_state = "synchronizing" /\ AskedForIds(core, x, requests[p], inbox[p])
  BY <1>1, <1>2, ConnFacts
<1>4. GoodHistory(core, q) /\ NoAnswer(inbox[p]) /\ x.callbacks = 0 /\ Bare(x)
  BY <1>2, <1>3 DEF AskedForIds
<1>5. top \in Blocks /\ (h => \A b \in Main(top) : b \in Blocks /\ Clean(D, b))
  BY HonestClean
<1>6. /\ m1 \in Messages /\ m1.type = "chain" /\ m1.ids \in Seq(Blocks) /\ m1.ids # <<>>
      /\ m1.ids[1] \in q.ids /\ m1.start + Len(m1.ids) <= m1.total
      /\ \A i \in 1..Len(m1.ids) : /\ m1.ids[i] \in Main(top)
                                   /\ i > 1 => /\ m1.ids[i] # Genesis
                                               /\ Prev(m1.ids[i]) = m1.ids[i - 1]
  BY <1>4, <1>5, SupplementFacts DEF GoodHistory
<1>7. m1.ids[1] \in Known(core)
  BY <1>4, <1>6 DEF GoodHistory
<1>8. GoodIds(D, core, m1, h)
  <2> HIDE DEF m1, top
  <2>1. ASSUME h PROVE Linked(D, core, {}, m1.ids)
    <3>1. \A i \in 1..Len(m1.ids) : Clean(D, m1.ids[i])
      BY <1>5, <1>6, <2>1
    <3> QED BY <1>1, <1>6, <1>7, <3>1, PieceLinked
  <2> QED BY <1>6, <1>7, <2>1 DEF GoodIds
<1>9. Genesis \in Blocks /\ Genesis \in Known(core) /\ Genesis \in Main(top)
  BY <1>1, <1>5, KnownFacts, MainFacts, SyncAssumption DEF Known
<1>10. m2 \in Messages /\ m2.type = "chain" /\ m2.ids = <<Genesis>> /\ m2.start = 0 /\ m2.total = 1
  BY <1>9 DEF Messages
<1>11. GoodIds(D, core, m2, h)
  <2> DEFINE ids == <<Genesis>>
  <2>1. ids \in Seq(Blocks) /\ ids # <<>> /\ Len(ids) = 1 /\ ids[1] = Genesis
    BY <1>9
  <2> HIDE DEF ids, m2, top
  <2>2. ASSUME h PROVE Linked(D, core, {}, ids)
    <3>1. \A i \in 1..Len(ids) : i = 1 /\ Clean(D, ids[i])
      BY <1>5, <1>9, <2>1, <2>2
    <3> QED BY <1>1, <1>9, <2>1, <3>1, PieceLinked
  <2>3. m2.ids = ids
    BY <1>10 DEF ids
  <2>4. m2.start + Len(m2.ids) <= m2.total
    <3>1. Len(m2.ids) = 1
      BY <2>1, <2>3, Zenon
    <3>2. m2.start = 0 /\ m2.total = 1
      BY <1>10
    <3>3. 0 + 1 <= 1
      OBVIOUS
    <3> QED BY <3>1, <3>2, <3>3, Zenon
  <2>5. m2.ids # <<>> /\ m2.ids[1] \in Known(core)
    BY <1>9, <2>1, <2>3
  <2> QED BY <2>2, <2>3, <2>4, <2>5 DEF GoodIds
<1> HIDE DEF m1, m2
<1>12. PICK m \in {m1, m2} : Answer(p, m)
  BY DEF handle_request_chain, m1, m2
<1>13. m \in Messages /\ m.type = "chain" /\ GoodIds(D, core, m, h)
  BY <1>6, <1>8, <1>10, <1>11, <1>12
<1> DEFINE in == Append(inbox[p], m)
<1>14. OnlyAnswer(in, Len(inbox[p]) + 1) /\ in[Len(inbox[p]) + 1] = m
  BY <1>1, <1>4, <1>13, AppendFacts DEF AnswerTypes
<1> HIDE DEF in, h
<1>15. IdsArrived(D, core, x, <<>>, in, h)
  <2>1. \E k : OnlyAnswer(in, k) /\ in[k].type = "chain" /\ GoodIds(D, core, in[k], h)
    BY <1>13, <1>14, Zenon
  <2> QED BY <1>4, <2>1, Zenon DEF IdsArrived
<1> QED BY <1>2, <1>3, <1>12, <1>13, <1>15, Answered DEF in, h, AnswerTypes
LEMMA RequestObjectsStep ==
  ASSUME NEW D, NodeInv(D), RestInv(D), NEW p \in Peers, handle_request_get_objects(p)
  PROVE  NodeInv(D)' /\ RestInv(D)'
<1> DEFINE x == context[p]
           q == Head(requests[p])
           top == peer[p].top
           r == OnlyIn(q.blocks, Main(top))
           m == [type |-> "objects", height |-> Height(top), blocks |-> r]
           h == p \in Trusted(D)
           in == Append(inbox[p], m)
<1>1. /\ x \in Contexts /\ requests[p] \in Seq(Requests) /\ inbox[p] \in Seq(Messages)
      /\ Conn(D, core, x, requests[p], inbox[p], p \in Trusted(D)) /\ core \in Cores(D)
  BY Before1
<1>2. requests[p] # <<>> /\ q.type = "objects" /\ q = requests[p][1]
  BY <1>1 DEF handle_request_get_objects, Requested
<1>3. x.m_state = "synchronizing" /\ AskedForBlocks(D, core, x, requests[p], inbox[p], h)
  BY <1>1, <1>2, ConnFacts
<1>4. /\ NoAnswer(inbox[p]) /\ x.callbacks = 0 /\ x.requested = ToSet(q.blocks)
      /\ h => Linked(D, core, {}, q.blocks) /\ Linked(D, core, x.requested, x.needed)
  BY <1>2, <1>3 DEF AskedForBlocks
<1>5. q \in Requests
  BY <1>1, <1>2
<1>6. q.blocks \in Seq(Blocks)
  BY <1>2, <1>5, RequestTypes
<1>7. top \in Blocks /\ Height(top) \in Nat
  BY HonestClean, HeightType
<1>8. Answer(p, m)
  BY DEF handle_request_get_objects
<1> HIDE DEF q, top
<1>9. r \in Seq(Blocks)
  BY <1>6, OnlyInPlaces
<1>10. ToSet(r) = x.requested => r = q.blocks
  <2>1. SUFFICES ASSUME ToSet(r) = ToSet(q.blocks) PROVE r = q.blocks
    BY <1>4
  <2>2. PICK e \in [1..Len(r) -> 1..Len(q.blocks)] :
           \A j \in 1..Len(r) : r[j] = q.blocks[e[j]] /\ q.blocks[e[j]] \in Main(top)
    BY <1>6, OnlyInPlaces
  <2>3. ASSUME NEW i \in 1..Len(q.blocks) PROVE q.blocks[i] \in Main(top)
    <3> DEFINE s == q.blocks
    <3>1. s[i] \in ToSet(s)
      BY <1>6 DEF ToSet
    <3>2. s[i] \in ToSet(r)
      BY <2>1, <3>1
    <3> HIDE DEF r, s
    <3>3. PICK j \in 1..Len(r) : s[i] = r[j]
      BY <1>9, <3>2 DEF ToSet
    <3>4. r[j] \in Main(top)
      BY <2>2, <3>3
    <3> QED BY <3>3, <3>4 DEF s
  <2> QED BY <1>6, <2>3, OnlyInAll
<1> HIDE DEF r
<1>11. m \in Messages /\ m.type = "objects" /\ m.blocks = r
  BY <1>7, <1>9 DEF Messages
<1> HIDE DEF m
<1>12. OnlyAnswer(in, Len(inbox[p]) + 1) /\ in[Len(inbox[p]) + 1] = m
  BY <1>1, <1>4, <1>11, AppendFacts DEF AnswerTypes
<1> HIDE DEF in, h
<1>13. h => /\ ToSet(m.blocks) = x.requested => Linked(D, core, {}, m.blocks)
            /\ Linked(D, core, x.requested, x.needed)
  BY <1>4, <1>10, <1>11
<1>14. BlocksArrived(D, core, x, <<>>, in, h)
  <2>1. \E k : /\ OnlyAnswer(in, k) /\ in[k].type = "objects"
               /\ h => /\ ToSet(in[k].blocks) = x.requested => Linked(D, core, {}, in[k].blocks)
                       /\ Linked(D, core, x.requested, x.needed)
    <3> DEFINE k == Len(inbox[p]) + 1
    <3> HIDE DEF k
    <3>1. OnlyAnswer(in, k) /\ in[k] = m
      BY <1>12 DEF k
    <3> QED BY <1>11, <1>13, <3>1, Zenon
  <2> QED BY <1>4, <2>1, Zenon DEF BlocksArrived
<1> QED BY <1>2, <1>3, <1>8, <1>11, <1>14, Answered DEF in, h, AnswerTypes

(* A message that is no answer is put into the inbox.                      *)
LEMMA Enqueued ==
  ASSUME NEW D, NodeInv(D), NEW p \in Peers, NEW m \in Messages, m.type \notin AnswerTypes,
         UNCHANGED <<core, context, requests>>,
         inbox' = [inbox EXCEPT ![p] = Append(inbox[p], m)]
  PROVE  NodeInv(D)'
<1> DEFINE x == context[p]
           rq == requests[p]
           in == Append(inbox[p], m)
<1>1. /\ x \in Contexts /\ rq \in Seq(Requests) /\ inbox[p] \in Seq(Messages)
      /\ Conn(D, core, x, rq, inbox[p], p \in Trusted(D))
      /\ context = [context EXCEPT ![p] = x] /\ requests = [requests EXCEPT ![p] = rq]
      /\ Extends(D, core, core)
  BY Before1
<1>2. in \in Seq(Messages) /\ SameAnswers(inbox[p], in)
  BY <1>1, AppendFacts
<1>3. SameWork(x, x)
  BY DEF SameWork
<1>4. /\ context' = [context EXCEPT ![p] = x] /\ requests' = [requests EXCEPT ![p] = rq]
      /\ inbox' = [inbox EXCEPT ![p] = in] /\ core' = core /\ Extends(D, core', core)
  BY <1>1
<1> HIDE DEF x, rq, in
<1>5. Conn(D, core, x, rq, in, p \in Trusted(D))
  BY <1>1, <1>2, <1>3, ConnSame, Zenon
<1>6. Conn(D, core', x, rq, in, p \in Trusted(D))
  BY <1>4, <1>5
<1> QED BY <1>1, <1>2, <1>4, <1>6, OneConnection, Zenon

LEMMA TimedSyncStep ==
  ASSUME NEW D, NodeInv(D), RestInv(D), NEW p \in Peers, timed_sync(p)
  PROVE  NodeInv(D)' /\ RestInv(D)'
<1> DEFINE m == Payload(p, FALSE)
<1>1. m \in Messages /\ m.type \notin AnswerTypes
  BY PayloadType DEF AnswerTypes
<1>2. inbox' = [inbox EXCEPT ![p] = Append(inbox[p], m)] /\ UNCHANGED <<core, context, requests>>
  BY DEF timed_sync
<1> HIDE DEF m
<1>3. NodeInv(D)'
  BY <1>1, <1>2, Enqueued
<1> QED BY <1>3, SameRest, SameFlags DEF timed_sync

LEMMA PeerAdoptStep ==
  ASSUME NEW D, NodeInv(D), RestInv(D), NEW p \in Peers, NEW b \in Blocks, PeerAdopt(p, b)
  PROVE  NodeInv(D)' /\ RestInv(D)'
<1> DEFINE m == [type |-> "new_block", block |-> b]
<1>1. m \in Messages /\ m.type \notin AnswerTypes
  BY DEF Messages, AnswerTypes
<1>2. UNCHANGED <<core, context, requests>>
  BY DEF PeerAdopt
<1>3. ASSUME inbox' = [inbox EXCEPT ![p] = Append(inbox[p], m)] PROVE NodeInv(D)'
  <2> HIDE DEF m
  <2> QED BY <1>1, <1>2, <1>3, Enqueued
<1>4. ASSUME UNCHANGED inbox PROVE NodeInv(D)'
  BY <1>2, <1>4, Before1, CoreGrows
<1>5. NodeInv(D)'
  BY <1>3, <1>4 DEF PeerAdopt
<1>6. peer' \in [Peers -> [top : Blocks, synced : BOOLEAN]]
  BY DEF PeerAdopt, RestInv
<1>7. PeerInv'
  <2>1. \A q \in Peers : peer'[q].top = IF q = p THEN b ELSE peer[q].top
    BY DEF PeerAdopt, RestInv
  <2> QED BY <2>1 DEF PeerAdopt, PeerInv, RestInv
<1>8. FlagTypes'
  BY SameFlags DEF PeerAdopt
<1> QED BY <1>5, <1>6, <1>7, <1>8 DEF RestInv, BanInv, bans, Blameless, PeerAdopt

LEMMA PeerSynchronizedStep ==
  ASSUME NEW D, NodeInv(D), RestInv(D), NEW p \in Peers, PeerSynchronized(p)
  PROVE  NodeInv(D)' /\ RestInv(D)'
<1>1. NodeInv(D)'
  BY Before1, CoreGrows DEF PeerSynchronized
<1>2. peer' \in [Peers -> [top : Blocks, synced : BOOLEAN]]
  BY DEF PeerSynchronized, RestInv
<1>3. PeerInv'
  <2>1. \A q \in Peers : peer'[q].top = peer[q].top
    BY DEF PeerSynchronized, RestInv
  <2> QED BY <2>1 DEF PeerInv, RestInv
<1>4. FlagTypes'
  BY SameFlags DEF PeerSynchronized
<1> QED BY <1>1, <1>2, <1>3, <1>4 DEF RestInv, BanInv, bans, Blameless, PeerSynchronized
-----------------------------------------------------------------------------
(***************************************************************************)
(* The answers reach the node.                                             *)
(***************************************************************************)

(* A failure point is for a peer that is not honest.                       *)
LEMMA Blamed ==
  ASSUME NEW D, RestInv(D), NEW p \in Peers, p \notin Trusted(D), add_ip_fail(p)
  PROVE  BanInv(D)'
<1>1. /\ FailsBeforBlock \in Nat /\ m_ip_fails_score \in [Peers -> 0..FailsBeforBlock]
      /\ m_blocked_ips \subseteq Peers /\ Blameless(D)
  BY SyncAssumption DEF RestInv, BanInv
<1>2. \A q \in Trusted(D) : q \in Peers /\ q # p
  BY DEF Trusted, Honest
<1>3. CASE m_ip_fails_score[p] + 1 > FailsBeforBlock
  <2> DEFINE n == FailsBeforBlock \div 2
  <2>1. /\ m_ip_fails_score' = [m_ip_fails_score EXCEPT ![p] = n]
        /\ m_blocked_ips' = m_blocked_ips \cup {p}
    BY <1>3 DEF add_ip_fail
  <2>2. n \in 0..FailsBeforBlock
    BY <1>1
  <2> HIDE DEF n
  <2>3. m_ip_fails_score' \in [Peers -> 0..FailsBeforBlock]
    BY <1>1, <2>1, <2>2
  <2>4. Blameless(D)'
    BY <1>1, <1>2, <2>1 DEF Blameless
  <2> QED BY <1>1, <2>1, <2>3, <2>4 DEF BanInv
<1>4. CASE ~(m_ip_fails_score[p] + 1 > FailsBeforBlock)
  <2> DEFINE n == m_ip_fails_score[p] + 1
  <2>1. /\ m_ip_fails_score' = [m_ip_fails_score EXCEPT ![p] = n]
        /\ m_blocked_ips' = m_blocked_ips
    BY <1>4 DEF add_ip_fail
  <2>2. n \in 0..FailsBeforBlock
    BY <1>1, <1>4
  <2> HIDE DEF n
  <2>3. m_ip_fails_score' \in [Peers -> 0..FailsBeforBlock]
    BY <1>1, <2>1, <2>2
  <2>4. Blameless(D)'
    BY <1>1, <1>2, <2>1 DEF Blameless
  <2> QED BY <1>1, <2>1, <2>3, <2>4 DEF BanInv
<1> QED BY <1>3, <1>4

(* What the next request leaves the connection in, ctx being its context   *)
(* with nothing requested.                                                 *)
LEMMA Requested1 ==
  ASSUME NEW D, NEW c \in Cores(D), OnlyDirtyInvalid(D, c), NEW ctx \in Contexts, ctx.requested = {},
         ctx.m_state = "synchronizing", ctx.callbacks = 0, NEW check \in BOOLEAN,
         NEW in, NoAnswer(in), NEW h, h => Linked(D, c, {}, ctx.needed)
  PROVE  LET r == request_missing_objects(ctx, c, check) IN
         /\ r.ctx \in Contexts /\ r.out \in Seq(Requests)
         /\ Conn(D, c, r.ctx, r.out, in, h)
<1> DEFINE r == request_missing_objects(ctx, c, check)
           a == Asked(ctx, c, check)
           x == r.ctx
           out == r.out
<1>1. /\ x \in Contexts /\ x.callbacks = 0
      /\ \/ /\ ctx.needed # <<>>
            /\ out = <<[type |-> "objects", blocks |-> a.blocks]>>
            /\ x.m_state = "synchronizing"
            /\ x.requested = ToSet(a.blocks) /\ x.needed = a.rest
         \/ ctx.needed = <<>> /\ x = ctx /\ out = <<ChainRequest(c)>>
         \/ ctx.needed = <<>> /\ out = <<>> /\ x.requested = {} /\ x.needed = <<>>
  BY RequestFacts
<1>2. ctx.needed \in Seq(Blocks)
  BY DEF Contexts
<1>3. ctx.needed # <<>> => /\ a.blocks \in Seq(Blocks)
                           /\ h => Linked(D, c, {}, a.blocks) /\ Linked(D, c, ToSet(a.blocks), a.rest)
  BY <1>2, AskedFacts
<1> HIDE DEF r, a, x, out
<1>4. CASE /\ ctx.needed # <<>>
           /\ out = <<[type |-> "objects", blocks |-> a.blocks]>>
           /\ x.m_state = "synchronizing"
           /\ x.requested = ToSet(a.blocks) /\ x.needed = a.rest
  <2> DEFINE q == [type |-> "objects", blocks |-> a.blocks]
  <2>1. q \in Requests /\ q.type = "objects" /\ q.blocks = a.blocks
    BY <1>3, <1>4 DEF Requests
  <2>2. out = <<q>>
    BY <1>4
  <2> HIDE DEF q
  <2>3. out \in Seq(Requests) /\ Len(out) = 1 /\ out[1] = q
    BY <2>1, <2>2
  <2>4. AskedForBlocks(D, c, x, out, in, h)
    BY <1>1, <1>3, <1>4, <2>1, <2>3 DEF AskedForBlocks
  <2> QED BY <1>1, <1>4, <2>3, <2>4 DEF Conn, x, out, r
<1>5. CASE ctx.needed = <<>> /\ x = ctx /\ out = <<ChainRequest(c)>>
  <2> DEFINE q == ChainRequest(c)
  <2>1. q \in Requests /\ q.type = "chain" /\ GoodHistory(c, q)
    BY HistoryFacts DEF GoodHistory
  <2>2. out = <<q>>
    BY <1>5
  <2> HIDE DEF q
  <2>3. out \in Seq(Requests) /\ Len(out) = 1 /\ out[1] = q
    BY <2>1, <2>2
  <2>4. AskedForIds(c, x, out, in)
    BY <1>1, <1>5, <2>1, <2>3 DEF AskedForIds, Bare
  <2> QED BY <1>1, <1>5, <2>3, <2>4 DEF Conn, x, out, r
<1>6. CASE ctx.needed = <<>> /\ out = <<>> /\ x.requested = {} /\ x.needed = <<>>
  <2>1. Quiet(x, out, in)
    BY <1>1, <1>6 DEF Quiet, Bare
  <2>2. out \in Seq(Requests)
    BY <1>6
  <2> QED BY <1>1, <2>1, <2>2 DEF Conn, x, out, r
<1> QED BY <1>1, <1>4, <1>5, <1>6
(* An answer that is next in the inbox is the one under way.               *)
LEMMA AnswerNext ==
  ASSUME NEW D, NodeInv(D), NEW p \in Peers, NEW t \in AnswerTypes, Received(p, t)
  PROVE  LET x == context[p]
             m == Head(inbox[p])
             h == p \in Trusted(D)
         IN /\ m \in Messages /\ m.type = t /\ inbox[p] # <<>> /\ NoAnswer(Tail(inbox[p]))
            /\ x \in Contexts /\ x.m_state = "synchronizing" /\ x.callbacks = 0
            /\ requests[p] = <<>>
            /\ t = "chain" => Bare(x) /\ GoodIds(D, core, m, h)
            /\ t = "objects" =>
                 (h => /\ ToSet(m.blocks) = x.requested => Linked(D, core, {}, m.blocks)
                       /\ Linked(D, core, x.requested, x.needed))
<1> DEFINE x == context[p]
           m == Head(inbox[p])
           in == inbox[p]
           rq == requests[p]
           h == p \in Trusted(D)
<1>1. in \in Seq(Messages) /\ in # <<>> /\ m \in Messages /\ m.type = t /\ m = in[1]
  BY ReceivedFacts
<1>2. x \in Contexts /\ Conn(D, core, x, rq, in, h)
  BY Before1
<1> HIDE DEF x, m, in, rq, h
<1>3. ~NoAnswer(in)
  <2>1. 1 \in 1..Len(in)
    BY <1>1
  <2> QED BY <1>1, <2>1 DEF NoAnswer
<1>4. /\ x.m_state = "synchronizing"
      /\ IdsArrived(D, core, x, rq, in, h) \/ BlocksArrived(D, core, x, rq, in, h)
  BY <1>2, <1>3, ConnFacts
<1>5. x.callbacks = 0 /\ rq = <<>>
  BY <1>4 DEF IdsArrived, BlocksArrived
<1>6. \A k : OnlyAnswer(in, k) => k = 1 /\ NoAnswer(Tail(in))
  BY <1>1, TailFacts
<1>7. CASE IdsArrived(D, core, x, rq, in, h)
  <2>1. PICK k : OnlyAnswer(in, k) /\ in[k].type = "chain" /\ GoodIds(D, core, in[k], h)
    BY <1>7 DEF IdsArrived
  <2>2. in[k] = m /\ NoAnswer(Tail(in)) /\ Bare(x)
    BY <1>1, <1>6, <1>7, <2>1 DEF IdsArrived
  <2>3. t = "chain" /\ GoodIds(D, core, m, h)
    BY <1>1, <2>1, <2>2
  <2> QED BY <1>1, <1>2, <1>4, <1>5, <2>2, <2>3 DEF x, m, in, rq, h
<1>8. CASE BlocksArrived(D, core, x, rq, in, h)
  <2>1. PICK k : /\ OnlyAnswer(in, k) /\ in[k].type = "objects"
                 /\ h => /\ ToSet(in[k].blocks) = x.requested => Linked(D, core, {}, in[k].blocks)
                         /\ Linked(D, core, x.requested, x.needed)
    BY <1>8 DEF BlocksArrived
  <2>2. in[k] = m /\ NoAnswer(Tail(in))
    BY <1>1, <1>6, <2>1
  <2>3. t = "objects" /\ (h => /\ ToSet(m.blocks) = x.requested => Linked(D, core, {}, m.blocks)
                               /\ Linked(D, core, x.requested, x.needed))
    BY <1>1, <2>1, <2>2
  <2> QED BY <1>1, <1>2, <1>4, <1>5, <2>2, <2>3 DEF x, m, in, rq, h
<1> QED BY <1>4, <1>7, <1>8

LEMMA ChainEntryStep ==
  ASSUME NEW D, NodeInv(D), RestInv(D), NEW p \in Peers, handle_response_chain_entry(p)
  PROVE  NodeInv(D)' /\ RestInv(D)'
<1> DEFINE m == Head(inbox[p])
           x == context[p]
           h == p \in Trusted(D)
           in == Tail(inbox[p])
           last == m.start + Len(m.ids) - 1
           unknown == {b \in ToSet(m.ids) : ~have_block(core, b)}
           new == OnlyIn(m.ids, unknown)
           ctx == [x EXCEPT !.remote_height = m.total, !.last_response = last,
                            !.needed = @ \o new]
           r == request_missing_objects(ctx, core, FALSE)
<1>0. core \in Cores(D) /\ OnlyDirtyInvalid(D, core) /\ Extends(D, core, core)
  BY Before1
<1>1. /\ m \in Messages /\ m.type = "chain" /\ inbox[p] # <<>> /\ NoAnswer(in)
      /\ x \in Contexts /\ x.m_state = "synchronizing" /\ x.callbacks = 0
      /\ requests[p] = <<>> /\ Bare(x) /\ GoodIds(D, core, m, h)
  BY AnswerNext DEF handle_response_chain_entry, AnswerTypes
<1>2. m.start \in Nat /\ m.total \in Nat /\ m.ids \in Seq(Blocks)
  BY <1>1, MessageFacts
<1>3. m.ids # <<>> /\ m.ids[1] \notin unknown
  BY <1>0, <1>1, KnownFacts DEF GoodIds
<1>4. \/ drop_connection(p) \/ Finish(p, r.ctx, r.out)
  BY <1>3, Zenon DEF handle_response_chain_entry
<1>5. UNCHANGED bans
  BY <1>3 DEF handle_response_chain_entry
<1>6. core' = core
  BY DEF handle_response_chain_entry
<1>7. RestInv(D)'
  BY <1>5, SameRest, SameFlags DEF handle_response_chain_entry
<1> HIDE DEF m, x, h
<1>8. new \in Seq(Blocks)
  BY <1>2, OnlyInPlaces
<1>9. h => Linked(D, core, {}, new)
  <2>1. SUFFICES ASSUME h PROVE Linked(D, core, {}, new)
    OBVIOUS
  <2>2. Linked(D, core, {}, m.ids)
    BY <1>1, <2>1 DEF GoodIds
  <2>3. \A i \in 1..Len(m.ids) : m.ids[i] \in unknown \/ m.ids[i] \in Known(core)
    BY <1>0, <1>2, KnownFacts DEF ToSet
  <2> HIDE DEF unknown
  <2> QED BY <1>0, <1>2, <2>2, <2>3, OnlyInLinked
<1>10. last \in Nat
  BY <1>2, <1>3
<1> HIDE DEF last, new
<1>11. x.needed = <<>> /\ x.requested = {} /\ x.needed \o new = new
  BY <1>1, <1>8 DEF Bare
<1>12. ctx = [x EXCEPT !.remote_height = m.total, !.last_response = last, !.needed = new]
  BY <1>11
<1> HIDE DEF ctx
<1>13. /\ ctx \in Contexts /\ ctx.requested = {} /\ ctx.m_state = "synchronizing"
       /\ ctx.callbacks = 0 /\ ctx.needed = new
  BY <1>1, <1>2, <1>8, <1>10, <1>11, <1>12 DEF Contexts
<1>14. ASSUME drop_connection(p) PROVE NodeInv(D)'
  BY <1>0, <1>6, <1>14, Dropped
<1>15. ASSUME Finish(p, r.ctx, r.out) PROVE NodeInv(D)'
  <2>1. /\ r.ctx \in Contexts /\ r.out \in Seq(Requests)
        /\ Conn(D, core, r.ctx, r.out, in, h)
    BY <1>0, <1>1, <1>9, <1>13, Requested1
  <2> HIDE DEF r
  <2>2. Conn(D, core', r.ctx, r.out, in, p \in Trusted(D))
    BY <1>6, <2>1 DEF h
  <2> QED BY <1>0, <1>1, <1>6, <1>15, <2>1, <2>2, FinishedQuiet
<1> QED BY <1>4, <1>7, <1>14, <1>15
(* The needed blocks follow once the requested ones are in a chain.        *)
LEMMA LinkedNext ==
  ASSUME NEW D, NEW c \in Cores(D), NEW d, Extends(D, d, c), NEW S, NEW s \in Seq(Blocks), Linked(D, c, S, s),
         S \subseteq InChain(d)
  PROVE  Linked(D, d, {}, s)
<1>1. Linked(D, d, S, s)
  BY LinkedStable
<1>2. \A i \in 1..Len(s) : InChain(d) \cup S \cup Before(s, i) = InChain(d) \cup {} \cup Before(s, i)
  OBVIOUS
<1> QED BY <1>1, <1>2 DEF Linked

LEMMA BatchTaken ==
  ASSUME NEW D, NodeInv(D), core'.spoilt \subseteq D, NEW p \in Peers,
         NEW c \in WithTxsOf(p, core), NEW blocks \in Seq(Blocks),
         core' = handle_batch(c, blocks).core
  PROVE  /\ c \in Cores(D) /\ Extends(D, c, core) /\ OnlyDirtyInvalid(D, c)
         /\ p \in Honest => c = core
<1>1. core \in Cores(D) /\ OnlyDirtyInvalid(D, core)
  BY DEF NodeInv
<1>2. c \in Cores(Blocks) /\ (p \in Honest => c = core)
  BY <1>1, WithTxsFacts
<1>3. Extends(Blocks, core', c)
  BY <1>2, HandleBatch
<1>4. c \in Cores(D) /\ Extends(D, c, core)
  BY <1>1, <1>3, TxsTaken
<1> QED BY <1>1, <1>2, <1>4 DEF Extends

LEMMA ObjectsStep ==
  ASSUME NEW D, NodeInv(D), RestInv(D), core'.spoilt \subseteq D, NEW p \in Peers,
         handle_response_get_objects(p)
  PROVE  NodeInv(D)' /\ RestInv(D)'
<1> DEFINE m == Head(inbox[p])
           x == context[p]
           h == p \in Trusted(D)
           in == Tail(inbox[p])
           ctx == [x EXCEPT !.remote_height = m.height]
           verdict == Prevalidation(ctx, m.blocks)
           bare == [ctx EXCEPT !.requested = {}]
           V(c) == handle_batch(c, m.blocks)
           R(c) == request_missing_objects(bare, V(c).core, TRUE)
           Handled(c) ==
             /\ verdict = "handle" /\ core' = V(c).core
             /\ IF V(c).result \in Failures THEN drop_connection(p)
                                            ELSE Finish(p, R(c).ctx, R(c).out)
             /\ IF V(c).result \in {"failed", "orphaned"} THEN add_ip_fail(p) ELSE UNCHANGED bans
             /\ UNCHANGED m_want_stop
           Cut == /\ \E done \in 0..(Len(m.blocks) - 1), c \in WithTxsOf(p, core) :
                       core' = handle_batch(c, SubSeq(m.blocks, 1, done)).core
                  /\ m_want_stop' = TRUE /\ drop_connection(p) /\ UNCHANGED bans
<1>0. core \in Cores(D) /\ OnlyDirtyInvalid(D, core) /\ Extends(D, core, core)
  BY Before1
<1>1. /\ m \in Messages /\ m.type = "objects" /\ inbox[p] # <<>> /\ NoAnswer(in)
      /\ x \in Contexts /\ x.m_state = "synchronizing" /\ x.callbacks = 0
      /\ requests[p] = <<>>
      /\ h => /\ ToSet(m.blocks) = x.requested => Linked(D, core, {}, m.blocks)
              /\ Linked(D, core, x.requested, x.needed)
  BY AnswerNext DEF handle_response_get_objects, AnswerTypes
<1>2. m.blocks \in Seq(Blocks) /\ m.height \in Nat
  BY <1>1, MessageFacts
<1>3. \/ drop_connection(p) /\ UNCHANGED <<core, m_want_stop, bans>>
      \/ Finish(p, SetIdle(ctx), <<>>) /\ UNCHANGED <<core, m_want_stop, bans>>
      \/ \E c \in WithTxsOf(p, core) : Handled(c)
      \/ Cut
  BY Zenon DEF handle_response_get_objects
<1>4. UNCHANGED <<peer, m_synchronized, m_been_synchronized, connects>>
  BY DEF handle_response_get_objects
<1>5. ASSUME BanInv(D)', m_want_stop' \in BOOLEAN PROVE RestInv(D)'
  <2>1. FlagTypes'
    BY <1>4, <1>5 DEF RestInv, FlagTypes
  <2> QED BY <1>4, <1>5, <2>1 DEF RestInv, PeerInv
<1>6. UNCHANGED bans => BanInv(D)'
  BY DEF RestInv, BanInv, bans, Blameless
<1>7. m_want_stop \in BOOLEAN
  BY DEF RestInv, FlagTypes
<1> HIDE DEF m, x, h
<1>8. /\ ctx \in Contexts /\ ctx.requested = x.requested /\ ctx.needed = x.needed
      /\ ctx.m_state = "synchronizing" /\ ctx.callbacks = 0
  BY <1>1, <1>2 DEF Contexts
<1> HIDE DEF ctx
<1>9. CASE drop_connection(p) /\ UNCHANGED <<core, m_want_stop, bans>>
  <2>1. NodeInv(D)'
    BY <1>0, <1>9, Dropped
  <2> QED BY <2>1, <1>5, <1>6, <1>7, <1>9
<1>10. CASE Finish(p, SetIdle(ctx), <<>>) /\ UNCHANGED <<core, m_want_stop, bans>>
  <2> DEFINE y == SetIdle(ctx)
  <2>1. y \in Contexts /\ y.requested = {} /\ y.needed = <<>> /\ y.callbacks = 0
    <3> DEFINE n == <<>>
               s == {}
    <3>1. n \in Seq(Blocks) /\ s \in SUBSET Blocks
      OBVIOUS
    <3>2. y = [ctx EXCEPT !.m_state = "idle", !.needed = n, !.requested = s]
      BY DEF SetIdle
    <3> HIDE DEF y, n, s
    <3>3. y \in Contexts /\ y.requested = s /\ y.needed = n /\ y.callbacks = 0
      BY <1>8, <3>1, <3>2 DEF Contexts, States
    <3> QED BY <3>3 DEF n, s
  <2>2. Finish(p, y, <<>>) /\ Extends(D, core', core)
    BY <1>0, <1>10
  <2> HIDE DEF y
  <2>3. Quiet(y, <<>>, in)
    BY <1>1, <2>1 DEF Quiet, Bare
  <2>4. Conn(D, core', y, <<>>, in, p \in Trusted(D)) /\ <<>> \in Seq(Requests)
    BY <2>3 DEF Conn
  <2>5. NodeInv(D)'
    BY <1>1, <2>1, <2>2, <2>4, FinishedQuiet
  <2> QED BY <2>5, <1>5, <1>6, <1>7, <1>10
<1>11. CASE \E c \in WithTxsOf(p, core) : Handled(c)
  <2>0. PICK c \in WithTxsOf(p, core) : Handled(c)
    BY <1>11
  <2> DEFINE v == V(c)
             r == request_missing_objects(bare, v.core, TRUE)
  <2>h. /\ verdict = "handle" /\ core' = v.core
        /\ IF v.result \in Failures THEN drop_connection(p) ELSE Finish(p, r.ctx, r.out)
        /\ IF v.result \in {"failed", "orphaned"} THEN add_ip_fail(p) ELSE UNCHANGED bans
        /\ UNCHANGED m_want_stop
    BY <2>0
  <2>c. /\ c \in Cores(D) /\ Extends(D, c, core) /\ OnlyDirtyInvalid(D, c)
        /\ h => c = core
    BY <1>0, <1>2, <2>h, BatchTaken DEF h, Trusted
  <2>1. ToSet(m.blocks) = x.requested
    BY <1>8, <2>h DEF Prevalidation
  <2>a. /\ Extends(D, v.core, c) /\ v.result \in Results
        /\ Linked(D, c, {}, m.blocks)
             => /\ v.result \notin {"failed", "orphaned"}
                /\ v.result \notin Failures
                     => \A i \in 1..Len(m.blocks) : m.blocks[i] \in InChain(v.core)
    BY <1>2, <2>c, HandleBatch
  <2>2. /\ Extends(D, v.core, core) /\ v.result \in Results
        /\ h /\ Linked(D, core, {}, m.blocks)
             => /\ v.result \notin {"failed", "orphaned"}
                /\ v.result \notin Failures
                     => \A i \in 1..Len(m.blocks) : m.blocks[i] \in InChain(v.core)
    BY <2>a, <2>c, ExtendsTrans
  <2>3. v.core \in Cores(D) /\ OnlyDirtyInvalid(D, v.core)
    BY <1>0, <2>2 DEF Extends
  <2> HIDE DEF v
  <2>4. BanInv(D)'
    <3>1. CASE v.result \in {"failed", "orphaned"}
      <4>1. p \notin Trusted(D)
        BY <1>1, <2>1, <2>2, <3>1 DEF h
      <4> QED BY <2>h, <3>1, <4>1, Blamed
    <3>2. CASE v.result \notin {"failed", "orphaned"}
      BY <1>6, <2>h, <3>2
    <3> QED BY <3>1, <3>2
  <2>5. CASE v.result \in Failures
    <3>1. NodeInv(D)'
      BY <2>h, <2>2, <2>5, Dropped
    <3> QED BY <3>1, <2>4, <1>5, <1>7, <2>h
  <2>6. CASE v.result \notin Failures
    <3>1. /\ bare \in Contexts /\ bare.requested = {} /\ bare.m_state = "synchronizing"
          /\ bare.callbacks = 0 /\ bare.needed = x.needed
      BY <1>8 DEF Contexts
    <3>2. x.needed \in Seq(Blocks)
      BY <1>1 DEF Contexts
    <3>3. h => Linked(D, v.core, {}, x.needed)
      <4>1. SUFFICES ASSUME h PROVE Linked(D, v.core, {}, x.needed)
        OBVIOUS
      <4>2. \A i \in 1..Len(m.blocks) : m.blocks[i] \in InChain(v.core)
        BY <1>1, <2>1, <2>2, <2>6, <4>1
      <4>3. ToSet(m.blocks) \subseteq InChain(v.core)
        BY <1>2, <4>2 DEF ToSet
      <4>4. x.requested \subseteq InChain(v.core) /\ Linked(D, core, x.requested, x.needed)
        BY <1>1, <2>1, <4>1, <4>3
      <4> QED BY <1>0, <2>2, <3>2, <4>4, LinkedNext
    <3> HIDE DEF bare
    <3>4. /\ r.ctx \in Contexts /\ r.out \in Seq(Requests)
          /\ Conn(D, v.core, r.ctx, r.out, in, h)
      BY <1>1, <2>3, <3>1, <3>3, Requested1
    <3> HIDE DEF r
    <3>5. Conn(D, core', r.ctx, r.out, in, p \in Trusted(D)) /\ Extends(D, core', core)
      BY <2>h, <2>2, <3>4 DEF h
    <3>6. NodeInv(D)'
      BY <1>1, <2>h, <2>6, <3>4, <3>5, FinishedQuiet
    <3> QED BY <3>6, <2>4, <1>5, <1>7, <2>h
  <2> QED BY <2>5, <2>6
<1>12. CASE Cut
  <2>1. PICK done \in 0..(Len(m.blocks) - 1), c \in WithTxsOf(p, core) :
             core' = handle_batch(c, SubSeq(m.blocks, 1, done)).core
    BY <1>12
  <2> DEFINE part == SubSeq(m.blocks, 1, done)
  <2>2. part \in Seq(Blocks)
    BY <1>2, <2>1
  <2>3. Extends(D, core', core)
    <3>1. core' = handle_batch(c, part).core
      BY <2>1
    <3> HIDE DEF part
    <3>2. c \in Cores(D) /\ Extends(D, c, core)
      BY <1>0, <2>2, <3>1, BatchTaken
    <3>3. Extends(D, handle_batch(c, part).core, c)
      BY <2>2, <3>2, HandleBatch
    <3> QED BY <3>1, <3>2, <3>3, ExtendsTrans
  <2>4. NodeInv(D)'
    BY <1>12, <2>3, Dropped
  <2> QED BY <2>4, <1>5, <1>6, <1>12
<1> QED BY <1>3, <1>9, <1>10, <1>11, <1>12

-----------------------------------------------------------------------------
LEMMA InitSync ==
  ASSUME NEW D, Init PROVE NodeInv(D) /\ RestInv(D)
<1>1. core \in Cores(D) /\ OnlyDirtyInvalid(D, core)
  BY SyncAssumption DEF Init, Cores, OnlyDirtyInvalid
<1>2. Closed \in Contexts /\ Quiet(Closed, <<>>, <<>>)
  BY DEF Closed, Contexts, States, Quiet, Bare, NoAnswer
<1>3. /\ context \in [Peers -> Contexts] /\ requests \in [Peers -> Seq(Requests)]
      /\ inbox \in [Peers -> Seq(Messages)]
  BY <1>2 DEF Init
<1>4. ConnInv(D)
  BY <1>2, Zenon DEF Init, ConnInv, Conn
<1>5. peer \in [Peers -> [top : Blocks, synced : BOOLEAN]] /\ PeerInv
  BY SyncAssumption DEF Init, PeerInv
<1>6. FlagTypes
  <2>1. ExplicitOnline \in BOOLEAN
    BY SyncAssumption
  <2>2. m_synchronized = FALSE /\ m_been_synchronized = ExplicitOnline /\ m_want_stop = FALSE
    BY DEF Init
  <2> QED BY <2>1, <2>2, Zenon DEF FlagTypes
<1>7. BanInv(D)
  BY SyncAssumption DEF Init, BanInv, Blameless, Trusted, Honest
<1>8. connects \in [Peers -> Nat]
  BY SyncAssumption DEF Init
<1> QED BY <1>1, <1>3, <1>4, <1>5, <1>6, <1>7, <1>8 DEF NodeInv, RestInv

LEMMA StutterSync ==
  ASSUME NEW D, NodeInv(D), RestInv(D), UNCHANGED vars PROVE NodeInv(D)' /\ RestInv(D)'
<1>1. NodeInv(D)'
  <2>1. Extends(D, core', core)
    BY ExtendsRefl DEF vars, NodeInv
  <2> QED BY <2>1, CoreGrows DEF vars
<1>2. FlagTypes'
  BY SameFlags DEF vars, flags
<1> QED BY <1>1, <1>2, SameRest DEF vars, bans

(* Every step keeps the invariant, one step per action.                    *)
LEMMA NextSync ==
  ASSUME NEW D, NodeInv(D), RestInv(D), core'.spoilt \subseteq D, [Next]_vars
  PROVE  NodeInv(D)' /\ RestInv(D)'
<1>1. ASSUME NEW p \in Peers, Connect(p) PROVE NodeInv(D)' /\ RestInv(D)'
  BY <1>1, ConnectStep
<1>2. ASSUME NEW p \in Peers, Disconnect(p) PROVE NodeInv(D)' /\ RestInv(D)'
  BY <1>2, DisconnectStep
<1>3. ASSUME NEW p \in Peers, Unblock(p) PROVE NodeInv(D)' /\ RestInv(D)'
  BY <1>3, UnblockStep
<1>4. ASSUME NEW p \in Peers, Deliver(p) PROVE NodeInv(D)' /\ RestInv(D)'
  BY <1>4, PayloadStep, NewBlockStep, ChainEntryStep, ObjectsStep DEF Deliver
<1>5. ASSUME NEW p \in Peers, on_callback(p) PROVE NodeInv(D)' /\ RestInv(D)'
  BY <1>5, CallbackStep
<1>6. ASSUME NEW p \in Peers, Serve(p) PROVE NodeInv(D)' /\ RestInv(D)'
  BY <1>6, RequestChainStep, RequestObjectsStep DEF Serve
<1>7. ASSUME NEW p \in Peers, timed_sync(p) PROVE NodeInv(D)' /\ RestInv(D)'
  BY <1>7, TimedSyncStep
<1>8. ASSUME NEW p \in Peers, NEW b \in Blocks, PeerAdopt(p, b) PROVE NodeInv(D)' /\ RestInv(D)'
  BY <1>8, PeerAdoptStep
<1>9. ASSUME NEW p \in Peers, PeerSynchronized(p) PROVE NodeInv(D)' /\ RestInv(D)'
  BY <1>9, PeerSynchronizedStep
<1>10. ASSUME NEW b \in Found, handle_block_found(b) PROVE NodeInv(D)' /\ RestInv(D)'
  BY <1>10, BlockFoundStep
<1> QED BY <1>1, <1>2, <1>3, <1>4, <1>5, <1>6, <1>7, <1>8, <1>9, <1>10,
           IdleStep, StopStep, StutterSync DEF Next

(* What was spoilt stays so.                                               *)
LEMMA SpoiltGrows ==
  ASSUME NodeInv(Blocks), [Next]_vars
  PROVE  core.spoilt \subseteq core'.spoilt /\ core'.spoilt \subseteq Blocks
<1>0. core \in Cores(Blocks)
  BY DEF NodeInv
<1>1. core.spoilt \subseteq Blocks
  BY <1>0 DEF Cores
<1>2. ASSUME NEW p \in Peers, NEW c \in WithTxsOf(p, core), NEW bs \in Seq(Blocks),
             core' = handle_batch(c, bs).core
      PROVE  core.spoilt \subseteq core'.spoilt /\ core'.spoilt \subseteq Blocks
  <2>1. c \in Cores(Blocks)
    BY <1>0, <1>2, WithTxsFacts
  <2>2. c.spoilt \subseteq Blocks
    BY <2>1 DEF Cores
  <2>3. Extends(Blocks, c, core)
    BY <1>0, <1>2, <2>2, WithTxsFacts
  <2>4. Extends(Blocks, handle_batch(c, bs).core, c)
    BY <1>2, <2>1, HandleBatch
  <2>5. Extends(Blocks, core', core)
    BY <1>2, <2>3, <2>4, ExtendsTrans
  <2> QED BY <2>5 DEF Extends, Cores
<1>3. ASSUME NEW p \in Peers, NEW c \in WithTxsOf(p, core), NEW b \in Blocks,
             core' = handle_entry(c, b).core
      PROVE  core.spoilt \subseteq core'.spoilt /\ core'.spoilt \subseteq Blocks
  <2>1. c \in Cores(Blocks)
    BY <1>0, <1>3, WithTxsFacts
  <2>2. c.spoilt \subseteq Blocks
    BY <2>1 DEF Cores
  <2>3. Extends(Blocks, c, core)
    BY <1>0, <1>3, <2>2, WithTxsFacts
  <2>4. Extends(Blocks, handle_entry(c, b).core, c)
    BY <1>3, <2>1, HandleEntry
  <2>5. Extends(Blocks, core', core)
    BY <1>3, <2>3, <2>4, ExtendsTrans
  <2> QED BY <2>5 DEF Extends, Cores
<1>4. ASSUME NEW b \in Found, handle_block_found(b)
      PROVE  core.spoilt \subseteq core'.spoilt /\ core'.spoilt \subseteq Blocks
  <2>1. b \in Blocks /\ core' = add_new_block(core, b).core
    BY <1>4, SyncAssumption DEF handle_block_found
  <2>2. Extends(Blocks, core', core)
    BY <1>0, <2>1, AddNewBlock DEF Accepted
  <2> QED BY <2>2 DEF Extends, Cores
<1>5. ASSUME NEW p \in Peers, handle_notify_new_block(p)
      PROVE  core.spoilt \subseteq core'.spoilt /\ core'.spoilt \subseteq Blocks
  <2>1. \/ core' = core
        \/ \E c \in WithTxsOf(p, core) : core' = handle_entry(c, Head(inbox[p]).block).core
    BY <1>5, Zenon DEF handle_notify_new_block
  <2>2. Head(inbox[p]).block \in Blocks
    BY <1>5, ReceivedFacts, MessageFacts DEF handle_notify_new_block
  <2> QED BY <1>1, <1>3, <2>1, <2>2
<1>6. ASSUME NEW p \in Peers, handle_response_get_objects(p)
      PROVE  core.spoilt \subseteq core'.spoilt /\ core'.spoilt \subseteq Blocks
  <2> DEFINE m == Head(inbox[p])
  <2>1. m.blocks \in Seq(Blocks)
    BY <1>6, ReceivedFacts, MessageFacts DEF handle_response_get_objects
  <2>2. \/ core' = core
        \/ \E c \in WithTxsOf(p, core) : core' = handle_batch(c, m.blocks).core
        \/ \E done \in 0..(Len(m.blocks) - 1), c \in WithTxsOf(p, core) :
              core' = handle_batch(c, SubSeq(m.blocks, 1, done)).core
    BY <1>6, Zenon DEF handle_response_get_objects
  <2> HIDE DEF m
  <2>3. \A done \in 0..(Len(m.blocks) - 1) : SubSeq(m.blocks, 1, done) \in Seq(Blocks)
    BY <2>1
  <2> QED BY <1>1, <1>2, <2>1, <2>2, <2>3
<1>7. ASSUME core' = core
      PROVE  core.spoilt \subseteq core'.spoilt /\ core'.spoilt \subseteq Blocks
  BY <1>1, <1>7
<1>8. \/ core' = core
      \/ \E b \in Found : handle_block_found(b)
      \/ \E p \in Peers : handle_notify_new_block(p) \/ handle_response_get_objects(p)
  BY DEF Next, vars, Connect, Disconnect, Unblock, Deliver, process_payload_sync_data,
         handle_response_chain_entry, on_callback, Serve, handle_request_chain,
         handle_request_get_objects, Answer, timed_sync, PeerAdopt, PeerSynchronized, on_idle,
         set_want_stop
<1> QED BY <1>4, <1>5, <1>6, <1>7, <1>8

(***************************************************************************)
(* The types and the inductive invariant hold in every reachable state.    *)
(***************************************************************************)
THEOREM SyncInvariance == Spec => [](TypeOK /\ SyncInv)
<1>1. Init => TypeOK /\ SyncInv
  <2> SUFFICES ASSUME Init PROVE ForEveryD
    BY InvWhole
  <2>1. core.spoilt = {}
    BY DEF Init
  <2> QED BY <2>1, InitSync DEF ForEveryD
<1>2. TypeOK /\ SyncInv /\ [Next]_vars => (TypeOK /\ SyncInv)'
  <2> SUFFICES ASSUME TypeOK /\ SyncInv, [Next]_vars PROVE (TypeOK /\ SyncInv)'
    OBVIOUS
  <2>1. core.spoilt \subseteq Blocks
    BY DEF TypeOK
  <2>2. NodeInv(Blocks)
    BY <2>1, InvParts
  <2>3. core.spoilt \subseteq core'.spoilt /\ core'.spoilt \subseteq Blocks
    BY <2>2, SpoiltGrows
  <2>4. ASSUME NEW D \in SUBSET Blocks, core'.spoilt \subseteq D
        PROVE  NodeInv(D)' /\ RestInv(D)'
    <3>1. NodeInv(D) /\ RestInv(D)
      BY <2>3, <2>4, InvParts
    <3> QED BY <2>4, <3>1, NextSync
  <2>5. ForEveryD'
    BY <2>3, <2>4 DEF ForEveryD
  <2>6. ForEveryD' => (TypeOK /\ SyncInv)'
    BY InvWhole, PTL
  <2> QED BY <2>5, <2>6
<1> QED BY <1>1, <1>2, PTL DEF Spec

(***************************************************************************)
(* TypeOK holds in every reachable state.                                  *)
(***************************************************************************)
THEOREM SyncTypes == Spec => []TypeOK
<1>1. TypeOK /\ SyncInv => TypeOK
  OBVIOUS
<1> QED BY <1>1, SyncInvariance, PTL

(***************************************************************************)
(* A peer with a good chain gets no failure point while no block of that   *)
(* chain is spoilt and the chain is settled up to the checkpoint: an       *)
(* answer that passes the validation of handle_response_get_objects holds  *)
(* linked blocks, whatever the other connections have added since it was   *)
(* asked.                                                                  *)
(***************************************************************************)
THEOREM HonestBlameless == Spec => []HonestNeverBlamed
<1>1. TypeOK /\ SyncInv => HonestNeverBlamed
  <2> SUFFICES ASSUME TypeOK, SyncInv, CheckpointSettled, NEW p \in Honest,
                      ServedBlocks(p) \cap core.spoilt = {}
               PROVE  m_ip_fails_score[p] = 0 /\ p \notin m_blocked_ips
    BY DEF HonestNeverBlamed
  <2>1. core.spoilt \in SUBSET Blocks
    BY DEF TypeOK
  <2>2. Blameless(core.spoilt)
    BY <2>1 DEF SyncInv
  <2>3. p \in Trusted(core.spoilt)
    BY DEF Trusted
  <2> QED BY <2>2, <2>3 DEF Blameless
<1> QED BY <1>1, SyncInvariance, PTL

(***************************************************************************)
(* m_requested_objects is what the outstanding request asks for, and a     *)
(* connection that does not synchronize needs no objects.                  *)
(***************************************************************************)
THEOREM RequestsMatched == Spec => []RequestedIsOutstanding
<1>1. ASSUME TypeOK, SyncInv PROVE RequestedIsOutstanding
  <2> SUFFICES ASSUME NEW p \in Peers
               PROVE  /\ context[p].requested # {} =>
                           \/ \E i \in DOMAIN requests[p] :
                                /\ requests[p][i].type = "objects"
                                /\ ToSet(requests[p][i].blocks) = context[p].requested
                           \/ \E i \in DOMAIN inbox[p] : inbox[p][i].type = "objects"
                      /\ context[p].m_state # "synchronizing" => context[p].needed = <<>>
    BY DEF RequestedIsOutstanding
  <2> DEFINE x == context[p]
             rq == requests[p]
             in == inbox[p]
             h == p \in Trusted(Blocks)
  <2>1. /\ rq \in Seq(Requests) /\ in \in Seq(Messages) /\ Conn(Blocks, core, x, rq, in, h)
    <3>1. NodeInv(Blocks)
      BY <1>1, InvParts DEF TypeOK
    <3> QED BY <3>1, Before1
  <2> HIDE DEF x, rq, in, h
  <2>2. x.m_state # "synchronizing" => x.needed = <<>>
    BY <2>1, ConnFacts DEF Quiet, Bare
  <2>3. ASSUME x.requested # {}
        PROVE  AskedForBlocks(Blocks, core, x, rq, in, h) \/ BlocksArrived(Blocks, core, x, rq, in, h)
    BY <2>1, <2>3 DEF Conn, Quiet, Called, AskedForIds, IdsArrived, Bare
  <2>4. ASSUME AskedForBlocks(Blocks, core, x, rq, in, h)
        PROVE  \E i \in DOMAIN rq : rq[i].type = "objects" /\ ToSet(rq[i].blocks) = x.requested
    <3>1. 1 \in DOMAIN rq /\ rq[1].type = "objects" /\ ToSet(rq[1].blocks) = x.requested
      BY <2>1, <2>4 DEF AskedForBlocks
    <3> QED BY <3>1
  <2>5. ASSUME BlocksArrived(Blocks, core, x, rq, in, h)
        PROVE  \E i \in DOMAIN in : in[i].type = "objects"
    BY <2>1, <2>5 DEF BlocksArrived, OnlyAnswer
  <2> QED BY <2>2, <2>3, <2>4, <2>5 DEF x, rq, in
<1> QED BY <1>1, SyncInvariance, PTL

-----------------------------------------------------------------------------
(***************************************************************************)
(* What a synchronizing connection waits for.  Without a hypothesis it     *)
(* waits for one thing at most; it may wait for nothing when a peer has    *)
(* moved to a heavier chain that is shorter, since the height announced    *)
(* then lies below the ids already received ("final condition failed").    *)
(***************************************************************************)
NeverShorter ==
  \A p \in Peers : \A a, b \in Served[p] \cup {PeerStart[p]} :
    Work[b] > Work[a] => Height(b) >= Height(a)

Busy(x, rq, in) == x.m_state = "synchronizing" => ~Quiet(x, rq, in)

HeightsFit(x, in, top) ==
  /\ x.last_response + 1 <= Height(top)
  /\ \A i \in 1..Len(in) :
       /\ in[i].type = "chain" => in[i].total <= Height(top)
       /\ in[i].type = "objects" => x.last_response + 1 <= in[i].height

HeightInv ==
  \A p \in Peers : /\ HeightsFit(context[p], inbox[p], peer[p].top)
                   /\ Busy(context[p], requests[p], inbox[p])

(* One connection changes, and its peer's chain gets no shorter.           *)
LEMMA OneFits ==
  ASSUME NEW D, NodeInv(D), HeightInv, NEW p \in Peers, NEW x, NEW rq, NEW in,
         context' = [context EXCEPT ![p] = x],
         requests' = [requests EXCEPT ![p] = rq],
         inbox' = [inbox EXCEPT ![p] = in],
         \A q \in Peers : q # p => peer'[q].top = peer[q].top,
         HeightsFit(x, in, peer'[p].top), Busy(x, rq, in)
  PROVE  HeightInv'
<1> SUFFICES ASSUME NEW q \in Peers
             PROVE  /\ HeightsFit(context'[q], inbox'[q], peer'[q].top)
                    /\ Busy(context'[q], requests'[q], inbox'[q])
  BY DEF HeightInv
<1>1. CASE q = p
  <2>1. context'[q] = x /\ requests'[q] = rq /\ inbox'[q] = in
    BY <1>1 DEF NodeInv
  <2> QED BY <1>1, <2>1
<1>2. CASE q # p
  <2>1. context'[q] = context[q] /\ requests'[q] = requests[q] /\ inbox'[q] = inbox[q]
        /\ peer'[q].top = peer[q].top
    BY <1>2 DEF NodeInv
  <2> QED BY <2>1 DEF HeightInv
<1> QED BY <1>1, <1>2

(* No answer is in the inbox, or it is another queue with the same.        *)
LEMMA FitsQueues ==
  ASSUME NEW in \in Seq(Messages), NEW x, NEW y, NEW top, y.last_response = x.last_response,
         HeightsFit(x, in, top)
  PROVE  /\ in # <<>> => HeightsFit(y, Tail(in), top)
         /\ \A m \in Messages : m.type \notin AnswerTypes => HeightsFit(y, Append(in, m), top)
         /\ \A m \in Messages :
              m.type = "chain" /\ m.total <= Height(top) => HeightsFit(y, Append(in, m), top)
         /\ \A m \in Messages :
              m.type = "objects" /\ m.height = Height(top) => HeightsFit(y, Append(in, m), top)
<1> DEFINE n == Len(in)
           Fine(m) == /\ m.type = "chain" => m.total <= Height(top)
                      /\ m.type = "objects" => x.last_response + 1 <= m.height
<1>1. n \in Nat /\ x.last_response + 1 <= Height(top) /\ \A i \in 1..n : Fine(in[i])
  BY DEF HeightsFit
<1>2. in # <<>> => HeightsFit(y, Tail(in), top)
  <2> SUFFICES ASSUME in # <<>> PROVE HeightsFit(y, Tail(in), top)
    OBVIOUS
  <2> DEFINE t == Tail(in)
  <2>1. Len(t) = n - 1 /\ \A i \in 1..(n - 1) : t[i] = in[i + 1] /\ i + 1 \in 1..n
    OBVIOUS
  <2> HIDE DEF t, n, Fine
  <2>2. \A i \in 1..Len(t) : Fine(t[i])
    BY <1>1, <2>1
  <2> QED BY <1>1, <2>2 DEF HeightsFit, t, Fine
<1>3. ASSUME NEW m \in Messages, Fine(m) PROVE HeightsFit(y, Append(in, m), top)
  <2> DEFINE a == Append(in, m)
  <2>1. Len(a) = n + 1 /\ a[n + 1] = m /\ \A i \in 1..n : a[i] = in[i]
    OBVIOUS
  <2> HIDE DEF a, n, Fine
  <2>2. \A i \in 1..(n + 1) : i = n + 1 \/ i \in 1..n
    BY <1>1
  <2>3. \A i \in 1..Len(a) : Fine(a[i])
    BY <1>1, <1>3, <2>1, <2>2
  <2> QED BY <1>1, <2>3 DEF HeightsFit, a, Fine
<1>4. \A m \in Messages : m.type \notin AnswerTypes => Fine(m)
  BY DEF AnswerTypes
<1>5. \A m \in Messages : m.type = "chain" /\ m.total <= Height(top) => Fine(m)
  OBVIOUS
<1>6. \A m \in Messages : m.type = "objects" /\ m.height = Height(top) => Fine(m)
  BY <1>1
<1> HIDE DEF Fine
<1> QED BY <1>2, <1>3, <1>4, <1>5, <1>6
LEMMA BusyQueues ==
  ASSUME NEW in \in Seq(Messages), NEW x, NEW y, NEW rq, SameWork(x, y), Busy(x, rq, in)
  PROVE  /\ in # <<>> /\ Head(in).type \notin AnswerTypes => Busy(y, rq, Tail(in))
         /\ \A m \in Messages : Busy(y, rq, Append(in, m))
<1> DEFINE n == Len(in)
<1>1. n \in Nat
  OBVIOUS
<1>2. ASSUME NEW out, NoAnswer(out) => NoAnswer(in) PROVE Busy(y, rq, out)
  BY <1>2 DEF Busy, Quiet, Bare, SameWork
<1>3. ASSUME in # <<>>, Head(in).type \notin AnswerTypes, NoAnswer(Tail(in)) PROVE NoAnswer(in)
  <2> DEFINE t == Tail(in)
  <2>1. Len(t) = n - 1 /\ in[1] = Head(in) /\ \A i \in 1..(n - 1) : t[i] = in[i + 1]
    BY <1>3
  <2> HIDE DEF t, n
  <2>2. ASSUME NEW i \in 1..n PROVE in[i].type \notin AnswerTypes
    <3>1. CASE i = 1
      BY <1>3, <2>1, <3>1
    <3>2. CASE i # 1
      <4>1. i - 1 \in 1..(n - 1) /\ (i - 1) + 1 = i
        BY <1>1, <3>2
      <4>2. t[i - 1] = in[i] /\ t[i - 1].type \notin AnswerTypes
        BY <1>3, <2>1, <4>1 DEF NoAnswer, t
      <4> QED BY <4>2
    <3> QED BY <3>1, <3>2
  <2> QED BY <2>2 DEF NoAnswer, n
<1>4. ASSUME NEW m \in Messages, NoAnswer(Append(in, m)) PROVE NoAnswer(in)
  <2> DEFINE a == Append(in, m)
  <2>1. Len(a) = n + 1 /\ \A i \in 1..n : a[i] = in[i] /\ i \in 1..(n + 1)
    OBVIOUS
  <2>2. NoAnswer(a)
    BY <1>4
  <2> HIDE DEF a
  <2> QED BY <2>1, <2>2 DEF NoAnswer
<1> QED BY <1>2, <1>3, <1>4

LEMMA FitsFinished ==
  ASSUME NEW D, NodeInv(D), HeightInv, NEW p \in Peers, inbox[p] # <<>>, NEW y, NEW out,
         Finish(p, y, out), UNCHANGED peer, y.last_response = context[p].last_response,
         Busy(y, requests[p] \o out, Tail(inbox[p]))
  PROVE  HeightInv'
<1> DEFINE rq == requests[p] \o out
           in == Tail(inbox[p])
<1>1. HeightsFit(context[p], inbox[p], peer[p].top) /\ inbox[p] \in Seq(Messages)
  BY Before1 DEF HeightInv
<1>2. HeightsFit(y, in, peer[p].top)
  BY <1>1, FitsQueues
<1>3. HeightsFit(y, in, peer'[p].top) /\ \A q \in Peers : q # p => peer'[q].top = peer[q].top
  BY <1>2
<1>4. /\ context' = [context EXCEPT ![p] = y]
      /\ requests' = [requests EXCEPT ![p] = rq]
      /\ inbox' = [inbox EXCEPT ![p] = in]
      /\ Busy(y, rq, in)
  BY DEF Finish
<1> HIDE DEF rq, in
<1> QED BY <1>3, <1>4, OneFits, Zenon

LEMMA FitsFinishedSame ==
  ASSUME NEW D, NodeInv(D), HeightInv, NEW p \in Peers, inbox[p] # <<>>, NEW y,
         Finish(p, y, <<>>), UNCHANGED peer, y.last_response = context[p].last_response,
         SameWork(context[p], y), Head(inbox[p]).type \notin AnswerTypes
  PROVE  HeightInv'
<1>1. /\ inbox[p] \in Seq(Messages) /\ requests[p] \in Seq(Requests)
      /\ Busy(context[p], requests[p], inbox[p])
  BY Before1 DEF HeightInv
<1>2. Busy(y, requests[p], Tail(inbox[p]))
  BY <1>1, BusyQueues
<1>3. requests[p] \o <<>> = requests[p]
  BY <1>1
<1>4. Busy(y, requests[p] \o <<>>, Tail(inbox[p]))
  BY <1>2, <1>3
<1> QED BY <1>4, FitsFinished

LEMMA FitsDropped ==
  ASSUME NEW D, NodeInv(D), RestInv(D), HeightInv, NEW p \in Peers, drop_connection(p), UNCHANGED peer
  PROVE  HeightInv'
<1>1. peer[p].top \in Blocks /\ Height(peer[p].top) \in Nat \ {0}
  BY HonestClean, HeightType
<1>2. Closed.last_response = 0 /\ Closed.m_state = "closed"
  BY DEF Closed
<1>3. HeightsFit(Closed, <<>>, peer'[p].top)
  BY <1>1, <1>2 DEF HeightsFit
<1>4. Busy(Closed, <<>>, <<>>)
  BY <1>2 DEF Busy
<1> QED BY <1>3, <1>4, OneFits DEF drop_connection

(* What request_missing_objects leaves to wait for.                        *)
LEMMA BusyRequested ==
  ASSUME NEW D, NEW ctx \in Contexts, ctx.requested = {}, ctx.m_state = "synchronizing",
         NEW c \in Cores(D), NEW check \in BOOLEAN, ctx.last_response + 1 <= ctx.remote_height,
         NEW in
  PROVE  LET r == request_missing_objects(ctx, c, check) IN
         Busy(r.ctx, r.out, in) /\ r.ctx.last_response = ctx.last_response
<1> DEFINE r == request_missing_objects(ctx, c, check)
           a == Asked(ctx, c, check)
           x == r.ctx
           out == r.out
<1>1. ctx.last_response \in Nat /\ ctx.remote_height \in Nat
  BY DEF Contexts
<1>2. ctx.last_response <= ctx.remote_height - 1
  BY <1>1
<1>3. /\ x.last_response = ctx.last_response
      /\ \/ out = <<[type |-> "objects", blocks |-> a.blocks]>>
         \/ out = <<ChainRequest(c)>>
         \/ x.m_state = "normal"
  BY <1>2, RequestFacts
<1> HIDE DEF a, x, out
<1>4. out # <<>> \/ x.m_state = "normal"
  BY <1>3
<1>5. Busy(x, out, in)
  BY <1>4 DEF Busy, Quiet
<1> QED BY <1>3, <1>5 DEF x, out
LEMMA FitsConnect ==
  ASSUME NEW D, NodeInv(D), RestInv(D), HeightInv, NEW p \in Peers, Connect(p)
  PROVE  HeightInv'
<1> DEFINE x == [context[p] EXCEPT !.m_state = "befor_handshake"]
           m == Payload(p, TRUE)
           in == <<m>>
<1>1. /\ context[p] \in Contexts /\ requests = [requests EXCEPT ![p] = requests[p]]
      /\ context[p].last_response + 1 <= Height(peer[p].top)
  BY Before1 DEF HeightInv, HeightsFit
<1>2. x.last_response = context[p].last_response /\ x.m_state = "befor_handshake"
  BY <1>1 DEF Contexts
<1>3. m.type = "payload"
  BY PayloadType
<1>4. /\ context' = [context EXCEPT ![p] = x] /\ inbox' = [inbox EXCEPT ![p] = in]
      /\ requests' = [requests EXCEPT ![p] = requests[p]] /\ peer' = peer
  BY <1>1 DEF Connect
<1> HIDE DEF x, m
<1>5. Len(in) = 1 /\ in[1] = m
  OBVIOUS
<1> HIDE DEF in
<1>6. \A i \in 1..Len(in) : in[i].type = "payload"
  BY <1>3, <1>5
<1>7. HeightsFit(x, in, peer'[p].top)
  BY <1>1, <1>2, <1>4, <1>6 DEF HeightsFit
<1>8. Busy(x, requests[p], in)
  BY <1>2 DEF Busy
<1> QED BY <1>4, <1>7, <1>8, OneFits

LEMMA FitsPayload ==
  ASSUME NEW D, NodeInv(D), RestInv(D), HeightInv, NEW p \in Peers, process_payload_sync_data(p)
  PROVE  HeightInv'
<1> DEFINE m == Head(inbox[p])
           x == context[p]
           ctx == [x EXCEPT !.remote_height = m.height]
           y == [ctx EXCEPT !.m_state = "normal"]
           z == [ctx EXCEPT !.m_state = "synchronizing", !.callbacks = @ + 1]
<1>1. inbox[p] # <<>> /\ m.type = "payload" /\ x \in Contexts /\ requests[p] \in Seq(Requests)
      /\ peer' = peer
  BY ReceivedFacts, Before1 DEF process_payload_sync_data
<1>2. m.type \notin AnswerTypes
  BY <1>1 DEF AnswerTypes
<1>3. \/ drop_connection(p)
      \/ Finish(p, ctx, <<>>)
      \/ Finish(p, y, <<>>)
      \/ Finish(p, z, <<>>)
  BY Zenon DEF process_payload_sync_data
<1>4. ctx.last_response = x.last_response /\ SameWork(x, ctx)
  BY <1>1 DEF Contexts, SameWork
<1>5. y.last_response = x.last_response /\ y.m_state = "normal"
  BY <1>1 DEF Contexts
<1>6. z.last_response = x.last_response /\ z.callbacks = x.callbacks + 1
  BY <1>1 DEF Contexts
<1>7. x.callbacks \in Nat
  BY <1>1 DEF Contexts
<1>8. z.callbacks # 0
  BY <1>6, <1>7
<1> HIDE DEF ctx, y, z
<1>9. CASE drop_connection(p)
  BY <1>1, <1>9, FitsDropped
<1>10. CASE Finish(p, ctx, <<>>)
  BY <1>1, <1>2, <1>4, <1>10, FitsFinishedSame
<1>11. CASE Finish(p, y, <<>>)
  <2>1. Busy(y, requests[p] \o <<>>, Tail(inbox[p]))
    BY <1>5 DEF Busy
  <2> QED BY <1>1, <1>5, <1>11, <2>1, FitsFinished
<1>12. CASE Finish(p, z, <<>>)
  <2>1. Busy(z, requests[p] \o <<>>, Tail(inbox[p]))
    BY <1>8 DEF Busy, Quiet
  <2> QED BY <1>1, <1>6, <1>12, <2>1, FitsFinished
<1> QED BY <1>3, <1>9, <1>10, <1>11, <1>12

LEMMA FitsNewBlock ==
  ASSUME NEW D, NodeInv(D), RestInv(D), HeightInv, NEW p \in Peers, handle_notify_new_block(p)
  PROVE  HeightInv'
<1> DEFINE x == context[p]
           y == [x EXCEPT !.m_state = "synchronizing"]
<1>1. /\ inbox[p] # <<>> /\ Head(inbox[p]).type = "new_block" /\ x \in Contexts
      /\ requests[p] \in Seq(Requests) /\ peer' = peer
  BY ReceivedFacts, Before1 DEF handle_notify_new_block
<1>2. Head(inbox[p]).type \notin AnswerTypes
  BY <1>1 DEF AnswerTypes
<1>3. PICK c \in WithTxsOf(p, core) :
        IF ~m_synchronized \/ x.m_state # "normal" \/ x.remote_height <= 1
        THEN Finish(p, x, <<>>) /\ UNCHANGED core
        ELSE LET v == handle_entry(c, Head(inbox[p]).block) IN
             /\ core' = v.core
             /\ CASE v.result \in {"tx_failed", "failed"} -> drop_connection(p)
                  [] v.result = "orphaned" -> Finish(p, y, <<ChainRequest(v.core)>>)
                  [] OTHER -> Finish(p, x, <<>>)
  BY Zenon DEF handle_notify_new_block
<1> DEFINE v == handle_entry(c, Head(inbox[p]).block)
           out == <<ChainRequest(v.core)>>
<1>9. drop_connection(p) \/ Finish(p, y, out) \/ Finish(p, x, <<>>)
  BY <1>3
<1>4. y.last_response = x.last_response
  BY <1>1 DEF Contexts
<1>5. requests[p] \o out # <<>>
  <2> DEFINE q == ChainRequest(v.core)
             rq == requests[p]
  <2>1. out = <<q>> /\ rq \in Seq(Requests)
    BY <1>1
  <2> HIDE DEF q, rq, out
  <2>2. Len(rq \o out) = Len(rq) + 1 /\ Len(rq) \in Nat
    BY <2>1
  <2>3. rq \o out # <<>>
    BY <2>2
  <2> QED BY <2>3 DEF rq
<1> HIDE DEF y, out
<1>6. CASE drop_connection(p)
  BY <1>1, <1>6, FitsDropped
<1>7. CASE Finish(p, x, <<>>)
  <2>1. SameWork(x, x)
    BY DEF SameWork
  <2> QED BY <1>1, <1>2, <1>7, <2>1, FitsFinishedSame
<1>8. CASE Finish(p, y, out)
  <2>1. Busy(y, requests[p] \o out, Tail(inbox[p]))
    BY <1>5 DEF Busy, Quiet
  <2> QED BY <1>1, <1>4, <1>8, <2>1, FitsFinished
<1> QED BY <1>6, <1>7, <1>8, <1>9

LEMMA FitsCallback ==
  ASSUME NEW D, NodeInv(D), RestInv(D), HeightInv, NEW p \in Peers, on_callback(p)
  PROVE  HeightInv'
<1> DEFINE x == context[p]
           y == [x EXCEPT !.callbacks = @ - 1]
           rq == Append(requests[p], ChainRequest(core))
<1>1. /\ x \in Contexts /\ Conn(D, core, x, requests[p], inbox[p], p \in Trusted(D))
      /\ requests[p] \in Seq(Requests)
      /\ inbox = [inbox EXCEPT ![p] = inbox[p]]
      /\ HeightsFit(x, inbox[p], peer[p].top)
  BY Before1 DEF HeightInv
<1>2. x.callbacks # 0
  BY <1>1 DEF on_callback, Contexts
<1>3. x.m_state = "synchronizing"
  BY <1>1, <1>2, ConnFacts
<1>4. /\ context' = [context EXCEPT ![p] = y] /\ requests' = [requests EXCEPT ![p] = rq]
      /\ inbox' = [inbox EXCEPT ![p] = inbox[p]] /\ peer' = peer
  BY <1>1, <1>3 DEF on_callback
<1>5. y.last_response = x.last_response
  BY <1>1 DEF Contexts
<1>6. rq # <<>>
  BY <1>1
<1> HIDE DEF y, rq
<1>7. HeightsFit(y, inbox[p], peer'[p].top)
  BY <1>1, <1>4, <1>5 DEF HeightsFit
<1>8. Busy(y, rq, inbox[p])
  BY <1>6 DEF Busy, Quiet
<1> QED BY <1>4, <1>7, <1>8, OneFits
(* What request_missing_objects posts.                                     *)
LEMMA RequestOut ==
  ASSUME NEW D, NEW ctx \in Contexts, ctx.requested = {}, ctx.m_state = "synchronizing",
         NEW c \in Cores(D), NEW check \in BOOLEAN
  PROVE  request_missing_objects(ctx, c, check).out \in Seq(Requests)
<1> DEFINE out == request_missing_objects(ctx, c, check).out
           a == Asked(ctx, c, check)
           o == [type |-> "objects", blocks |-> a.blocks]
           q == ChainRequest(c)
<1>1. ctx.needed \in Seq(Blocks)
  BY DEF Contexts
<1>2. ctx.needed # <<>> => a.blocks \in Seq(Blocks)
  BY <1>1, AskedFacts
<1>3. q \in Requests
  BY HistoryFacts
<1>4. (ctx.needed # <<>> /\ out = <<o>>) \/ out = <<q>> \/ out = <<>>
  BY RequestFacts
<1>5. ctx.needed # <<>> => o \in Requests
  BY <1>2 DEF Requests
<1> HIDE DEF a, o, q, out
<1>6. out \in Seq(Requests)
  <2>1. CASE ctx.needed # <<>> /\ out = <<o>>
    BY <1>5, <2>1
  <2>2. CASE out = <<q>>
    BY <1>3, <2>2
  <2>3. CASE out = <<>>
    BY <2>3
  <2> QED BY <1>4, <2>1, <2>2, <2>3
<1> QED BY <1>6 DEF out

LEMMA FitsChainEntry ==
  ASSUME NEW D, NodeInv(D), RestInv(D), HeightInv, NEW p \in Peers, handle_response_chain_entry(p)
  PROVE  HeightInv'
<1> DEFINE m == Head(inbox[p])
           x == context[p]
           in == Tail(inbox[p])
           last == m.start + Len(m.ids) - 1
           unknown == {b \in ToSet(m.ids) : ~have_block(core, b)}
           new == OnlyIn(m.ids, unknown)
           ctx == [x EXCEPT !.remote_height = m.total, !.last_response = last,
                            !.needed = @ \o new]
           r == request_missing_objects(ctx, core, FALSE)
           H == Height(peer[p].top)
<1>0. /\ core \in Cores(D) /\ inbox[p] \in Seq(Messages)
      /\ HeightsFit(x, inbox[p], peer[p].top)
  BY Before1 DEF HeightInv
<1>1. /\ m \in Messages /\ m.type = "chain" /\ inbox[p] # <<>> /\ NoAnswer(in)
      /\ x \in Contexts /\ x.m_state = "synchronizing" /\ x.callbacks = 0
      /\ requests[p] = <<>> /\ Bare(x) /\ GoodIds(D, core, m, p \in Trusted(D))
  BY AnswerNext DEF handle_response_chain_entry, AnswerTypes
<1>2. m.start \in Nat /\ m.total \in Nat /\ m.ids \in Seq(Blocks)
  BY <1>1, MessageFacts
<1>3. m.ids # <<>> /\ m.ids[1] \notin unknown
  BY <1>0, <1>1, KnownFacts DEF GoodIds
<1>4. drop_connection(p) \/ Finish(p, r.ctx, r.out)
  BY <1>3, Zenon DEF handle_response_chain_entry
<1>5. peer' = peer
  BY DEF handle_response_chain_entry
<1>6. m.total <= H
  <2>1. m = inbox[p][1] /\ 1 \in 1..Len(inbox[p])
    BY <1>0, <1>1
  <2> QED BY <1>0, <1>1, <2>1 DEF HeightsFit
<1>7. H \in Nat
  BY HonestClean, HeightType
<1>8. m.start + Len(m.ids) <= m.total
  BY <1>1 DEF GoodIds
<1> HIDE DEF m, x, H
<1>9. new \in Seq(Blocks)
  BY <1>2, OnlyInPlaces
<1>10. last \in Nat /\ last + 1 <= m.total /\ last + 1 <= H
  BY <1>2, <1>3, <1>6, <1>7, <1>8
<1> HIDE DEF last, new
<1>11. x.needed = <<>> /\ x.requested = {} /\ x.needed \o new = new
  BY <1>1, <1>9 DEF Bare
<1>12. ctx = [x EXCEPT !.remote_height = m.total, !.last_response = last, !.needed = new]
  BY <1>11
<1> HIDE DEF ctx
<1>13. /\ ctx \in Contexts /\ ctx.requested = {} /\ ctx.m_state = "synchronizing"
       /\ ctx.last_response = last /\ ctx.remote_height = m.total
  BY <1>1, <1>2, <1>9, <1>10, <1>11, <1>12 DEF Contexts
<1>14. CASE drop_connection(p)
  BY <1>5, <1>14, FitsDropped, Zenon
<1>15. CASE Finish(p, r.ctx, r.out)
  <2>0. ctx.last_response + 1 <= ctx.remote_height
    BY <1>10, <1>13
  <2>1. Busy(r.ctx, r.out, in) /\ r.ctx.last_response = last
    BY <1>0, <1>13, <2>0, BusyRequested
  <2>2. /\ context' = [context EXCEPT ![p] = r.ctx]
        /\ inbox' = [inbox EXCEPT ![p] = in]
        /\ requests' = [requests EXCEPT ![p] = requests[p] \o r.out]
    BY <1>15 DEF Finish
  <2>3. r.out \in Seq(Requests)
    BY <1>0, <1>13, RequestOut
  <2> HIDE DEF r, in
  <2>4. requests[p] \o r.out = r.out
    BY <1>1, <2>3
  <2>5. HeightsFit(r.ctx, in, peer'[p].top)
    BY <1>1, <1>5, <1>10, <2>1 DEF HeightsFit, NoAnswer, AnswerTypes, H
  <2>6. requests' = [requests EXCEPT ![p] = r.out]
    BY <2>2, <2>4
  <2>7. \A q \in Peers : q # p => peer'[q].top = peer[q].top
    BY <1>5
  <2> QED BY <2>1, <2>2, <2>5, <2>6, <2>7, OneFits, Zenon
<1> QED BY <1>4, <1>14, <1>15

LEMMA FitsObjects ==
  ASSUME NEW D, NodeInv(D), RestInv(D), HeightInv, NEW p \in Peers, handle_response_get_objects(p)
  PROVE  HeightInv'
<1> DEFINE m == Head(inbox[p])
           x == context[p]
           in == Tail(inbox[p])
           ctx == [x EXCEPT !.remote_height = m.height]
           bare == [ctx EXCEPT !.requested = {}]
           R(c) == request_missing_objects(bare, handle_batch(c, m.blocks).core, TRUE)
<1>0. /\ core \in Cores(D) /\ inbox[p] \in Seq(Messages)
      /\ HeightsFit(x, inbox[p], peer[p].top)
  BY Before1 DEF HeightInv
<1>1. /\ m \in Messages /\ m.type = "objects" /\ inbox[p] # <<>>
      /\ x \in Contexts /\ x.m_state = "synchronizing" /\ requests[p] = <<>>
  BY AnswerNext DEF handle_response_get_objects, AnswerTypes
<1>2. m.blocks \in Seq(Blocks) /\ m.height \in Nat
  <2> HIDE DEF m
  <2> QED BY <1>1, MessageFacts
<1>3. \/ drop_connection(p) \/ Finish(p, SetIdle(ctx), <<>>)
      \/ \E c \in WithTxsOf(p, core) : Finish(p, R(c).ctx, R(c).out)
  BY Zenon DEF handle_response_get_objects
<1>4. peer' = peer
  BY DEF handle_response_get_objects
<1>5. x.last_response + 1 <= m.height
  <2>1. m = inbox[p][1] /\ 1 \in 1..Len(inbox[p])
    BY <1>0, <1>1, TailFacts
  <2> QED BY <1>0, <1>1, <2>1 DEF HeightsFit
<1> HIDE DEF m
<1>6. /\ ctx \in Contexts /\ ctx.last_response = x.last_response
      /\ ctx.m_state = "synchronizing" /\ ctx.remote_height = m.height
  BY <1>1, <1>2 DEF Contexts
<1> HIDE DEF ctx
<1>7. CASE drop_connection(p)
  BY <1>4, <1>7, FitsDropped
<1>8. CASE Finish(p, SetIdle(ctx), <<>>)
  <2> DEFINE y == SetIdle(ctx)
  <2>1. y.last_response = x.last_response /\ y.m_state = "idle"
    <3> DEFINE n == <<>>
               s == {}
    <3>1. y = [ctx EXCEPT !.m_state = "idle", !.needed = n, !.requested = s]
      BY DEF SetIdle
    <3> HIDE DEF y, n, s
    <3> QED BY <1>6, <3>1 DEF Contexts
  <2>2. Finish(p, y, <<>>)
    BY <1>8
  <2> HIDE DEF y
  <2>3. Busy(y, requests[p] \o <<>>, Tail(inbox[p]))
    BY <2>1 DEF Busy
  <2> QED BY <1>1, <1>4, <2>1, <2>2, <2>3, FitsFinished
<1>9. CASE \E c \in WithTxsOf(p, core) : Finish(p, R(c).ctx, R(c).out)
  <2>0. PICK c \in WithTxsOf(p, core) : Finish(p, R(c).ctx, R(c).out)
    BY <1>9
  <2> DEFINE v == handle_batch(c, m.blocks)
             r == request_missing_objects(bare, v.core, TRUE)
  <2>a. Finish(p, r.ctx, r.out)
    BY <2>0
  <2>b. c \in Cores(Blocks)
    BY <1>0, WithTxsFacts
  <2>1. v.core \in Cores(Blocks)
    BY <1>2, <2>b, HandleBatch DEF Extends
  <2> HIDE DEF v
  <2>2. /\ bare \in Contexts /\ bare.requested = {} /\ bare.m_state = "synchronizing"
        /\ bare.last_response = x.last_response /\ bare.remote_height = m.height
    BY <1>6 DEF Contexts
  <2> HIDE DEF bare
  <2>3. bare.last_response + 1 <= bare.remote_height
    BY <1>5, <2>2
  <2>4. Busy(r.ctx, r.out, in) /\ r.ctx.last_response = x.last_response
    BY <2>1, <2>2, <2>3, BusyRequested
  <2>5. r.out # <<>> => requests[p] \o r.out # <<>>
    <3>1. r.out \in Seq(Requests)
      <4>1. TRUE \in BOOLEAN
        OBVIOUS
      <4> QED BY <2>1, <2>2, <4>1, RequestOut, Zenon
    <3> HIDE DEF r
    <3> QED BY <1>1, <3>1
  <2> HIDE DEF r
  <2>6. Busy(r.ctx, requests[p] \o r.out, Tail(inbox[p]))
    BY <2>4, <2>5 DEF Busy, Quiet
  <2> QED BY <1>1, <1>4, <2>a, <2>4, <2>6, FitsFinished
<1> QED BY <1>3, <1>7, <1>8, <1>9
(* A message is put into p's inbox, and requests may be taken from it.     *)
LEMMA FitsAppended ==
  ASSUME NEW D, NodeInv(D), HeightInv, NEW p \in Peers, NEW m \in Messages, NEW rq, NEW in,
         in = Append(inbox[p], m), UNCHANGED context,
         requests' = [requests EXCEPT ![p] = rq],
         inbox' = [inbox EXCEPT ![p] = in],
         HeightsFit(context[p], in, peer'[p].top), Busy(context[p], rq, in),
         \A q \in Peers : q # p => peer'[q].top = peer[q].top
  PROVE  HeightInv'
<1>1. context' = [context EXCEPT ![p] = context[p]]
  BY Before1
<1> QED BY <1>1, OneFits

LEMMA FitsAnswered ==
  ASSUME NEW D, NodeInv(D), HeightInv, NEW p \in Peers, NEW m \in Messages, Answer(p, m),
         m.type \in AnswerTypes, HeightsFit(context[p], Append(inbox[p], m), peer[p].top)
  PROVE  HeightInv'
<1> DEFINE in == Append(inbox[p], m)
           rq == Tail(requests[p])
<1>1. inbox[p] \in Seq(Messages)
  BY Before1
<1>2. Len(in) = Len(inbox[p]) + 1 /\ in[Len(in)] = m /\ Len(in) \in 1..Len(in)
  BY <1>1
<1>3. /\ UNCHANGED <<context, peer>> /\ requests' = [requests EXCEPT ![p] = rq]
      /\ inbox' = [inbox EXCEPT ![p] = in]
      /\ HeightsFit(context[p], in, peer'[p].top)
      /\ \A q \in Peers : q # p => peer'[q].top = peer[q].top
  BY DEF Answer
<1>4. in = Append(inbox[p], m)
  OBVIOUS
<1> HIDE DEF in, rq
<1>5. ~NoAnswer(in)
  BY <1>2 DEF NoAnswer
<1>6. Busy(context[p], rq, in)
  BY <1>5 DEF Busy, Quiet
<1> QED BY <1>3, <1>4, <1>6, FitsAppended

LEMMA FitsServe ==
  ASSUME NEW D, NodeInv(D), RestInv(D), HeightInv, NEW p \in Peers, Serve(p)
  PROVE  HeightInv'
<1> DEFINE top == peer[p].top
           q == Head(requests[p])
           x == context[p]
<1>1. /\ top \in Blocks /\ Height(top) \in Nat \ {0} /\ inbox[p] \in Seq(Messages)
      /\ HeightsFit(x, inbox[p], top)
      /\ requests[p] \in Seq(Requests) /\ Conn(D, core, x, requests[p], inbox[p], p \in Trusted(D))
  BY HonestClean, HeightType, Before1 DEF HeightInv
<1>2. ASSUME NEW m \in Messages, Answer(p, m),
             \/ m.type = "chain" /\ m.total <= Height(top)
             \/ m.type = "objects" /\ m.height = Height(top)
      PROVE  HeightInv'
  <2>1. HeightsFit(x, Append(inbox[p], m), top)
    BY <1>1, <1>2, FitsQueues
  <2>2. m.type \in AnswerTypes
    BY <1>2 DEF AnswerTypes
  <2> QED BY <1>2, <2>1, <2>2, FitsAnswered
<1>3. CASE handle_request_chain(p)
  <2> DEFINE m1 == find_blockchain_supplement(top, q.ids)
             m2 == [type |-> "chain", start |-> 0, total |-> 1, ids |-> <<Genesis>>]
  <2>1. requests[p] # <<>> /\ q.type = "chain" /\ q = requests[p][1]
    BY <1>1, <1>3 DEF handle_request_chain, Requested
  <2>2. Genesis \in q.ids
    BY <1>1, <2>1, ConnFacts DEF AskedForIds, GoodHistory
  <2>3. m1 \in Messages /\ m1.type = "chain" /\ m1.total <= Height(top)
    <3>1. m1 \in Messages /\ m1.type = "chain" /\ m1.total = Height(top)
      BY <1>1, <2>2, SupplementFacts
    <3> HIDE DEF m1, top
    <3> QED BY <1>1, <3>1
  <2>4. m2 \in Messages /\ m2.type = "chain" /\ m2.total = 1
    BY SyncAssumption DEF Messages
  <2>5. m2.total <= Height(top)
    BY <1>1, <2>4
  <2>6. Answer(p, m1) \/ Answer(p, m2)
    BY <1>3 DEF handle_request_chain
  <2> HIDE DEF m1, m2, top
  <2> QED BY <1>2, <2>3, <2>4, <2>5, <2>6
<1>4. CASE handle_request_get_objects(p)
  <2> DEFINE r == OnlyIn(q.blocks, Main(top))
             m == [type |-> "objects", height |-> Height(top), blocks |-> r]
  <2>1. requests[p] # <<>> /\ q.type = "objects" /\ q \in Requests
    BY <1>1, <1>4 DEF handle_request_get_objects, Requested
  <2>2. r \in Seq(Blocks)
    BY <2>1, RequestTypes, OnlyInPlaces
  <2>3. Answer(p, m)
    BY <1>4 DEF handle_request_get_objects
  <2> HIDE DEF r
  <2>4. m \in Messages /\ m.type = "objects" /\ m.height = Height(top)
    BY <1>1, <2>2 DEF Messages
  <2> HIDE DEF m, top
  <2> QED BY <1>2, <2>3, <2>4
<1> QED BY <1>3, <1>4 DEF Serve

(* A timed sync or a relayed block, while p's chain gets no shorter.       *)
LEMMA FitsRelayed ==
  ASSUME NEW D, NodeInv(D), RestInv(D), HeightInv, NEW p \in Peers, NEW m \in Messages, m.type \notin AnswerTypes,
         UNCHANGED <<context, requests>>, inbox' = [inbox EXCEPT ![p] = Append(inbox[p], m)],
         peer'[p].top \in Blocks, Height(peer'[p].top) >= Height(peer[p].top),
         \A q \in Peers : q # p => peer'[q].top = peer[q].top
  PROVE  HeightInv'
<1> DEFINE x == context[p]
           in == Append(inbox[p], m)
           top == peer'[p].top
<1>1. /\ inbox[p] \in Seq(Messages) /\ requests = [requests EXCEPT ![p] = requests[p]]
      /\ HeightsFit(x, inbox[p], peer[p].top) /\ Busy(x, requests[p], inbox[p])
      /\ x \in Contexts
  BY Before1 DEF HeightInv
<1>2. HeightsFit(x, inbox[p], top)
  <2>1. peer[p].top \in Blocks /\ Height(peer[p].top) \in Nat /\ Height(top) \in Nat
    BY HonestClean, HeightType
  <2>2. x.last_response \in Nat
    BY <1>1 DEF Contexts
  <2>3. x.last_response + 1 <= Height(top)
    BY <1>1, <2>1, <2>2 DEF HeightsFit
  <2>4. ASSUME NEW i \in 1..Len(inbox[p]), inbox[p][i].type = "chain"
        PROVE  inbox[p][i].total <= Height(top)
    <3>1. inbox[p][i] \in Messages
      BY <1>1
    <3>2. inbox[p][i].total \in Nat /\ inbox[p][i].total <= Height(peer[p].top)
      BY <1>1, <2>4, <3>1, MessageFacts DEF HeightsFit
    <3> QED BY <2>1, <3>2
  <2> QED BY <1>1, <2>3, <2>4 DEF HeightsFit
<1>3. HeightsFit(x, in, top)
  BY <1>1, <1>2, FitsQueues
<1>4. SameWork(x, x)
  BY DEF SameWork
<1>5. Busy(x, requests[p], in)
  BY <1>1, <1>4, BusyQueues
<1>6. SUFFICES ASSUME NEW q \in Peers
               PROVE  /\ HeightsFit(context[q], inbox'[q], peer'[q].top)
                      /\ Busy(context[q], requests[q], inbox'[q])
  BY DEF HeightInv
<1>7. CASE q = p
  <2>1. inbox'[q] = in
    BY <1>7 DEF NodeInv
  <2> QED BY <1>3, <1>5, <1>7, <2>1
<1>8. CASE q # p
  <2>1. inbox'[q] = inbox[q] /\ peer'[q].top = peer[q].top
    BY <1>8 DEF NodeInv
  <2> QED BY <2>1 DEF HeightInv
<1> QED BY <1>7, <1>8

LEMMA FitsTimedSync ==
  ASSUME NEW D, NodeInv(D), RestInv(D), HeightInv, NEW p \in Peers, timed_sync(p)
  PROVE  HeightInv'
<1> DEFINE m == Payload(p, FALSE)
<1>1. m \in Messages /\ m.type \notin AnswerTypes
  BY PayloadType DEF AnswerTypes
<1>2. /\ inbox' = [inbox EXCEPT ![p] = Append(inbox[p], m)]
      /\ UNCHANGED <<context, requests>> /\ peer' = peer
  BY DEF timed_sync
<1>3. peer[p].top \in Blocks /\ Height(peer[p].top) \in Nat
  BY HonestClean, HeightType
<1> HIDE DEF m
<1>4. peer'[p].top \in Blocks /\ Height(peer'[p].top) >= Height(peer[p].top)
  BY <1>2, <1>3
<1> QED BY <1>1, <1>2, <1>4, FitsRelayed

LEMMA FitsPeerAdopt ==
  ASSUME NEW D, NeverShorter, NodeInv(D), RestInv(D), HeightInv, NEW p \in Peers, NEW b \in Blocks, PeerAdopt(p, b)
  PROVE  HeightInv'
<1> DEFINE m == [type |-> "new_block", block |-> b]
<1>1. m \in Messages /\ m.type \notin AnswerTypes
  BY DEF Messages, AnswerTypes
<1>2. \A q \in Peers : peer'[q].top = IF q = p THEN b ELSE peer[q].top
  BY DEF PeerAdopt, RestInv
<1>3. Height(b) >= Height(peer[p].top)
  BY DEF NeverShorter, PeerAdopt, RestInv, PeerInv
<1>4. /\ UNCHANGED <<context, requests>>
      /\ UNCHANGED inbox \/ inbox' = [inbox EXCEPT ![p] = Append(inbox[p], m)]
  BY DEF PeerAdopt
<1> HIDE DEF m
<1>5. CASE inbox' = [inbox EXCEPT ![p] = Append(inbox[p], m)]
  BY <1>1, <1>2, <1>3, <1>4, <1>5, FitsRelayed
<1>6. CASE UNCHANGED inbox
  <2>1. ASSUME NEW q \in Peers PROVE HeightsFit(context[q], inbox[q], peer'[q].top)
    <3> DEFINE x == context[q]
               in == inbox[q]
               o == peer[q].top
               n == peer'[q].top
    <3>1. /\ HeightsFit(x, in, o) /\ in \in Seq(Messages) /\ x \in Contexts
          /\ o \in Blocks
      BY Before1, HonestClean DEF HeightInv
    <3>2. n \in Blocks /\ Height(n) \in Nat /\ Height(o) \in Nat
      BY <1>2, <3>1, HeightType
    <3> HIDE DEF x, in, o, n
    <3>3. Height(n) >= Height(o)
      BY <1>2, <1>3, <3>1, <3>2 DEF o, n
    <3>4. x.last_response \in Nat /\ x.last_response + 1 <= Height(n)
      BY <3>1, <3>2, <3>3 DEF HeightsFit, Contexts
    <3>5. ASSUME NEW i \in 1..Len(in), in[i].type = "chain" PROVE in[i].total <= Height(n)
      <4>1. in[i] \in Messages
        BY <3>1
      <4>2. in[i].total \in Nat /\ in[i].total <= Height(o)
        BY <3>1, <3>5, <4>1, MessageFacts DEF HeightsFit
      <4> QED BY <3>2, <3>3, <4>2
    <3>6. HeightsFit(x, in, n)
      <4>1. \A i \in 1..Len(in) : in[i].type = "objects" => x.last_response + 1 <= in[i].height
        BY <3>1 DEF HeightsFit
      <4>2. \A i \in 1..Len(in) : in[i].type = "chain" => in[i].total <= Height(n)
        BY <3>5
      <4> QED BY <3>4, <4>1, <4>2 DEF HeightsFit
    <3> QED BY <3>6 DEF x, in, n
  <2> QED BY <1>4, <1>6, <2>1 DEF HeightInv
<1> QED BY <1>4, <1>5, <1>6

LEMMA FitsUnchanged ==
  ASSUME HeightInv, UNCHANGED <<context, requests, inbox>>,
         \A q \in Peers : peer'[q].top = peer[q].top
  PROVE  HeightInv'
BY DEF HeightInv

LEMMA NextFits ==
  ASSUME NEW D, NeverShorter, NodeInv(D), RestInv(D), HeightInv, [Next]_vars PROVE HeightInv'
<1>1. ASSUME NEW p \in Peers, Connect(p) PROVE HeightInv'
  BY <1>1, FitsConnect
<1>2. ASSUME NEW p \in Peers, Disconnect(p) PROVE HeightInv'
  BY <1>2, FitsDropped DEF Disconnect
<1>3. ASSUME NEW p \in Peers, Unblock(p) PROVE HeightInv'
  BY <1>3, FitsUnchanged DEF Unblock
<1>4. ASSUME NEW p \in Peers, Deliver(p) PROVE HeightInv'
  BY <1>4, FitsPayload, FitsNewBlock, FitsChainEntry, FitsObjects DEF Deliver
<1>5. ASSUME NEW p \in Peers, on_callback(p) PROVE HeightInv'
  BY <1>5, FitsCallback
<1>6. ASSUME NEW p \in Peers, Serve(p) PROVE HeightInv'
  BY <1>6, FitsServe
<1>7. ASSUME NEW p \in Peers, timed_sync(p) PROVE HeightInv'
  BY <1>7, FitsTimedSync
<1>8. ASSUME NEW p \in Peers, NEW b \in Blocks, PeerAdopt(p, b) PROVE HeightInv'
  BY <1>8, FitsPeerAdopt
<1>9. ASSUME NEW p \in Peers, PeerSynchronized(p) PROVE HeightInv'
  <2>1. \A q \in Peers : peer'[q].top = peer[q].top
    BY <1>9 DEF PeerSynchronized, RestInv
  <2> QED BY <1>9, <2>1, FitsUnchanged DEF PeerSynchronized
<1>10. ASSUME NEW b \in Found, handle_block_found(b) PROVE HeightInv'
  BY <1>10, FitsUnchanged DEF handle_block_found
<1>11. ASSUME on_idle PROVE HeightInv'
  BY <1>11, FitsUnchanged DEF on_idle
<1>12. ASSUME set_want_stop PROVE HeightInv'
  BY <1>12, FitsUnchanged DEF set_want_stop
<1>13. ASSUME UNCHANGED vars PROVE HeightInv'
  BY <1>13, FitsUnchanged DEF vars
<1> QED BY <1>1, <1>2, <1>3, <1>4, <1>5, <1>6, <1>7, <1>8, <1>9, <1>10, <1>11, <1>12, <1>13
        DEF Next

(* The number of things under way, from what Conn says of them.            *)
LEMMA AnswerCount ==
  ASSUME NEW in \in Seq(Messages)
  PROVE  LET A == {i \in DOMAIN in : in[i].type \in {"chain", "objects"}} IN
         /\ NoAnswer(in) => Cardinality(A) = 0
         /\ \A k : OnlyAnswer(in, k) => Cardinality(A) = 1
<1> DEFINE A == {i \in DOMAIN in : in[i].type \in {"chain", "objects"}}
<1>1. NoAnswer(in) => A = {}
  BY DEF NoAnswer, AnswerTypes
<1>2. \A k : OnlyAnswer(in, k) => A = {k}
  BY DEF OnlyAnswer, AnswerTypes
<1>3. Cardinality({}) = 0
  BY FS_EmptySet
<1>4. \A k : Cardinality({k}) = 1
  BY FS_Singleton
<1> QED BY <1>1, <1>2, <1>3, <1>4

LEMMA UnderCounts ==
  ASSUME NEW D, NodeInv(D), NEW p \in Peers
  PROVE  Under(p) = IF Quiet(context[p], requests[p], inbox[p]) THEN 0 ELSE 1
<1> DEFINE x == context[p]
           rq == requests[p]
           in == inbox[p]
           h == p \in Trusted(D)
           N == Cardinality({i \in DOMAIN in : in[i].type \in {"chain", "objects"}})
<1>1. /\ in \in Seq(Messages) /\ rq \in Seq(Requests) /\ Conn(D, core, x, rq, in, h)
  BY Before1
<1>2. Under(p) = x.callbacks + Len(rq) + N
  BY DEF Under
<1>3. (NoAnswer(in) => N = 0) /\ (\A k : OnlyAnswer(in, k) => N = 1 /\ ~NoAnswer(in))
  <2>1. \A k : OnlyAnswer(in, k) => ~NoAnswer(in)
    BY DEF OnlyAnswer, NoAnswer
  <2> QED BY <1>1, <2>1, AnswerCount
<1>4. rq = <<>> => Len(rq) = 0
  BY <1>1
<1> HIDE DEF x, rq, in, h, N
<1>5. CASE Quiet(x, rq, in)
  BY <1>2, <1>3, <1>4, <1>5 DEF Quiet, x, rq, in
<1>6. CASE Called(x, rq, in)
  <2>1. ~Quiet(x, rq, in)
    BY <1>6 DEF Quiet, Called
  <2>2. Under(p) = 1
    BY <1>2, <1>3, <1>4, <1>6 DEF Called
  <2> QED BY <2>1, <2>2 DEF x, rq, in
<1>7. CASE AskedForIds(core, x, rq, in) \/ AskedForBlocks(D, core, x, rq, in, h)
  <2>1. ~Quiet(x, rq, in)
    BY <1>4, <1>7 DEF Quiet, AskedForIds, AskedForBlocks
  <2>2. Under(p) = 1
    <3>1. x.callbacks = 0 /\ Len(rq) = 1 /\ N = 0
      BY <1>3, <1>7 DEF AskedForIds, AskedForBlocks
    <3> QED BY <1>2, <3>1
  <2> QED BY <2>1, <2>2 DEF x, rq, in
<1>8. CASE IdsArrived(D, core, x, rq, in, h) \/ BlocksArrived(D, core, x, rq, in, h)
  <2>0. N = 1 /\ ~NoAnswer(in)
    BY <1>3, <1>8 DEF IdsArrived, BlocksArrived
  <2>1. ~Quiet(x, rq, in)
    BY <2>0 DEF Quiet
  <2>2. Under(p) = 1
    <3>1. x.callbacks = 0 /\ Len(rq) = 0
      BY <1>4, <1>8 DEF IdsArrived, BlocksArrived
    <3> QED BY <1>2, <2>0, <3>1
  <2> QED BY <2>1, <2>2 DEF x, rq, in
<1> QED BY <1>1, <1>5, <1>6, <1>7, <1>8 DEF Conn

(***************************************************************************)
(* No connection has two things under way at once, and one that does not   *)
(* synchronize has none, whatever chains the peers move to: the second     *)
(* answer would be taken for a wrong one and its peer dropped.             *)
(***************************************************************************)
THEOREM AtMostOneUnderWay ==
  Spec => [](\A p \in Peers : /\ Under(p) \in {0, 1}
                              /\ context[p].m_state # "synchronizing" => Under(p) = 0)
<1>1. ASSUME TypeOK, SyncInv
      PROVE  \A p \in Peers : /\ Under(p) \in {0, 1}
                              /\ context[p].m_state # "synchronizing" => Under(p) = 0
  <2>1. NodeInv(Blocks)
    BY <1>1, InvParts DEF TypeOK
  <2> SUFFICES ASSUME NEW p \in Peers
               PROVE  /\ Under(p) \in {0, 1}
                      /\ context[p].m_state # "synchronizing" => Under(p) = 0
    OBVIOUS
  <2>2. context[p].m_state # "synchronizing" => Quiet(context[p], requests[p], inbox[p])
    BY <2>1, Before1, ConnFacts
  <2> QED BY <2>1, <2>2, UnderCounts
<1> QED BY <1>1, SyncInvariance, PTL

(***************************************************************************)
(* A synchronizing connection has exactly one thing under way, and any     *)
(* other none, provided that no peer moves to a heavier chain that is      *)
(* shorter (the exception at currency_protocol_handler.inl:408).           *)
(***************************************************************************)
THEOREM OneUnderWay == ASSUME NeverShorter PROVE Spec => []OneRequestUnderWay
<1>1. Init => HeightInv
  <2> SUFFICES ASSUME Init, NEW p \in Peers
               PROVE  /\ HeightsFit(context[p], inbox[p], peer[p].top)
                      /\ Busy(context[p], requests[p], inbox[p])
    BY DEF HeightInv
  <2>1. RestInv(Blocks)
    BY InitSync
  <2>2. peer[p].top \in Blocks /\ Height(peer[p].top) \in Nat \ {0}
    BY <2>1, HonestClean, HeightType
  <2>3. context[p] = Closed /\ inbox[p] = <<>>
    BY DEF Init
  <2>4. Closed.last_response = 0 /\ Closed.m_state = "closed"
    BY DEF Closed
  <2>5. Busy(context[p], requests[p], inbox[p])
    BY <2>3, <2>4 DEF Busy
  <2>6. HeightsFit(Closed, <<>>, peer[p].top)
    BY <2>2, <2>4 DEF HeightsFit
  <2> QED BY <2>3, <2>5, <2>6
<1>2. TypeOK /\ SyncInv /\ HeightInv /\ [Next]_vars => HeightInv'
  BY InvParts, NextFits DEF TypeOK
<1>3. TypeOK /\ SyncInv /\ HeightInv => OneRequestUnderWay
  <2> SUFFICES ASSUME TypeOK /\ SyncInv, HeightInv, NEW p \in Peers
               PROVE  Under(p) = IF context[p].m_state = "synchronizing" THEN 1 ELSE 0
    BY DEF OneRequestUnderWay
  <2>1. NodeInv(Blocks)
    BY InvParts DEF TypeOK
  <2>2. context[p].m_state # "synchronizing" => Quiet(context[p], requests[p], inbox[p])
    BY <2>1, Before1, ConnFacts
  <2>3. context[p].m_state = "synchronizing" => ~Quiet(context[p], requests[p], inbox[p])
    <3>1. Busy(context[p], requests[p], inbox[p])
      BY DEF HeightInv
    <3> QED BY <3>1 DEF Busy
  <2> QED BY <2>1, <2>2, <2>3, UnderCounts
<1> QED BY <1>1, <1>2, <1>3, SyncInvariance, PTL DEF Spec
=============================================================================
