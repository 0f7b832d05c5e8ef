---------------------------- MODULE WalletProofs ----------------------------
(***************************************************************************)
(* The wallet, for every block tree, every set of outputs and key images   *)
(* and any number of lost calls and kills: its transfers and spent flags   *)
(* follow its chain, and the files it leaves behind can always be loaded.  *)
(***************************************************************************)
EXTENDS Wallet, SubsequenceProofs, FiniteSetTheorems, TLAPS

Images == UNION {[K -> Nat] : K \in SUBSET Range(KeyImage)}
Members == [m_blockchain : Seq(Blocks), m_transfers : Seq(Transfers),
            m_key_images : Images, m_unconfirmed_txs : SUBSET OwnTxs,
            m_tx_keys : SUBSET OwnTxs,
            m_pending_key_images : SUBSET DOMAIN KeyImage]

(* The wallet's chain is a path of the block tree.                         *)
Path(s) ==
  /\ s \in Seq(Blocks) /\ Len(s) >= 1 /\ s[1] = Genesis
  /\ \A i \in 2..Len(s) : s[i] # Genesis /\ Parent[s[i]] = s[i - 1]

(* m_transfers and m_key_images are inverse to each other.                 *)
Indexed(m) ==
  /\ \A k \in DOMAIN m.m_key_images :
       /\ m.m_key_images[k] \in DOMAIN m.m_transfers
       /\ m.m_transfers[m.m_key_images[k]].m_key_image = k
  /\ \A i \in DOMAIN m.m_transfers :
       /\ m.m_transfers[i].m_key_image \in DOMAIN m.m_key_images
       /\ m.m_key_images[m.m_transfers[i].m_key_image] = i

(* The transfers are in the order of their heights.                        *)
Ordered(m) ==
  /\ \A i \in DOMAIN m.m_transfers : m.m_transfers[i].m_block_height <= Len(m.m_blockchain)
  /\ \A i, j \in DOMAIN m.m_transfers :
       i <= j => m.m_transfers[i].m_block_height <= m.m_transfers[j].m_block_height

(* The key image of output o is known since height h at the latest.        *)
KnownSince(m, o, h) ==
  /\ KeyImage[o] \in DOMAIN m.m_key_images
  /\ m.m_transfers[m.m_key_images[KeyImage[o]]].m_block_height <= h

SpentOf(m, t) ==
  \A i \in DOMAIN m.m_transfers :
    m.m_transfers[i].m_key_image \in Ins[t] => m.m_transfers[i].m_spent

(* What a wallet with the spend key knows of a block at height h.          *)
Scanned(m, b, h) ==
  \A n \in DOMAIN TxsOf[b] :
    /\ \A o \in Range(Outs[TxsOf[b][n]]) : KnownSince(m, o, h)
    /\ SpentOf(m, TxsOf[b][n])

Sound(m) ==
  /\ Indexed(m) /\ Ordered(m)
  /\ \A j \in DOMAIN m.m_blockchain : Scanned(m, m.m_blockchain[j], j - 1)

(* The transfers are outputs of the block at their height, but for some.   *)
AtHeight(m, rest) ==
  \A i \in DOMAIN m.m_transfers :
    LET td == m.m_transfers[i]
    IN <<td.out, td.m_block_height>> \notin rest =>
         /\ td.m_block_height < Len(m.m_blockchain)
         /\ td.out \in OutsIn(<<m.m_blockchain[td.m_block_height + 1]>>)

(* The members may be those in memory or those in the file: v says if the  *)
(* wallet is a watch-only one.                                             *)
Good(v, m, rest) ==
  /\ m \in Members /\ Path(m.m_blockchain) /\ AtHeight(m, rest)
  /\ ~v => Sound(m)

(* Where refresh is: the blocks to come go on from the wallet's chain, and *)
(* the transactions of the first one that are done have left their traces. *)
Linked(r, m) ==
  /\ r.left # <<>> =>
       /\ r.height >= 1 /\ r.left[1] # Genesis
       /\ Parent[r.left[1]] = m.m_blockchain[r.height]
  /\ \A i \in 2..Len(r.left) : r.left[i] # Genesis /\ Parent[r.left[i]] = r.left[i - 1]

Done(r) == Len(TxsOf[r.left[1]]) - Len(r.txs)
InProgress(v, r, m) ==
  /\ r.left # <<>> /\ r.height = Len(m.m_blockchain) /\ Done(r) \in Nat
  /\ \A i \in 1..Len(r.txs) : r.txs[i] = TxsOf[r.left[1]][Done(r) + i]
  /\ ~v => \A n \in 1..Done(r) :
             /\ \A o \in Range(Outs[TxsOf[r.left[1]][n]]) : KnownSince(m, o, r.height)
             /\ SpentOf(m, TxsOf[r.left[1]][n])

Runs == [stage : {"idle", "loop", "pull"}, left : Seq(Blocks), height : Nat,
         entry : {"none", "new", "split"}, txs : Seq(Txs), added : BOOLEAN,
         fetched : BOOLEAN]
Refreshing(v, r, m) ==
  /\ r \in Runs /\ r.height <= Len(m.m_blockchain) /\ Linked(r, m)
  /\ r.entry # "none" => r.stage = "pull" /\ InProgress(v, r, m)

(* The pending key images and their file.                                  *)
NoRepeats(s) == \A i, j \in DOMAIN s : s[i] = s[j] => i = j
PendingFiled ==
  /\ pki_file \in Seq(DOMAIN KeyImage) /\ NoRepeats(pki_file)
  /\ w.m_pending_key_images = Range(pki_file)
  /\ wallet_file # None => wallet_file.m_pending_key_images \subseteq Range(pki_file)
  /\ ~m_is_view_only => pki_file = <<>> /\ unsigned = {}

(* A transfer saved for signing.                                           *)
Saved(u) ==
  /\ u.tx \in OwnTxs /\ u.src \in [Ins[u.tx] -> Nat]
  /\ Ins[u.tx] \subseteq Range(KeyImage)
  /\ u.outs \subseteq DOMAIN KeyImage /\ IsFiniteSet(u.outs)

WalletInv ==
  /\ m_is_view_only \in ViewOnly /\ top \in Blocks
  /\ made \subseteq OwnTxs /\ net \subseteq OwnTxs
  /\ Good(m_is_view_only, w, half)
  /\ wallet_file # None => Good(m_is_view_only, wallet_file, half_stored)
  /\ Refreshing(m_is_view_only, run, w) /\ PendingFiled
  /\ \A u \in unsigned : Saved(u)
-----------------------------------------------------------------------------
(* The block tree.                                                         *)

LEMMA Tree ==
  /\ Genesis \in Blocks /\ Chain[Genesis] = <<Genesis>>
  /\ \A b \in Blocks : Chain[b] \in Seq(Blocks)
  /\ \A b \in Blocks : b # Genesis => Parent[b] \in Blocks /\ Chain[b] = Append(Chain[Parent[b]], b)
BY WalletAssumption, TreeAssumption, Zenon

LEMMA TxTypes ==
  /\ \A b \in Blocks : TxsOf[b] \in Seq(Txs)
  /\ \A t \in Txs : Outs[t] \in Seq(DOMAIN KeyImage)
  /\ OwnTxs \subseteq Txs /\ ViewOnly \subseteq BOOLEAN /\ NoKey \notin Range(KeyImage)
BY WalletAssumption

LEMMA Appended ==
  ASSUME NEW A, NEW s \in Seq(A), NEW x \in A
  PROVE  /\ Append(s, x) \in Seq(A) /\ Len(Append(s, x)) = Len(s) + 1
         /\ DOMAIN Append(s, x) = 1..(Len(s) + 1)
         /\ \A i \in 1..Len(s) : Append(s, x)[i] = s[i]
         /\ Append(s, x)[Len(s) + 1] = x
OBVIOUS

LEMMA PathGrows ==
  ASSUME NEW s, Path(s), NEW b \in Blocks, b # Genesis, Parent[b] = s[Len(s)]
  PROVE  Path(Append(s, b))
<1>1. s \in Seq(Blocks) /\ Len(s) >= 1 /\ s[1] = Genesis /\ Len(s) \in Nat
  BY DEF Path
<1>2. \A i \in 2..Len(s) : s[i] # Genesis /\ Parent[s[i]] = s[i - 1]
  BY DEF Path
<1> DEFINE t == Append(s, b)
<1>3. /\ t \in Seq(Blocks) /\ Len(t) = Len(s) + 1
      /\ \A i \in 1..Len(s) : t[i] = s[i]
      /\ t[Len(s) + 1] = b
  BY <1>1, Appended
<1> HIDE DEF t
<1>4. ASSUME NEW i \in 2..Len(t) PROVE t[i] # Genesis /\ Parent[t[i]] = t[i - 1]
  <2>1. i - 1 \in 1..Len(s) /\ t[i - 1] = s[i - 1]
    BY <1>1, <1>3
  <2>2. CASE i = Len(s) + 1
    BY <2>1, <2>2, <1>1, <1>3
  <2>3. CASE i # Len(s) + 1
    <3>1. i \in 2..Len(s) /\ i \in 1..Len(s)
      BY <2>3, <1>1, <1>3
    <3> QED BY <3>1, <2>1, <1>2, <1>3
  <2> QED BY <2>2, <2>3
<1>5. t[1] = Genesis /\ Len(t) >= 1
  BY <1>1, <1>3
<1> QED BY <1>3, <1>4, <1>5 DEF Path, t

LEMMA ChainPath ==
  ASSUME NEW b \in Blocks
  PROVE  Path(Chain[b]) /\ Chain[b][Len(Chain[b])] = b
<1> DEFINE Right(x) == Path(Chain[x]) /\ Chain[x][Len(Chain[x])] = x
           L == Len(Chain[b])
           S == {n \in Nat : \A x \in Blocks : Len(Chain[x]) <= n => Right(x)}
<1>1. \A x \in Blocks : Chain[x] \in Seq(Blocks) /\ Len(Chain[x]) \in Nat
  BY Tree
<1>2. \A x \in Blocks : x # Genesis =>
         /\ Parent[x] \in Blocks /\ Chain[x] = Append(Chain[Parent[x]], x)
         /\ Len(Chain[x]) = Len(Chain[Parent[x]]) + 1
  <2> SUFFICES ASSUME NEW x \in Blocks, x # Genesis
               PROVE  /\ Parent[x] \in Blocks /\ Chain[x] = Append(Chain[Parent[x]], x)
                      /\ Len(Chain[x]) = Len(Chain[Parent[x]]) + 1
    OBVIOUS
  <2>1. Parent[x] \in Blocks /\ Chain[x] = Append(Chain[Parent[x]], x)
    BY Tree
  <2>2. Chain[Parent[x]] \in Seq(Blocks)
    BY <1>1, <2>1
  <2>3. Len(Append(Chain[Parent[x]], x)) = Len(Chain[Parent[x]]) + 1
    <3> DEFINE c == Chain[Parent[x]]
    <3>1. c \in Seq(Blocks)
      BY <2>2
    <3> HIDE DEF c
    <3>2. Len(Append(c, x)) = Len(c) + 1
      BY <3>1, Appended
    <3> QED BY <3>2 DEF c
  <2> QED BY <2>1, <2>3
<1>3. Right(Genesis) /\ Len(Chain[Genesis]) = 1
  <2>1. Chain[Genesis] = <<Genesis>> /\ Genesis \in Blocks
    BY Tree
  <2>2. <<Genesis>> \in Seq(Blocks) /\ Len(<<Genesis>>) = 1 /\ <<Genesis>>[1] = Genesis
    BY <2>1
  <2>3. Path(<<Genesis>>)
    BY <2>2 DEF Path
  <2> QED BY <2>1, <2>2, <2>3
<1>4. 0 \in S
  <2>1. ASSUME NEW x \in Blocks, Len(Chain[x]) <= 0 PROVE FALSE
    <3>1. CASE x = Genesis
      BY <2>1, <3>1, <1>3
    <3>2. CASE x # Genesis
      <4>1. Parent[x] \in Blocks /\ Len(Chain[x]) = Len(Chain[Parent[x]]) + 1
        BY <3>2, <1>2
      <4>2. Len(Chain[Parent[x]]) \in Nat
        BY <4>1, <1>1
      <4> QED BY <4>1, <4>2, <2>1
    <3> QED BY <3>1, <3>2
  <2> QED BY <2>1
<1>5. ASSUME NEW n \in 1..L, n - 1 \in S PROVE n \in S
  <2> SUFFICES ASSUME NEW x \in Blocks, Len(Chain[x]) <= n PROVE Right(x)
    BY <1>1
  <2>1. CASE x = Genesis
    BY <2>1, <1>3
  <2>2. CASE x # Genesis
    <3> DEFINE p == Parent[x]
    <3>1. p \in Blocks /\ Chain[x] = Append(Chain[p], x) /\ Len(Chain[x]) = Len(Chain[p]) + 1
      BY <2>2, <1>2
    <3>2. Len(Chain[p]) <= n - 1
      <4>1. Len(Chain[p]) \in Nat
        BY <3>1, <1>1
      <4> QED BY <4>1, <3>1
    <3>3. Right(p)
      BY <1>5, <3>1, <3>2
    <3> DEFINE c == Chain[p]
    <3>4. c \in Seq(Blocks) /\ Path(c) /\ c[Len(c)] = Parent[x] /\ Chain[x] = Append(c, x)
      BY <3>1, <3>3, <1>1
    <3> HIDE DEF c, p
    <3>5. Path(Append(c, x)) /\ Append(c, x)[Len(Append(c, x))] = x
      BY <3>4, <2>2, PathGrows, Appended
    <3> QED BY <3>4, <3>5
  <2> QED BY <2>1, <2>2
<1>6. L \in Nat
  BY <1>1
<1>7. \A n \in 0..L : n \in S
  <2> HIDE DEF S, L
  <2> QED BY <1>4, <1>5, <1>6, UpTo
<1>8. L \in S
  <2> HIDE DEF S
  <2> QED BY <1>6, <1>7
<1> QED BY <1>1, <1>8

(* A path ends like the chain to its last block, at every place of it.     *)
LEMMA PathIsChain ==
  ASSUME NEW s, Path(s), NEW n \in 1..Len(s)
  PROVE  /\ s[n] \in Blocks /\ Len(Chain[s[n]]) = n
         /\ \A i \in 1..n : Chain[s[n]][i] = s[i]
<1> DEFINE Right(m) == /\ Len(Chain[s[m]]) = m
                       /\ \A i \in 1..m : Chain[s[m]][i] = s[i]
           L == Len(s)
           S == {m \in 0..L : m # 0 => Right(m)}
<1>1. /\ s \in Seq(Blocks) /\ L >= 1 /\ s[1] = Genesis /\ L \in Nat
      /\ \A i \in 2..L : s[i] # Genesis /\ Parent[s[i]] = s[i - 1]
      /\ \A i \in 1..L : s[i] \in Blocks
  BY DEF Path
<1>2. 0 \in S
  BY <1>1
<1>3. ASSUME NEW m \in 1..L, m - 1 \in S PROVE m \in S
  <2>1. CASE m = 1
    <3>1. Chain[s[1]] = <<Genesis>>
      BY <1>1, Tree
    <3>2. Len(<<Genesis>>) = 1 /\ <<Genesis>>[1] = Genesis
      OBVIOUS
    <3>3. \A i \in 1..1 : Chain[s[1]][i] = s[i]
      BY <3>1, <3>2, <1>1
    <3>4. Right(1)
      BY <3>1, <3>2, <3>3
    <3> QED BY <2>1, <3>4, <1>1
  <2>2. CASE m # 1
    <3>1. Right(m - 1) /\ m \in 2..L /\ m - 1 \in 1..L
      BY <1>1, <1>3, <2>2
    <3>2. s[m] \in Blocks /\ s[m] # Genesis /\ Parent[s[m]] = s[m - 1]
      BY <1>1, <3>1
    <3> DEFINE c == Chain[s[m - 1]]
    <3>3. c \in Seq(Blocks) /\ Chain[s[m]] = Append(c, s[m])
      BY <3>1, <3>2, <1>1, Tree
    <3>4. Len(c) = m - 1 /\ \A i \in 1..(m - 1) : c[i] = s[i]
      BY <3>1
    <3> HIDE DEF c
    <3>5. /\ Len(Append(c, s[m])) = Len(c) + 1
          /\ \A i \in 1..Len(c) : Append(c, s[m])[i] = c[i]
          /\ Append(c, s[m])[Len(c) + 1] = s[m]
      BY <3>2, <3>3, Appended
    <3>6. Right(m)
      <4>1. Len(Append(c, s[m])) = m
        BY <3>4, <3>5, <1>1
      <4>2. ASSUME NEW i \in 1..m PROVE Append(c, s[m])[i] = s[i]
        <5>1. CASE i = m
          BY <5>1, <3>4, <3>5, <1>1
        <5>2. CASE i # m
          <6>1. i \in 1..(m - 1)
            BY <5>2, <1>1
          <6> QED BY <6>1, <3>4, <3>5
        <5> QED BY <5>1, <5>2
      <4> QED BY <4>1, <4>2, <3>3
    <3> QED BY <3>6, <1>1
  <2> QED BY <2>1, <2>2
<1>4. \A m \in 0..L : m \in S
  <2> HIDE DEF S, L
  <2> QED BY <1>1, <1>2, <1>3, UpTo
<1>5. n \in S /\ n # 0
  <2> HIDE DEF S
  <2> QED BY <1>1, <1>4
<1> QED BY <1>1, <1>5
(* What a list of blocks pays and spends, place by place.                  *)
LEMMA PaidAt ==
  ASSUME NEW s \in Seq(Blocks), NEW o
  PROVE  o \in OutsIn(s) <=>
           \E i \in DOMAIN s : \E n \in DOMAIN TxsOf[s[i]] : o \in Range(Outs[TxsOf[s[i]][n]])
<1>1. ASSUME o \in OutsIn(s)
      PROVE  \E i \in DOMAIN s : \E n \in DOMAIN TxsOf[s[i]] : o \in Range(Outs[TxsOf[s[i]][n]])
  <2>1. PICK t \in TxsIn(s) : o \in Range(Outs[t])
    BY <1>1 DEF OutsIn
  <2>2. PICK b \in Range(s) : t \in Range(TxsOf[b])
    BY <2>1 DEF TxsIn
  <2>3. PICK i \in DOMAIN s : b = s[i]
    BY <2>2 DEF Range
  <2>4. PICK n \in DOMAIN TxsOf[b] : t = TxsOf[b][n]
    BY <2>2 DEF Range
  <2> QED BY <2>1, <2>3, <2>4
<1>2. ASSUME NEW i \in DOMAIN s, NEW n \in DOMAIN TxsOf[s[i]], o \in Range(Outs[TxsOf[s[i]][n]])
      PROVE  o \in OutsIn(s)
  <2>1. s[i] \in Range(s) /\ TxsOf[s[i]][n] \in Range(TxsOf[s[i]])
    BY DEF Range
  <2>2. TxsOf[s[i]][n] \in TxsIn(s)
    BY <2>1 DEF TxsIn
  <2> QED BY <1>2, <2>2 DEF OutsIn
<1> QED BY <1>1, <1>2

LEMMA SpentAt ==
  ASSUME NEW s \in Seq(Blocks), NEW k
  PROVE  k \in SpentIn(s) <=>
           \E i \in DOMAIN s : \E n \in DOMAIN TxsOf[s[i]] : k \in Ins[TxsOf[s[i]][n]]
BY DEF SpentIn, TxsIn, Range

LEMMA PaidByOne ==
  ASSUME NEW b \in Blocks, NEW o
  PROVE  o \in OutsIn(<<b>>) <=> \E n \in DOMAIN TxsOf[b] : o \in Range(Outs[TxsOf[b][n]])
<1>1. <<b>> \in Seq(Blocks) /\ DOMAIN <<b>> = {1} /\ <<b>>[1] = b
  OBVIOUS
<1> QED BY <1>1, PaidAt

LEMMA InDomain ==
  ASSUME NEW t \in Txs, NEW o \in Range(Outs[t])
  PROVE  o \in DOMAIN KeyImage /\ KeyImage[o] \in Range(KeyImage)
<1>1. Outs[t] \in Seq(DOMAIN KeyImage)
  BY TxTypes
<1>2. o \in DOMAIN KeyImage
  BY <1>1 DEF Range
<1> QED BY <1>2 DEF Range

(* Block i <= j of a list pays k, in an earlier transaction if i = j.       *)
PaysFirst(s, j, n, k) ==
  \E i \in 1..j : \E l \in DOMAIN TxsOf[s[i]] : \E o \in Range(Outs[TxsOf[s[i]][l]]) :
    k = KeyImage[o] /\ (i < j \/ l < n)

(***************************************************************************)
(* On a path of the block tree, nothing of ours is spent before it is paid.  *)
(***************************************************************************)
LEMMA PaidEarlier ==
  ASSUME NEW s, Path(s), NEW j \in 1..Len(s), NEW n \in DOMAIN TxsOf[s[j]],
         NEW k \in Range(KeyImage), k \in Ins[TxsOf[s[j]][n]]
  PROVE  PaysFirst(s, j, n, k)
<1>1. /\ s \in Seq(Blocks) /\ Len(s) \in Nat /\ s[j] \in Blocks
      /\ \A i \in 2..Len(s) : s[i] # Genesis /\ Parent[s[i]] = s[i - 1]
  BY DEF Path
<1>2. TxsOf[s[j]] \in Seq(Txs) /\ n \in 1..Len(TxsOf[s[j]]) /\ Len(TxsOf[s[j]]) \in Nat
  BY <1>1, TxTypes
<1>3. k \in {KeyImage[o] : o \in PaidBefore(s[j], n)}
  BY <1>1, TreeAssumption
<1>4. PICK o \in PaidBefore(s[j], n) : k = KeyImage[o]
  BY <1>3
<1>5. CASE o \in UNION {Range(Outs[TxsOf[s[j]][i]]) : i \in 1..(n - 1)}
  <2>1. PICK l \in 1..(n - 1) : o \in Range(Outs[TxsOf[s[j]][l]])
    BY <1>5
  <2>2. l \in DOMAIN TxsOf[s[j]] /\ l < n /\ j \in 1..j
    BY <1>2, <2>1
  <2> QED BY <1>4, <2>1, <2>2 DEF PaysFirst
<1>6. CASE s[j] # Genesis /\ o \in OutsIn(Chain[Parent[s[j]]])
  <2>1. j # 1
    BY <1>6 DEF Path
  <2>2. j - 1 \in 1..Len(s) /\ j \in 2..Len(s)
    BY <2>1, <1>1
  <2>3. Parent[s[j]] = s[j - 1]
    BY <2>2, <1>1
  <2> DEFINE c == Chain[s[j - 1]]
  <2>4. s[j - 1] \in Blocks /\ Len(c) = j - 1 /\ \A i \in 1..(j - 1) : c[i] = s[i]
    BY <2>2, PathIsChain
  <2>5. c \in Seq(Blocks) /\ o \in OutsIn(c)
    BY <2>3, <2>4, <1>6, Tree
  <2> HIDE DEF c
  <2>6. PICK i \in DOMAIN c : \E l \in DOMAIN TxsOf[c[i]] : o \in Range(Outs[TxsOf[c[i]][l]])
    BY <2>5, PaidAt
  <2>7. i \in 1..j /\ i < j /\ c[i] = s[i]
    BY <2>2, <2>4, <2>5, <2>6
  <2> QED BY <1>4, <2>6, <2>7 DEF PaysFirst
<1>7. o \in UNION {Range(Outs[TxsOf[s[j]][i]]) : i \in 1..(n - 1)}
        \/ (s[j] # Genesis /\ o \in OutsIn(Chain[Parent[s[j]]]))
  <2>1. CASE s[j] = Genesis
    BY <2>1, <1>4, Zenon DEF PaidBefore
  <2>2. CASE s[j] # Genesis
    BY <2>2, <1>4, Zenon DEF PaidBefore
  <2> QED BY <2>1, <2>2
<1> QED BY <1>5, <1>6, <1>7
-----------------------------------------------------------------------------
(* The stored members.                                                     *)

LEMMA Fields ==
  ASSUME NEW m \in Members
  PROVE  /\ m.m_blockchain \in Seq(Blocks) /\ m.m_transfers \in Seq(Transfers)
         /\ m.m_key_images \in Images
         /\ m.m_unconfirmed_txs \subseteq OwnTxs /\ m.m_tx_keys \subseteq OwnTxs
         /\ m.m_pending_key_images \subseteq DOMAIN KeyImage
         /\ Len(m.m_blockchain) \in Nat /\ Len(m.m_transfers) \in Nat
         /\ DOMAIN m.m_blockchain = 1..Len(m.m_blockchain)
         /\ DOMAIN m.m_transfers = 1..Len(m.m_transfers)
<1>1. /\ m.m_blockchain \in Seq(Blocks) /\ m.m_transfers \in Seq(Transfers)
      /\ m.m_key_images \in Images
      /\ m.m_unconfirmed_txs \subseteq OwnTxs /\ m.m_tx_keys \subseteq OwnTxs
      /\ m.m_pending_key_images \subseteq DOMAIN KeyImage
  BY DEF Members
<1> QED BY <1>1

LEMMA ImageFields ==
  ASSUME NEW f
  PROVE  f \in Images <=> /\ DOMAIN f \subseteq Range(KeyImage) /\ f \in [DOMAIN f -> Nat]
<1>1. ASSUME f \in Images PROVE DOMAIN f \subseteq Range(KeyImage) /\ f \in [DOMAIN f -> Nat]
  <2>1. PICK K \in SUBSET Range(KeyImage) : f \in [K -> Nat]
    BY <1>1 DEF Images
  <2> QED BY <2>1
<1>2. ASSUME DOMAIN f \subseteq Range(KeyImage), f \in [DOMAIN f -> Nat] PROVE f \in Images
  BY <1>2 DEF Images
<1> QED BY <1>1, <1>2

LEMMA TransferFields ==
  ASSUME NEW td \in Transfers
  PROVE  /\ td.out \in DOMAIN KeyImage /\ td.m_block_height \in Nat /\ td.m_spent \in BOOLEAN
         /\ td.m_key_image \in Range(KeyImage) \cup {NoKey}
BY DEF Transfers

LEMMA OneTransfer ==
  ASSUME NEW m \in Members, NEW i \in DOMAIN m.m_transfers
  PROVE  /\ m.m_transfers[i] \in Transfers /\ i \in Nat /\ i >= 1 /\ i <= Len(m.m_transfers)
         /\ m.m_transfers[i].out \in DOMAIN KeyImage
         /\ m.m_transfers[i].m_block_height \in Nat
         /\ m.m_transfers[i].m_spent \in BOOLEAN
         /\ m.m_transfers[i].m_key_image \in Range(KeyImage) \cup {NoKey}
<1>1. m.m_transfers \in Seq(Transfers) /\ Len(m.m_transfers) \in Nat /\ i \in 1..Len(m.m_transfers)
  BY Fields
<1>2. m.m_transfers[i] \in Transfers
  BY <1>1
<1> QED BY <1>1, <1>2, TransferFields

LEMMA FlagFields ==
  ASSUME NEW m \in Members, NEW indexes, NEW flag \in BOOLEAN
  PROVE  LET r == set_transfer_spent_flag(m, indexes, flag)
         IN  /\ r \in Members
             /\ r.m_blockchain = m.m_blockchain /\ r.m_key_images = m.m_key_images
             /\ r.m_unconfirmed_txs = m.m_unconfirmed_txs /\ r.m_tx_keys = m.m_tx_keys
             /\ r.m_pending_key_images = m.m_pending_key_images
             /\ Len(r.m_transfers) = Len(m.m_transfers)
             /\ DOMAIN r.m_transfers = DOMAIN m.m_transfers
             /\ \A i \in DOMAIN m.m_transfers :
                  /\ r.m_transfers[i].out = m.m_transfers[i].out
                  /\ r.m_transfers[i].m_block_height = m.m_transfers[i].m_block_height
                  /\ r.m_transfers[i].m_key_image = m.m_transfers[i].m_key_image
                  /\ r.m_transfers[i].m_spent = IF i \in indexes THEN flag ELSE m.m_transfers[i].m_spent
<1> DEFINE s == m.m_transfers
           One(i) == IF i \in indexes THEN [s[i] EXCEPT !.m_spent = flag] ELSE s[i]
           z == [i \in DOMAIN s |-> One(i)]
           r == [m EXCEPT !.m_transfers = z]
<1>1. s \in Seq(Transfers) /\ Len(s) \in Nat /\ DOMAIN s = 1..Len(s)
  BY Fields
<1>2. ASSUME NEW i \in DOMAIN s
      PROVE  /\ One(i) \in Transfers /\ One(i).out = s[i].out
             /\ One(i).m_block_height = s[i].m_block_height
             /\ One(i).m_key_image = s[i].m_key_image
             /\ One(i).m_spent = IF i \in indexes THEN flag ELSE s[i].m_spent
  <2>1. s[i] \in Transfers
    BY <1>1
  <2> HIDE DEF s
  <2> QED BY <2>1 DEF Transfers
<1>3. z \in Seq(Transfers) /\ Len(z) = Len(s) /\ DOMAIN z = DOMAIN s /\ \A i \in DOMAIN s : z[i] = One(i)
  <2> HIDE DEF s, One
  <2>1. z \in [1..Len(s) -> Transfers]
    BY <1>1, <1>2
  <2> QED BY <1>1, <2>1
<1> HIDE DEF z, One
<1>4. /\ r \in Members /\ r.m_transfers = z
      /\ r.m_blockchain = m.m_blockchain /\ r.m_key_images = m.m_key_images
      /\ r.m_unconfirmed_txs = m.m_unconfirmed_txs /\ r.m_tx_keys = m.m_tx_keys
      /\ r.m_pending_key_images = m.m_pending_key_images
  BY <1>3 DEF Members
<1>5. set_transfer_spent_flag(m, indexes, flag) = r
  BY Zenon DEF set_transfer_spent_flag, r, z, One, s
<1> HIDE DEF r
<1> QED BY <1>2, <1>3, <1>4, <1>5 DEF s

LEMMA FlagRest ==
  ASSUME NEW m \in Members, NEW indexes, NEW flag \in BOOLEAN
  PROVE  /\ set_transfer_spent_flag(m, indexes, flag) \in Members
         /\ set_transfer_spent_flag(m, indexes, flag).m_blockchain = m.m_blockchain
         /\ set_transfer_spent_flag(m, indexes, flag).m_key_images = m.m_key_images
         /\ set_transfer_spent_flag(m, indexes, flag).m_pending_key_images = m.m_pending_key_images
BY FlagFields

(* What a change of flags, names or other members keeps.                   *)
Unmoved(m, r) ==
  /\ r.m_blockchain = m.m_blockchain /\ DOMAIN r.m_transfers = DOMAIN m.m_transfers
  /\ \A i \in DOMAIN m.m_transfers :
       /\ r.m_transfers[i].out = m.m_transfers[i].out
       /\ r.m_transfers[i].m_block_height = m.m_transfers[i].m_block_height

LEMMA UnmovedAtHeight ==
  ASSUME NEW m, NEW r, Unmoved(m, r), NEW rest, AtHeight(m, rest)
  PROVE  AtHeight(r, rest)
BY DEF Unmoved, AtHeight

(* Nothing but spent flags changed, and none was taken off a source that   *)
(* was marked already.                                                     *)
Marked(m, r) ==
  /\ Unmoved(m, r) /\ r.m_key_images = m.m_key_images
  /\ \A i \in DOMAIN m.m_transfers :
       /\ r.m_transfers[i].m_key_image = m.m_transfers[i].m_key_image
       /\ m.m_transfers[i].m_spent => r.m_transfers[i].m_spent

LEMMA MarkedKnown ==
  ASSUME NEW m, NEW r, Marked(m, r), Indexed(m), NEW o, NEW h, KnownSince(m, o, h)
  PROVE  KnownSince(r, o, h)
BY DEF Marked, Unmoved, Indexed, KnownSince

LEMMA MarkedSpent ==
  ASSUME NEW m, NEW r, Marked(m, r), NEW t, SpentOf(m, t)
  PROVE  SpentOf(r, t)
BY DEF Marked, Unmoved, SpentOf

LEMMA MarkedSound ==
  ASSUME NEW m, NEW r, Marked(m, r), Sound(m)
  PROVE  Sound(r)
<1>1. Indexed(m) /\ Ordered(m)
  BY DEF Sound
<1>2. Indexed(r)
  BY <1>1 DEF Indexed, Marked, Unmoved
<1>3. Ordered(r)
  BY <1>1 DEF Ordered, Marked, Unmoved
<1>4. ASSUME NEW j \in DOMAIN r.m_blockchain PROVE Scanned(r, r.m_blockchain[j], j - 1)
  <2>1. r.m_blockchain = m.m_blockchain
    BY DEF Marked, Unmoved
  <2> DEFINE b == m.m_blockchain[j]
  <2>2. Scanned(m, b, j - 1)
    BY <2>1 DEF Sound
  <2> HIDE DEF b
  <2>3. ASSUME NEW n \in DOMAIN TxsOf[b]
        PROVE  /\ \A o \in Range(Outs[TxsOf[b][n]]) : KnownSince(r, o, j - 1)
               /\ SpentOf(r, TxsOf[b][n])
    <3>1. /\ \A o \in Range(Outs[TxsOf[b][n]]) : KnownSince(m, o, j - 1)
          /\ SpentOf(m, TxsOf[b][n])
      BY <2>2 DEF Scanned
    <3> QED BY <3>1, <1>1, MarkedKnown, MarkedSpent
  <2>4. Scanned(r, b, j - 1)
    BY <2>3 DEF Scanned
  <2> QED BY <2>1, <2>4 DEF b
<1> QED BY <1>2, <1>3, <1>4 DEF Sound

LEMMA MarkedGood ==
  ASSUME NEW v, NEW m, NEW r \in Members, NEW rest, Good(v, m, rest), Unmoved(m, r), ~v => Marked(m, r)
  PROVE  Good(v, r, rest)
<1>1. AtHeight(r, rest) /\ Path(r.m_blockchain)
  BY UnmovedAtHeight DEF Good, Unmoved
<1>2. ~v => Sound(r)
  BY MarkedSound DEF Good
<1> QED BY <1>1, <1>2 DEF Good
LEMMA FlagUnmoved ==
  ASSUME NEW m \in Members, NEW indexes, NEW flag \in BOOLEAN
  PROVE  Unmoved(m, set_transfer_spent_flag(m, indexes, flag))
<1> DEFINE r == set_transfer_spent_flag(m, indexes, flag)
<1>1. /\ r.m_blockchain = m.m_blockchain /\ DOMAIN r.m_transfers = DOMAIN m.m_transfers
      /\ \A i \in DOMAIN m.m_transfers :
           /\ r.m_transfers[i].out = m.m_transfers[i].out
           /\ r.m_transfers[i].m_block_height = m.m_transfers[i].m_block_height
  BY FlagFields
<1> QED BY <1>1 DEF Unmoved

LEMMA FlagMarks ==
  ASSUME NEW m \in Members, NEW indexes, NEW flag \in BOOLEAN,
         flag \/ \A i \in indexes \cap DOMAIN m.m_transfers : ~m.m_transfers[i].m_spent
  PROVE  Marked(m, set_transfer_spent_flag(m, indexes, flag))
<1> DEFINE r == set_transfer_spent_flag(m, indexes, flag)
<1>1. Unmoved(m, r)
  BY FlagUnmoved
<1>2. /\ r.m_key_images = m.m_key_images
      /\ \A i \in DOMAIN m.m_transfers :
           /\ r.m_transfers[i].m_key_image = m.m_transfers[i].m_key_image
           /\ r.m_transfers[i].m_spent = IF i \in indexes THEN flag ELSE m.m_transfers[i].m_spent
  BY FlagFields
<1> HIDE DEF r
<1>3. ASSUME NEW i \in DOMAIN m.m_transfers, m.m_transfers[i].m_spent PROVE r.m_transfers[i].m_spent
  BY <1>2, <1>3
<1> QED BY <1>1, <1>2, <1>3 DEF Marked, r

-----------------------------------------------------------------------------
(* Receiving.  A transaction adds transfers at the end, at one height, with *)
(* key images that were not known, and marks transfers as spent.           *)
Grown(m, r, h) ==
  /\ r.m_blockchain = m.m_blockchain
  /\ r.m_pending_key_images = m.m_pending_key_images
  /\ Len(m.m_transfers) <= Len(r.m_transfers)
  /\ \A i \in DOMAIN m.m_transfers :
       /\ r.m_transfers[i].out = m.m_transfers[i].out
       /\ r.m_transfers[i].m_block_height = m.m_transfers[i].m_block_height
       /\ r.m_transfers[i].m_key_image = m.m_transfers[i].m_key_image
       /\ m.m_transfers[i].m_spent => r.m_transfers[i].m_spent
  /\ \A i \in DOMAIN r.m_transfers : i > Len(m.m_transfers) =>
       /\ r.m_transfers[i].m_block_height = h
       /\ r.m_transfers[i].m_key_image \notin DOMAIN m.m_key_images
  /\ \A k \in DOMAIN m.m_key_images :
       k \in DOMAIN r.m_key_images /\ r.m_key_images[k] = m.m_key_images[k]

LEMMA GrownTwice ==
  ASSUME NEW a \in Members, NEW b \in Members, NEW c \in Members, NEW h,
         Grown(a, b, h), Grown(b, c, h)
  PROVE  Grown(a, c, h)
<1>1. /\ Len(a.m_transfers) \in Nat /\ Len(b.m_transfers) \in Nat /\ Len(c.m_transfers) \in Nat
      /\ DOMAIN a.m_transfers = 1..Len(a.m_transfers)
      /\ DOMAIN b.m_transfers = 1..Len(b.m_transfers)
      /\ DOMAIN c.m_transfers = 1..Len(c.m_transfers)
  BY Fields
<1>2. Len(a.m_transfers) <= Len(b.m_transfers) /\ Len(b.m_transfers) <= Len(c.m_transfers)
  BY DEF Grown
<1>3. Len(a.m_transfers) <= Len(c.m_transfers)
  BY <1>1, <1>2
<1>4. ASSUME NEW i \in DOMAIN a.m_transfers
      PROVE  /\ c.m_transfers[i].out = a.m_transfers[i].out
             /\ c.m_transfers[i].m_block_height = a.m_transfers[i].m_block_height
             /\ c.m_transfers[i].m_key_image = a.m_transfers[i].m_key_image
             /\ a.m_transfers[i].m_spent => c.m_transfers[i].m_spent
  <2>1. i \in DOMAIN b.m_transfers
    BY <1>1, <1>2
  <2> QED BY <2>1 DEF Grown
<1>5. ASSUME NEW i \in DOMAIN c.m_transfers, i > Len(a.m_transfers)
      PROVE  /\ c.m_transfers[i].m_block_height = h
             /\ c.m_transfers[i].m_key_image \notin DOMAIN a.m_key_images
  <2>1. CASE i > Len(b.m_transfers)
    BY <2>1 DEF Grown
  <2>2. CASE ~(i > Len(b.m_transfers))
    <3>1. i \in DOMAIN b.m_transfers
      BY <2>2, <1>1, <1>5
    <3> QED BY <3>1, <1>5 DEF Grown
  <2> QED BY <2>1, <2>2
<1>6. \A k \in DOMAIN a.m_key_images :
        k \in DOMAIN c.m_key_images /\ c.m_key_images[k] = a.m_key_images[k]
  BY DEF Grown
<1>7. c.m_blockchain = a.m_blockchain /\ c.m_pending_key_images = a.m_pending_key_images
  BY DEF Grown
<1> QED BY <1>3, <1>4, <1>5, <1>6, <1>7 DEF Grown

LEMMA ReceivedGrows ==
  ASSUME NEW m \in Members, NEW o \in DOMAIN KeyImage, NEW h \in Nat
  PROVE  LET r == Received(m, o, h)
         IN  /\ r \in Members /\ Grown(m, r, h)
             /\ ~m_is_view_only /\ Indexed(m) => Indexed(r) /\ KeyImage[o] \in DOMAIN r.m_key_images
<1> DEFINE ki == KnownImage(m, o)
           s == m.m_transfers
           f == m.m_key_images
           i == Len(s) + 1
           td == [out |-> o, m_block_height |-> h, m_spent |-> FALSE, m_key_image |-> ki]
           g == IF ki = NoKey THEN f ELSE [k \in DOMAIN f \cup {ki} |-> IF k = ki THEN i ELSE f[k]]
           r == [m EXCEPT !.m_transfers = Append(s, td), !.m_key_images = g]
           res == Received(m, o, h)
<1>1. ki \in Range(KeyImage) \cup {NoKey} /\ (~m_is_view_only => ki = KeyImage[o] /\ ki # NoKey)
  BY TxTypes DEF KnownImage, Range
<1>2. s \in Seq(Transfers) /\ Len(s) \in Nat /\ DOMAIN s = 1..Len(s)
  BY Fields
<1>3. DOMAIN f \subseteq Range(KeyImage) /\ f \in [DOMAIN f -> Nat]
  BY Fields, ImageFields
<1> HIDE DEF ki
<1>4. CASE ki \in DOMAIN f
  <2>1. res = m
    BY <1>4, Zenon DEF Received, ki, f
  <2>2. Grown(m, m, h)
    BY <1>2 DEF Grown
  <2>3. ~m_is_view_only => KeyImage[o] \in DOMAIN m.m_key_images
    BY <1>1, <1>4
  <2> QED BY <2>1, <2>2, <2>3
<1>5. CASE ki \notin DOMAIN f
  <2>1. res = r
    BY <1>5, Zenon DEF Received, ki, f, s, i, td, g, r
  <2>2. td \in Transfers
    BY <1>1 DEF Transfers
  <2>3. td.m_block_height = h /\ td.m_key_image = ki
    OBVIOUS
  <2>4. i \in Nat /\ i = Len(s) + 1
    BY <1>2
  <2> HIDE DEF td, i
  <2>5. /\ g \in Images /\ \A k \in DOMAIN f : k \in DOMAIN g /\ g[k] = f[k]
        /\ ki # NoKey => /\ DOMAIN g = DOMAIN f \cup {ki} /\ g[ki] = i
    <3>1. CASE ki = NoKey
      BY <3>1, <1>3, ImageFields
    <3>2. CASE ki # NoKey
      <4>1. g = [k \in DOMAIN f \cup {ki} |-> IF k = ki THEN i ELSE f[k]]
        BY <3>2
      <4> HIDE DEF g, f
      <4>2. DOMAIN g = DOMAIN f \cup {ki}
        BY <4>1
      <4>3. g \in [DOMAIN g -> Nat] /\ DOMAIN g \subseteq Range(KeyImage)
        BY <4>1, <4>2, <1>1, <1>3, <2>4, <3>2
      <4>4. \A k \in DOMAIN f : g[k] = f[k]
        BY <4>1, <1>5
      <4>5. g[ki] = i
        BY <4>1
      <4>6. g \in Images
        BY <4>3, ImageFields
      <4> QED BY <4>2, <4>4, <4>5, <4>6
    <3> QED BY <3>1, <3>2
  <2> HIDE DEF g
  <2>6. /\ Append(s, td) \in Seq(Transfers) /\ Len(Append(s, td)) = i
        /\ DOMAIN Append(s, td) = 1..i
        /\ \A j \in 1..Len(s) : Append(s, td)[j] = s[j]
        /\ Append(s, td)[i] = td
    <3> HIDE DEF s
    <3> QED BY <1>2, <2>2, <2>4, Appended
  <2> DEFINE z == Append(s, td)
  <2> HIDE DEF z
  <2>7. /\ r \in Members /\ r.m_transfers = z /\ r.m_key_images = g
        /\ r.m_blockchain = m.m_blockchain /\ r.m_pending_key_images = m.m_pending_key_images
    <3>1. z \in Seq(Transfers) /\ g \in Images
      BY <2>5, <2>6 DEF z
    <3>2. r = [m EXCEPT !.m_transfers = z, !.m_key_images = g]
      BY DEF z
    <3> HIDE DEF r
    <3> QED BY <3>1, <3>2 DEF Members
  <2>8. /\ Len(z) = i /\ DOMAIN z = 1..i /\ z[i] = td
        /\ \A j \in DOMAIN s : z[j] = s[j] /\ j \in DOMAIN z /\ j # i
    BY <2>4, <2>6, <1>2 DEF z
  <2> HIDE DEF r
  <2>9. Grown(m, r, h)
    <3>1. \A j \in DOMAIN z : j > Len(s) => j = i
      BY <2>4, <2>8, <1>2
    <3>2. \A j \in DOMAIN z : j > Len(s) => z[j].m_block_height = h /\ z[j].m_key_image \notin DOMAIN f
      BY <3>1, <2>3, <2>8, <1>5
    <3>3. Len(s) <= Len(z)
      BY <2>4, <2>8, <1>2
    <3> QED BY <2>5, <2>7, <2>8, <3>2, <3>3 DEF Grown
  <2>10. ASSUME ~m_is_view_only, Indexed(m)
         PROVE  Indexed(r) /\ KeyImage[o] \in DOMAIN r.m_key_images
    <3>1. ki = KeyImage[o] /\ ki # NoKey /\ DOMAIN g = DOMAIN f \cup {ki} /\ g[ki] = i
      BY <1>1, <2>5, <2>10
    <3>2. \A k \in DOMAIN f : f[k] \in DOMAIN s /\ s[f[k]].m_key_image = k
      BY <2>10 DEF Indexed
    <3>3. \A j \in DOMAIN s : s[j].m_key_image \in DOMAIN f /\ f[s[j].m_key_image] = j
      BY <2>10 DEF Indexed
    <3> HIDE DEF s, f
    <3>4. ASSUME NEW k \in DOMAIN g PROVE g[k] \in DOMAIN z /\ z[g[k]].m_key_image = k
      <4>1. CASE k = ki
        BY <4>1, <3>1, <2>3, <2>4, <2>8
      <4>2. CASE k # ki
        <5>1. k \in DOMAIN f /\ g[k] = f[k]
          BY <4>2, <3>1, <2>5
        <5> QED BY <5>1, <3>2, <2>8
      <4> QED BY <4>1, <4>2
    <3>5. ASSUME NEW j \in DOMAIN z PROVE z[j].m_key_image \in DOMAIN g /\ g[z[j].m_key_image] = j
      <4>1. CASE j = i
        BY <4>1, <3>1, <2>3, <2>8
      <4>2. CASE j # i
        <5>1. j \in DOMAIN s /\ z[j] = s[j]
          BY <4>2, <2>4, <2>8, <1>2
        <5> QED BY <5>1, <3>1, <3>3, <2>5
      <4> QED BY <4>1, <4>2
    <3> QED BY <3>1, <3>4, <3>5, <2>7 DEF Indexed
  <2> QED BY <2>1, <2>7, <2>9, <2>10
<1> QED BY <1>4, <1>5
(* The equations of the loop over the outputs of a transaction.            *)
LEMMA ProcessUnfolds ==
  ASSUME NEW m \in Members, NEW t \in Txs, NEW h \in Nat
  PROVE  \E g : /\ process_new_transaction(m, t, h)
                     = set_transfer_spent_flag(g[Len(Outs[t])], Own(g[Len(Outs[t])], t), TRUE)
                /\ g[0] = process_unconfirmed(m, t)
                /\ \A n \in 1..Len(Outs[t]) : g[n] = Received(g[n - 1], Outs[t][n], h)
<1> DEFINE L == Len(Outs[t])
           V == Members
           first == process_unconfirmed(m, t)
           step == [p \in (1..L) \X V |-> Received(p[2], Outs[t][p[1]], h)]
           Unfolds(f) == f = [n \in 0..L |-> IF n = 0 THEN first ELSE Received(f[n - 1], Outs[t][n], h)]
<1>1. Outs[t] \in Seq(DOMAIN KeyImage)
  BY TxTypes
<1>2. L \in Nat /\ \A n \in 1..L : Outs[t][n] \in DOMAIN KeyImage
  BY <1>1
<1>3. first \in V
  BY DEF process_unconfirmed, Members
<1>4. \A n \in 1..L : \A v \in V : step[<<n, v>>] = Received(v, Outs[t][n], h)
  OBVIOUS
<1>5. IsStep(step, L, V)
  <2> HIDE DEF step, L
  <2>1. ASSUME NEW n \in 1..L, NEW v \in V PROVE step[<<n, v>>] \in V
    <3>1. Received(v, Outs[t][n], h) \in Members
      BY <1>2, ReceivedGrows
    <3> QED BY <3>1, <1>4
  <2> QED BY <2>1 DEF IsStep
<1> HIDE DEF V, step
<1>6. PICK f : Iterates(f, L, V, first, step)
  BY <1>2, <1>3, <1>5, RecursionExists
<1>7. Unfolds(f)
  <2>1. f = [n \in 0..L |-> f[n]] /\ f[0] = first
    BY <1>6 DEF Iterates
  <2>2. \A n \in 0..L : n # 0 => n \in 1..L /\ n - 1 \in 0..L
    BY <1>2
  <2>3. \A n \in 0..L : n # 0 => f[n] = Received(f[n - 1], Outs[t][n], h)
    BY <2>2, <1>4, <1>6 DEF Iterates
  <2>4. \A n \in 0..L : f[n] = IF n = 0 THEN first ELSE Received(f[n - 1], Outs[t][n], h)
    BY <2>1, <2>3, Zenon
  <2> QED BY <2>1, <2>4, Zenon
<1>8. PICK g : /\ Unfolds(g)
               /\ process_new_transaction(m, t, h) = set_transfer_spent_flag(g[L], Own(g[L], t), TRUE)
  BY <1>7, Zenon DEF process_new_transaction
<1>9. g[0] = first /\ \A n \in 1..L : g[n] = Received(g[n - 1], Outs[t][n], h)
  <2>1. \A n \in 0..L : g[n] = IF n = 0 THEN first ELSE Received(g[n - 1], Outs[t][n], h)
    BY <1>8
  <2>2. 0 \in 0..L /\ \A n \in 1..L : n \in 0..L /\ n # 0
    BY <1>2
  <2> QED BY <2>1, <2>2
<1> QED BY <1>8, <1>9

LEMMA ProcessGrows ==
  ASSUME NEW m \in Members, NEW t \in Txs, NEW h \in Nat
  PROVE  LET r == process_new_transaction(m, t, h)
         IN  /\ r \in Members /\ Grown(m, r, h)
             /\ ~m_is_view_only /\ Indexed(m) =>
                  /\ Indexed(r) /\ SpentOf(r, t)
                  /\ \A o \in Range(Outs[t]) : KeyImage[o] \in DOMAIN r.m_key_images
<1> DEFINE L == Len(Outs[t])
           first == process_unconfirmed(m, t)
<1>1. PICK g : /\ process_new_transaction(m, t, h) = set_transfer_spent_flag(g[L], Own(g[L], t), TRUE)
               /\ g[0] = first
               /\ \A n \in 1..L : g[n] = Received(g[n - 1], Outs[t][n], h)
  BY ProcessUnfolds
<1>2. Outs[t] \in Seq(DOMAIN KeyImage)
  BY TxTypes
<1>3. L \in Nat /\ DOMAIN Outs[t] = 1..L /\ \A n \in 1..L : Outs[t][n] \in DOMAIN KeyImage
  BY <1>2
<1>4. /\ first \in Members /\ first.m_transfers = m.m_transfers
      /\ first.m_key_images = m.m_key_images /\ first.m_blockchain = m.m_blockchain
      /\ first.m_pending_key_images = m.m_pending_key_images
  BY DEF process_unconfirmed, Members
<1>5. Len(m.m_transfers) \in Nat /\ DOMAIN m.m_transfers = 1..Len(m.m_transfers)
  BY Fields
<1> HIDE DEF first
<1>6. Grown(m, first, h)
  BY <1>4, <1>5 DEF Grown
<1> DEFINE Right(n) == /\ g[n] \in Members /\ Grown(m, g[n], h)
                       /\ ~m_is_view_only /\ Indexed(m) =>
                            /\ Indexed(g[n])
                            /\ \A i \in 1..n : KeyImage[Outs[t][i]] \in DOMAIN g[n].m_key_images
           S == {n \in 0..L : Right(n)}
<1> HIDE DEF L
<1>7. 0 \in S
  <2>1. Indexed(m) => Indexed(first)
    BY <1>4 DEF Indexed
  <2>2. Right(0)
    BY <1>1, <1>4, <1>6, <2>1
  <2> QED BY <2>2, <1>3
<1>8. ASSUME NEW n \in 1..L, n - 1 \in S PROVE n \in S
  <2> DEFINE a == g[n - 1]
             o == Outs[t][n]
             r == Received(a, o, h)
  <2>1. Right(n - 1) /\ n \in Nat /\ n >= 1
    BY <1>8, <1>3
  <2>2. a \in Members /\ Grown(m, a, h) /\ g[n] = r /\ o \in DOMAIN KeyImage
    BY <2>1, <1>1, <1>3
  <2>3. /\ ~m_is_view_only /\ Indexed(m) =>
             Indexed(a) /\ \A i \in 1..(n - 1) : KeyImage[Outs[t][i]] \in DOMAIN a.m_key_images
    BY <2>1
  <2>o. o = Outs[t][n]
    OBVIOUS
  <2> HIDE DEF a, o
  <2>4. /\ r \in Members /\ Grown(a, r, h)
        /\ ~m_is_view_only /\ Indexed(a) => Indexed(r) /\ KeyImage[o] \in DOMAIN r.m_key_images
    BY <2>2, ReceivedGrows
  <2> HIDE DEF r
  <2>5. Grown(m, r, h)
    BY <2>2, <2>4, GrownTwice
  <2>6. ASSUME ~m_is_view_only, Indexed(m)
        PROVE  Indexed(r) /\ \A i \in 1..n : KeyImage[Outs[t][i]] \in DOMAIN r.m_key_images
    <3>1. Indexed(r) /\ KeyImage[o] \in DOMAIN r.m_key_images
      BY <2>3, <2>4, <2>6
    <3>2. \A i \in 1..(n - 1) : KeyImage[Outs[t][i]] \in DOMAIN a.m_key_images
      BY <2>3, <2>6
    <3>3. DOMAIN a.m_key_images \subseteq DOMAIN r.m_key_images
      BY <2>4 DEF Grown
    <3>4. ASSUME NEW i \in 1..n PROVE KeyImage[Outs[t][i]] \in DOMAIN r.m_key_images
      <4>1. CASE i = n
        BY <4>1, <3>1, <2>o
      <4>2. CASE i # n
        <5>1. i \in 1..(n - 1)
          BY <4>2, <2>1
        <5> QED BY <5>1, <3>2, <3>3
      <4> QED BY <4>1, <4>2
    <3> QED BY <3>1, <3>4
  <2>7. Right(n)
    BY <2>2, <2>4, <2>5, <2>6
  <2> QED BY <2>7, <1>3
<1>9. \A n \in 0..L : n \in S
  <2> HIDE DEF S
  <2> QED BY <1>3, <1>7, <1>8, UpTo
<1>10. Right(L)
  <2>1. L \in S
    <3> HIDE DEF S
    <3> QED BY <1>3, <1>9
  <2> QED BY <2>1
<1> DEFINE all == g[L]
           r == set_transfer_spent_flag(all, Own(all, t), TRUE)
<1>11. /\ all \in Members /\ Grown(m, all, h)
       /\ ~m_is_view_only /\ Indexed(m) =>
            Indexed(all) /\ \A i \in 1..L : KeyImage[Outs[t][i]] \in DOMAIN all.m_key_images
  BY <1>10
<1>12. process_new_transaction(m, t, h) = r
  BY <1>1
<1> HIDE DEF all
<1>13. /\ r \in Members
       /\ r.m_blockchain = all.m_blockchain /\ r.m_key_images = all.m_key_images
       /\ r.m_pending_key_images = all.m_pending_key_images
       /\ Len(r.m_transfers) = Len(all.m_transfers)
       /\ DOMAIN r.m_transfers = DOMAIN all.m_transfers
       /\ \A i \in DOMAIN all.m_transfers :
            /\ r.m_transfers[i].out = all.m_transfers[i].out
            /\ r.m_transfers[i].m_block_height = all.m_transfers[i].m_block_height
            /\ r.m_transfers[i].m_key_image = all.m_transfers[i].m_key_image
            /\ r.m_transfers[i].m_spent = IF i \in Own(all, t) THEN TRUE ELSE all.m_transfers[i].m_spent
  <2> DEFINE own == Own(all, t)
             yes == TRUE
  <2>1. yes \in BOOLEAN /\ all \in Members
    BY <1>11
  <2>2. r = set_transfer_spent_flag(all, own, yes)
    OBVIOUS
  <2> HIDE DEF own, r, yes
  <2>3. /\ r \in Members
        /\ r.m_blockchain = all.m_blockchain /\ r.m_key_images = all.m_key_images
        /\ r.m_pending_key_images = all.m_pending_key_images
        /\ Len(r.m_transfers) = Len(all.m_transfers)
        /\ DOMAIN r.m_transfers = DOMAIN all.m_transfers
        /\ \A i \in DOMAIN all.m_transfers :
             /\ r.m_transfers[i].out = all.m_transfers[i].out
             /\ r.m_transfers[i].m_block_height = all.m_transfers[i].m_block_height
             /\ r.m_transfers[i].m_key_image = all.m_transfers[i].m_key_image
             /\ r.m_transfers[i].m_spent = IF i \in own THEN yes ELSE all.m_transfers[i].m_spent
    BY <2>1, <2>2, FlagFields
  <2> QED BY <2>3 DEF own, yes
<1> HIDE DEF r
<1>14. Grown(all, r, h)
  <2>1. Len(all.m_transfers) \in Nat /\ DOMAIN all.m_transfers = 1..Len(all.m_transfers)
    BY <1>11, Fields
  <2>2. \A i \in DOMAIN all.m_transfers : all.m_transfers[i].m_spent => r.m_transfers[i].m_spent
    BY <1>13
  <2>3. \A i \in DOMAIN r.m_transfers : ~(i > Len(all.m_transfers))
    BY <1>13, <2>1
  <2>4. \A i \in DOMAIN all.m_transfers :
          /\ r.m_transfers[i].out = all.m_transfers[i].out
          /\ r.m_transfers[i].m_block_height = all.m_transfers[i].m_block_height
          /\ r.m_transfers[i].m_key_image = all.m_transfers[i].m_key_image
          /\ all.m_transfers[i].m_spent => r.m_transfers[i].m_spent
    BY <1>13, <2>2, Zenon
  <2>5. Len(all.m_transfers) <= Len(r.m_transfers)
    BY <1>13, <2>1
  <2>6. \A k \in DOMAIN all.m_key_images :
          k \in DOMAIN r.m_key_images /\ r.m_key_images[k] = all.m_key_images[k]
    BY <1>13, Zenon
  <2>7. r.m_blockchain = all.m_blockchain /\ r.m_pending_key_images = all.m_pending_key_images
    BY <1>13
  <2> QED BY <2>3, <2>4, <2>5, <2>6, <2>7, Zenon DEF Grown
<1>15. Grown(m, r, h)
  BY <1>11, <1>13, <1>14, GrownTwice
<1>16. ASSUME ~m_is_view_only, Indexed(m)
       PROVE  /\ Indexed(r) /\ SpentOf(r, t)
              /\ \A o \in Range(Outs[t]) : KeyImage[o] \in DOMAIN r.m_key_images
  <2>1. Indexed(all) /\ \A i \in 1..L : KeyImage[Outs[t][i]] \in DOMAIN all.m_key_images
    BY <1>11, <1>16
  <2>2. Indexed(r)
    <3>1. \A k \in DOMAIN r.m_key_images :
            /\ r.m_key_images[k] \in DOMAIN r.m_transfers
            /\ r.m_transfers[r.m_key_images[k]].m_key_image = k
      <4> TAKE k \in DOMAIN r.m_key_images
      <4>1. k \in DOMAIN all.m_key_images /\ r.m_key_images[k] = all.m_key_images[k]
        BY <1>13
      <4>2. all.m_key_images[k] \in DOMAIN all.m_transfers /\ all.m_transfers[all.m_key_images[k]].m_key_image = k
        BY <4>1, <2>1 DEF Indexed
      <4> QED BY <4>1, <4>2, <1>13
    <3>2. \A i \in DOMAIN r.m_transfers :
            /\ r.m_transfers[i].m_key_image \in DOMAIN r.m_key_images
            /\ r.m_key_images[r.m_transfers[i].m_key_image] = i
      BY <2>1, <1>13 DEF Indexed
    <3> QED BY <3>1, <3>2 DEF Indexed
  <2>3. ASSUME NEW i \in DOMAIN r.m_transfers, r.m_transfers[i].m_key_image \in Ins[t]
        PROVE  r.m_transfers[i].m_spent
    <3>1. /\ i \in DOMAIN all.m_transfers
          /\ all.m_transfers[i].m_key_image \in Ins[t] \cap DOMAIN all.m_key_images
          /\ all.m_key_images[all.m_transfers[i].m_key_image] = i
      BY <2>1, <2>3, <1>13 DEF Indexed
    <3>2. i \in Own(all, t)
      BY <3>1 DEF Own
    <3> QED BY <3>1, <3>2, <1>13
  <2>4. \A o \in Range(Outs[t]) : KeyImage[o] \in DOMAIN r.m_key_images
    BY <2>1, <1>3, <1>13 DEF Range
  <2> QED BY <2>2, <2>3, <2>4 DEF SpentOf
<1> QED BY <1>12, <1>13, <1>15, <1>16
(* The key images that the wallet's chain spends are all known to it.      *)
LEMMA SpentIsKnown ==
  ASSUME NEW m, NEW rest, Good(FALSE, m, rest), NEW j \in DOMAIN m.m_blockchain,
         NEW n \in DOMAIN TxsOf[m.m_blockchain[j]], NEW k \in Range(KeyImage),
         k \in Ins[TxsOf[m.m_blockchain[j]][n]]
  PROVE  k \in DOMAIN m.m_key_images
<1> DEFINE s == m.m_blockchain
<1>1. m \in Members /\ Path(s) /\ \A i \in DOMAIN s : Scanned(m, s[i], i - 1)
  BY DEF Good, Sound
<1>2. Len(s) \in Nat /\ DOMAIN s = 1..Len(s)
  BY <1>1, Fields
<1> HIDE DEF s
<1>3. j \in 1..Len(s) /\ n \in DOMAIN TxsOf[s[j]] /\ k \in Ins[TxsOf[s[j]][n]]
  BY <1>2 DEF s
<1>4. PICK i \in 1..j : \E l \in DOMAIN TxsOf[s[i]] : \E o \in Range(Outs[TxsOf[s[i]][l]]) :
        k = KeyImage[o] /\ (i < j \/ l < n)
  <2>1. PaysFirst(s, j, n, k)
    BY <1>1, <1>3, PaidEarlier
  <2> QED BY <2>1 DEF PaysFirst
<1>5. i \in DOMAIN s
  BY <1>2, <1>3
<1> QED BY <1>1, <1>4, <1>5 DEF Scanned, KnownSince

(* So are those that the transactions spend which are done of a block      *)
(* under way.                                                              *)
LEMMA SpentIsKnownNow ==
  ASSUME NEW m, NEW rest, Good(FALSE, m, rest), NEW r, Refreshing(FALSE, r, m), r.entry # "none",
         NEW n \in 1..Done(r), NEW k \in Range(KeyImage), k \in Ins[TxsOf[r.left[1]][n]]
  PROVE  k \in DOMAIN m.m_key_images
<1> DEFINE s == m.m_blockchain
           b == r.left[1]
           c == Append(s, b)
           h == Len(s)
<1>1. m \in Members /\ Path(s) /\ \A i \in DOMAIN s : Scanned(m, s[i], i - 1)
  BY DEF Good, Sound
<1>2. h \in Nat /\ DOMAIN s = 1..h /\ s \in Seq(Blocks)
  BY <1>1, Fields
<1>3. r \in Runs /\ Linked(r, m) /\ InProgress(FALSE, r, m)
  BY DEF Refreshing
<1>4. /\ r.left \in Seq(Blocks) /\ r.left # <<>> /\ r.height = h /\ Done(r) \in Nat
      /\ r.txs \in Seq(Txs)
  BY <1>3 DEF Runs, InProgress
<1>5. b \in Blocks /\ b # Genesis /\ Parent[b] = s[h]
  BY <1>3, <1>4 DEF Linked
<1>6. Path(c)
  <2> HIDE DEF s, b
  <2> QED BY <1>1, <1>5, PathGrows
<1>7. n \in DOMAIN TxsOf[b] /\ n <= Done(r) /\ n \in Nat
  <2>1. TxsOf[b] \in Seq(Txs)
    BY <1>5, TxTypes
  <2>2. Done(r) = Len(TxsOf[b]) - Len(r.txs) /\ Len(r.txs) \in Nat /\ Len(TxsOf[b]) \in Nat
    BY <1>4, <2>1 DEF Done
  <2>3. DOMAIN TxsOf[b] = 1..Len(TxsOf[b]) /\ n \in 1..Done(r)
    BY <2>1
  <2> DEFINE a == Len(TxsOf[b])
             d == Done(r)
             e == Len(r.txs)
  <2>4. d = a - e /\ a \in Nat /\ e \in Nat /\ n \in 1..d
    BY <2>2, <2>3
  <2> HIDE DEF a, d, e
  <2>5. n \in 1..a /\ n <= d /\ n \in Nat
    BY <2>4
  <2> QED BY <2>3, <2>5 DEF a, d
<1>8. \A l \in 1..Done(r) : \A o \in Range(Outs[TxsOf[b][l]]) : KeyImage[o] \in DOMAIN m.m_key_images
  BY <1>3 DEF InProgress, KnownSince
<1>9. k \in Ins[TxsOf[b][n]]
  OBVIOUS
<1> HIDE DEF s, b, h
<1>10. /\ Len(c) = h + 1 /\ c[h + 1] = b /\ \A i \in 1..h : c[i] = s[i]
  BY <1>2, <1>5, Appended DEF h
<1> HIDE DEF c
<1>11. h + 1 \in 1..Len(c) /\ n \in DOMAIN TxsOf[c[h + 1]] /\ k \in Ins[TxsOf[c[h + 1]][n]]
  BY <1>2, <1>7, <1>9, <1>10
<1>12. PICK i \in 1..(h + 1) : \E l \in DOMAIN TxsOf[c[i]] : \E o \in Range(Outs[TxsOf[c[i]][l]]) :
         k = KeyImage[o] /\ (i < h + 1 \/ l < n)
  <2> DEFINE j == h + 1
  <2>1. j \in 1..Len(c) /\ n \in DOMAIN TxsOf[c[j]] /\ k \in Ins[TxsOf[c[j]][n]]
    BY <1>11
  <2> HIDE DEF j
  <2>2. PaysFirst(c, j, n, k)
    BY <1>6, <2>1, PaidEarlier
  <2> QED BY <2>2 DEF PaysFirst, j
<1>13. PICK l \in DOMAIN TxsOf[c[i]] : \E o \in Range(Outs[TxsOf[c[i]][l]]) :
         k = KeyImage[o] /\ (i < h + 1 \/ l < n)
  BY <1>12
<1>14. CASE i < h + 1
  <2>1. i \in DOMAIN s /\ c[i] = s[i]
    BY <1>2, <1>10, <1>14
  <2> QED BY <2>1, <1>1, <1>13 DEF Scanned, KnownSince
<1>15. CASE ~(i < h + 1)
  <2>1. i = h + 1 /\ c[i] = b /\ l < n
    BY <1>2, <1>10, <1>13, <1>15
  <2>2. TxsOf[b] \in Seq(Txs)
    BY <1>5, TxTypes
  <2>3. l \in 1..Done(r)
    BY <2>1, <2>2, <1>4, <1>7
  <2> QED BY <2>1, <2>3, <1>8, <1>13
<1> QED BY <1>14, <1>15

LEMMA GrownKnown ==
  ASSUME NEW m \in Members, NEW x \in Members, NEW o, NEW h, NEW g, Grown(m, x, g), Indexed(m), KnownSince(m, o, h)
  PROVE  KnownSince(x, o, h)
<1> DEFINE k == KeyImage[o]
           i == m.m_key_images[k]
<1>1. k \in DOMAIN m.m_key_images /\ m.m_transfers[i].m_block_height <= h
  BY DEF KnownSince
<1>2. i \in DOMAIN m.m_transfers
  BY <1>1 DEF Indexed
<1>3. k \in DOMAIN x.m_key_images /\ x.m_key_images[k] = i
  BY <1>1 DEF Grown
<1>4. x.m_transfers[i].m_block_height = m.m_transfers[i].m_block_height
  BY <1>2 DEF Grown
<1> QED BY <1>1, <1>3, <1>4 DEF KnownSince

(* A transaction whose known spends are marked stays so when new transfers *)
(* are added, because its key images were all known before.                *)
LEMMA GrownSpent ==
  ASSUME NEW m \in Members, NEW x \in Members, NEW t, NEW h, Grown(m, x, h), Indexed(x), SpentOf(m, t),
         \A k \in Range(KeyImage) : k \in Ins[t] => k \in DOMAIN m.m_key_images
  PROVE  SpentOf(x, t)
<1> SUFFICES ASSUME NEW i \in DOMAIN x.m_transfers, x.m_transfers[i].m_key_image \in Ins[t]
             PROVE  x.m_transfers[i].m_spent
  BY DEF SpentOf
<1>1. /\ Len(m.m_transfers) \in Nat /\ DOMAIN m.m_transfers = 1..Len(m.m_transfers)
      /\ DOMAIN x.m_transfers = 1..Len(x.m_transfers) /\ Len(x.m_transfers) \in Nat
  BY Fields
<1>2. CASE i > Len(m.m_transfers)
  <2>1. x.m_transfers[i].m_key_image \notin DOMAIN m.m_key_images
    BY <1>2 DEF Grown
  <2>2. x.m_transfers[i].m_key_image \in DOMAIN x.m_key_images
    BY DEF Indexed
  <2>3. x.m_transfers[i].m_key_image \in Range(KeyImage)
    BY <2>2, Fields, ImageFields
  <2> QED BY <2>1, <2>3
<1>3. CASE ~(i > Len(m.m_transfers))
  <2>1. i \in DOMAIN m.m_transfers
    BY <1>1, <1>3
  <2>2. m.m_transfers[i].m_key_image \in Ins[t]
    BY <2>1 DEF Grown
  <2> QED BY <2>1, <2>2 DEF Grown, SpentOf
<1> QED BY <1>2, <1>3
(* The block under way and the transaction that is next in it.             *)
LEMMA Current ==
  ASSUME NEW v, NEW m \in Members, NEW r, Refreshing(v, r, m), r.entry # "none", r.txs # <<>>
  PROVE  /\ r.left[1] \in Blocks /\ r.height = Len(m.m_blockchain) /\ Done(r) \in Nat
         /\ Done(r) + 1 \in DOMAIN TxsOf[r.left[1]] /\ Head(r.txs) = TxsOf[r.left[1]][Done(r) + 1]
         /\ Head(r.txs) \in Txs
<1>1. r \in Runs /\ InProgress(v, r, m)
  BY DEF Refreshing
<1>2. r.left \in Seq(Blocks) /\ r.txs \in Seq(Txs) /\ r.left # <<>>
  BY <1>1 DEF Runs, InProgress
<1>3. r.left[1] \in Blocks
  BY <1>2
<1>4. TxsOf[r.left[1]] \in Seq(Txs)
  BY <1>3, TxTypes
<1>5. /\ Len(r.txs) \in Nat /\ Len(r.txs) >= 1 /\ Head(r.txs) = r.txs[1] /\ Head(r.txs) \in Txs
  BY <1>2
<1>6. r.height = Len(m.m_blockchain) /\ Done(r) \in Nat /\ r.txs[1] = TxsOf[r.left[1]][Done(r) + 1]
  BY <1>1, <1>5 DEF InProgress
<1>7. Done(r) + 1 \in DOMAIN TxsOf[r.left[1]]
  <2>1. Done(r) = Len(TxsOf[r.left[1]]) - Len(r.txs) /\ Len(TxsOf[r.left[1]]) \in Nat
    BY <1>4 DEF Done
  <2>2. DOMAIN TxsOf[r.left[1]] = 1..Len(TxsOf[r.left[1]])
    BY <1>4
  <2> DEFINE d == Done(r)
             a == Len(TxsOf[r.left[1]])
             e == Len(r.txs)
  <2>3. d = a - e /\ a \in Nat /\ e \in Nat /\ e >= 1 /\ d \in Nat
    BY <2>1, <1>5, <1>6
  <2> HIDE DEF d, a, e
  <2>4. d + 1 \in 1..a
    BY <2>3
  <2> QED BY <2>2, <2>4 DEF d, a
<1> QED BY <1>3, <1>5, <1>6, <1>7

LEMMA NextTx ==
  ASSUME NEW v, NEW m \in Members, NEW r, Refreshing(v, r, m), r.entry # "none", r.txs # <<>>
  PROVE  LET q == [r EXCEPT !.txs = Tail(@)]
         IN  /\ q \in Runs /\ q.left = r.left /\ q.height = r.height /\ q.entry = r.entry /\ q.stage = r.stage
             /\ Done(q) = Done(r) + 1
             /\ \A i \in 1..Len(q.txs) : q.txs[i] = TxsOf[r.left[1]][Done(q) + i]
<1>1. r \in Runs /\ InProgress(v, r, m)
  BY DEF Refreshing
<1>2. r.left \in Seq(Blocks) /\ r.txs \in Seq(Txs) /\ r.left # <<>>
  BY <1>1 DEF Runs, InProgress
<1>3. r.left[1] \in Blocks
  BY <1>2
<1>4. TxsOf[r.left[1]] \in Seq(Txs)
  BY <1>3, TxTypes
<1> DEFINE z == Tail(r.txs)
           q == [r EXCEPT !.txs = Tail(@)]
<1>5. /\ z \in Seq(Txs) /\ Len(z) = Len(r.txs) - 1 /\ Len(r.txs) \in Nat
      /\ \A i \in 1..Len(z) : z[i] = r.txs[i + 1]
  BY <1>2
<1>6. q = [r EXCEPT !.txs = z]
  OBVIOUS
<1> HIDE DEF z, q
<1>7. /\ q \in Runs /\ q.left = r.left /\ q.height = r.height /\ q.entry = r.entry
      /\ q.stage = r.stage /\ q.txs = z
  BY <1>1, <1>5, <1>6 DEF Runs
<1>8. Done(r) = Len(TxsOf[r.left[1]]) - Len(r.txs) /\ Done(q) = Len(TxsOf[r.left[1]]) - Len(z)
  BY <1>7 DEF Done
<1>9. Len(TxsOf[r.left[1]]) \in Nat
  BY <1>4
<1>10. Done(q) = Done(r) + 1
  BY <1>5, <1>8, <1>9
<1>11. ASSUME NEW i \in 1..Len(q.txs) PROVE q.txs[i] = TxsOf[r.left[1]][Done(q) + i]
  <2>1. i + 1 \in 1..Len(r.txs) /\ q.txs[i] = r.txs[i + 1]
    BY <1>5, <1>7
  <2>2. r.txs[i + 1] = TxsOf[r.left[1]][Done(r) + (i + 1)]
    BY <2>1, <1>1 DEF InProgress
  <2>3. Done(r) + (i + 1) = Done(q) + i
    <3> DEFINE d == Done(r)
               e == Done(q)
    <3>1. d \in Nat /\ e = d + 1 /\ i \in Nat
      BY <1>1, <1>10 DEF InProgress
    <3> HIDE DEF d, e
    <3>2. d + (i + 1) = e + i
      BY <3>1
    <3> QED BY <3>2 DEF d, e
  <2> QED BY <2>1, <2>2, <2>3
<1> QED BY <1>7, <1>10, <1>11 DEF q

LEMMA GrownAtHeight ==
  ASSUME NEW m \in Members, NEW x \in Members, NEW h, Grown(m, x, h), NEW rest, AtHeight(m, rest)
  PROVE  AtHeight(x, rest \cup (Recorded(x) \ Recorded(m)))
<1> SUFFICES ASSUME NEW i \in DOMAIN x.m_transfers,
                    <<x.m_transfers[i].out, x.m_transfers[i].m_block_height>>
                      \notin rest \cup (Recorded(x) \ Recorded(m))
             PROVE  /\ x.m_transfers[i].m_block_height < Len(x.m_blockchain)
                    /\ x.m_transfers[i].out \in OutsIn(<<x.m_blockchain[x.m_transfers[i].m_block_height + 1]>>)
  BY DEF AtHeight
<1> DEFINE p == <<x.m_transfers[i].out, x.m_transfers[i].m_block_height>>
<1>1. p \in Recorded(x)
  BY DEF Recorded, Range
<1>2. p \in Recorded(m) /\ p \notin rest
  BY <1>1
<1>3. PICK a \in DOMAIN m.m_transfers : p = <<m.m_transfers[a].out, m.m_transfers[a].m_block_height>>
  BY <1>2 DEF Recorded, Range
<1>4. /\ m.m_transfers[a].out = x.m_transfers[i].out
      /\ m.m_transfers[a].m_block_height = x.m_transfers[i].m_block_height
  BY <1>3
<1>5. x.m_blockchain = m.m_blockchain
  BY DEF Grown
<1> QED BY <1>2, <1>3, <1>4, <1>5 DEF AtHeight

(***************************************************************************)
(* A transaction of the block under way.                                   *)
(***************************************************************************)
LEMMA ProcessSound ==
  ASSUME NEW m, NEW rest, Good(FALSE, m, rest), NEW r, Refreshing(FALSE, r, m), r.entry # "none", r.txs # <<>>,
         NEW x \in Members, Grown(m, x, r.height), Indexed(x), SpentOf(x, Head(r.txs)),
         \A o \in Range(Outs[Head(r.txs)]) : KeyImage[o] \in DOMAIN x.m_key_images
  PROVE  /\ Sound(x)
         /\ \A n \in 1..(Done(r) + 1) :
              /\ \A o \in Range(Outs[TxsOf[r.left[1]][n]]) : KnownSince(x, o, r.height)
              /\ SpentOf(x, TxsOf[r.left[1]][n])
<1> DEFINE b == r.left[1]
           h == r.height
           s == m.m_blockchain
<1>1. m \in Members /\ Sound(m) /\ Indexed(m) /\ Ordered(m) /\ s \in Seq(Blocks)
  BY Fields DEF Good, Sound
<1>2. /\ b \in Blocks /\ h = Len(s) /\ Done(r) \in Nat /\ h \in Nat
      /\ Head(r.txs) = TxsOf[b][Done(r) + 1]
  <2>1. b \in Blocks /\ h = Len(s) /\ Done(r) \in Nat /\ Head(r.txs) = TxsOf[b][Done(r) + 1]
    BY <1>1, Current
  <2>2. Len(s) \in Nat
    BY <1>1
  <2> QED BY <2>1, <2>2
<1>3. x.m_blockchain = s
  BY DEF Grown
<1>4. Ordered(x)
  <2>1. /\ Len(m.m_transfers) \in Nat /\ DOMAIN m.m_transfers = 1..Len(m.m_transfers)
        /\ DOMAIN x.m_transfers = 1..Len(x.m_transfers) /\ Len(x.m_transfers) \in Nat
    BY <1>1, Fields
  <2>2. ASSUME NEW i \in DOMAIN x.m_transfers
        PROVE  \/ i > Len(m.m_transfers) /\ x.m_transfers[i].m_block_height = h
               \/ i \in DOMAIN m.m_transfers /\ x.m_transfers[i].m_block_height = m.m_transfers[i].m_block_height
    <3>1. i > Len(m.m_transfers) \/ i \in DOMAIN m.m_transfers
      BY <2>1
    <3> QED BY <3>1 DEF Grown
  <2>3. ASSUME NEW i \in DOMAIN x.m_transfers PROVE x.m_transfers[i].m_block_height <= h
    BY <2>2, <1>1, <1>2 DEF Ordered
  <2>4. ASSUME NEW i \in DOMAIN x.m_transfers, NEW j \in DOMAIN x.m_transfers, i <= j
        PROVE  x.m_transfers[i].m_block_height <= x.m_transfers[j].m_block_height
    <3>1. CASE j > Len(m.m_transfers)
      BY <3>1, <2>1, <2>2, <2>3
    <3>2. CASE ~(j > Len(m.m_transfers))
      <4>1. i \in DOMAIN m.m_transfers /\ j \in DOMAIN m.m_transfers
        BY <3>2, <2>1, <2>4
      <4>2. m.m_transfers[i].m_block_height <= m.m_transfers[j].m_block_height
        BY <4>1, <2>4, <1>1 DEF Ordered
      <4> QED BY <4>1, <4>2, <2>1, <2>2
    <3> QED BY <3>1, <3>2
  <2> QED BY <2>3, <2>4, <1>2, <1>3 DEF Ordered
<1>5. ASSUME NEW j \in DOMAIN s PROVE Scanned(x, s[j], j - 1)
  <2>1. Scanned(m, s[j], j - 1)
    BY <1>1 DEF Sound
  <2>2. ASSUME NEW n \in DOMAIN TxsOf[s[j]]
        PROVE  /\ \A o \in Range(Outs[TxsOf[s[j]][n]]) : KnownSince(x, o, j - 1)
               /\ SpentOf(x, TxsOf[s[j]][n])
    <3>1. /\ \A o \in Range(Outs[TxsOf[s[j]][n]]) : KnownSince(m, o, j - 1)
          /\ SpentOf(m, TxsOf[s[j]][n])
      BY <2>1 DEF Scanned
    <3>2. \A k \in Range(KeyImage) : k \in Ins[TxsOf[s[j]][n]] => k \in DOMAIN m.m_key_images
      BY SpentIsKnown
    <3>3. \A o \in Range(Outs[TxsOf[s[j]][n]]) : KnownSince(x, o, j - 1)
      BY <3>1, <1>1, GrownKnown
    <3>4. SpentOf(x, TxsOf[s[j]][n])
      BY <3>1, <3>2, <1>1, GrownSpent
    <3> QED BY <3>3, <3>4
  <2> QED BY <2>2 DEF Scanned
<1>6. Sound(x)
  BY <1>3, <1>4, <1>5 DEF Sound
<1>7. ASSUME NEW n \in 1..(Done(r) + 1)
      PROVE  /\ \A o \in Range(Outs[TxsOf[b][n]]) : KnownSince(x, o, h)
             /\ SpentOf(x, TxsOf[b][n])
  <2>1. CASE n = Done(r) + 1
    <3>1. TxsOf[b][n] = Head(r.txs)
      BY <2>1, <1>2
    <3>2. ASSUME NEW o \in Range(Outs[Head(r.txs)]) PROVE KnownSince(x, o, h)
      <4> DEFINE i == x.m_key_images[KeyImage[o]]
      <4>1. i \in DOMAIN x.m_transfers
        BY DEF Indexed
      <4>2. x.m_transfers[i].m_block_height <= Len(x.m_blockchain)
        BY <4>1, <1>4 DEF Ordered
      <4> QED BY <4>2, <1>2, <1>3 DEF KnownSince
    <3> QED BY <3>1, <3>2
  <2>2. CASE n # Done(r) + 1
    <3>1. n \in 1..Done(r)
      BY <2>2, <1>2
    <3>2. /\ \A o \in Range(Outs[TxsOf[b][n]]) : KnownSince(m, o, h)
          /\ SpentOf(m, TxsOf[b][n])
      BY <3>1 DEF Refreshing, InProgress
    <3>3. \A k \in Range(KeyImage) : k \in Ins[TxsOf[b][n]] => k \in DOMAIN m.m_key_images
      BY <3>1, SpentIsKnownNow
    <3>4. \A o \in Range(Outs[TxsOf[b][n]]) : KnownSince(x, o, h)
      BY <3>2, <1>1, GrownKnown
    <3>5. SpentOf(x, TxsOf[b][n])
      BY <3>2, <3>3, <1>1, GrownSpent
    <3> QED BY <3>4, <3>5
  <2> QED BY <2>1, <2>2
<1> QED BY <1>6, <1>7
LEMMA GoodWhole ==
  ASSUME NEW v, ~v, NEW m, NEW rest
  PROVE  Good(v, m, rest) <=> Good(FALSE, m, rest)
BY DEF Good

LEMMA RefreshingWhole ==
  ASSUME NEW v, ~v, NEW m, NEW r
  PROVE  Refreshing(v, r, m) <=> Refreshing(FALSE, r, m)
BY DEF Refreshing, InProgress

LEMMA ProcessGood ==
  ASSUME NEW m, NEW rest, Good(m_is_view_only, m, rest), NEW r, Refreshing(m_is_view_only, r, m),
         r.entry # "none", r.txs # <<>>
  PROVE  LET x == process_new_transaction(m, Head(r.txs), r.height)
         IN  /\ Good(m_is_view_only, x, rest \cup (Recorded(x) \ Recorded(m)))
             /\ Refreshing(m_is_view_only, [r EXCEPT !.txs = Tail(@)], x)
             /\ x.m_pending_key_images = m.m_pending_key_images
<1> DEFINE t == Head(r.txs)
           h == r.height
           x == process_new_transaction(m, t, h)
           q == [r EXCEPT !.txs = Tail(@)]
           v == m_is_view_only
<1>1. m \in Members /\ AtHeight(m, rest) /\ Path(m.m_blockchain)
  BY DEF Good
<1>2. r \in Runs /\ InProgress(v, r, m) /\ Linked(r, m)
  BY DEF Refreshing
<1>3. t \in Txs /\ h \in Nat /\ h = Len(m.m_blockchain) /\ Done(r) \in Nat
  BY <1>1, <1>2, Current DEF Runs
<1> HIDE DEF t
<1>4. /\ x \in Members /\ Grown(m, x, h)
      /\ ~m_is_view_only /\ Indexed(m) =>
           /\ Indexed(x) /\ SpentOf(x, t)
           /\ \A o \in Range(Outs[t]) : KeyImage[o] \in DOMAIN x.m_key_images
  <2> HIDE DEF h
  <2> QED BY <1>1, <1>3, ProcessGrows
<1>5. /\ q \in Runs /\ q.left = r.left /\ q.height = h /\ q.entry = r.entry /\ q.stage = r.stage
      /\ Done(q) = Done(r) + 1
      /\ \A i \in 1..Len(q.txs) : q.txs[i] = TxsOf[r.left[1]][Done(q) + i]
  BY <1>1, NextTx
<1> HIDE DEF x, q
<1>6. x.m_blockchain = m.m_blockchain /\ x.m_pending_key_images = m.m_pending_key_images
  BY <1>4 DEF Grown
<1>7. ASSUME ~v
      PROVE  /\ Sound(x)
             /\ \A n \in 1..(Done(r) + 1) :
                  /\ \A o \in Range(Outs[TxsOf[r.left[1]][n]]) : KnownSince(x, o, h)
                  /\ SpentOf(x, TxsOf[r.left[1]][n])
  <2>1. Good(FALSE, m, rest) /\ Refreshing(FALSE, r, m)
    BY <1>7, GoodWhole, RefreshingWhole
  <2>2. Indexed(m)
    BY <2>1 DEF Good, Sound
  <2>3. /\ Indexed(x) /\ SpentOf(x, Head(r.txs)) /\ Grown(m, x, r.height)
        /\ \A o \in Range(Outs[Head(r.txs)]) : KeyImage[o] \in DOMAIN x.m_key_images
    BY <2>2, <1>4, <1>7 DEF t, h
  <2> QED BY <2>1, <2>3, <1>4, ProcessSound
<1>8. AtHeight(x, rest \cup (Recorded(x) \ Recorded(m)))
  BY <1>1, <1>4, GrownAtHeight
<1>9. Good(v, x, rest \cup (Recorded(x) \ Recorded(m)))
  BY <1>1, <1>4, <1>6, <1>7, <1>8 DEF Good
<1>10. Linked(q, x)
  BY <1>2, <1>5, <1>6 DEF Linked
<1>11. InProgress(v, q, x)
  <2>1. Done(q) \in Nat
    BY <1>3, <1>5
  <2>2. r.left # <<>>
    BY <1>2 DEF InProgress
  <2>3. ~v => \A n \in 1..Done(q) :
                 /\ \A o \in Range(Outs[TxsOf[q.left[1]][n]]) : KnownSince(x, o, q.height)
                 /\ SpentOf(x, TxsOf[q.left[1]][n])
    BY <1>5, <1>7
  <2> QED BY <2>1, <2>2, <2>3, <1>3, <1>5, <1>6 DEF InProgress
<1>12. q.height <= Len(x.m_blockchain)
  BY <1>3, <1>5, <1>6
<1>13. Refreshing(v, q, x)
  <2>1. q.stage = "pull"
    BY <1>5 DEF Refreshing
  <2> QED BY <2>1, <1>5, <1>10, <1>11, <1>12 DEF Refreshing
<1> QED BY <1>6, <1>9, <1>13 DEF x, q, t, h

-----------------------------------------------------------------------------
(* The start and the end of a block.                                       *)

(* A block is about to be looked at, and the wallet's chain ends before it. *)
LEMMA EntryStarts ==
  ASSUME NEW v, NEW m \in Members, NEW r \in Runs, Linked(r, m), r.left # <<>>, r.stage = "pull",
         r.height = Len(m.m_blockchain), NEW e \in {"new", "split"}
  PROVE  Refreshing(v, [r EXCEPT !.entry = e, !.txs = TxsOf[Head(r.left)]], m)
<1> DEFINE b == r.left[1]
           q == [r EXCEPT !.entry = e, !.txs = TxsOf[Head(r.left)]]
<1>1. r.left \in Seq(Blocks) /\ r.height \in Nat
  BY DEF Runs
<1>2. Head(r.left) = b /\ b \in Blocks
  BY <1>1
<1>3. TxsOf[b] \in Seq(Txs)
  BY <1>2, TxTypes
<1>4. q = [r EXCEPT !.entry = e, !.txs = TxsOf[b]]
  BY <1>2
<1> HIDE DEF q
<1>5. /\ q \in Runs /\ q.left = r.left /\ q.height = r.height /\ q.entry = e /\ q.txs = TxsOf[b] /\ q.stage = "pull"
  <2> HIDE DEF b
  <2> QED BY <1>3, <1>4 DEF Runs
<1>6. Done(q) = 0
  <2>1. Done(q) = Len(TxsOf[b]) - Len(TxsOf[b])
    BY <1>5 DEF Done
  <2>2. Len(TxsOf[b]) \in Nat
    BY <1>3
  <2> QED BY <2>1, <2>2
<1>7. InProgress(v, q, m)
  <2>1. \A i \in 1..Len(q.txs) : q.txs[i] = TxsOf[q.left[1]][Done(q) + i]
    BY <1>5, <1>6
  <2>2. \A n \in 1..Done(q) : FALSE
    BY <1>6
  <2>3. Done(q) \in Nat
    BY <1>6
  <2> QED BY <2>1, <2>2, <2>3, <1>5 DEF InProgress
<1>8. Linked(q, m)
  BY <1>5 DEF Linked
<1>9. q.height <= Len(m.m_blockchain)
  BY <1>1, <1>5
<1> QED BY <1>5, <1>7, <1>8, <1>9 DEF Refreshing, q

(* Its transactions are done, and it becomes the top of the wallet's chain. *)
LEMMA EntryEnds ==
  ASSUME NEW v, NEW m, NEW rest, Good(v, m, rest), NEW r, Refreshing(v, r, m),
         r.entry # "none", r.txs = <<>>
  PROVE  LET b == Head(r.left)
             x == [m EXCEPT !.m_blockchain = Append(@, b)]
             q == [r EXCEPT !.left = Tail(@), !.height = @ + 1, !.entry = "none",
                            !.added = @ \/ r.entry = "new"]
         IN  /\ Good(v, x, rest \ (OutsIn(<<b>>) \X {r.height}))
             /\ Refreshing(v, q, x)
             /\ x.m_pending_key_images = m.m_pending_key_images
<1> DEFINE b == Head(r.left)
           s == m.m_blockchain
           z == Append(s, b)
           x == [m EXCEPT !.m_blockchain = Append(@, b)]
           q == [r EXCEPT !.left = Tail(@), !.height = @ + 1, !.entry = "none",
                          !.added = @ \/ r.entry = "new"]
           h == r.height
           cut == rest \ (OutsIn(<<b>>) \X {h})
<1>1. m \in Members /\ AtHeight(m, rest) /\ Path(s)
  BY DEF Good
<1>2. r \in Runs /\ InProgress(v, r, m) /\ Linked(r, m)
  BY DEF Refreshing
<1>3. /\ r.left \in Seq(Blocks) /\ r.left # <<>> /\ h \in Nat /\ h = Len(s)
      /\ r.added \in BOOLEAN
  BY <1>2 DEF Runs, InProgress
<1>4. b = r.left[1] /\ b \in Blocks
  BY <1>3
<1>5. b # Genesis /\ Parent[b] = s[Len(s)]
  BY <1>2, <1>3, <1>4 DEF Linked
<1>6. s \in Seq(Blocks) /\ DOMAIN s = 1..h
  BY <1>1, <1>3, Fields
<1>bb. b = Head(r.left) /\ TxsOf[b] \in Seq(Txs)
  BY <1>4, TxTypes
<1> HIDE DEF b
<1>7. /\ z \in Seq(Blocks) /\ Len(z) = h + 1 /\ DOMAIN z = 1..(h + 1)
      /\ \A i \in 1..h : z[i] = s[i]
      /\ z[h + 1] = b
  <2> HIDE DEF s
  <2> QED BY <1>3, <1>4, <1>6, Appended
<1>8. Path(z)
  <2> HIDE DEF s
  <2> QED BY <1>1, <1>4, <1>5, PathGrows
<1>9. x = [m EXCEPT !.m_blockchain = z]
  OBVIOUS
<1> HIDE DEF x, z
<1>10. /\ x \in Members /\ x.m_blockchain = z /\ x.m_transfers = m.m_transfers
       /\ x.m_key_images = m.m_key_images /\ x.m_pending_key_images = m.m_pending_key_images
  BY <1>1, <1>7, <1>9 DEF Members
<1>11. AtHeight(x, cut)
  <2> SUFFICES ASSUME NEW i \in DOMAIN m.m_transfers,
                      <<m.m_transfers[i].out, m.m_transfers[i].m_block_height>> \notin cut
               PROVE  /\ m.m_transfers[i].m_block_height < h + 1
                      /\ m.m_transfers[i].out \in OutsIn(<<z[m.m_transfers[i].m_block_height + 1]>>)
    BY <1>7, <1>10 DEF AtHeight
  <2> DEFINE o == m.m_transfers[i].out
             g == m.m_transfers[i].m_block_height
  <2>0. g \in Nat
    BY <1>1, OneTransfer
  <2>1. CASE <<o, g>> \notin rest
    <3>1. g < Len(s) /\ o \in OutsIn(<<s[g + 1]>>)
      BY <2>1, <1>1 DEF AtHeight
    <3> HIDE DEF g
    <3>2. g + 1 \in 1..h
      BY <3>1, <2>0, <1>3
    <3>3. z[g + 1] = s[g + 1]
      BY <3>2, <1>7
    <3> QED BY <3>1, <3>2, <3>3, <2>0, <1>3 DEF g
  <2>2. CASE <<o, g>> \in rest
    <3>1. o \in OutsIn(<<b>>) /\ g = h
      BY <2>2
    <3> QED BY <3>1, <1>3, <1>7
  <2> QED BY <2>1, <2>2
<1>12. ASSUME ~v PROVE Sound(x)
  <2>1. Sound(m) /\ Indexed(m) /\ Ordered(m)
    BY <1>12 DEF Good, Sound
  <2>2. Indexed(x)
    BY <2>1, <1>10 DEF Indexed
  <2>3. Ordered(x)
    <3>1. \A i \in DOMAIN m.m_transfers : m.m_transfers[i].m_block_height \in Nat
      BY <1>1, OneTransfer
    <3>2. \A i \in DOMAIN m.m_transfers : m.m_transfers[i].m_block_height <= h
      BY <2>1, <1>3 DEF Ordered
    <3>3. \A i \in DOMAIN m.m_transfers : m.m_transfers[i].m_block_height <= h + 1
      BY <3>1, <3>2, <1>3
    <3> QED BY <3>3, <2>1, <1>7, <1>10 DEF Ordered
  <2>4. ASSUME NEW o, NEW g, KnownSince(m, o, g) PROVE KnownSince(x, o, g)
    BY <2>4, <1>10 DEF KnownSince
  <2>5. ASSUME NEW t, SpentOf(m, t) PROVE SpentOf(x, t)
    BY <2>5, <1>10 DEF SpentOf
  <2>6. ASSUME NEW j \in 1..h PROVE Scanned(x, s[j], j - 1)
    <3>1. Scanned(m, s[j], j - 1)
      BY <2>1, <1>6 DEF Sound
    <3> QED BY <3>1, <2>4, <2>5 DEF Scanned
  <2>7. Scanned(x, b, h)
    <3>1. Done(r) = Len(TxsOf[b])
      <4>1. Done(r) = Len(TxsOf[b]) - Len(r.txs) /\ Len(r.txs) = 0
        BY <1>4 DEF Done
      <4>2. Len(TxsOf[b]) \in Nat
        BY <1>bb
      <4> QED BY <4>1, <4>2
    <3>2. ASSUME NEW n \in DOMAIN TxsOf[b]
          PROVE  (\A o \in Range(Outs[TxsOf[b][n]]) : KnownSince(m, o, h)) /\ SpentOf(m, TxsOf[b][n])
      <4>1. n \in 1..Done(r)
        BY <3>1, <1>bb
      <4> QED BY <4>1, <1>2, <1>4, <1>12 DEF InProgress
    <3> QED BY <3>2, <2>4, <2>5 DEF Scanned
  <2>8. ASSUME NEW j \in DOMAIN z PROVE Scanned(x, z[j], j - 1)
    <3>1. CASE j = h + 1
      <4>1. j - 1 = h
        BY <3>1, <1>3
      <4> QED BY <4>1, <3>1, <2>7, <1>7
    <3>2. CASE j # h + 1
      <4>1. j \in 1..h
        BY <3>2, <1>3, <1>7
      <4> QED BY <4>1, <2>6, <1>7
    <3> QED BY <3>1, <3>2
  <2> QED BY <2>2, <2>3, <2>8, <1>10 DEF Sound
<1>13. Good(v, x, cut)
  BY <1>8, <1>10, <1>11, <1>12 DEF Good
<1> DEFINE l == Tail(r.left)
<1>14. /\ l \in Seq(Blocks) /\ Len(r.left) \in Nat /\ Len(l) = Len(r.left) - 1
       /\ \A i \in 1..Len(l) : l[i] = r.left[i + 1]
  BY <1>3
<1> HIDE DEF l
<1>15. q \in Runs /\ q.left = l /\ q.height = h + 1 /\ q.entry = "none"
  <2>1. q = [r EXCEPT !.left = l, !.height = r.height + 1, !.entry = "none",
                      !.added = r.added \/ r.entry = "new"]
    BY DEF l
  <2>2. (r.added \/ r.entry = "new") \in BOOLEAN
    BY <1>3
  <2> DEFINE ad == r.added \/ r.entry = "new"
  <2>3. ad \in BOOLEAN /\ q = [r EXCEPT !.left = l, !.height = r.height + 1, !.entry = "none", !.added = ad]
    BY <2>1, <2>2
  <2> DEFINE up == r.height + 1
  <2>4. up \in Nat /\ q = [r EXCEPT !.left = l, !.height = up, !.entry = "none", !.added = ad]
    BY <2>3, <1>3
  <2> HIDE DEF q, ad, up
  <2>5. q \in Runs /\ q.left = l /\ q.height = up /\ q.entry = "none"
    BY <2>3, <2>4, <1>2, <1>14 DEF Runs
  <2> QED BY <2>5 DEF up
<1> HIDE DEF q
<1>16. Linked(q, x)
  <2>1. \A i \in 2..Len(r.left) : r.left[i] # Genesis /\ Parent[r.left[i]] = r.left[i - 1]
    BY <1>2 DEF Linked
  <2>2. ASSUME l # <<>> PROVE h + 1 >= 1 /\ l[1] # Genesis /\ Parent[l[1]] = z[h + 1]
    <3>1. 1 \in 1..Len(l)
      BY <2>2, <1>14
    <3>2. l[1] = r.left[2] /\ 2 \in 2..Len(r.left)
      BY <3>1, <1>14
    <3>3. r.left[2] # Genesis /\ Parent[r.left[2]] = r.left[1]
      BY <3>2, <2>1
    <3> QED BY <3>2, <3>3, <1>3, <1>4, <1>7
  <2>3. ASSUME NEW i \in 2..Len(l) PROVE l[i] # Genesis /\ Parent[l[i]] = l[i - 1]
    <3>1. i \in 1..Len(l) /\ i - 1 \in 1..Len(l) /\ i + 1 \in 2..Len(r.left) /\ (i - 1) + 1 = i /\ (i + 1) - 1 = i
      BY <1>14
    <3>2. l[i] = r.left[i + 1] /\ l[i - 1] = r.left[i]
      BY <3>1, <1>14
    <3>3. r.left[i + 1] # Genesis /\ Parent[r.left[i + 1]] = r.left[i]
      BY <3>1, <2>1
    <3> QED BY <3>2, <3>3
  <2> QED BY <2>2, <2>3, <1>10, <1>15 DEF Linked
<1>17. Refreshing(v, q, x)
  BY <1>3, <1>7, <1>10, <1>15, <1>16 DEF Refreshing
<1> QED BY <1>10, <1>13, <1>17 DEF x, q, b, h
-----------------------------------------------------------------------------
(* Detaching.                                                              *)

LEMMA FirstFromFacts ==
  ASSUME NEW m \in Members, NEW h \in Nat
  PROVE  LET first == FirstFrom(m, h)
         IN  /\ first \in 1..(Len(m.m_transfers) + 1)
             /\ \A i \in DOMAIN m.m_transfers : i < first => m.m_transfers[i].m_block_height < h
             /\ first <= Len(m.m_transfers) => m.m_transfers[first].m_block_height >= h
<1> DEFINE at == {i \in DOMAIN m.m_transfers : m.m_transfers[i].m_block_height >= h}
           first == FirstFrom(m, h)
<1>1. /\ Len(m.m_transfers) \in Nat /\ DOMAIN m.m_transfers = 1..Len(m.m_transfers)
      /\ \A i \in DOMAIN m.m_transfers : m.m_transfers[i].m_block_height \in Nat
  BY Fields, OneTransfer
<1>2. first = IF at = {} THEN Len(m.m_transfers) + 1 ELSE Min(at)
  BY DEF FirstFrom
<1> HIDE DEF first
<1>3. CASE at = {}
  <2>1. first = Len(m.m_transfers) + 1
    BY <1>2, <1>3
  <2>2. \A i \in DOMAIN m.m_transfers : m.m_transfers[i].m_block_height < h
    BY <1>1, <1>3
  <2> QED BY <2>1, <2>2, <1>1 DEF first
<1>4. CASE at # {}
  <2>1. first = Min(at)
    BY <1>2, <1>4
  <2>2. \E i \in at : \A j \in at : i <= j
    <3>1. at \subseteq Nat
      BY <1>1
    <3> HIDE DEF at
    <3> QED BY <3>1, <1>4, LeastNumber
  <2>3. first \in at /\ \A j \in at : first <= j
    <3> HIDE DEF at
    <3> QED BY <2>1, <2>2 DEF Min
  <2>4. first \in 1..(Len(m.m_transfers) + 1) /\ m.m_transfers[first].m_block_height >= h
    BY <2>3, <1>1
  <2>5. ASSUME NEW i \in DOMAIN m.m_transfers, i < first PROVE m.m_transfers[i].m_block_height < h
    <3>1. i \notin at
      BY <2>3, <2>4, <2>5, <1>1
    <3> QED BY <3>1, <1>1
  <2> QED BY <2>4, <2>5 DEF first
<1> QED BY <1>3, <1>4

LEMMA ErasedFields ==
  ASSUME NEW m \in Members, NEW first, NEW last
  PROVE  LET x == ImagesErased(m, first, last)
             gone == {m.m_transfers[i].m_key_image : i \in first..last}
         IN  /\ x \in Members /\ x.m_blockchain = m.m_blockchain /\ x.m_transfers = m.m_transfers
             /\ x.m_pending_key_images = m.m_pending_key_images
             /\ DOMAIN x.m_key_images = DOMAIN m.m_key_images \ gone
             /\ \A k \in DOMAIN x.m_key_images : x.m_key_images[k] = m.m_key_images[k]
<1> DEFINE x == ImagesErased(m, first, last)
           gone == {m.m_transfers[i].m_key_image : i \in first..last}
           f == m.m_key_images
           g == [k \in DOMAIN f \ gone |-> f[k]]
<1>1. x = [m EXCEPT !.m_key_images = g]
  BY Zenon DEF ImagesErased
<1>2. DOMAIN f \subseteq Range(KeyImage) /\ f \in [DOMAIN f -> Nat]
  BY Fields, ImageFields
<1> HIDE DEF gone
<1>3. DOMAIN g = DOMAIN f \ gone /\ \A k \in DOMAIN g : g[k] = f[k]
  OBVIOUS
<1>4. g \in [DOMAIN g -> Nat] /\ DOMAIN g \subseteq Range(KeyImage)
  <2> HIDE DEF f
  <2> QED BY <1>2
<1> HIDE DEF g, x
<1>5. g \in Images
  BY <1>4, ImageFields
<1>6. /\ x \in Members /\ x.m_blockchain = m.m_blockchain /\ x.m_transfers = m.m_transfers
      /\ x.m_pending_key_images = m.m_pending_key_images /\ x.m_key_images = g
  BY <1>1, <1>5 DEF Members
<1> QED BY <1>3, <1>6 DEF x, gone

LEMMA DetachFields ==
  ASSUME NEW m \in Members, NEW h \in Nat, h <= Len(m.m_blockchain)
  PROVE  LET x == detach_blockchain(m, h)
             first == FirstFrom(m, h)
             gone == {m.m_transfers[i].m_key_image : i \in first..Len(m.m_transfers)}
         IN  /\ x \in Members /\ x.m_pending_key_images = m.m_pending_key_images
             /\ Len(x.m_blockchain) = h /\ DOMAIN x.m_blockchain = 1..h
             /\ \A j \in 1..h : x.m_blockchain[j] = m.m_blockchain[j]
             /\ DOMAIN x.m_transfers = 1..(first - 1)
             /\ \A i \in 1..(first - 1) : x.m_transfers[i] = m.m_transfers[i] /\ i \in DOMAIN m.m_transfers
             /\ DOMAIN x.m_key_images = DOMAIN m.m_key_images \ gone
             /\ \A k \in DOMAIN x.m_key_images : x.m_key_images[k] = m.m_key_images[k]
<1> DEFINE first == FirstFrom(m, h)
           gone == {m.m_transfers[i].m_key_image : i \in first..Len(m.m_transfers)}
           e == ImagesErased(m, first, Len(m.m_transfers))
           s == SubSeq(m.m_transfers, 1, first - 1)
           c == SubSeq(m.m_blockchain, 1, h)
           x == detach_blockchain(m, h)
<1>1. /\ m.m_blockchain \in Seq(Blocks) /\ m.m_transfers \in Seq(Transfers)
      /\ Len(m.m_blockchain) \in Nat /\ Len(m.m_transfers) \in Nat
      /\ DOMAIN m.m_transfers = 1..Len(m.m_transfers)
  BY Fields
<1>2. first \in 1..(Len(m.m_transfers) + 1)
  BY FirstFromFacts
<1>3. /\ e \in Members /\ e.m_blockchain = m.m_blockchain /\ e.m_transfers = m.m_transfers
      /\ e.m_pending_key_images = m.m_pending_key_images
      /\ DOMAIN e.m_key_images = DOMAIN m.m_key_images \ gone
      /\ \A k \in DOMAIN e.m_key_images : e.m_key_images[k] = m.m_key_images[k]
  <2> HIDE DEF first
  <2> QED BY ErasedFields
<1>4. x = [e EXCEPT !.m_transfers = SubSeq(@, 1, first - 1), !.m_blockchain = SubSeq(@, 1, h)]
  BY Zenon DEF detach_blockchain
<1> HIDE DEF e, x, gone, first
<1>5. x = [e EXCEPT !.m_transfers = s, !.m_blockchain = c]
  BY <1>3, <1>4
<1>6. c \in Seq(Blocks) /\ Len(c) = h /\ \A j \in 1..h : c[j] = m.m_blockchain[j]
  <2>1. h \in 0..Len(m.m_blockchain)
    BY <1>1
  <2> QED BY <2>1, <1>1, FrontPart
<1>7. /\ s \in Seq(Transfers) /\ Len(s) = first - 1
      /\ \A i \in 1..(first - 1) : s[i] = m.m_transfers[i]
  <2>1. first - 1 \in 0..Len(m.m_transfers)
    BY <1>1, <1>2
  <2> DEFINE f == first - 1
  <2>2. f \in 0..Len(m.m_transfers)
    BY <2>1
  <2> HIDE DEF f
  <2>3. /\ SubSeq(m.m_transfers, 1, f) \in Seq(Transfers) /\ Len(SubSeq(m.m_transfers, 1, f)) = f
        /\ \A i \in 1..f : SubSeq(m.m_transfers, 1, f)[i] = m.m_transfers[i]
    BY <2>2, <1>1, FrontPart
  <2> QED BY <2>3 DEF f
<1>8. \A i \in 1..(first - 1) : i \in DOMAIN m.m_transfers
  BY <1>1, <1>2
<1> HIDE DEF s, c
<1>9. /\ x \in Members /\ x.m_transfers = s /\ x.m_blockchain = c /\ x.m_key_images = e.m_key_images
      /\ x.m_pending_key_images = e.m_pending_key_images
  BY <1>3, <1>5, <1>6, <1>7 DEF Members
<1>10. DOMAIN s = 1..(first - 1) /\ DOMAIN c = 1..h
  BY <1>6, <1>7
<1> QED BY <1>3, <1>6, <1>7, <1>8, <1>9, <1>10 DEF x, first, gone

LEMMA DetachFollows ==
  ASSUME NEW m \in Members, NEW h \in Nat, 1 <= h, h <= Len(m.m_blockchain), Path(m.m_blockchain),
         NEW rest, AtHeight(m, rest)
  PROVE  LET x == detach_blockchain(m, h)
         IN  Path(x.m_blockchain) /\ AtHeight(x, rest \cap Recorded(x))
<1> DEFINE x == detach_blockchain(m, h)
           first == FirstFrom(m, h)
<1>1. /\ x \in Members /\ Len(x.m_blockchain) = h /\ DOMAIN x.m_blockchain = 1..h
      /\ \A j \in 1..h : x.m_blockchain[j] = m.m_blockchain[j]
      /\ DOMAIN x.m_transfers = 1..(first - 1)
      /\ \A i \in 1..(first - 1) : x.m_transfers[i] = m.m_transfers[i] /\ i \in DOMAIN m.m_transfers
  BY DetachFields
<1>2. /\ first \in 1..(Len(m.m_transfers) + 1) /\ Len(m.m_transfers) \in Nat /\ Len(m.m_blockchain) \in Nat
      /\ \A i \in DOMAIN m.m_transfers : i < first => m.m_transfers[i].m_block_height < h
  BY FirstFromFacts, Fields
<1> HIDE DEF x, first
<1>3. Path(x.m_blockchain)
  <2>1. x.m_blockchain \in Seq(Blocks)
    BY <1>1, Fields
  <2>2. x.m_blockchain[1] = Genesis
    BY <1>1 DEF Path
  <2>3. ASSUME NEW i \in 2..h
        PROVE  x.m_blockchain[i] # Genesis /\ Parent[x.m_blockchain[i]] = x.m_blockchain[i - 1]
    <3>1. i \in 1..h /\ i - 1 \in 1..h /\ i \in 2..Len(m.m_blockchain)
      BY <1>2
    <3> QED BY <3>1, <1>1 DEF Path
  <2> QED BY <2>1, <2>2, <2>3, <1>1 DEF Path
<1>4. AtHeight(x, rest \cap Recorded(x))
  <2> SUFFICES ASSUME NEW i \in DOMAIN x.m_transfers,
                      <<x.m_transfers[i].out, x.m_transfers[i].m_block_height>> \notin rest \cap Recorded(x)
               PROVE  /\ x.m_transfers[i].m_block_height < Len(x.m_blockchain)
                      /\ x.m_transfers[i].out \in OutsIn(<<x.m_blockchain[x.m_transfers[i].m_block_height + 1]>>)
    BY DEF AtHeight
  <2> DEFINE o == m.m_transfers[i].out
             g == m.m_transfers[i].m_block_height
  <2>1. /\ i \in DOMAIN m.m_transfers /\ x.m_transfers[i].out = o
        /\ x.m_transfers[i].m_block_height = g /\ i < first
    BY <1>1, <1>2
  <2>2. <<x.m_transfers[i].out, x.m_transfers[i].m_block_height>> \in Recorded(x)
    BY DEF Recorded, Range
  <2>3. <<o, g>> \notin rest
    BY <2>1, <2>2
  <2>4. o \in OutsIn(<<m.m_blockchain[g + 1]>>)
    BY <2>1, <2>3 DEF AtHeight
  <2>5. g < h /\ g \in Nat
    BY <2>1, <1>2, OneTransfer
  <2> HIDE DEF g, o
  <2>6. g + 1 \in 1..h
    BY <2>5
  <2>7. x.m_blockchain[g + 1] = m.m_blockchain[g + 1]
    BY <2>6, <1>1
  <2> QED BY <2>1, <2>4, <2>5, <2>7, <1>1
<1> QED BY <1>3, <1>4 DEF x

LEMMA DetachSound ==
  ASSUME NEW m \in Members, NEW h \in Nat, 1 <= h, h <= Len(m.m_blockchain), Sound(m)
  PROVE  Sound(detach_blockchain(m, h))
<1> DEFINE x == detach_blockchain(m, h)
           first == FirstFrom(m, h)
           gone == {m.m_transfers[i].m_key_image : i \in first..Len(m.m_transfers)}
           tr == m.m_transfers
           ki == m.m_key_images
<1>1. /\ x \in Members /\ Len(x.m_blockchain) = h /\ DOMAIN x.m_blockchain = 1..h
      /\ \A j \in 1..h : x.m_blockchain[j] = m.m_blockchain[j]
      /\ DOMAIN x.m_transfers = 1..(first - 1)
      /\ \A i \in 1..(first - 1) : x.m_transfers[i] = tr[i] /\ i \in DOMAIN tr
      /\ DOMAIN x.m_key_images = DOMAIN ki \ gone
      /\ \A k \in DOMAIN x.m_key_images : x.m_key_images[k] = ki[k]
  BY DetachFields, Zenon
<1>2. /\ first \in 1..(Len(tr) + 1)
      /\ \A i \in DOMAIN tr : i < first => tr[i].m_block_height < h
      /\ first <= Len(tr) => tr[first].m_block_height >= h
  BY FirstFromFacts
<1>3. /\ Len(tr) \in Nat /\ Len(m.m_blockchain) \in Nat
      /\ DOMAIN m.m_blockchain = 1..Len(m.m_blockchain) /\ DOMAIN tr = 1..Len(tr)
      /\ \A i \in DOMAIN tr : tr[i].m_block_height \in Nat
  BY Fields, OneTransfer
<1>4. /\ \A k \in DOMAIN ki : ki[k] \in DOMAIN tr /\ tr[ki[k]].m_key_image = k
      /\ \A i \in DOMAIN tr : tr[i].m_key_image \in DOMAIN ki /\ ki[tr[i].m_key_image] = i
  BY DEF Sound, Indexed
<1>5. \A i, j \in DOMAIN tr : i <= j => tr[i].m_block_height <= tr[j].m_block_height
  BY DEF Sound, Ordered
<1>6. \A k : k \in gone <=> \E i \in first..Len(tr) : k = tr[i].m_key_image
  OBVIOUS
<1> HIDE DEF x, first, gone
<1>7. ASSUME NEW k \in DOMAIN ki PROVE k \in gone <=> ki[k] >= first
  <2>1. ki[k] \in DOMAIN tr /\ tr[ki[k]].m_key_image = k
    BY <1>4
  <2>2. ASSUME k \in gone PROVE ki[k] >= first
    <3>1. PICK i \in first..Len(tr) : k = tr[i].m_key_image
      BY <2>2, <1>6
    <3>2. i \in DOMAIN tr /\ i >= first
      BY <3>1, <1>2, <1>3
    <3> QED BY <3>1, <3>2, <1>4
  <2>3. ASSUME ki[k] >= first PROVE k \in gone
    <3>1. ki[k] \in first..Len(tr)
      BY <2>1, <2>3, <1>2, <1>3
    <3> QED BY <3>1, <2>1, <1>6
  <2> QED BY <2>2, <2>3
<1>8. Indexed(x)
  <2>1. ASSUME NEW k \in DOMAIN x.m_key_images
        PROVE  /\ x.m_key_images[k] \in DOMAIN x.m_transfers
               /\ x.m_transfers[x.m_key_images[k]].m_key_image = k
    <3>1. k \in DOMAIN ki /\ k \notin gone /\ x.m_key_images[k] = ki[k]
      BY <1>1
    <3>2. ki[k] \in DOMAIN tr /\ tr[ki[k]].m_key_image = k /\ ~(ki[k] >= first)
      BY <3>1, <1>4, <1>7
    <3>3. ki[k] \in 1..(first - 1)
      BY <3>2, <1>2, <1>3
    <3> QED BY <3>1, <3>2, <3>3, <1>1
  <2>2. ASSUME NEW i \in DOMAIN x.m_transfers
        PROVE  /\ x.m_transfers[i].m_key_image \in DOMAIN x.m_key_images
               /\ x.m_key_images[x.m_transfers[i].m_key_image] = i
    <3> DEFINE k == tr[i].m_key_image
    <3>1. i \in DOMAIN tr /\ x.m_transfers[i].m_key_image = k /\ ~(i >= first)
      BY <1>1, <1>2, <1>3
    <3>2. k \in DOMAIN ki /\ ki[k] = i
      BY <3>1, <1>4
    <3> HIDE DEF k
    <3>3. k \notin gone
      BY <3>1, <3>2, <1>7
    <3>4. k \in DOMAIN x.m_key_images /\ x.m_key_images[k] = i
      BY <3>2, <3>3, <1>1
    <3> QED BY <3>1, <3>4
  <2> QED BY <2>1, <2>2 DEF Indexed
<1>9. Ordered(x)
  <2>1. ASSUME NEW i \in DOMAIN x.m_transfers
        PROVE  i \in DOMAIN tr /\ x.m_transfers[i] = tr[i] /\ tr[i].m_block_height <= h
    <3>1. i \in DOMAIN tr /\ x.m_transfers[i] = tr[i] /\ i < first
      BY <1>1, <1>2, <1>3
    <3> QED BY <3>1, <1>2, <1>3
  <2> QED BY <2>1, <1>1, <1>5 DEF Ordered
<1>10. ASSUME NEW j \in 1..h PROVE Scanned(x, m.m_blockchain[j], j - 1)
  <2> DEFINE b == m.m_blockchain[j]
  <2>1. j \in DOMAIN m.m_blockchain /\ j \in Nat
    BY <1>3
  <2>2. Scanned(m, b, j - 1)
    BY <2>1 DEF Sound
  <2> HIDE DEF b
  <2>3. ASSUME NEW o, KnownSince(m, o, j - 1) PROVE KnownSince(x, o, j - 1)
    <3> DEFINE k == KeyImage[o]
               i == ki[k]
    <3>1. k \in DOMAIN ki /\ tr[i].m_block_height <= j - 1
      BY <2>3 DEF KnownSince
    <3>2. i \in DOMAIN tr
      BY <3>1, <1>4
    <3>3. ~(i >= first)
      <4> SUFFICES ASSUME i >= first PROVE FALSE
        OBVIOUS
      <4> HIDE DEF i
      <4>1. first \in DOMAIN tr /\ first <= i /\ first <= Len(tr)
        BY <3>2, <1>2, <1>3
      <4>2. tr[first].m_block_height <= tr[i].m_block_height /\ tr[first].m_block_height >= h
        BY <4>1, <3>2, <1>2, <1>5
      <4>3. tr[first].m_block_height \in Nat /\ tr[i].m_block_height \in Nat
        BY <4>1, <3>2, <1>3
      <4> QED BY <4>2, <4>3, <3>1, <2>1
    <3>4. k \notin gone
      BY <3>1, <3>3, <1>7
    <3>5. k \in DOMAIN x.m_key_images /\ x.m_key_images[k] = i
      BY <3>1, <3>4, <1>1
    <3>6. i \in 1..(first - 1)
      BY <3>2, <3>3, <1>2, <1>3
    <3>7. x.m_transfers[i] = tr[i]
      BY <3>6, <1>1
    <3> QED BY <3>1, <3>5, <3>7 DEF KnownSince
  <2>4. ASSUME NEW t, SpentOf(m, t) PROVE SpentOf(x, t)
    <3>1. \A i \in DOMAIN x.m_transfers : i \in DOMAIN tr /\ x.m_transfers[i] = tr[i]
      BY <1>1
    <3> QED BY <2>4, <3>1 DEF SpentOf
  <2>5. Scanned(x, b, j - 1)
    BY <2>2, <2>3, <2>4 DEF Scanned
  <2> QED BY <2>5 DEF b
<1>11. \A j \in DOMAIN x.m_blockchain : Scanned(x, x.m_blockchain[j], j - 1)
  BY <1>1, <1>10
<1> QED BY <1>8, <1>9, <1>11 DEF Sound, x

(* With the spend key, every key image of a detached transfer is found.    *)
LEMMA AllFound ==
  ASSUME NEW m \in Members, NEW h \in Nat, Indexed(m)
  PROVE  Unfound(m, h) = {}
<1> DEFINE first == FirstFrom(m, h)
           tr == m.m_transfers
<1>1. first \in 1..(Len(tr) + 1)
  BY FirstFromFacts
<1>2. Len(tr) \in Nat /\ DOMAIN tr = 1..Len(tr)
  BY Fields
<1> SUFFICES ASSUME NEW i \in Unfound(m, h) PROVE FALSE
  OBVIOUS
<1>3. /\ i \in first..Len(tr)
      /\ \/ tr[i].m_key_image \notin DOMAIN m.m_key_images
         \/ \E j \in first..(i - 1) : tr[j].m_key_image = tr[i].m_key_image
  BY DEF Unfound
<1> HIDE DEF first
<1>4. i \in DOMAIN tr
  BY <1>1, <1>2, <1>3
<1>5. PICK j \in first..(i - 1) : tr[j].m_key_image = tr[i].m_key_image
  BY <1>3, <1>4 DEF Indexed
<1>6. j \in DOMAIN tr /\ j # i
  BY <1>1, <1>2, <1>3, <1>5
<1> QED BY <1>4, <1>5, <1>6 DEF Indexed
-----------------------------------------------------------------------------
(* Pulling blocks.                                                         *)

(* Two paths of the tree agree up to some place and nowhere after it.      *)
LEMMA CommonPrefix ==
  ASSUME NEW s, Path(s), NEW c, Path(c)
  PROVE  LET n == Cardinality({i \in DOMAIN s : i \in DOMAIN c /\ s[i] = c[i]})
         IN  /\ n \in Nat /\ 1 <= n /\ n <= Len(s) /\ n <= Len(c)
             /\ \A i \in 1..n : s[i] = c[i]
<1> DEFINE S == {i \in DOMAIN s : i \in DOMAIN c /\ s[i] = c[i]}
<1>1. /\ Len(s) \in Nat /\ DOMAIN s = 1..Len(s) /\ Len(s) >= 1 /\ s[1] = Genesis
      /\ \A i \in 2..Len(s) : s[i] # Genesis /\ Parent[s[i]] = s[i - 1]
  BY DEF Path
<1>2. /\ Len(c) \in Nat /\ DOMAIN c = 1..Len(c) /\ Len(c) >= 1 /\ c[1] = Genesis
      /\ \A i \in 2..Len(c) : c[i] # Genesis /\ Parent[c[i]] = c[i - 1]
  BY DEF Path
<1>3. 1 \in S /\ S \subseteq 1..Len(s)
  BY <1>1, <1>2
<1>4. PICK g \in S : \A j \in S : j <= g
  <2> HIDE DEF S
  <2>1. S # {}
    BY <1>3
  <2> QED BY <2>1, <1>1, <1>3, GreatestNumber
<1>5. g \in 1..Len(s) /\ g \in 1..Len(c) /\ g \in Nat
  BY <1>1, <1>2, <1>4
<1> DEFINE T == {i \in 1..g : i \notin S}
<1>6. T = {}
  <2> SUFFICES ASSUME T # {} PROVE FALSE
    OBVIOUS
  <2>1. T \subseteq 1..g
    OBVIOUS
  <2>2. PICK t \in T : \A j \in T : j <= t
    <3> HIDE DEF T
    <3> QED BY <2>1, <1>5, GreatestNumber
  <2>3. t \in 1..g /\ t \notin S /\ t # g
    BY <2>2, <1>4
  <2>4. t + 1 \in 1..g /\ ~(t + 1 <= t)
    BY <2>3, <1>5
  <2>5. t + 1 \in S
    BY <2>2, <2>4
  <2>6. s[t + 1] = c[t + 1] /\ t + 1 \in 2..Len(s) /\ t + 1 \in 2..Len(c) /\ (t + 1) - 1 = t
    BY <2>3, <2>5, <1>1, <1>2
  <2>7. Parent[s[t + 1]] = s[t] /\ Parent[c[t + 1]] = c[t]
    BY <2>6, <1>1, <1>2
  <2>8. t \in DOMAIN s /\ t \in DOMAIN c
    BY <2>3, <1>1, <1>2, <1>5
  <2> QED BY <2>3, <2>6, <2>7, <2>8
<1>7. S = 1..g
  <2>1. \A i \in S : i \in 1..g
    BY <1>1, <1>3, <1>4, <1>5
  <2> QED BY <2>1, <1>6
<1>8. Cardinality(1..g) = g
  <2>1. 1 \in Int /\ g \in Int /\ g >= 1
    BY <1>5
  <2>2. Cardinality(1..g) = IF 1 > g THEN 0 ELSE g - 1 + 1
    BY <2>1, FS_Interval
  <2> QED BY <2>1, <2>2
<1>9. Cardinality(S) = g
  BY <1>7, <1>8
<1>10. \A i \in 1..g : s[i] = c[i]
  BY <1>7
<1> HIDE DEF S
<1>11. /\ Cardinality(S) \in Nat /\ 1 <= Cardinality(S)
       /\ Cardinality(S) <= Len(s) /\ Cardinality(S) <= Len(c)
       /\ \A i \in 1..Cardinality(S) : s[i] = c[i]
  BY <1>1, <1>2, <1>5, <1>9, <1>10
<1> QED BY <1>11, Zenon DEF S

LEMMA LesserOfTwo ==
  ASSUME NEW a \in Nat, NEW b \in Nat
  PROVE  Min({a, b}) = IF a <= b THEN a ELSE b
<1>1. \E x \in {a, b} : \A y \in {a, b} : x <= y
  OBVIOUS
<1> QED BY <1>1 DEF Min

(* Of the ids sent, the daemon starts from one it has.                     *)
LEMMA StartFound ==
  ASSUME NEW size \in Nat, NEW n \in Nat, 1 <= n
  PROVE  Max({h \in get_short_chain_history(size) : h < n}) \in Nat
<1> DEFINE H == get_short_chain_history(size)
           S == {h \in H : h < n}
           T == {h + 1 : h \in S}
<1>1. 0 \in H /\ H \subseteq Nat
  <2> DEFINE ns == {x \in 1..(size - 1) : x <= Dense + 1 \/ \E k \in 1..size : x + 1 = Dense + 2^(k + 1)}
  <2>1. H = {0} \cup {size - o : o \in ns}
    BY DEF get_short_chain_history
  <2>2. \A o \in ns : size - o \in Nat
    <3>1. ns \subseteq 1..(size - 1)
      OBVIOUS
    <3> HIDE DEF ns
    <3> QED BY <3>1
  <2> HIDE DEF ns, H
  <2> QED BY <2>1, <2>2
<1> HIDE DEF H
<1>2. 0 \in S /\ S \subseteq Nat /\ \A h \in S : h < n
  <2>1. 0 < n
    OBVIOUS
  <2> QED BY <2>1, <1>1, Zenon
<1> HIDE DEF S
<1>3. T \subseteq 1..n /\ T # {}
  <2>1. \A h \in S : h + 1 \in 1..n
    BY <1>2
  <2> QED BY <2>1, <1>2
<1>4. PICK g \in T : \A j \in T : j <= g
  <2> HIDE DEF T
  <2> QED BY <1>3, GreatestNumber
<1>5. PICK x \in S : g = x + 1
  BY <1>4
<1>6. \A y \in S : x >= y
  <2> TAKE y \in S
  <2>1. y + 1 <= x + 1
    BY <1>4, <1>5
  <2> QED BY <2>1, <1>2
<1>7. Max(S) \in S
  BY <1>6 DEF Max
<1> QED BY <1>2, <1>7 DEF S, H

LEMMA IdleRefreshes ==
  ASSUME NEW v, NEW m \in Members, NEW st \in {"idle", "loop", "pull"}, NEW f \in BOOLEAN
  PROVE  Refreshing(v, Idle, m) /\ Refreshing(v, [Idle EXCEPT !.stage = st, !.fetched = f], m)
<1>1. Len(m.m_blockchain) \in Nat
  BY Fields
<1>2. ASSUME NEW r, r \in Runs, r.left = <<>>, r.height = 0, r.entry = "none" PROVE Refreshing(v, r, m)
  BY <1>1, <1>2 DEF Refreshing, Linked
<1>3. Idle \in Runs /\ Idle.left = <<>> /\ Idle.height = 0 /\ Idle.entry = "none"
  BY DEF Idle, Runs
<1> DEFINE q == [Idle EXCEPT !.stage = st, !.fetched = f]
<1>4. q \in Runs /\ q.left = <<>> /\ q.height = 0 /\ q.entry = "none"
  BY <1>3 DEF Runs
<1> HIDE DEF q
<1> QED BY <1>2, <1>3, <1>4 DEF q

LEMMA RestOf ==
  ASSUME NEW c \in Seq(Blocks), NEW h \in Nat, NEW end \in Nat, h <= end, end <= Len(c)
  PROVE  /\ SubSeq(c, h + 1, end) \in Seq(Blocks) /\ Len(SubSeq(c, h + 1, end)) = end - h
         /\ \A k \in 1..(end - h) : SubSeq(c, h + 1, end)[k] = c[h + k]
<1> DEFINE g == h + 1
           l == SubSeq(c, g, end)
<1>1. end \in 0..Len(c) /\ g \in 1..(end + 1) /\ g = h + 1
  OBVIOUS
<1> HIDE DEF g
<1>2. /\ l \in Seq(Blocks) /\ Len(l) = end - g + 1
      /\ \A k \in 1..(end - g + 1) : l[k] = c[g + k - 1]
  BY <1>1, MiddlePart
<1> HIDE DEF l
<1>3. end - g + 1 = end - h
  BY <1>1
<1>4. ASSUME NEW k \in 1..(end - h) PROVE g + k - 1 = h + k
  BY <1>1
<1>5. l \in Seq(Blocks) /\ Len(l) = end - h
  BY <1>2, <1>3
<1>6. ASSUME NEW k \in 1..(end - h) PROVE l[k] = c[h + k]
  BY <1>2, <1>3, <1>4
<1> QED BY <1>5, <1>6 DEF l, g

LEMMA Pulled ==
  ASSUME NEW v, NEW m \in Members, Path(m.m_blockchain), NEW c, Path(c), NEW n \in Nat, 1 <= n,
         n <= Len(m.m_blockchain), \A i \in 1..n : m.m_blockchain[i] = c[i],
         NEW end \in Nat, 1 <= end, end <= Len(c), NEW f \in BOOLEAN, NEW h, h = Min({n, end})
  PROVE  Refreshing(v, [Idle EXCEPT !.stage = "pull", !.height = h,
                          !.left = SubSeq(c, h + 1, end), !.fetched = f], m)
<1> DEFINE l == SubSeq(c, h + 1, end)
           q == [Idle EXCEPT !.stage = "pull", !.height = h, !.left = l, !.fetched = f]
<1>1. h \in Nat /\ 1 <= h /\ h <= n /\ h <= end
  BY LesserOfTwo
<1>2. /\ c \in Seq(Blocks) /\ Len(c) \in Nat /\ Len(m.m_blockchain) \in Nat
      /\ \A i \in 2..Len(c) : c[i] # Genesis /\ Parent[c[i]] = c[i - 1]
  BY Fields DEF Path
<1>3. /\ l \in Seq(Blocks) /\ Len(l) = end - h
      /\ \A k \in 1..(end - h) : l[k] = c[h + k]
  BY <1>1, <1>2, RestOf
<1> HIDE DEF l
<1>4. q \in Runs /\ q.left = l /\ q.height = h /\ q.entry = "none"
  <2>1. Idle \in Runs /\ Idle.entry = "none"
    BY DEF Idle, Runs
  <2> QED BY <2>1, <1>1, <1>3 DEF Runs
<1> HIDE DEF q
<1>5. Linked(q, m)
  <2>1. ASSUME l # <<>> PROVE l[1] # Genesis /\ Parent[l[1]] = m.m_blockchain[h]
    <3>1. 1 \in 1..(end - h)
      BY <2>1, <1>1, <1>3
    <3>4. h + 1 \in 2..Len(c) /\ (h + 1) - 1 = h
      BY <3>1, <1>1, <1>2
    <3>2. l[1] = c[h + 1] /\ h + 1 \in 2..Len(c) /\ (h + 1) - 1 = h
      BY <3>1, <3>4, <1>3
    <3>3. h \in 1..n
      BY <1>1
    <3> QED BY <3>2, <3>3, <1>2
  <2>2. ASSUME NEW i \in 2..Len(l) PROVE l[i] # Genesis /\ Parent[l[i]] = l[i - 1]
    <3>1. /\ i \in 1..(end - h) /\ i - 1 \in 1..(end - h)
          /\ h + i \in 2..Len(c) /\ (h + i) - 1 = h + (i - 1)
      BY <1>1, <1>2, <1>3
    <3>2. l[i] = c[h + i] /\ l[i - 1] = c[h + (i - 1)]
      BY <3>1, <1>3
    <3> QED BY <3>1, <3>2, <1>2
  <2> QED BY <2>1, <2>2, <1>1, <1>4 DEF Linked
<1>6. q.height <= Len(m.m_blockchain)
  BY <1>1, <1>2, <1>4
<1>7. Refreshing(v, q, m)
  BY <1>4, <1>5, <1>6 DEF Refreshing
<1> QED BY <1>7 DEF q, l
-----------------------------------------------------------------------------
(* The file of the pending key images.                                     *)

LEMMA FileSize ==
  ASSUME NEW A, NEW s \in Seq(A), NoRepeats(s)
  PROVE  IsFiniteSet(Range(s)) /\ Cardinality(Range(s)) = Len(s)
<1>1. Len(s) \in Nat /\ DOMAIN s = 1..Len(s)
  OBVIOUS
<1>2. IsFiniteSet(1..Len(s)) /\ Cardinality(1..Len(s)) = Len(s)
  <2>1. 1 \in Int /\ Len(s) \in Int
    BY <1>1
  <2>2. IsFiniteSet(1..Len(s)) /\ Cardinality(1..Len(s)) = IF 1 > Len(s) THEN 0 ELSE Len(s) - 1 + 1
    BY <2>1, FS_Interval
  <2> QED BY <1>1, <2>2
<1>3. s \in [1..Len(s) -> Range(s)]
  BY <1>1 DEF Range
<1>4. s \in Injection(1..Len(s), Range(s))
  BY <1>1, <1>3 DEF Injection, IsInjective, NoRepeats
<1>5. s \in Surjection(1..Len(s), Range(s))
  BY <1>1, <1>3 DEF Surjection, Range
<1>6. ExistsBijection(1..Len(s), Range(s))
  BY <1>4, <1>5 DEF ExistsBijection, Bijection
<1> QED BY <1>2, <1>6, FS_Bijection

LEMMA SetToSeqFacts ==
  ASSUME NEW S, IsFiniteSet(S)
  PROVE  SetToSeq(S) \in Seq(S) /\ NoRepeats(SetToSeq(S)) /\ Range(SetToSeq(S)) = S
<1> DEFINE n == Cardinality(S)
           f == SetToSeq(S)
<1>1. n \in Nat /\ ExistsBijection(1..n, S)
  BY FS_CardinalityType
<1>2. \E g \in [1..n -> S] : IsInjective(g)
  BY <1>1 DEF ExistsBijection, Bijection, Injection
<1>3. f \in [1..n -> S] /\ IsInjective(f)
  BY <1>2 DEF SetToSeq
<1>4. Cardinality(1..n) = n
  <2> HIDE DEF n
  <2>1. 1 \in Int /\ n \in Int
    BY <1>1
  <2>2. Cardinality(1..n) = IF 1 > n THEN 0 ELSE n - 1 + 1
    BY <2>1, FS_Interval
  <2> QED BY <1>1, <2>2
<1>5. f \in Injection(1..n, S)
  <2> HIDE DEF f, n
  <2> QED BY <1>3 DEF Injection
<1>6. f \in Surjection(1..n, S)
  <2>1. Cardinality(1..n) = Cardinality(S)
    BY <1>4
  <2> HIDE DEF f, n
  <2> QED BY <2>1, <1>5, FS_Injection
<1> HIDE DEF f, n
<1>7. Range(f) = S
  BY <1>3, <1>6 DEF Surjection, Range
<1>8. NoRepeats(f)
  BY <1>3 DEF NoRepeats, IsInjective
<1>9. f \in Seq(S)
  BY <1>1, <1>3
<1> QED BY <1>7, <1>8, <1>9 DEF f

LEMMA FileGrows ==
  ASSUME NEW A, NEW s \in Seq(A), NoRepeats(s), NEW T, T \subseteq A, IsFiniteSet(T)
  PROVE  LET z == s \o SetToSeq(T \ Range(s))
         IN  z \in Seq(A) /\ NoRepeats(z) /\ Range(z) = Range(s) \cup T
<1> DEFINE D == T \ Range(s)
           t == SetToSeq(D)
           z == s \o t
<1>1. IsFiniteSet(D) /\ D \subseteq A
  BY FS_Difference
<1>2. t \in Seq(D) /\ NoRepeats(t) /\ Range(t) = D
  <2> HIDE DEF D
  <2> QED BY <1>1, SetToSeqFacts
<1>3. t \in Seq(A)
  <2> HIDE DEF t, D
  <2> QED BY <1>1, <1>2
<1> DEFINE m == Len(s)
           n == Len(t)
<1>4. m \in Nat /\ n \in Nat /\ DOMAIN s = 1..m /\ DOMAIN t = 1..n
  <2> HIDE DEF t
  <2> QED BY <1>3
<1>5. /\ z \in Seq(A) /\ Len(z) = m + n
      /\ \A k \in 1..m : z[k] = s[k]
      /\ \A k \in 1..n : z[m + k] = t[k]
  <2> HIDE DEF t
  <2> QED BY <1>3, ConcatParts
<1>6. DOMAIN z = 1..(m + n)
  <2> HIDE DEF z
  <2> QED BY <1>5
<1>7. \A k \in 1..m : s[k] \in Range(s)
  BY <1>4 DEF Range
<1>8. \A k \in 1..n : t[k] \in T /\ t[k] \notin Range(s)
  <2> HIDE DEF t
  <2>1. \A k \in 1..n : t[k] \in Range(t)
    BY <1>4 DEF Range
  <2> QED BY <2>1, <1>2
<1>d. Range(t) = T \ Range(s)
  BY <1>2
<1> HIDE DEF z, t, m, n, D
<1>9. ASSUME NEW i \in 1..(m + n)
      PROVE  \/ i \in 1..m /\ z[i] = s[i]
             \/ i - m \in 1..n /\ z[i] = t[i - m]
  <2>1. CASE i <= m
    BY <2>1, <1>4, <1>5
  <2>2. CASE ~(i <= m)
    <3>1. i - m \in 1..n /\ m + (i - m) = i
      BY <2>2, <1>4
    <3> QED BY <3>1, <1>5
  <2> QED BY <2>1, <2>2
<1>10. NoRepeats(z)
  <2> SUFFICES ASSUME NEW i \in 1..(m + n), NEW j \in 1..(m + n), z[i] = z[j] PROVE i = j
    BY <1>6 DEF NoRepeats
  <2>1. CASE i \in 1..m /\ z[i] = s[i]
    <3>1. CASE j \in 1..m /\ z[j] = s[j]
      BY <2>1, <3>1, <1>4 DEF NoRepeats
    <3>2. CASE j - m \in 1..n /\ z[j] = t[j - m]
      BY <2>1, <3>2, <1>7, <1>8
    <3> QED BY <3>1, <3>2, <1>9
  <2>2. CASE i - m \in 1..n /\ z[i] = t[i - m]
    <3>1. CASE j \in 1..m /\ z[j] = s[j]
      BY <2>2, <3>1, <1>7, <1>8
    <3>2. CASE j - m \in 1..n /\ z[j] = t[j - m]
      <4>1. i - m = j - m
        BY <2>2, <3>2, <1>2, <1>4 DEF NoRepeats
      <4> QED BY <4>1, <1>4
    <3> QED BY <3>1, <3>2, <1>9
  <2> QED BY <2>1, <2>2, <1>9
<1>11. Range(z) = Range(s) \cup T
  <2>1. ASSUME NEW y \in Range(z) PROVE y \in Range(s) \cup T
    <3>1. PICK i \in 1..(m + n) : y = z[i]
      BY <1>6 DEF Range
    <3> QED BY <3>1, <1>7, <1>8, <1>9
  <2>2. ASSUME NEW y \in Range(s) PROVE y \in Range(z)
    <3>1. PICK i \in 1..m : y = s[i]
      BY <1>4 DEF Range
    <3>2. i \in DOMAIN z /\ z[i] = y
      BY <3>1, <1>4, <1>5, <1>6
    <3> QED BY <3>2 DEF Range
  <2>3. ASSUME NEW y \in T, y \notin Range(s) PROVE y \in Range(z)
    <3>1. y \in Range(t)
      BY <2>3, <1>d
    <3>2. PICK i \in 1..n : y = t[i]
      BY <3>1, <1>4 DEF Range
    <3>3. m + i \in DOMAIN z /\ z[m + i] = y
      BY <3>2, <1>4, <1>5, <1>6
    <3> QED BY <3>3 DEF Range
  <2> QED BY <2>1, <2>2, <2>3
<1> QED BY <1>5, <1>10, <1>11 DEF z, t, D

-----------------------------------------------------------------------------
(* Sending.                                                                *)

Locked(m, indexes, t) ==
  [set_transfer_spent_flag(m, indexes, TRUE) EXCEPT
     !.m_unconfirmed_txs = @ \cup {t}, !.m_tx_keys = @ \cup {t}]

LEMMA LockedGood ==
  ASSUME NEW v, NEW m, NEW rest, Good(v, m, rest), NEW indexes, NEW t \in OwnTxs
  PROVE  /\ Locked(m, indexes, t) \in Members /\ Good(v, Locked(m, indexes, t), rest)
         /\ Locked(m, indexes, t).m_blockchain = m.m_blockchain
         /\ Locked(m, indexes, t).m_pending_key_images = m.m_pending_key_images
         /\ Locked(m, indexes, t).m_key_images = m.m_key_images
<1> DEFINE y == set_transfer_spent_flag(m, indexes, TRUE)
           x == [y EXCEPT !.m_unconfirmed_txs = @ \cup {t}, !.m_tx_keys = @ \cup {t}]
           yes == TRUE
<1>1. m \in Members /\ yes \in BOOLEAN /\ yes
  BY DEF Good
<1>2. y = set_transfer_spent_flag(m, indexes, yes)
  OBVIOUS
<1> HIDE DEF y, yes
<1>3. Unmoved(m, y) /\ Marked(m, y)
  BY <1>1, <1>2, FlagUnmoved, FlagMarks
<1>4. /\ y \in Members /\ y.m_pending_key_images = m.m_pending_key_images
      /\ y.m_blockchain = m.m_blockchain /\ y.m_key_images = m.m_key_images
  BY <1>1, <1>2, FlagRest
<1>5. Good(v, y, rest)
  BY <1>3, <1>4, MarkedGood
<1>6. /\ x \in Members /\ x.m_transfers = y.m_transfers /\ x.m_blockchain = y.m_blockchain
      /\ x.m_key_images = y.m_key_images /\ x.m_pending_key_images = y.m_pending_key_images
  BY <1>4 DEF Members
<1> HIDE DEF x
<1>7. Unmoved(y, x) /\ Marked(y, x)
  BY <1>6 DEF Unmoved, Marked
<1>8. Good(v, x, rest)
  BY <1>5, <1>6, <1>7, MarkedGood
<1> QED BY <1>4, <1>6, <1>8 DEF x, y, Locked

(* What a watch-only wallet adds: the names of the sources and the pending *)
(* key images.                                                             *)
Named(m, src, outs) ==
  [AddPending(m, outs) EXCEPT
     !.m_transfers = [i \in DOMAIN @ |->
        IF i \in Range(src)
        THEN [@[i] EXCEPT !.m_key_image = CHOOSE k \in DOMAIN src : src[k] = i]
        ELSE @[i]],
     !.m_key_images = [k \in DOMAIN @ \cup DOMAIN src |->
        IF k \in DOMAIN src THEN src[k] ELSE @[k]]]

LEMMA NamedRest ==
  ASSUME NEW m \in Members, NEW src, NEW outs
  PROVE  /\ Named(m, src, outs).m_blockchain = m.m_blockchain
         /\ Named(m, src, outs).m_pending_key_images = m.m_pending_key_images \cup outs
<1> DEFINE y == AddPending(m, outs)
           x == Named(m, src, outs)
<1>2. y.m_blockchain = m.m_blockchain /\ y.m_pending_key_images = m.m_pending_key_images \cup outs
  BY DEF AddPending, Members
<1>3. DOMAIN y = DOMAIN m
  BY DEF AddPending
<1> HIDE DEF y
<1>4. x.m_blockchain = y.m_blockchain /\ x.m_pending_key_images = y.m_pending_key_images
  BY <1>3 DEF x, Named, y, AddPending, Members
<1> QED BY <1>2, <1>4

LEMMA NamedGood ==
  ASSUME m_is_view_only, NEW m, NEW rest, Good(m_is_view_only, m, rest), NEW K, K \subseteq Range(KeyImage),
         NEW src \in [K -> Nat], NEW outs, outs \subseteq DOMAIN KeyImage
  PROVE  /\ Good(m_is_view_only, Named(m, src, outs), rest)
         /\ Named(m, src, outs).m_blockchain = m.m_blockchain
         /\ Named(m, src, outs).m_pending_key_images = m.m_pending_key_images \cup outs
<1> DEFINE v == m_is_view_only
           s == m.m_transfers
           f == m.m_key_images
           One(i) == IF i \in Range(src)
                     THEN [s[i] EXCEPT !.m_key_image = CHOOSE k \in DOMAIN src : src[k] = i]
                     ELSE s[i]
           z == [i \in DOMAIN s |-> One(i)]
           g == [k \in DOMAIN f \cup DOMAIN src |-> IF k \in DOMAIN src THEN src[k] ELSE f[k]]
           y == AddPending(m, outs)
           x == [y EXCEPT !.m_transfers = [i \in DOMAIN @ |->
                        IF i \in Range(src)
                        THEN [@[i] EXCEPT !.m_key_image = CHOOSE k \in DOMAIN src : src[k] = i]
                        ELSE @[i]],
                     !.m_key_images = [k \in DOMAIN @ \cup DOMAIN src |->
                        IF k \in DOMAIN src THEN src[k] ELSE @[k]]]
<1>1. m \in Members
  BY DEF Good
<1>2. /\ s \in Seq(Transfers) /\ Len(s) \in Nat /\ DOMAIN s = 1..Len(s)
  BY <1>1, Fields
<1>3. DOMAIN f \subseteq Range(KeyImage) /\ f \in [DOMAIN f -> Nat]
  BY <1>1, Fields, ImageFields
<1>4. /\ y \in Members /\ y.m_transfers = s /\ y.m_key_images = f
      /\ y.m_blockchain = m.m_blockchain
      /\ y.m_pending_key_images = m.m_pending_key_images \cup outs
  BY <1>1 DEF AddPending, Members
<1> HIDE DEF y
<1>5. x = [y EXCEPT !.m_transfers = z, !.m_key_images = g]
  <2> HIDE DEF s, f
  <2> QED BY <1>4
<1>6. ASSUME NEW i \in DOMAIN s
      PROVE  /\ One(i) \in Transfers /\ One(i).out = s[i].out
             /\ One(i).m_block_height = s[i].m_block_height
  <2>1. s[i] \in Transfers
    BY <1>2
  <2> HIDE DEF s
  <2>2. CASE i \in Range(src)
    <3> DEFINE c == CHOOSE k \in DOMAIN src : src[k] = i
    <3>1. c \in DOMAIN src
      BY <2>2 DEF Range
    <3>2. One(i) = [s[i] EXCEPT !.m_key_image = c]
      BY <2>2
    <3> HIDE DEF c, One
    <3>3. c \in Range(KeyImage)
      BY <3>1
    <3> QED BY <3>2, <3>3, <2>1 DEF Transfers
  <2>3. CASE i \notin Range(src)
    BY <2>1, <2>3
  <2> QED BY <2>2, <2>3
<1>7. z \in Seq(Transfers) /\ Len(z) = Len(s) /\ DOMAIN z = DOMAIN s /\ \A i \in DOMAIN s : z[i] = One(i)
  <2> HIDE DEF s, One
  <2>1. z \in [1..Len(s) -> Transfers]
    BY <1>2, <1>6
  <2> QED BY <1>2, <2>1
<1>8. g \in Images
  <2> HIDE DEF f
  <2>1. DOMAIN g \subseteq Range(KeyImage) /\ g \in [DOMAIN g -> Nat]
    BY <1>3
  <2> HIDE DEF g
  <2> QED BY <2>1, ImageFields
<1> HIDE DEF x, z, g, One
<1>9. /\ x \in Members /\ x.m_transfers = z /\ x.m_blockchain = m.m_blockchain
      /\ x.m_pending_key_images = m.m_pending_key_images \cup outs
  BY <1>4, <1>5, <1>7, <1>8 DEF Members
<1>10. Unmoved(m, x)
  BY <1>6, <1>7, <1>9 DEF Unmoved
<1>11. Good(v, x, rest)
  BY <1>9, <1>10, MarkedGood
<1> QED BY <1>9, <1>11 DEF x, y, Named

(* Finalized, in both kinds of wallet.                                     *)
LEMMA FinalizedKeeps ==
  ASSUME Good(m_is_view_only, w, half), NEW t \in OwnTxs, NEW K, K \subseteq Range(KeyImage),
         NEW src \in [K -> Nat], NEW outs, outs \subseteq DOMAIN KeyImage, Finalized(t, src, outs)
  PROVE  /\ Good(m_is_view_only, w', half) /\ w'.m_blockchain = w.m_blockchain
         /\ \/ /\ m_is_view_only /\ ToFile(outs)
               /\ w'.m_pending_key_images = w.m_pending_key_images \cup outs
            \/ /\ ~m_is_view_only /\ pki_file' = pki_file
               /\ w'.m_pending_key_images = w.m_pending_key_images
<1> DEFINE v == m_is_view_only
           idx == Range(src)
           locked == Locked(w, idx, t)
           named == Named(locked, src, outs)
<1>1. IF m_is_view_only THEN w' = named /\ ToFile(outs) ELSE w' = locked /\ UNCHANGED pki_file
  BY Zenon DEF Finalized, Locked, Named
<1>2. /\ locked \in Members /\ Good(v, locked, half) /\ locked.m_blockchain = w.m_blockchain
      /\ locked.m_pending_key_images = w.m_pending_key_images
  <2> HIDE DEF idx
  <2> QED BY LockedGood
<1>3. CASE ~m_is_view_only
  BY <1>1, <1>2, <1>3
<1>4. CASE m_is_view_only
  <2> HIDE DEF locked
  <2>1. /\ Good(v, named, half) /\ named.m_blockchain = locked.m_blockchain
        /\ named.m_pending_key_images = locked.m_pending_key_images \cup outs
    <3>1. Good(m_is_view_only, locked, half)
      BY <1>2
    <3>2. m_is_view_only
      BY <1>4
    <3>3. Good(m_is_view_only, Named(locked, src, outs), half)
      BY <3>1, <3>2, NamedGood
    <3>4. /\ Named(locked, src, outs).m_blockchain = locked.m_blockchain
          /\ Named(locked, src, outs).m_pending_key_images = locked.m_pending_key_images \cup outs
      BY <1>2, NamedRest
    <3> QED BY <3>3, <3>4
  <2> HIDE DEF named
  <2> QED BY <2>1, <1>1, <1>2, <1>4
<1> QED BY <1>3, <1>4

(* A flag set on or off the sources of a transfer.                         *)
LEMMA FlagGood ==
  ASSUME NEW v, NEW m, NEW rest, Good(v, m, rest), NEW indexes, NEW flag \in BOOLEAN,
         v \/ flag \/ \A i \in indexes \cap DOMAIN m.m_transfers : ~m.m_transfers[i].m_spent
  PROVE  Good(v, set_transfer_spent_flag(m, indexes, flag), rest)
<1> DEFINE x == set_transfer_spent_flag(m, indexes, flag)
<1>1. m \in Members
  BY DEF Good
<1>2. /\ x \in Members /\ x.m_blockchain = m.m_blockchain
      /\ x.m_pending_key_images = m.m_pending_key_images
  BY <1>1, FlagRest
<1>3. Unmoved(m, x)
  BY <1>1, FlagUnmoved
<1>4. ~v => Marked(m, x)
  BY <1>1, FlagMarks
<1> HIDE DEF x
<1>5. Good(v, x, rest)
  BY <1>2, <1>3, <1>4, MarkedGood
<1> QED BY <1>5 DEF x

LEMMA FinalizeKeeps ==
  ASSUME Good(m_is_view_only, w, half), PendingFiled, net \subseteq OwnTxs,
         NEW t \in OwnTxs, NEW K, K \subseteq Range(KeyImage), NEW src \in [K -> Nat],
         NEW outs, outs \subseteq DOMAIN KeyImage, IsFiniteSet(outs),
         m_is_view_only \/ \A i \in Range(src) \cap DOMAIN w.m_transfers : ~w.m_transfers[i].m_spent,
         finalize_transaction(t, src, outs)
  PROVE  /\ Good(m_is_view_only, w', half) /\ w'.m_blockchain = w.m_blockchain /\ net' \subseteq OwnTxs
         /\ pki_file' \in Seq(DOMAIN KeyImage) /\ NoRepeats(pki_file')
         /\ w'.m_pending_key_images = Range(pki_file') /\ Range(pki_file) \subseteq Range(pki_file')
         /\ ~m_is_view_only => pki_file' = pki_file
<1> DEFINE v == m_is_view_only
           s == Range(src)
           SetOff == w' = set_transfer_spent_flag(w, s, FALSE)
           SetOn == w' = set_transfer_spent_flag(w, s, TRUE)
<1>1. /\ pki_file \in Seq(DOMAIN KeyImage) /\ NoRepeats(pki_file)
      /\ w.m_pending_key_images = Range(pki_file)
  BY DEF PendingFiled
<1>2. net' = net \/ net' = net \cup {t}
  BY DEF finalize_transaction, Sent
<1>3. \/ Finalized(t, src, outs)
      \/ (SetOff \/ SetOn) /\ pki_file' = pki_file
  BY DEF finalize_transaction, Unlocked
<1>4. CASE Finalized(t, src, outs)
  <2>1. /\ Good(v, w', half) /\ w'.m_blockchain = w.m_blockchain
        /\ \/ /\ v /\ ToFile(outs)
              /\ w'.m_pending_key_images = w.m_pending_key_images \cup outs
           \/ /\ ~v /\ pki_file' = pki_file
              /\ w'.m_pending_key_images = w.m_pending_key_images
    BY <1>4, FinalizedKeeps
  <2>2. CASE v /\ ToFile(outs) /\ w'.m_pending_key_images = w.m_pending_key_images \cup outs
    <3>1. pki_file' = pki_file \o SetToSeq(outs \ Range(pki_file))
      BY <2>2, <1>1 DEF ToFile
    <3>2. /\ pki_file' \in Seq(DOMAIN KeyImage) /\ NoRepeats(pki_file')
          /\ Range(pki_file') = Range(pki_file) \cup outs
      <4> DEFINE z == pki_file \o SetToSeq(outs \ Range(pki_file))
                 A == DOMAIN KeyImage
      <4>1. pki_file \in Seq(A) /\ outs \subseteq A
        BY <1>1
      <4> HIDE DEF A
      <4>2. z \in Seq(A) /\ NoRepeats(z) /\ Range(z) = Range(pki_file) \cup outs
        BY <4>1, <1>1, FileGrows
      <4> HIDE DEF z
      <4>3. pki_file' = z
        BY <3>1 DEF z
      <4> QED BY <4>2, <4>3 DEF A
    <3> QED BY <3>2, <2>1, <2>2, <1>1, <1>2
  <2>3. CASE ~v /\ pki_file' = pki_file /\ w'.m_pending_key_images = w.m_pending_key_images
    BY <2>1, <2>3, <1>1, <1>2
  <2> QED BY <2>1, <2>2, <2>3
<1>5. CASE (SetOff \/ SetOn) /\ pki_file' = pki_file
  <2>0. w \in Members
    BY DEF Good
  <2>1. /\ Good(v, w', half) /\ w'.m_blockchain = w.m_blockchain
        /\ w'.m_pending_key_images = w.m_pending_key_images
    <3> DEFINE no == FALSE
               yes == TRUE
    <3>0. no \in BOOLEAN /\ yes \in BOOLEAN
      OBVIOUS
    <3>1. CASE SetOff
      <4>1. w' = set_transfer_spent_flag(w, s, no)
        BY <3>1
      <4> HIDE DEF no, s
      <4>2. v \/ no \/ \A i \in s \cap DOMAIN w.m_transfers : ~w.m_transfers[i].m_spent
        BY DEF s
      <4>3. Good(v, set_transfer_spent_flag(w, s, no), half)
        BY <3>0, <4>2, FlagGood
      <4> QED BY <4>1, <4>3, <3>0, <2>0, FlagRest
    <3>2. CASE SetOn
      <4>1. w' = set_transfer_spent_flag(w, s, yes)
        BY <3>2
      <4> HIDE DEF yes, s
      <4>2. v \/ yes \/ \A i \in s \cap DOMAIN w.m_transfers : ~w.m_transfers[i].m_spent
        BY DEF yes
      <4>3. Good(v, set_transfer_spent_flag(w, s, yes), half)
        BY <3>0, <4>2, FlagGood
      <4> QED BY <4>1, <4>3, <3>0, <2>0, FlagRest
    <3> QED BY <1>5, <3>1, <3>2
  <2> QED BY <2>1, <1>1, <1>2, <1>5
<1> QED BY <1>3, <1>4, <1>5

LEMMA SourceFacts ==
  ASSUME w \in Members, NEW t, NEW src \in Sources(t)
  PROVE  /\ src \in [Ins[t] -> Nat] /\ Ins[t] \subseteq Range(KeyImage)
         /\ Range(src) \subseteq DOMAIN w.m_transfers
         /\ \A i \in Range(src) : ~w.m_transfers[i].m_spent
         /\ {w.m_transfers[i].out : i \in Range(src)} \subseteq DOMAIN KeyImage
         /\ IsFiniteSet({w.m_transfers[i].out : i \in Range(src)})
<1> DEFINE tr == w.m_transfers
           S == Range(src)
           T == {tr[i].out : i \in S}
<1>1. Len(tr) \in Nat /\ DOMAIN tr = 1..Len(tr) /\ \A i \in DOMAIN tr : tr[i].out \in DOMAIN KeyImage
  BY Fields, OneTransfer
<1>2. src \in [Ins[t] -> DOMAIN tr]
  BY DEF Sources
<1>3. \A k \in Ins[t] : ~tr[src[k]].m_spent /\ KeyImage[tr[src[k]].out] = k
  BY DEF Sources
<1> HIDE DEF tr
<1>4. Ins[t] \subseteq Range(KeyImage)
  <2> SUFFICES ASSUME NEW k \in Ins[t] PROVE k \in Range(KeyImage)
    OBVIOUS
  <2>1. src[k] \in DOMAIN tr
    BY <1>2
  <2>2. tr[src[k]].out \in DOMAIN KeyImage /\ KeyImage[tr[src[k]].out] = k
    BY <2>1, <1>1, <1>3
  <2> QED BY <2>2 DEF Range
<1>5. S \subseteq DOMAIN tr /\ \A i \in S : ~tr[i].m_spent
  BY <1>2, <1>3 DEF Range
<1>6. T \subseteq DOMAIN KeyImage
  BY <1>1, <1>5
<1>7. IsFiniteSet(S)
  <2>1. 1 \in Int /\ Len(tr) \in Int
    BY <1>1
  <2>2. IsFiniteSet(1..Len(tr))
    BY <2>1, FS_Interval
  <2>3. S \in SUBSET (1..Len(tr))
    BY <1>1, <1>5
  <2> HIDE DEF S
  <2> QED BY <2>2, <2>3, FS_Subset
<1>8. IsFiniteSet(T)
  <2> DEFINE f == [i \in S |-> tr[i].out]
  <2>1. f \in Surjection(S, T)
    <3> HIDE DEF S
    <3> QED BY DEF Surjection
  <2> HIDE DEF f, T, S
  <2> QED BY <2>1, <1>7, FS_Surjection
<1>9. src \in [Ins[t] -> Nat]
  BY <1>1, <1>2
<1> QED BY <1>4, <1>5, <1>6, <1>8, <1>9 DEF tr

LEMMA OutsFinite ==
  ASSUME NEW t \in Txs
  PROVE  Range(Outs[t]) \subseteq DOMAIN KeyImage /\ IsFiniteSet(Range(Outs[t]))
<1> DEFINE s == Outs[t]
<1>1. s \in Seq(DOMAIN KeyImage)
  BY TxTypes
<1>2. Len(s) \in Nat /\ DOMAIN s = 1..Len(s)
  BY <1>1
<1>3. IsFiniteSet(1..Len(s))
  <2>1. 1 \in Int /\ Len(s) \in Int
    BY <1>2
  <2> QED BY <2>1, FS_Interval
<1>4. s \in Surjection(1..Len(s), Range(s))
  <2>1. s \in [1..Len(s) -> Range(s)]
    BY <1>1, <1>2 DEF Range
  <2> HIDE DEF s
  <2> QED BY <2>1, <1>2 DEF Surjection, Range
<1>5. IsFiniteSet(Range(s))
  <2> HIDE DEF s
  <2> QED BY <1>3, <1>4, FS_Surjection
<1>6. Range(s) \subseteq DOMAIN KeyImage
  <2> HIDE DEF s
  <2> QED BY <1>1, <1>2 DEF Range
<1> QED BY <1>5, <1>6
-----------------------------------------------------------------------------
(* The steps.  Each shows what it disturbs; the next lemmas put the parts  *)
(* of the invariant together again.                                        *)

LEMMA Carried ==
  ASSUME WalletInv, m_is_view_only' = m_is_view_only, top' \in Blocks,
         made' \subseteq OwnTxs, net' \subseteq OwnTxs,
         wallet_file' = wallet_file, half_stored' = half_stored,
         Good(m_is_view_only, w', half'), Refreshing(m_is_view_only, run', w'),
         pki_file' \in Seq(DOMAIN KeyImage), NoRepeats(pki_file'),
         w'.m_pending_key_images = Range(pki_file'), Range(pki_file) \subseteq Range(pki_file'),
         ~m_is_view_only => pki_file' = pki_file /\ unsigned' = {},
         \A u \in unsigned' : Saved(u)
  PROVE  WalletInv'
<1>1. PendingFiled'
  BY DEF WalletInv, PendingFiled
<1> QED BY <1>1 DEF WalletInv

LEMMA CarriedOn ==
  ASSUME WalletInv, m_is_view_only' = m_is_view_only, top' \in Blocks,
         made' \subseteq OwnTxs, net' \subseteq OwnTxs,
         wallet_file' = wallet_file, half_stored' = half_stored,
         pki_file' = pki_file, unsigned' = unsigned,
         w'.m_pending_key_images = w.m_pending_key_images,
         Good(m_is_view_only, w', half'), Refreshing(m_is_view_only, run', w')
  PROVE  WalletInv'
<1>1. /\ pki_file' \in Seq(DOMAIN KeyImage) /\ NoRepeats(pki_file')
      /\ w'.m_pending_key_images = Range(pki_file') /\ Range(pki_file) \subseteq Range(pki_file')
      /\ ~m_is_view_only => pki_file' = pki_file /\ unsigned' = {}
  BY DEF WalletInv, PendingFiled
<1>2. \A u \in unsigned' : Saved(u)
  BY DEF WalletInv
<1> QED BY <1>1, <1>2, Carried

LEMMA Parts ==
  ASSUME WalletInv
  PROVE  /\ m_is_view_only \in BOOLEAN /\ top \in Blocks /\ made \subseteq OwnTxs /\ net \subseteq OwnTxs
         /\ Good(m_is_view_only, w, half) /\ Refreshing(m_is_view_only, run, w) /\ PendingFiled
         /\ w \in Members /\ Path(w.m_blockchain) /\ AtHeight(w, half)
         /\ run \in Runs /\ run.height <= Len(w.m_blockchain) /\ Linked(run, w)
         /\ run.height \in Nat /\ Len(w.m_blockchain) \in Nat
         /\ run.added \in BOOLEAN /\ run.fetched \in BOOLEAN
<1>1. /\ Good(m_is_view_only, w, half) /\ Refreshing(m_is_view_only, run, w) /\ PendingFiled
      /\ m_is_view_only \in ViewOnly /\ top \in Blocks /\ made \subseteq OwnTxs /\ net \subseteq OwnTxs
  BY DEF WalletInv
<1>2. /\ w \in Members /\ Path(w.m_blockchain) /\ AtHeight(w, half)
      /\ run \in Runs /\ run.height <= Len(w.m_blockchain) /\ Linked(run, w)
  BY <1>1 DEF Good, Refreshing
<1>3. Len(w.m_blockchain) \in Nat
  BY <1>2, Fields
<1>4. run.height \in Nat /\ run.added \in BOOLEAN /\ run.fetched \in BOOLEAN
  BY <1>2 DEF Runs
<1> QED BY <1>1, <1>2, <1>3, <1>4, TxTypes

LEMMA RefreshingUnmoved ==
  ASSUME NEW v, NEW r, NEW m, NEW x, Refreshing(v, r, m), r.entry = "none",
         x.m_blockchain = m.m_blockchain
  PROVE  Refreshing(v, r, x)
BY DEF Refreshing, Linked

LEMMA NoEntry ==
  ASSUME WalletInv, run.stage = "idle"
  PROVE  run.entry = "none"
BY DEF WalletInv, Refreshing

LEMMA ThrowsRefreshes ==
  ASSUME WalletInv, Throws, NEW x \in Members
  PROVE  Refreshing(m_is_view_only, run', x)
<1> DEFINE st == "loop"
           f == run.fetched \/ run.added
<1>1. f \in BOOLEAN /\ st \in {"idle", "loop", "pull"}
  BY Parts
<1>2. run' = Idle \/ run' = [Idle EXCEPT !.stage = st, !.fetched = f]
  BY DEF Throws
<1> HIDE DEF st, f
<1>3. Refreshing(m_is_view_only, Idle, x) /\ Refreshing(m_is_view_only, [Idle EXCEPT !.stage = st, !.fetched = f], x)
  BY <1>1, IdleRefreshes
<1> QED BY <1>2, <1>3

LEMMA StepDaemonMoves ==
  ASSUME WalletInv, NEW b \in Blocks, DaemonMoves(b)
  PROVE  WalletInv'
<1>1. UNCHANGED <<m_is_view_only, w, run, wallet_file, half_stored, pki_file, unsigned, made, net, half>> /\ top' = b
  BY DEF DaemonMoves, Files, Offline
<1> QED BY <1>1, Parts, CarriedOn

LEMMA StepPullBlocks ==
  ASSUME WalletInv, PullBlocks
  PROVE  WalletInv'
<1> DEFINE v == m_is_view_only
           s == w.m_blockchain
           c == Chain[top]
           n == Common(s)
<1>1. /\ UNCHANGED <<m_is_view_only, w, wallet_file, half_stored, pki_file, unsigned, made, net, half, top>>
  BY DEF PullBlocks, Files, Offline, Daemon
<1>2. Path(s) /\ Path(c) /\ w \in Members /\ Len(s) \in Nat /\ Len(c) \in Nat /\ run.fetched \in BOOLEAN
  <2>1. Path(c)
    BY Parts, ChainPath
  <2>2. Len(c) \in Nat
    BY <2>1 DEF Path
  <2> QED BY <2>1, <2>2, Parts
<1>3. n \in Nat /\ 1 <= n /\ n <= Len(s) /\ n <= Len(c) /\ \A i \in 1..n : s[i] = c[i]
  <2> HIDE DEF s, c
  <2>1. LET k == Cardinality({i \in DOMAIN s : i \in DOMAIN c /\ s[i] = c[i]})
        IN  /\ k \in Nat /\ 1 <= k /\ k <= Len(s) /\ k <= Len(c)
            /\ \A i \in 1..k : s[i] = c[i]
    BY <1>2, CommonPrefix
  <2> QED BY <2>1 DEF Common, c
<1> HIDE DEF n
<1> DEFINE start == Max({h \in get_short_chain_history(Len(s)) : h < n})
           end == Min({Len(c), start + MaxCount})
           h == Min({n, end})
<1>4. start \in Nat
  <2> DEFINE size == Len(s)
  <2>1. size \in Nat
    BY <1>2
  <2> HIDE DEF size
  <2>2. Max({q \in get_short_chain_history(size) : q < n}) \in Nat
    BY <2>1, <1>3, StartFound
  <2> QED BY <2>2 DEF size
<1>5. run' = [Idle EXCEPT !.stage = "pull", !.height = h, !.left = SubSeq(c, h + 1, end), !.fetched = run.fetched]
  BY DEF PullBlocks, n
<1> HIDE DEF start
<1>6. end \in Nat /\ 1 <= end /\ end <= Len(c)
  <2> DEFINE a == start + MaxCount
             l == Len(c)
  <2>1. a \in Nat /\ a >= 1 /\ l \in Nat /\ l >= 1
    BY <1>2, <1>3, <1>4, WalletAssumption
  <2> HIDE DEF a, l
  <2>2. Min({l, a}) = IF l <= a THEN l ELSE a
    BY <2>1, LesserOfTwo
  <2> QED BY <2>1, <2>2 DEF a, l
<1> HIDE DEF end
<1> DEFINE f == run.fetched
<1>7. f \in BOOLEAN
  BY <1>2
<1> HIDE DEF c, f
<1>8. h = Min({n, end})
  OBVIOUS
<1> HIDE DEF h
<1>9. Refreshing(v, [Idle EXCEPT !.stage = "pull", !.height = h, !.left = SubSeq(c, h + 1, end), !.fetched = f], w)
  BY <1>2, <1>3, <1>6, <1>7, <1>8, Pulled
<1>10. Refreshing(v, run', w')
  BY <1>1, <1>5, <1>9 DEF f
<1> QED BY <1>1, <1>10, Parts, CarriedOn

LEMMA StepPullLost ==
  ASSUME WalletInv, PullLost
  PROVE  WalletInv'
<1>1. /\ UNCHANGED <<m_is_view_only, w, wallet_file, half_stored, pki_file, unsigned, made, net, half, top>>
      /\ run' = Idle
  BY DEF PullLost, Files, Offline, Daemon
<1>2. Refreshing(m_is_view_only, Idle, w)
  <2> DEFINE st == "loop"
             f == TRUE
  <2>1. st \in {"idle", "loop", "pull"} /\ f \in BOOLEAN /\ w \in Members
    BY Parts
  <2> HIDE DEF st, f
  <2>2. Refreshing(m_is_view_only, Idle, w) /\ Refreshing(m_is_view_only, [Idle EXCEPT !.stage = st, !.fetched = f], w)
    BY <2>1, IdleRefreshes
  <2> QED BY <2>2
<1> QED BY <1>1, <1>2, Parts, CarriedOn

LEMMA StepEntryNew ==
  ASSUME WalletInv, EntryNew
  PROVE  WalletInv'
<1>1. /\ UNCHANGED <<m_is_view_only, w, wallet_file, half_stored, pki_file, unsigned, made, net, half, top>>
      /\ run' = [run EXCEPT !.entry = "new", !.txs = TxsOf[Head(run.left)]]
      /\ run.stage = "pull" /\ run.left # <<>> /\ ~ (run.height < Len(w.m_blockchain))
  BY DEF EntryNew, AtEntry, Split, Files, Offline, Daemon
<1>2. run.height = Len(w.m_blockchain)
  BY <1>1, Parts
<1> DEFINE e == "new"
<1>3. e \in {"new", "split"}
  OBVIOUS
<1>4. run' = [run EXCEPT !.entry = e, !.txs = TxsOf[Head(run.left)]]
  BY <1>1
<1> HIDE DEF e
<1>5. Refreshing(m_is_view_only, [run EXCEPT !.entry = e, !.txs = TxsOf[Head(run.left)]], w)
  BY <1>1, <1>2, <1>3, Parts, EntryStarts
<1>6. Refreshing(m_is_view_only, run', w')
  BY <1>1, <1>4, <1>5
<1> QED BY <1>1, <1>6, Parts, CarriedOn
LEMMA StepEntrySplit ==
  ASSUME WalletInv, EntrySplit
  PROVE  WalletInv'
<1> DEFINE v == m_is_view_only
           h == run.height
           x == detach_blockchain(w, h)
           first == FirstFrom(w, h)
           last == Min(Unfound(w, h)) - 1
<1>1. /\ UNCHANGED <<m_is_view_only, wallet_file, half_stored, pki_file, unsigned, made, net, top>>
      /\ run.stage = "pull" /\ run.left # <<>> /\ h < Len(w.m_blockchain)
  BY DEF EntrySplit, AtEntry, Split, Files, Offline, Daemon
<1>2. h \in Nat /\ 1 <= h /\ h <= Len(w.m_blockchain) /\ w \in Members
  <2>1. h >= 1
    BY <1>1, Parts DEF Linked
  <2> QED BY <1>1, <2>1, Parts
<1>3. CASE Unfound(w, h) = {}
  <2>1. /\ w' = x /\ half' = half \cap Recorded(w')
        /\ run' = [run EXCEPT !.entry = "split", !.txs = TxsOf[Head(run.left)]]
    BY <1>3 DEF EntrySplit
  <2>2. /\ x \in Members /\ x.m_pending_key_images = w.m_pending_key_images /\ Len(x.m_blockchain) = h
        /\ \A j \in 1..h : x.m_blockchain[j] = w.m_blockchain[j]
    <3> HIDE DEF h
    <3> QED BY <1>2, DetachFields
  <2>3. Path(x.m_blockchain) /\ AtHeight(x, half \cap Recorded(x))
    <3> HIDE DEF h
    <3> QED BY <1>2, Parts, DetachFollows
  <2>4. ~v => Sound(x)
    <3>1. ~v => Sound(w)
      BY Parts DEF Good
    <3> HIDE DEF h
    <3> QED BY <1>2, <3>1, DetachSound
  <2> HIDE DEF x
  <2>5. Good(v, w', half')
    BY <2>1, <2>2, <2>3, <2>4 DEF Good
  <2>6. Linked(run, x)
    <3>1. h \in 1..h
      BY <1>2
    <3>2. x.m_blockchain[run.height] = w.m_blockchain[run.height]
      BY <3>1, <2>2
    <3> QED BY <3>2, Parts DEF Linked
  <2>7. Refreshing(v, run', w')
    <3> DEFINE e == "split"
    <3>1. e \in {"new", "split"}
      OBVIOUS
    <3>2. run' = [run EXCEPT !.entry = e, !.txs = TxsOf[Head(run.left)]]
      BY <2>1
    <3> HIDE DEF e
    <3>3. Refreshing(v, [run EXCEPT !.entry = e, !.txs = TxsOf[Head(run.left)]], x)
      BY <1>1, <2>2, <2>6, <3>1, Parts, EntryStarts
    <3> QED BY <2>1, <3>2, <3>3
  <2>8. w'.m_pending_key_images = w.m_pending_key_images
    BY <2>1, <2>2
  <2> QED BY <1>1, <2>5, <2>7, <2>8, Parts, CarriedOn
<1>4. CASE Unfound(w, h) # {}
  <2> DEFINE y == ImagesErased(w, first, last)
  <2>1. w' = y /\ Throws /\ half' = half
    BY <1>4 DEF EntrySplit
  <2>2. v
    <3>1. ~v => Indexed(w)
      BY Parts DEF Good, Sound
    <3> HIDE DEF h
    <3> QED BY <1>2, <1>4, <3>1, AllFound
  <2>3. /\ y \in Members /\ y.m_blockchain = w.m_blockchain /\ y.m_transfers = w.m_transfers
        /\ y.m_pending_key_images = w.m_pending_key_images
    <3> HIDE DEF first, last
    <3> QED BY <1>2, ErasedFields
  <2> HIDE DEF y
  <2>4. Good(v, w', half')
    <3>1. AtHeight(y, half)
      BY <2>3, Parts DEF AtHeight
    <3> QED BY <2>1, <2>2, <2>3, <3>1, Parts DEF Good
  <2>5. Refreshing(v, run', w')
    BY <2>1, <2>3, ThrowsRefreshes
  <2> QED BY <1>1, <2>1, <2>3, <2>4, <2>5, Parts, CarriedOn
<1> QED BY <1>3, <1>4

LEMMA StepProcessTx ==
  ASSUME WalletInv, NEW t \in Txs, ProcessTx(t)
  PROVE  WalletInv'
<1> DEFINE v == m_is_view_only
           x == process_new_transaction(w, t, run.height)
<1>1. /\ UNCHANGED <<m_is_view_only, wallet_file, half_stored, pki_file, unsigned, made, net, top>>
      /\ run.entry # "none" /\ run.txs # <<>> /\ t = Head(run.txs)
      /\ w' = x /\ half' = half \cup (Recorded(w') \ Recorded(w))
      /\ run' = [run EXCEPT !.txs = Tail(@)]
  BY DEF ProcessTx, InEntry, Files, Offline, Daemon
<1>2. LET z == process_new_transaction(w, Head(run.txs), run.height)
      IN  /\ Good(m_is_view_only, z, half \cup (Recorded(z) \ Recorded(w)))
          /\ Refreshing(m_is_view_only, [run EXCEPT !.txs = Tail(@)], z)
          /\ z.m_pending_key_images = w.m_pending_key_images
  BY <1>1, Parts, ProcessGood
<1>3. /\ Good(v, x, half \cup (Recorded(x) \ Recorded(w)))
      /\ Refreshing(v, [run EXCEPT !.txs = Tail(@)], x)
      /\ x.m_pending_key_images = w.m_pending_key_images
  BY <1>1, <1>2
<1> HIDE DEF x
<1>4. /\ Good(v, w', half') /\ Refreshing(v, run', w')
      /\ w'.m_pending_key_images = w.m_pending_key_images
  BY <1>1, <1>3
<1> QED BY <1>1, <1>4, Parts, CarriedOn

LEMMA StepInterrupted ==
  ASSUME WalletInv, NEW t \in Txs, Interrupted(t)
  PROVE  WalletInv'
<1> DEFINE v == m_is_view_only
           x == process_unconfirmed(w, t)
<1>1. /\ UNCHANGED <<m_is_view_only, wallet_file, half_stored, pki_file, unsigned, made, net, top, half>>
      /\ w' = x /\ Throws
  BY DEF Interrupted, Files, Offline, Daemon
<1>2. /\ x \in Members /\ x.m_blockchain = w.m_blockchain /\ x.m_transfers = w.m_transfers
      /\ x.m_key_images = w.m_key_images /\ x.m_pending_key_images = w.m_pending_key_images
  BY Parts DEF process_unconfirmed, Members
<1> HIDE DEF x
<1>3. Unmoved(w, x) /\ Marked(w, x)
  BY <1>2 DEF Unmoved, Marked
<1>4. Good(v, x, half)
  BY <1>2, <1>3, Parts, MarkedGood
<1>5. Refreshing(v, run', x)
  BY <1>1, <1>2, ThrowsRefreshes
<1>6. /\ Good(v, w', half') /\ Refreshing(v, run', w')
      /\ w'.m_pending_key_images = w.m_pending_key_images
  BY <1>1, <1>2, <1>4, <1>5
<1> QED BY <1>1, <1>6, Parts, CarriedOn

LEMMA StepEntryDone ==
  ASSUME WalletInv, EntryDone
  PROVE  WalletInv'
<1> DEFINE v == m_is_view_only
           b == Head(run.left)
           x == [w EXCEPT !.m_blockchain = Append(@, b)]
           q == [run EXCEPT !.left = Tail(@), !.height = @ + 1, !.entry = "none",
                            !.added = @ \/ run.entry = "new"]
<1>1. /\ UNCHANGED <<m_is_view_only, wallet_file, half_stored, pki_file, unsigned, made, net, top>>
      /\ run.entry # "none" /\ run.txs = <<>>
      /\ w' = x /\ half' = half \ (OutsIn(<<b>>) \X {run.height}) /\ run' = q
  BY DEF EntryDone, Files, Offline, Daemon
<1>2. /\ Good(v, x, half \ (OutsIn(<<b>>) \X {run.height})) /\ Refreshing(v, q, x)
      /\ x.m_pending_key_images = w.m_pending_key_images
  BY <1>1, Parts, EntryEnds
<1> HIDE DEF x, q
<1>3. /\ Good(v, w', half') /\ Refreshing(v, run', w')
      /\ w'.m_pending_key_images = w.m_pending_key_images
  BY <1>1, <1>2
<1> QED BY <1>1, <1>3, Parts, CarriedOn

LEMMA StepPullDone ==
  ASSUME WalletInv, PullDone
  PROVE  WalletInv'
<1> DEFINE v == m_is_view_only
           st == "loop"
           f == TRUE
<1>1. /\ UNCHANGED <<m_is_view_only, w, wallet_file, half_stored, pki_file, unsigned, made, half, top>>
      /\ run' = Idle \/ run' = [Idle EXCEPT !.stage = st, !.fetched = f]
      /\ net' = net \/ net' = net \cup w.m_unconfirmed_txs
  BY DEF PullDone, Files, Offline
<1>2. net' \subseteq OwnTxs
  <2>1. w.m_unconfirmed_txs \subseteq OwnTxs /\ net \subseteq OwnTxs
    BY Parts DEF Members
  <2> QED BY <1>1, <2>1
<1>3. st \in {"idle", "loop", "pull"} /\ f \in BOOLEAN /\ w \in Members
  BY Parts
<1> HIDE DEF st, f
<1>4. Refreshing(v, Idle, w) /\ Refreshing(v, [Idle EXCEPT !.stage = st, !.fetched = f], w)
  BY <1>3, IdleRefreshes
<1>5. Refreshing(v, run', w')
  BY <1>1, <1>4
<1> QED BY <1>1, <1>2, <1>5, Parts, CarriedOn
LEMMA StepTransfer ==
  ASSUME WalletInv, NEW t \in OwnTxs, Transfer(t)
  PROVE  WalletInv'
<1> DEFINE v == m_is_view_only
           none == {}
<1>1. /\ UNCHANGED <<m_is_view_only, run, wallet_file, half_stored, unsigned, top, half>>
      /\ run.stage = "idle" /\ ~v /\ made' = made \cup {t}
      /\ \E src \in Sources(t) : finalize_transaction(t, src, none)
  BY DEF Transfer, File
<1>2. PICK src \in Sources(t) : finalize_transaction(t, src, none)
  BY <1>1
<1>3. /\ src \in [Ins[t] -> Nat] /\ Ins[t] \subseteq Range(KeyImage)
      /\ \A i \in Range(src) : ~w.m_transfers[i].m_spent
  BY Parts, SourceFacts
<1>4. none \subseteq DOMAIN KeyImage /\ IsFiniteSet(none)
  BY FS_EmptySet
<1>5. v \/ \A i \in Range(src) \cap DOMAIN w.m_transfers : ~w.m_transfers[i].m_spent
  BY <1>3
<1> HIDE DEF none
<1> DEFINE K == Ins[t]
<1>6. K \subseteq Range(KeyImage) /\ src \in [K -> Nat]
  BY <1>3
<1> HIDE DEF K
<1>7. /\ Good(v, w', half) /\ w'.m_blockchain = w.m_blockchain /\ net' \subseteq OwnTxs
      /\ pki_file' \in Seq(DOMAIN KeyImage) /\ NoRepeats(pki_file')
      /\ w'.m_pending_key_images = Range(pki_file') /\ Range(pki_file) \subseteq Range(pki_file')
      /\ ~v => pki_file' = pki_file
  BY <1>2, <1>4, <1>5, <1>6, Parts, FinalizeKeeps
<1>8. Refreshing(v, run', w') /\ Good(v, w', half') /\ top' \in Blocks /\ made' \subseteq OwnTxs
  BY <1>1, <1>7, Parts, NoEntry, RefreshingUnmoved
<1>9. (\A u \in unsigned' : Saved(u)) /\ (~v => pki_file' = pki_file /\ unsigned' = {})
  BY <1>1, <1>7 DEF WalletInv, PendingFiled
<1> QED BY <1>1, <1>7, <1>8, <1>9, Carried

LEMMA StepTransferNotRelayed ==
  ASSUME WalletInv, NEW t \in OwnTxs, TransferNotRelayed(t)
  PROVE  WalletInv'
<1> DEFINE v == m_is_view_only
           none == {}
<1>1. /\ UNCHANGED <<m_is_view_only, run, wallet_file, half_stored, unsigned, net, top, half>>
      /\ run.stage = "idle" /\ ~v /\ made' = made \cup {t}
      /\ \E src \in Sources(t) : Finalized(t, src, none)
  BY DEF TransferNotRelayed, File, Daemon
<1>2. PICK src \in Sources(t) : Finalized(t, src, none)
  BY <1>1
<1> DEFINE K == Ins[t]
<1>3. src \in [K -> Nat] /\ K \subseteq Range(KeyImage) /\ none \subseteq DOMAIN KeyImage
  BY Parts, SourceFacts
<1> HIDE DEF none, K
<1>4. /\ Good(v, w', half) /\ w'.m_blockchain = w.m_blockchain
      /\ \/ /\ v /\ ToFile(none)
            /\ w'.m_pending_key_images = w.m_pending_key_images \cup none
         \/ /\ ~v /\ pki_file' = pki_file
            /\ w'.m_pending_key_images = w.m_pending_key_images
  BY <1>2, <1>3, Parts, FinalizedKeeps
<1>5. Refreshing(v, run', w') /\ Good(v, w', half') /\ top' \in Blocks /\ made' \subseteq OwnTxs /\ net' \subseteq OwnTxs
  BY <1>1, <1>4, Parts, NoEntry, RefreshingUnmoved
<1> QED BY <1>1, <1>4, <1>5, CarriedOn

LEMMA StepTransferUnsigned ==
  ASSUME WalletInv, NEW t \in OwnTxs, TransferUnsigned(t)
  PROVE  WalletInv'
<1> DEFINE v == m_is_view_only
           yes == TRUE
           Item(src) == [tx |-> t, src |-> src, outs |-> {w.m_transfers[i].out : i \in Range(src)}]
<1>1. /\ UNCHANGED <<m_is_view_only, run, wallet_file, half_stored, pki_file, net, top, half>>
      /\ run.stage = "idle" /\ v /\ made' = made \cup {t}
      /\ \E src \in Sources(t) : /\ w' = set_transfer_spent_flag(w, Range(src), yes)
                                 /\ unsigned' = unsigned \cup {Item(src)}
  BY DEF TransferUnsigned, Files, Daemon
<1>2. PICK src \in Sources(t) : /\ w' = set_transfer_spent_flag(w, Range(src), yes)
                                /\ unsigned' = unsigned \cup {Item(src)}
  BY <1>1
<1> DEFINE outs == {w.m_transfers[i].out : i \in Range(src)}
<1>3. /\ src \in [Ins[t] -> Nat] /\ Ins[t] \subseteq Range(KeyImage)
      /\ outs \subseteq DOMAIN KeyImage /\ IsFiniteSet(outs)
  BY Parts, SourceFacts
<1>4. Saved(Item(src))
  <2> HIDE DEF outs
  <2>1. Item(src) = [tx |-> t, src |-> src, outs |-> outs]
    BY DEF outs
  <2> HIDE DEF Item
  <2> QED BY <1>3, <2>1 DEF Saved
<1>5. \A u \in unsigned' : Saved(u)
  <2> HIDE DEF Item
  <2> QED BY <1>2, <1>4 DEF WalletInv
<1> DEFINE s == Range(src)
<1>6. yes \in BOOLEAN
  OBVIOUS
<1>7. v \/ yes \/ \A i \in s \cap DOMAIN w.m_transfers : ~w.m_transfers[i].m_spent
  BY <1>1
<1> HIDE DEF yes, s
<1>8. Good(v, set_transfer_spent_flag(w, s, yes), half)
  BY <1>6, <1>7, Parts, FlagGood
<1>9. /\ Good(v, w', half) /\ w'.m_blockchain = w.m_blockchain
      /\ w'.m_pending_key_images = w.m_pending_key_images
  BY <1>2, <1>6, <1>8, Parts, FlagRest DEF s
<1>10. Refreshing(v, run', w') /\ Good(v, w', half') /\ top' \in Blocks /\ made' \subseteq OwnTxs /\ net' \subseteq OwnTxs
  BY <1>1, <1>9, Parts, NoEntry, RefreshingUnmoved
<1>11. /\ pki_file' \in Seq(DOMAIN KeyImage) /\ NoRepeats(pki_file')
       /\ w'.m_pending_key_images = Range(pki_file') /\ Range(pki_file) \subseteq Range(pki_file')
       /\ ~v => pki_file' = pki_file /\ unsigned' = {}
  BY <1>1, <1>9, Parts DEF PendingFiled
<1> QED BY <1>1, <1>5, <1>10, <1>11, Carried

(* Only a watch-only wallet has transfers to sign.                         *)
LEMMA ToBeSigned ==
  ASSUME WalletInv, NEW u \in unsigned
  PROVE  m_is_view_only /\ Saved(u)
BY Parts DEF WalletInv, PendingFiled

LEMMA StepSubmitTransfer ==
  ASSUME WalletInv, NEW u \in unsigned, SubmitTransfer(u)
  PROVE  WalletInv'
<1> DEFINE v == m_is_view_only
           t == u.tx
           K == Ins[t]
           src == u.src
           outs == u.outs \cup Range(Outs[t])
<1>1. /\ UNCHANGED <<m_is_view_only, run, wallet_file, half_stored, unsigned, made, top, half>>
      /\ run.stage = "idle" /\ finalize_transaction(t, src, outs)
  BY DEF SubmitTransfer, File, Offline
<1>2. /\ v /\ t \in OwnTxs /\ src \in [K -> Nat] /\ K \subseteq Range(KeyImage)
      /\ u.outs \subseteq DOMAIN KeyImage /\ IsFiniteSet(u.outs)
  BY ToBeSigned DEF Saved
<1>3. outs \subseteq DOMAIN KeyImage /\ IsFiniteSet(outs)
  <2>1. t \in Txs
    BY <1>2, TxTypes
  <2> HIDE DEF t
  <2>2. Range(Outs[t]) \subseteq DOMAIN KeyImage /\ IsFiniteSet(Range(Outs[t]))
    BY <2>1, OutsFinite
  <2>3. IsFiniteSet(outs)
    BY <1>2, <2>2, FS_Union
  <2> QED BY <1>2, <2>2, <2>3
<1>4. v \/ \A i \in Range(src) \cap DOMAIN w.m_transfers : ~w.m_transfers[i].m_spent
  BY <1>2
<1> HIDE DEF outs, src, K, t
<1>5. /\ Good(v, w', half) /\ w'.m_blockchain = w.m_blockchain /\ net' \subseteq OwnTxs
      /\ pki_file' \in Seq(DOMAIN KeyImage) /\ NoRepeats(pki_file')
      /\ w'.m_pending_key_images = Range(pki_file') /\ Range(pki_file) \subseteq Range(pki_file')
      /\ ~v => pki_file' = pki_file
  BY <1>1, <1>2, <1>3, <1>4, Parts, FinalizeKeeps
<1>6. Refreshing(v, run', w') /\ Good(v, w', half') /\ top' \in Blocks /\ made' \subseteq OwnTxs
  BY <1>1, <1>5, Parts, NoEntry, RefreshingUnmoved
<1>7. (\A x \in unsigned' : Saved(x)) /\ (~v => pki_file' = pki_file /\ unsigned' = {})
  BY <1>1, <1>2 DEF WalletInv
<1> QED BY <1>1, <1>5, <1>6, <1>7, Carried

LEMMA StepCancelTransfer ==
  ASSUME WalletInv, NEW u \in unsigned, CancelTransfer(u)
  PROVE  WalletInv'
<1> DEFINE v == m_is_view_only
           no == FALSE
           s == Range(u.src)
<1>1. /\ UNCHANGED <<m_is_view_only, run, wallet_file, half_stored, pki_file, unsigned, made, net, top, half>>
      /\ run.stage = "idle" /\ w' = set_transfer_spent_flag(w, s, no)
  BY DEF CancelTransfer, Files, Offline, Daemon
<1>2. no \in BOOLEAN
  OBVIOUS
<1> HIDE DEF no, s
<1>3. v \/ no \/ \A i \in s \cap DOMAIN w.m_transfers : ~w.m_transfers[i].m_spent
  BY ToBeSigned
<1>4. Good(v, set_transfer_spent_flag(w, s, no), half)
  BY <1>2, <1>3, Parts, FlagGood
<1>5. /\ Good(v, w', half) /\ w'.m_blockchain = w.m_blockchain
      /\ w'.m_pending_key_images = w.m_pending_key_images
  BY <1>1, <1>2, <1>4, Parts, FlagRest
<1>6. Refreshing(v, run', w') /\ Good(v, w', half')
  BY <1>1, <1>5, Parts, NoEntry, RefreshingUnmoved
<1> QED BY <1>1, <1>5, <1>6, Parts, CarriedOn

LEMMA StepStore ==
  ASSUME WalletInv, Store
  PROVE  WalletInv'
<1>1. /\ UNCHANGED <<m_is_view_only, w, run, pki_file, unsigned, made, net, top, half>>
      /\ wallet_file' = w /\ half_stored' = half
  BY DEF Store, Offline, Daemon
<1>2. PendingFiled'
  BY <1>1 DEF WalletInv, PendingFiled
<1> QED BY <1>1, <1>2 DEF WalletInv
LEMMA FreshGood ==
  ASSUME NEW v, NEW rest, NEW x \in Members, x.m_blockchain = <<Genesis>>,
         x.m_transfers = <<>>, x.m_key_images = <<>>
  PROVE  Good(v, x, rest)
<1> DEFINE s == <<Genesis>>
<1>1. Genesis \in Blocks
  BY Tree
<1>2. s \in Seq(Blocks) /\ Len(s) = 1 /\ s[1] = Genesis /\ DOMAIN s = {1}
  BY <1>1
<1>3. x.m_blockchain = s
  OBVIOUS
<1>4. DOMAIN x.m_transfers = {} /\ DOMAIN x.m_key_images = {}
  OBVIOUS
<1>5. Path(s)
  <2> HIDE DEF s
  <2>1. \A i \in 2..Len(s) : s[i] # Genesis /\ Parent[s[i]] = s[i - 1]
    BY <1>2
  <2> QED BY <1>2, <2>1 DEF Path
<1>6. Path(x.m_blockchain)
  BY <1>3, <1>5
<1>7. AtHeight(x, rest) /\ Indexed(x) /\ Ordered(x)
  BY <1>4 DEF AtHeight, Indexed, Ordered
<1>8. Scanned(x, Genesis, 0)
  <2>1. \A n \in DOMAIN TxsOf[Genesis] : \A o \in Range(Outs[TxsOf[Genesis][n]]) : FALSE
    <3>1. OutsIn(s) = {}
      BY TreeAssumption
    <3>2. \A o : o \in OutsIn(<<Genesis>>) <=> \E n \in DOMAIN TxsOf[Genesis] : o \in Range(Outs[TxsOf[Genesis][n]])
      BY <1>1, PaidByOne
    <3> QED BY <3>1, <3>2
  <2>2. \A t : SpentOf(x, t)
    BY <1>4 DEF SpentOf
  <2> QED BY <2>1, <2>2 DEF Scanned
<1>9. Sound(x)
  <2>1. ASSUME NEW j \in DOMAIN x.m_blockchain PROVE Scanned(x, x.m_blockchain[j], j - 1)
    <3>1. j = 1
      BY <1>2, <1>3
    <3>2. x.m_blockchain[j] = Genesis /\ j - 1 = 0
      BY <3>1, <1>2, <1>3
    <3> QED BY <3>2, <1>8
  <2> QED BY <2>1, <1>7 DEF Sound
<1> QED BY <1>6, <1>7, <1>9 DEF Good

LEMMA EmptyMembers ==
  Empty \in Members
<1>1. <<>> \in Seq(Transfers)
  OBVIOUS
<1>2. <<>> \in Images
  <2> DEFINE e == <<>>
  <2>1. DOMAIN e \subseteq Range(KeyImage) /\ e \in [DOMAIN e -> Nat]
    OBVIOUS
  <2> HIDE DEF e
  <2>2. e \in Images
    BY <2>1, ImageFields
  <2> QED BY <2>2 DEF e
<1>3. <<Genesis>> \in Seq(Blocks)
  BY Tree
<1> QED BY <1>1, <1>2, <1>3 DEF Empty, Members

LEMMA EmptyGood ==
  ASSUME NEW v, NEW rest, NEW keys, keys \subseteq OwnTxs, NEW p, p \subseteq DOMAIN KeyImage
  PROVE  Good(v, [Empty EXCEPT !.m_tx_keys = keys, !.m_pending_key_images = p], rest)
<1> DEFINE x == [Empty EXCEPT !.m_tx_keys = keys, !.m_pending_key_images = p]
<1>1. x \in Members
  BY EmptyMembers DEF Members
<1>2. x.m_blockchain = <<Genesis>> /\ x.m_transfers = <<>> /\ x.m_key_images = <<>>
  BY DEF Empty
<1> HIDE DEF x
<1>3. Good(v, x, rest)
  BY <1>1, <1>2, FreshGood
<1> QED BY <1>3 DEF x

LEMMA AtHeightRecorded ==
  ASSUME NEW v, NEW m, NEW rest, Good(v, m, rest)
  PROVE  Good(v, m, rest \cap Recorded(m))
<1>1. AtHeight(m, rest)
  BY DEF Good
<1>2. AtHeight(m, rest \cap Recorded(m))
  <2>1. ASSUME NEW i \in DOMAIN m.m_transfers
        PROVE  <<m.m_transfers[i].out, m.m_transfers[i].m_block_height>> \in Recorded(m)
    BY DEF Recorded, Range
  <2> QED BY <1>1, <2>1 DEF AtHeight
<1> QED BY <1>2 DEF Good

LEMMA EmptyIsGood ==
  ASSUME NEW v, NEW rest
  PROVE  Good(v, Empty, rest) /\ Empty.m_pending_key_images = {}
<1> DEFINE x == Empty
<1>1. /\ x.m_blockchain = <<Genesis>> /\ x.m_transfers = <<>> /\ x.m_key_images = <<>>
      /\ x.m_pending_key_images = {}
  BY DEF Empty
<1>2. x \in Members
  BY EmptyMembers
<1> HIDE DEF x
<1>3. Good(v, x, rest)
  BY <1>1, <1>2, FreshGood
<1> QED BY <1>1, <1>3 DEF x

LEMMA StepKillAndLoad ==
  ASSUME WalletInv, KillAndLoad
  PROVE  WalletInv'
<1> DEFINE v == m_is_view_only
           m == IF wallet_file = None THEN Empty ELSE wallet_file
<1>1. /\ UNCHANGED <<m_is_view_only, wallet_file, half_stored, pki_file, unsigned, made, net, top>>
      /\ w' = (IF v THEN load_keys2ki(m) ELSE m) /\ half' = half_stored \cap Recorded(w') /\ run' = Idle
  BY DEF KillAndLoad, Files, Offline, Daemon
<1>2. Good(v, m, half_stored) /\ m.m_pending_key_images \subseteq Range(pki_file)
  <2>1. CASE wallet_file = None
    BY <2>1, EmptyIsGood
  <2>2. CASE wallet_file # None
    BY <2>2 DEF WalletInv, PendingFiled
  <2> QED BY <2>1, <2>2
<1> HIDE DEF m
<1>3. /\ pki_file \in Seq(DOMAIN KeyImage) /\ NoRepeats(pki_file)
      /\ ~v => pki_file = <<>> /\ unsigned = {}
  BY DEF WalletInv, PendingFiled
<1>4. /\ IsFiniteSet(Range(pki_file)) /\ Cardinality(Range(pki_file)) = Len(pki_file)
      /\ Range(pki_file) \subseteq DOMAIN KeyImage
  <2> DEFINE A == DOMAIN KeyImage
  <2>1. pki_file \in Seq(A)
    BY <1>3
  <2> HIDE DEF A
  <2>2. IsFiniteSet(Range(pki_file)) /\ Cardinality(Range(pki_file)) = Len(pki_file)
    BY <1>3, <2>1, FileSize
  <2>3. Range(pki_file) \subseteq A
    BY <2>1 DEF Range
  <2> QED BY <2>2, <2>3 DEF A
<1>5. Good(v, w', half_stored) /\ w'.m_pending_key_images = Range(pki_file)
  <2>1. CASE ~v
    <3>1. Range(pki_file) = {}
      BY <2>1, <1>3 DEF Range
    <3> QED BY <2>1, <3>1, <1>1, <1>2
  <2>2. CASE v /\ Cardinality(m.m_pending_key_images) < Len(pki_file)
    <3> DEFINE p == Range(pki_file)
               keys == m.m_tx_keys
               x == [Empty EXCEPT !.m_tx_keys = keys, !.m_pending_key_images = p]
    <3>1. m \in Members
      BY <1>2 DEF Good
    <3>2. keys \subseteq OwnTxs /\ p \subseteq DOMAIN KeyImage
      BY <3>1, <1>4 DEF Members
    <3>3. w' = x
      <4>1. w' = clear([m EXCEPT !.m_pending_key_images = p])
        BY <2>2, <1>1 DEF load_keys2ki
      <4> HIDE DEF p
      <4>2. /\ [m EXCEPT !.m_pending_key_images = p].m_tx_keys = keys
            /\ [m EXCEPT !.m_pending_key_images = p].m_pending_key_images = p
        BY <3>1 DEF Members
      <4> QED BY <4>1, <4>2 DEF clear
    <3>4. x.m_pending_key_images = p
      BY DEF Empty
    <3> HIDE DEF p, keys
    <3>5. Good(v, x, half_stored)
      BY <3>2, EmptyGood
    <3> QED BY <3>3, <3>4, <3>5 DEF p
  <2>3. CASE v /\ ~ (Cardinality(m.m_pending_key_images) < Len(pki_file))
    <3> DEFINE S == Range(pki_file)
               T == m.m_pending_key_images
    <3>1. w' = m
      BY <2>3, <1>1 DEF load_keys2ki
    <3>2. IsFiniteSet(S) /\ T \in SUBSET S /\ Cardinality(S) = Len(pki_file)
      BY <1>2, <1>4
    <3> HIDE DEF S, T
    <3>3. IsFiniteSet(T) /\ Cardinality(T) <= Cardinality(S) /\ (Cardinality(S) = Cardinality(T) => S = T)
      BY <3>2, FS_Subset
    <3>4. Cardinality(T) \in Nat /\ Cardinality(S) \in Nat
      BY <3>2, <3>3, FS_CardinalityType
    <3>5. S = T
      BY <2>3, <3>2, <3>3, <3>4 DEF T
    <3> QED BY <3>1, <3>5, <1>2 DEF S, T
  <2> QED BY <2>1, <2>2, <2>3
<1>6. Good(v, w', half') /\ w' \in Members
  BY <1>1, <1>5, AtHeightRecorded DEF Good
<1>7. Refreshing(v, run', w')
  <2> DEFINE st == "loop"
             f == TRUE
  <2>1. st \in {"idle", "loop", "pull"} /\ f \in BOOLEAN
    OBVIOUS
  <2> HIDE DEF st, f
  <2>2. Refreshing(v, Idle, w') /\ Refreshing(v, [Idle EXCEPT !.stage = st, !.fetched = f], w')
    BY <2>1, <1>6, IdleRefreshes
  <2> QED BY <2>2, <1>1
<1>8. /\ pki_file' \in Seq(DOMAIN KeyImage) /\ NoRepeats(pki_file')
      /\ w'.m_pending_key_images = Range(pki_file') /\ Range(pki_file) \subseteq Range(pki_file')
      /\ ~v => pki_file' = pki_file /\ unsigned' = {}
  BY <1>1, <1>3, <1>5
<1>9. \A u \in unsigned' : Saved(u)
  BY <1>1 DEF WalletInv
<1> QED BY <1>1, <1>6, <1>7, <1>8, <1>9, Parts, Carried

LEMMA StepKillInStore ==
  ASSUME WalletInv, KillInStore
  PROVE  WalletInv'
<1> DEFINE v == m_is_view_only
           p == Range(pki_file)
<1>1. PICK keys \in SUBSET w.m_tx_keys : wallet_file' = [Empty EXCEPT !.m_tx_keys = keys]
  BY DEF KillInStore
<1> DEFINE m == [Empty EXCEPT !.m_tx_keys = keys]
           x == [Empty EXCEPT !.m_tx_keys = keys, !.m_pending_key_images = p]
<1>2. /\ UNCHANGED <<m_is_view_only, pki_file, unsigned, made, net, top>>
      /\ w' = (IF v THEN load_keys2ki(m) ELSE m) /\ half' = {} /\ half_stored' = {} /\ run' = Idle
  BY <1>1 DEF KillInStore, Offline, Daemon
<1>3. keys \subseteq OwnTxs
  BY DEF WalletInv, Good, Members
<1>4. /\ pki_file \in Seq(DOMAIN KeyImage) /\ NoRepeats(pki_file)
      /\ ~v => pki_file = <<>> /\ unsigned = {}
  BY DEF WalletInv, PendingFiled
<1>5. p \subseteq DOMAIN KeyImage
  <2> DEFINE A == DOMAIN KeyImage
  <2>1. pki_file \in Seq(A)
    BY <1>4
  <2> HIDE DEF A
  <2>2. p \subseteq A
    BY <2>1 DEF Range
  <2> QED BY <2>2 DEF A
<1>6. /\ m.m_tx_keys = keys /\ m.m_pending_key_images = {}
      /\ m.m_blockchain = <<Genesis>> /\ m.m_transfers = <<>> /\ m.m_key_images = <<>>
      /\ x.m_pending_key_images = p
  BY DEF Empty
<1>7. Good(v, m, {}) /\ Good(v, x, {}) /\ m \in Members
  <2>1. m \in Members
    BY <1>3, EmptyMembers DEF Members
  <2> HIDE DEF m, p
  <2>2. Good(v, m, {})
    BY <2>1, <1>6, FreshGood
  <2>3. Good(v, x, {})
    BY <1>3, <1>5, EmptyGood
  <2> QED BY <2>1, <2>2, <2>3
<1>8. w' = x \/ (w' = m /\ p = {})
  <2>1. Len(pki_file) \in Nat /\ DOMAIN pki_file = 1..Len(pki_file) /\ Cardinality({}) = 0
    BY <1>4, FS_EmptySet
  <2> HIDE DEF m
  <2>2. CASE ~(v /\ 0 < Len(pki_file))
    <3>1. Len(pki_file) = 0
      BY <2>1, <2>2, <1>4
    <3>2. p = {}
      BY <3>1, <2>1 DEF Range
    <3>3. load_keys2ki(m) = m
      BY <3>1, <2>1, <1>6 DEF load_keys2ki
    <3> QED BY <3>2, <3>3, <1>2
  <2>3. CASE v /\ 0 < Len(pki_file)
    <3>1. w' = clear([m EXCEPT !.m_pending_key_images = p])
      BY <2>1, <2>3, <1>2, <1>6 DEF load_keys2ki
    <3> HIDE DEF p
    <3>2. /\ [m EXCEPT !.m_pending_key_images = p].m_tx_keys = keys
          /\ [m EXCEPT !.m_pending_key_images = p].m_pending_key_images = p
      BY <1>6, <1>7 DEF Members
    <3> QED BY <3>1, <3>2 DEF clear
  <2> QED BY <2>2, <2>3
<1>9. Good(v, w', {}) /\ w'.m_pending_key_images = p /\ wallet_file' = m
  BY <1>1, <1>6, <1>7, <1>8
<1>10. PendingFiled'
  BY <1>2, <1>4, <1>6, <1>9 DEF PendingFiled
<1>11. Refreshing(v, run', w')
  <2> DEFINE st == "loop"
             f == TRUE
  <2>1. st \in {"idle", "loop", "pull"} /\ f \in BOOLEAN /\ w' \in Members
    BY <1>9 DEF Good
  <2> HIDE DEF st, f
  <2>2. Refreshing(v, Idle, w') /\ Refreshing(v, [Idle EXCEPT !.stage = st, !.fetched = f], w')
    BY <2>1, IdleRefreshes
  <2> QED BY <2>2, <1>2
<1> QED BY <1>2, <1>7, <1>9, <1>10, <1>11 DEF WalletInv

LEMMA StartsGood ==
  ASSUME Init
  PROVE  WalletInv
<1>1. /\ m_is_view_only \in ViewOnly /\ top = Genesis /\ made = {} /\ net = {} /\ unsigned = {}
      /\ w = Empty /\ run = Idle /\ pki_file = <<>> /\ (wallet_file = None \/ wallet_file = Empty)
  BY DEF Init
<1>2. Good(m_is_view_only, w, half) /\ w.m_pending_key_images = {}
  BY <1>1, EmptyIsGood
<1>3. wallet_file # None => Good(m_is_view_only, wallet_file, half_stored) /\ wallet_file.m_pending_key_images = {}
  BY <1>1, EmptyIsGood
<1>4. Refreshing(m_is_view_only, run, w)
  <2> DEFINE st == "loop"
             f == TRUE
  <2>1. st \in {"idle", "loop", "pull"} /\ f \in BOOLEAN /\ w \in Members
    BY <1>2 DEF Good
  <2> HIDE DEF st, f
  <2>2. Refreshing(m_is_view_only, Idle, w) /\ Refreshing(m_is_view_only, [Idle EXCEPT !.stage = st, !.fetched = f], w)
    BY <2>1, IdleRefreshes
  <2> QED BY <2>2, <1>1
<1>5. PendingFiled
  <2>1. pki_file \in Seq(DOMAIN KeyImage) /\ NoRepeats(pki_file) /\ Range(pki_file) = {}
    BY <1>1 DEF NoRepeats, Range
  <2> QED BY <2>1, <1>1, <1>2, <1>3 DEF PendingFiled
<1> QED BY <1>1, <1>2, <1>3, <1>4, <1>5, Tree DEF WalletInv
-----------------------------------------------------------------------------
(* The results.                                                            *)

\* WalletInv is an invariant: the members in memory and in the file follow a
\* path of the block tree, refresh is where it says it is, and the pending
\* key images agree with their file, whatever refresh, transfer, store and
\* load do and wherever a call fails or the wallet is killed.
THEOREM WalletInvHolds == Spec => []WalletInv
<1>1. Init => WalletInv
  BY StartsGood
<1>2. WalletInv /\ [Next]_vars => WalletInv'
  <2> SUFFICES ASSUME WalletInv, [Next]_vars PROVE WalletInv'
    OBVIOUS
  <2>1. CASE PullBlocks
    BY <2>1, StepPullBlocks
  <2>2. CASE EntryNew
    BY <2>2, StepEntryNew
  <2>3. CASE EntrySplit
    BY <2>3, StepEntrySplit
  <2>4. ASSUME NEW t \in Txs, ProcessTx(t) PROVE WalletInv'
    BY <2>4, StepProcessTx
  <2>5. ASSUME NEW t \in Txs, ProcessTxGone(t) \/ ProcessTxLost(t) PROVE WalletInv'
    <3>1. Interrupted(t)
      BY <2>5 DEF ProcessTxGone, ProcessTxLost
    <3> QED BY <3>1, StepInterrupted
  <2>6. CASE EntryDone
    BY <2>6, StepEntryDone
  <2>7. CASE PullDone
    BY <2>7, StepPullDone
  <2>8. CASE PullLost
    BY <2>8, StepPullLost
  <2>9. ASSUME NEW b \in Blocks, DaemonMoves(b) PROVE WalletInv'
    BY <2>9, StepDaemonMoves
  <2>10. ASSUME NEW t \in OwnTxs, Transfer(t) PROVE WalletInv'
    BY <2>10, StepTransfer
  <2>11. ASSUME NEW t \in OwnTxs, TransferNotRelayed(t) PROVE WalletInv'
    BY <2>11, StepTransferNotRelayed
  <2>12. ASSUME NEW t \in OwnTxs, TransferUnsigned(t) PROVE WalletInv'
    BY <2>12, StepTransferUnsigned
  <2>13. ASSUME NEW u \in unsigned, SubmitTransfer(u) PROVE WalletInv'
    BY <2>13, StepSubmitTransfer
  <2>14. ASSUME NEW u \in unsigned, CancelTransfer(u) PROVE WalletInv'
    BY <2>14, StepCancelTransfer
  <2>15. CASE Store
    BY <2>15, StepStore
  <2>16. CASE KillAndLoad
    BY <2>16, StepKillAndLoad
  <2>17. CASE KillInStore
    BY <2>17, StepKillInStore
  <2>18. CASE UNCHANGED vars
    BY <2>18 DEF vars, WalletInv, PendingFiled
  <2> QED BY <2>1, <2>2, <2>3, <2>4, <2>5, <2>6, <2>7, <2>8, <2>9, <2>10, <2>11,
             <2>12, <2>13, <2>14, <2>15, <2>16, <2>17, <2>18 DEF Next, Refresh
<1> QED BY <1>1, <1>2, PTL DEF Spec

LEMMA IndexCounts ==
  ASSUME NEW m \in Members, Indexed(m)
  PROVE  Len(m.m_transfers) = Cardinality(DOMAIN m.m_key_images)
<1> DEFINE s == m.m_transfers
           D == DOMAIN m.m_key_images
           n == Len(s)
           f == [i \in 1..n |-> s[i].m_key_image]
<1>1. n \in Nat /\ DOMAIN s = 1..n
  BY Fields
<1>2. \A i \in 1..n : s[i].m_key_image \in D /\ m.m_key_images[s[i].m_key_image] = i
  BY <1>1 DEF Indexed
<1>3. \A k \in D : m.m_key_images[k] \in 1..n /\ s[m.m_key_images[k]].m_key_image = k
  BY <1>1 DEF Indexed
<1>4. f \in Bijection(1..n, D)
  <2> HIDE DEF s, D, n
  <2>1. f \in [1..n -> D]
    BY <1>2
  <2>2. \A i, j \in 1..n : f[i] = f[j] => i = j
    BY <1>2
  <2>3. \A k \in D : \E i \in 1..n : f[i] = k
    BY <1>3
  <2> HIDE DEF f
  <2> QED BY <2>1, <2>2, <2>3 DEF Bijection, Injection, Surjection, IsInjective
<1>5. IsFiniteSet(1..n) /\ Cardinality(1..n) = n
  <2>1. 1 \in Int /\ n \in Int
    BY <1>1
  <2> HIDE DEF n
  <2>2. IsFiniteSet(1..n) /\ Cardinality(1..n) = IF 1 > n THEN 0 ELSE n - 1 + 1
    BY <2>1, FS_Interval
  <2> QED BY <1>1, <2>2
<1> HIDE DEF f, n, D
<1>6. ExistsBijection(1..n, D)
  BY <1>4 DEF ExistsBijection
<1>7. Cardinality(D) = n
  BY <1>5, <1>6, FS_Bijection
<1> QED BY <1>7 DEF n, D

\* The wallet's transfers are those of its chain (process_new_transaction,
\* detach_blockchain): every one is an output of the block at its height,
\* but for those of blocks that were interrupted; and a wallet with the spend
\* key has every key image its chain has paid to, once.
THEOREM FollowsChainHolds == Spec => []FollowsChain
<1>1. WalletInv => FollowsChain
  <2> SUFFICES ASSUME WalletInv PROVE FollowsChain
    OBVIOUS
  <2>1. ASSUME NEW td \in Range(w.m_transfers), <<td.out, td.m_block_height>> \notin half
        PROVE  /\ td.m_block_height < Len(w.m_blockchain)
               /\ td.out \in OutsIn(<<w.m_blockchain[td.m_block_height + 1]>>)
    <3>1. PICK i \in DOMAIN w.m_transfers : td = w.m_transfers[i]
      BY DEF Range
    <3> QED BY <2>1, <3>1, Parts DEF AtHeight
  <2>2. ASSUME ~m_is_view_only
        PROVE  /\ {KeyImage[o] : o \in OutsIn(w.m_blockchain)} \subseteq DOMAIN w.m_key_images
               /\ Len(w.m_transfers) = Cardinality(DOMAIN w.m_key_images)
               /\ \A k \in DOMAIN w.m_key_images :
                    /\ w.m_key_images[k] \in DOMAIN w.m_transfers
                    /\ w.m_transfers[w.m_key_images[k]].m_key_image = k
    <3>1. Indexed(w) /\ \A j \in DOMAIN w.m_blockchain : Scanned(w, w.m_blockchain[j], j - 1)
      BY <2>2, Parts DEF Good, Sound
    <3>2. Len(w.m_transfers) = Cardinality(DOMAIN w.m_key_images)
      BY <3>1, Parts, IndexCounts
    <3>3. ASSUME NEW o \in OutsIn(w.m_blockchain) PROVE KeyImage[o] \in DOMAIN w.m_key_images
      <4>1. w.m_blockchain \in Seq(Blocks)
        BY Parts, Fields
      <4>2. PICK j \in DOMAIN w.m_blockchain : \E n \in DOMAIN TxsOf[w.m_blockchain[j]] :
               o \in Range(Outs[TxsOf[w.m_blockchain[j]][n]])
        BY <4>1, PaidAt
      <4> QED BY <4>2, <3>1 DEF Scanned, KnownSince
    <3> QED BY <3>1, <3>2, <3>3 DEF Indexed
  <2> QED BY <2>1, <2>2 DEF FollowsChain
<1> QED BY <1>1, WalletInvHolds, PTL

\* A wallet with the spend key never takes an output for unspent that its
\* own chain has spent: the scan of a block marks it whoever spent it, and
\* no refused transfer unmarks it (set_transfer_spent_flag).
THEOREM SpentSeenHolds == Spec => []SpentSeen
<1>1. WalletInv => SpentSeen
  <2> SUFFICES ASSUME WalletInv, ~m_is_view_only, NEW td \in Range(w.m_transfers),
                      td.m_key_image \in SpentIn(w.m_blockchain)
               PROVE  td.m_spent
    BY DEF SpentSeen
  <2>1. \A j \in DOMAIN w.m_blockchain : Scanned(w, w.m_blockchain[j], j - 1)
    BY Parts DEF Good, Sound
  <2>2. PICK i \in DOMAIN w.m_transfers : td = w.m_transfers[i]
    BY DEF Range
  <2>3. w.m_blockchain \in Seq(Blocks)
    BY Parts, Fields
  <2>4. PICK j \in DOMAIN w.m_blockchain : \E n \in DOMAIN TxsOf[w.m_blockchain[j]] :
           td.m_key_image \in Ins[TxsOf[w.m_blockchain[j]][n]]
    BY <2>3, SpentAt
  <2> QED BY <2>1, <2>2, <2>4 DEF Scanned, SpentOf
<1> QED BY <1>1, WalletInvHolds, PTL

\* The files that a kill leaves behind can be loaded (load_keys2ki): the
\* stored wallet has no more pending key images than their file, and the
\* file names no output twice.
THEOREM LoadNeverStopsHolds == Spec => []LoadNeverStops
<1>1. WalletInv => LoadNeverStops
  <2> SUFFICES ASSUME WalletInv PROVE LoadNeverStops
    OBVIOUS
  <2> DEFINE A == DOMAIN KeyImage
             S == Range(pki_file)
  <2>1. /\ pki_file \in Seq(A) /\ NoRepeats(pki_file)
        /\ wallet_file # None => wallet_file.m_pending_key_images \subseteq S
    BY DEF WalletInv, PendingFiled
  <2> HIDE DEF A
  <2>2. IsFiniteSet(S) /\ Cardinality(S) = Len(pki_file)
    BY <2>1, FileSize
  <2> HIDE DEF S
  <2>3. ASSUME wallet_file # None PROVE Cardinality(wallet_file.m_pending_key_images) <= Len(pki_file)
    <3> DEFINE T == wallet_file.m_pending_key_images
    <3>1. T \in SUBSET S
      BY <2>1, <2>3
    <3> HIDE DEF T
    <3>2. Cardinality(T) <= Cardinality(S)
      BY <3>1, <2>2, FS_Subset
    <3> QED BY <3>2, <2>2 DEF T
  <2> QED BY <2>2, <2>3 DEF LoadNeverStops, S
<1> QED BY <1>1, WalletInvHolds, PTL
\* Type correctness of the wallet's members, of its files and of refresh.
THEOREM WalletTypes == Spec => []TypeOK
<1>1. WalletInv => TypeOK
  <2> SUFFICES ASSUME WalletInv PROVE TypeOK
    OBVIOUS
  <2>1. /\ w.m_blockchain \in Seq(Blocks) /\ Len(w.m_blockchain) >= 1
        /\ w.m_transfers \in Seq(Transfers) /\ w.m_key_images \in Images
        /\ w.m_unconfirmed_txs \subseteq OwnTxs /\ w.m_tx_keys \subseteq OwnTxs
        /\ w.m_pending_key_images \subseteq DOMAIN KeyImage
    BY Parts DEF Members, Path
  <2>2. Range(w.m_blockchain) \subseteq Blocks /\ w.m_blockchain # <<>>
    BY <2>1 DEF Range
  <2>3. Range(w.m_transfers) \subseteq Transfers
    BY <2>1 DEF Range
  <2>4. DOMAIN w.m_key_images \subseteq Range(KeyImage)
    BY <2>1, ImageFields
  <2>5. Range(pki_file) \subseteq DOMAIN KeyImage
    BY <2>1, Parts DEF PendingFiled
  <2>6. run.stage \in {"idle", "loop", "pull"} /\ run.height <= Len(w.m_blockchain)
    BY Parts DEF Runs
  <2>7. m_is_view_only \in ViewOnly /\ top \in Blocks /\ net \subseteq OwnTxs /\ made \subseteq OwnTxs
    BY DEF WalletInv
  <2> QED BY <2>1, <2>2, <2>3, <2>4, <2>5, <2>6, <2>7 DEF TypeOK
<1> QED BY <1>1, WalletInvHolds, PTL
=============================================================================
