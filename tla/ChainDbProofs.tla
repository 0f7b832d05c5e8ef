---------------------------- MODULE ChainDbProofs ----------------------------
(***************************************************************************)
(* Proofs about the database: what the accessors of DbArray do to the      *)
(* sequence that a container holds, that popping a block undoes pushing    *)
(* it in the scratchpad and in the tables of the aliases, and that arrays, *)
(* caches, scratchpad and aliases follow the chain through transactions    *)
(* and kills; last, the scratchpad of an alternative block.                *)
(***************************************************************************)
EXTENDS ChainDb, SubsequenceProofs, FiniteSetTheorems, TLAPS

(***************************************************************************)
(* The scratchpad.                                                         *)
(***************************************************************************)
(* Adding the same patch twice changes nothing.                            *)
LEMMA XorTwice == \A a, b : xor_pod(xor_pod(a, b), b) = a
BY DEF xor_pod

LEMMA XorType == \A a, b \in Hash : xor_pod(a, b) \in Hash
BY DEF xor_pod, Hash

(* An element of a patch is a hash.                                        *)
LEMMA PatchEntryType == \A add, start, i : PatchEntry(add, start, i) \in Hash
BY DEF PatchEntry, Hash

(* A pushed block lengthens the pad by its addendum, and the result is a pad. *)
LEMMA PushType ==
  ASSUME NEW pad \in Pad, NEW b \in Blocks
  PROVE  /\ push_block_scratchpad_data(pad, b) \in Pad
         /\ Len(push_block_scratchpad_data(pad, b)) = Len(pad) + Len(Addendum[b])
<1> DEFINE add == Addendum[b]
           n == Len(pad)
           long == pad \o Entries(add)
           patch == get_scratchpad_patch(n, add)
<1>1. add \in Seq(Atoms) /\ n \in Nat /\ Len(add) \in Nat
  BY AddendumAssumption DEF Pad
<1>2. Entries(add) \in Pad /\ Len(Entries(add)) = Len(add)
  BY <1>1 DEF Entries, Pad, Hash
<1>3. long \in Pad /\ Len(long) = n + Len(add)
  BY <1>2 DEF Pad
<1>4. \A k \in DOMAIN patch : patch[k] \in Hash
  BY PatchEntryType DEF get_scratchpad_patch
<1>5. \A k \in DOMAIN long : long[k] \in Hash
  BY <1>3 DEF Pad
<1>6. \A k \in DOMAIN long :
        (IF k - 1 \in DOMAIN patch THEN xor_pod(long[k], patch[k - 1]) ELSE long[k]) \in Hash
  BY <1>4, <1>5, XorType
<1>7. DOMAIN long = 1..(n + Len(add))
  BY <1>3 DEF Pad
<1> DEFINE res == apply_scratchpad_patch(long, patch)
<1>8. res \in [1..(n + Len(add)) -> Hash]
  BY <1>6, <1>7 DEF apply_scratchpad_patch
<1>9. res \in Seq(Hash) /\ Len(res) = n + Len(add)
  BY <1>8, <1>1
<1> QED
  BY <1>9 DEF push_block_scratchpad_data, Pad

(***************************************************************************)
(* pop_block_scratchpad_data after push_block_scratchpad_data, which every *)
(* reorganisation relies on: the patch is computed again from the block    *)
(* alone, and lands on the same entries, because it reaches only those     *)
(* before the block's own.                                                 *)
(***************************************************************************)
THEOREM PopUndoesPush ==
  ASSUME NEW pad \in Pad, NEW b \in Blocks
  PROVE  pop_block_scratchpad_data(push_block_scratchpad_data(pad, b), b) = pad
<1> DEFINE add == Addendum[b]
           n == Len(pad)
           long == pad \o Entries(add)
           patch == get_scratchpad_patch(n, add)
           new == push_block_scratchpad_data(pad, b)
<1>1. add \in Seq(Atoms) /\ n \in Nat /\ Len(add) \in Nat
  BY AddendumAssumption DEF Pad
<1>2. new \in Pad /\ Len(new) = n + Len(add)
  BY PushType
<1>3. Len(new) - Len(add) = n
  BY <1>1, <1>2
<1>4. DOMAIN patch = 0..(n - 1)
  BY DEF get_scratchpad_patch
<1>5. Entries(add) \in Pad
  BY <1>1 DEF Entries, Pad, Hash
<1>6. \A k \in 1..n : k \in DOMAIN long /\ long[k] = pad[k]
  BY <1>1, <1>5 DEF Pad
<1>7. \A k \in 1..n : k - 1 \in DOMAIN patch
  BY <1>1, <1>4
<1>8. \A k \in 1..n : new[k] = xor_pod(pad[k], patch[k - 1])
  BY <1>6, <1>7 DEF push_block_scratchpad_data, apply_scratchpad_patch
<1>9. \A k \in 1..n : k \in DOMAIN new
  BY <1>1, <1>2 DEF Pad
<1>10. \A k \in 1..n : apply_scratchpad_patch(new, patch)[k] = pad[k]
  BY <1>7, <1>8, <1>9, XorTwice DEF apply_scratchpad_patch
<1>11. resize(apply_scratchpad_patch(new, patch), n) = [k \in 1..n |-> pad[k]]
  BY <1>10 DEF resize
<1>12. pad = [k \in 1..n |-> pad[k]]
  BY <1>1 DEF Pad
<1>13. pop_block_scratchpad_data(new, b) = resize(apply_scratchpad_patch(new, patch), n)
  BY <1>3 DEF pop_block_scratchpad_data
<1> QED
  BY <1>11, <1>12, <1>13

-----------------------------------------------------------------------------
(***************************************************************************)
(* The tables of the aliases.                                              *)
(***************************************************************************)
(* The last element and the front of a sequence that was appended to.      *)
LEMMA AppendedHistory ==
  ASSUME NEW h \in Seq(Addresses), NEW x \in Addresses
  PROVE  /\ Append(h, x) \in Seq(Addresses)
         /\ Append(h, x) # <<>>
         /\ Owner(Append(h, x)) = x
         /\ SubSeq(Append(h, x), 1, Len(Append(h, x)) - 1) = h
<1>1. Append(h, x) \in Seq(Addresses) /\ Len(Append(h, x)) = Len(h) + 1
  OBVIOUS
<1>2. Append(h, x)[Len(h) + 1] = x
  OBVIOUS
<1>3. \A i \in 1..Len(h) : Append(h, x)[i] = h[i]
  OBVIOUS
<1>4. SubSeq(Append(h, x), 1, Len(h)) = h
  BY <1>1, <1>3
<1> QED
  BY <1>1, <1>2, <1>4 DEF Owner

(* A history that is not empty has an owner.                               *)
LEMMA OwnerType == \A h \in Seq(Addresses) : h # <<>> => Owner(h) \in Addresses
BY DEF Owner

(* Taking a name from an address, giving it to one.                        *)
LEMMA GoneMembers ==
  ASSUME NEW f \in [Addresses -> SUBSET Names], NEW x \in Addresses, NEW n \in Names
  PROVE  /\ Gone(f, x, n) \in [Addresses -> SUBSET Names]
         /\ \A y \in Addresses, m \in Names : m \in Gone(f, x, n)[y] <=> m \in f[y] /\ ~(m = n /\ y = x)
BY DEF Gone

LEMMA GivenMembers ==
  ASSUME NEW f \in [Addresses -> SUBSET Names], NEW x \in Addresses, NEW n \in Names
  PROVE  /\ Given(f, x, n) \in [Addresses -> SUBSET Names]
         /\ \A y \in Addresses, m \in Names : m \in Given(f, x, n)[y] <=> m \in f[y] \/ (m = n /\ y = x)
BY DEF Given

(* put_alias_info keeps the types and the agreement of the two tables.     *)
LEMMA PutKeepsAgreement ==
  ASSUME NEW a \in AliasTables, Agree(a), NEW ai \in AliasInfo
  PROVE  put_alias_info(a, ai) \in AliasTables /\ Agree(put_alias_info(a, ai))
<1> DEFINE n == ai.m_alias
           x == ai.m_address
           h == a.aliases[n]
           p == put_alias_info(a, ai)
<1>1. n \in Names /\ x \in Addresses /\ h \in Seq(Addresses)
  BY DEF AliasInfo, AliasTables
<1>2. Append(h, x) \in Seq(Addresses) /\ Append(h, x) # <<>> /\ Owner(Append(h, x)) = x
  BY <1>1, AppendedHistory
<1>3. h # <<>> => Owner(h) \in Addresses
  BY <1>1, OwnerType
<1>4. p.aliases = [a.aliases EXCEPT ![n] = Append(h, x)]
  BY DEF put_alias_info
<1>5. /\ p.aliases \in [Names -> Seq(Addresses)]
      /\ p.aliases[n] = Append(h, x)
      /\ \A m \in Names \ {n} : p.aliases[m] = a.aliases[m]
  BY <1>1, <1>2, <1>4 DEF AliasTables
<1>6. /\ p.addr_to_alias \in [Addresses -> SUBSET Names]
      /\ \A y \in Addresses : p.addr_to_alias[y]
           = (IF h # <<>> /\ y = Owner(h) THEN a.addr_to_alias[y] \ {n} ELSE a.addr_to_alias[y])
             \cup (IF y = x THEN {n} ELSE {})
  BY <1>1, <1>3 DEF put_alias_info, Gone, Given, AliasTables
<1>7. p \in AliasTables
  BY <1>5, <1>6 DEF AliasTables, put_alias_info
<1>8. ASSUME NEW m \in Names, NEW y \in Addresses
      PROVE  m \in p.addr_to_alias[y] <=> p.aliases[m] # <<>> /\ Owner(p.aliases[m]) = y
  <2>1. m \in a.addr_to_alias[y] <=> a.aliases[m] # <<>> /\ Owner(a.aliases[m]) = y
    BY DEF Agree
  <2>2. CASE m # n
    BY <2>1, <2>2, <1>5, <1>6
  <2>3. CASE m = n
    BY <2>1, <2>3, <1>2, <1>5, <1>6
  <2> QED
    BY <2>2, <2>3
<1> QED
  BY <1>7, <1>8 DEF Agree

(***************************************************************************)
(* pop_alias_info succeeds after put_alias_info and brings back the tables *)
(* as they were: a disconnected block leaves no trace in the aliases, be   *)
(* it a registration or a change of address, also to the same address.     *)
(***************************************************************************)
THEOREM PopUndoesPut ==
  ASSUME NEW a \in AliasTables, Agree(a), NEW ai \in AliasInfo, PutAllowed(a, ai)
  PROVE  /\ PopAllowed(put_alias_info(a, ai), ai)
         /\ pop_alias_info(put_alias_info(a, ai), ai) = a
<1> DEFINE n == ai.m_alias
           x == ai.m_address
           h == a.aliases[n]
           p == put_alias_info(a, ai)
           q == pop_alias_info(p, ai)
<1>1. n \in Names /\ x \in Addresses /\ h \in Seq(Addresses)
  BY DEF AliasInfo, AliasTables
<1>2. p \in AliasTables /\ Agree(p)
  BY PutKeepsAgreement
<1>3. p.aliases = [a.aliases EXCEPT ![n] = Append(h, x)]
  BY DEF put_alias_info
<1>4. p.aliases[n] = Append(h, x)
  BY <1>1, <1>3 DEF AliasTables
<1>5. /\ p.aliases[n] # <<>>
      /\ Owner(p.aliases[n]) = x
      /\ SubSeq(p.aliases[n], 1, Len(p.aliases[n]) - 1) = h
  BY <1>1, <1>4, AppendedHistory
<1>6. n \in p.addr_to_alias[x]
  BY <1>1, <1>2, <1>5 DEF Agree
<1>7. PopAllowed(p, ai)
  BY <1>5, <1>6 DEF PopAllowed
<1>8. q.aliases = a.aliases
  <2>1. q.aliases = [p.aliases EXCEPT ![n] = h]
    BY <1>5 DEF pop_alias_info
  <2> QED
    BY <2>1, <1>1, <1>3 DEF AliasTables
<1>9. q.addr_to_alias = a.addr_to_alias
  <2>1. h # <<>> => Owner(h) \in Addresses
    BY <1>1, OwnerType
  <2>2. \A y \in Addresses : n \in a.addr_to_alias[y] <=> h # <<>> /\ Owner(h) = y
    BY <1>1 DEF Agree
  <2>3. q.addr_to_alias = IF h = <<>> THEN Gone(p.addr_to_alias, x, n)
                          ELSE Given(Gone(p.addr_to_alias, x, n), Owner(h), n)
    BY <1>5 DEF pop_alias_info
  <2>4. p.addr_to_alias = IF h = <<>> THEN Given(a.addr_to_alias, x, n)
                          ELSE Given(Gone(a.addr_to_alias, Owner(h), n), x, n)
    BY DEF put_alias_info
  <2>5. a.addr_to_alias \in [Addresses -> SUBSET Names]
    BY DEF AliasTables
  <2>6. CASE h = <<>>
    <3>1. \A y \in Addresses : n \notin a.addr_to_alias[y]
      BY <2>2, <2>6
    <3> QED
      BY <3>1, <2>3, <2>4, <2>5, <2>6, <1>1 DEF Gone, Given
  <2>7. CASE h # <<>>
    <3> DEFINE f1 == Gone(a.addr_to_alias, Owner(h), n)
               f2 == Given(f1, x, n)
               f3 == Gone(f2, x, n)
               f4 == Given(f3, Owner(h), n)
    <3>1. Owner(h) \in Addresses
      BY <2>1, <2>7
    <3>2. /\ f1 \in [Addresses -> SUBSET Names]
          /\ \A y \in Addresses, m \in Names : m \in f1[y] <=> m \in a.addr_to_alias[y] /\ ~(m = n /\ y = Owner(h))
      BY <3>1, <2>5, <1>1, GoneMembers
    <3>3. /\ f2 \in [Addresses -> SUBSET Names]
          /\ \A y \in Addresses, m \in Names : m \in f2[y] <=> m \in f1[y] \/ (m = n /\ y = x)
      BY <3>2, <1>1, GivenMembers
    <3>4. /\ f3 \in [Addresses -> SUBSET Names]
          /\ \A y \in Addresses, m \in Names : m \in f3[y] <=> m \in f2[y] /\ ~(m = n /\ y = x)
      BY <3>3, <1>1, GoneMembers
    <3>5. /\ f4 \in [Addresses -> SUBSET Names]
          /\ \A y \in Addresses, m \in Names : m \in f4[y] <=> m \in f3[y] \/ (m = n /\ y = Owner(h))
      BY <3>1, <3>4, <1>1, GivenMembers
    <3>6. q.addr_to_alias = f4
      BY <2>3, <2>4, <2>7
    <3> HIDE DEF f1, f2, f3, f4, q, p, h, n, x
    <3>7. ASSUME NEW y \in Addresses, NEW m \in Names
          PROVE  m \in f4[y] <=> m \in a.addr_to_alias[y]
      BY <2>2, <2>7, <3>2, <3>3, <3>4, <3>5
    <3>8. ASSUME NEW y \in Addresses
          PROVE  f4[y] = a.addr_to_alias[y]
      <4>1. f4[y] \subseteq Names /\ a.addr_to_alias[y] \subseteq Names
        BY <3>5, <2>5
      <4> QED
        BY <4>1, <3>7
    <3> QED
      BY <3>5, <3>6, <3>8, <2>5
  <2> QED
    BY <2>6, <2>7
<1>10. q = a
  BY <1>8, <1>9 DEF AliasTables, pop_alias_info
<1> QED
  BY <1>7, <1>10

(* pop_alias_info keeps them too, for a name with a history, and succeeds. *)
LEMMA PopKeepsAgreement ==
  ASSUME NEW a \in AliasTables, Agree(a), NEW ai \in AliasInfo, a.aliases[ai.m_alias] # <<>>
  PROVE  /\ PopAllowed(a, ai)
         /\ pop_alias_info(a, ai) \in AliasTables /\ Agree(pop_alias_info(a, ai))
         /\ pop_alias_info(a, ai).aliases =
              [a.aliases EXCEPT ![ai.m_alias] = SubSeq(@, 1, Len(@) - 1)]
<1> DEFINE n == ai.m_alias
           h == a.aliases[n]
           before == SubSeq(h, 1, Len(h) - 1)
           freed == Gone(a.addr_to_alias, Owner(h), n)
           names == IF before = <<>> THEN freed ELSE Given(freed, Owner(before), n)
           p == pop_alias_info(a, ai)
<1>1. /\ n \in Names /\ a.aliases \in [Names -> Seq(Addresses)]
      /\ a.addr_to_alias \in [Addresses -> SUBSET Names]
      /\ h \in Seq(Addresses) /\ h # <<>>
  BY DEF AliasInfo, AliasTables
<1>2. before \in Seq(Addresses)
  BY <1>1
<1>3. Owner(h) \in Addresses /\ (before # <<>> => Owner(before) \in Addresses)
  BY <1>1, <1>2, OwnerType
<1>4. \A m \in Names, x \in Addresses :
        m \in a.addr_to_alias[x] <=> a.aliases[m] # <<>> /\ Owner(a.aliases[m]) = x
  BY DEF Agree
<1>5. p = [aliases |-> [a.aliases EXCEPT ![n] = before], addr_to_alias |-> names]
  BY DEF pop_alias_info
<1> HIDE DEF before
<1>6. /\ p.aliases = [a.aliases EXCEPT ![n] = before] /\ p.addr_to_alias = names
      /\ p.aliases \in [Names -> Seq(Addresses)]
      /\ \A m \in Names : p.aliases[m] = IF m = n THEN before ELSE a.aliases[m]
  BY <1>1, <1>2, <1>5
<1>7. /\ freed \in [Addresses -> SUBSET Names]
      /\ \A y \in Addresses, m \in Names :
           m \in freed[y] <=> m # n /\ a.aliases[m] # <<>> /\ Owner(a.aliases[m]) = y
  BY <1>1, <1>3, <1>4, GoneMembers, SMTT(30)
<1> HIDE DEF freed, h
<1>8. /\ names \in [Addresses -> SUBSET Names]
      /\ \A y \in Addresses, m \in Names :
           m \in names[y] <=> m \in freed[y] \/ (before # <<>> /\ m = n /\ y = Owner(before))
  BY <1>1, <1>3, <1>7, GivenMembers, SMTT(30)
<1> HIDE DEF names, p
<1>9. p \in AliasTables
  BY <1>5, <1>6, <1>8 DEF AliasTables
<1>10. Agree(p)
  <2> SUFFICES ASSUME NEW m \in Names, NEW x \in Addresses
               PROVE  m \in p.addr_to_alias[x] <=> p.aliases[m] # <<>> /\ Owner(p.aliases[m]) = x
    BY DEF Agree
  <2> QED BY <1>6, <1>7, <1>8
<1>11. PopAllowed(a, ai)
  BY <1>1, <1>3, <1>4 DEF PopAllowed, h
<1> QED BY <1>6, <1>9, <1>10, <1>11 DEF p, before, h

-----------------------------------------------------------------------------
(***************************************************************************)
(* Containers of the database.                                             *)
(***************************************************************************)

(* An array of the database with the elements of a sequence.               *)
Arr(s) == [k \in 0..(Len(s) - 1) |-> s[k + 1]]

(* A container as a record, with its cache in order.                       *)
IsContainer(c) ==
  /\ c = [db |-> c.db, data |-> c.data, recent |-> c.recent, size |-> c.size]
  /\ c.data = [k \in DOMAIN c.data |-> c.data[k]]
  /\ c.recent \in Seq(Int)
  /\ Len(c.recent) <= MaxElements
  /\ DOMAIN c.data \subseteq Range(c.recent)

(* What a container holds, whatever is cached of it.                       *)
Holds(c, s) ==
  /\ IsContainer(c)
  /\ c.db = Arr(s)
  /\ \A k \in DOMAIN c.data : k \in 0..(Len(s) - 1) /\ c.data[k] = s[k + 1]
  /\ c.size \in {NoSize, Len(s)}

(* A container with two of its fields replaced.                            *)
LEMMA Updated ==
  ASSUME NEW c, c = [db |-> c.db, data |-> c.data, recent |-> c.recent, size |-> c.size], NEW x, NEW y
  PROVE  /\ [c EXCEPT !.recent = x] = [db |-> c.db, data |-> c.data, recent |-> x, size |-> c.size]
         /\ [c EXCEPT !.size = x] = [db |-> c.db, data |-> c.data, recent |-> c.recent, size |-> x]
         /\ [c EXCEPT !.recent = x, !.data = y] = [db |-> c.db, data |-> y, recent |-> x, size |-> c.size]
         /\ [c EXCEPT !.db = x, !.size = y] = [db |-> x, data |-> c.data, recent |-> c.recent, size |-> y]
<1>1. PICK a, b, r, z : c = [db |-> a, data |-> b, recent |-> r, size |-> z]
  BY Zenon
<1>2. c.db = a /\ c.data = b /\ c.recent = r /\ c.size = z
  BY <1>1
<1> DEFINE d == [c EXCEPT !.recent = x]
           e == [c EXCEPT !.db = x]
<1>3. /\ d = [db |-> a, data |-> b, recent |-> x, size |-> z]
      /\ e = [db |-> x, data |-> b, recent |-> r, size |-> z]
      /\ [c EXCEPT !.size = x] = [db |-> a, data |-> b, recent |-> r, size |-> x]
  BY <1>1
<1>4. /\ [c EXCEPT !.recent = x, !.data = y] = [d EXCEPT !.data = y]
      /\ [c EXCEPT !.db = x, !.size = y] = [e EXCEPT !.size = y]
  BY Zenon
<1> HIDE DEF d, e
<1>5. [d EXCEPT !.data = y] = [db |-> a, data |-> y, recent |-> x, size |-> z]
  BY <1>3
<1>6. [e EXCEPT !.size = y] = [db |-> x, data |-> b, recent |-> r, size |-> y]
  BY <1>3
<1> QED BY <1>2, <1>3, <1>4, <1>5, <1>6 DEF d

(* The same, one by one.                                                   *)
LEMMA RecentUpdated ==
  ASSUME NEW c, c = [db |-> c.db, data |-> c.data, recent |-> c.recent, size |-> c.size], NEW x
  PROVE  [c EXCEPT !.recent = x] = [db |-> c.db, data |-> c.data, recent |-> x, size |-> c.size]
BY Updated, ZenonT(60)

LEMMA SizeUpdated ==
  ASSUME NEW c, c = [db |-> c.db, data |-> c.data, recent |-> c.recent, size |-> c.size], NEW x
  PROVE  [c EXCEPT !.size = x] = [db |-> c.db, data |-> c.data, recent |-> c.recent, size |-> x]
BY Updated, ZenonT(60)

LEMMA CacheUpdated ==
  ASSUME NEW c, c = [db |-> c.db, data |-> c.data, recent |-> c.recent, size |-> c.size], NEW x, NEW y
  PROVE  [c EXCEPT !.recent = x, !.data = y] = [db |-> c.db, data |-> y, recent |-> x, size |-> c.size]
BY Updated, ZenonT(60)

LEMMA ArrayUpdated ==
  ASSUME NEW c, c = [db |-> c.db, data |-> c.data, recent |-> c.recent, size |-> c.size], NEW x, NEW y
  PROVE  [c EXCEPT !.db = x, !.size = y] = [db |-> x, data |-> c.data, recent |-> c.recent, size |-> y]
BY Updated, ZenonT(60)

(* The sequence without its first k has all its other elements.            *)
LEMMA RemoveFirstKeeps ==
  ASSUME NEW s \in Seq(Int), NEW k \in Int
  PROVE  /\ RemoveFirst(s, k) \in Seq(Int)
         /\ Len(RemoveFirst(s, k)) = IF k \in Range(s) THEN Len(s) - 1 ELSE Len(s)
         /\ Range(s) \ {k} \subseteq Range(RemoveFirst(s, k))
<1>1. DOMAIN s = 1..Len(s) /\ Len(s) \in Nat
  OBVIOUS
<1>2. k \in Range(s) <=> \E i \in 1..Len(s) : s[i] = k
  BY <1>1 DEF Range
<1>3. CASE k \notin Range(s)
  BY <1>2, <1>3 DEF RemoveFirst
<1>4. CASE k \in Range(s)
  <2> DEFINE I == {i \in 1..Len(s) : s[i] = k}
             m == Min(I)
             t == RemoveAt(s, m)
  <2>1. I # {} /\ I \subseteq Nat
    BY <1>2, <1>4
  <2>2. \E x \in I : \A y \in I : x <= y
    <3> HIDE DEF I
    <3> QED BY <2>1, LeastNumber
  <2>3. m \in I /\ \A y \in I : m <= y
    <3> HIDE DEF I
    <3> QED BY <2>2 DEF Min
  <2>4. m \in 1..Len(s) /\ s[m] = k
    BY <2>3
  <2>5. RemoveFirst(s, k) = t
    BY <1>2, <1>4, <2>1 DEF RemoveFirst, SelectInSeq
  <2> HIDE DEF I, m
  <2> DEFINE u == SubSeq(s, 1, m - 1)
             v == SubSeq(s, m + 1, Len(s))
  <2>6. u \in Seq(Int) /\ Len(u) = m - 1 /\ \A i \in 1..(m - 1) : u[i] = s[i]
    BY <2>4
  <2>7. v \in Seq(Int) /\ Len(v) = Len(s) - m /\ \A i \in 1..(Len(s) - m) : v[i] = s[m + i]
    BY <2>4
  <2>8. t = u \o v
    BY DEF RemoveAt
  <2> HIDE DEF u, v, t
  <2>9. t \in Seq(Int) /\ Len(t) = Len(s) - 1 /\ DOMAIN t = 1..Len(t)
    <3>1. t \in Seq(Int) /\ Len(t) = Len(u) + Len(v)
      BY <2>6, <2>7, <2>8, ConcatProperties
    <3>2. Len(u) + Len(v) = Len(s) - 1
      BY <2>4, <2>6, <2>7, <1>1
    <3> QED BY <3>1, <3>2
  <2>10. \A i \in 1..(m - 1) : t[i] = s[i]
    <3> TAKE i \in 1..(m - 1)
    <3>1. i \in 1..Len(u)
      BY <2>6
    <3>2. t[i] = u[i]
      BY <3>1, <2>6, <2>7, <2>8
    <3> QED BY <3>2, <2>6
  <2>11. \A i \in (m + 1)..Len(s) : t[i - 1] = s[i]
    <3> TAKE i \in (m + 1)..Len(s)
    <3>1. i - m \in 1..(Len(s) - m) /\ i - 1 = Len(u) + (i - m) /\ i - 1 > Len(u)
      BY <2>4, <2>6
    <3>2. Len(u) \in Nat /\ Len(v) \in Nat /\ i - 1 \in (Len(u) + 1)..(Len(u) + Len(v))
      BY <3>1, <2>4, <2>6, <2>7
    <3>3. t[i - 1] = v[(i - 1) - Len(u)]
      <4>1. u \in Seq(Int) /\ v \in Seq(Int)
        BY <2>6, <2>7
      <4>2. i - 1 \in 1..(Len(u) + Len(v)) /\ ~(i - 1 <= Len(u))
        BY <3>2
      <4> QED BY <4>1, <4>2, <2>8, ConcatProperties
    <3>4. (i - 1) - Len(u) = i - m /\ m + (i - m) = i
      BY <2>4, <2>6
    <3> QED BY <3>1, <3>3, <3>4, <2>7
  <2>12. ASSUME NEW x \in Range(s) \ {k} PROVE x \in Range(t)
    <3>1. PICK i \in 1..Len(s) : s[i] = x
      BY <1>1 DEF Range
    <3>2. i # m
      BY <3>1, <2>4
    <3>3. CASE i < m
      <4>1. i \in 1..(m - 1) /\ i \in 1..Len(t)
        BY <3>3, <2>4, <2>9
      <4> QED BY <4>1, <3>1, <2>9, <2>10 DEF Range
    <3>4. CASE i > m
      <4>1. i \in (m + 1)..Len(s) /\ i - 1 \in 1..Len(t)
        BY <3>4, <2>4, <2>9
      <4> QED BY <4>1, <3>1, <2>9, <2>11 DEF Range
    <3> QED BY <3>2, <3>3, <3>4, <2>4
  <2> QED BY <2>5, <2>9, <2>12, <1>4
<1> QED BY <1>3, <1>4

(* What a node put at the front of most_recet_acessed does to it.          *)
LEMMA Prepended ==
  ASSUME NEW s \in Seq(Int), NEW k \in Int
  PROVE  /\ <<k>> \o s \in Seq(Int)
         /\ Len(<<k>> \o s) = Len(s) + 1
         /\ Range(<<k>> \o s) = Range(s) \cup {k}
<1> DEFINE t == <<k>> \o s
<1>1. t \in Seq(Int) /\ Len(t) = Len(s) + 1 /\ t[1] = k
  OBVIOUS
<1>2. \A i \in 1..Len(s) : t[i + 1] = s[i]
  OBVIOUS
<1>3. DOMAIN s = 1..Len(s) /\ DOMAIN t = 1..(Len(s) + 1) /\ Len(s) \in Nat
  BY <1>1
<1> HIDE DEF t
<1>4. \A x \in Range(t) : x \in Range(s) \cup {k}
  <2> TAKE x \in Range(t)
  <2>1. PICK i \in 1..(Len(s) + 1) : t[i] = x
    BY <1>3 DEF Range
  <2>2. CASE i = 1
    BY <2>1, <2>2, <1>1
  <2>3. CASE i # 1
    <3>1. i - 1 \in 1..Len(s) /\ t[(i - 1) + 1] = s[i - 1]
      BY <2>3, <1>2, <1>3
    <3>2. x = s[i - 1]
      BY <3>1, <2>1
    <3> QED BY <3>1, <3>2, <1>3 DEF Range
  <2> QED BY <2>2, <2>3
<1>5. \A x \in Range(s) \cup {k} : x \in Range(t)
  <2>1. k \in Range(t)
    BY <1>1, <1>3 DEF Range
  <2>2. ASSUME NEW x \in Range(s) PROVE x \in Range(t)
    <3>1. PICK i \in 1..Len(s) : s[i] = x
      BY <1>3 DEF Range
    <3>2. i + 1 \in 1..(Len(s) + 1) /\ t[i + 1] = x
      BY <3>1, <1>2, <1>3
    <3> QED BY <3>2, <1>3 DEF Range
  <2> QED BY <2>1, <2>2
<1> QED BY <1>1, <1>4, <1>5 DEF t

(* ... and the loss of the last one.                                       *)
LEMMA Fronted ==
  ASSUME NEW s \in Seq(Int), s # <<>>
  PROVE  /\ Front(s) \in Seq(Int)
         /\ Len(Front(s)) = Len(s) - 1
         /\ Last(s) \in Int
         /\ Range(s) \ {Last(s)} \subseteq Range(Front(s))
<1>1. Len(s) \in Nat /\ Len(s) > 0 /\ DOMAIN s = 1..Len(s)
  OBVIOUS
<1> DEFINE f == Front(s)
<1>2. f \in Seq(Int) /\ Len(f) = Len(s) - 1 /\ \A i \in 1..(Len(s) - 1) : f[i] = s[i]
  BY <1>1 DEF Front
<1>3. DOMAIN f = 1..(Len(s) - 1)
  BY <1>2
<1> HIDE DEF f
<1>4. ASSUME NEW x \in Range(s) \ {Last(s)} PROVE x \in Range(f)
  <2>1. PICK i \in 1..Len(s) : s[i] = x
    BY <1>1 DEF Range
  <2>2. i # Len(s)
    BY <2>1 DEF Last
  <2>3. i \in 1..(Len(s) - 1)
    <3>1. Len(s) \in Nat
      OBVIOUS
    <3> QED BY <3>1, <2>2
  <2> QED BY <2>1, <2>3, <1>2, <1>3 DEF Range
<1>5. Last(s) \in Int
  BY <1>1 DEF Last
<1> QED BY <1>2, <1>4, <1>5 DEF f
-----------------------------------------------------------------------------
(***************************************************************************)
(* cache_base: every operation leaves a value with a node for it, and no   *)
(* value it was not given.                                                 *)
(***************************************************************************)
LEMMA SetCached ==
  ASSUME NEW c, IsContainer(c), NEW k \in Int, NEW v
  PROVE  /\ IsContainer(CacheSet(c, k, v))
         /\ CacheSet(c, k, v).db = c.db /\ CacheSet(c, k, v).size = c.size
         /\ \A i \in DOMAIN CacheSet(c, k, v).data :
              IF i = k THEN CacheSet(c, k, v).data[i] = v
              ELSE i \in DOMAIN c.data /\ CacheSet(c, k, v).data[i] = c.data[i]
<1> DEFINE d == [c EXCEPT !.recent = <<k>> \o @, !.data = With(@, k, v)]
           e == trim(d)
<1>1. /\ c.recent \in Seq(Int) /\ Len(c.recent) <= MaxElements
      /\ DOMAIN c.data \subseteq Range(c.recent)
      /\ c = [db |-> c.db, data |-> c.data, recent |-> c.recent, size |-> c.size]
  BY DEF IsContainer
<1>2. d = [db |-> c.db, data |-> With(c.data, k, v), recent |-> <<k>> \o c.recent, size |-> c.size]
  BY <1>1, CacheUpdated, ZenonT(60)
<1>3. /\ DOMAIN d.data = DOMAIN c.data \cup {k}
      /\ \A i \in DOMAIN d.data : d.data[i] = IF i = k THEN v ELSE c.data[i]
      /\ d.data = [i \in DOMAIN d.data |-> d.data[i]]
  BY <1>2 DEF With
<1>4. /\ d.recent \in Seq(Int) /\ Len(d.recent) = Len(c.recent) + 1
      /\ DOMAIN d.data \subseteq Range(d.recent)
  BY <1>1, <1>2, <1>3, Prepended
<1>5. d.db = c.db /\ d.size = c.size
      /\ d = [db |-> d.db, data |-> d.data, recent |-> d.recent, size |-> d.size]
  BY <1>2
<1>6. CacheSet(c, k, v) = e
  BY DEF CacheSet
<1> HIDE DEF d
<1>7. CASE Len(d.recent) <= MaxElements
  <2>1. Len(d.recent) \in Nat /\ ~(Len(d.recent) > MaxElements)
    BY <1>4, <1>7, MaxElementsAssumption
  <2>2. e = d
    BY <2>1 DEF trim
  <2>3. IsContainer(d)
    BY <1>3, <1>4, <1>5, <1>7 DEF IsContainer
  <2>4. \A i \in DOMAIN d.data : IF i = k THEN d.data[i] = v ELSE i \in DOMAIN c.data /\ d.data[i] = c.data[i]
    BY <1>3
  <2> HIDE DEF e
  <2> QED BY <2>2, <2>3, <2>4, <1>5, <1>6
<1>8. CASE ~(Len(d.recent) <= MaxElements)
  <2> DEFINE g == Without(d.data, Last(d.recent))
  <2>1. Len(d.recent) > MaxElements /\ Len(d.recent) = MaxElements + 1 /\ d.recent # <<>>
    BY <1>1, <1>4, <1>8, MaxElementsAssumption
  <2>2. e = [db |-> d.db, data |-> g, recent |-> Front(d.recent), size |-> d.size]
    BY <2>1, <1>5 DEF trim
  <2>3. /\ Front(d.recent) \in Seq(Int) /\ Len(Front(d.recent)) = MaxElements
        /\ Range(d.recent) \ {Last(d.recent)} \subseteq Range(Front(d.recent))
    BY <2>1, <1>4, Fronted, MaxElementsAssumption
  <2>4. /\ DOMAIN g = DOMAIN d.data \ {Last(d.recent)}
        /\ \A i \in DOMAIN g : g[i] = d.data[i]
        /\ g = [i \in DOMAIN g |-> g[i]]
    BY DEF Without, Restrict
  <2> HIDE DEF g, e
  <2>5. /\ e.db = c.db /\ e.size = c.size /\ e.data = g /\ e.recent = Front(d.recent)
        /\ e = [db |-> e.db, data |-> e.data, recent |-> e.recent, size |-> e.size]
    BY <2>2, <1>5
  <2>6. DOMAIN e.data \subseteq Range(e.recent)
    BY <2>3, <2>4, <2>5, <1>4
  <2>7. IsContainer(e)
    BY <2>3, <2>4, <2>5, <2>6, MaxElementsAssumption DEF IsContainer
  <2>8. \A i \in DOMAIN e.data : IF i = k THEN e.data[i] = v ELSE i \in DOMAIN c.data /\ e.data[i] = c.data[i]
    BY <2>4, <2>5, <1>3
  <2> QED BY <2>5, <2>7, <2>8, <1>6
<1> QED BY <1>7, <1>8

LEMMA EraseCached ==
  ASSUME NEW c, IsContainer(c), NEW k \in Int
  PROVE  /\ IsContainer(CacheErase(c, k))
         /\ CacheErase(c, k).db = c.db /\ CacheErase(c, k).size = c.size
         /\ \A i \in DOMAIN CacheErase(c, k).data :
              i # k /\ i \in DOMAIN c.data /\ CacheErase(c, k).data[i] = c.data[i]
<1> DEFINE g == Without(c.data, k)
           d == [c EXCEPT !.recent = RemoveFirst(@, k), !.data = Without(@, k)]
<1>1. /\ c.recent \in Seq(Int) /\ Len(c.recent) <= MaxElements
      /\ DOMAIN c.data \subseteq Range(c.recent)
      /\ c = [db |-> c.db, data |-> c.data, recent |-> c.recent, size |-> c.size]
  BY DEF IsContainer
<1>2. CASE k \notin DOMAIN c.data
  BY <1>2 DEF CacheErase
<1>3. CASE k \in DOMAIN c.data
  <2>1. CacheErase(c, k) = d
    BY <1>3 DEF CacheErase
  <2>2. d = [db |-> c.db, data |-> g, recent |-> RemoveFirst(c.recent, k), size |-> c.size]
    BY <1>1, CacheUpdated, ZenonT(60)
  <2>3. /\ DOMAIN g = DOMAIN c.data \ {k}
        /\ \A i \in DOMAIN g : g[i] = c.data[i]
        /\ g = [i \in DOMAIN g |-> g[i]]
    BY DEF Without, Restrict
  <2> HIDE DEF g, d
  <2>4. /\ RemoveFirst(c.recent, k) \in Seq(Int)
        /\ Len(RemoveFirst(c.recent, k)) <= Len(c.recent)
        /\ Range(c.recent) \ {k} \subseteq Range(RemoveFirst(c.recent, k))
    BY <1>1, RemoveFirstKeeps
  <2>5. /\ d.db = c.db /\ d.size = c.size /\ d.data = g /\ d.recent = RemoveFirst(c.recent, k)
        /\ d = [db |-> d.db, data |-> d.data, recent |-> d.recent, size |-> d.size]
    BY <2>2
  <2>6. Len(d.recent) <= MaxElements
    BY <2>4, <2>5, <1>1, MaxElementsAssumption
  <2>7. IsContainer(d)
    BY <2>3, <2>4, <2>5, <2>6, <1>1 DEF IsContainer
  <2> QED BY <2>1, <2>3, <2>5, <2>7
<1> QED BY <1>2, <1>3

LEMMA HitCached ==
  ASSUME NEW c, IsContainer(c), NEW k \in Int, k \in DOMAIN c.data
  PROVE  /\ IsContainer(CacheHit(c, k))
         /\ CacheHit(c, k).db = c.db /\ CacheHit(c, k).size = c.size /\ CacheHit(c, k).data = c.data
<1> DEFINE r == <<k>> \o RemoveFirst(c.recent, k)
           d == CacheHit(c, k)
<1>1. /\ c.recent \in Seq(Int) /\ Len(c.recent) <= MaxElements
      /\ DOMAIN c.data \subseteq Range(c.recent)
      /\ c = [db |-> c.db, data |-> c.data, recent |-> c.recent, size |-> c.size]
      /\ c.data = [i \in DOMAIN c.data |-> c.data[i]]
  BY DEF IsContainer
<1>2. /\ RemoveFirst(c.recent, k) \in Seq(Int)
      /\ Len(RemoveFirst(c.recent, k)) = Len(c.recent) - 1
      /\ Range(c.recent) \ {k} \subseteq Range(RemoveFirst(c.recent, k))
  BY <1>1, RemoveFirstKeeps
<1>3. r \in Seq(Int) /\ Len(r) = Len(c.recent) - 1 + 1 /\ Range(c.recent) \subseteq Range(r)
  BY <1>2, Prepended
<1>4. Len(r) <= MaxElements
  BY <1>1, <1>3, MaxElementsAssumption
<1>5. d = [db |-> c.db, data |-> c.data, recent |-> r, size |-> c.size]
  BY <1>1, RecentUpdated, ZenonT(60) DEF CacheHit
<1> HIDE DEF r, d
<1>6. /\ d.db = c.db /\ d.size = c.size /\ d.data = c.data /\ d.recent = r
      /\ d = [db |-> d.db, data |-> d.data, recent |-> d.recent, size |-> d.size]
  BY <1>5
<1>7. IsContainer(d)
  BY <1>1, <1>3, <1>4, <1>6 DEF IsContainer
<1> QED BY <1>6, <1>7 DEF d
-----------------------------------------------------------------------------
(* Arrays: keys 0..n-1.                                                    *)
LEMMA ArrKeys ==
  ASSUME NEW V, NEW s \in Seq(V)
  PROVE  /\ DOMAIN Arr(s) = 0..(Len(s) - 1)
         /\ \A k \in 0..(Len(s) - 1) : Arr(s)[k] = s[k + 1] /\ s[k + 1] \in V
         /\ Cardinality(DOMAIN Arr(s)) = Len(s)
<1>1. Len(s) \in Nat
  OBVIOUS
<1>2. DOMAIN Arr(s) = 0..(Len(s) - 1) /\ \A k \in 0..(Len(s) - 1) : Arr(s)[k] = s[k + 1]
  BY DEF Arr
<1>3. \A k \in 0..(Len(s) - 1) : k + 1 \in 1..Len(s)
  BY <1>1
<1>4. Cardinality(0..(Len(s) - 1)) = Len(s)
  <2> DEFINE n == Len(s) - 1
  <2>1. 0 \in Int /\ n \in Int /\ Len(s) = (IF 0 > n THEN 0 ELSE n - 0 + 1)
    BY <1>1
  <2> HIDE DEF n
  <2>2. Cardinality(0..n) = IF 0 > n THEN 0 ELSE n - 0 + 1
    BY <2>1, FS_Interval
  <2> QED BY <2>1, <2>2 DEF n
<1> QED BY <1>2, <1>3, <1>4

LEMMA SizeHolds ==
  ASSUME NEW V, NEW s \in Seq(V), NEW c, Holds(c, s)
  PROVE  size(c) = Len(s) /\ Holds(Sized(c), s) /\ Sized(c).size = Len(s)
<1>1. size(c) = Len(s)
  BY ArrKeys DEF Holds, size
<1>2. IsContainer(c) /\ c = [db |-> c.db, data |-> c.data, recent |-> c.recent, size |-> c.size]
  BY DEF Holds, IsContainer
<1> DEFINE d == Sized(c)
<1>3. d = [db |-> c.db, data |-> c.data, recent |-> c.recent, size |-> Len(s)]
  BY <1>1, <1>2, SizeUpdated, ZenonT(60) DEF Sized
<1> HIDE DEF d
<1>4. d.db = c.db /\ d.data = c.data /\ d.recent = c.recent /\ d.size = Len(s)
  BY <1>3
<1>5. d = [db |-> d.db, data |-> d.data, recent |-> d.recent, size |-> d.size]
  BY <1>3, <1>4
<1>6. IsContainer(d)
  BY <1>2, <1>4, <1>5 DEF IsContainer
<1>7. Holds(d, s)
  BY <1>4, <1>6 DEF Holds
<1> QED BY <1>1, <1>4, <1>7 DEF d

LEMMA GotHolds ==
  ASSUME NEW V, NEW s \in Seq(V), NEW c, Holds(c, s), NEW k \in Int
  PROVE  /\ Holds(Got(c, k), s)
         /\ k \in 0..(Len(s) - 1) => get(c, k) = s[k + 1]
<1>1. /\ IsContainer(c) /\ c.db = Arr(s) /\ c.size \in {NoSize, Len(s)}
      /\ \A i \in DOMAIN c.data : i \in 0..(Len(s) - 1) /\ c.data[i] = s[i + 1]
  BY DEF Holds
<1>2. /\ DOMAIN c.db = 0..(Len(s) - 1)
      /\ \A i \in 0..(Len(s) - 1) : c.db[i] = s[i + 1]
  BY <1>1, ArrKeys
<1>3. CASE k \in DOMAIN c.data
  <2>1. Got(c, k) = CacheHit(c, k) /\ get(c, k) = c.data[k]
    BY <1>3 DEF Got, get
  <2>2. /\ IsContainer(CacheHit(c, k)) /\ CacheHit(c, k).data = c.data
        /\ CacheHit(c, k).db = c.db /\ CacheHit(c, k).size = c.size
    BY <1>1, <1>3, HitCached
  <2> QED BY <2>1, <2>2, <1>1, <1>3 DEF Holds
<1>4. CASE k \notin DOMAIN c.data /\ k \in DOMAIN c.db
  <2> DEFINE d == CacheSet(c, k, c.db[k])
  <2>1. Got(c, k) = d /\ get(c, k) = c.db[k]
    BY <1>4 DEF Got, get
  <2>2. /\ IsContainer(d) /\ d.db = c.db /\ d.size = c.size
        /\ \A i \in DOMAIN d.data : IF i = k THEN d.data[i] = c.db[k]
                                    ELSE i \in DOMAIN c.data /\ d.data[i] = c.data[i]
    BY <1>1, SetCached
  <2> HIDE DEF d
  <2>3. \A i \in DOMAIN d.data : i \in 0..(Len(s) - 1) /\ d.data[i] = s[i + 1]
    BY <2>2, <1>1, <1>2, <1>4
  <2> QED BY <2>1, <2>2, <2>3, <1>1, <1>2 DEF Holds
<1>5. CASE k \notin DOMAIN c.data /\ k \notin DOMAIN c.db
  BY <1>2, <1>5 DEF Got
<1> QED BY <1>3, <1>4, <1>5

LEMMA BackHolds ==
  ASSUME NEW V, NEW s \in Seq(V), NEW c, Holds(c, s)
  PROVE  Holds(Backed(c), s) /\ (s # <<>> => back(c) = s[Len(s)])
<1>1. size(c) = Len(s) /\ Holds(Sized(c), s) /\ Len(s) \in Nat
  BY SizeHolds
<1>2. Holds(Backed(c), s)
  BY <1>1, GotHolds DEF Backed
<1>3. ASSUME s # <<>> PROVE back(c) = s[Len(s)]
  <2>1. Len(s) - 1 \in 0..(Len(s) - 1) /\ (Len(s) - 1) + 1 = Len(s)
    BY <1>1, <1>3
  <2>2. get(c, Len(s) - 1) = s[(Len(s) - 1) + 1]
    BY <2>1, GotHolds
  <2> QED BY <2>1, <2>2, <1>1 DEF back
<1> QED BY <1>2, <1>3

LEMMA SetHolds ==
  ASSUME NEW V, NEW s \in Seq(V), NEW c, Holds(c, s), NEW k \in 0..Len(s), NEW v, NEW t \in Seq(V),
         Len(t) = (IF k = Len(s) THEN Len(s) + 1 ELSE Len(s)),
         \A i \in 1..Len(t) : t[i] = IF i = k + 1 THEN v ELSE s[i]
  PROVE  Holds(set(c, k, v), t)
<1> DEFINE w == With(c.db, k, v)
           d == [c EXCEPT !.db = With(@, k, v), !.size = NoSize]
           e == CacheSet(d, k, v)
<1>1. /\ IsContainer(c) /\ c.db = Arr(s)
      /\ c = [db |-> c.db, data |-> c.data, recent |-> c.recent, size |-> c.size]
      /\ \A i \in DOMAIN c.data : i \in 0..(Len(s) - 1) /\ c.data[i] = s[i + 1]
  BY DEF Holds, IsContainer
<1>2. Len(s) \in Nat /\ Len(t) \in Nat /\ k \in Int
  OBVIOUS
<1>3. w = Arr(t)
  <2>1. DOMAIN w = 0..(Len(s) - 1) \cup {k}
    BY <1>1, ArrKeys DEF With
  <2>2. 0..(Len(s) - 1) \cup {k} = 0..(Len(t) - 1)
    BY <1>2
  <2>3. ASSUME NEW i \in 0..(Len(t) - 1) PROVE w[i] = Arr(t)[i]
    <3>1. i + 1 \in 1..Len(t) /\ Arr(t)[i] = t[i + 1]
      BY <1>2, ArrKeys
    <3>2. CASE i = k
      BY <3>1, <3>2, <2>1 DEF With
    <3>3. CASE i # k
      <4>1. i \in 0..(Len(s) - 1) /\ i + 1 # k + 1
        BY <3>3, <2>2, <1>2
      <4>2. w[i] = s[i + 1]
        BY <4>1, <3>3, <1>1, ArrKeys DEF With
      <4> QED BY <4>1, <4>2, <3>1
    <3> QED BY <3>2, <3>3
  <2>4. w = [i \in DOMAIN w |-> w[i]]
    BY DEF With
  <2> HIDE DEF w
  <2>5. Arr(t) = [i \in 0..(Len(t) - 1) |-> Arr(t)[i]]
    BY DEF Arr
  <2> QED BY <2>1, <2>2, <2>3, <2>4, <2>5
<1>4. d = [db |-> w, data |-> c.data, recent |-> c.recent, size |-> NoSize]
  <2>1. c = [db |-> c.db, data |-> c.data, recent |-> c.recent, size |-> c.size]
    BY <1>1
  <2> QED BY <2>1, ArrayUpdated, ZenonT(60)
<1> HIDE DEF w, d
<1>5. /\ d.db = w /\ d.data = c.data /\ d.recent = c.recent /\ d.size = NoSize
      /\ d = [db |-> d.db, data |-> d.data, recent |-> d.recent, size |-> d.size]
  BY <1>4
<1>6. IsContainer(d)
  BY <1>1, <1>5 DEF IsContainer
<1>7. /\ IsContainer(e) /\ e.db = w /\ e.size = NoSize
      /\ \A i \in DOMAIN e.data : IF i = k THEN e.data[i] = v
                                  ELSE i \in DOMAIN c.data /\ e.data[i] = c.data[i]
  BY <1>2, <1>5, <1>6, SetCached
<1> HIDE DEF e
<1>8. ASSUME NEW i \in DOMAIN e.data PROVE i \in 0..(Len(t) - 1) /\ e.data[i] = t[i + 1]
  <2>1. CASE i = k
    <3>1. k \in 0..(Len(t) - 1) /\ k + 1 \in 1..Len(t)
      BY <1>2
    <3> QED BY <3>1, <2>1, <1>7
  <2>2. CASE i # k
    <3>1. i \in 0..(Len(s) - 1) /\ e.data[i] = s[i + 1]
      BY <2>2, <1>1, <1>7
    <3>2. i \in 0..(Len(t) - 1) /\ i + 1 \in 1..Len(t) /\ i + 1 # k + 1
      BY <3>1, <2>2, <1>2
    <3> QED BY <3>1, <3>2
  <2> QED BY <2>1, <2>2
<1>9. Holds(e, t)
  BY <1>3, <1>7, <1>8 DEF Holds
<1> QED BY <1>9 DEF set, e, d

LEMMA PushHolds ==
  ASSUME NEW V, NEW s \in Seq(V), NEW c, Holds(c, s), NEW v \in V
  PROVE  Holds(push_back(c, v), Append(s, v))
<1>1. size(c) = Len(s) /\ Holds(Sized(c), s) /\ Len(s) \in 0..Len(s)
  BY SizeHolds
<1> DEFINE t == Append(s, v)
<1>2. t \in Seq(V) /\ Len(t) = Len(s) + 1
  OBVIOUS
<1>3. \A i \in 1..Len(t) : t[i] = IF i = Len(s) + 1 THEN v ELSE s[i]
  OBVIOUS
<1> HIDE DEF t
<1>4. Holds(set(Sized(c), Len(s), v), t)
  BY <1>1, <1>2, <1>3, SetHolds
<1> QED BY <1>1, <1>4 DEF push_back, t

(* pop_back, which does nothing to an empty array.                         *)
LEMMA PopHolds ==
  ASSUME NEW V, NEW s \in Seq(V), NEW c, Holds(c, s)
  PROVE  Holds(pop_back(c), IF s = <<>> THEN s ELSE Front(s))
<1> DEFINE t == IF s = <<>> THEN s ELSE Front(s)
           k == Len(s) - 1
           b == Sized(c)
           w == Without(b.db, k)
           d == [b EXCEPT !.db = Without(@, k), !.size = NoSize]
           e == CacheErase(d, k)
<1>1. size(c) = Len(s) /\ Holds(b, s) /\ Len(s) \in Nat /\ k \in Int
  BY SizeHolds
<1> HIDE DEF b
<1>2. /\ t \in Seq(V) /\ Len(t) = (IF s = <<>> THEN 0 ELSE Len(s) - 1)
      /\ \A i \in 1..Len(t) : t[i] = s[i]
  <2>1. CASE s = <<>>
    BY <2>1
  <2>2. CASE s # <<>>
    BY <2>2, <1>1 DEF Front
  <2> QED BY <2>1, <2>2
<1>3. s = <<>> <=> Len(s) = 0
  OBVIOUS
<1>4. 0..(Len(t) - 1) = 0..(Len(s) - 1) \ {k}
  BY <1>1, <1>2, <1>3
<1> HIDE DEF t
<1>5. /\ IsContainer(b) /\ b.db = Arr(s)
      /\ b = [db |-> b.db, data |-> b.data, recent |-> b.recent, size |-> b.size]
      /\ \A i \in DOMAIN b.data : i \in 0..(Len(s) - 1) /\ b.data[i] = s[i + 1]
  BY <1>1 DEF Holds, IsContainer
<1>6. w = Arr(t)
  <2>1. DOMAIN w = 0..(Len(t) - 1)
    BY <1>4, <1>5, ArrKeys DEF Without, Restrict
  <2>2. ASSUME NEW i \in 0..(Len(t) - 1) PROVE w[i] = Arr(t)[i]
    <3>1. i \in 0..(Len(s) - 1) /\ w[i] = s[i + 1]
      BY <1>4, <1>5, ArrKeys DEF Without, Restrict
    <3>2. i + 1 \in 1..Len(t) /\ Arr(t)[i] = t[i + 1]
      BY <1>2, ArrKeys
    <3> QED BY <3>1, <3>2, <1>2
  <2>3. w = [i \in DOMAIN w |-> w[i]] /\ Arr(t) = [i \in 0..(Len(t) - 1) |-> Arr(t)[i]]
    BY DEF Without, Restrict, Arr
  <2> HIDE DEF w
  <2> QED BY <2>1, <2>2, <2>3
<1>7. d = [db |-> w, data |-> b.data, recent |-> b.recent, size |-> NoSize]
  BY <1>5, ArrayUpdated, ZenonT(60)
<1> HIDE DEF w, d
<1>8. /\ d.db = w /\ d.data = b.data /\ d.recent = b.recent /\ d.size = NoSize
      /\ d = [db |-> d.db, data |-> d.data, recent |-> d.recent, size |-> d.size]
  BY <1>7
<1>9. IsContainer(d)
  BY <1>5, <1>8 DEF IsContainer
<1>10. /\ IsContainer(e) /\ e.db = w /\ e.size = NoSize
       /\ \A i \in DOMAIN e.data : i # k /\ i \in DOMAIN b.data /\ e.data[i] = b.data[i]
  BY <1>1, <1>8, <1>9, EraseCached
<1> HIDE DEF e
<1>11. ASSUME NEW i \in DOMAIN e.data PROVE i \in 0..(Len(t) - 1) /\ e.data[i] = t[i + 1]
  <2>1. i \in 0..(Len(s) - 1) /\ i # k /\ e.data[i] = s[i + 1]
    BY <1>5, <1>10
  <2>2. i \in 0..(Len(t) - 1)
    BY <2>1, <1>4
  <2>3. i + 1 \in 1..Len(t)
    BY <2>2, <1>2
  <2> QED BY <2>1, <2>2, <2>3, <1>2
<1>12. Holds(e, t)
  BY <1>6, <1>10, <1>11 DEF Holds
<1> QED BY <1>1, <1>12 DEF pop_back, erase, e, d, b, t
LEMMA OpenedHolds ==
  ASSUME NEW V, NEW s \in Seq(V)
  PROVE  Holds(Opened(Arr(s)), s)
<1> DEFINE c == Opened(Arr(s))
<1>1. c.db = Arr(s) /\ c.data = <<>> /\ c.recent = <<>> /\ c.size = NoSize
      /\ c = [db |-> c.db, data |-> c.data, recent |-> c.recent, size |-> c.size]
  BY DEF Opened
<1> HIDE DEF c
<1>2. <<>> \in Seq(Int) /\ Len(<<>>) <= MaxElements /\ DOMAIN <<>> = {}
  BY MaxElementsAssumption
<1>3. c.data = [k \in DOMAIN c.data |-> c.data[k]] /\ DOMAIN c.data = {}
  BY <1>1, <1>2
<1>4. IsContainer(c)
  BY <1>1, <1>2, <1>3 DEF IsContainer
<1>5. Holds(c, s)
  BY <1>1, <1>3, <1>4 DEF Holds
<1> QED BY <1>5 DEF c

LEMMA EmptyArr == Arr(<<>>) = <<>>
<1>1. Len(<<>>) = 0 /\ 0..(0 - 1) = {}
  OBVIOUS
<1>2. DOMAIN Arr(<<>>) = {} /\ Arr(<<>>) = [k \in {} |-> <<>>[k + 1]]
  BY <1>1 DEF Arr
<1> QED BY <1>2

LEMMA ClearHolds ==
  ASSUME NEW c, IsContainer(c)
  PROVE  Holds(clear(c), <<>>)
<1> DEFINE d == CacheCleared(c)
           e == clear(c)
<1>1. c = [db |-> c.db, data |-> c.data, recent |-> c.recent, size |-> c.size]
  BY DEF IsContainer
<1>2. d = [db |-> c.db, data |-> <<>>, recent |-> <<>>, size |-> c.size]
  BY <1>1, CacheUpdated, ZenonT(60) DEF CacheCleared
<1> HIDE DEF d
<1>3. d = [db |-> d.db, data |-> d.data, recent |-> d.recent, size |-> d.size]
      /\ d.data = <<>> /\ d.recent = <<>>
  BY <1>2
<1>4. e = [d EXCEPT !.db = <<>>, !.size = NoSize]
  BY DEF clear, d
<1>5. e = [db |-> <<>>, data |-> <<>>, recent |-> <<>>, size |-> NoSize]
  BY <1>3, <1>4, ArrayUpdated, ZenonT(60)
<1>6. e = Opened(Arr(<<>>))
  BY <1>5, EmptyArr DEF Opened
<1>7. <<>> \in Seq(Int)
  OBVIOUS
<1>8. Holds(Opened(Arr(<<>>)), <<>>)
  BY <1>7, OpenedHolds
<1> HIDE DEF e
<1> QED BY <1>6, <1>8 DEF e

(* The containers that hold a sequence over V, as a set.                   *)
Arrays(V) == UNION {[D -> V] : D \in SUBSET Int}
Containers(V) == [db : Arrays(V), data : Arrays(V), recent : Seq(Int), size : Int]
Held(V) == {c \in Containers(V) : \E s \in Seq(V) : Holds(c, s)}

LEMMA HoldsType ==
  ASSUME NEW V, NEW s \in Seq(V), NEW c, Holds(c, s)
  PROVE  c \in Held(V)
<1>1. /\ c = [db |-> c.db, data |-> c.data, recent |-> c.recent, size |-> c.size]
      /\ c.data = [k \in DOMAIN c.data |-> c.data[k]]
      /\ c.recent \in Seq(Int) /\ c.db = Arr(s) /\ c.size \in {NoSize, Len(s)}
      /\ \A k \in DOMAIN c.data : k \in 0..(Len(s) - 1) /\ c.data[k] = s[k + 1]
  BY DEF Holds, IsContainer
<1>2. c.size \in Int
  BY <1>1 DEF NoSize
<1>3. Arr(s) \in [0..(Len(s) - 1) -> V] /\ 0..(Len(s) - 1) \in SUBSET Int
  BY ArrKeys DEF Arr
<1>4. c.db \in Arrays(V)
  BY <1>1, <1>3 DEF Arrays
<1>5. c.data \in [DOMAIN c.data -> V] /\ DOMAIN c.data \in SUBSET Int
  <2>1. \A k \in DOMAIN c.data : c.data[k] \in V /\ k \in Int
    BY <1>1, ArrKeys
  <2> QED BY <2>1, <1>1
<1>6. c.data \in Arrays(V)
  BY <1>5 DEF Arrays
<1>7. c \in Containers(V)
  BY <1>1, <1>2, <1>4, <1>6 DEF Containers
<1> QED BY <1>7 DEF Held

-----------------------------------------------------------------------------
(***************************************************************************)
(* The loops over the scratchpad's container.                              *)
(***************************************************************************)
LEMMA AppendedHolds ==
  ASSUME NEW s \in Pad, NEW c, Holds(c, s), NEW b \in Blocks
  PROVE  Holds(Appended(c, b), s \o Entries(Addendum[b]))
<1> DEFINE add == Entries(Addendum[b])
           L == Len(add)
           V == Held(Hash)
           first == Sized(c)
           step == [x \in (1..L) \X V |-> push_back(x[2], add[x[1]])]
           Unfolds(f) == f = [n \in 0..L |-> IF n = 0 THEN first ELSE push_back(f[n - 1], add[n])]
<1>1. add \in Seq(Hash) /\ s \in Seq(Hash)
  BY AddendumAssumption DEF Entries, Hash, Pad
<1>2. L \in Nat /\ \A n \in 1..L : add[n] \in Hash
  BY <1>1
<1>3. Holds(first, s) /\ first \in V
  BY <1>1, SizeHolds, HoldsType
<1>4. \A n \in 1..L : \A v \in V : step[<<n, v>>] = push_back(v, add[n])
  OBVIOUS
<1>5. IsStep(step, L, V)
  <2> SUFFICES ASSUME NEW n \in 1..L, NEW v \in V PROVE push_back(v, add[n]) \in V
    BY <1>4 DEF IsStep
  <2>1. PICK t \in Seq(Hash) : Holds(v, t)
    BY DEF Held
  <2>2. Append(t, add[n]) \in Seq(Hash) /\ Holds(push_back(v, add[n]), Append(t, add[n]))
    BY <2>1, <1>2, PushHolds
  <2> QED BY <2>2, HoldsType
<1> HIDE DEF first, V, add, L, step
<1>6. PICK f : Iterates(f, L, V, first, step)
  BY <1>2, <1>3, <1>5, RecursionExists
<1>7. Unfolds(f)
  <2>1. f = [n \in 0..L |-> f[n]] /\ f[0] = first
    BY <1>6 DEF Iterates
  <2>2. \A n \in 0..L : n # 0 => n \in 1..L /\ n - 1 \in 0..L
    BY <1>2
  <2>3. \A n \in 0..L : n # 0 => f[n] = push_back(f[n - 1], add[n])
    BY <2>2, <1>4, <1>6 DEF Iterates
  <2>4. \A n \in 0..L : f[n] = IF n = 0 THEN first ELSE push_back(f[n - 1], add[n])
    BY <2>1, <2>3, Zenon
  <2> QED BY <2>1, <2>4, Zenon
<1>8. PICK g : Unfolds(g) /\ Appended(c, b) = g[L]
  BY <1>7, Zenon DEF Appended, first, add, L
<1>9. g[0] = first /\ \A n \in 1..L : g[n] = push_back(g[n - 1], add[n])
  <2>1. \A n \in 0..L : g[n] = IF n = 0 THEN first ELSE push_back(g[n - 1], add[n])
    BY <1>8
  <2>2. 0 \in 0..L /\ \A n \in 1..L : n \in 0..L /\ n # 0
    BY <1>2
  <2> QED BY <2>1, <2>2
<1> DEFINE S == {n \in 0..L : Holds(g[n], s \o SubSeq(add, 1, n))}
<1>10. 0 \in S
  <2>1. SubSeq(add, 1, 0) = <<>> /\ s \o <<>> = s
    BY <1>1
  <2>2. Holds(g[0], s \o SubSeq(add, 1, 0))
    BY <2>1, <1>3, <1>9
  <2>3. 0 \in 0..L
    BY <1>2
  <2> QED BY <2>2, <2>3, Zenon
<1>11. ASSUME NEW n \in 1..L, n - 1 \in S PROVE n \in S
  <2> DEFINE t == s \o SubSeq(add, 1, n - 1)
  <2>1. t \in Seq(Hash) /\ add[n] \in Hash /\ Holds(g[n - 1], t)
    <3>1. SubSeq(add, 1, n - 1) \in Seq(Hash)
      BY <1>1, <1>2 DEF L
    <3> QED BY <3>1, <1>1, <1>2, <1>11
  <2>2. Append(t, add[n]) = s \o SubSeq(add, 1, n)
    <3>1. SubSeq(add, 1, n) = Append(SubSeq(add, 1, n - 1), add[n])
      BY <1>1, <1>2 DEF L
    <3>2. SubSeq(add, 1, n - 1) \in Seq(Hash)
      BY <1>1, <1>2 DEF L
    <3> QED BY <3>1, <3>2, <1>1, <1>2
  <2> HIDE DEF t
  <2>3. Holds(push_back(g[n - 1], add[n]), Append(t, add[n]))
    BY <2>1, PushHolds
  <2> QED BY <2>2, <2>3, <1>2, <1>9
<1>12. \A n \in 0..L : n \in S
  <2> HIDE DEF S
  <2> QED BY <1>2, <1>10, <1>11, UpTo
<1>13. L \in 0..L /\ SubSeq(add, 1, L) = add
  BY <1>1, <1>2 DEF L
<1> QED BY <1>8, <1>12, <1>13 DEF add
(* Reading entries back changes the cache only.                            *)
LEMMA ReadBackHolds ==
  ASSUME NEW s \in Pad, NEW c, Holds(c, s), NEW from \in 0..Len(s)
  PROVE  Holds(ReadBack(c, from), s)
<1> DEFINE L == size(c) - from
           V == {v \in Held(Hash) : Holds(v, s)}
           first == Sized(c)
           step == [x \in (1..L) \X V |-> Got(x[2], from + x[1] - 1)]
           Unfolds(f) == f = [n \in 0..L |-> IF n = 0 THEN first ELSE Got(f[n - 1], from + n - 1)]
<1>1. s \in Seq(Hash)
  BY DEF Pad
<1>2. L \in Nat
  BY <1>1, SizeHolds
<1>3. first \in V
  BY <1>1, SizeHolds, HoldsType
<1>4. \A n \in 1..L : \A v \in V : step[<<n, v>>] = Got(v, from + n - 1)
  OBVIOUS
<1>5. IsStep(step, L, V)
  <2> SUFFICES ASSUME NEW n \in 1..L, NEW v \in V PROVE Got(v, from + n - 1) \in V
    BY <1>4 DEF IsStep
  <2>1. from + n - 1 \in Int
    BY <1>1, <1>2
  <2>2. Holds(Got(v, from + n - 1), s)
    BY <2>1, <1>1, GotHolds
  <2> QED BY <2>2, <1>1, HoldsType
<1> HIDE DEF first, V, L, step
<1>6. PICK f : Iterates(f, L, V, first, step)
  BY <1>2, <1>3, <1>5, RecursionExists
<1>7. Unfolds(f)
  <2>1. f = [n \in 0..L |-> f[n]] /\ f[0] = first
    BY <1>6 DEF Iterates
  <2>2. \A n \in 0..L : n # 0 => n \in 1..L /\ n - 1 \in 0..L
    BY <1>2
  <2>3. \A n \in 0..L : n # 0 => f[n] = Got(f[n - 1], from + n - 1)
    BY <2>2, <1>4, <1>6 DEF Iterates
  <2>4. \A n \in 0..L : f[n] = IF n = 0 THEN first ELSE Got(f[n - 1], from + n - 1)
    BY <2>1, <2>3, Zenon
  <2> QED BY <2>1, <2>4, Zenon
<1>8. PICK g : Unfolds(g) /\ ReadBack(c, from) = g[L]
  BY <1>7, Zenon DEF ReadBack, first, L
<1>9. g[0] = first /\ \A n \in 1..L : g[n] = Got(g[n - 1], from + n - 1)
  <2>1. \A n \in 0..L : g[n] = IF n = 0 THEN first ELSE Got(g[n - 1], from + n - 1)
    BY <1>8
  <2>2. 0 \in 0..L /\ \A n \in 1..L : n \in 0..L /\ n # 0
    BY <1>2
  <2> QED BY <2>1, <2>2
<1>10. \A n \in 0..L : g[n] \in V
  <2> DEFINE S == {n \in 0..L : g[n] \in V}
  <2>1. 0 \in S
    BY <1>2, <1>3, <1>9
  <2>2. ASSUME NEW n \in 1..L, n - 1 \in S PROVE n \in S
    <3>1. n \in 0..L /\ g[n - 1] \in V
      BY <2>2, <1>2
    <3>2. step[<<n, g[n - 1]>>] \in V
      BY <3>1, <1>5 DEF IsStep
    <3>3. g[n] \in V
      BY <3>1, <3>2, <1>4, <1>9
    <3> QED BY <3>1, <3>3
  <2>3. \A n \in 0..L : n \in S
    <3> HIDE DEF S
    <3> QED BY <1>2, <2>1, <2>2, UpTo
  <2> QED BY <2>3
<1>11. L \in 0..L
  BY <1>2
<1> QED BY <1>8, <1>10, <1>11 DEF V
(* One entry is read and written back with an element of the patch.        *)
LEMMA PatchOneHolds ==
  ASSUME NEW s \in Seq(Hash), NEW c, Holds(c, s), NEW i \in 0..(Len(s) - 1), NEW h \in Hash
  PROVE  Holds(PatchOne(c, i, h), [s EXCEPT ![i + 1] = xor_pod(s[i + 1], h)])
<1> DEFINE v == xor_pod(s[i + 1], h)
           t == [s EXCEPT ![i + 1] = v]
<1>1. Len(s) \in Nat /\ i \in Int /\ i + 1 \in 1..Len(s) /\ s[i + 1] \in Hash
  OBVIOUS
<1>2. v \in Hash
  BY <1>1, XorType
<1> HIDE DEF v
<1>3. t \in Seq(Hash) /\ Len(t) = Len(s) /\ \A k \in 1..Len(s) : t[k] = IF k = i + 1 THEN v ELSE s[k]
  BY <1>1, <1>2
<1>4. Holds(Got(c, i), s) /\ get(c, i) = s[i + 1]
  BY <1>1, GotHolds
<1> HIDE DEF t
<1>5. i \in 0..Len(s) /\ i # Len(s)
  BY <1>1
<1>6. Holds(set(Got(c, i), i, v), t)
  <2>1. Len(t) = (IF i = Len(s) THEN Len(s) + 1 ELSE Len(s))
    BY <1>3, <1>5
  <2> QED BY <2>1, <1>3, <1>4, <1>5, SetHolds
<1> QED BY <1>4, <1>6 DEF PatchOne, v, t

(* An index that no new entry chooses has no patch.                        *)
LEMMA NotPatched ==
  ASSUME NEW add \in Seq(Atoms), NEW start \in Nat, NEW i \in 0..(start - 1), i \notin PatchedIndexes(start, add)
  PROVE  PatchEntry(add, start, i) = {}
<1>1. start # 0
  OBVIOUS
<1>2. \A x \in Atoms : {j \in DOMAIN add : add[j] = x /\ x % start = i} = {}
  BY <1>1 DEF PatchedIndexes
<1>3. Cardinality({}) = 0 /\ 0 % 2 # 1
  BY FS_EmptySet
<1> QED BY <1>2, <1>3 DEF PatchEntry

(* A patch applied entry by entry.                                         *)
LEMMA PatchedHolds ==
  ASSUME NEW s \in Pad, NEW c, Holds(c, s), NEW start \in 0..Len(s), NEW add \in Seq(Atoms)
  PROVE  Holds(Patched(c, start, add), apply_scratchpad_patch(s, get_scratchpad_patch(start, add)))
<1> DEFINE L == start
           patch == get_scratchpad_patch(start, add)
           V == {v \in Held(Hash) : \E t \in Seq(Hash) : Len(t) = Len(s) /\ Holds(v, t)}
           first == c
           One(n, v) == IF n - 1 \in PatchedIndexes(start, add) THEN PatchOne(v, n - 1, patch[n - 1]) ELSE v
           step == [x \in (1..L) \X V |-> One(x[1], x[2])]
           Unfolds(f) == f = [n \in 0..L |-> IF n = 0 THEN first ELSE One(n, f[n - 1])]
<1>1. s \in Seq(Hash) /\ Len(s) \in Nat
  BY DEF Pad
<1>2. L \in Nat
  BY <1>1
<1>3. first \in V
  BY <1>1, HoldsType
<1>p. \A n \in 1..L : patch[n - 1] \in Hash /\ patch[n - 1] = PatchEntry(add, start, n - 1)
  BY <1>2, PatchEntryType DEF get_scratchpad_patch
<1>d. DOMAIN patch = 0..(L - 1)
  BY DEF get_scratchpad_patch
<1> HIDE DEF patch
<1>s. ASSUME NEW n \in 1..L, NEW v, NEW t \in Seq(Hash), Len(t) = Len(s), Holds(v, t)
      PROVE  LET u == [t EXCEPT ![n] = xor_pod(t[n], patch[n - 1])]
             IN  u \in Seq(Hash) /\ Len(u) = Len(s) /\ Holds(One(n, v), u)
  <2> DEFINE u == [t EXCEPT ![n] = xor_pod(t[n], patch[n - 1])]
  <2>1. n - 1 \in 0..(Len(t) - 1) /\ (n - 1) + 1 = n /\ n \in 1..Len(t) /\ t[n] \in Hash
    BY <1>1, <1>2, <1>s
  <2>2. u \in Seq(Hash) /\ Len(u) = Len(s)
    BY <2>1, <1>p, <1>s, XorType
  <2>3. CASE n - 1 \in PatchedIndexes(start, add)
    <3>1. Holds(PatchOne(v, n - 1, patch[n - 1]), [t EXCEPT ![(n - 1) + 1] = xor_pod(t[(n - 1) + 1], patch[n - 1])])
      BY <2>1, <1>p, <1>s, PatchOneHolds
    <3> QED BY <3>1, <2>1, <2>2, <2>3
  <2>4. CASE n - 1 \notin PatchedIndexes(start, add)
    <3>1. patch[n - 1] = {}
      <4>1. n - 1 \in 0..(start - 1) /\ start \in Nat
        BY <1>2
      <4> QED BY <4>1, <1>p, <2>4, NotPatched
    <3>2. xor_pod(t[n], {}) = t[n]
      BY DEF xor_pod
    <3>3. u = t
      BY <3>1, <3>2, <2>1
    <3> QED BY <3>3, <2>2, <2>4, <1>s
  <2> QED BY <2>3, <2>4
<1>4. \A n \in 1..L : \A v \in V : step[<<n, v>>] = One(n, v)
  OBVIOUS
<1>5. IsStep(step, L, V)
  <2> SUFFICES ASSUME NEW n \in 1..L, NEW v \in V PROVE One(n, v) \in V
    BY <1>4 DEF IsStep
  <2>1. PICK t \in Seq(Hash) : Len(t) = Len(s) /\ Holds(v, t)
    OBVIOUS
  <2> HIDE DEF One
  <2> QED BY <2>1, <1>s, HoldsType
<1> HIDE DEF first, V, L, step
<1>6. PICK f : Iterates(f, L, V, first, step)
  BY <1>2, <1>3, <1>5, RecursionExists
<1>7. Unfolds(f)
  <2> HIDE DEF One
  <2>1. f = [n \in 0..L |-> f[n]] /\ f[0] = first
    BY <1>6 DEF Iterates
  <2>2. \A n \in 0..L : n # 0 => n \in 1..L /\ n - 1 \in 0..L
    BY <1>2
  <2>3. \A n \in 0..L : n # 0 => f[n] = One(n, f[n - 1])
    BY <2>2, <1>4, <1>6 DEF Iterates
  <2>4. \A n \in 0..L : f[n] = IF n = 0 THEN first ELSE One(n, f[n - 1])
    BY <2>1, <2>3, Zenon
  <2> QED BY <2>1, <2>4, Zenon
<1>8. PICK g : Unfolds(g) /\ Patched(c, start, add) = g[L]
  BY <1>7, Zenon DEF Patched, first, L, patch
<1> HIDE DEF One
<1>9. g[0] = first /\ \A n \in 1..L : g[n] = One(n, g[n - 1])
  <2>1. \A n \in 0..L : g[n] = IF n = 0 THEN first ELSE One(n, g[n - 1])
    BY <1>8
  <2>2. 0 \in 0..L /\ \A n \in 1..L : n \in 0..L /\ n # 0
    BY <1>2
  <2> QED BY <2>1, <2>2
<1> DEFINE after(n) == [k \in 1..Len(s) |-> IF k <= n THEN xor_pod(s[k], patch[k - 1]) ELSE s[k]]
           S == {n \in 0..L : Holds(g[n], after(n))}
<1>10. \A n \in 0..L : after(n) \in Seq(Hash) /\ Len(after(n)) = Len(s)
  <2> TAKE n \in 0..L
  <2>1. \A k \in 1..Len(s) : k <= n => k \in 1..L
    BY <1>1, <1>2
  <2>2. \A k \in 1..Len(s) : (IF k <= n THEN xor_pod(s[k], patch[k - 1]) ELSE s[k]) \in Hash
    BY <2>1, <1>1, <1>p, XorType
  <2> QED BY <2>2, <1>1
<1>11. 0 \in S
  <2>1. after(0) = s
    BY <1>1
  <2>2. 0 \in 0..L /\ Holds(g[0], after(0))
    BY <2>1, <1>2, <1>9 DEF first
  <2> QED BY <2>2
<1>12. ASSUME NEW n \in 1..L, n - 1 \in S PROVE n \in S
  <2> DEFINE t == after(n - 1)
  <2>1. n - 1 \in 0..L /\ n \in 0..L /\ Holds(g[n - 1], t)
    BY <1>12, <1>2
  <2>2. t \in Seq(Hash) /\ Len(t) = Len(s)
    BY <2>1, <1>10
  <2>3. Holds(One(n, g[n - 1]), [t EXCEPT ![n] = xor_pod(t[n], patch[n - 1])])
    BY <2>1, <2>2, <1>s
  <2>4. [t EXCEPT ![n] = xor_pod(t[n], patch[n - 1])] = after(n)
    <3>1. t[n] = s[n] /\ n \in 1..Len(s)
      BY <1>1, <1>2 DEF L
    <3> DEFINE u == [t EXCEPT ![n] = xor_pod(t[n], patch[n - 1])]
    <3>2. u = [k \in 1..Len(s) |-> IF k = n THEN xor_pod(t[n], patch[n - 1]) ELSE t[k]]
      OBVIOUS
    <3>3. ASSUME NEW k \in 1..Len(s)
          PROVE  u[k] = after(n)[k]
      <4>1. u[k] = IF k = n THEN xor_pod(t[n], patch[n - 1]) ELSE t[k]
        BY <3>2
      <4>2. t[k] = IF k <= n - 1 THEN xor_pod(s[k], patch[k - 1]) ELSE s[k]
        OBVIOUS
      <4>3. after(n)[k] = IF k <= n THEN xor_pod(s[k], patch[k - 1]) ELSE s[k]
        OBVIOUS
      <4>4. n \in Int /\ k \in Int
        BY <1>1, <1>2
      <4> HIDE DEF u, t, after
      <4> QED BY <4>1, <4>2, <4>3, <4>4, <3>1
    <3> QED BY <3>2, <3>3
  <2>5. Holds(g[n], after(n))
    BY <2>3, <2>4, <1>9
  <2> QED BY <2>1, <2>5
<1>13. \A n \in 0..L : n \in S
  <2> HIDE DEF S
  <2> QED BY <1>2, <1>11, <1>12, UpTo
<1>14. after(L) = apply_scratchpad_patch(s, patch)
  <2>1. \A k \in 1..Len(s) : k <= L <=> k - 1 \in DOMAIN patch
    BY <1>1, <1>2, <1>d
  <2>2. DOMAIN s = 1..Len(s)
    BY <1>1
  <2> QED BY <2>1, <2>2 DEF apply_scratchpad_patch
<1>15. L \in 0..L
  BY <1>2
<1>16. Holds(g[L], after(L))
  BY <1>13, <1>15
<1> QED BY <1>8, <1>14, <1>16 DEF patch

(* Entries taken from the end one by one.                                  *)
LEMMA ResizedHolds ==
  ASSUME NEW s \in Pad, NEW c, Holds(c, s), NEW new_size \in 0..Len(s)
  PROVE  Holds(Resized(c, new_size), SubSeq(s, 1, new_size))
<1> DEFINE L == size(c) - new_size
           V == Held(Hash)
           first == Sized(c)
           step == [x \in (1..L) \X V |-> pop_back(x[2])]
           Unfolds(f) == f = [n \in 0..L |-> IF n = 0 THEN first ELSE pop_back(f[n - 1])]
<1>1. s \in Seq(Hash) /\ Len(s) \in Nat
  BY DEF Pad
<1>2. L \in Nat /\ L = Len(s) - new_size /\ new_size \in Nat
  BY <1>1, SizeHolds
<1>3. first \in V /\ Holds(first, s)
  BY <1>1, SizeHolds, HoldsType
<1>4. \A n \in 1..L : \A v \in V : step[<<n, v>>] = pop_back(v)
  OBVIOUS
<1>5. IsStep(step, L, V)
  <2> SUFFICES ASSUME NEW n \in 1..L, NEW v \in V PROVE pop_back(v) \in V
    BY <1>4 DEF IsStep
  <2>1. PICK t \in Seq(Hash) : Holds(v, t)
    BY DEF Held
  <2> DEFINE u == IF t = <<>> THEN t ELSE Front(t)
  <2>2. u \in Seq(Hash)
    BY DEF Front
  <2>3. Holds(pop_back(v), u)
    BY <2>1, PopHolds
  <2> HIDE DEF u
  <2> QED BY <2>2, <2>3, HoldsType
<1> HIDE DEF first, V, L, step
<1>6. PICK f : Iterates(f, L, V, first, step)
  BY <1>2, <1>3, <1>5, RecursionExists
<1>7. Unfolds(f)
  <2>1. f = [n \in 0..L |-> f[n]] /\ f[0] = first
    BY <1>6 DEF Iterates
  <2>2. \A n \in 0..L : n # 0 => n \in 1..L /\ n - 1 \in 0..L
    BY <1>2
  <2>3. \A n \in 0..L : n # 0 => f[n] = pop_back(f[n - 1])
    BY <2>2, <1>4, <1>6 DEF Iterates
  <2>4. \A n \in 0..L : f[n] = IF n = 0 THEN first ELSE pop_back(f[n - 1])
    BY <2>1, <2>3, Zenon
  <2> QED BY <2>1, <2>4, Zenon
<1>8. PICK g : Unfolds(g) /\ Resized(c, new_size) = g[L]
  BY <1>7, Zenon DEF Resized, first, L
<1>9. g[0] = first /\ \A n \in 1..L : g[n] = pop_back(g[n - 1])
  <2>1. \A n \in 0..L : g[n] = IF n = 0 THEN first ELSE pop_back(g[n - 1])
    BY <1>8
  <2>2. 0 \in 0..L /\ \A n \in 1..L : n \in 0..L /\ n # 0
    BY <1>2
  <2> QED BY <2>1, <2>2
<1> DEFINE S == {n \in 0..L : Holds(g[n], SubSeq(s, 1, Len(s) - n))}
<1>10. 0 \in S
  <2>1. SubSeq(s, 1, Len(s) - 0) = s
    BY <1>1
  <2>2. Holds(g[0], SubSeq(s, 1, Len(s) - 0))
    BY <2>1, <1>3, <1>9
  <2>3. 0 \in 0..L
    BY <1>2
  <2> QED BY <2>2, <2>3, Zenon
<1>11. ASSUME NEW n \in 1..L, n - 1 \in S PROVE n \in S
  <2> DEFINE t == SubSeq(s, 1, Len(s) - (n - 1))
             u == SubSeq(s, 1, Len(s) - n)
  <2>1. n \in 0..L /\ Holds(g[n - 1], t)
    BY <1>2, <1>11
  <2>2. t \in Seq(Hash) /\ t # <<>> /\ Front(t) = u
    <3>1. Len(s) - (n - 1) \in 1..Len(s)
      BY <1>1, <1>2
    <3>2. t \in Seq(Hash) /\ Len(t) = Len(s) - (n - 1)
      BY <3>1, <1>1
    <3>3. SubSeq(t, 1, Len(t) - 1) = u
      BY <3>1, <3>2, <1>1
    <3> HIDE DEF t, u
    <3> QED BY <3>1, <3>2, <3>3 DEF Front
  <2> HIDE DEF t, u
  <2>3. Holds(pop_back(g[n - 1]), u)
    BY <2>1, <2>2, PopHolds
  <2>4. Holds(g[n], u)
    BY <2>3, <1>9
  <2> QED BY <2>1, <2>4 DEF u
<1>12. \A n \in 0..L : n \in S
  <2> HIDE DEF S
  <2> QED BY <1>2, <1>10, <1>11, UpTo
<1>13. L \in 0..L /\ Len(s) - L = new_size
  BY <1>1, <1>2
<1> QED BY <1>8, <1>12, <1>13
(***************************************************************************)
(* The scratchpad in the database follows push_block_scratchpad_data and   *)
(* pop_block_scratchpad_data, through its accessor.                        *)
(***************************************************************************)
LEMMA PushPadHolds ==
  ASSUME NEW s \in Pad, NEW c, Holds(c, s), NEW b \in Blocks
  PROVE  Holds(PushPad(c, b), push_block_scratchpad_data(s, b))
<1> DEFINE add == Addendum[b]
           long == s \o Entries(add)
           d == Appended(c, b)
           e == IF size(c) = 0 THEN d ELSE ReadBack(d, size(c))
<1>1. add \in Seq(Atoms) /\ s \in Seq(Hash) /\ Entries(add) \in Seq(Hash)
  BY AddendumAssumption DEF Entries, Hash, Pad
<1>2. long \in Pad /\ Len(s) \in 0..Len(long)
  BY <1>1 DEF Pad
<1>3. size(c) = Len(s)
  BY <1>1, SizeHolds
<1>4. Holds(d, long)
  BY AppendedHolds
<1> HIDE DEF long, d
<1>5. Holds(e, long)
  BY <1>2, <1>3, <1>4, ReadBackHolds
<1> HIDE DEF e
<1>6. Holds(Patched(e, Len(s), add), apply_scratchpad_patch(long, get_scratchpad_patch(Len(s), add)))
  BY <1>1, <1>2, <1>5, PatchedHolds
<1> QED BY <1>3, <1>6 DEF PushPad, push_block_scratchpad_data, e, d, long

LEMMA PatchKeepsType ==
  ASSUME NEW s \in Pad, NEW start, NEW add
  PROVE  /\ apply_scratchpad_patch(s, get_scratchpad_patch(start, add)) \in Pad
         /\ Len(apply_scratchpad_patch(s, get_scratchpad_patch(start, add))) = Len(s)
<1> DEFINE patch == get_scratchpad_patch(start, add)
           t == apply_scratchpad_patch(s, patch)
<1>1. \A k \in DOMAIN patch : patch[k] \in Hash
  BY PatchEntryType DEF get_scratchpad_patch
<1>2. s \in Seq(Hash) /\ DOMAIN s = 1..Len(s) /\ Len(s) \in Nat /\ \A k \in DOMAIN s : s[k] \in Hash
  BY DEF Pad
<1> HIDE DEF patch
<1>3. t \in [1..Len(s) -> Hash]
  BY <1>1, <1>2, XorType DEF apply_scratchpad_patch
<1> HIDE DEF t
<1>4. t \in Seq(Hash) /\ Len(t) = Len(s)
  BY <1>2, <1>3
<1> QED BY <1>4 DEF t, patch, Pad

LEMMA PopPadHolds ==
  ASSUME NEW s \in Pad, NEW c, Holds(c, s), NEW b \in Blocks, Len(Addendum[b]) <= Len(s)
  PROVE  Holds(PopPad(c, b), pop_block_scratchpad_data(s, b))
<1> DEFINE add == Addendum[b]
           start == Len(s) - Len(add)
           t == apply_scratchpad_patch(s, get_scratchpad_patch(start, add))
<1>1. add \in Seq(Atoms) /\ s \in Seq(Hash) /\ Len(s) \in Nat /\ start \in 0..Len(s)
  BY AddendumAssumption DEF Pad
<1>2. size(c) = Len(s) /\ Holds(Sized(c), s)
  BY <1>1, SizeHolds
<1> HIDE DEF start
<1>3. Holds(Patched(Sized(c), start, add), t)
  BY <1>1, <1>2, PatchedHolds
<1>4. t \in Pad /\ Len(t) = Len(s)
  BY PatchKeepsType
<1> HIDE DEF t
<1>5. Holds(Resized(Patched(Sized(c), start, add), start), SubSeq(t, 1, start))
  BY <1>1, <1>3, <1>4, ResizedHolds
<1>6. SubSeq(t, 1, start) = resize(t, start)
  <2>1. t \in Seq(Hash) /\ start \in 0..Len(t)
    BY <1>1, <1>4 DEF Pad
  <2> QED BY <2>1 DEF resize
<1> QED BY <1>2, <1>5, <1>6 DEF PopPad, pop_block_scratchpad_data, start, t

-----------------------------------------------------------------------------
(* The equations of the scratchpad that a list of blocks makes.            *)
LEMMA PadOfUnfolds ==
  ASSUME NEW chain \in Seq(Blocks)
  PROVE  \E g : /\ PadOf(chain) = g[Len(chain)]
                /\ g \in [0..Len(chain) -> Pad]
                /\ g[0] = <<>>
                /\ \A n \in 1..Len(chain) : g[n] = push_block_scratchpad_data(g[n - 1], chain[n])
<1> DEFINE L == Len(chain)
           V == Pad
           first == <<>>
           step == [x \in (1..L) \X V |-> push_block_scratchpad_data(x[2], chain[x[1]])]
           Unfolds(f) == f = [n \in 0..L |-> IF n = 0 THEN first ELSE push_block_scratchpad_data(f[n - 1], chain[n])]
<1>2. L \in Nat /\ \A n \in 1..L : chain[n] \in Blocks
  OBVIOUS
<1>3. first \in V
  BY DEF Pad
<1>4. \A n \in 1..L : \A v \in V : step[<<n, v>>] = push_block_scratchpad_data(v, chain[n])
  OBVIOUS
<1>5. IsStep(step, L, V)
  BY <1>2, <1>4, PushType DEF IsStep
<1> HIDE DEF first, V, L, step
<1>6. PICK f : Iterates(f, L, V, first, step)
  BY <1>2, <1>3, <1>5, RecursionExists
<1>7. Unfolds(f)
  <2>1. f = [n \in 0..L |-> f[n]] /\ f[0] = first
    BY <1>6 DEF Iterates
  <2>2. \A n \in 0..L : n # 0 => n \in 1..L /\ n - 1 \in 0..L
    BY <1>2
  <2>3. \A n \in 0..L : n # 0 => f[n] = push_block_scratchpad_data(f[n - 1], chain[n])
    BY <2>2, <1>4, <1>6 DEF Iterates
  <2>4. \A n \in 0..L : f[n] = IF n = 0 THEN first ELSE push_block_scratchpad_data(f[n - 1], chain[n])
    BY <2>1, <2>3, Zenon
  <2> QED BY <2>1, <2>4, Zenon
<1>8. PICK g : Unfolds(g) /\ PadOf(chain) = g[L]
  BY <1>7, Zenon DEF PadOf, first, L
<1>9. g[0] = first /\ \A n \in 1..L : g[n] = push_block_scratchpad_data(g[n - 1], chain[n])
  <2>1. \A n \in 0..L : g[n] = IF n = 0 THEN first ELSE push_block_scratchpad_data(g[n - 1], chain[n])
    BY <1>8
  <2>2. 0 \in 0..L /\ \A n \in 1..L : n \in 0..L /\ n # 0
    BY <1>2
  <2> QED BY <2>1, <2>2
<1>10. \A n \in 0..L : g[n] \in V
  <2> DEFINE S == {n \in 0..L : g[n] \in V}
  <2>1. 0 \in S
    BY <1>2, <1>3, <1>9
  <2>2. ASSUME NEW n \in 1..L, n - 1 \in S PROVE n \in S
    <3>1. n \in 0..L /\ g[n - 1] \in V
      BY <2>2, <1>2
    <3>2. step[<<n, g[n - 1]>>] \in V
      BY <3>1, <1>5 DEF IsStep
    <3>3. g[n] \in V
      BY <3>1, <3>2, <1>4, <1>9
    <3> QED BY <3>1, <3>3
  <2>3. \A n \in 0..L : n \in S
    <3> HIDE DEF S
    <3> QED BY <1>2, <2>1, <2>2, UpTo
  <2> QED BY <2>3
<1>11. g \in [0..L -> V]
  BY <1>8, <1>10
<1> QED BY <1>8, <1>9, <1>11 DEF L, V, first

LEMMA PadOfType ==
  ASSUME NEW chain \in Seq(Blocks)
  PROVE  PadOf(chain) \in Pad
<1>1. PICK g : PadOf(chain) = g[Len(chain)] /\ g \in [0..Len(chain) -> Pad]
  BY PadOfUnfolds
<1>2. Len(chain) \in 0..Len(chain)
  OBVIOUS
<1> QED BY <1>1, <1>2

LEMMA PadOfEmpty == PadOf(<<>>) = <<>>
<1>1. <<>> \in Seq(Blocks) /\ Len(<<>>) = 0
  OBVIOUS
<1> QED BY <1>1, PadOfUnfolds

LEMMA PadOfAppend ==
  ASSUME NEW chain \in Seq(Blocks), NEW b \in Blocks
  PROVE  PadOf(Append(chain, b)) = push_block_scratchpad_data(PadOf(chain), b)
<1> DEFINE L == Len(chain)
           long == Append(chain, b)
<1>1. L \in Nat /\ long \in Seq(Blocks) /\ Len(long) = L + 1 /\ long[L + 1] = b
      /\ \A n \in 1..L : long[n] = chain[n]
  OBVIOUS
<1>2. PICK g : /\ PadOf(chain) = g[L] /\ g[0] = <<>>
               /\ \A n \in 1..L : g[n] = push_block_scratchpad_data(g[n - 1], chain[n])
  BY PadOfUnfolds
<1> HIDE DEF long
<1>3. PICK f : /\ PadOf(long) = f[L + 1] /\ f[0] = <<>>
               /\ \A n \in 1..(L + 1) : f[n] = push_block_scratchpad_data(f[n - 1], long[n])
  <2>1. PICK f : /\ PadOf(long) = f[Len(long)]
                 /\ f \in [0..Len(long) -> Pad]
                 /\ f[0] = <<>>
                 /\ \A n \in 1..Len(long) : f[n] = push_block_scratchpad_data(f[n - 1], long[n])
    BY <1>1, PadOfUnfolds
  <2> QED BY <1>1, <2>1
<1> HIDE DEF L
<1> DEFINE S == {n \in 0..L : f[n] = g[n]}
<1>4. 0 \in S
  BY <1>1, <1>2, <1>3
<1>5. ASSUME NEW n \in 1..L, n - 1 \in S PROVE n \in S
  <2>1. n \in 1..(L + 1) /\ n \in 0..L /\ f[n - 1] = g[n - 1]
    BY <1>1, <1>5
  <2>2. f[n] = g[n]
    BY <2>1, <1>1, <1>2, <1>3
  <2> QED BY <2>1, <2>2
<1>6. \A n \in 0..L : n \in S
  <2> HIDE DEF S
  <2> QED BY <1>1, <1>4, <1>5, UpTo
<1>7. f[L] = g[L]
  BY <1>1, <1>6
<1>8. f[L + 1] = push_block_scratchpad_data(f[L], b)
  <2>1. L + 1 \in 1..(L + 1) /\ (L + 1) - 1 = L
    BY <1>1
  <2> QED BY <2>1, <1>1, <1>3
<1> QED BY <1>2, <1>3, <1>7, <1>8 DEF long
-----------------------------------------------------------------------------
(***************************************************************************)
(* The chain behind the database.  Blocks with their offsets, the pad and  *)
(* the aliases that a list of blocks makes:                                *)
(***************************************************************************)
EntriesOf(chain) == [k \in 1..Len(chain) |-> BlockEntry(chain[k], Len(PadOf(SubSeq(chain, 1, k - 1))))]

About(n) == {b \in DOMAIN AliasOf : AliasOf[b].m_alias = n}
History(chain, n) ==
  LET about == OnlyIn(chain, About(n)) IN [k \in DOMAIN about |-> AliasOf[about[k]].m_address]

AliasesOf(a, chain) == a \in AliasTables /\ Agree(a) /\ \A n \in Names : a.aliases[n] = History(chain, n)

Stored(chain) ==
  /\ committed.blocks = Arr(EntriesOf(chain)) /\ committed.pad = Arr(PadOf(chain))
  /\ AliasesOf(committed.alias, chain)

Loaded(chain) ==
  /\ Holds(m_db_blocks, EntriesOf(chain)) /\ Holds(m_rdb_scratchpad, PadOf(chain))
  /\ m_scratchpad_cache = PadOf(chain)
  /\ AliasesOf(alias, chain)

Chains == Seq(Blocks) \ {<<>>}

(***************************************************************************)
(* The inductive invariant.  The file of the database is empty or that of  *)
(* some chain; what is in memory is that chain's or, in a transaction,     *)
(* some other's; and the cache file, which only a process that is down     *)
(* leaves, is a front part of that chain's pad.                            *)
(***************************************************************************)
DbInv ==
  /\ kills \in 0..MaxKills
  /\ pc = "down" => /\ m_db_blocks = Opened(<<>>) /\ m_rdb_scratchpad = Opened(<<>>)
                    /\ alias = NoAliases /\ m_scratchpad_cache = <<>>
  /\ \/ pc = "down" /\ committed = Empty /\ file = NoFile
     \/ \E disk \in Chains :
          /\ Stored(disk)
          /\ \/ pc = "down" /\ \E n \in 0..Len(PadOf(disk)) : file = SubSeq(PadOf(disk), 1, n)
             \/ pc = "ready" /\ file = NoFile /\ Loaded(disk)
             \/ pc = "tx" /\ file = NoFile /\ \E chain \in Chains : Loaded(chain)
(* A chain with one more block.                                            *)
LEMMA EntriesType ==
  ASSUME NEW chain \in Seq(Blocks)
  PROVE  EntriesOf(chain) \in Seq(BlockEntries) /\ Len(EntriesOf(chain)) = Len(chain)
<1>1. \A k \in 1..Len(chain) : SubSeq(chain, 1, k - 1) \in Seq(Blocks)
  OBVIOUS
<1>2. \A k \in 1..Len(chain) : Len(PadOf(SubSeq(chain, 1, k - 1))) \in Nat
  BY <1>1, PadOfType DEF Pad
<1>3. \A k \in 1..Len(chain) : BlockEntry(chain[k], Len(PadOf(SubSeq(chain, 1, k - 1)))) \in BlockEntries
  BY <1>2 DEF BlockEntry, BlockEntries
<1> QED BY <1>3 DEF EntriesOf

LEMMA EntriesAppend ==
  ASSUME NEW chain \in Seq(Blocks), NEW b \in Blocks
  PROVE  EntriesOf(Append(chain, b)) = Append(EntriesOf(chain), BlockEntry(b, Len(PadOf(chain))))
<1> DEFINE L == Len(chain)
           long == Append(chain, b)
           v == BlockEntry(b, Len(PadOf(chain)))
           old == EntriesOf(chain)
           new == EntriesOf(long)
<1>1. /\ L \in Nat /\ long \in Seq(Blocks) /\ Len(long) = L + 1 /\ long[L + 1] = b
      /\ \A n \in 1..L : long[n] = chain[n]
  OBVIOUS
<1>2. \A k \in 1..L : SubSeq(long, 1, k - 1) = SubSeq(chain, 1, k - 1)
  OBVIOUS
<1>3. SubSeq(long, 1, (L + 1) - 1) = chain
  OBVIOUS
<1>4. Len(old) = L /\ old \in Seq(BlockEntries) /\ Len(new) = L + 1 /\ new \in Seq(BlockEntries)
  BY <1>1, EntriesType
<1>5. \A k \in 1..L : new[k] = old[k]
  <2> TAKE k \in 1..L
  <2>1. k \in 1..Len(long) /\ k \in 1..Len(chain)
    BY <1>1
  <2>2. new[k] = BlockEntry(long[k], Len(PadOf(SubSeq(long, 1, k - 1))))
    BY <2>1 DEF EntriesOf
  <2>3. old[k] = BlockEntry(chain[k], Len(PadOf(SubSeq(chain, 1, k - 1))))
    BY <2>1 DEF EntriesOf
  <2> HIDE DEF long, L
  <2> QED BY <2>2, <2>3, <1>1, <1>2
<1>6. new[L + 1] = v
  <2>1. L + 1 \in 1..Len(long)
    BY <1>1
  <2>2. new[L + 1] = BlockEntry(long[L + 1], Len(PadOf(SubSeq(long, 1, (L + 1) - 1))))
    BY <2>1 DEF EntriesOf
  <2> HIDE DEF long, L
  <2> QED BY <2>2, <1>1, <1>3
<1> HIDE DEF L, long, v, old, new
<1>7. new = Append(old, v)
  <2> DEFINE w == Append(old, v)
  <2>0. v \in BlockEntries
    <3>1. L + 1 \in 1..Len(new)
      BY <1>1, <1>4
    <3> QED BY <3>1, <1>4, <1>6
  <2>1. w = [k \in 1..(L + 1) |-> IF k = L + 1 THEN v ELSE old[k]]
    <3>1. w \in Seq(BlockEntries) /\ Len(w) = L + 1 /\ w[L + 1] = v /\ \A k \in 1..L : w[k] = old[k]
      BY <2>0, <1>4, AppendProperties
    <3> HIDE DEF w
    <3>2. w = [k \in 1..(L + 1) |-> w[k]]
      BY <3>1
    <3>3. \A k \in 1..(L + 1) : k = L + 1 \/ k \in 1..L
      BY <1>1
    <3> QED BY <3>1, <3>2, <3>3
  <2>2. new = [k \in 1..(L + 1) |-> new[k]]
    BY <1>4, <1>1
  <2>3. \A k \in 1..(L + 1) : k = L + 1 \/ k \in 1..L
    BY <1>1
  <2>4. \A k \in 1..(L + 1) : new[k] = IF k = L + 1 THEN v ELSE old[k]
    BY <2>3, <1>5, <1>6
  <2> HIDE DEF w
  <2> QED BY <2>1, <2>2, <2>4 DEF w
<1> QED BY <1>7 DEF new, old, v, long

LEMMA HistoryType ==
  ASSUME NEW chain \in Seq(Blocks), NEW n \in Names
  PROVE  History(chain, n) \in Seq(Addresses)
<1> DEFINE about == OnlyIn(chain, About(n))
<1>1. /\ about \in Seq(Blocks)
      /\ \E e \in [1..Len(about) -> 1..Len(chain)] :
           \A j \in 1..Len(about) : about[j] = chain[e[j]] /\ chain[e[j]] \in About(n)
  BY OnlyInPlaces
<1>2. \A j \in 1..Len(about) : about[j] \in DOMAIN AliasOf
  BY <1>1 DEF About
<1>3. \A b \in DOMAIN AliasOf : AliasOf[b].m_address \in Addresses
  BY AliasOfAssumption DEF AliasInfo
<1>4. DOMAIN about = 1..Len(about) /\ Len(about) \in Nat
  BY <1>1
<1> HIDE DEF about
<1>5. [k \in DOMAIN about |-> AliasOf[about[k]].m_address] \in Seq(Addresses)
  BY <1>2, <1>3, <1>4
<1> QED BY <1>5 DEF History, about

LEMMA HistoryAppend ==
  ASSUME NEW chain \in Seq(Blocks), NEW b \in Blocks, NEW n \in Names
  PROVE  History(Append(chain, b), n) =
           IF b \in About(n) THEN Append(History(chain, n), AliasOf[b].m_address) ELSE History(chain, n)
<1> DEFINE about == OnlyIn(chain, About(n))
           longer == OnlyIn(Append(chain, b), About(n))
           F(s) == [k \in DOMAIN s |-> AliasOf[s[k]].m_address]
<1>1. longer = IF b \in About(n) THEN Append(about, b) ELSE about
  BY OnlyInAppend
<1>2. about \in Seq(Blocks)
  BY OnlyInPlaces
<1> HIDE DEF about, longer
<1>3. F(Append(about, b)) = Append(F(about), AliasOf[b].m_address)
  <2> DEFINE L == Len(about)
             long == Append(about, b)
             w == Append(F(about), AliasOf[b].m_address)
  <2>1. /\ L \in Nat /\ DOMAIN long = 1..(L + 1) /\ long[L + 1] = b
        /\ \A k \in 1..L : long[k] = about[k]
    BY <1>2
  <2>2. F(about) = [k \in 1..L |-> AliasOf[about[k]].m_address]
    BY <1>2
  <2>3. w = [k \in 1..(L + 1) |-> IF k = L + 1 THEN AliasOf[b].m_address ELSE AliasOf[about[k]].m_address]
    BY <2>1, <2>2
  <2>4. \A k \in 1..(L + 1) : k = L + 1 \/ k \in 1..L
    BY <2>1
  <2> HIDE DEF L, long
  <2>5. \A k \in 1..(L + 1) :
          AliasOf[long[k]].m_address = IF k = L + 1 THEN AliasOf[b].m_address ELSE AliasOf[about[k]].m_address
    BY <2>1, <2>4
  <2>6. F(long) = [k \in 1..(L + 1) |-> AliasOf[long[k]].m_address]
    BY <2>1
  <2> HIDE DEF w, F
  <2> QED BY <2>3, <2>5, <2>6 DEF w, long
<1> QED BY <1>1, <1>3 DEF History, about, longer

(* Before the first block.                                                 *)
LEMMA EmptyChain ==
  /\ <<>> \in Seq(Blocks) /\ PadOf(<<>>) = <<>> /\ EntriesOf(<<>>) = <<>>
  /\ \A n \in Names : History(<<>>, n) = <<>>
  /\ AliasesOf(NoAliases, <<>>)
<1>1. <<>> \in Seq(Blocks) /\ Len(<<>>) = 0
  OBVIOUS
<1>2. EntriesOf(<<>>) = <<>>
  BY <1>1 DEF EntriesOf
<1>3. ASSUME NEW n \in Names PROVE History(<<>>, n) = <<>>
  <2>1. OnlyIn(<<>>, About(n)) = <<>>
    BY <1>1, OnlyInEmpty
  <2> QED BY <2>1 DEF History
<1>4. NoAliases \in AliasTables /\ Agree(NoAliases)
  BY DEF NoAliases, AliasTables, Agree
<1>5. \A n \in Names : NoAliases.aliases[n] = <<>>
  BY DEF NoAliases
<1> QED BY <1>1, <1>2, <1>3, <1>4, <1>5, PadOfEmpty DEF AliasesOf

(* A chain is its front and its top block.                                 *)
LEMMA FrontAndTop ==
  ASSUME NEW chain \in Chains
  PROVE  /\ chain \in Seq(Blocks) /\ chain[Len(chain)] \in Blocks /\ Len(chain) \in Nat \ {0}
         /\ SubSeq(chain, 1, Len(chain) - 1) \in Seq(Blocks)
         /\ Len(SubSeq(chain, 1, Len(chain) - 1)) = Len(chain) - 1
         /\ chain = Append(SubSeq(chain, 1, Len(chain) - 1), chain[Len(chain)])
<1>1. chain \in Seq(Blocks) /\ chain # <<>>
  BY DEF Chains
<1>2. Len(chain) \in Nat \ {0} /\ chain[Len(chain)] \in Blocks
  BY <1>1
<1> DEFINE n == Len(chain)
           front == SubSeq(chain, 1, n - 1)
<1>3. front \in Seq(Blocks) /\ Len(front) = n - 1 /\ \A k \in 1..(n - 1) : front[k] = chain[k]
  <2>1. n - 1 \in 0..n
    BY <1>2
  <2> QED BY <2>1, <1>1, FrontPart
<1>4. chain = Append(front, chain[n])
  <2> DEFINE w == Append(front, chain[n])
  <2> HIDE DEF front
  <2>1. w \in Seq(Blocks) /\ Len(w) = n /\ w[n] = chain[n] /\ \A k \in 1..(n - 1) : w[k] = chain[k]
    BY <1>2, <1>3
  <2>2. \A k \in 1..n : k = n \/ k \in 1..(n - 1)
    BY <1>2
  <2> HIDE DEF w
  <2>3. \A k \in 1..n : w[k] = chain[k]
    BY <2>1, <2>2
  <2>4. Len(w) = Len(chain)
    BY <2>1
  <2>5. w = chain
    BY <2>1, <2>3, <2>4, <1>1, SeqEqual
  <2> QED BY <2>5 DEF w
<1> QED BY <1>1, <1>2, <1>3, <1>4
(* The alias of one more block, and of one less.                           *)
LEMMA AliasPut ==
  ASSUME NEW chain \in Seq(Blocks), NEW b \in Blocks, NEW a, AliasesOf(a, chain)
  PROVE  AliasesOf(IF b \in DOMAIN AliasOf THEN put_alias_info(a, AliasOf[b]) ELSE a, Append(chain, b))
<1>1. a \in AliasTables /\ Agree(a) /\ \A n \in Names : a.aliases[n] = History(chain, n)
  BY DEF AliasesOf
<1>2. CASE b \in DOMAIN AliasOf
  <2> DEFINE ai == AliasOf[b]
             p == put_alias_info(a, ai)
  <2>1. ai \in AliasInfo
    BY <1>2, AliasOfAssumption
  <2>2. ai.m_alias \in Names
    BY <2>1 DEF AliasInfo
  <2>3. p \in AliasTables /\ Agree(p)
    BY <1>1, <2>1, PutKeepsAgreement
  <2>4. a.aliases \in [Names -> Seq(Addresses)]
    BY <1>1 DEF AliasTables
  <2>5. p.aliases = [a.aliases EXCEPT ![ai.m_alias] = Append(a.aliases[ai.m_alias], ai.m_address)]
    BY DEF put_alias_info
  <2>6. ASSUME NEW n \in Names PROVE p.aliases[n] = History(Append(chain, b), n)
    <3>1. b \in About(n) <=> ai.m_alias = n
      BY <1>2 DEF About
    <3>2. p.aliases[n] = IF n = ai.m_alias THEN Append(a.aliases[n], ai.m_address) ELSE a.aliases[n]
      BY <2>2, <2>4, <2>5
    <3> HIDE DEF ai, p
    <3> QED BY <3>1, <3>2, <1>1, HistoryAppend DEF ai
  <2> QED BY <1>2, <2>3, <2>6 DEF AliasesOf
<1>3. CASE b \notin DOMAIN AliasOf
  <2>1. \A n \in Names : b \notin About(n)
    BY <1>3 DEF About
  <2> QED BY <1>1, <1>3, <2>1, HistoryAppend DEF AliasesOf
<1> QED BY <1>2, <1>3

LEMMA AliasPop ==
  ASSUME NEW chain \in Seq(Blocks), NEW b \in Blocks, NEW a, AliasesOf(a, Append(chain, b))
  PROVE  /\ AliasesOf(IF b \in DOMAIN AliasOf THEN pop_alias_info(a, AliasOf[b]) ELSE a, chain)
         /\ b \in DOMAIN AliasOf => PopAllowed(a, AliasOf[b])
<1>1. a \in AliasTables /\ Agree(a) /\ \A n \in Names : a.aliases[n] = History(Append(chain, b), n)
  BY DEF AliasesOf
<1>2. CASE b \in DOMAIN AliasOf
  <2> DEFINE ai == AliasOf[b]
             m == ai.m_alias
             h == History(chain, m)
             p == pop_alias_info(a, ai)
  <2>1. ai \in AliasInfo
    BY <1>2, AliasOfAssumption
  <2>2. m \in Names /\ ai.m_address \in Addresses
    BY <2>1 DEF AliasInfo
  <2>3. a.aliases[m] = Append(h, ai.m_address)
    BY <1>1, <1>2, <2>2, HistoryAppend DEF About
  <2>4. h \in Seq(Addresses)
    BY <2>2, HistoryType
  <2> HIDE DEF h
  <2>5. a.aliases[m] # <<>> /\ SubSeq(a.aliases[m], 1, Len(a.aliases[m]) - 1) = h
    BY <2>2, <2>3, <2>4, AppendedHistory
  <2>6. /\ PopAllowed(a, ai) /\ p \in AliasTables /\ Agree(p)
        /\ p.aliases = [a.aliases EXCEPT ![m] = SubSeq(a.aliases[m], 1, Len(a.aliases[m]) - 1)]
    BY <1>1, <2>1, <2>5, PopKeepsAgreement
  <2>7. a.aliases \in [Names -> Seq(Addresses)]
    BY <1>1 DEF AliasTables
  <2>8. ASSUME NEW n \in Names PROVE p.aliases[n] = History(chain, n)
    <3>1. b \in About(n) <=> m = n
      BY <1>2 DEF About
    <3>2. p.aliases[n] = IF n = m THEN h ELSE a.aliases[n]
      BY <2>2, <2>5, <2>6, <2>7
    <3> HIDE DEF m, p
    <3> QED BY <3>1, <3>2, <1>1, HistoryAppend DEF h
  <2> QED BY <1>2, <2>6, <2>8 DEF AliasesOf
<1>3. CASE b \notin DOMAIN AliasOf
  <2>1. \A n \in Names : b \notin About(n)
    BY <1>3 DEF About
  <2> QED BY <1>1, <1>3, <2>1, HistoryAppend DEF AliasesOf
<1> QED BY <1>2, <1>3

LEMMA LoadedTypes ==
  ASSUME NEW chain \in Chains
  PROVE  /\ EntriesOf(chain) \in Seq(BlockEntries) /\ Len(EntriesOf(chain)) = Len(chain)
         /\ EntriesOf(chain) # <<>> /\ Len(chain) \in Nat \ {0}
         /\ PadOf(chain) \in Pad /\ PadOf(chain) \in Seq(Hash)
<1>1. chain \in Seq(Blocks) /\ Len(chain) \in Nat \ {0}
  BY FrontAndTop
<1>2. EntriesOf(chain) \in Seq(BlockEntries) /\ Len(EntriesOf(chain)) = Len(chain)
  BY <1>1, EntriesType
<1>3. EntriesOf(chain) # <<>>
  BY <1>1, <1>2
<1>4. PadOf(chain) \in Pad
  BY <1>1, PadOfType
<1> QED BY <1>1, <1>2, <1>3, <1>4 DEF Pad

-----------------------------------------------------------------------------
(* What a push and a pop do to a chain that is in memory.                  *)
LEMMA PushLoaded ==
  ASSUME NEW chain \in Chains, Loaded(chain), NEW b \in Blocks, PushBlock(b)
  PROVE  Append(chain, b) \in Chains /\ Loaded(Append(chain, b))'
<1> DEFINE long == Append(chain, b)
           v == BlockEntry(b, Len(PadOf(chain)))
<1>1. chain \in Seq(Blocks)
  BY FrontAndTop
<1>2. long \in Chains
  BY <1>1 DEF Chains
<1>3. EntriesOf(chain) \in Seq(BlockEntries) /\ PadOf(chain) \in Pad /\ PadOf(chain) \in Seq(Hash)
  BY LoadedTypes
<1>4. v \in BlockEntries
  BY <1>3 DEF BlockEntries, BlockEntry
<1>5. Holds(Backed(m_db_blocks), EntriesOf(chain))
  BY <1>3, BackHolds DEF Loaded
<1>6. Holds(push_back(Backed(m_db_blocks), v), EntriesOf(long))
  <2>1. Holds(push_back(Backed(m_db_blocks), v), Append(EntriesOf(chain), v))
    BY <1>3, <1>4, <1>5, PushHolds
  <2> QED BY <2>1, <1>1, EntriesAppend
<1>7. m_db_blocks' = push_back(Backed(m_db_blocks), v)
  BY DEF PushBlock, Loaded
<1>8. PadOf(long) = push_block_scratchpad_data(PadOf(chain), b)
  BY <1>1, PadOfAppend
<1>9. m_scratchpad_cache' = PadOf(long)
  BY <1>8 DEF PushBlock, Loaded
<1>10. Holds(m_rdb_scratchpad', PadOf(long))
  BY <1>3, <1>8, PushPadHolds DEF PushBlock, Loaded
<1>11. AliasesOf(alias', long)
  BY <1>1, AliasPut DEF PushBlock, process_blockchain_tx_extra, Loaded
<1> QED BY <1>2, <1>6, <1>7, <1>9, <1>10, <1>11 DEF Loaded

LEMMA PopLoaded ==
  ASSUME NEW chain \in Chains, Loaded(chain), pop_block_from_blockchain
  PROVE  \E front \in Chains : Loaded(front)'
<1> DEFINE L == Len(chain)
           front == SubSeq(chain, 1, L - 1)
           top == chain[L]
<1>1. /\ chain \in Seq(Blocks) /\ top \in Blocks /\ L \in Nat \ {0}
      /\ front \in Seq(Blocks) /\ Len(front) = L - 1 /\ chain = Append(front, top)
  BY FrontAndTop
<1>2. /\ EntriesOf(chain) \in Seq(BlockEntries) /\ Len(EntriesOf(chain)) = L /\ EntriesOf(chain) # <<>>
      /\ PadOf(chain) \in Pad /\ PadOf(chain) \in Seq(Hash)
  BY LoadedTypes
<1>3. Holds(m_db_blocks, EntriesOf(chain)) /\ Holds(m_rdb_scratchpad, PadOf(chain))
  BY DEF Loaded
<1>4. size(m_db_blocks) = L /\ back(m_db_blocks) = EntriesOf(chain)[L] /\ Holds(Backed(m_db_blocks), EntriesOf(chain))
  BY <1>2, <1>3, SizeHolds, BackHolds
<1> HIDE DEF front, L, top
<1>5. front \in Chains
  <2>1. L > 1
    BY <1>4 DEF pop_block_from_blockchain
  <2>2. front # <<>>
    BY <2>1, <1>1
  <2> QED BY <2>2, <1>1 DEF Chains
<1> DEFINE v == BlockEntry(top, Len(PadOf(front)))
<1>6. EntriesOf(chain) = Append(EntriesOf(front), v) /\ EntriesOf(front) \in Seq(BlockEntries) /\ Len(EntriesOf(front)) = L - 1
  BY <1>1, EntriesAppend, EntriesType
<1>7. PadOf(front) \in Pad /\ v \in BlockEntries
  <2>1. PadOf(front) \in Pad
    BY <1>1, PadOfType
  <2> QED BY <2>1, <1>1 DEF BlockEntries, BlockEntry, Pad
<1> HIDE DEF v
<1>8. EntriesOf(chain)[L] = v /\ Front(EntriesOf(chain)) = EntriesOf(front)
  <2> DEFINE s == EntriesOf(front)
  <2>1. s \in Seq(BlockEntries) /\ Len(s) = L - 1 /\ v \in BlockEntries
    BY <1>6, <1>7
  <2> HIDE DEF s
  <2>2. Append(s, v)[Len(s) + 1] = v /\ SubSeq(Append(s, v), 1, Len(Append(s, v)) - 1) = s
    BY <2>1
  <2>3. Len(s) + 1 = L
    BY <2>1, <1>1
  <2> QED BY <2>2, <2>3, <1>6 DEF s, Front
<1>9. back(m_db_blocks).bl = top
  BY <1>4, <1>8 DEF v, BlockEntry
<1>10. Holds(m_db_blocks', EntriesOf(front))
  <2> DEFINE c == pop_back(Backed(m_db_blocks))
  <2>1. Holds(c, EntriesOf(front))
    BY <1>2, <1>4, <1>8, PopHolds
  <2> HIDE DEF c
  <2>2. Holds(Backed(c), EntriesOf(front))
    BY <2>1, <1>6, BackHolds
  <2> QED BY <2>2 DEF c, pop_block_from_blockchain
<1>11. PadOf(chain) = push_block_scratchpad_data(PadOf(front), top)
  BY <1>1, PadOfAppend
<1>12. pop_block_scratchpad_data(PadOf(chain), top) = PadOf(front)
  BY <1>1, <1>7, <1>11, PopUndoesPush
<1>13. Len(Addendum[top]) <= Len(PadOf(chain))
  <2>1. Len(PadOf(chain)) = Len(PadOf(front)) + Len(Addendum[top])
    BY <1>1, <1>7, <1>11, PushType
  <2>2. Len(PadOf(front)) \in Nat /\ Len(Addendum[top]) \in Nat
    BY <1>1, <1>7, AddendumAssumption DEF Pad
  <2> QED BY <2>1, <2>2
<1>14. Holds(m_rdb_scratchpad', PadOf(front))
  <2>1. Holds(PopPad(m_rdb_scratchpad, top), PadOf(front))
    BY <1>1, <1>2, <1>3, <1>12, <1>13, PopPadHolds
  <2> QED BY <2>1, <1>9 DEF pop_block_from_blockchain
<1>15. m_scratchpad_cache' = PadOf(front)
  BY <1>9, <1>12 DEF pop_block_from_blockchain, Loaded
<1>16. AliasesOf(alias', front)
  <2>1. AliasesOf(alias, Append(front, top))
    BY <1>1 DEF Loaded
  <2>2. AliasesOf(IF top \in DOMAIN AliasOf THEN pop_alias_info(alias, AliasOf[top]) ELSE alias, front)
    BY <1>1, <2>1, AliasPop
  <2> QED BY <2>2, <1>9 DEF pop_block_from_blockchain, unprocess_blockchain_tx_extra
<1> QED BY <1>5, <1>10, <1>14, <1>15, <1>16 DEF Loaded
(* Start in front of an empty database: the chain is the genesis block.    *)
LEMMA StartEmpty ==
  ASSUME Start, committed = Empty, file = NoFile
  PROVE  <<Genesis>> \in Chains /\ Loaded(<<Genesis>>)' /\ Stored(<<Genesis>>)'
<1> DEFINE pad == Opened(committed.pad)
           blocks == Sized(Opened(committed.blocks))
           loaded == IF FileAccepted(pad) THEN Backed(pad) ELSE Sized(pad)
           chain == <<Genesis>>
           v == BlockEntry(Genesis, 0)
<1>1. Genesis \in Blocks
  BY GenesisAssumption
<1>2. <<>> \in Seq(Blocks) /\ chain = Append(<<>>, Genesis) /\ chain \in Chains
  BY <1>1 DEF Chains
<1>3. committed.pad = Arr(<<>>) /\ committed.blocks = Arr(<<>>)
  BY EmptyArr DEF Empty
<1>4. Holds(pad, <<>>) /\ Holds(Opened(committed.blocks), <<>>)
  <2>1. <<>> \in Seq(Hash)
    OBVIOUS
  <2> QED BY <2>1, <1>3, OpenedHolds
<1> HIDE DEF pad
<1>5. /\ Holds(blocks, <<>>) /\ Holds(Sized(pad), <<>>)
      /\ size(blocks) = 0
  <2> DEFINE s == <<>>
  <2>1. s \in Seq(Hash) /\ Holds(pad, s) /\ Holds(Opened(committed.blocks), s) /\ Len(s) = 0
    BY <1>4
  <2> HIDE DEF s
  <2>2. Holds(blocks, s) /\ Holds(Sized(pad), s)
    BY <2>1, SizeHolds
  <2> HIDE DEF blocks
  <2>3. size(blocks) = 0
    BY <2>1, <2>2, SizeHolds
  <2> QED BY <2>2, <2>3 DEF s
<1>6. loaded = Sized(pad)
  BY DEF FileAccepted
<1>7. IsContainer(loaded) /\ IsContainer(blocks)
  BY <1>5, <1>6 DEF Holds
<1> HIDE DEF blocks, loaded
<1>8. Holds(clear(loaded), <<>>) /\ Holds(clear(blocks), <<>>)
  BY <1>7, ClearHolds
<1>9. PadOf(chain) = push_block_scratchpad_data(<<>>, Genesis)
  BY <1>1, <1>2, PadOfAppend, PadOfEmpty
<1>10. EntriesOf(chain) = Append(<<>>, v)
  <2>1. Len(PadOf(<<>>)) = 0
    BY PadOfEmpty
  <2>2. EntriesOf(chain) = Append(EntriesOf(<<>>), BlockEntry(Genesis, Len(PadOf(<<>>))))
    BY <1>1, <1>2, EntriesAppend
  <2> QED BY <2>1, <2>2, EmptyChain
<1>11. Holds(PushPad(clear(loaded), Genesis), PadOf(chain))
  <2>1. <<>> \in Pad
    BY DEF Pad
  <2> QED BY <2>1, <1>1, <1>8, <1>9, PushPadHolds
<1>12. Holds(Backed(push_back(clear(blocks), v)), EntriesOf(chain))
  <2> DEFINE s == <<>>
  <2>1. s \in Seq(BlockEntries) /\ v \in BlockEntries /\ Holds(clear(blocks), s)
    BY <1>1, <1>8 DEF BlockEntry, BlockEntries
  <2> HIDE DEF s, v
  <2>2. Append(s, v) \in Seq(BlockEntries) /\ Holds(push_back(clear(blocks), v), Append(s, v))
    BY <2>1, PushHolds
  <2>3. Holds(Backed(push_back(clear(blocks), v)), Append(s, v))
    BY <2>2, BackHolds
  <2> QED BY <2>3, <1>10 DEF s
<1>13. AliasesOf(NoAliases, chain)
  <2>1. Genesis \notin DOMAIN AliasOf
    BY AliasOfAssumption
  <2> QED BY <2>1, <1>1, <1>2, EmptyChain, AliasPut
<1>14. /\ alias' = NoAliases /\ m_scratchpad_cache' = PadOf(chain)
       /\ m_rdb_scratchpad' = PushPad(clear(loaded), Genesis)
       /\ m_db_blocks' = Backed(push_back(clear(blocks), v))
  BY <1>5, <1>9 DEF Start, loaded, blocks, pad
<1> HIDE DEF chain
<1>15. Loaded(chain)'
  BY <1>11, <1>12, <1>13, <1>14 DEF Loaded
<1>16. committed' = [blocks |-> m_db_blocks'.db, pad |-> m_rdb_scratchpad'.db, alias |-> alias']
  BY DEF Start
<1>17. Stored(chain)'
  BY <1>15, <1>16 DEF Stored, Loaded, Holds
<1> QED BY <1>2, <1>15, <1>17 DEF chain

(* Start in front of the database of a chain, whatever file there is.      *)
LEMMA StartStored ==
  ASSUME Start, NEW disk \in Chains, Stored(disk),
         NEW n \in 0..Len(PadOf(disk)), file = SubSeq(PadOf(disk), 1, n)
  PROVE  Loaded(disk)' /\ Stored(disk)'
<1> DEFINE pad == Opened(committed.pad)
           blocks == Sized(Opened(committed.blocks))
           loaded == IF FileAccepted(pad) THEN Backed(pad) ELSE Sized(pad)
           s == PadOf(disk)
           t == EntriesOf(disk)
<1>1. /\ t \in Seq(BlockEntries) /\ Len(t) = Len(disk) /\ t # <<>> /\ Len(disk) \in Nat \ {0}
      /\ s \in Seq(Hash)
  BY LoadedTypes
<1>2. committed.pad = Arr(s) /\ committed.blocks = Arr(t) /\ AliasesOf(committed.alias, disk)
  BY DEF Stored
<1>3. Holds(pad, s) /\ Holds(Opened(committed.blocks), t)
  BY <1>1, <1>2, OpenedHolds
<1> HIDE DEF pad, s, t
<1>4. Holds(blocks, t)
  BY <1>1, <1>3, SizeHolds
<1> HIDE DEF blocks
<1>5. size(blocks) # 0
  <2>1. size(blocks) = Len(t)
    BY <1>1, <1>4, SizeHolds
  <2> QED BY <2>1, <1>1
<1>6. Holds(Backed(blocks), t) /\ Holds(loaded, s)
  BY <1>1, <1>3, <1>4, SizeHolds, BackHolds
<1>7. FileAccepted(pad) => file = s
  <2> SUFFICES ASSUME FileAccepted(pad) PROVE file = s
    OBVIOUS
  <2>1. Len(file) = n
    BY <1>1, FrontPart DEF s
  <2>2. size(pad) = Len(s)
    BY <1>1, <1>3, SizeHolds
  <2>3. n = Len(s)
    BY <2>1, <2>2 DEF FileAccepted
  <2> QED BY <2>3, <1>1, SubSeqFull DEF s
<1>8. Elements(committed.pad) = s
  <2>1. /\ DOMAIN Arr(s) = 0..(Len(s) - 1) /\ Cardinality(DOMAIN Arr(s)) = Len(s)
        /\ \A k \in 0..(Len(s) - 1) : Arr(s)[k] = s[k + 1]
    BY <1>1, ArrKeys
  <2>2. Elements(committed.pad) = [k \in 1..Len(s) |-> Arr(s)[k - 1]]
    BY <1>2, <2>1 DEF Elements
  <2>3. Len(s) \in Nat /\ s = [k \in 1..Len(s) |-> s[k]]
    BY <1>1
  <2>4. \A k \in 1..Len(s) : k - 1 \in 0..(Len(s) - 1) /\ (k - 1) + 1 = k
    BY <2>3
  <2>5. \A k \in 1..Len(s) : Arr(s)[k - 1] = s[k]
    BY <2>1, <2>4
  <2> QED BY <2>2, <2>3, <2>5
<1>9. /\ alias' = committed.alias /\ m_scratchpad_cache' = s
      /\ m_rdb_scratchpad' = loaded /\ m_db_blocks' = Backed(blocks)
  <2>1. /\ alias' = committed.alias
        /\ m_scratchpad_cache' = IF FileAccepted(pad) THEN file ELSE Elements(committed.pad)
        /\ m_rdb_scratchpad' = loaded /\ m_db_blocks' = Backed(blocks)
    BY <1>5 DEF Start, loaded, blocks, pad
  <2> QED BY <2>1, <1>7, <1>8
<1>10. Loaded(disk)'
  BY <1>2, <1>6, <1>9 DEF Loaded, s, t
<1>11. committed' = [blocks |-> m_db_blocks'.db, pad |-> m_rdb_scratchpad'.db, alias |-> alias']
  BY DEF Start
<1>12. Stored(disk)'
  BY <1>10, <1>11 DEF Stored, Loaded, Holds
<1> QED BY <1>10, <1>12

-----------------------------------------------------------------------------
LEMMA InitDbInv == Init => DbInv
BY BoundsAssumption DEF Init, DbInv

LEMMA StepDbInv == DbInv /\ [Next]_vars => DbInv'
<1> SUFFICES ASSUME DbInv, [Next]_vars PROVE DbInv'
  OBVIOUS
<1>0. kills \in 0..MaxKills /\ MaxKills \in Nat
  BY BoundsAssumption DEF DbInv
<1>r. ASSUME pc # "down"
      PROVE  \E disk \in Chains :
               /\ Stored(disk) /\ file = NoFile
               /\ \/ pc = "ready" /\ Loaded(disk)
                  \/ pc = "tx" /\ \E chain \in Chains : Loaded(chain)
  BY <1>r DEF DbInv
<1>1. CASE Start
  <2>1. kills' \in 0..MaxKills /\ pc' = "ready" /\ file' = NoFile /\ pc = "down"
    BY <1>1, <1>0 DEF Start
  <2>2. \E disk \in Chains : Loaded(disk)' /\ Stored(disk)'
    <3>1. CASE committed = Empty /\ file = NoFile
      BY <1>1, <3>1, StartEmpty
    <3>2. CASE \E disk \in Chains : Stored(disk) /\ \E n \in 0..Len(PadOf(disk)) : file = SubSeq(PadOf(disk), 1, n)
      BY <1>1, <3>2, StartStored
    <3> QED BY <3>1, <3>2, <2>1 DEF DbInv
  <2> QED BY <2>1, <2>2 DEF DbInv
<1>2. CASE BeginTransaction
  <2>1. PICK disk \in Chains : Stored(disk) /\ file = NoFile /\ Loaded(disk)
    BY <1>2, <1>r DEF BeginTransaction
  <2>2. Holds(Backed(m_db_blocks), EntriesOf(disk))
    BY <2>1, LoadedTypes, BackHolds DEF Loaded
  <2>3. Loaded(disk)'
    BY <2>1, <2>2, <1>2 DEF BeginTransaction, Loaded
  <2>4. Stored(disk)'
    BY <2>1, <1>2 DEF BeginTransaction, Stored
  <2> QED BY <2>1, <2>3, <2>4, <1>0, <1>2 DEF DbInv, BeginTransaction
<1>3. CASE CommitTransaction
  <2>1. PICK chain \in Chains : file = NoFile /\ Loaded(chain)
    BY <1>3, <1>r DEF CommitTransaction
  <2>2. Loaded(chain)'
    BY <2>1, <1>3 DEF CommitTransaction, Loaded
  <2>3. Stored(chain)'
    BY <2>1, <1>3 DEF CommitTransaction, Loaded, Stored, Holds
  <2> QED BY <2>1, <2>2, <2>3, <1>0, <1>3 DEF DbInv, CommitTransaction
<1>m. ASSUME NEW disk \in Chains, Stored(disk), MemoryLost, UNCHANGED committed, kills' \in 0..MaxKills,
             NEW n \in 0..Len(PadOf(disk)), file' = SubSeq(PadOf(disk), 1, n)
      PROVE  DbInv'
  <2>1. Stored(disk)'
    BY <1>m DEF Stored
  <2> QED BY <2>1, <1>m DEF DbInv, MemoryLost
<1>f. \A disk \in Chains : /\ Len(PadOf(disk)) \in Nat
                           /\ NoFile = SubSeq(PadOf(disk), 1, 0)
                           /\ PadOf(disk) = SubSeq(PadOf(disk), 1, Len(PadOf(disk)))
  BY LoadedTypes, SubSeqFull, SubSeqEmpty DEF NoFile
<1>4. CASE Stop
  <2>1. PICK disk \in Chains : Stored(disk) /\ file = NoFile /\ Loaded(disk)
    BY <1>4, <1>r DEF Stop
  <2>2. file' = SubSeq(PadOf(disk), 1, Len(PadOf(disk))) /\ Len(PadOf(disk)) \in 0..Len(PadOf(disk))
    BY <2>1, <1>4, <1>f DEF Stop, Loaded
  <2>3. MemoryLost /\ UNCHANGED committed /\ kills' \in 0..MaxKills
    BY <1>4, <1>0 DEF Stop
  <2> QED BY <2>1, <2>2, <2>3, <1>m
<1>5. CASE Kill
  <2>1. PICK disk \in Chains : Stored(disk) /\ file = NoFile /\ (pc = "ready" => Loaded(disk))
    BY <1>5, <1>r DEF Kill
  <2>2. MemoryLost /\ UNCHANGED committed /\ kills' \in 0..MaxKills
    BY <1>5, <1>0 DEF Kill
  <2>3. \E n \in 0..Len(PadOf(disk)) : file' = SubSeq(PadOf(disk), 1, n)
    <3>1. CASE UNCHANGED file
      <4>1. 0 \in 0..Len(PadOf(disk)) /\ file' = SubSeq(PadOf(disk), 1, 0)
        BY <3>1, <2>1, <1>f
      <4> QED BY <4>1
    <3>2. CASE pc = "ready" /\ \E n \in 1..Len(m_scratchpad_cache) : file' = SubSeq(m_scratchpad_cache, 1, n)
      <4>1. m_scratchpad_cache = PadOf(disk)
        BY <3>2, <2>1 DEF Loaded
      <4>2. 1..Len(PadOf(disk)) \subseteq 0..Len(PadOf(disk))
        BY <1>f
      <4> QED BY <4>1, <4>2, <3>2
    <3> QED BY <3>1, <3>2, <1>5 DEF Kill
  <2> QED BY <2>1, <2>2, <2>3, <1>m
<1>t. ASSUME pc = "tx", pc' = "tx", UNCHANGED <<committed, file, kills>>, \E chain \in Chains : Loaded(chain)'
      PROVE  DbInv'
  <2>1. PICK disk \in Chains : Stored(disk) /\ file = NoFile
    BY <1>t, <1>r
  <2>2. Stored(disk)'
    BY <2>1, <1>t DEF Stored
  <2> QED BY <2>1, <2>2, <1>t, <1>0 DEF DbInv
<1>6. ASSUME NEW b \in Blocks, PushBlock(b) PROVE DbInv'
  <2>1. PICK chain \in Chains : Loaded(chain)
    BY <1>6, <1>r DEF PushBlock
  <2>2. Append(chain, b) \in Chains /\ Loaded(Append(chain, b))'
    BY <2>1, <1>6, PushLoaded
  <2>3. pc = "tx" /\ pc' = "tx" /\ UNCHANGED <<committed, file, kills>>
    BY <1>6 DEF PushBlock
  <2> QED BY <2>2, <2>3, <1>t
<1>7. CASE pop_block_from_blockchain
  <2>1. PICK chain \in Chains : Loaded(chain)
    BY <1>7, <1>r DEF pop_block_from_blockchain
  <2>2. \E front \in Chains : Loaded(front)'
    BY <2>1, <1>7, PopLoaded
  <2>3. pc = "tx" /\ pc' = "tx" /\ UNCHANGED <<committed, file, kills>>
    BY <1>7 DEF pop_block_from_blockchain
  <2> QED BY <2>2, <2>3, <1>t
<1>8. ASSUME NEW h \in 0..MaxHeight, ReadBlock(h) PROVE DbInv'
  <2>0. h \in Int
    BY BoundsAssumption
  <2>1. ASSUME NEW chain \in Chains, Loaded(chain) PROVE Loaded(chain)'
    <3>1. EntriesOf(chain) \in Seq(BlockEntries)
      BY LoadedTypes
    <3>2. Holds(Sized(m_db_blocks), EntriesOf(chain))
      BY <2>1, <3>1, SizeHolds DEF Loaded
    <3>3. Holds(Got(Sized(m_db_blocks), h), EntriesOf(chain))
      BY <2>0, <3>1, <3>2, GotHolds
    <3> QED BY <2>1, <3>3, <1>8 DEF ReadBlock, Loaded
  <2>2. \A chain : Stored(chain) => Stored(chain)'
    BY <1>8 DEF ReadBlock, Stored
  <2> QED BY <1>0, <1>r, <1>8, <2>1, <2>2 DEF DbInv, ReadBlock
<1>9. CASE UNCHANGED vars
  <2>1. \A chain : (Stored(chain) => Stored(chain)') /\ (Loaded(chain) => Loaded(chain)')
    BY <1>9 DEF vars, Stored, Loaded
  <2> QED BY <1>9, <2>1 DEF DbInv, vars
<1> QED BY <1>1, <1>2, <1>3, <1>4, <1>5, <1>6, <1>7, <1>8, <1>9 DEF Next
-----------------------------------------------------------------------------
(* The chain of DbInv is the one that the properties read off the blocks.  *)
LEMMA ChainRead ==
  ASSUME NEW chain \in Chains, Loaded(chain)
  PROVE  /\ Chain = chain
         /\ Elements(m_rdb_scratchpad.db) = PadOf(chain)
         /\ \A k \in 1..Len(chain) :
              /\ m_db_blocks.db[k - 1].bl = chain[k]
              /\ m_db_blocks.db[k - 1].scratch_offset = Len(PadOf(SubSeq(chain, 1, k - 1)))
<1> DEFINE t == EntriesOf(chain)
           s == PadOf(chain)
<1>1. /\ t \in Seq(BlockEntries) /\ Len(t) = Len(chain) /\ Len(chain) \in Nat \ {0} /\ s \in Seq(Hash)
      /\ m_db_blocks.db = Arr(t) /\ m_rdb_scratchpad.db = Arr(s) /\ chain \in Seq(Blocks)
  BY LoadedTypes, FrontAndTop DEF Loaded, Holds
<1>2. \A k \in 1..Len(chain) : t[k] = BlockEntry(chain[k], Len(PadOf(SubSeq(chain, 1, k - 1))))
  BY DEF EntriesOf
<1> HIDE DEF t, s
<1>3. /\ Cardinality(DOMAIN Arr(t)) = Len(chain)
      /\ \A k \in 0..(Len(t) - 1) : Arr(t)[k] = t[k + 1]
      /\ Cardinality(DOMAIN Arr(s)) = Len(s)
      /\ \A k \in 0..(Len(s) - 1) : Arr(s)[k] = s[k + 1]
  BY <1>1, ArrKeys
<1>4. \A k \in 1..Len(chain) : Arr(t)[k - 1] = t[k]
  <2>1. \A k \in 1..Len(chain) : k - 1 \in 0..(Len(t) - 1) /\ (k - 1) + 1 = k
    BY <1>1
  <2> QED BY <2>1, <1>3
<1>5. \A k \in 1..Len(chain) : /\ m_db_blocks.db[k - 1].bl = chain[k]
                               /\ m_db_blocks.db[k - 1].scratch_offset = Len(PadOf(SubSeq(chain, 1, k - 1)))
  <2> TAKE k \in 1..Len(chain)
  <2>1. m_db_blocks.db[k - 1] = BlockEntry(chain[k], Len(PadOf(SubSeq(chain, 1, k - 1))))
    BY <1>1, <1>2, <1>4
  <2>2. \A b, o : BlockEntry(b, o).bl = b /\ BlockEntry(b, o).scratch_offset = o
    BY DEF BlockEntry
  <2> QED BY <2>1, <2>2
<1>6. Chain = chain
  <2>1. Chain = [k \in 1..Len(chain) |-> m_db_blocks.db[k - 1].bl]
    BY <1>1, <1>3 DEF Chain
  <2>2. chain = [k \in 1..Len(chain) |-> chain[k]]
    BY <1>1
  <2> QED BY <2>1, <2>2, <1>5
<1>7. Elements(m_rdb_scratchpad.db) = s
  <2>1. Elements(m_rdb_scratchpad.db) = [k \in 1..Len(s) |-> Arr(s)[k - 1]]
    BY <1>1, <1>3 DEF Elements
  <2>2. Len(s) \in Nat /\ s = [k \in 1..Len(s) |-> s[k]]
    BY <1>1
  <2>3. \A k \in 1..Len(s) : k - 1 \in 0..(Len(s) - 1) /\ (k - 1) + 1 = k
    BY <2>2
  <2>4. \A k \in 1..Len(s) : Arr(s)[k - 1] = s[k]
    BY <1>3, <2>3
  <2> QED BY <2>1, <2>2, <2>4
<1> QED BY <1>5, <1>6, <1>7 DEF s

LEMMA RunningLoaded ==
  ASSUME DbInv, Running
  PROVE  /\ pc \in {"ready", "tx"}
         /\ \E chain \in Chains : Loaded(chain) /\ (pc = "ready" => Stored(chain))
BY DEF DbInv, Running

LEMMA HoldsCoherent ==
  ASSUME NEW V, NEW s \in Seq(V), NEW c, Holds(c, s)
  PROVE  Coherent(c)
<1>1. /\ DOMAIN Arr(s) = 0..(Len(s) - 1) /\ Cardinality(DOMAIN Arr(s)) = Len(s)
      /\ \A k \in 0..(Len(s) - 1) : Arr(s)[k] = s[k + 1]
  BY ArrKeys
<1>2. /\ c.db = Arr(s) /\ c.size \in {NoSize, Len(s)}
      /\ \A k \in DOMAIN c.data : k \in 0..(Len(s) - 1) /\ c.data[k] = s[k + 1]
  BY DEF Holds
<1> QED BY <1>1, <1>2 DEF Coherent

(***************************************************************************)
(* The caches of array_accessor are coherent in every run of the           *)
(* transactions of add_new_block and in spite of every kill.               *)
(***************************************************************************)
THEOREM CachesCoherentHolds == Spec => []CachesCoherent
<1>1. DbInv => CachesCoherent
  <2> SUFFICES ASSUME DbInv, Running
               PROVE  /\ Coherent(m_db_blocks) /\ Coherent(m_rdb_scratchpad)
                      /\ pc = "ready" => /\ m_db_blocks.db = committed.blocks
                                         /\ m_rdb_scratchpad.db = committed.pad
    BY DEF CachesCoherent
  <2>1. PICK chain \in Chains : Loaded(chain) /\ (pc = "ready" => Stored(chain))
    BY RunningLoaded
  <2>2. /\ EntriesOf(chain) \in Seq(BlockEntries) /\ PadOf(chain) \in Seq(Hash)
        /\ Holds(m_db_blocks, EntriesOf(chain)) /\ Holds(m_rdb_scratchpad, PadOf(chain))
    BY <2>1, LoadedTypes DEF Loaded
  <2>3. Coherent(m_db_blocks) /\ Coherent(m_rdb_scratchpad)
    BY <2>2, HoldsCoherent
  <2> QED BY <2>1, <2>2, <2>3 DEF Stored, Holds
<1> QED BY <1>1, InitDbInv, StepDbInv, PTL DEF Spec

(***************************************************************************)
(* Every iterator that cache_base keeps with a value is that of a node.    *)
(***************************************************************************)
THEOREM IteratorsLiveHolds == Spec => []IteratorsLive
<1>1. DbInv => IteratorsLive
  <2> SUFFICES ASSUME DbInv, NEW c \in {m_db_blocks, m_rdb_scratchpad}
               PROVE  DOMAIN c.data \subseteq Range(c.recent) /\ Len(c.recent) <= MaxElements
    BY DEF IteratorsLive
  <2>1. CASE Running
    <3>1. PICK chain \in Chains : Loaded(chain)
      BY <2>1, RunningLoaded
    <3> QED BY <3>1 DEF Loaded, Holds, IsContainer
  <2>2. CASE ~Running
    <3>1. c = Opened(<<>>)
      BY <2>2 DEF DbInv, Running
    <3>2. c.data = <<>> /\ c.recent = <<>>
      BY <3>1 DEF Opened
    <3> QED BY <3>2, MaxElementsAssumption
  <2> QED BY <2>1, <2>2
<1> QED BY <1>1, InitDbInv, StepDbInv, PTL DEF Spec

(***************************************************************************)
(* Both copies of the scratchpad are those of the chain, after any         *)
(* reorganisation and any restart: pop_block_scratchpad_data undoes what   *)
(* the push did, through the accessor and in memory, and init takes only   *)
(* a file that is whole.                                                   *)
(***************************************************************************)
THEOREM PadFollowsChainHolds == Spec => []PadFollowsChain
<1>1. DbInv => PadFollowsChain
  <2> SUFFICES ASSUME DbInv, Running
               PROVE  /\ m_scratchpad_cache = PadOf(Chain)
                      /\ Elements(m_rdb_scratchpad.db) = PadOf(Chain)
                      /\ \A k \in DOMAIN Chain :
                           m_db_blocks.db[k - 1].scratch_offset = Len(PadOf(SubSeq(Chain, 1, k - 1)))
    BY DEF PadFollowsChain
  <2>1. PICK chain \in Chains : Loaded(chain)
    BY RunningLoaded
  <2>2. DOMAIN chain = 1..Len(chain)
    BY FrontAndTop
  <2> QED BY <2>1, <2>2, ChainRead DEF Loaded
<1> QED BY <1>1, InitDbInv, StepDbInv, PTL DEF Spec

(***************************************************************************)
(* The alias tables are those of the chain, and pop_alias_info succeeds    *)
(* for the top block's alias whenever a reorganisation comes to pop it.    *)
(***************************************************************************)
THEOREM AliasesFollowChainHolds == Spec => []AliasesFollowChain
<1>1. DbInv => AliasesFollowChain
  <2> SUFFICES ASSUME DbInv, Running PROVE AliasesFollowChain
    BY DEF AliasesFollowChain
  <2>1. PICK chain \in Chains : Loaded(chain)
    BY RunningLoaded
  <2>2. Chain = chain /\ AliasesOf(alias, chain)
    BY <2>1, ChainRead DEF Loaded
  <2>3. chain[Len(chain)] \in DOMAIN AliasOf => PopAllowed(alias, AliasOf[chain[Len(chain)]])
    <3> DEFINE front == SubSeq(chain, 1, Len(chain) - 1)
               top == chain[Len(chain)]
    <3>1. front \in Seq(Blocks) /\ top \in Blocks /\ chain = Append(front, top)
      BY FrontAndTop
    <3> HIDE DEF front, top
    <3>2. AliasesOf(alias, Append(front, top))
      BY <2>2, <3>1
    <3> QED BY <3>1, <3>2, AliasPop DEF top
  <2> QED BY <2>2, <2>3 DEF AliasesFollowChain, AliasesOf, History, About
<1> QED BY <1>1, InitDbInv, StepDbInv, PTL DEF Spec
-----------------------------------------------------------------------------
(***************************************************************************)
(* The scratchpad of an alternative block.                                 *)
(***************************************************************************)
LEMMA XorAssociative == \A a, b, c : xor_pod(xor_pod(a, b), c) = xor_pod(a, xor_pod(b, c))
BY DEF xor_pod

LEMMA XorRegroup == \A a, b, c : xor_pod(xor_pod(a, b), xor_pod(c, b)) = xor_pod(a, c)
BY DEF xor_pod

Patches == Arrays(Hash)

LEMMA PatchType ==
  ASSUME NEW start \in Int, NEW add
  PROVE  /\ get_scratchpad_patch(start, add) \in Patches
         /\ DOMAIN get_scratchpad_patch(start, add) = 0..(start - 1)
         /\ \A i \in 0..(start - 1) : get_scratchpad_patch(start, add)[i] = PatchEntry(add, start, i)
<1>1. 0..(start - 1) \in SUBSET Int
  OBVIOUS
<1>2. get_scratchpad_patch(start, add) \in [0..(start - 1) -> Hash]
  BY PatchEntryType DEF get_scratchpad_patch
<1>3. get_scratchpad_patch(start, add) \in Patches
  BY <1>1, <1>2 DEF Patches, Arrays
<1> QED BY <1>3 DEF get_scratchpad_patch

LEMMA XorPatchType ==
  ASSUME NEW p \in Patches, NEW q \in Patches
  PROVE  /\ XorPatch(p, q) \in Patches
         /\ DOMAIN XorPatch(p, q) = DOMAIN p \cup DOMAIN q
         /\ \A i \in DOMAIN p \cup DOMAIN q :
              XorPatch(p, q)[i] = IF i \notin DOMAIN p THEN q[i] ELSE IF i \notin DOMAIN q THEN p[i]
                                  ELSE xor_pod(p[i], q[i])
<1>1. PICK D \in SUBSET Int : p \in [D -> Hash]
  BY DEF Patches, Arrays
<1>2. PICK E \in SUBSET Int : q \in [E -> Hash]
  BY DEF Patches, Arrays
<1>3. D \cup E \in SUBSET Int
  OBVIOUS
<1>4. XorPatch(p, q) \in [D \cup E -> Hash]
  BY <1>1, <1>2, XorType DEF XorPatch
<1>5. XorPatch(p, q) \in Patches
  BY <1>3, <1>4 DEF Patches, Arrays
<1> QED BY <1>5 DEF XorPatch

LEMMA NoPatch == <<>> \in Patches /\ DOMAIN <<>> = {}
<1>1. <<>> \in [{} -> Hash] /\ {} \in SUBSET Int /\ DOMAIN <<>> = {}
  OBVIOUS
<1> QED BY <1>1 DEF Patches, Arrays

(* The entries of a pad after a push.                                      *)
LEMMA PushAt ==
  ASSUME NEW s \in Pad, NEW b \in Blocks
  PROVE  LET t == push_block_scratchpad_data(s, b) IN
         /\ \A k \in 1..Len(s) : t[k] = xor_pod(s[k], PatchEntry(Addendum[b], Len(s), k - 1))
         /\ \A k \in 1..Len(Addendum[b]) : t[Len(s) + k] = Entries(Addendum[b])[k]
<1> DEFINE add == Addendum[b]
           n == Len(s)
           long == s \o Entries(add)
           patch == get_scratchpad_patch(n, add)
           t == push_block_scratchpad_data(s, b)
<1>1. add \in Seq(Atoms) /\ s \in Seq(Hash) /\ n \in Nat /\ Len(add) \in Nat
  BY AddendumAssumption DEF Pad
<1>2. Entries(add) \in Seq(Hash) /\ Len(Entries(add)) = Len(add)
  BY <1>1 DEF Entries, Hash
<1>3. /\ Len(long) = n + Len(add) /\ DOMAIN long = 1..(n + Len(add))
      /\ \A k \in 1..n : long[k] = s[k]
      /\ \A k \in 1..Len(add) : long[n + k] = Entries(add)[k]
  <2> DEFINE e == Entries(add)
  <2>1. e \in Seq(Hash) /\ Len(e) = Len(add)
    BY <1>2
  <2> HIDE DEF e
  <2>2. /\ s \o e \in Seq(Hash) /\ Len(s \o e) = n + Len(add)
        /\ \A k \in 1..n : (s \o e)[k] = s[k]
        /\ \A k \in 1..Len(add) : (s \o e)[n + k] = e[k]
    <3>1. /\ s \o e \in Seq(Hash) /\ Len(s \o e) = Len(s) + Len(e)
          /\ \A k \in 1..Len(s) : (s \o e)[k] = s[k]
          /\ \A k \in 1..Len(e) : (s \o e)[Len(s) + k] = e[k]
      <4>1. s \in Seq(Hash) /\ e \in Seq(Hash)
        BY <1>1, <2>1
      <4> QED BY <4>1, ConcatParts
    <3> QED BY <2>1, <3>1
  <2> QED BY <2>2 DEF e
<1>4. DOMAIN patch = 0..(n - 1) /\ \A i \in 0..(n - 1) : patch[i] = PatchEntry(add, n, i)
  BY <1>1, PatchType
<1>5. t = apply_scratchpad_patch(long, patch)
  BY DEF push_block_scratchpad_data
<1> HIDE DEF long, patch, t, n, add
<1>6. \A k \in 1..(n + Len(add)) : t[k] = IF k - 1 \in 0..(n - 1) THEN xor_pod(long[k], patch[k - 1]) ELSE long[k]
  BY <1>3, <1>4, <1>5 DEF apply_scratchpad_patch
<1>7. \A k \in 1..n : t[k] = xor_pod(s[k], PatchEntry(add, n, k - 1))
  <2>1. \A k \in 1..n : k \in 1..(n + Len(add)) /\ k - 1 \in 0..(n - 1)
    BY <1>1
  <2> QED BY <2>1, <1>3, <1>4, <1>6
<1>8. \A k \in 1..Len(add) : t[n + k] = Entries(add)[k]
  <2>1. \A k \in 1..Len(add) : n + k \in 1..(n + Len(add)) /\ (n + k) - 1 \notin 0..(n - 1)
    BY <1>1
  <2> QED BY <2>1, <1>3, <1>6
<1> QED BY <1>7, <1>8 DEF t, n, add

(* The first m + 1 blocks are the first m and one more.                    *)
LEMMA OneMore ==
  ASSUME NEW A, NEW s \in Seq(A), NEW m \in 1..Len(s)
  PROVE  /\ s[m] \in A /\ SubSeq(s, 1, m - 1) \in Seq(A)
         /\ SubSeq(s, 1, m) = Append(SubSeq(s, 1, m - 1), s[m])
<1>1. Len(s) \in Nat /\ m \in 0..Len(s) /\ m - 1 \in 0..Len(s) /\ s[m] \in A
  OBVIOUS
<1> DEFINE t == SubSeq(s, 1, m - 1)
           u == SubSeq(s, 1, m)
           w == Append(t, s[m])
<1>2. /\ t \in Seq(A) /\ Len(t) = m - 1 /\ \A k \in 1..(m - 1) : t[k] = s[k]
      /\ u \in Seq(A) /\ Len(u) = m /\ \A k \in 1..m : u[k] = s[k]
  BY <1>1, FrontPart
<1> HIDE DEF t, u
<1>3. w \in Seq(A) /\ Len(w) = m /\ w[m] = s[m] /\ \A k \in 1..(m - 1) : w[k] = s[k]
  BY <1>1, <1>2
<1> HIDE DEF w
<1>4. \A k \in 1..m : k = m \/ k \in 1..(m - 1)
  BY <1>1
<1>5. u = w
  <2>1. \A k \in 1..Len(u) : u[k] = w[k]
    BY <1>2, <1>3, <1>4
  <2>2. Len(u) = Len(w)
    BY <1>2, <1>3
  <2> QED BY <2>1, <2>2, <1>2, <1>3, SeqEqual
<1> QED BY <1>1, <1>2, <1>5 DEF u, t, w

PadUpTo(chain, m) == PadOf(SubSeq(chain, 1, m))

LEMMA PadGrows ==
  ASSUME NEW chain \in Seq(Blocks), NEW m \in 1..Len(chain)
  PROVE  /\ PadUpTo(chain, m - 1) \in Pad /\ Len(PadUpTo(chain, m - 1)) \in Nat
         /\ PadUpTo(chain, m) = push_block_scratchpad_data(PadUpTo(chain, m - 1), chain[m])
         /\ Len(PadUpTo(chain, m)) = Len(PadUpTo(chain, m - 1)) + Len(Addendum[chain[m]])
         /\ Len(Addendum[chain[m]]) \in Nat
<1>1. /\ chain[m] \in Blocks /\ SubSeq(chain, 1, m - 1) \in Seq(Blocks)
      /\ SubSeq(chain, 1, m) = Append(SubSeq(chain, 1, m - 1), chain[m])
  BY OneMore
<1>2. PadUpTo(chain, m - 1) \in Pad
  BY <1>1, PadOfType DEF PadUpTo
<1>3. PadUpTo(chain, m) = push_block_scratchpad_data(PadUpTo(chain, m - 1), chain[m])
  BY <1>1, PadOfAppend DEF PadUpTo
<1>4. Len(PadUpTo(chain, m)) = Len(PadUpTo(chain, m - 1)) + Len(Addendum[chain[m]])
  BY <1>1, <1>2, <1>3, PushType
<1>5. Len(PadUpTo(chain, m - 1)) \in Nat /\ Len(Addendum[chain[m]]) \in Nat
  BY <1>1, <1>2, AddendumAssumption DEF Pad
<1> QED BY <1>2, <1>3, <1>4, <1>5

(* The loop over the main chain's blocks above the connection.             *)
LEMMA MainLineUnfolds ==
  ASSUME NEW chain \in Chains, Loaded(chain), NEW h \in 1..(Len(chain) - 1)
  PROVE  \E g : /\ MainLinePatches(h) = g[Len(chain) - h]
                /\ g[0] = <<>>
                /\ \A n \in 0..(Len(chain) - h) : g[n] \in Patches
                /\ \A n \in 1..(Len(chain) - h) :
                     g[n] = XorPatch(g[n - 1], get_scratchpad_patch(Len(PadUpTo(chain, h + n - 1)), Addendum[chain[h + n]]))
<1> DEFINE L == size(m_db_blocks) - h
           V == Patches
           first == <<>>
           mine(n) == get_scratchpad_patch(ConnectionOffset(h + n - 1), Addendum[m_db_blocks.db[h + n - 1].bl])
           step == [x \in (1..L) \X V |-> XorPatch(x[2], mine(x[1]))]
           Unfolds(f) == f = [n \in 0..L |-> IF n = 0 THEN first ELSE XorPatch(f[n - 1], mine(n))]
<1>1. chain \in Seq(Blocks) /\ Len(chain) \in Nat /\ size(m_db_blocks) = Len(chain)
  BY FrontAndTop, LoadedTypes, SizeHolds DEF Loaded
<1>2. L \in Nat /\ L = Len(chain) - h /\ h \in Nat
  BY <1>1
<1>a. \A n \in 1..L : /\ mine(n) \in Patches
                      /\ mine(n) = get_scratchpad_patch(Len(PadUpTo(chain, h + n - 1)), Addendum[chain[h + n]])
  <2> TAKE n \in 1..L
  <2> DEFINE k == h + n
  <2>1. k \in 1..Len(chain) /\ k - 1 = h + n - 1
    BY <1>1, <1>2
  <2>2. /\ m_db_blocks.db[k - 1].bl = chain[k]
        /\ m_db_blocks.db[k - 1].scratch_offset = Len(PadUpTo(chain, k - 1))
    BY <2>1, ChainRead DEF PadUpTo
  <2>3. Len(PadUpTo(chain, k - 1)) \in Int
    BY <1>1, <2>1, PadGrows
  <2>4. mine(n) = get_scratchpad_patch(Len(PadUpTo(chain, k - 1)), Addendum[chain[k]])
    BY <2>1, <2>2 DEF ConnectionOffset
  <2> HIDE DEF k, mine
  <2>5. mine(n) \in Patches
    BY <2>3, <2>4, PatchType
  <2> QED BY <2>1, <2>4, <2>5 DEF k
<1>3. first \in V
  BY NoPatch
<1>4. \A n \in 1..L : \A v \in V : step[<<n, v>>] = XorPatch(v, mine(n))
  <2> HIDE DEF mine, V, L
  <2> QED OBVIOUS
<1> HIDE DEF mine
<1>5. IsStep(step, L, V)
  BY <1>a, <1>4, XorPatchType DEF IsStep
<1> HIDE DEF first, V, L, step
<1>6. PICK f : Iterates(f, L, V, first, step)
  BY <1>2, <1>3, <1>5, RecursionExists
<1>7. Unfolds(f)
  <2>1. f = [n \in 0..L |-> f[n]] /\ f[0] = first
    BY <1>6 DEF Iterates
  <2>2. \A n \in 0..L : n # 0 => n \in 1..L /\ n - 1 \in 0..L
    BY <1>2
  <2>3. \A n \in 0..L : n # 0 => f[n] = XorPatch(f[n - 1], mine(n))
    BY <2>2, <1>4, <1>6 DEF Iterates
  <2>4. \A n \in 0..L : f[n] = IF n = 0 THEN first ELSE XorPatch(f[n - 1], mine(n))
    BY <2>1, <2>3, Zenon
  <2> QED BY <2>1, <2>4, Zenon
<1>8. PICK g : Unfolds(g) /\ MainLinePatches(h) = g[L]
  BY <1>7, Zenon DEF MainLinePatches, first, L, mine
<1>9. g[0] = first /\ \A n \in 1..L : g[n] = XorPatch(g[n - 1], mine(n))
  <2>1. \A n \in 0..L : g[n] = IF n = 0 THEN first ELSE XorPatch(g[n - 1], mine(n))
    BY <1>8
  <2>2. 0 \in 0..L /\ \A n \in 1..L : n \in 0..L /\ n # 0
    BY <1>2
  <2> QED BY <2>1, <2>2
<1>10. \A n \in 0..L : g[n] \in V
  <2> DEFINE S == {n \in 0..L : g[n] \in V}
  <2>1. 0 \in S
    BY <1>2, <1>3, <1>9
  <2>2. ASSUME NEW n \in 1..L, n - 1 \in S PROVE n \in S
    <3>1. n \in 0..L /\ g[n - 1] \in V
      BY <2>2, <1>2
    <3>2. step[<<n, g[n - 1]>>] \in V
      BY <3>1, <1>5 DEF IsStep
    <3>3. g[n] \in V
      BY <3>1, <3>2, <1>4, <1>9
    <3> QED BY <3>1, <3>3
  <2>3. \A n \in 0..L : n \in S
    <3> HIDE DEF S
    <3> QED BY <1>2, <2>1, <2>2, UpTo
  <2> QED BY <2>3
<1>11. \A n \in 1..L :
         g[n] = XorPatch(g[n - 1], get_scratchpad_patch(Len(PadUpTo(chain, h + n - 1)), Addendum[chain[h + n]]))
  BY <1>9, <1>a
<1> QED BY <1>2, <1>8, <1>9, <1>10, <1>11 DEF V, first
(* An entry that a patch has or has not.                                   *)
At(p, i, v) == IF i \in DOMAIN p THEN xor_pod(v, p[i]) ELSE v

LEMMA AtXorPatch ==
  ASSUME NEW p \in Patches, NEW q \in Patches, NEW i, i \in DOMAIN q, NEW v
  PROVE  i \in DOMAIN XorPatch(p, q) /\ At(XorPatch(p, q), i, v) = xor_pod(At(p, i, v), q[i])
<1> DEFINE r == XorPatch(p, q)
<1>1. i \in DOMAIN r /\ r[i] = IF i \notin DOMAIN p THEN q[i] ELSE xor_pod(p[i], q[i])
  <2>1. /\ DOMAIN r = DOMAIN p \cup DOMAIN q
        /\ \A j \in DOMAIN p \cup DOMAIN q :
             r[j] = IF j \notin DOMAIN p THEN q[j] ELSE IF j \notin DOMAIN q THEN p[j] ELSE xor_pod(p[j], q[j])
    BY XorPatchType
  <2> HIDE DEF r
  <2> QED BY <2>1
<1>2. CASE i \in DOMAIN p
  <2>1. At(r, i, v) = xor_pod(v, xor_pod(p[i], q[i])) /\ At(p, i, v) = xor_pod(v, p[i])
    BY <1>1, <1>2 DEF At
  <2> QED BY <2>1, <1>1, XorAssociative
<1>3. CASE i \notin DOMAIN p
  BY <1>1, <1>3 DEF At
<1> QED BY <1>2, <1>3

LEMMA MainLine ==
  ASSUME NEW chain \in Chains, Loaded(chain), NEW h \in 1..(Len(chain) - 1)
  PROVE  LET base == PadUpTo(chain, h)
             P == MainLinePatches(h)
         IN  /\ P \in Patches
             /\ Len(base) <= Len(PadOf(chain))
             /\ \A i \in 0..(Len(base) - 1) :
                  i \in DOMAIN P /\ PadOf(chain)[i + 1] = xor_pod(base[i + 1], P[i])
<1> DEFINE L == Len(chain) - h
           base == PadUpTo(chain, h)
           off == Len(base)
           add(n) == Addendum[chain[h + n]]
           before(n) == PadUpTo(chain, h + n)
           patch(n) == get_scratchpad_patch(Len(before(n - 1)), add(n))
<1>1. chain \in Seq(Blocks) /\ Len(chain) \in Nat /\ h \in Nat /\ L \in Nat /\ L # 0
  BY FrontAndTop
<1>2. PICK g : /\ MainLinePatches(h) = g[L] /\ g[0] = <<>>
               /\ \A n \in 0..L : g[n] \in Patches
               /\ \A n \in 1..L :
                    g[n] = XorPatch(g[n - 1], get_scratchpad_patch(Len(PadUpTo(chain, h + n - 1)), Addendum[chain[h + n]]))
  BY MainLineUnfolds, ZenonT(60)
<1>3. \A n \in 1..L : /\ h + n \in 1..Len(chain) /\ (h + n) - 1 = h + (n - 1) /\ h + n - 1 = h + (n - 1)
                      /\ n \in 0..L /\ n - 1 \in 0..L
  BY <1>1
<1>4. \A n \in 1..L : g[n] = XorPatch(g[n - 1], patch(n))
  BY <1>2, <1>3
<1>5. off \in Nat
  <2>1. h + 1 \in 1..Len(chain) /\ (h + 1) - 1 = h
    BY <1>1
  <2> QED BY <2>1, <1>1, PadGrows
<1>6. ASSUME NEW n \in 1..L
      PROVE  /\ chain[h + n] \in Blocks
             /\ before(n - 1) \in Pad /\ Len(before(n - 1)) \in Nat
             /\ before(n) = push_block_scratchpad_data(before(n - 1), chain[h + n])
             /\ Len(before(n)) = Len(before(n - 1)) + Len(add(n)) /\ Len(add(n)) \in Nat
  <2> DEFINE m == h + n
  <2>1. m \in 1..Len(chain) /\ m - 1 = h + (n - 1)
    BY <1>3
  <2> HIDE DEF m
  <2>2. /\ chain[m] \in Blocks /\ PadUpTo(chain, m - 1) \in Pad /\ Len(PadUpTo(chain, m - 1)) \in Nat
        /\ PadUpTo(chain, m) = push_block_scratchpad_data(PadUpTo(chain, m - 1), chain[m])
        /\ Len(PadUpTo(chain, m)) = Len(PadUpTo(chain, m - 1)) + Len(Addendum[chain[m]])
        /\ Len(Addendum[chain[m]]) \in Nat
    <3>1. chain[m] \in Blocks
      BY <1>1, <2>1
    <3> QED BY <3>1, <1>1, <2>1, PadGrows
  <2> QED BY <2>1, <2>2 DEF m
<1> HIDE DEF before, patch, add, L, off, base
<1> DEFINE S == {n \in 0..L : /\ off <= Len(before(n)) /\ Len(before(n)) \in Nat
                              /\ \A i \in 0..(off - 1) : /\ n # 0 => i \in DOMAIN g[n]
                                                         /\ before(n)[i + 1] = At(g[n], i, base[i + 1])}
<1>7. 0 \in S
  <2>1. before(0) = base /\ 0 \in 0..L
    BY <1>1 DEF before, base
  <2>2. \A i : At(g[0], i, base[i + 1]) = base[i + 1]
    BY <1>2, NoPatch DEF At
  <2>3. off <= Len(before(0)) /\ Len(before(0)) \in Nat
    BY <2>1, <1>5 DEF off
  <2> QED BY <2>1, <2>2, <2>3
<1>8. ASSUME NEW n \in 1..L, n - 1 \in S PROVE n \in S
  <2> DEFINE D == Len(before(n - 1))
  <2>1. /\ off <= D /\ D \in Nat
        /\ \A i \in 0..(off - 1) : before(n - 1)[i + 1] = At(g[n - 1], i, base[i + 1])
    BY <1>8
  <2>2. /\ n \in 0..L /\ Len(before(n)) = D + Len(add(n)) /\ Len(add(n)) \in Nat
        /\ g[n] = XorPatch(g[n - 1], patch(n)) /\ g[n - 1] \in Patches
        /\ before(n - 1) \in Pad /\ chain[h + n] \in Blocks
        /\ before(n) = push_block_scratchpad_data(before(n - 1), chain[h + n])
    BY <1>2, <1>3, <1>4, <1>6
  <2>3. off <= Len(before(n)) /\ Len(before(n)) \in Nat
    BY <2>1, <2>2, <1>5
  <2>4. /\ patch(n) \in Patches /\ DOMAIN patch(n) = 0..(D - 1)
        /\ \A i \in 0..(D - 1) : patch(n)[i] = PatchEntry(add(n), D, i)
    BY <2>1, PatchType DEF patch
  <2>5. \A k \in 1..D : before(n)[k] = xor_pod(before(n - 1)[k], PatchEntry(add(n), D, k - 1))
    BY <2>2, PushAt DEF add
  <2> HIDE DEF D
  <2>6. ASSUME NEW i \in 0..(off - 1)
        PROVE  i \in DOMAIN g[n] /\ before(n)[i + 1] = At(g[n], i, base[i + 1])
    <3>1. i \in 0..(D - 1) /\ i + 1 \in 1..D /\ (i + 1) - 1 = i
      BY <2>1, <1>5
    <3>2. before(n)[i + 1] = xor_pod(before(n - 1)[i + 1], patch(n)[i])
      BY <3>1, <2>4, <2>5
    <3>3. i \in DOMAIN g[n] /\ At(g[n], i, base[i + 1]) = xor_pod(At(g[n - 1], i, base[i + 1]), patch(n)[i])
      <4>1. i \in DOMAIN patch(n)
        BY <3>1, <2>4
      <4> DEFINE p == g[n - 1]
                 q == patch(n)
                 v == base[i + 1]
      <4>2. p \in Patches /\ q \in Patches /\ i \in DOMAIN q /\ g[n] = XorPatch(p, q)
        BY <4>1, <2>2, <2>4
      <4> HIDE DEF p, q, v
      <4>3. i \in DOMAIN XorPatch(p, q) /\ At(XorPatch(p, q), i, v) = xor_pod(At(p, i, v), q[i])
        BY <4>2, AtXorPatch
      <4> QED BY <4>2, <4>3 DEF p, q, v
    <3> QED BY <3>2, <3>3, <2>1
  <2> QED BY <2>2, <2>3, <2>6
<1>9. \A n \in 0..L : n \in S
  <2> HIDE DEF S
  <2> QED BY <1>1, <1>7, <1>8, UpTo
<1>10. L \in S /\ L # 0
  <2> HIDE DEF S
  <2> QED BY <1>1, <1>9
<1>11. before(L) = PadOf(chain)
  <2>1. h + L = Len(chain)
    BY <1>1 DEF L
  <2>2. SubSeq(chain, 1, Len(chain)) = chain
    BY <1>1, SubSeqFull
  <2> QED BY <2>1, <2>2 DEF before, PadUpTo
<1>12. g[L] \in Patches
  BY <1>1, <1>2
<1>13. \A i \in 0..(off - 1) : i \in DOMAIN g[L] /\ PadOf(chain)[i + 1] = xor_pod(base[i + 1], g[L][i])
  BY <1>10, <1>11 DEF At
<1> QED BY <1>2, <1>10, <1>11, <1>12, <1>13 DEF off, base

(* The alternative blocks' entries, in turn.                               *)
LEMMA AltEntriesUnfold ==
  ASSUME NEW alt \in Seq(Blocks)
  PROVE  \E g : /\ alt_scratchppad(alt) = g[Len(alt)]
                /\ g \in [0..Len(alt) -> Pad]
                /\ g[0] = <<>>
                /\ \A n \in 1..Len(alt) : g[n] = g[n - 1] \o Entries(Addendum[alt[n]])
<1> DEFINE L == Len(alt)
           V == Pad
           first == <<>>
           step == [x \in (1..L) \X V |-> x[2] \o Entries(Addendum[alt[x[1]]])]
           Unfolds(f) == f = [n \in 0..L |-> IF n = 0 THEN first ELSE f[n - 1] \o Entries(Addendum[alt[n]])]
<1>2. L \in Nat /\ \A n \in 1..L : alt[n] \in Blocks
  OBVIOUS
<1>3. first \in V
  BY DEF Pad
<1>4. \A n \in 1..L : \A v \in V : step[<<n, v>>] = v \o Entries(Addendum[alt[n]])
  OBVIOUS
<1>5. IsStep(step, L, V)
  <2>1. \A b \in Blocks : Entries(Addendum[b]) \in Pad
    BY AddendumAssumption DEF Entries, Pad, Hash
  <2>2. \A v, w \in Pad : v \o w \in Pad
    BY DEF Pad
  <2> HIDE DEF step
  <2> QED BY <1>2, <1>4, <2>1, <2>2 DEF IsStep
<1> HIDE DEF first, V, L, step
<1>6. PICK f : Iterates(f, L, V, first, step)
  BY <1>2, <1>3, <1>5, RecursionExists
<1>7. Unfolds(f)
  <2>1. f = [n \in 0..L |-> f[n]] /\ f[0] = first
    BY <1>6 DEF Iterates
  <2>2. \A n \in 0..L : n # 0 => n \in 1..L /\ n - 1 \in 0..L
    BY <1>2
  <2>3. \A n \in 0..L : n # 0 => f[n] = f[n - 1] \o Entries(Addendum[alt[n]])
    BY <2>2, <1>4, <1>6 DEF Iterates
  <2>4. \A n \in 0..L : f[n] = IF n = 0 THEN first ELSE f[n - 1] \o Entries(Addendum[alt[n]])
    BY <2>1, <2>3, Zenon
  <2> QED BY <2>1, <2>4, Zenon
<1>8. PICK g : Unfolds(g) /\ alt_scratchppad(alt) = g[L]
  BY <1>7, Zenon DEF alt_scratchppad, first, L
<1>9. g[0] = first /\ \A n \in 1..L : g[n] = g[n - 1] \o Entries(Addendum[alt[n]])
  <2>1. \A n \in 0..L : g[n] = IF n = 0 THEN first ELSE g[n - 1] \o Entries(Addendum[alt[n]])
    BY <1>8
  <2>2. 0 \in 0..L /\ \A n \in 1..L : n \in 0..L /\ n # 0
    BY <1>2
  <2> QED BY <2>1, <2>2
<1>10. \A n \in 0..L : g[n] \in V
  <2> DEFINE S == {n \in 0..L : g[n] \in V}
  <2>1. 0 \in S
    BY <1>2, <1>3, <1>9
  <2>2. ASSUME NEW n \in 1..L, n - 1 \in S PROVE n \in S
    <3>1. n \in 0..L /\ g[n - 1] \in V
      BY <2>2, <1>2
    <3>2. step[<<n, g[n - 1]>>] \in V
      BY <3>1, <1>5 DEF IsStep
    <3>3. g[n] \in V
      BY <3>1, <3>2, <1>4, <1>9
    <3> QED BY <3>1, <3>3
  <2>3. \A n \in 0..L : n \in S
    <3> HIDE DEF S
    <3> QED BY <1>2, <2>1, <2>2, UpTo
  <2> QED BY <2>3
<1>11. g \in [0..L -> V]
  BY <1>8, <1>10
<1> QED BY <1>8, <1>9, <1>11 DEF L, V, first

LEMMA AltEntriesType ==
  ASSUME NEW alt \in Seq(Blocks)
  PROVE  alt_scratchppad(alt) \in Pad /\ (Len(alt) = 0 => alt_scratchppad(alt) = <<>>)
<1>1. PICK g : /\ alt_scratchppad(alt) = g[Len(alt)]
               /\ g \in [0..Len(alt) -> Pad]
               /\ g[0] = <<>>
               /\ \A n \in 1..Len(alt) : g[n] = g[n - 1] \o Entries(Addendum[alt[n]])
  BY AltEntriesUnfold
<1>2. Len(alt) \in 0..Len(alt)
  OBVIOUS
<1> QED BY <1>1, <1>2

LEMMA AltEntriesAppend ==
  ASSUME NEW alt \in Seq(Blocks), NEW b \in Blocks
  PROVE  alt_scratchppad(Append(alt, b)) = alt_scratchppad(alt) \o Entries(Addendum[b])
<1> DEFINE L == Len(alt)
           long == Append(alt, b)
<1>1. /\ L \in Nat /\ long \in Seq(Blocks) /\ Len(long) = L + 1 /\ long[L + 1] = b
      /\ \A n \in 1..L : long[n] = alt[n]
  OBVIOUS
<1>2. PICK g : /\ alt_scratchppad(alt) = g[L] /\ g[0] = <<>>
               /\ \A n \in 1..L : g[n] = g[n - 1] \o Entries(Addendum[alt[n]])
  BY AltEntriesUnfold
<1> HIDE DEF long
<1>3. PICK f : /\ alt_scratchppad(long) = f[L + 1] /\ f[0] = <<>>
               /\ \A n \in 1..(L + 1) : f[n] = f[n - 1] \o Entries(Addendum[long[n]])
  <2>1. PICK f : /\ alt_scratchppad(long) = f[Len(long)]
                 /\ f \in [0..Len(long) -> Pad]
                 /\ f[0] = <<>>
                 /\ \A n \in 1..Len(long) : f[n] = f[n - 1] \o Entries(Addendum[long[n]])
    BY <1>1, AltEntriesUnfold
  <2> QED BY <1>1, <2>1
<1> HIDE DEF L
<1> DEFINE S == {n \in 0..L : f[n] = g[n]}
<1>4. 0 \in S
  BY <1>1, <1>2, <1>3
<1>5. ASSUME NEW n \in 1..L, n - 1 \in S PROVE n \in S
  <2>1. n \in 1..(L + 1) /\ n \in 0..L /\ f[n - 1] = g[n - 1] /\ long[n] = alt[n]
    BY <1>1, <1>5
  <2>2. f[n] = g[n]
    <3>1. f[n] = f[n - 1] \o Entries(Addendum[long[n]])
      BY <2>1, <1>3
    <3>2. g[n] = g[n - 1] \o Entries(Addendum[alt[n]])
      BY <1>2
    <3> QED BY <2>1, <3>1, <3>2
  <2> QED BY <2>1, <2>2
<1>6. \A n \in 0..L : n \in S
  <2> HIDE DEF S
  <2> QED BY <1>1, <1>4, <1>5, UpTo
<1>7. f[L] = g[L]
  BY <1>1, <1>6
<1>8. f[L + 1] = f[L] \o Entries(Addendum[b])
  <2>1. L + 1 \in 1..(L + 1) /\ (L + 1) - 1 = L
    BY <1>1
  <2> QED BY <2>1, <1>1, <1>3
<1> QED BY <1>2, <1>3, <1>7, <1>8 DEF long
LEMMA ConnectionRead ==
  ASSUME NEW chain \in Chains, Loaded(chain), NEW h \in 1..(Len(chain) - 1)
  PROVE  /\ ConnectionOffset(h) = Len(PadUpTo(chain, h)) /\ PadUpTo(chain, h) \in Pad
         /\ ConnectionOffset(h) \in Nat /\ SubSeq(chain, 1, h) \in Seq(Blocks)
<1>1. chain \in Seq(Blocks) /\ Len(chain) \in Nat
  BY FrontAndTop
<1>2. h + 1 \in 1..Len(chain) /\ (h + 1) - 1 = h /\ h \in 0..Len(chain)
  BY <1>1
<1>3. ConnectionOffset(h) = Len(PadUpTo(chain, h))
  BY <1>2, ChainRead DEF ConnectionOffset, PadUpTo
<1>4. SubSeq(chain, 1, h) \in Seq(Blocks)
  BY <1>1, <1>2, FrontPart
<1>5. PadUpTo(chain, h) \in Pad
  BY <1>4, PadOfType DEF PadUpTo
<1> QED BY <1>3, <1>4, <1>5 DEF Pad

(* The loop over the alternative blocks.                                   *)
LEMMA AltPatchesUnfold ==
  ASSUME NEW chain \in Chains, Loaded(chain), NEW h \in 1..(Len(chain) - 1), NEW alt \in Seq(Blocks)
  PROVE  \E g : /\ AltPatches(h, alt) = g[Len(alt)]
                /\ g[0] = <<>>
                /\ \A n \in 0..Len(alt) : g[n] \in Patches
                /\ \A n \in 1..Len(alt) :
                     g[n] = XorPatch(g[n - 1], get_scratchpad_patch(AltOffset(h, alt, n), Addendum[alt[n]]))
<1> DEFINE L == Len(alt)
           V == Patches
           first == <<>>
           theirs(n) == get_scratchpad_patch(AltOffset(h, alt, n), Addendum[alt[n]])
           step == [x \in (1..L) \X V |-> XorPatch(x[2], theirs(x[1]))]
           Unfolds(f) == f = [n \in 0..L |-> IF n = 0 THEN first ELSE XorPatch(f[n - 1], theirs(n))]
<1>2. L \in Nat
  OBVIOUS
<1>a. \A n \in 1..L : theirs(n) \in Patches
  <2> TAKE n \in 1..L
  <2>1. SubSeq(alt, 1, n - 1) \in Seq(Blocks)
    BY OneMore
  <2>2. alt_scratchppad(SubSeq(alt, 1, n - 1)) \in Pad
    BY <2>1, AltEntriesType
  <2>3. AltOffset(h, alt, n) \in Int
    BY <2>2, ConnectionRead DEF AltOffset, Pad
  <2> QED BY <2>3, PatchType
<1>3. first \in V
  BY NoPatch
<1>4. \A n \in 1..L : \A v \in V : step[<<n, v>>] = XorPatch(v, theirs(n))
  <2> HIDE DEF theirs, V, L
  <2> QED OBVIOUS
<1> HIDE DEF theirs
<1>5. IsStep(step, L, V)
  BY <1>a, <1>4, XorPatchType DEF IsStep
<1> HIDE DEF first, V, L, step
<1>6. PICK f : Iterates(f, L, V, first, step)
  BY <1>2, <1>3, <1>5, RecursionExists
<1>7. Unfolds(f)
  <2>1. f = [n \in 0..L |-> f[n]] /\ f[0] = first
    BY <1>6 DEF Iterates
  <2>2. \A n \in 0..L : n # 0 => n \in 1..L /\ n - 1 \in 0..L
    BY <1>2
  <2>3. \A n \in 0..L : n # 0 => f[n] = XorPatch(f[n - 1], theirs(n))
    BY <2>2, <1>4, <1>6 DEF Iterates
  <2>4. \A n \in 0..L : f[n] = IF n = 0 THEN first ELSE XorPatch(f[n - 1], theirs(n))
    BY <2>1, <2>3, Zenon
  <2> QED BY <2>1, <2>4, Zenon
<1>8. PICK g : Unfolds(g) /\ AltPatches(h, alt) = g[L]
  BY <1>7, Zenon DEF AltPatches, first, L, theirs
<1>9. g[0] = first /\ \A n \in 1..L : g[n] = XorPatch(g[n - 1], theirs(n))
  <2>1. \A n \in 0..L : g[n] = IF n = 0 THEN first ELSE XorPatch(g[n - 1], theirs(n))
    BY <1>8
  <2>2. 0 \in 0..L /\ \A n \in 1..L : n \in 0..L /\ n # 0
    BY <1>2
  <2> QED BY <2>1, <2>2
<1>10. \A n \in 0..L : g[n] \in V
  <2> DEFINE S == {n \in 0..L : g[n] \in V}
  <2>1. 0 \in S
    BY <1>2, <1>3, <1>9
  <2>2. ASSUME NEW n \in 1..L, n - 1 \in S PROVE n \in S
    <3>1. n \in 0..L /\ g[n - 1] \in V
      BY <2>2, <1>2
    <3>2. step[<<n, g[n - 1]>>] \in V
      BY <3>1, <1>5 DEF IsStep
    <3>3. g[n] \in V
      BY <3>1, <3>2, <1>4, <1>9
    <3> QED BY <3>1, <3>3
  <2>3. \A n \in 0..L : n \in S
    <3> HIDE DEF S
    <3> QED BY <1>2, <2>1, <2>2, UpTo
  <2> QED BY <2>3
<1> QED BY <1>8, <1>9, <1>10 DEF L, V, first, theirs

(***************************************************************************)
(* The branch's own patches on top of the pad at the connection make the   *)
(* branch's pad.                                                           *)
(***************************************************************************)
LEMMA AltLine ==
  ASSUME NEW chain \in Chains, Loaded(chain), NEW h \in 1..(Len(chain) - 1), NEW alt \in Seq(Blocks)
  PROVE  LET r == PadUpTo(chain, h) \o alt_scratchppad(alt)
             q == PadOf(SubSeq(chain, 1, h) \o alt)
             P == AltPatches(h, alt)
         IN  /\ P \in Patches /\ q \in Pad /\ Len(q) = Len(r)
             /\ \A k \in 1..Len(q) : q[k] = At(P, k - 1, r[k])
<1> DEFINE L == Len(alt)
           base == PadUpTo(chain, h)
           C == SubSeq(chain, 1, h)
           own(n) == alt_scratchppad(SubSeq(alt, 1, n))
           q(n) == PadOf(C \o SubSeq(alt, 1, n))
           r(n) == base \o own(n)
           add(n) == Addendum[alt[n]]
           patch(n) == get_scratchpad_patch(AltOffset(h, alt, n), add(n))
<1>1. L \in Nat /\ C \in Seq(Blocks) /\ base \in Pad /\ ConnectionOffset(h) = Len(base)
  BY ConnectionRead
<1>2. PICK g : /\ AltPatches(h, alt) = g[L] /\ g[0] = <<>>
               /\ \A n \in 0..L : g[n] \in Patches
               /\ \A n \in 1..L :
                    g[n] = XorPatch(g[n - 1], get_scratchpad_patch(AltOffset(h, alt, n), Addendum[alt[n]]))
  BY AltPatchesUnfold
<1>3. ASSUME NEW n \in 0..L
      PROVE  /\ SubSeq(alt, 1, n) \in Seq(Blocks) /\ own(n) \in Pad /\ q(n) \in Pad /\ r(n) \in Pad
             /\ Len(r(n)) = Len(base) + Len(own(n)) /\ Len(r(n)) \in Nat
  <2>1. SubSeq(alt, 1, n) \in Seq(Blocks)
    BY FrontPart
  <2>2. own(n) \in Pad
    BY <2>1, AltEntriesType
  <2>3. C \o SubSeq(alt, 1, n) \in Seq(Blocks)
    BY <2>1, <1>1, ConcatParts
  <2>4. q(n) \in Pad
    BY <2>3, PadOfType
  <2> HIDE DEF own, base
  <2>5. r(n) \in Seq(Hash) /\ Len(r(n)) = Len(base) + Len(own(n))
    BY <2>2, <1>1, ConcatParts DEF Pad
  <2>6. Len(r(n)) \in Nat
    BY <2>5
  <2> QED BY <2>1, <2>2, <2>4, <2>5, <2>6 DEF Pad
<1>4. ASSUME NEW n \in 1..L
      PROVE  /\ n - 1 \in 0..L /\ n \in 0..L /\ alt[n] \in Blocks
             /\ q(n) = push_block_scratchpad_data(q(n - 1), alt[n])
             /\ r(n) = r(n - 1) \o Entries(add(n))
             /\ Entries(add(n)) \in Pad /\ Len(Entries(add(n))) = Len(add(n)) /\ Len(add(n)) \in Nat
             /\ AltOffset(h, alt, n) = Len(r(n - 1))
             /\ g[n] = XorPatch(g[n - 1], patch(n))
  <2> DEFINE t == SubSeq(alt, 1, n - 1)
             e == Entries(add(n))
  <2>1. n - 1 \in 0..L /\ n \in 0..L
    BY <1>1
  <2>2. alt[n] \in Blocks /\ t \in Seq(Blocks) /\ SubSeq(alt, 1, n) = Append(t, alt[n])
    BY OneMore
  <2>3. add(n) \in Seq(Atoms) /\ Len(add(n)) \in Nat
    BY <2>2, AddendumAssumption
  <2>4. e \in Pad /\ Len(e) = Len(add(n))
    BY <2>3 DEF Entries, Pad, Hash
  <2>5. own(n) = own(n - 1) \o e
    BY <2>2, AltEntriesAppend
  <2>6. q(n) = push_block_scratchpad_data(q(n - 1), alt[n])
    <3>1. C \o Append(t, alt[n]) = Append(C \o t, alt[n]) /\ C \o t \in Seq(Blocks)
      BY <1>1, <2>2
    <3>2. PadOf(Append(C \o t, alt[n])) = push_block_scratchpad_data(PadOf(C \o t), alt[n])
      BY <2>2, <3>1, PadOfAppend
    <3> QED BY <2>2, <3>1, <3>2
  <2>7. own(n - 1) \in Pad /\ Len(r(n - 1)) = Len(base) + Len(own(n - 1))
    BY <2>1, <1>3
  <2>8. AltOffset(h, alt, n) = Len(r(n - 1))
    BY <2>7, <1>1 DEF AltOffset
  <2> HIDE DEF own, base, e
  <2>9. r(n) = r(n - 1) \o e
    <3>1. own(n - 1) \in Seq(Hash) /\ base \in Seq(Hash) /\ e \in Seq(Hash)
      BY <2>4, <2>7, <1>1 DEF Pad
    <3>2. base \o (own(n - 1) \o e) = (base \o own(n - 1)) \o e
      BY <3>1
    <3> QED BY <3>2, <2>5
  <2> QED BY <2>1, <2>2, <2>3, <2>4, <2>6, <2>8, <2>9, <1>2 DEF e
<1>0. own(0) = <<>> /\ q(0) = base /\ r(0) = base
  <2> DEFINE t == SubSeq(alt, 1, 0)
  <2>1. t = <<>> /\ t \in Seq(Blocks) /\ Len(t) = 0
    OBVIOUS
  <2>2. own(0) = <<>>
    BY <2>1, AltEntriesType
  <2>3. C \o t = C /\ base \o <<>> = base
    BY <2>1, <1>1 DEF Pad
  <2> QED BY <2>2, <2>3 DEF PadUpTo
<1> HIDE DEF q, r, patch, add, own, L, base, C
<1> DEFINE S == {n \in 0..L : /\ Len(q(n)) = Len(r(n))
                              /\ DOMAIN g[n] \subseteq 0..(Len(r(n)) - 1)
                              /\ \A k \in 1..Len(r(n)) : q(n)[k] = At(g[n], k - 1, r(n)[k])}
<1>5. 0 \in S
  <2>1. \A i, v : At(g[0], i, v) = v
    BY <1>2, NoPatch DEF At
  <2>2. DOMAIN g[0] = {} /\ 0 \in 0..L
    BY <1>1, <1>2, NoPatch
  <2> QED BY <2>1, <2>2, <1>0
<1>6. ASSUME NEW n \in 1..L, n - 1 \in S PROVE n \in S
  <2> DEFINE D == Len(r(n - 1))
             e == Entries(add(n))
             p == g[n - 1]
             x == patch(n)
  <2>1. /\ Len(q(n - 1)) = D /\ DOMAIN p \subseteq 0..(D - 1)
        /\ \A k \in 1..D : q(n - 1)[k] = At(p, k - 1, r(n - 1)[k])
    BY <1>6
  <2>2. /\ n - 1 \in 0..L /\ n \in 0..L /\ alt[n] \in Blocks /\ e \in Pad
        /\ Len(e) = Len(add(n)) /\ Len(add(n)) \in Nat
        /\ AltOffset(h, alt, n) = D /\ q(n) = push_block_scratchpad_data(q(n - 1), alt[n])
        /\ r(n) = r(n - 1) \o e /\ g[n] = XorPatch(p, x)
    BY <1>4
  <2>3. q(n - 1) \in Pad /\ r(n - 1) \in Pad /\ D \in Nat /\ p \in Patches
    BY <2>2, <1>2, <1>3
  <2>4. x \in Patches /\ DOMAIN x = 0..(D - 1) /\ \A i \in 0..(D - 1) : x[i] = PatchEntry(add(n), D, i)
    BY <2>2, <2>3, PatchType DEF patch
  <2>5. /\ \A k \in 1..D : q(n)[k] = xor_pod(q(n - 1)[k], PatchEntry(add(n), D, k - 1))
        /\ \A k \in 1..Len(add(n)) : q(n)[D + k] = e[k]
    <3> DEFINE t == q(n - 1)
               b == alt[n]
    <3>1. t \in Pad /\ b \in Blocks /\ Len(t) = D /\ add(n) = Addendum[b] /\ q(n) = push_block_scratchpad_data(t, b)
      BY <2>1, <2>2, <2>3 DEF add
    <3> HIDE DEF t, b
    <3>2. /\ \A k \in 1..Len(t) : push_block_scratchpad_data(t, b)[k] = xor_pod(t[k], PatchEntry(Addendum[b], Len(t), k - 1))
          /\ \A k \in 1..Len(Addendum[b]) : push_block_scratchpad_data(t, b)[Len(t) + k] = Entries(Addendum[b])[k]
      BY <3>1, PushAt
    <3> QED BY <3>1, <3>2 DEF t
  <2>6. Len(q(n)) = D + Len(add(n))
    BY <2>1, <2>2, <2>3, PushType DEF add
  <2> HIDE DEF D, e, p, x
  <2>7. /\ Len(r(n)) = D + Len(add(n))
        /\ \A k \in 1..D : r(n)[k] = r(n - 1)[k]
        /\ \A k \in 1..Len(add(n)) : r(n)[D + k] = e[k]
    <3> DEFINE t == r(n - 1)
    <3>1. t \in Seq(Hash) /\ e \in Seq(Hash) /\ Len(t) = D
      BY <2>2, <2>3 DEF Pad, D
    <3> HIDE DEF t
    <3>2. /\ Len(t \o e) = Len(t) + Len(e)
          /\ \A k \in 1..Len(t) : (t \o e)[k] = t[k]
          /\ \A k \in 1..Len(e) : (t \o e)[Len(t) + k] = e[k]
      <4>1. t \in Seq(Hash) /\ e \in Seq(Hash)
        BY <3>1
      <4> QED BY <4>1, ConcatParts
    <3> QED BY <3>1, <3>2, <2>2 DEF t
  <2>8. DOMAIN g[n] = 0..(D - 1)
    <3>1. DOMAIN XorPatch(p, x) = DOMAIN p \cup DOMAIN x
      BY <2>3, <2>4, XorPatchType
    <3>2. DOMAIN p \cup 0..(D - 1) = 0..(D - 1)
      BY <2>1
    <3> QED BY <3>1, <3>2, <2>2, <2>4
  <2>9. ASSUME NEW k \in 1..D PROVE q(n)[k] = At(g[n], k - 1, r(n)[k])
    <3> DEFINE i == k - 1
               v == r(n)[k]
    <3>1. i \in 0..(D - 1)
      BY <2>3
    <3>2. q(n)[k] = xor_pod(At(p, i, v), x[i])
      BY <3>1, <2>1, <2>4, <2>5, <2>7
    <3> HIDE DEF i, v
    <3>3. i \in DOMAIN x
      BY <3>1, <2>4
    <3>4. At(XorPatch(p, x), i, v) = xor_pod(At(p, i, v), x[i])
      BY <3>3, <2>3, <2>4, AtXorPatch
    <3> QED BY <3>2, <3>4, <2>2 DEF i, v
  <2>10. ASSUME NEW k \in 1..Len(add(n)) PROVE q(n)[D + k] = At(g[n], (D + k) - 1, r(n)[D + k])
    <3>1. (D + k) - 1 \notin 0..(D - 1)
      BY <2>2, <2>3
    <3> QED BY <3>1, <2>5, <2>7, <2>8 DEF At
  <2>11. ASSUME NEW k \in 1..Len(r(n)) PROVE q(n)[k] = At(g[n], k - 1, r(n)[k])
    <3>1. CASE k <= D
      <4>1. k \in 1..D
        BY <3>1, <2>2, <2>3, <2>7
      <4> QED BY <4>1, <2>9
    <3>2. CASE ~(k <= D)
      <4>1. k - D \in 1..Len(add(n)) /\ D + (k - D) = k
        BY <3>2, <2>2, <2>3, <2>7
      <4> QED BY <4>1, <2>10
    <3> QED BY <3>1, <3>2
  <2>12. 0..(D - 1) \subseteq 0..(Len(r(n)) - 1)
    BY <2>2, <2>3, <2>7
  <2> QED BY <2>2, <2>6, <2>7, <2>8, <2>11, <2>12
<1>7. \A n \in 0..L : n \in S
  <2> HIDE DEF S
  <2> QED BY <1>1, <1>5, <1>6, UpTo
<1>8. L \in 0..L
  BY <1>1
<1>9. SubSeq(alt, 1, L) = alt
  BY SubSeqFull DEF L
<1>10. /\ Len(q(L)) = Len(r(L)) /\ \A k \in 1..Len(r(L)) : q(L)[k] = At(g[L], k - 1, r(L)[k])
       /\ g[L] \in Patches /\ q(L) \in Pad
  BY <1>2, <1>3, <1>7, <1>8
<1> QED BY <1>2, <1>9, <1>10 DEF q, r, own, base, C

LEMMA XorCancel == \A a, b, c : xor_pod(xor_pod(xor_pod(a, b), c), b) = xor_pod(a, c)
BY DEF xor_pod

(***************************************************************************)
(* The scratchpad over which handle_alternative_block computes the proof   *)
(* of work is the one that the branch would meet on the main chain, for    *)
(* every branch from every block below the top one.                        *)
(***************************************************************************)
THEOREM AltPadMeets ==
  ASSUME NEW chain \in Chains, Loaded(chain), NEW h \in 1..(Len(chain) - 1), NEW alt \in Seq(Blocks)
  PROVE  AltPad(h, alt) = PadOf(SubSeq(chain, 1, h) \o alt)
<1> DEFINE base == PadUpTo(chain, h)
           off == Len(base)
           own == alt_scratchppad(alt)
           r == base \o own
           q == PadOf(SubSeq(chain, 1, h) \o alt)
           A == AltPatches(h, alt)
           P == MainLinePatches(h)
           R == Restrict(P, 0..(off - 1))
           Z == XorPatch(A, R)
           pad == PadOf(chain)
           low == SubSeq(pad, 1, off)
           w == low \o own
<1>1. A \in Patches /\ q \in Pad /\ Len(q) = Len(r) /\ \A k \in 1..Len(q) : q[k] = At(A, k - 1, r[k])
  BY AltLine
<1>2. /\ P \in Patches /\ off <= Len(pad)
      /\ \A i \in 0..(off - 1) : i \in DOMAIN P /\ pad[i + 1] = xor_pod(base[i + 1], P[i])
  BY MainLine
<1>3. /\ ConnectionOffset(h) = off /\ base \in Pad /\ off \in Nat /\ pad \in Pad /\ own \in Pad
      /\ base \in Seq(Hash) /\ own \in Seq(Hash) /\ pad \in Seq(Hash)
  BY ConnectionRead, LoadedTypes, AltEntriesType DEF Pad
<1>4. AltPad(h, alt) = apply_scratchpad_patch(w, Z)
  BY <1>3 DEF AltPad, alt_scratchppad_patch, Loaded
<1> HIDE DEF base, own, q, A, P, pad
<1>5. low \in Seq(Hash) /\ Len(low) = off /\ \A k \in 1..off : low[k] = pad[k]
  <2>1. off \in 0..Len(pad)
    BY <1>2, <1>3
  <2> HIDE DEF off
  <2> QED BY <2>1, <1>3, FrontPart
<1>6. /\ Len(r) = off + Len(own) /\ Len(own) \in Nat
      /\ \A k \in 1..off : r[k] = base[k]
      /\ \A k \in 1..Len(own) : r[off + k] = own[k]
  BY <1>3, ConcatParts
<1> HIDE DEF low, off, r
<1>7. /\ w \in Seq(Hash) /\ Len(w) = off + Len(own)
      /\ \A k \in 1..off : w[k] = pad[k]
      /\ \A k \in 1..Len(own) : w[off + k] = own[k]
  <2>1. /\ low \o own \in Seq(Hash) /\ Len(low \o own) = Len(low) + Len(own)
        /\ \A k \in 1..Len(low) : (low \o own)[k] = low[k]
        /\ \A k \in 1..Len(own) : (low \o own)[Len(low) + k] = own[k]
    <3>1. low \in Seq(Hash) /\ own \in Seq(Hash)
      BY <1>3, <1>5
    <3> QED BY <3>1, ConcatParts
  <2> QED BY <2>1, <1>5
<1>8. R \in Patches /\ DOMAIN R = 0..(off - 1) /\ \A i \in 0..(off - 1) : R[i] = P[i]
  <2>1. PICK D \in SUBSET Int : P \in [D -> Hash]
    BY <1>2 DEF Patches, Arrays
  <2>2. 0..(off - 1) \in SUBSET Int
    BY <1>3
  <2>3. R \in [0..(off - 1) -> Hash]
    BY <2>1, <1>2 DEF Restrict
  <2>4. R \in Patches
    BY <2>2, <2>3 DEF Patches, Arrays
  <2> QED BY <2>4 DEF Restrict
<1> HIDE DEF w, R
<1>9. ASSUME NEW k \in 1..off PROVE At(Z, k - 1, w[k]) = q[k]
  <2> DEFINE i == k - 1
             v == base[k]
  <2>1. i \in 0..(off - 1) /\ i + 1 = k /\ k \in 1..Len(q)
    BY <1>1, <1>3, <1>6
  <2>2. w[k] = xor_pod(v, P[i])
    BY <2>1, <1>2, <1>7
  <2>3. q[k] = At(A, i, v)
    BY <2>1, <1>1, <1>6
  <2>4. i \in DOMAIN R /\ R[i] = P[i]
    BY <2>1, <1>8
  <2> HIDE DEF i, v, Z
  <2>5. At(Z, i, w[k]) = xor_pod(At(A, i, w[k]), R[i])
    <3> DEFINE u == w[k]
    <3> HIDE DEF u
    <3>1. At(XorPatch(A, R), i, u) = xor_pod(At(A, i, u), R[i])
      <4>1. A \in Patches /\ R \in Patches /\ i \in DOMAIN R
        BY <2>4, <1>1, <1>8
      <4> QED BY <4>1, AtXorPatch
    <3> QED BY <3>1 DEF Z, u
  <2>6. xor_pod(At(A, i, xor_pod(v, P[i])), P[i]) = At(A, i, v)
    BY XorCancel, XorTwice DEF At
  <2> QED BY <2>2, <2>3, <2>4, <2>5, <2>6 DEF i
<1>10. ASSUME NEW k \in 1..Len(own) PROVE At(Z, (off + k) - 1, w[off + k]) = q[off + k]
  <2> DEFINE i == (off + k) - 1
  <2>1. i \notin 0..(off - 1) /\ off + k \in 1..Len(q)
    BY <1>1, <1>3, <1>6
  <2>2. w[off + k] = r[off + k]
    BY <1>6, <1>7
  <2>3. q[off + k] = At(A, i, r[off + k])
    BY <2>1, <1>1
  <2>4. i \notin DOMAIN R
    BY <2>1, <1>8
  <2>5. (i \in DOMAIN Z <=> i \in DOMAIN A) /\ (i \in DOMAIN A => Z[i] = A[i])
    <3>1. /\ DOMAIN Z = DOMAIN A \cup DOMAIN R
          /\ \A j \in DOMAIN A \cup DOMAIN R :
               Z[j] = IF j \notin DOMAIN A THEN R[j] ELSE IF j \notin DOMAIN R THEN A[j] ELSE xor_pod(A[j], R[j])
      BY <1>1, <1>8, XorPatchType
    <3> HIDE DEF i, Z
    <3> QED BY <3>1, <2>4
  <2> HIDE DEF i, Z
  <2> QED BY <2>2, <2>3, <2>5 DEF At, i
<1>11. ASSUME NEW k \in 1..Len(w) PROVE At(Z, k - 1, w[k]) = q[k]
  <2>1. CASE k <= off
    <3>1. k \in 1..off
      BY <2>1, <1>3, <1>6, <1>7
    <3> QED BY <3>1, <1>9
  <2>2. CASE ~(k <= off)
    <3>1. k - off \in 1..Len(own) /\ off + (k - off) = k
      BY <2>2, <1>3, <1>6, <1>7
    <3> QED BY <3>1, <1>10
  <2> QED BY <2>1, <2>2
<1>12. q = [k \in 1..Len(w) |-> q[k]]
  BY <1>1, <1>6, <1>7 DEF Pad
<1>13. DOMAIN w = 1..Len(w)
  BY <1>7
<1> HIDE DEF Z
<1>14. apply_scratchpad_patch(w, Z) = [k \in 1..Len(w) |-> At(Z, k - 1, w[k])]
  BY <1>13 DEF apply_scratchpad_patch, At
<1> QED BY <1>4, <1>11, <1>12, <1>14 DEF q

(***************************************************************************)
(* The same as an invariant, for the branches that the runs enumerate.     *)
(***************************************************************************)
THEOREM AltPadRightHolds == Spec => []AltPadRight
<1>1. DbInv => AltPadRight
  <2> SUFFICES ASSUME DbInv, pc = "ready",
                      NEW h \in 1..(size(m_db_blocks) - 1), NEW alt \in Branches(h)
               PROVE  AltPad(h, alt) = PadOf(SubSeq(Chain, 1, h) \o alt)
    BY DEF AltPadRight
  <2>1. PICK chain \in Chains : Loaded(chain)
    BY RunningLoaded DEF Running
  <2>2. Chain = chain
    BY <2>1, ChainRead
  <2>3. size(m_db_blocks) = Len(chain)
    BY <2>1, LoadedTypes, SizeHolds DEF Loaded
  <2>4. alt \in Seq(Blocks)
    <3>1. \A a, b \in Blocks : <<>> \in Seq(Blocks) /\ <<a>> \in Seq(Blocks) /\ <<a, b>> \in Seq(Blocks)
      OBVIOUS
    <3>2. alt = <<>> \/ (\E a \in Blocks : alt = <<a>>) \/ (\E a, b \in Blocks : alt = <<a, b>>)
      <4> DEFINE free == Blocks \ {Chain[k] : k \in 1..h}
      <4>1. free \subseteq Blocks
        OBVIOUS
      <4>2. alt \in {<<>>} \cup {<<a>> : a \in free} \cup {<<a, b>> : a, b \in free}
        BY DEF Branches
      <4> HIDE DEF free
      <4> QED BY <4>1, <4>2
    <3>3. <<>> \in Seq(Blocks)
      OBVIOUS
    <3> QED BY <3>1, <3>2, <3>3
  <2> QED BY <2>1, <2>2, <2>3, <2>4, AltPadMeets
<1> QED BY <1>1, InitDbInv, StepDbInv, PTL DEF Spec
LEMMA ArrIsArray ==
  ASSUME NEW V, NEW s \in Seq(V)
  PROVE  IsArray(Arr(s), V)
<1>1. /\ DOMAIN Arr(s) = 0..(Len(s) - 1) /\ Cardinality(DOMAIN Arr(s)) = Len(s)
      /\ \A k \in 0..(Len(s) - 1) : Arr(s)[k] = s[k + 1] /\ s[k + 1] \in V
  BY ArrKeys
<1> QED BY <1>1 DEF IsArray

(***************************************************************************)
(* The types: blocks and pad are arrays without a gap, in the database     *)
(* file and for the thread in a transaction.                               *)
(***************************************************************************)
THEOREM TypesHold == Spec => []TypeOK
<1>e. IsArray(<<>>, BlockEntries) /\ IsArray(<<>>, Hash) /\ <<>> \in Pad
  <2>1. <<>> \in Seq(BlockEntries) /\ <<>> \in Seq(Hash)
    OBVIOUS
  <2>2. IsArray(Arr(<<>>), BlockEntries) /\ IsArray(Arr(<<>>), Hash)
    BY <2>1, ArrIsArray
  <2> QED BY <2>1, <2>2, EmptyArr DEF Pad
<1>n. NoAliases \in AliasTables
  BY EmptyChain DEF AliasesOf
<1>1. DbInv => TypeOK
  <2> SUFFICES ASSUME DbInv PROVE TypeOK
    OBVIOUS
  <2>1. /\ IsArray(committed.blocks, BlockEntries) /\ IsArray(committed.pad, Hash)
        /\ committed.alias \in AliasTables /\ file \in Pad
    <3>1. CASE committed = Empty /\ file = NoFile
      BY <3>1, <1>e, <1>n DEF Empty, NoFile
    <3>2. ASSUME NEW disk \in Chains, Stored(disk),
                 \/ file = NoFile
                 \/ \E n \in 0..Len(PadOf(disk)) : file = SubSeq(PadOf(disk), 1, n)
          PROVE  /\ IsArray(committed.blocks, BlockEntries) /\ IsArray(committed.pad, Hash)
                 /\ committed.alias \in AliasTables /\ file \in Pad
      <4>1. EntriesOf(disk) \in Seq(BlockEntries) /\ PadOf(disk) \in Seq(Hash)
        BY LoadedTypes
      <4>2. IsArray(Arr(EntriesOf(disk)), BlockEntries) /\ IsArray(Arr(PadOf(disk)), Hash)
        BY <4>1, ArrIsArray
      <4>3. \A n \in 0..Len(PadOf(disk)) : SubSeq(PadOf(disk), 1, n) \in Seq(Hash)
        BY <4>1, FrontPart
      <4>4. file \in Pad
        BY <4>3, <3>2, <1>e DEF Pad, NoFile
      <4> QED BY <3>2, <4>2, <4>4 DEF Stored, AliasesOf
    <3> QED BY <3>1, <3>2 DEF DbInv
  <2>2. /\ IsArray(m_db_blocks.db, BlockEntries) /\ IsArray(m_rdb_scratchpad.db, Hash)
        /\ alias \in AliasTables /\ m_scratchpad_cache \in Pad
    <3>1. CASE Running
      <4>1. PICK chain \in Chains : Loaded(chain)
        BY <3>1, RunningLoaded
      <4>2. EntriesOf(chain) \in Seq(BlockEntries) /\ PadOf(chain) \in Seq(Hash) /\ PadOf(chain) \in Pad
        BY LoadedTypes
      <4>3. IsArray(Arr(EntriesOf(chain)), BlockEntries) /\ IsArray(Arr(PadOf(chain)), Hash)
        BY <4>2, ArrIsArray
      <4> QED BY <4>1, <4>2, <4>3 DEF Loaded, Holds, AliasesOf
    <3>2. CASE ~Running
      <4>1. m_db_blocks = Opened(<<>>) /\ m_rdb_scratchpad = Opened(<<>>) /\ alias = NoAliases /\ m_scratchpad_cache = <<>>
        BY <3>2 DEF DbInv, Running
      <4> QED BY <4>1, <1>e, <1>n DEF Opened
    <3> QED BY <3>1, <3>2
  <2>3. pc \in {"down", "ready", "tx"} /\ kills \in 0..MaxKills
    BY DEF DbInv
  <2> QED BY <2>1, <2>2, <2>3 DEF TypeOK
<1> QED BY <1>1, InitDbInv, StepDbInv, PTL DEF Spec
=============================================================================
