----------------------------- MODULE Scratchpad -----------------------------
(***************************************************************************)
(* The scratchpad that the proof of work reads: every block appends its    *)
(* addendum and patches entries before it (scratchpad_helpers.h).          *)
(*                                                                         *)
(* A hash is a set of atoms, and crypto::xor_pod their symmetric           *)
(* difference: the hashes that enter the pad are one atom each, and what   *)
(* patches make of them is a sum of atoms.  The atom stands for the first  *)
(* 64 bits too, which choose the entry to patch.  Indexes into the pad     *)
(* start at 0 in the code and in a patch, at 1 in the sequence here.       *)
(***************************************************************************)
EXTENDS Integers, Sequences, FiniteSets

CONSTANTS
  Blocks,
  Atoms,
  Addendum   \* get_block_scratchpad_addendum, as atoms

ASSUME AddendumAssumption ==
  /\ Atoms \subseteq Nat
  /\ Addendum \in [Blocks -> Seq(Atoms)]

Hash == SUBSET Atoms
Pad  == Seq(Hash)

xor_pod(a, b) == (a \ b) \cup (b \ a)

(***************************************************************************)
(* The sum of the new entries that choose index i: an entry that occurs    *)
(* twice cancels out.                                                      *)
(***************************************************************************)
PatchEntry(add, start, i) ==
  {x \in Atoms : Cardinality({j \in DOMAIN add : add[j] = x /\ x % start = i}) % 2 = 1}

(* get_scratchpad_patch: there is none in an empty pad.                    *)
get_scratchpad_patch(start, add) == [i \in 0..(start - 1) |-> PatchEntry(add, start, i)]

(* The indexes that get an element of the patch map, also a zero one.      *)
PatchedIndexes(start, add) ==
  IF start = 0 THEN {} ELSE {add[j] % start : j \in DOMAIN add}

apply_scratchpad_patch(pad, patch) ==
  [k \in DOMAIN pad |-> IF k - 1 \in DOMAIN patch THEN xor_pod(pad[k], patch[k - 1]) ELSE pad[k]]

(* The first n entries of the pad; what resize leaves.                     *)
resize(pad, n) == [k \in 1..n |-> pad[k]]

Entries(add) == [j \in DOMAIN add |-> {add[j]}]

push_block_scratchpad_data(pad, b) ==
  apply_scratchpad_patch(pad \o Entries(Addendum[b]),
                         get_scratchpad_patch(Len(pad), Addendum[b]))

pop_block_scratchpad_data(pad, b) ==
  LET start == Len(pad) - Len(Addendum[b])
  IN  resize(apply_scratchpad_patch(pad, get_scratchpad_patch(start, Addendum[b])), start)
=============================================================================
