---------------------------- MODULE Subsequence ----------------------------
(***************************************************************************)
(* What is left of a list when the elements outside a set are taken out:   *)
(* SelectSeq for the test of membership, written as a function by          *)
(* recursion on the length so that it can be reasoned about.               *)
(***************************************************************************)
EXTENDS Integers, Sequences

OnlyIn(s, S) ==
  LET kept[n \in 0..Len(s)] ==
        IF n = 0 THEN <<>>
        ELSE IF s[n] \in S THEN Append(kept[n - 1], s[n]) ELSE kept[n - 1]
  IN kept[Len(s)]
=============================================================================
