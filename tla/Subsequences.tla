---------------------------- MODULE Subsequences ----------------------------
(***************************************************************************)
(* Array.filter and its like, for arrays whose order matters: SelectSeq by  *)
(* the ranks of what is selected, without recursion, so that it can be      *)
(* reasoned about.                                                         *)
(***************************************************************************)
EXTENDS Naturals, Sequences, FiniteSets

\* The elements of seq that are in S, in their order.
Filtered(seq, S) ==
  LET at == {i \in DOMAIN seq : seq[i] \in S}
      Rank(i) == Cardinality({j \in at : j <= i})
  IN [k \in 1..Cardinality(at) |-> seq[CHOOSE i \in at : Rank(i) = k]]

\* The last n elements of seq, or all of them.
LastOf(seq, n) == IF Len(seq) <= n THEN seq ELSE SubSeq(seq, Len(seq) - n + 1, Len(seq))
=============================================================================
