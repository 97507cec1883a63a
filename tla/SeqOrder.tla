------------------------------ MODULE SeqOrder -------------------------------
(***************************************************************************)
(* What stands before what in a sequence, and what is left of it when some *)
(* of its entries go.                                                      *)
(***************************************************************************)
EXTENDS Naturals, Sequences, FiniteSets

\* x stands somewhere before y.
Before(s, x, y) == \E i, j \in DOMAIN s : i < j /\ s[i] = x /\ s[j] = y

\* The entries of s that are in S, in their order.
Only(s, S) ==
  LET kept == {i \in DOMAIN s : s[i] \in S}
      Rank(i) == Cardinality({j \in kept : j <= i})
  IN [k \in 1..Cardinality(kept) |-> s[CHOOSE i \in kept : Rank(i) = k]]
=============================================================================
