----------------------------- MODULE Selections -----------------------------
(***************************************************************************)
(* The loops that build a list from the members of another one that pass a *)
(* test (connectioncache/cache.go, cli/root.go), and sorting.  The loops   *)
(* are written as recursive functions, so that what they return can be     *)
(* proved.                                                                 *)
(***************************************************************************)
EXTENDS Naturals, Sequences, FiniteSets

\* out[i]: the list after i rounds.
SelectedSoFar(s, S) ==
  LET out[i \in 0 .. Len(s)] ==
        IF i = 0 THEN <<>>
        ELSE IF s[i] \in S THEN Append(out[i - 1], s[i]) ELSE out[i - 1]
  IN out

\* The elements of s that are in S, in their order.
Among(s, S) == SelectedSoFar(s, S)[Len(s)]

\* The members of S in the order R, a set of pairs.
Rank(S, R, x) == Cardinality({y \in S : y = x \/ <<y, x>> \in R})
InOrder(S, R) == [i \in 1 .. Cardinality(S) |-> CHOOSE x \in S : Rank(S, R, x) = i]
=============================================================================
