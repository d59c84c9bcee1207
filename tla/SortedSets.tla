----------------------------- MODULE SortedSets -----------------------------
(***************************************************************************)
(* The elements of a finite set of integers in order: the positions that   *)
(* are left when the noise of a text is skipped, the keys an iterator of   *)
(* Badger comes to.                                                        *)
(***************************************************************************)
EXTENDS Integers, FiniteSets

\* How many elements of S are at most x.
Rank(S, x) == Cardinality({y \in S : y <= x})

Ascending(S) == [i \in 1 .. Cardinality(S) |-> CHOOSE x \in S : Rank(S, x) = i]
Descending(S) == [i \in 1 .. Cardinality(S) |-> CHOOSE x \in S : Rank(S, x) = Cardinality(S) + 1 - i]
=============================================================================
