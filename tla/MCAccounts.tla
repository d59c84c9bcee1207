----------------------------- MODULE MCAccounts -----------------------------
(* Instances of Accounts for the model checker.                            *)
EXTENDS Accounts, TLC

CONSTANTS c1, c2, c3, e1, e2, p1, p2, weak

Symmetry == Permutations(Calls) \cup Permutations(Emails)
=============================================================================
