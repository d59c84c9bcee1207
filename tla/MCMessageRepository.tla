------------------------ MODULE MCMessageRepository -------------------------
(* Instances of MessageRepository for the model checker.                   *)
EXTENDS MessageRepository, TLC

CONSTANTS m1, m2, m3, m4

Symmetry == Permutations(Messages)
=============================================================================
