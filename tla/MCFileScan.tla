----------------------------- MODULE MCFileScan -----------------------------
(* An instance of FileScan for the model checker.                         *)
EXTENDS FileScan, TLC

CONSTANTS d0, d1, d2, d3, d4, f1, f2, f3, link, w1, w2

\* d0 has two subdirectories; the second root, d3, has one.
MCTree == d0 :> <<d1, f1, d2>> @@ d1 :> <<f2, link>> @@ d2 :> <<f3>>
          @@ d3 :> <<d4>> @@ d4 :> <<>>

\* f2 is not authorized; the path of f3 is too long for the master.
MCMimeOf == [f \in Files |-> [media |-> IF f = f2 THEN "text/html" ELSE "image/png", bare |-> f # f2]]
=============================================================================
