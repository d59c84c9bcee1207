--------------------------- MODULE MCAnalysisSink ---------------------------
(* An instance of AnalysisSink for the model checker.                       *)
EXTENDS AnalysisSink

CONSTANTS e1, e2, e3, t1, t2, c1, c2

\* e3 is not authorized.
MCMimeOf ==
  [e \in Entities |-> IF e = e3 THEN [media |-> "text/plain", bare |-> FALSE]
                     ELSE [media |-> "application/pdf", bare |-> TRUE]]
=============================================================================
