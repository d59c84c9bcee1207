--------------------------- MODULE MCFileDownload ---------------------------
(* An instance of FileDownload for the model checker.                      *)
EXTENDS FileDownload

CONSTANTS f1, f2, w1

\* One chunk, and two chunks.
MCSize == [f \in Files |-> IF f = f2 THEN 2 ELSE 1]
=============================================================================
