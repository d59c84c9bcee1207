---------------------------- MODULE MCFileTmpJob ----------------------------
(* An instance of FileTmpJob for the model checker.                        *)
EXTENDS FileTmpJob

CONSTANTS f1, f2, f3, s1, s2

\* Two specialists handle f1, none the types of f2 and f3: a film, and a text
\* with a charset.
MCMimeOf == [f \in Files |->
  CASE f = f1 -> [media |-> "application/pdf", bare |-> TRUE]
    [] f = f2 -> [media |-> "video/mp4", bare |-> TRUE]
    [] f = f3 -> [media |-> "text/plain", bare |-> FALSE]]
MCCapabilities == [s \in Specialists |-> PDF \cup IF s = s2 THEN Image ELSE {}]

\* f1 is delivered again.
MCArrivals == [f \in Files |-> IF f = f1 THEN 2 ELSE 1]
=============================================================================
