--------------------------- MODULE MCChatPipeline ---------------------------
(* An instance of ChatPipeline for the model checker.                      *)
EXTENDS ChatPipeline

CONSTANTS m1, m2, c1, c2, p1, p2, w1, w2

\* m2 goes to a room without participants.
MCRoom == [x \in Messages \cup Conns |-> IF x = m2 THEN 2 ELSE 1]
=============================================================================
