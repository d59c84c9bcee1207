--------------------------- MODULE MessageDelivery ---------------------------
(***************************************************************************)
(* What the chat engine promises for the messages its clients post: a      *)
(* message is accepted or rejected, an accepted one is stored at most once *)
(* unless the store fails, it is lost only when the engine is shut down,   *)
(* and a participant sees a message of the own room at most once, and only *)
(* after it was accepted.                                                  *)
(***************************************************************************)
EXTENDS Sequences, Functions

CONSTANTS Messages, Participants, InRoom(_, _)

VARIABLES status, seen, stopping

vars == <<status, seen, stopping>>

Init ==
  /\ status = [m \in Messages |-> "new"]
  /\ seen = [p \in Participants |-> <<>>]
  /\ stopping = FALSE

Settle(m, from, to) ==
  /\ status[m] = from
  /\ status' = [status EXCEPT ![m] = to]
  /\ UNCHANGED <<seen, stopping>>

Lose(m) == stopping /\ Settle(m, "accepted", "lost")

See(p, m) ==
  /\ status[m] \in {"accepted", "stored", "failed"}
  /\ InRoom(p, m)
  /\ m \notin Range(seen[p])
  /\ seen' = [seen EXCEPT ![p] = Append(@, m)]
  /\ UNCHANGED <<status, stopping>>

Shutdown == stopping' = TRUE /\ UNCHANGED <<status, seen>>

Next ==
  \/ \E m \in Messages :
       \/ Settle(m, "new", "accepted")
       \/ Settle(m, "new", "rejected")
       \/ Settle(m, "accepted", "stored")
       \/ Settle(m, "accepted", "failed")
       \/ Lose(m)
       \/ \E p \in Participants : See(p, m)
  \/ Shutdown

Spec == Init /\ [][Next]_vars
=============================================================================
