---------------------------- MODULE FileTransfer ----------------------------
(***************************************************************************)
(* What the transfer of files promises, whatever fails on either side: a   *)
(* file that was queued is claimed once, a claimed file is announced or    *)
(* given up, and neither is ever taken back or tried again.  Only a crash  *)
(* of the master loses claimed files, all of them at once.                 *)
(***************************************************************************)
EXTENDS Naturals

CONSTANT Files

VARIABLES status, crashes

vars == <<status, crashes>>

Init == status = [f \in Files |-> "new"] /\ crashes = 0

Settle(f, from, to) ==
  /\ status[f] = from
  /\ status' = [status EXCEPT ![f] = to]
  /\ UNCHANGED crashes

Crash ==
  /\ status' = [f \in Files |-> IF status[f] = "claimed" THEN "lost" ELSE status[f]]
  /\ crashes' = crashes + 1

Next ==
  \/ \E f \in Files :
       \/ Settle(f, "new", "queued")
       \/ Settle(f, "queued", "claimed")
       \/ Settle(f, "claimed", "announced")
       \/ Settle(f, "claimed", "given up")
  \/ Crash

Spec == Init /\ [][Next]_vars
=============================================================================
