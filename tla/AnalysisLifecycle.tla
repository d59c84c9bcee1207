-------------------------- MODULE AnalysisLifecycle --------------------------
(***************************************************************************)
(* What the analysis pipeline promises for every scanned file: once        *)
(* accepted it is stored, or reported as failed, exactly once, in batches  *)
(* that succeed or fail as a whole, and a record that was enriched stays   *)
(* enriched.                                                               *)
(***************************************************************************)
CONSTANT Files

VARIABLE status

Status == {"new", "accepted", "stored", "failed", "enriched"}

Init == status = [f \in Files |-> "new"]

\* The files of fs all move from one status to another.
Move(fs, from, to) ==
  /\ \A f \in fs : status[f] = from
  /\ status' = [f \in Files |-> IF f \in fs THEN to ELSE status[f]]

Accept(f) == Move({f}, "new", "accepted")
StoreBatch(fs) == Move(fs, "accepted", "stored")
FailBatch(fs) == Move(fs, "accepted", "failed")
Enrich(f) == Move({f}, "stored", "enriched")

Next ==
  \/ \E f \in Files : Accept(f) \/ Enrich(f)
  \/ \E fs \in SUBSET Files : StoreBatch(fs) \/ FailBatch(fs)

Spec == Init /\ [][Next]_status

\* An accepted file does not stay in memory forever.
Settles ==
  \A f \in Files : WF_status(\E fs \in SUBSET Files : f \in fs /\ (StoreBatch(fs) \/ FailBatch(fs)))

FairSpec == Spec /\ Settles
=============================================================================
