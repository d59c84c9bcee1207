------------------------ MODULE FileTaskRepository --------------------------
(***************************************************************************)
(* infrastructure/storage/file_task_repository.go: the queue of transfer   *)
(* tasks that Badger keeps.  A key work:pending:<priority>:<time>:<id>     *)
(* sorts by priority, then by creation; AnalysisSink creates every task    *)
(* with the priority NORMAL, so the key order is the order of creation.    *)
(***************************************************************************)
EXTENDS Integers, Sequences, Functions

CONSTANT Files

VARIABLES
  pending,     \* the tasks under work:pending:, in key order
  processing   \* the tasks under work:processing:

taskVars == <<pending, processing>>

TaskInit == pending = <<>> /\ processing = {}

EnqueueTask(f) ==
  /\ pending' = Append(pending, f)
  /\ UNCHANGED processing

GetNextBatch(limit) == SubSeq(pending, 1, IF Len(pending) < limit THEN Len(pending) ELSE limit)

IsPending(f) == f \in Range(pending)

\* The keys without the one at i.
Deleted(i) == [j \in 1 .. Len(pending) - 1 |-> pending[IF j < i THEN j ELSE j + 1]]

\* Mutant: the pending key is not deleted.
MarkAndKeep(f) ==
  /\ IsPending(f)
  /\ processing' = processing \cup {f}
  /\ UNCHANGED pending

\* One transaction: delete the pending key, set the processing key.
MarkAsProcessing(f) ==
  /\ \E i \in DOMAIN pending : pending[i] = f /\ pending' = Deleted(i)
  /\ processing' = processing \cup {f}

TaskTypeOK == pending \in Seq(Files) /\ processing \subseteq Files
=============================================================================
