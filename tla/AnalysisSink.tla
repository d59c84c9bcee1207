---------------------------- MODULE AnalysisSink ----------------------------
(***************************************************************************)
(* sink/analysis_sink.go, shared by all fanout workers, on top of the      *)
(* analysis repository.  Scanned files are buffered under a mutex and      *)
(* flushed by whichever comes first: the worker that fills the buffer, or  *)
(* the timer that the first file of a batch started.  A flush enqueues a   *)
(* download task per authorized file and then stores the batch; the        *)
(* specialists' answer to such a task is merged into the stored record.    *)
(*                                                                         *)
(* The buffer and the batches are sets: every file has a fresh identifier  *)
(* and no property depends on the order within a batch.                    *)
(***************************************************************************)
EXTENDS AnalysisRepository, MimeTypes

CONSTANTS
  Threads,           \* fanout workers that call Consume
  Callbacks,         \* bound: goroutines of timers whose flush is under way
  MaxAnalyzedEvent,  \* batch size (MAX_ANALYZED_EVENT)
  MimeOf,            \* MimeOf[e]: the RawMimeType of the file
  DriveID,           \* drive the scanner reports (DRIVE_ID)
  MayFail,           \* whether the stores can return errors
  MayExit            \* whether the process can end

Actors == Threads \cup Callbacks

ASSUME AnalysisSinkAssumption ==
  /\ IsFiniteSet(Entities)
  /\ IsFiniteSet(Threads)
  /\ IsFiniteSet(Callbacks)
  /\ Threads \cap Callbacks = {}
  /\ MaxAnalyzedEvent \in Nat \ {0}
  /\ MimeOf \in [Entities -> Detected]
  /\ MayFail \in BOOLEAN
  /\ MayExit \in BOOLEAN

VARIABLES
  events,   \* the buffer
  timer,    \* nil, armed, or fired: its callback runs and a.timer is still set
  pc,       \* pc[a]: where an actor stands
  batch,    \* batch[a]: the files whose records a is writing
  todo,     \* todo[a]: files of the batch a has not looked at for a task
  tasks,    \* tasks enqueued and not answered yet
  outcome,  \* outcome[e]: what became of the file, for the properties
  exited

sinkVars == <<events, timer, pc, batch, todo, tasks, outcome, exited>>
vars == <<repoVars, sinkVars>>

Init ==
  /\ RepoInit
  /\ events = {}
  /\ timer = "nil"
  /\ pc = [a \in Actors |-> "idle"]
  /\ batch = [a \in Actors |-> {}]
  /\ todo = [a \in Actors |-> {}]
  /\ tasks = {}
  /\ outcome = [e \in Entities |-> "new"]
  /\ exited = FALSE

-----------------------------------------------------------------------------
Goto(a, l) == pc' = [pc EXCEPT ![a] = l]

\* A call of a store can end this way: with nil, or with an error.
MayReturn(ok) == ok \/ MayFail

(* Actor a is done with its batch.                                         *)
Return(a) == Goto(a, "idle") /\ batch' = [batch EXCEPT ![a] = {}]

\* Mutant: the timer is started by the second file of a batch.
StartTimerLate(n) == IF n = 2 /\ timer = "nil" THEN "armed" ELSE timer

\* The timer when the buffer has grown to n files.
StartTimer(n) == IF n = 1 /\ timer = "nil" THEN "armed" ELSE timer

\* Mutant: off by one.
IsFullLate(n) == n > MaxAnalyzedEvent

IsFull(n) == n >= MaxAnalyzedEvent

(* The critical section of handleNewFile: append, start the timer for the  *)
(* first file of a batch, and go on to flush when the buffer is full.      *)
HandleNewFile(t, e) ==
  /\ ~exited
  /\ pc[t] = "idle"
  /\ outcome[e] = "new"
  /\ outcome' = [outcome EXCEPT ![e] = "accepted"]
  /\ events' = events \cup {e}
  /\ timer' = StartTimer(Cardinality(events'))
  /\ Goto(t, IF IsFull(Cardinality(events')) THEN "flush" ELSE "idle")
  /\ UNCHANGED <<repoVars, batch, todo, tasks, exited>>

(* bufferTimeout has passed: time.AfterFunc runs its callback.             *)
TimerFires(c) ==
  /\ ~exited
  /\ timer = "armed"
  /\ pc[c] = "idle"
  /\ timer' = "fired"
  /\ Goto(c, "flush")
  /\ UNCHANGED <<repoVars, events, batch, todo, tasks, outcome, exited>>

\* Mutant: the batch is copied and the buffer kept.
SwapCopies(a) ==
  /\ events' = events
  /\ batch' = [batch EXCEPT ![a] = events]
  /\ todo' = [todo EXCEPT ![a] = events]

\* The buffer becomes the batch of a.
Swap(a) ==
  /\ events' = {}
  /\ batch' = [batch EXCEPT ![a] = events]
  /\ todo' = [todo EXCEPT ![a] = events]

(* The critical section of flush: drop the timer, swap the buffer.         *)
Flush(a) ==
  /\ ~exited
  /\ pc[a] = "flush"
  /\ timer' = "nil"
  /\ Swap(a)
  /\ Goto(a, IF events = {} THEN "idle" ELSE "enqueue")
  /\ UNCHANGED <<repoVars, tasks, outcome, exited>>

(* One turn of the loop of processAndStore; a failed enqueue is logged.    *)
EnqueueTask(a, e, ok) ==
  /\ ~exited
  /\ pc[a] = "enqueue"
  /\ e \in todo[a]
  /\ MayReturn(ok)
  /\ todo' = [todo EXCEPT ![a] = @ \ {e}]
  /\ tasks' = IF ok /\ IsAuthorized(MimeOf[e]) THEN tasks \cup {e} ELSE tasks
  /\ UNCHANGED <<repoVars, events, timer, pc, batch, outcome, exited>>

(* StoreBatch up to the flush of the write batch.                          *)
StoreBatch(a, ok) ==
  /\ ~exited
  /\ pc[a] = "enqueue"
  /\ todo[a] = {}
  /\ MayReturn(ok)
  /\ outcome' = [e \in Entities |-> IF e \in batch[a]
                                    THEN IF ok THEN "stored" ELSE "failed"
                                    ELSE outcome[e]]
  /\ IF ok
     THEN /\ WriteBadger(batch[a], Scan)
          /\ Goto(a, "index")
          /\ UNCHANGED batch
     ELSE Return(a) /\ UNCHANGED repoVars
  /\ UNCHANGED <<events, timer, todo, tasks, exited>>

(* The rest of StoreBatch: the batch of documents.                         *)
IndexBatch(a, ok) ==
  /\ ~exited
  /\ pc[a] = "index"
  /\ MayReturn(ok)
  /\ IF ok
     THEN WriteBluge(batch[a], Scan)
     ELSE UNCHANGED repoVars
  /\ Return(a)
  /\ UNCHANGED <<events, timer, todo, tasks, outcome, exited>>

(* handleAnalysisSegment, up to its fetch: the specialists have answered   *)
(* the task of e, and the drive is passed where a namespace is expected.   *)
HandleAnalysisSegment(t, e) ==
  /\ ~exited
  /\ pc[t] = "idle"
  /\ e \in tasks
  /\ tasks' = tasks \ {e}
  /\ IF Fetchable(DriveID, e)
     THEN /\ Goto(t, "enrich")
          /\ batch' = [batch EXCEPT ![t] = {e}]
     ELSE UNCHANGED <<pc, batch>>
  /\ UNCHANGED <<repoVars, events, timer, todo, outcome, exited>>

(* Store of the merged record: the transaction, then the document.         *)
StoreEnriched(t, ok) ==
  /\ ~exited
  /\ pc[t] = "enrich"
  /\ MayReturn(ok)
  /\ IF ok
     THEN /\ WriteBadger(batch[t], Enriched)
          /\ Goto(t, "reindex")
          /\ UNCHANGED batch
     ELSE Return(t) /\ UNCHANGED repoVars
  /\ UNCHANGED <<events, timer, todo, tasks, outcome, exited>>

IndexEnriched(t, ok) ==
  /\ ~exited
  /\ pc[t] = "reindex"
  /\ MayReturn(ok)
  /\ IF ok
     THEN WriteBluge(batch[t], Enriched)
     ELSE UNCHANGED repoVars
  /\ Return(t)
  /\ UNCHANGED <<events, timer, todo, tasks, outcome, exited>>

(* main returns after orchestrator.Stop, whatever the sink is doing.       *)
Exit ==
  /\ ~exited
  /\ MayExit
  /\ exited' = TRUE
  /\ UNCHANGED <<repoVars, events, timer, pc, batch, todo, tasks, outcome>>

\* What an actor does inside flush.
FlushStep(a) ==
  \/ Flush(a)
  \/ \E e \in Entities, ok \in BOOLEAN : EnqueueTask(a, e, ok)
  \/ \E ok \in BOOLEAN : StoreBatch(a, ok) \/ IndexBatch(a, ok)

EnrichStep(t) == \E ok \in BOOLEAN : StoreEnriched(t, ok) \/ IndexEnriched(t, ok)

Next ==
  \/ \E t \in Threads, e \in Entities : HandleNewFile(t, e) \/ HandleAnalysisSegment(t, e)
  \/ \E c \in Callbacks : TimerFires(c)
  \/ \E a \in Actors : FlushStep(a)
  \/ \E t \in Threads : EnrichStep(t)
  \/ Exit

Spec == Init /\ [][Next]_vars

(* Timers fire, and a goroutine inside flush keeps running.                *)
Fairness ==
  /\ WF_vars(\E c \in Callbacks : TimerFires(c))
  /\ \A a \in Actors : WF_vars(FlushStep(a))

FairSpec == Spec /\ Fairness
-----------------------------------------------------------------------------
(* Every variable keeps the values its Go type and the call graph allow.   *)
TypeOK ==
  /\ RepoTypeOK
  /\ events \subseteq Entities
  /\ timer \in {"nil", "armed", "fired"}
  /\ pc \in [Actors -> {"idle", "flush", "enqueue", "index", "enrich", "reindex"}]
  /\ batch \in [Actors -> SUBSET Entities]
  /\ todo \in [Actors -> SUBSET Entities]
  /\ tasks \subseteq Entities
  /\ outcome \in [Entities -> {"new", "accepted", "stored", "failed"}]
  /\ exited \in BOOLEAN

(* Data is never stuck in the buffer: as long as it holds a file, a timer  *)
(* is armed or a goroutine that was told to flush has not done so yet.     *)
(* The two critical sections race: a callback that fired before a flush by *)
(* size may empty the next batch and stop that batch's timer.              *)
NoStuckBatch ==
  /\ timer = "nil" <=> events = {}
  /\ timer = "fired" => \E a \in Actors : pc[a] = "flush"

\* Workers that filled the buffer and have not flushed it yet.
Flushing == {t \in Threads : pc[t] = "flush"}

(* maxAnalyzedEvent is exceeded only by the workers caught between the     *)
(* unlock of handleNewFile and the lock of flush, one file each.           *)
BufferBound == Cardinality(events) < MaxAnalyzedEvent + Cardinality(Flushing)

\* The files of a that are not in the primary store yet.
Unstored(a) == IF pc[a] = "enqueue" THEN batch[a] ELSE {}

(* An accepted file is in the buffer or in exactly one batch until it is   *)
(* stored or its batch fails: the memory swap of flush neither loses nor   *)
(* duplicates one.                                                         *)
ExactlyOnce ==
  /\ \A e \in Entities :
       outcome[e] = "accepted" <=> e \in events \/ \E a \in Actors : e \in Unstored(a)
  /\ \A a \in Actors : Unstored(a) \cap events = {}
  /\ \A a, b \in Actors : a # b => Unstored(a) \cap Unstored(b) = {}

(* Whatever a search on the namespace matches can be hydrated: a document  *)
(* is never in the index before its record is in the primary store, under  *)
(* the same namespace ("hydration_failed" is not logged).                  *)
SearchIsHydrated == SearchAndHydrate(Namespace) = SearchPaginated(Namespace)

\* What the files have gone through, as the abstract specification sees it.
FileStatus == [e \in Entities |-> IF badger[e] = Enriched THEN "enriched" ELSE outcome[e]]

Lifecycle == INSTANCE AnalysisLifecycle WITH Files <- Entities, status <- FileStatus

(* The sink implements the life cycle: one outcome per file, batches that  *)
(* are stored or fail as a whole, and no late write of a scan's record     *)
(* over an enriched one.                                                   *)
ImplementsLifecycle == Lifecycle!Spec

(* As long as the process runs, every accepted file is stored or fails:    *)
(* the abstract fairness follows from the timer's and the goroutines'.     *)
SettlesFiles == []~exited => Lifecycle!Settles
=============================================================================
