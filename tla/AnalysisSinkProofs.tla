------------------------- MODULE AnalysisSinkProofs -------------------------
(***************************************************************************)
(* The buffer of AnalysisSink never gets stuck, stays within its bound and *)
(* hands every file over exactly once, for every number of workers, files  *)
(* and batch size; and the sink implements AnalysisLifecycle.              *)
(***************************************************************************)
EXTENDS AnalysisSink, FiniteSetTheorems, TLAPS

(* What the actors between two writes rely on: a record is in the primary  *)
(* store exactly when its file was stored, the records an actor is about   *)
(* to index or to enrich are there, enrichment treats one file at a time,  *)
(* and the index is never ahead of the store.                              *)
StoreInv ==
  /\ \A e \in Entities : badger[e] # NoRecord <=> outcome[e] = "stored"
  /\ \A a \in Actors : pc[a] \in {"index", "enrich", "reindex"} =>
       \A e \in batch[a] : badger[e] # NoRecord
  /\ \A a \in Actors : pc[a] = "enrich" => \E e \in Entities : batch[a] = {e}
  /\ \A e \in Entities : bluge[e] # NoRecord => badger[e] # NoRecord

IInv == TypeOK /\ NoStuckBatch /\ BufferBound /\ ExactlyOnce /\ StoreInv

USE DEF Actors

-----------------------------------------------------------------------------
(* The three records differ.                                               *)
LEMMA Records ==
  /\ NoRecord # Scan
  /\ NoRecord # Enriched
  /\ Scan # Enriched
BY Zenon DEF NoRecord, Scan, Enriched, Namespace

(* The buffer and the set of flushing workers are finite.                  *)
LEMMA Finiteness ==
  ASSUME TypeOK
  PROVE  /\ IsFiniteSet(events) /\ Cardinality(events) \in Nat
         /\ IsFiniteSet(Flushing) /\ Cardinality(Flushing) \in Nat
<1>1. IsFiniteSet(events)
  BY AnalysisSinkAssumption, FS_Subset DEF TypeOK
<1>2. Flushing \subseteq Threads
  BY DEF Flushing
<1>3. IsFiniteSet(Flushing)
  BY <1>2, AnalysisSinkAssumption, FS_Subset
<1> QED BY <1>1, <1>3, FS_CardinalityType

(* Init establishes the invariant.                                         *)
LEMMA InitIInv == Init => IInv
<1> SUFFICES ASSUME Init PROVE IInv
  OBVIOUS
<1> USE DEF Init, RepoInit
<1>1. TypeOK
  BY Zenon DEF TypeOK, RepoTypeOK, Record
<1>2. NoStuckBatch
  BY DEF NoStuckBatch
<1>3. BufferBound
  <2>1. Cardinality(events) = 0
    BY FS_EmptySet
  <2> QED BY <1>1, <2>1, Finiteness, AnalysisSinkAssumption DEF BufferBound
<1>4. ExactlyOnce
  BY DEF ExactlyOnce, Unstored
<1>5. StoreInv
  BY DEF StoreInv
<1> QED BY <1>1, <1>2, <1>3, <1>4, <1>5 DEF IInv

(* A step that neither touches the buffer nor lets a worker begin or end   *)
(* a wait for the lock of flush keeps the bound.                           *)
LEMMA BoundKept ==
  ASSUME BufferBound, TypeOK, events' = events, Flushing' = Flushing
  PROVE  BufferBound'
BY DEF BufferBound

-----------------------------------------------------------------------------
(* AnalysisSink.handleNewFile preserves IInv: buffering arms the timer.     *)
LEMMA HandleNewFileStep ==
  ASSUME IInv, NEW t \in Threads, NEW e \in Entities, HandleNewFile(t, e)
  PROVE  IInv'
<1> USE DEF IInv, HandleNewFile, Goto, StartTimer, IsFull
<1>1. TypeOK'
  BY DEF TypeOK, RepoTypeOK, repoVars
<1>2. /\ IsFiniteSet(events) /\ Cardinality(events) \in Nat
      /\ IsFiniteSet(events') /\ Cardinality(events') \in Nat
      /\ IsFiniteSet(Flushing) /\ Cardinality(Flushing) \in Nat
      /\ IsFiniteSet(Flushing') /\ Cardinality(Flushing') \in Nat
  <2>1. IsFiniteSet(events') /\ Cardinality(events') \in Nat
    <3>1. events' \subseteq Entities
      BY <1>1 DEF TypeOK
    <3> QED BY <3>1, AnalysisSinkAssumption, FS_Subset, FS_CardinalityType
  <2>2. Flushing' \subseteq Threads
    BY DEF Flushing
  <2>3. IsFiniteSet(Flushing') /\ Cardinality(Flushing') \in Nat
    BY <2>2, AnalysisSinkAssumption, FS_Subset, FS_CardinalityType
  <2> QED BY <2>1, <2>3, Finiteness
<1>3. Cardinality(events') <= Cardinality(events) + 1
  BY <1>2, FS_AddElement
<1>4. e \notin events
  BY DEF ExactlyOnce
<1>5. NoStuckBatch'
  <2>1. events = {} => Cardinality(events') = 1
    <3>1. events = {} => events' = {e}
      OBVIOUS
    <3> QED BY <3>1, FS_Singleton, Zenon
  <2>2. events' # {}
    OBVIOUS
  <2>3. CASE events = {}
    BY <2>1, <2>2, <2>3 DEF NoStuckBatch
  <2>4. CASE events # {}
    <3>1. timer # "nil" /\ timer' = timer
      BY <2>4 DEF NoStuckBatch
    <3>2. ASSUME NEW a \in Actors, pc[a] = "flush" PROVE pc'[a] = "flush"
      BY <3>2 DEF TypeOK
    <3> QED BY <2>2, <3>1, <3>2 DEF NoStuckBatch
  <2> QED BY <2>3, <2>4
<1>6. BufferBound'
  <2>1. CASE Cardinality(events') < MaxAnalyzedEvent
    BY <1>2, <2>1, AnalysisSinkAssumption DEF BufferBound
  <2>2. CASE ~(Cardinality(events') < MaxAnalyzedEvent)
    <3>1. Flushing' = Flushing \cup {t} /\ t \notin Flushing
      BY <1>2, <2>2, AnalysisSinkAssumption DEF Flushing, TypeOK
    <3>2. Cardinality(Flushing') = Cardinality(Flushing) + 1
      BY <1>2, <3>1, FS_AddElement
    <3> QED BY <1>2, <1>3, <3>2, AnalysisSinkAssumption DEF BufferBound
  <2> QED BY <2>1, <2>2
<1>7. \A a \in Actors : Unstored(a)' = Unstored(a)
  BY DEF Unstored, TypeOK
<1>8. ExactlyOnce'
  <2>1. \A a \in Actors : e \notin Unstored(a)
    BY DEF ExactlyOnce
  <2>2. \A x \in Entities : outcome'[x] = "accepted" <=> x = e \/ outcome[x] = "accepted"
    BY DEF TypeOK
  <2>3. (\A a \in Actors : Unstored(a) \cap events = {})'
    BY <1>7, <2>1 DEF ExactlyOnce
  <2>4. (\A a, b \in Actors : a # b => Unstored(a) \cap Unstored(b) = {})'
    BY <1>7 DEF ExactlyOnce
  <2>5. (\A x \in Entities :
          outcome[x] = "accepted" <=> x \in events \/ \E a \in Actors : x \in Unstored(a))'
    BY <1>7, <2>2 DEF ExactlyOnce
  <2> QED BY <2>3, <2>4, <2>5 DEF ExactlyOnce
<1>9. StoreInv'
  <2>1. \A x \in Entities : outcome'[x] = "stored" <=> outcome[x] = "stored"
    BY DEF TypeOK
  <2>2. \A a \in Actors : pc'[a] \in {"index", "enrich", "reindex"} => pc'[a] = pc[a]
    BY DEF TypeOK
  <2> QED BY <2>1, <2>2 DEF StoreInv, repoVars
<1> QED BY <1>1, <1>5, <1>6, <1>8, <1>9

(* The AfterFunc timer firing preserves IInv.                               *)
LEMMA TimerFiresStep ==
  ASSUME IInv, NEW c \in Callbacks, TimerFires(c)
  PROVE  IInv'
<1> USE DEF IInv, TimerFires, Goto
<1>1. TypeOK'
  BY DEF TypeOK, RepoTypeOK, repoVars
<1>2. NoStuckBatch'
  <2>1. pc'[c] = "flush"
    BY DEF TypeOK
  <2> QED BY <2>1 DEF NoStuckBatch
<1>3. BufferBound'
  <2>1. Flushing' = Flushing
    BY AnalysisSinkAssumption DEF Flushing, TypeOK
  <2> QED BY <2>1, BoundKept
<1>4. \A a \in Actors : Unstored(a)' = Unstored(a)
  BY DEF Unstored, TypeOK
<1>5. ExactlyOnce'
  BY <1>4 DEF ExactlyOnce
<1>6. StoreInv'
  <2>1. \A a \in Actors : pc'[a] \in {"index", "enrich", "reindex"} => pc'[a] = pc[a]
    BY DEF TypeOK
  <2> QED BY <2>1 DEF StoreInv, repoVars
<1> QED BY <1>1, <1>2, <1>3, <1>5, <1>6

(* flush swapping the batch out of the buffer preserves IInv.               *)
LEMMA FlushActionStep ==
  ASSUME IInv, NEW a \in Actors, Flush(a)
  PROVE  IInv'
<1> USE DEF IInv, Flush, Swap, Goto
<1>1. TypeOK'
  BY DEF TypeOK, RepoTypeOK, repoVars
<1>2. NoStuckBatch'
  BY DEF NoStuckBatch
<1>3. BufferBound'
  <2>1. Cardinality(events') = 0
    BY FS_EmptySet
  <2>2. Flushing' \subseteq Threads
    BY DEF Flushing
  <2>3. Cardinality(Flushing') \in Nat
    BY <2>2, AnalysisSinkAssumption, FS_Subset, FS_CardinalityType
  <2> QED BY <2>1, <2>3, AnalysisSinkAssumption DEF BufferBound
<1>4. Unstored(a) = {} /\ Unstored(a)' = events
  BY DEF Unstored, TypeOK
<1>5. \A b \in Actors \ {a} : Unstored(b)' = Unstored(b)
  BY DEF Unstored, TypeOK
<1>6. ExactlyOnce'
  <2>1. (\A b \in Actors : Unstored(b) \cap events = {})'
    OBVIOUS
  <2>2. (\A b, d \in Actors : b # d => Unstored(b) \cap Unstored(d) = {})'
    BY <1>4, <1>5 DEF ExactlyOnce
  <2>3. (\A x \in Entities :
          outcome[x] = "accepted" <=> x \in events \/ \E b \in Actors : x \in Unstored(b))'
    <3> SUFFICES ASSUME NEW x \in Entities
                 PROVE  outcome[x] = "accepted" <=> \E b \in Actors : x \in Unstored(b)'
      OBVIOUS
    <3> QED BY <1>4, <1>5 DEF ExactlyOnce
  <2> QED BY <2>1, <2>2, <2>3 DEF ExactlyOnce
<1>7. StoreInv'
  <2>1. \A b \in Actors : pc'[b] \in {"index", "enrich", "reindex"} =>
          pc'[b] = pc[b] /\ batch'[b] = batch[b]
    BY DEF TypeOK
  <2> QED BY <2>1 DEF StoreInv, repoVars
<1> QED BY <1>1, <1>2, <1>3, <1>6, <1>7

(* flush creating the download task of one file preserves IInv.             *)
LEMMA EnqueueTaskStep ==
  ASSUME IInv, NEW a \in Actors, NEW e \in Entities, NEW ok \in BOOLEAN, EnqueueTask(a, e, ok)
  PROVE  IInv'
<1> USE DEF IInv, EnqueueTask
<1>1. TypeOK'
  BY Zenon DEF TypeOK, RepoTypeOK, repoVars
<1>2. NoStuckBatch'
  BY DEF NoStuckBatch
<1>3. BufferBound'
  BY BoundKept DEF Flushing
<1>4. ExactlyOnce'
  BY DEF ExactlyOnce, Unstored
<1>5. StoreInv'
  BY Zenon DEF StoreInv, repoVars
<1> QED BY <1>1, <1>2, <1>3, <1>4, <1>5

(* A step of actor a after which its pc is new and its batch is nb leaves  *)
(* the buffer's invariants alone if a was not waiting for the lock.        *)
LEMMA BufferUntouched ==
  ASSUME IInv, NEW a \in Actors, NEW new, new # "flush", new # "enqueue", pc[a] # "flush",
         pc' = [pc EXCEPT ![a] = new], UNCHANGED <<events, timer>>
  PROVE  NoStuckBatch' /\ BufferBound'
<1> USE DEF IInv
<1>1. \A b \in Actors : pc'[b] = "flush" <=> pc[b] = "flush"
  BY DEF TypeOK
<1>2. Flushing' = Flushing
  BY <1>1 DEF Flushing
<1> QED BY <1>1, <1>2, BoundKept DEF NoStuckBatch

(* StoreBatch's Badger transaction preserves IInv.                          *)
LEMMA StoreBatchStep ==
  ASSUME IInv, NEW a \in Actors, NEW ok \in BOOLEAN, StoreBatch(a, ok)
  PROVE  IInv'
<1> USE DEF IInv, StoreBatch, Goto, Return, WriteBadger, Put
<1>1. TypeOK'
  <2>1. CASE ok
    BY <2>1, Zenon DEF TypeOK, RepoTypeOK, Record
  <2>2. CASE ~ok
    BY <2>2, Zenon DEF TypeOK, RepoTypeOK, Record, repoVars
  <2> QED BY <2>1, <2>2
<1>2. NoStuckBatch' /\ BufferBound'
  <2>1. CASE ok
    BY <2>1, BufferUntouched, Zenon
  <2>2. CASE ~ok
    BY <2>2, BufferUntouched, Zenon
  <2> QED BY <2>1, <2>2, Zenon
<1>3. Unstored(a) = batch[a] /\ Unstored(a)' = {}
  BY Zenon DEF Unstored, TypeOK
<1>4. \A b \in Actors \ {a} : Unstored(b)' = Unstored(b)
  BY Zenon DEF Unstored, TypeOK
<1>5. \A x \in batch[a] : outcome[x] = "accepted" /\ badger[x] = NoRecord
  BY <1>3 DEF ExactlyOnce, StoreInv, TypeOK
<1>6. ExactlyOnce'
  <2>1. (\A b \in Actors : Unstored(b) \cap events = {})'
    BY <1>3, <1>4, Zenon DEF ExactlyOnce
  <2>2. (\A b, d \in Actors : b # d => Unstored(b) \cap Unstored(d) = {})'
    BY <1>3, <1>4 DEF ExactlyOnce
  <2>3. \A x \in Entities :
          outcome'[x] = "accepted" <=> outcome[x] = "accepted" /\ x \notin batch[a]
    BY Zenon
  <2>4. (\A x \in Entities :
          outcome[x] = "accepted" <=> x \in events \/ \E b \in Actors : x \in Unstored(b))'
    BY <1>3, <1>4, <2>3 DEF ExactlyOnce
  <2> QED BY <2>1, <2>2, <2>4, Zenon DEF ExactlyOnce
<1>7. StoreInv'
  <2>1. CASE ok
    <3>1. \A x \in Entities : badger'[x] = IF x \in batch[a] THEN Scan ELSE badger[x]
      BY <2>1, Zenon
    <3>2. \A x \in Entities : badger[x] # NoRecord => badger'[x] # NoRecord
      BY <3>1, Records, Zenon
    <3>3. \A x \in Entities : badger'[x] # NoRecord <=> outcome'[x] = "stored"
      BY <2>1, <3>1, Records, Zenon DEF StoreInv
    <3>4. \A b \in Actors : b # a => pc'[b] = pc[b]
      BY <2>1, Zenon DEF TypeOK
    <3>5. pc'[a] = "index" /\ batch' = batch /\ bluge' = bluge
      BY <2>1, Zenon DEF TypeOK
    <3>6. \A x \in batch[a] : badger'[x] # NoRecord
      BY <3>1, Records, Zenon DEF TypeOK
    <3>7. \A b \in Actors : batch[b] \subseteq Entities
      BY Zenon DEF TypeOK
    <3> QED BY <3>2, <3>3, <3>4, <3>5, <3>6, <3>7 DEF StoreInv
  <2>2. CASE ~ok
    <3>1. \A x \in Entities : outcome'[x] = "stored" <=> outcome[x] = "stored"
      BY <1>5, <2>2, Zenon
    <3>2. \A b \in Actors : pc'[b] \in {"index", "enrich", "reindex"} =>
            pc'[b] = pc[b] /\ batch'[b] = batch[b]
      BY <2>2, Zenon DEF TypeOK
    <3> QED BY <2>2, <3>1, <3>2 DEF StoreInv, repoVars
  <2> QED BY <2>1, <2>2
<1> QED BY <1>1, <1>2, <1>6, <1>7, Zenon

(* StoreBatch's Bluge batch preserves IInv.                                 *)
LEMMA IndexBatchStep ==
  ASSUME IInv, NEW a \in Actors, NEW ok \in BOOLEAN, IndexBatch(a, ok)
  PROVE  IInv'
<1> USE DEF IInv, IndexBatch, Goto, Return, WriteBluge, Put
<1>1. TypeOK'
  <2>1. CASE ok
    BY <2>1, Zenon DEF TypeOK, RepoTypeOK, Record
  <2>2. CASE ~ok
    BY <2>2, Zenon DEF TypeOK, RepoTypeOK, Record, repoVars
  <2> QED BY <2>1, <2>2
<1>2. NoStuckBatch' /\ BufferBound'
  BY BufferUntouched, Zenon
<1>3. \A b \in Actors : Unstored(b)' = Unstored(b)
  BY Zenon DEF Unstored, TypeOK
<1>4. ExactlyOnce'
  BY <1>3 DEF ExactlyOnce
<1>5. StoreInv'
  <2>1. \A b \in Actors : pc'[b] \in {"index", "enrich", "reindex"} =>
          pc'[b] = pc[b] /\ batch'[b] = batch[b]
    BY Zenon DEF TypeOK
  <2>2. badger' = badger
    BY DEF repoVars
  <2>3. \A x \in Entities : bluge'[x] # NoRecord => bluge[x] # NoRecord \/ x \in batch[a]
    BY DEF repoVars
  <2> QED BY <2>1, <2>2, <2>3 DEF StoreInv
<1> QED BY <1>1, <1>2, <1>4, <1>5

(* handleAnalysisSegment looking an analysis up preserves IInv.             *)
LEMMA SegmentStep ==
  ASSUME IInv, NEW t \in Threads, NEW e \in Entities, HandleAnalysisSegment(t, e)
  PROVE  IInv'
<1> USE DEF IInv, HandleAnalysisSegment, Goto
<1>1. CASE ~Fetchable(DriveID, e)
  <2>1. TypeOK'
    BY <1>1, Zenon DEF TypeOK, RepoTypeOK, repoVars
  <2>2. BufferBound'
    BY <1>1, BoundKept DEF Flushing
  <2> QED BY <1>1, <2>1, <2>2 DEF NoStuckBatch, ExactlyOnce, Unstored, StoreInv, repoVars
<1>2. CASE Fetchable(DriveID, e)
  <2>1. TypeOK'
    BY <1>2 DEF TypeOK, RepoTypeOK, repoVars
  <2>2. NoStuckBatch' /\ BufferBound'
    BY <1>2, BufferUntouched
  <2>3. \A b \in Actors : Unstored(b)' = Unstored(b)
    BY <1>2, Zenon DEF Unstored, TypeOK
  <2>4. ExactlyOnce'
    BY <2>3 DEF ExactlyOnce
  <2>5. StoreInv'
    <3>1. pc'[t] = "enrich" /\ batch'[t] = {e} /\ badger[e] # NoRecord
      BY <1>2, Zenon DEF TypeOK, Fetchable
    <3>2. \A b \in Actors : b # t => pc'[b] = pc[b] /\ batch'[b] = batch[b]
      BY <1>2, Zenon DEF TypeOK
    <3> QED BY <3>1, <3>2 DEF StoreInv, repoVars
  <2> QED BY <2>1, <2>2, <2>4, <2>5
<1> QED BY <1>1, <1>2, Zenon

(* Store's Badger write of an enriched analysis preserves IInv.             *)
LEMMA StoreEnrichedStep ==
  ASSUME IInv, NEW t \in Threads, NEW ok \in BOOLEAN, StoreEnriched(t, ok)
  PROVE  IInv'
<1> USE DEF IInv, StoreEnriched, Goto, Return, WriteBadger, Put
<1>1. TypeOK'
  <2>1. CASE ok
    BY <2>1, Zenon DEF TypeOK, RepoTypeOK, Record
  <2>2. CASE ~ok
    BY <2>2, Zenon DEF TypeOK, RepoTypeOK, Record, repoVars
  <2> QED BY <2>1, <2>2
<1>2. NoStuckBatch' /\ BufferBound'
  <2>1. CASE ok
    BY <2>1, BufferUntouched, Zenon
  <2>2. CASE ~ok
    BY <2>2, BufferUntouched, Zenon
  <2> QED BY <2>1, <2>2, Zenon
<1>3. \A b \in Actors : Unstored(b)' = Unstored(b)
  BY Zenon DEF Unstored, TypeOK
<1>4. ExactlyOnce'
  BY <1>3 DEF ExactlyOnce
<1>5. StoreInv'
  <2>1. \A x \in Entities : badger'[x] # NoRecord <=> badger[x] # NoRecord
    <3>1. CASE ok
      BY <3>1, Records DEF StoreInv
    <3>2. CASE ~ok
      BY <3>2 DEF repoVars
    <3> QED BY <3>1, <3>2, Zenon
  <2>2. \A b \in Actors : b # t => pc'[b] = pc[b] /\ batch'[b] = batch[b]
    BY Zenon DEF TypeOK
  <2>3. (pc'[t] = "reindex" /\ batch'[t] = batch[t]) \/ pc'[t] = "idle"
    BY Zenon DEF TypeOK
  <2>4. bluge' = bluge
    BY DEF repoVars
  <2>5. \A b \in Actors : batch[b] \subseteq Entities
    BY Zenon DEF TypeOK
  <2> QED BY <2>1, <2>2, <2>3, <2>4, <2>5 DEF StoreInv
<1> QED BY <1>1, <1>2, <1>4, <1>5, Zenon

(* Store's Bluge update of an enriched analysis preserves IInv.             *)
LEMMA IndexEnrichedStep ==
  ASSUME IInv, NEW t \in Threads, NEW ok \in BOOLEAN, IndexEnriched(t, ok)
  PROVE  IInv'
<1> USE DEF IInv, IndexEnriched, Goto, Return, WriteBluge, Put
<1>1. TypeOK'
  <2>1. CASE ok
    BY <2>1, Zenon DEF TypeOK, RepoTypeOK, Record
  <2>2. CASE ~ok
    BY <2>2, Zenon DEF TypeOK, RepoTypeOK, Record, repoVars
  <2> QED BY <2>1, <2>2
<1>2. NoStuckBatch' /\ BufferBound'
  BY BufferUntouched, Zenon
<1>3. \A b \in Actors : Unstored(b)' = Unstored(b)
  BY Zenon DEF Unstored, TypeOK
<1>4. ExactlyOnce'
  BY <1>3 DEF ExactlyOnce
<1>5. StoreInv'
  <2>1. \A b \in Actors : pc'[b] \in {"index", "enrich", "reindex"} =>
          pc'[b] = pc[b] /\ batch'[b] = batch[b]
    BY Zenon DEF TypeOK
  <2>2. badger' = badger
    BY DEF repoVars
  <2>3. \A x \in Entities : bluge'[x] # NoRecord => bluge[x] # NoRecord \/ x \in batch[t]
    BY DEF repoVars
  <2> QED BY <2>1, <2>2, <2>3 DEF StoreInv
<1> QED BY <1>1, <1>2, <1>4, <1>5, Zenon

-----------------------------------------------------------------------------
(* The invariant is inductive.                                             *)
LEMMA NextIInv == IInv /\ [Next]_vars => IInv'
<1> SUFFICES ASSUME IInv, [Next]_vars PROVE IInv'
  OBVIOUS
<1>1. CASE UNCHANGED vars
  <2>1. UNCHANGED <<badger, bluge, events, timer, pc, batch, todo, tasks, outcome, exited>>
    BY <1>1 DEF vars, sinkVars, repoVars
  <2>2. BufferBound'
    BY <2>1, BoundKept DEF IInv, Flushing
  <2> QED BY <2>1, <2>2 DEF IInv, TypeOK, RepoTypeOK, NoStuckBatch, ExactlyOnce, Unstored, StoreInv
<1>2. CASE Exit
  <2>1. BufferBound'
    BY <1>2, BoundKept DEF Exit, IInv, Flushing
  <2> QED BY <1>2, <2>1 DEF Exit, IInv, TypeOK, RepoTypeOK, NoStuckBatch, ExactlyOnce,
                            Unstored, StoreInv, repoVars
<1>3. ASSUME NEW t \in Threads, NEW e \in Entities,
             HandleNewFile(t, e) \/ HandleAnalysisSegment(t, e)
      PROVE  IInv'
  BY <1>3, HandleNewFileStep, SegmentStep
<1>4. ASSUME NEW c \in Callbacks, TimerFires(c) PROVE IInv'
  BY <1>4, TimerFiresStep
<1>5. ASSUME NEW a \in Actors, FlushStep(a) PROVE IInv'
  BY <1>5, FlushActionStep, EnqueueTaskStep, StoreBatchStep, IndexBatchStep DEF FlushStep
<1>6. ASSUME NEW t \in Threads, EnrichStep(t) PROVE IInv'
  BY <1>6, StoreEnrichedStep, IndexEnrichedStep DEF EnrichStep
<1> QED BY <1>1, <1>2, <1>3, <1>4, <1>5, <1>6 DEF Next

(* IInv holds in every reachable state.                                    *)
THEOREM Invariance == Spec => []IInv
BY InitIInv, NextIInv, PTL DEF Spec

(* Every variable keeps its type.                                          *)
THEOREM TypeCorrect == Spec => []TypeOK
<1>1. IInv => TypeOK
  BY DEF IInv
<1> QED BY <1>1, Invariance, PTL

(* While the buffer of handleNewFile holds a file, a timer is armed or a   *)
(* flush is on its way.                                                    *)
THEOREM BatchesAreNeverStuck == Spec => []NoStuckBatch
<1>1. IInv => NoStuckBatch
  BY DEF IInv
<1> QED BY <1>1, Invariance, PTL

(* The buffer exceeds maxAnalyzedEvent - 1 by at most the number of        *)
(* workers waiting to flush it.                                            *)
THEOREM BufferIsBounded == Spec => []BufferBound
<1>1. IInv => BufferBound
  BY DEF IInv
<1> QED BY <1>1, Invariance, PTL

(* flush hands every accepted file over exactly once.                      *)
THEOREM FilesAreHandedOverOnce == Spec => []ExactlyOnce
<1>1. IInv => ExactlyOnce
  BY DEF IInv
<1> QED BY <1>1, Invariance, PTL

(* Every match of a search on the sink's namespace can be hydrated.        *)
THEOREM SearchesAreHydrated == Spec => []SearchIsHydrated
<1>1. IInv => SearchIsHydrated
  <2> SUFFICES ASSUME IInv, NEW e \in SearchPaginated(Namespace)
               PROVE  Fetchable(Namespace, e)
    BY DEF SearchIsHydrated, SearchAndHydrate
  <2>1. e \in Entities /\ bluge[e] # NoRecord
    BY Zenon DEF SearchPaginated
  <2>2. badger[e] \in {Scan, Enriched}
    BY <2>1 DEF IInv, StoreInv, TypeOK, RepoTypeOK, Record
  <2> QED BY <2>2, Records DEF Fetchable, Scan, Enriched
<1> QED BY <1>1, Invariance, PTL

-----------------------------------------------------------------------------
(* Every step of the sink is a step of the life cycle or leaves it alone.  *)
LEMMA LifecycleStep == IInv /\ [Next]_vars => [Lifecycle!Next]_FileStatus
<1> SUFFICES ASSUME IInv, [Next]_vars PROVE Lifecycle!Next \/ FileStatus' = FileStatus
  OBVIOUS
<1> USE DEF IInv
<1>1. CASE UNCHANGED <<badger, outcome>>
  BY <1>1 DEF FileStatus
<1>2. ASSUME NEW t \in Threads, NEW e \in Entities, HandleNewFile(t, e)
      PROVE  Lifecycle!Next
  <2>1. badger' = badger /\ badger[e] # Enriched
    BY <1>2, Records, Zenon DEF HandleNewFile, repoVars, StoreInv
  <2>2. Lifecycle!Accept(e)
    BY <1>2, <2>1, Zenon DEF HandleNewFile, Lifecycle!Accept, Lifecycle!Move, FileStatus, TypeOK
  <2> QED BY <2>2 DEF Lifecycle!Next
<1>3. ASSUME NEW a \in Actors, NEW ok \in BOOLEAN, StoreBatch(a, ok)
      PROVE  Lifecycle!Next
  <2> USE <1>3 DEF StoreBatch
  <2>1. \A x \in batch[a] : x \in Entities /\ outcome[x] = "accepted" /\ badger[x] # Enriched
    BY Records DEF ExactlyOnce, Unstored, StoreInv, TypeOK
  <2>2. CASE ok
    <3>1. \A x \in Entities : badger'[x] = Enriched <=> badger[x] = Enriched
      BY <2>1, <2>2, Records, Zenon DEF WriteBadger, Put
    <3>2. Lifecycle!StoreBatch(batch[a])
      BY <2>1, <2>2, <3>1, Zenon DEF Lifecycle!StoreBatch, Lifecycle!Move, FileStatus
    <3> QED BY <3>2, Zenon DEF Lifecycle!Next, TypeOK
  <2>3. CASE ~ok
    <3>1. badger' = badger
      BY <2>3, Zenon DEF repoVars
    <3>2. Lifecycle!FailBatch(batch[a])
      BY <2>1, <2>3, <3>1, Zenon DEF Lifecycle!FailBatch, Lifecycle!Move, FileStatus
    <3> QED BY <3>2, Zenon DEF Lifecycle!Next, TypeOK
  <2> QED BY <2>2, <2>3, Zenon
<1>4. ASSUME NEW t \in Threads, NEW ok \in BOOLEAN, StoreEnriched(t, ok)
      PROVE  Lifecycle!Next \/ FileStatus' = FileStatus
  <2> USE <1>4 DEF StoreEnriched
  <2>1. CASE ~ok
    BY <2>1, Zenon DEF repoVars, FileStatus
  <2>2. CASE ok
    <3>1. PICK e \in Entities : batch[t] = {e}
      BY Zenon DEF StoreInv
    <3>2. badger' = [x \in Entities |-> IF x = e THEN Enriched ELSE badger[x]]
      BY <2>2, <3>1, Zenon DEF WriteBadger, Put
    <3>3. badger[e] # NoRecord /\ outcome[e] = "stored"
      BY <3>1, Zenon DEF StoreInv
    <3>4. CASE badger[e] = Enriched
      BY <3>2, <3>4, Zenon DEF FileStatus
    <3>5. CASE badger[e] # Enriched
      <4>1. Lifecycle!Enrich(e)
        BY <3>2, <3>3, <3>5, Zenon DEF Lifecycle!Enrich, Lifecycle!Move, FileStatus
      <4> QED BY <4>1, Zenon DEF Lifecycle!Next
    <3> QED BY <3>4, <3>5, Zenon
  <2> QED BY <2>1, <2>2, Zenon
<1>5. ASSUME NEW a \in Actors, FlushStep(a) PROVE Lifecycle!Next \/ UNCHANGED <<badger, outcome>>
  <2>1. ASSUME Flush(a) PROVE UNCHANGED <<badger, outcome>>
    BY <2>1 DEF Flush, Swap, repoVars
  <2>2. ASSUME NEW e \in Entities, NEW ok \in BOOLEAN, EnqueueTask(a, e, ok)
        PROVE  UNCHANGED <<badger, outcome>>
    BY <2>2, Zenon DEF EnqueueTask, repoVars
  <2>3. ASSUME NEW ok \in BOOLEAN, IndexBatch(a, ok) PROVE UNCHANGED <<badger, outcome>>
    BY <2>3, Zenon DEF IndexBatch, WriteBluge, repoVars
  <2> QED BY <1>3, <1>5, <2>1, <2>2, <2>3, Zenon DEF FlushStep
<1>6. ASSUME NEW t \in Threads, NEW ok \in BOOLEAN, IndexEnriched(t, ok)
      PROVE  UNCHANGED <<badger, outcome>>
  BY <1>6, Zenon DEF IndexEnriched, WriteBluge, repoVars
<1>7. ASSUME NEW t \in Threads, NEW e \in Entities, HandleAnalysisSegment(t, e)
      PROVE  UNCHANGED <<badger, outcome>>
  BY <1>7, Zenon DEF HandleAnalysisSegment, repoVars
<1>8. ASSUME NEW c \in Callbacks, TimerFires(c) PROVE UNCHANGED <<badger, outcome>>
  BY <1>8 DEF TimerFires, repoVars
<1>9. CASE Exit
  BY <1>1, <1>9 DEF Exit, repoVars
<1>10. CASE UNCHANGED vars
  BY <1>1, <1>10 DEF vars, sinkVars, repoVars
<1> QED BY <1>1, <1>2, <1>4, <1>5, <1>6, <1>7, <1>8, <1>9, <1>10, Zenon DEF Next, EnrichStep

(* The sink implements the safety part of the life cycle: a file is        *)
(* accepted once, its batch is stored or fails as a whole, and an enriched *)
(* record is never overwritten by the scan's.                              *)
THEOREM Refinement == Spec => ImplementsLifecycle
<1>1. Init => Lifecycle!Init
  BY Records DEF Init, RepoInit, Lifecycle!Init, FileStatus
<1> QED BY <1>1, LifecycleStep, Invariance, PTL DEF Spec, ImplementsLifecycle, Lifecycle!Spec
=============================================================================
