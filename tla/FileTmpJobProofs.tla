-------------------------- MODULE FileTmpJobProofs --------------------------
(***************************************************************************)
(* FileTmpJob keeps its capacity accounting for every set of files, every  *)
(* capacity and every counter width.                                       *)
(***************************************************************************)
EXTENDS FileTmpJob, FiniteSetTheorems, TLAPS

(* CapacityAccounting alone is not inductive: removeJob decrements for     *)
(* whatever response it gets, so it also takes that every response on its  *)
(* way is the only one of a running job.                                   *)
IInv == TypeOK /\ CapacityAccounting /\ OneResponsePerJob

-----------------------------------------------------------------------------
(* An unsigned value that is in range does not wrap.                       *)
LEMMA UintInRange ==
  ASSUME NEW n \in 0 .. UintSize - 1
  PROVE  Uint(n) = n
  BY FileTmpJobAssumption DEF Uint

(* The actions of the coordinator's goroutines preserve the types.         *)
LEMMA CoordTypes ==
  ASSUME CoordTypeOK, CoordNext
  PROVE  CoordTypeOK'
<1> USE DEF CoordTypeOK, CallState, CollectorState, Response
<1>1. PICK f \in Files :
        \/ \E s \in Specialists : Analyze(f, s) \/ AppendResult(f, s)
        \/ SpawnCollector(f)
        \/ SendResponse(f)
        \/ GiveUpResponse(f)
  BY DEF CoordNext
<1>2. ASSUME NEW s \in Specialists, Analyze(f, s) PROVE CoordTypeOK'
  BY <1>2 DEF Analyze
<1>3. ASSUME NEW s \in Specialists, AppendResult(f, s) PROVE CoordTypeOK'
  BY <1>3 DEF AppendResult, Appended
<1>4. CASE SpawnCollector(f)
  BY <1>4 DEF SpawnCollector
<1>5. CASE SendResponse(f)
  BY <1>5 DEF SendResponse, EndCollector
<1>6. CASE GiveUpResponse(f)
  BY <1>6 DEF GiveUpResponse, EndCollector
<1> QED BY <1>1, <1>2, <1>3, <1>4, <1>5, <1>6, Zenon

(* Init establishes the invariant.                                         *)
LEMMA InitIInv == Init => IInv
<1> SUFFICES ASSUME Init PROVE IInv
  OBVIOUS
<1> USE DEF Init, CoordInit
<1>1. TypeOK
  <2>1. CoordTypeOK
    <3>1. calls \in [Files -> [Specialists -> CallState]]
      BY DEF CallState
    <3>2. seen \in [Files -> [Specialists -> SUBSET Specialists]]
      OBVIOUS
    <3>3. specialistResponseChan \in Seq(Response)
      OBVIOUS
    <3> QED BY <3>1, <3>2, <3>3, Zenon DEF CoordTypeOK, CollectorState
  <2>2. processingFileCount \in 0 .. UintSize - 1
    BY FileTmpJobAssumption
  <2> QED BY <2>1, <2>2 DEF TypeOK, JobState, TmpFileState
<1>2. Cardinality(JobsIn("running")) = 0
  <2>1. JobsIn("running") = {}
    BY DEF JobsIn
  <2> QED BY <2>1, FS_EmptySet, Zenon
<1>3. CapacityAccounting
  BY <1>2, FileTmpJobAssumption DEF CapacityAccounting
<1>4. OneResponsePerJob
  BY DEF OneResponsePerJob, Queued
<1> QED BY <1>1, <1>3, <1>4 DEF IInv

(* Every step preserves the types.                                         *)
LEMMA TypeStep == TypeOK /\ [Next]_vars => TypeOK'
<1> SUFFICES ASSUME TypeOK, [Next]_vars PROVE TypeOK'
  OBVIOUS
<1> USE DEF TypeOK, JobState, TmpFileState
<1>1. ASSUME NEW f \in Files, Arrive(f) PROVE TypeOK'
  BY <1>1 DEF Arrive, coordVars, CoordTypeOK
<1>2. CASE AddJob
  BY <1>2 DEF AddJob, Added, coordVars, CoordTypeOK
<1>3. ASSUME NEW failed \in SUBSET Files, NEW started \in SUBSET Files,
             NEW kept \in SUBSET failed, ProcessJobs(failed, started, kept)
      PROVE  TypeOK'
  <2>1. CoordTypeOK'
    BY <1>3 DEF ProcessJobs, Broadcast, CoordTypeOK, CallState, CollectorState
  <2>2. processingFileCount' \in 0 .. UintSize - 1
    <3>1. Cardinality(started) \in Nat
      BY FS_Subset, FS_CardinalityType, CoordinatorAssumption
    <3> QED BY <1>3, <3>1, FileTmpJobAssumption DEF ProcessJobs, Uint
  <2>3. jobs' \in [Files -> JobState] /\ tmpFile' \in [Files -> TmpFileState]
    BY <1>3 DEF ProcessJobs, DeleteFiles
  <2> QED BY <1>3, <2>1, <2>2, <2>3 DEF ProcessJobs
<1>4. ASSUME NEW refused \in BOOLEAN, HandleSpecialistResponse(refused)
      PROVE  TypeOK'
  <2>1. Head(specialistResponseChan) \in Response
    BY <1>4 DEF HandleSpecialistResponse, CoordTypeOK
  <2>2. jobs' \in [Files -> JobState] /\ tmpFile' \in [Files -> TmpFileState]
    BY <1>4, <2>1, Zenon DEF HandleSpecialistResponse, DeleteFiles, Response
  <2>3. segment' \in Segment
    BY <1>4, <2>1, Zenon DEF HandleSpecialistResponse, Response, Segment
  <2>4. processingFileCount' \in 0 .. UintSize - 1
    BY <1>4, FileTmpJobAssumption DEF HandleSpecialistResponse, Release
  <2>5. CoordTypeOK'
    BY <1>4 DEF HandleSpecialistResponse, CoordTypeOK
  <2> QED BY <1>4, <2>2, <2>3, <2>4, <2>5, Zenon DEF HandleSpecialistResponse
<1>5. CASE SendEvent
  BY <1>5 DEF SendEvent, coordVars, CoordTypeOK
<1>6. CASE Stop
  BY <1>6 DEF Stop, coordVars, CoordTypeOK
<1>7. CASE TakeEvent
  BY <1>7 DEF TakeEvent, coordVars, CoordTypeOK
<1>8. CASE Cancel
  BY <1>8 DEF Cancel, coordVars, workerVars, CoordTypeOK
<1>9. CASE CoordNext /\ UNCHANGED workerVars
  BY <1>9, CoordTypes DEF workerVars
<1>10. CASE UNCHANGED vars
  BY <1>10 DEF vars, coordVars, workerVars, CoordTypeOK
<1> QED
  BY <1>1, <1>2, <1>3, <1>4, <1>5, <1>6, <1>7, <1>8, <1>9, <1>10, Zenon DEF Next

-----------------------------------------------------------------------------
(* The sets of jobs are finite.                                            *)
LEMMA JobsFinite ==
  ASSUME NEW st
  PROVE  IsFiniteSet(JobsIn(st))
  BY FS_Subset, CoordinatorAssumption DEF JobsIn

(* Below the capacity the unsigned subtraction of processJobs is exact.    *)
LEMMA NbrOfFileExact ==
  ASSUME TypeOK, CapacityAccounting
  PROVE  NbrOfFile = MaxFileToProcess - processingFileCount
<1>1. MaxFileToProcess - processingFileCount \in 0 .. UintSize - 1
  BY FileTmpJobAssumption DEF TypeOK, CapacityAccounting
<1> QED BY <1>1, UintInRange DEF NbrOfFile

(* processJobs starts at most as many files as there is room for, and each *)
(* of them was idle: the counter moves with the set of running jobs.       *)
LEMMA ProcessJobsStep ==
  ASSUME IInv, NEW failed \in SUBSET Files, NEW started \in SUBSET Files,
         NEW kept \in SUBSET failed, ProcessJobs(failed, started, kept)
  PROVE  CapacityAccounting' /\ OneResponsePerJob'
<1> USE DEF IInv
<1>1. /\ failed \cap started = {}
      /\ \A f \in failed \cup started : jobs[f] = "pending"
      /\ Cardinality(started) <= MaxFileToProcess - processingFileCount
  BY NbrOfFileExact DEF ProcessJobs, Selectable, JobsIn
<1>2. \A f \in Files : jobs'[f] = CASE f \in failed -> "absent"
                                     [] f \in started -> "running"
                                     [] OTHER -> jobs[f]
  BY DEF ProcessJobs
<1>3. CapacityAccounting'
  <2>1. JobsIn("running")' = JobsIn("running") \cup started
    BY <1>1, <1>2 DEF JobsIn
  <2>2. JobsIn("running") \cap started = {}
    BY <1>1 DEF JobsIn
  <2>3. IsFiniteSet(started)
    BY FS_Subset, CoordinatorAssumption
  <2>4. /\ Cardinality(started) \in Nat
        /\ Cardinality(JobsIn("running") \cup started)
             = Cardinality(JobsIn("running")) + Cardinality(started)
    <3>1. IsFiniteSet(JobsIn("running"))
      BY JobsFinite
    <3>2. Cardinality(JobsIn("running") \cap started) = 0
      BY <2>2, FS_EmptySet
    <3>3. Cardinality(JobsIn("running")) \in Nat /\ Cardinality(started) \in Nat
      BY <2>3, <3>1, FS_CardinalityType
    <3>4. Cardinality(JobsIn("running") \cup started)
            = Cardinality(JobsIn("running")) + Cardinality(started)
                - Cardinality(JobsIn("running") \cap started)
      BY <2>3, <3>1, FS_Union
    <3> QED BY <3>2, <3>3, <3>4
  <2>5. processingFileCount + Cardinality(started) \in 0 .. MaxFileToProcess
    BY <1>1, <2>4, FileTmpJobAssumption DEF TypeOK
  <2>6. processingFileCount' = processingFileCount + Cardinality(started)
    <3>1. processingFileCount + Cardinality(started) \in 0 .. UintSize - 1
      BY <2>5, FileTmpJobAssumption
    <3> QED BY <3>1, UintInRange DEF ProcessJobs
  <2> QED BY <2>1, <2>4, <2>5, <2>6 DEF CapacityAccounting
<1>4. OneResponsePerJob'
  <2> SUFFICES ASSUME NEW f \in Files
               PROVE  /\ collector'[f] # "none" \/ Queued(f)' # {} => jobs'[f] = "running"
                      /\ collector'[f] # "none" => Queued(f)' = {}
                      /\ \A i, j \in Queued(f)' : i = j
    BY Zenon DEF OneResponsePerJob
  <2>1. Queued(f)' = Queued(f)
    BY DEF ProcessJobs, Broadcast, Queued
  <2>2. f \notin started => collector'[f] = collector[f]
    BY DEF ProcessJobs, Broadcast
  <2>3. f \in started \cup failed => collector[f] = "none" /\ Queued(f) = {}
    BY <1>1 DEF OneResponsePerJob
  <2> QED BY <1>1, <1>2, <2>1, <2>2, <2>3 DEF OneResponsePerJob
<1> QED BY <1>3, <1>4

(* The response at the head of the queue is the only one of a running job: *)
(* removeJob takes that job away and decrements once.                      *)
LEMMA HandleStep ==
  ASSUME IInv, NEW refused \in BOOLEAN, HandleSpecialistResponse(refused)
  PROVE  CapacityAccounting' /\ OneResponsePerJob'
<1> USE DEF IInv
<1> DEFINE g == Head(specialistResponseChan).file
<1>1. /\ specialistResponseChan \in Seq(Response)
      /\ specialistResponseChan # <<>>
      /\ specialistResponseChan' = Tail(specialistResponseChan)
      /\ collector' = collector
  BY Zenon DEF HandleSpecialistResponse, TypeOK, CoordTypeOK
<1>2. g \in Files /\ 1 \in Queued(g)
  <2>1. /\ 1 \in DOMAIN specialistResponseChan
        /\ Head(specialistResponseChan) = specialistResponseChan[1]
        /\ specialistResponseChan[1] \in Response
    BY <1>1
  <2> QED BY <2>1 DEF Queued, Response
<1>3. jobs[g] = "running" /\ collector[g] = "none" /\ Queued(g) = {1}
  BY <1>2 DEF OneResponsePerJob
<1>4. jobs' = [jobs EXCEPT ![g] = "absent"]
  BY DEF HandleSpecialistResponse
<1>5. CapacityAccounting'
  <2>1. JobsIn("running")' = JobsIn("running") \ {g} /\ g \in JobsIn("running")
    BY <1>2, <1>3, <1>4 DEF JobsIn, TypeOK
  <2>2. /\ Cardinality(JobsIn("running")) \in Nat \ {0}
        /\ Cardinality(JobsIn("running")') = Cardinality(JobsIn("running")) - 1
    BY <2>1, JobsFinite, FS_RemoveElement, FS_CardinalityType, FS_EmptySet, Zenon
  <2>3. processingFileCount' = processingFileCount - 1
    BY <2>2 DEF HandleSpecialistResponse, Release, CapacityAccounting
  <2> QED BY <2>2, <2>3, FileTmpJobAssumption DEF CapacityAccounting, TypeOK
<1>6. OneResponsePerJob'
  <2> SUFFICES ASSUME NEW f \in Files
               PROVE  /\ collector'[f] # "none" \/ Queued(f)' # {} => jobs'[f] = "running"
                      /\ collector'[f] # "none" => Queued(f)' = {}
                      /\ \A i, j \in Queued(f)' : i = j
    BY DEF OneResponsePerJob
  <2>1. Queued(f)' \subseteq Int /\ \A i \in Queued(f)' : i >= 1 /\ i + 1 \in Queued(f)
    BY <1>1 DEF Queued
  <2>2. Queued(f) = {} => Queued(f)' = {}
    BY <2>1
  <2>3. f = g => Queued(f)' = {}
    BY <1>3, <2>1
  <2>4. f # g => jobs'[f] = jobs[f]
    BY <1>4 DEF TypeOK
  <2>5. \A i, j \in Queued(f)' : i = j
    BY <2>1 DEF OneResponsePerJob
  <2> QED BY <1>1, <1>3, <2>2, <2>3, <2>4, <2>5, Zenon DEF OneResponsePerJob
<1> QED BY <1>5, <1>6

(* The goroutines of Broadcast leave the jobs alone, and a collector ends  *)
(* when it sends its response, so the response stays the only one.         *)
LEMMA CoordStep ==
  ASSUME IInv, CoordNext, UNCHANGED workerVars
  PROVE  CapacityAccounting' /\ OneResponsePerJob'
<1> USE DEF IInv
<1>1. jobs' = jobs /\ processingFileCount' = processingFileCount
  BY DEF workerVars
<1>2. CapacityAccounting'
  BY <1>1 DEF CapacityAccounting, JobsIn
<1>3. PICK g \in Files :
        \/ \E s \in Specialists : Analyze(g, s) \/ AppendResult(g, s)
        \/ SpawnCollector(g)
        \/ SendResponse(g)
        \/ GiveUpResponse(g)
  BY DEF CoordNext
<1>4. CASE /\ specialistResponseChan' = specialistResponseChan
           /\ \A f \in Files : collector'[f] # "none" => collector[f] # "none"
  <2>1. \A f \in Files : Queued(f)' = Queued(f)
    BY <1>4, Zenon DEF Queued
  <2> QED BY <1>1, <1>2, <1>4, <2>1 DEF OneResponsePerJob
<1>5. CASE SendResponse(g)
  <2>1. /\ collector[g] = "waiting"
        /\ collector' = [collector EXCEPT ![g] = "none"]
        /\ specialistResponseChan \in Seq(Response)
        /\ specialistResponseChan'
             = Append(specialistResponseChan, [file |-> g, res |-> res[g]])
    BY <1>5, Zenon DEF SendResponse, AllDone, EndCollector, TypeOK, CoordTypeOK
  <2>2. jobs[g] = "running" /\ Queued(g) = {}
    BY <2>1, Zenon DEF OneResponsePerJob
  <2>3. /\ Queued(g)' = {Len(specialistResponseChan) + 1}
        /\ \A f \in Files \ {g} : Queued(f)' = Queued(f)
    BY <2>1, <2>2 DEF Queued
  <2>4. collector'[g] = "none" /\ \A f \in Files \ {g} : collector'[f] = collector[f]
    BY <2>1, Zenon DEF TypeOK, CoordTypeOK
  <2> QED BY <1>1, <1>2, <2>2, <2>3, <2>4 DEF OneResponsePerJob
<1> QED
  <2>1. CASE \E s \in Specialists : Analyze(g, s) \/ AppendResult(g, s)
    BY <1>4, <2>1, Zenon DEF Analyze, AppendResult
  <2>2. CASE SpawnCollector(g)
    BY <1>4, <2>2, Zenon DEF SpawnCollector, TypeOK, CoordTypeOK
  <2>3. CASE GiveUpResponse(g)
    BY <1>4, <2>3, Zenon DEF GiveUpResponse, EndCollector, TypeOK, CoordTypeOK
  <2> QED BY <1>3, <1>5, <2>1, <2>2, <2>3

(* Every step preserves the invariant.                                     *)
LEMMA NextIInv == IInv /\ [Next]_vars => IInv'
<1> SUFFICES ASSUME IInv, [Next]_vars PROVE CapacityAccounting' /\ OneResponsePerJob'
  BY TypeStep DEF IInv
<1>1. CASE UNCHANGED <<jobs, processingFileCount, collector, specialistResponseChan>>
  BY <1>1 DEF IInv, CapacityAccounting, JobsIn, OneResponsePerJob, Queued
<1>2. CASE AddJob
  <2>1. /\ UNCHANGED <<processingFileCount, collector, specialistResponseChan>>
        /\ \A f \in Files : jobs'[f] = "running" <=> jobs[f] = "running"
    BY <1>2, Zenon DEF AddJob, Added, coordVars, IInv, TypeOK, JobState
  <2>2. JobsIn("running")' = JobsIn("running") /\ \A f \in Files : Queued(f)' = Queued(f)
    BY <2>1 DEF JobsIn, Queued
  <2> QED BY <2>1, <2>2, Zenon DEF IInv, CapacityAccounting, OneResponsePerJob
<1>3. ASSUME NEW failed \in SUBSET Files, NEW started \in SUBSET Files,
             NEW kept \in SUBSET failed, ProcessJobs(failed, started, kept)
      PROVE  CapacityAccounting' /\ OneResponsePerJob'
  BY <1>3, ProcessJobsStep
<1>4. ASSUME NEW refused \in BOOLEAN, HandleSpecialistResponse(refused)
      PROVE  CapacityAccounting' /\ OneResponsePerJob'
  BY <1>4, HandleStep
<1>5. CASE CoordNext /\ UNCHANGED workerVars
  BY <1>5, CoordStep
<1>6. (\E f \in Files : Arrive(f)) \/ SendEvent \/ Stop \/ TakeEvent \/ Cancel \/ UNCHANGED vars
        => UNCHANGED <<jobs, processingFileCount, collector, specialistResponseChan>>
  BY Zenon DEF Arrive, SendEvent, Stop, TakeEvent, Cancel, vars, coordVars, workerVars
<1> QED BY <1>1, <1>2, <1>3, <1>4, <1>5, <1>6, Zenon DEF Next

-----------------------------------------------------------------------------
(* FileTmpJob keeps IInv: its types, the accounting and one response per   *)
(* job, together.                                                          *)
THEOREM Invariance == Spec => []IInv
  BY InitIInv, NextIInv, PTL DEF Spec

(* Every variable of the worker and of the coordinator keeps its type.     *)
THEOREM TypeCorrect == Spec => []TypeOK
<1>1. IInv => TypeOK
  BY DEF IInv
<1> QED BY <1>1, Invariance, PTL

(* The counter of processJobs and removeJob is the number of running jobs  *)
(* and never exceeds maxFileToProcess, so that its unsigned subtraction    *)
(* never wraps.                                                            *)
THEOREM CapacityIsAccounted == Spec => []CapacityAccounting
<1>1. IInv => CapacityAccounting
  BY DEF IInv
<1> QED BY <1>1, Invariance, PTL

(* At most one SpecialistResponse is on its way for a file, and only while *)
(* its job is running.                                                     *)
THEOREM ResponsesAreUnique == Spec => []OneResponsePerJob
<1>1. IInv => OneResponsePerJob
  BY DEF IInv
<1> QED BY <1>1, Invariance, PTL
-----------------------------------------------------------------------------
(* What SegmentsAreTheirFiles takes to be inductive: only targets are      *)
(* called, and what a goroutine has read or a collector sent are results   *)
(* of targets.                                                             *)
ResultsInv ==
  /\ \A f \in Files, s \in Specialists :
       /\ calls[f][s] # "none" => s \in Targets[f]
       /\ seen[f][s] \subseteq Targets[f]
  /\ \A i \in DOMAIN specialistResponseChan :
       specialistResponseChan[i].res \subseteq Targets[specialistResponseChan[i].file]

SInv == ResultsInv /\ SegmentsAreTheirFiles

(* Only specialists are targets.                                           *)
LEMMA TargetsAreSpecialists == \A f \in Files : Targets[f] \subseteq Specialists
  BY DEF Targets

\* The worker starts without jobs, calls and events.
LEMMA InitSInv == Init => SInv
<1> SUFFICES ASSUME Init PROVE SInv
  OBVIOUS
<1>1. ResultsInv
  BY DEF Init, CoordInit, ResultsInv
<1>2. SegmentsAreTheirFiles
  BY DEF Init, CoordInit, SegmentsAreTheirFiles
<1> QED BY <1>1, <1>2 DEF SInv

(* The goroutines of Broadcast move results of their file only.            *)
LEMMA CoordSInv ==
  ASSUME IInv, SInv, CoordNext, UNCHANGED workerVars
  PROVE  SInv'
<1> USE DEF IInv, SInv
<1>0. CoordTypeOK
  BY DEF TypeOK
<1>1. PICK g \in Files :
        \/ \E s \in Specialists : Analyze(g, s) \/ AppendResult(g, s)
        \/ SpawnCollector(g)
        \/ SendResponse(g)
        \/ GiveUpResponse(g)
  BY DEF CoordNext
<1>2. ASSUME NEW t \in Specialists, Analyze(g, t) PROVE SInv'
  <2>1. ResultsInv'
    BY <1>0, <1>2 DEF ResultsInv, Analyze, CoordTypeOK, SegmentsAreTheirFiles
  <2>2. UNCHANGED <<results, collector, res, eventChan, worker, segment>>
    BY <1>2 DEF Analyze, workerVars
  <2>3. \A f \in Files, s \in Specialists : calls[f][s] # "none" => calls'[f][s] # "none"
    BY <1>0, <1>2, Zenon DEF Analyze, CoordTypeOK
  <2>4. SegmentsAreTheirFiles'
    BY <2>2, <2>3, TargetsAreSpecialists, Zenon DEF SegmentsAreTheirFiles, OfItsFile
  <2> QED BY <2>1, <2>4
<1>3. ASSUME NEW t \in Specialists, AppendResult(g, t) PROVE SInv'
  <2>1. ResultsInv'
    BY <1>0, <1>3 DEF ResultsInv, AppendResult, CoordTypeOK
  <2>2. results'[g] # {} /\ results'[g] \subseteq Targets[g]
    BY <1>0, <1>3 DEF ResultsInv, AppendResult, Appended, CoordTypeOK
  <2>3. \A f \in Files \ {g} : results'[f] = results[f] /\ calls'[f] = calls[f]
    BY <1>0, <1>3, Zenon DEF AppendResult, CoordTypeOK
  <2>4. SegmentsAreTheirFiles'
    BY <1>3, <2>2, <2>3 DEF AppendResult, SegmentsAreTheirFiles, OfItsFile, workerVars
  <2> QED BY <2>1, <2>4
<1>4. CASE SpawnCollector(g)
  <2>1. ResultsInv'
    BY <1>4, Zenon DEF ResultsInv, SpawnCollector
  <2>2. SegmentsAreTheirFiles'
    BY <1>0, <1>4, Zenon DEF SpawnCollector, CoordTypeOK, SegmentsAreTheirFiles, OfItsFile, workerVars
  <2> QED BY <2>1, <2>2
<1>5. ASSUME EndCollector(g) PROVE SegmentsAreTheirFiles'
  BY <1>0, <1>5, Zenon DEF EndCollector, CoordTypeOK, SegmentsAreTheirFiles, OfItsFile, workerVars
<1>6. CASE SendResponse(g)
  <2>1. res[g] \subseteq Targets[g]
    BY Zenon DEF SegmentsAreTheirFiles
  <2>2. \A i \in DOMAIN specialistResponseChan' :
          specialistResponseChan'[i].res \subseteq Targets[specialistResponseChan'[i].file]
    BY <1>0, <1>6, <2>1 DEF SendResponse, CoordTypeOK, ResultsInv
  <2>3. ResultsInv'
    BY <1>6, <2>2, Zenon DEF SendResponse, EndCollector, ResultsInv
  <2> QED BY <1>5, <1>6, <2>3 DEF SendResponse
<1>7. CASE GiveUpResponse(g)
  <2>1. ResultsInv'
    BY <1>7, Zenon DEF GiveUpResponse, EndCollector, ResultsInv
  <2> QED BY <1>5, <1>7, <2>1 DEF GiveUpResponse
<1> QED BY <1>1, <1>2, <1>3, <1>4, <1>6, <1>7

(* Every step preserves the invariant: the job of a response is running,   *)
(* so removeJob finds it.                                                  *)
LEMMA NextSInv == IInv /\ SInv /\ [Next]_vars => SInv'
<1> SUFFICES ASSUME IInv, SInv, [Next]_vars PROVE SInv'
  BY Zenon
<1> USE DEF IInv, SInv
<1>1. CASE UNCHANGED <<coordVars, eventChan, worker, segment>>
  BY <1>1, Zenon DEF coordVars, ResultsInv, SegmentsAreTheirFiles, OfItsFile
<1>2. ASSUME NEW failed \in SUBSET Files, NEW started \in SUBSET Files,
             NEW kept \in SUBSET failed, ProcessJobs(failed, started, kept)
      PROVE  SInv'
  <2>1. /\ UNCHANGED <<seen, results, res, specialistResponseChan, eventChan, worker, segment>>
        /\ \A f \in Files \ started : calls'[f] = calls[f] /\ collector'[f] = collector[f]
        /\ \A f \in started, s \in Specialists :
             calls'[f][s] = IF s \in Targets[f] THEN "analyzing" ELSE "none"
    BY <1>2 DEF ProcessJobs, Broadcast
  <2>2. ResultsInv'
    BY <2>1 DEF ResultsInv
  <2>3. \A f \in started : collector'[f] # "none" => \E s \in Targets[f] : calls'[f][s] # "none"
    <3> SUFFICES ASSUME NEW f \in started, collector'[f] # "none"
                 PROVE  \E s \in Targets[f] : calls'[f][s] # "none"
      BY Zenon
    <3>1. Targets[f] # {}
      <4>1. jobs[f] = "pending"
        BY <1>2 DEF ProcessJobs, Selectable, JobsIn
      <4>2. collector[f] = "none"
        BY <4>1, Zenon DEF OneResponsePerJob
      <4> QED BY <1>2, <4>2 DEF ProcessJobs, Broadcast
    <3> QED BY <2>1, <3>1, TargetsAreSpecialists, Zenon
  <2>4. SegmentsAreTheirFiles'
    BY <2>1, <2>3 DEF SegmentsAreTheirFiles, OfItsFile
  <2> QED BY <2>2, <2>4
<1>3. ASSUME NEW refused \in BOOLEAN, HandleSpecialistResponse(refused) PROVE SInv'
  <2> DEFINE response == Head(specialistResponseChan)
  <2>1. /\ specialistResponseChan \in Seq(Response) /\ specialistResponseChan # <<>>
        /\ specialistResponseChan' = Tail(specialistResponseChan)
        /\ UNCHANGED <<calls, seen, results, collector, res, eventChan>>
    BY <1>3, Zenon DEF HandleSpecialistResponse, TypeOK, CoordTypeOK
  <2>2. /\ response = specialistResponseChan[1] /\ 1 \in DOMAIN specialistResponseChan
        /\ response.file \in Files
    <3>1. /\ response = specialistResponseChan[1] /\ 1 \in DOMAIN specialistResponseChan
          /\ response \in Response
      BY <2>1
    <3> QED BY <3>1 DEF Response
  <2>3. jobs[response.file] = "running"
    BY <2>2, Zenon DEF OneResponsePerJob, Queued
  <2>4. segment' = [file |-> response.file, known |-> TRUE, res |-> response.res]
    BY <1>3, <2>3, Zenon DEF HandleSpecialistResponse
  <2>5. OfItsFile(segment)'
    BY <2>2, <2>4, Zenon DEF OfItsFile, ResultsInv
  <2>6. \A i \in DOMAIN specialistResponseChan' :
          /\ i + 1 \in DOMAIN specialistResponseChan
          /\ specialistResponseChan'[i] = specialistResponseChan[i + 1]
    BY <2>1
  <2>7. ResultsInv'
    BY <2>1, <2>6 DEF ResultsInv
  <2>8. SegmentsAreTheirFiles'
    BY <2>1, <2>5, Zenon DEF SegmentsAreTheirFiles, OfItsFile
  <2> QED BY <2>7, <2>8
<1>4. CASE SendEvent
  <2>1. OfItsFile(segment)
    BY <1>4, Zenon DEF SendEvent, SegmentsAreTheirFiles
  <2>2. eventChan \in Seq(Segment)
    BY DEF TypeOK
  <2>3. \A i \in DOMAIN eventChan' : OfItsFile(eventChan'[i])
    BY <1>4, <2>1, <2>2 DEF SendEvent, SegmentsAreTheirFiles
  <2>4. worker' = "loop" /\ UNCHANGED coordVars
    BY <1>4 DEF SendEvent
  <2> QED BY <2>3, <2>4, Zenon DEF coordVars, ResultsInv, SegmentsAreTheirFiles, OfItsFile
<1>5. CASE TakeEvent
  <2>1. eventChan \in Seq(Segment)
    BY DEF TypeOK
  <2>2. \A i \in DOMAIN eventChan' : i + 1 \in DOMAIN eventChan /\ eventChan'[i] = eventChan[i + 1]
    BY <1>5, <2>1 DEF TakeEvent
  <2>3. UNCHANGED <<coordVars, worker, segment>>
    BY <1>5 DEF TakeEvent
  <2> QED BY <2>2, <2>3, Zenon DEF coordVars, ResultsInv, SegmentsAreTheirFiles, OfItsFile
<1>6. CASE Stop
  BY <1>6, Zenon DEF Stop, coordVars, ResultsInv, SegmentsAreTheirFiles, OfItsFile
<1>7. CASE CoordNext /\ UNCHANGED workerVars
  BY <1>7, CoordSInv
<1>8. (\E f \in Files : Arrive(f)) \/ AddJob \/ Cancel \/ UNCHANGED vars
        => UNCHANGED <<coordVars, eventChan, worker, segment>>
  BY Zenon DEF Arrive, AddJob, Cancel, vars, workerVars
<1> QED BY <1>1, <1>2, <1>3, <1>4, <1>5, <1>6, <1>7, <1>8, Zenon DEF Next

(* Every event carries the drive of its file and results of that file's    *)
(* specialists only, and a broadcast whose calls have all ended has kept   *)
(* one of their results.                                                   *)
THEOREM SegmentsBelong == Spec => []SegmentsAreTheirFiles
<1>1. SInv => SegmentsAreTheirFiles
  BY DEF SInv
<1> QED BY <1>1, InitSInv, NextSInv, Invariance, PTL DEF Spec

(* Every bare type the scan reports and the sink gives a task is one the   *)
(* downloader keeps and a specialist of cmd/master/main.go handles, where  *)
(* pdf, audio and image stand for the three it lists: the slot of such a   *)
(* file is given back.  A type that is not bare becomes Unknown.           *)
THEOREM AuthorizedIsHandled ==
  ASSUME NEW pdf \in Specialists, NEW audio \in Specialists, NEW image \in Specialists,
         Capabilities[pdf] = PDF, Capabilities[audio] = Audio, Capabilities[image] = Image,
         NEW f \in Files, IsAuthorized(MimeOf[f]), MimeOf[f].bare
  PROVE  Targets[f] # {}
<1>1. MimeOf[f].media \in Audio \cup PDF \cup Image
  BY Zenon DEF IsAuthorized, IsAudio, IsPDF, IsImage, Matches
<1>2. ToMIME(MimeOf[f]) = MimeOf[f].media
  BY <1>1, Zenon DEF ToMIME
<1>3. CanHandle(pdf, MimeOf[f].media) \/ CanHandle(audio, MimeOf[f].media)
        \/ CanHandle(image, MimeOf[f].media)
  BY <1>1, Zenon DEF CanHandle
<1> QED BY <1>2, <1>3, Zenon DEF Targets
=============================================================================
