----------------------------- MODULE FileTmpJob -----------------------------
(***************************************************************************)
(* The worker of runtime/workers/file_tmp_job.go, composed with the        *)
(* coordinator it calls.  Downloaded files arrive on tmpFileLocationChan,  *)
(* become jobs, are broadcast to the specialists while fewer than          *)
(* maxFileToProcess are being processed, and leave when the specialists'   *)
(* response has been turned into an event.                                 *)
(***************************************************************************)
EXTENDS Coordinator

CONSTANTS
  MaxFileToProcess,  \* capacity of the worker, a uint32
  UintSize,          \* number of values of the counter's type: 2^32 in the code
  MaxArrivals,       \* bound: MaxArrivals[f] is how often f is delivered
  MayCancel          \* whether the context can be cancelled

ASSUME FileTmpJobAssumption ==
  /\ UintSize \in Nat
  /\ MaxFileToProcess \in 0 .. UintSize - 1
  /\ MaxArrivals \in [Files -> Nat]
  /\ MayCancel \in BOOLEAN

VARIABLES
  jobs,                 \* jobs[f]: f is not in the map, or its IsRunning flag
  processingFileCount,
  tmpFileLocationChan,
  eventChan,            \* the AnalysisSegment events in the channel
  worker,               \* where Run stands
  segment,              \* the event Run is sending, while worker = "sending"
  tmpFile,              \* tmpFile[f]: the temporary file of f on disk
  arrivals              \* arrivals[f]: how often f has been delivered

workerVars == <<jobs, processingFileCount, tmpFileLocationChan, eventChan,
                worker, segment, tmpFile, arrivals>>
vars == <<coordVars, ctxDone, workerVars>>

JobState == {"absent", "pending", "running"}
TmpFileState == {"none", "there", "stuck"}  \* stuck: os.Remove failed on it
Segment == [file : Files, known : BOOLEAN, res : SUBSET Specialists]
NoSegment == [file |-> {}]

\* Unsigned arithmetic wraps.
Uint(n) == n % UintSize

\* Files whose job is in state st.
JobsIn(st) == {f \in Files : jobs[f] = st}

Init ==
  /\ CoordInit
  /\ jobs = [f \in Files |-> "absent"]
  /\ processingFileCount = 0
  /\ tmpFileLocationChan = <<>>
  /\ eventChan = <<>>
  /\ worker = "loop"
  /\ segment = NoSegment
  /\ tmpFile = [f \in Files |-> "none"]
  /\ arrivals = [f \in Files |-> 0]

-----------------------------------------------------------------------------
(* The accumulator has written f to disk and announces it.                 *)
Arrive(f) ==
  /\ arrivals[f] < MaxArrivals[f]
  /\ Len(tmpFileLocationChan) < BufferSize
  /\ arrivals' = [arrivals EXCEPT ![f] = @ + 1]
  /\ tmpFile' = [tmpFile EXCEPT ![f] = "there"]
  /\ tmpFileLocationChan' = Append(tmpFileLocationChan, f)
  /\ UNCHANGED <<coordVars, ctxDone, jobs, processingFileCount, eventChan, worker, segment>>

\* The entry of the map once its file was announced.
Added(job) == IF job = "absent" THEN "pending" ELSE job

(* Run receives a location: addJob, which ignores a file it already has.   *)
AddJob ==
  /\ worker = "loop"
  /\ tmpFileLocationChan # <<>>
  /\ LET f == Head(tmpFileLocationChan)
     IN  jobs' = [jobs EXCEPT ![f] = Added(@)]
  /\ tmpFileLocationChan' = Tail(tmpFileLocationChan)
  /\ UNCHANGED <<coordVars, ctxDone, processingFileCount, eventChan, worker, segment,
                 tmpFile, arrivals>>

(* The files on disk once deleteFile was called for those of the set gone  *)
(* and failed for those of the set kept.                                   *)
DeleteFiles(gone, kept) ==
  tmpFile' = [f \in Files |-> CASE f \in kept /\ tmpFile[f] # "none" -> "stuck"
                                [] f \in gone \ kept -> "none"
                                [] OTHER -> tmpFile[f]]

\* Mutant: one more than there is room for.
NbrOfFileOffByOne == Uint(MaxFileToProcess + 1 - processingFileCount)

(* Capacity left, as processJobs computes it.                              *)
NbrOfFile == Uint(MaxFileToProcess - processingFileCount)

(* The jobs a pass of processJobs can treat: the map is walked in any      *)
(* order until NbrOfFile files were started.  A broadcast that fails gives *)
(* its slot back, so it does not count.                                    *)
Selectable(failed, started) ==
  /\ failed \cap started = {}
  /\ failed \cup started \subseteq JobsIn("pending")
  /\ Cardinality(started) <= NbrOfFile
  /\ Cardinality(started) < NbrOfFile => failed \cup started = JobsIn("pending")

(* A tick: processJobs broadcasts the files of started, and the broadcasts *)
(* of those of failed return an error (file missing, too large, unreadable)*)
ProcessJobs(failed, started, kept) ==
  /\ worker = "loop"
  /\ NbrOfFile # 0
  /\ Selectable(failed, started)
  /\ \A f \in started : tmpFile[f] # "none"
  /\ Broadcast(started)
  /\ processingFileCount' = Uint(processingFileCount + Cardinality(started))
  /\ jobs' = [f \in Files |-> CASE f \in failed -> "absent"
                                [] f \in started -> "running"
                                [] OTHER -> jobs[f]]
  /\ DeleteFiles(failed, kept)
  /\ UNCHANGED <<ctxDone, tmpFileLocationChan, eventChan, worker, segment, arrivals>>

\* Mutant: removeJob gives no slot back.
ReleaseNone(count) == count

\* removeJob gives a slot back.
Release(count) == IF count > 0 THEN count - 1 ELSE count

(* Run receives a response: removeJob and deleteFile, which the system can *)
(* refuse, up to the select that sends the event.  Without a job the drive *)
(* and the path are empty.                                                 *)
HandleSpecialistResponse(refused) ==
  /\ worker = "loop"
  /\ specialistResponseChan # <<>>
  /\ LET response == Head(specialistResponseChan)
         f        == response.file
         known    == jobs[f] # "absent"
     IN  /\ jobs' = [jobs EXCEPT ![f] = "absent"]
         /\ DeleteFiles(IF known THEN {f} ELSE {}, IF known /\ refused THEN {f} ELSE {})
         /\ segment' = [file |-> f, known |-> known, res |-> response.res]
  /\ processingFileCount' = Release(processingFileCount)
  /\ specialistResponseChan' = Tail(specialistResponseChan)
  /\ worker' = "sending"
  /\ UNCHANGED <<calls, seen, results, collector, res, ctxDone, tmpFileLocationChan,
                 eventChan, arrivals>>

SendEvent ==
  /\ worker = "sending"
  /\ Len(eventChan) < BufferSize
  /\ eventChan' = Append(eventChan, segment)
  /\ segment' = NoSegment
  /\ worker' = "loop"
  /\ UNCHANGED <<coordVars, ctxDone, jobs, processingFileCount, tmpFileLocationChan,
                 tmpFile, arrivals>>

(* Run returns ctx.Err(), from its loop or from the pending send.          *)
Stop ==
  /\ ctxDone
  /\ worker # "stopped"
  /\ worker' = "stopped"
  /\ segment' = NoSegment
  /\ UNCHANGED <<coordVars, ctxDone, jobs, processingFileCount, tmpFileLocationChan,
                 eventChan, tmpFile, arrivals>>

(* A fanout worker takes an event from the channel.                        *)
TakeEvent ==
  /\ eventChan # <<>>
  /\ eventChan' = Tail(eventChan)
  /\ UNCHANGED <<coordVars, ctxDone, jobs, processingFileCount, tmpFileLocationChan,
                 worker, segment, tmpFile, arrivals>>

Cancel ==
  /\ MayCancel
  /\ ~ctxDone
  /\ ctxDone' = TRUE
  /\ UNCHANGED <<coordVars, workerVars>>

Next ==
  \/ \E f \in Files : Arrive(f)
  \/ AddJob
  \/ \E failed, started \in SUBSET Files : \E kept \in SUBSET failed :
       ProcessJobs(failed, started, kept)
  \/ \E refused \in BOOLEAN : HandleSpecialistResponse(refused)
  \/ SendEvent
  \/ Stop
  \/ TakeEvent
  \/ Cancel
  \/ CoordNext /\ UNCHANGED workerVars

Spec == Init /\ [][Next]_vars
-----------------------------------------------------------------------------
\* A tick on which processJobs treats a job.
Treats ==
  /\ worker = "loop" /\ NbrOfFile # 0
  /\ \E failed \in SUBSET JobsIn("pending") : \E started \in SUBSET (JobsIn("pending") \ failed) :
       /\ failed \cup started # {}
       /\ \E kept \in SUBSET failed : ProcessJobs(failed, started, kept)

\* A step of the goroutines Broadcast has started for f.
Gathers(f) ==
  SpawnCollector(f) \/ \E s \in Specialists : Analyze(f, s) \/ AppendResult(f, s)

(* Go's select picks among ready cases at random, so a case that keeps     *)
(* being ready is eventually chosen: strong fairness for the cases of Run. *)
(* Channel partners and specialists are assumed to keep going.             *)
Fairness ==
  /\ SF_vars(AddJob)
  /\ SF_vars(\E refused \in BOOLEAN : HandleSpecialistResponse(refused))
  /\ SF_vars(Treats)
  /\ WF_vars(SendEvent)
  /\ WF_vars(TakeEvent)
  /\ WF_vars((\E f \in Files : SendResponse(f)) /\ UNCHANGED workerVars)
  /\ \A f \in Files : WF_vars(Gathers(f) /\ UNCHANGED workerVars)

FairSpec == Spec /\ Fairness
-----------------------------------------------------------------------------
(* Every variable keeps the values its Go type and the worker's loop allow.*)
TypeOK ==
  /\ CoordTypeOK
  /\ jobs \in [Files -> JobState]
  /\ processingFileCount \in 0 .. UintSize - 1
  /\ tmpFileLocationChan \in Seq(Files)
  /\ eventChan \in Seq(Segment)
  /\ worker \in {"loop", "sending", "stopped"}
  /\ segment \in IF worker = "sending" THEN Segment ELSE {NoSegment}
  /\ tmpFile \in [Files -> TmpFileState]
  /\ arrivals \in [Files -> Nat]

(* processingFileCount, kept by increments in processJobs and decrements   *)
(* in removeJob, is at all times the number of running jobs, and never     *)
(* exceeds maxFileToProcess: the unsigned subtraction of processJobs       *)
(* (file_tmp_job.go:121) does not wrap, and the guard of removeJob never   *)
(* hides a decrement too many.                                             *)
CapacityAccounting ==
  /\ processingFileCount = Cardinality(JobsIn("running"))
  /\ processingFileCount <= MaxFileToProcess

\* Responses for f that are still to be handled: the collector's, or queued.
Queued(f) == {i \in DOMAIN specialistResponseChan : specialistResponseChan[i].file = f}

(* A response on its way belongs to a running job and is the only one for  *)
(* it: Broadcast is never called again for a file whose answer is          *)
(* outstanding, however often the file is delivered.                       *)
OneResponsePerJob ==
  \A f \in Files :
    /\ collector[f] # "none" \/ Queued(f) # {} => jobs[f] = "running"
    /\ collector[f] # "none" => Queued(f) = {}
    /\ \A i, j \in Queued(f) : i = j

\* An event on its way, from a job that was found, with results of its file's
\* specialists only.
OfItsFile(e) == e.known /\ e.res \subseteq Targets[e.file]

(* removeJob always finds the job of a response, so every event carries    *)
(* the drive of its file ("driveID or filepath should not be empty" is     *)
(* never logged), and the results Broadcast's goroutines append without a  *)
(* lock stay those of their file: once all calls have ended the slice      *)
(* holds at least one of them, whatever appends overwrote each other.      *)
(* What the collector was given is the slice at the go statement, earlier  *)
(* or later than the appends.                                              *)
SegmentsAreTheirFiles ==
  /\ worker = "sending" => OfItsFile(segment)
  /\ \A i \in DOMAIN eventChan : OfItsFile(eventChan[i])
  /\ \A f \in Files :
       /\ res[f] \subseteq Targets[f] /\ results[f] \subseteq Targets[f]
       /\ collector[f] # "none" /\ results[f] = {} => \E s \in Targets[f] : calls[f][s] # "none"

(* Every slot is held by a file without a specialist: Broadcast returned   *)
(* nil for it, and no response will ever give the slot back.               *)
NoSlotLeft == Cardinality({f \in JobsIn("running") : Targets[f] = {}}) = MaxFileToProcess

(* A temporary file does not stay on disk, unless its deletion is refused: *)
(* its job is broadcast or dropped ("ensuring that files are sent to       *)
(* specialists (gRPC) while respecting system capacity limits",            *)
(* file_tmp_job.go:29), answered, and the file deleted, while other files  *)
(* compete for the capacity and the channels fill up.  Three exceptions:   *)
(* the context ends; the file itself has no specialist, and keeps its job  *)
(* and its slot forever; or such files have used up the capacity.          *)
TmpFilesAreReclaimed ==
  \A f \in Files :
    tmpFile[f] = "there" ~>
      \/ tmpFile[f] # "there"
      \/ ctxDone
      \/ jobs[f] = "running" /\ Targets[f] = {}
      \/ NoSlotLeft
=============================================================================
