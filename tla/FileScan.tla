------------------------------ MODULE FileScan ------------------------------
(***************************************************************************)
(* The scanner: TriggerScan puts a directory in dirChan; a pool of         *)
(* FileScannerWorkers takes directories, puts their subdirectories back in *)
(* dirChan and their files in fileChan; FileSenderWorker streams the files *)
(* to the master's FileAnalyzerServer; main shuts the process down and     *)
(* logs the counters of the MonitoringManager.                             *)
(***************************************************************************)
EXTENDS Integers, Sequences, FiniteSets, Functions, MimeTypes

CONSTANTS
  Dirs, Files,
  Specials,     \* symbolic links, devices, sockets
  Roots,        \* directories for which a scan is requested
  Entries,      \* Entries[d]: what os.ReadDir yields for d, in order
  MimeOf,       \* MimeOf[f]: the type detected in the first bytes of f
  Invalid,      \* the files whose request does not validate: a path too long
  Workers,      \* the FileScannerWorkers
  DirBuffer,    \* capacity of dirChan
  FileBuffer,   \* capacity of fileChan
  Faults,       \* what may fail
  MaxFailures,  \* bound: how many of the faults happen, once each
  MayStop       \* whether the process may be told to stop

ASSUME FileScanAssumption ==
  /\ IsFiniteSet(Workers) /\ IsFiniteSet(Dirs)
  /\ Dirs \cap Files = {} /\ Specials \cap (Dirs \cup Files) = {}
  /\ Roots \subseteq Dirs
  /\ Entries \in [Dirs -> Seq(Dirs \cup Files \cup Specials)]
  /\ MimeOf \in [Files -> Detected] /\ Invalid \subseteq Files
  /\ DirBuffer \in Nat \ {0} /\ FileBuffer \in Nat \ {0}
  /\ Faults \subseteq {"readdir", "panic", "stream"}
  /\ MaxFailures \in Nat
  /\ MayStop \in BOOLEAN

\* The directories form a tree: no two entries have the same path, links are
\* not followed, and no scan is asked for inside another (the master asks for
\* one).
ASSUME TreeAssumption ==
  \A d, e \in Dirs :
    /\ IsInjective(Entries[d]) /\ Range(Entries[d]) \cap Roots = {}
    /\ d # e => Range(Entries[d]) \cap Range(Entries[e]) = {}

\* The files that are reported.
Authorized == {f \in Files : IsAuthorized(MimeOf[f])}

VARIABLES
  ctxDone,     \* the signal context has ended
  main,        \* where the shutdown sequence of main stands
  trigger,     \* trigger[r]: the TriggerScan call for r
  dirChan, dirClosed,
  fileChan, fileClosed,
  worker,      \* worker[w]: where Run stands, its directory, the entries left
  scanWG, workersWG,
  sender,      \* where FileSenderWorker.Run stands
  hand,        \* the file the sender has taken and not yet sent, if any
  up,          \* the sender's stream is usable
  wire,        \* files sent on the stream and not yet received
  received,    \* files AnalyzerService.Analyze has passed on, FilesReceived of them
  lost,        \* files that left fileChan and were dropped: by a failure, by the
               \* end of the context, or because they are Invalid
  stats,       \* the counters of the MonitoringManager
  failures     \* the faults that happened

chanVars == <<dirChan, dirClosed, fileChan, fileClosed>>
senderVars == <<sender, hand, up, wire, received>>
vars == <<ctxDone, main, trigger, chanVars, worker, scanWG, workersWG, senderVars, lost, stats, failures>>

NoDir == "none"
Idle == [pc |-> "select", dir |-> NoDir, rest |-> <<>>]

Init ==
  /\ ctxDone = FALSE /\ main = "serving"
  /\ trigger = [r \in Roots |-> "none"]
  /\ dirChan = <<>> /\ dirClosed = FALSE
  /\ fileChan = <<>> /\ fileClosed = FALSE
  /\ worker = [w \in Workers |-> Idle]
  /\ scanWG = 0 /\ workersWG = Cardinality(Workers)
  /\ sender = "start" /\ hand = <<>> /\ up = FALSE /\ wire = <<>> /\ received = <<>>
  /\ lost = {} /\ failures = {}
  /\ stats = [FilesFound |-> 0, DirsScanned |-> 0, ErrorCount |-> 0, SkippedItem |-> 0]

\* A send on a buffered channel does not block.
HasRoom(ch, size) == Len(ch) < size

Alive == main # "exited"
May(fault) == fault \in Faults \ failures /\ Cardinality(failures) < MaxFailures
Fail(fault) == failures' = failures \cup {fault}

\* IncrFileFound, IncrDirsScanned, IncrErrorCount, IncrSkippedItems
Incr(counter) == stats' = [stats EXCEPT ![counter] = @ + 1]

-----------------------------------------------------------------------------
(* ScannerControlService.TriggerScan.                                      *)
TriggerKeeps ==
  UNCHANGED <<ctxDone, main, dirClosed, fileChan, fileClosed, worker, workersWG,
              senderVars, lost, stats, failures>>

TriggerScan(r) ==
  /\ main = "serving"
  /\ trigger[r] = "none"
  /\ trigger' = [trigger EXCEPT ![r] = "sending"]
  /\ scanWG' = scanWG + 1
  /\ UNCHANGED dirChan /\ TriggerKeeps

Triggered(r) ==
  /\ Alive
  /\ trigger[r] = "sending"
  /\ HasRoom(dirChan, DirBuffer)
  /\ dirChan' = Append(dirChan, r)
  /\ trigger' = [trigger EXCEPT ![r] = "started"]
  /\ UNCHANGED scanWG /\ TriggerKeeps

-----------------------------------------------------------------------------
(* FileScannerWorker.                                                      *)
WorkerKeeps == UNCHANGED <<ctxDone, main, trigger, dirClosed, fileClosed, senderVars, lost>>

At(w, pc) == Alive /\ worker[w].pc = pc
Goto(w, pc) == worker' = [worker EXCEPT ![w].pc = pc]
Entry(w) == Head(worker[w].rest)

\* Mutant: the loop stays at the entry.
Stay(w) == Goto(w, "entries")

Skip(w) ==
  worker' = [worker EXCEPT ![w] = [pc |-> "entries", dir |-> @.dir, rest |-> Tail(@.rest)]]

\* Mutant: wg.Done is missing.
NoDone == UNCHANGED scanWG

\* handleDirectory returns, and the deferred scanWG.Done runs.
Done == scanWG' = scanWG - 1
Add == scanWG' = scanWG + 1

\* Run returns, and the deferred workersWG.Done runs.
Returned == [Idle EXCEPT !.pc = "returned"]

\* Mutant: workersWG.Done is missing.
ReturnWithoutDone(w) == worker' = [worker EXCEPT ![w] = Returned] /\ UNCHANGED workersWG

Return(w) == worker' = [worker EXCEPT ![w] = Returned] /\ workersWG' = workersWG - 1

TakeDir(w) ==
  /\ At(w, "select")
  /\ dirChan # <<>>
  /\ dirChan' = Tail(dirChan)
  /\ worker' = [worker EXCEPT ![w] = [pc |-> "throttle", dir |-> Head(dirChan), rest |-> <<>>]]
  /\ UNCHANGED <<fileChan, scanWG, workersWG, stats, failures>> /\ WorkerKeeps

WorkerEnds(w) ==
  /\ At(w, "select")
  /\ ctxDone \/ (dirClosed /\ dirChan = <<>>)
  /\ Return(w)
  /\ UNCHANGED <<dirChan, fileChan, scanWG, stats, failures>> /\ WorkerKeeps

\* throttle lets the worker go on, at once or after a pause.
Throttle(w) ==
  /\ At(w, "throttle")
  /\ Goto(w, "readdir")
  /\ UNCHANGED <<dirChan, fileChan, scanWG, workersWG, stats, failures>> /\ WorkerKeeps

\* The context ends during the pause.
ThrottleEnds(w) ==
  /\ At(w, "throttle")
  /\ ctxDone
  /\ Return(w)
  /\ UNCHANGED <<dirChan, fileChan, scanWG, stats, failures>> /\ WorkerKeeps

ReadDir(w, ok) ==
  /\ At(w, "readdir")
  /\ IF ok
       THEN /\ worker' = [worker EXCEPT ![w] = [pc |-> "entries", dir |-> @.dir, rest |-> Entries[@.dir]]]
            /\ Incr("DirsScanned")
            /\ UNCHANGED <<scanWG, failures>>
       ELSE /\ worker' = [worker EXCEPT ![w] = Idle]
            /\ Done
            /\ Incr("ErrorCount")
            /\ Fail("readdir")
  /\ UNCHANGED <<dirChan, fileChan, workersWG>> /\ WorkerKeeps

\* The loop over the entries: a subdirectory is counted before it is sent.
NextEntry(w) ==
  /\ At(w, "entries")
  /\ worker[w].rest # <<>>
  /\ \/ Entry(w) \in Dirs /\ Add /\ Goto(w, "push") /\ UNCHANGED stats
     \/ Entry(w) \in Authorized /\ Goto(w, "emit") /\ UNCHANGED <<scanWG, stats>>
     \/ Entry(w) \in Files \ Authorized /\ Skip(w) /\ UNCHANGED <<scanWG, stats>>
     \/ Entry(w) \in Specials /\ Skip(w) /\ Incr("SkippedItem") /\ UNCHANGED scanWG
  /\ UNCHANGED <<dirChan, fileChan, workersWG, failures>> /\ WorkerKeeps

EndDirectory(w) ==
  /\ At(w, "entries")
  /\ worker[w].rest = <<>>
  /\ worker' = [worker EXCEPT ![w] = Idle]
  /\ Done
  /\ UNCHANGED <<dirChan, fileChan, workersWG, stats, failures>> /\ WorkerKeeps

PushDir(w) ==
  /\ At(w, "push")
  /\ ~dirClosed
  /\ HasRoom(dirChan, DirBuffer)
  /\ dirChan' = Append(dirChan, Entry(w))
  /\ Skip(w)
  /\ UNCHANGED <<fileChan, scanWG, workersWG, stats, failures>> /\ WorkerKeeps

\* The context ends while the subdirectory waits: handleDirectory returns.
PushEnds(w) ==
  /\ At(w, "push")
  /\ ctxDone
  /\ worker' = [worker EXCEPT ![w] = Idle]
  /\ Done
  /\ UNCHANGED <<dirChan, fileChan, workersWG, stats, failures>> /\ WorkerKeeps

\* select may pick the send on the closed channel; the supervisor recovers.
PushPanics(w) ==
  /\ At(w, "push")
  /\ dirClosed
  /\ Return(w)
  /\ Done
  /\ UNCHANGED <<dirChan, fileChan, stats, failures>> /\ WorkerKeeps

\* processFile: the file is sent, then counted.
EmitFile(w) ==
  /\ At(w, "emit")
  /\ ~fileClosed
  /\ HasRoom(fileChan, FileBuffer)
  /\ fileChan' = Append(fileChan, Entry(w))
  /\ Goto(w, "count")
  /\ UNCHANGED <<dirChan, scanWG, workersWG, stats, failures>> /\ WorkerKeeps

CountFile(w) ==
  /\ At(w, "count")
  /\ Incr("FilesFound")
  /\ Skip(w)
  /\ UNCHANGED <<dirChan, fileChan, scanWG, workersWG, failures>> /\ WorkerKeeps

EmitEnds(w) ==
  /\ At(w, "emit")
  /\ ctxDone
  /\ Skip(w)
  /\ UNCHANGED <<dirChan, fileChan, scanWG, workersWG, stats, failures>> /\ WorkerKeeps

\* A panic while the worker handles a directory: both deferred Done calls
\* run, and the supervisor runs the worker again.
WorkerPanics(w) ==
  /\ At(w, "entries")
  /\ ~ctxDone
  /\ worker' = [worker EXCEPT ![w] = Idle]
  /\ workersWG' = workersWG - 1
  /\ Done
  /\ Fail("panic")
  /\ UNCHANGED <<dirChan, fileChan, stats>> /\ WorkerKeeps

-----------------------------------------------------------------------------
(* FileSenderWorker, run by the supervisor, and the stream to the master.  *)
SenderKeeps ==
  UNCHANGED <<ctxDone, main, trigger, dirChan, dirClosed, fileClosed, worker, scanWG, workersWG, stats>>

\* Run opens a stream; without one it returns an error, and is run again.
OpenStream(ok) ==
  /\ Alive /\ sender = "start" /\ ~ctxDone
  /\ IF ok
       THEN sender' = "ready" /\ up' = TRUE /\ wire' = <<>> /\ UNCHANGED failures
       ELSE Fail("stream") /\ UNCHANGED <<sender, up, wire>>
  /\ UNCHANGED <<fileChan, hand, received, lost>> /\ SenderKeeps

TakeFile ==
  /\ Alive /\ sender = "ready"
  /\ fileChan # <<>>
  /\ fileChan' = Tail(fileChan)
  /\ hand' = <<Head(fileChan)>>
  /\ sender' = "sending"
  /\ UNCHANGED <<up, wire, received, lost, failures>> /\ SenderKeeps

\* Mutant: a file is sent again after it was sent.
SentTwice == hand \o hand

Sent == hand

\* stream.Send fails on a broken stream: Run returns the error, the file is
\* gone, and the supervisor runs the worker again.
SendFile ==
  /\ Alive /\ sender = "sending"
  /\ hand' = <<>>
  /\ IF up
       THEN /\ wire' = wire \o Sent
            /\ sender' = "ready"
            /\ UNCHANGED lost
       ELSE /\ lost' = lost \cup Range(hand)
            /\ sender' = "start"
            /\ UNCHANGED wire
  /\ UNCHANGED <<fileChan, up, received, failures>> /\ SenderKeeps

\* The context ends, or fileChan is closed and empty: Run closes the stream
\* and returns; what was sent and not received goes with a cancelled stream.
SenderEnds ==
  /\ Alive /\ sender \in {"start", "ready", "sending"}
  /\ ctxDone
  /\ sender' = "returned"
  /\ hand' = <<>> /\ up' = FALSE /\ wire' = <<>>
  /\ lost' = lost \cup Range(hand) \cup Range(wire)
  /\ UNCHANGED <<fileChan, received, failures>> /\ SenderKeeps

StreamBreaks ==
  /\ Alive /\ up
  /\ up' = FALSE /\ wire' = <<>>
  /\ lost' = lost \cup Range(wire)
  /\ Fail("stream")
  /\ UNCHANGED <<fileChan, sender, hand, received>> /\ SenderKeeps

\* FileAnalyzerServer.Analyze hands the file to AnalyzerService.Analyze,
\* which puts it in the event channel and counts it; one that does not
\* validate is logged, and the stream goes on.
Analyze ==
  /\ wire # <<>>
  /\ wire' = Tail(wire)
  /\ IF Head(wire) \in Invalid
       THEN lost' = lost \cup {Head(wire)} /\ UNCHANGED received
       ELSE received' = Append(received, Head(wire)) /\ UNCHANGED lost
  /\ UNCHANGED <<fileChan, sender, hand, up, failures>> /\ SenderKeeps

-----------------------------------------------------------------------------
(* The end of cmd/scanner/main.go.                                         *)
MainKeeps == UNCHANGED <<trigger, dirChan, fileChan, worker, scanWG, workersWG, senderVars, lost, stats, failures>>

Signal ==
  /\ MayStop /\ main = "serving"
  /\ ctxDone' = TRUE
  /\ main' = "stopping"
  /\ UNCHANGED <<dirClosed, fileClosed>> /\ MainKeeps

\* GracefulStop waits for the calls in progress; then dirChan is closed.
GracefulStop ==
  /\ main = "stopping"
  /\ \A r \in Roots : trigger[r] # "sending"
  /\ dirClosed' = TRUE
  /\ main' = "waiting"
  /\ UNCHANGED <<ctxDone, fileClosed>> /\ MainKeeps

\* Mutant: main waits for one worker.
OneDone == workersWG < Cardinality(Workers)

AllDone == workersWG = 0

\* workersWG.Wait returns; fileChan is closed.
WorkersGone ==
  /\ main = "waiting"
  /\ AllDone
  /\ fileClosed' = TRUE
  /\ main' = "closing"
  /\ UNCHANGED <<ctxDone, dirClosed>> /\ MainKeeps

\* The Scan Summary is logged, and main returns.
Exit ==
  /\ main = "closing"
  /\ main' = "exited"
  /\ UNCHANGED <<ctxDone, dirClosed, fileClosed>> /\ MainKeeps

Scan(w) ==
  \/ TakeDir(w) \/ WorkerEnds(w) \/ Throttle(w) \/ ThrottleEnds(w) \/ ReadDir(w, TRUE)
  \/ NextEntry(w) \/ EndDirectory(w) \/ PushDir(w) \/ PushEnds(w) \/ PushPanics(w)
  \/ EmitFile(w) \/ CountFile(w) \/ EmitEnds(w)

Next ==
  \/ \E r \in Roots : TriggerScan(r)
  \/ \E r \in Roots : Triggered(r)
  \/ \E w \in Workers : Scan(w)
  \/ \E w \in Workers : May("readdir") /\ ReadDir(w, FALSE)
  \/ \E w \in Workers : May("panic") /\ WorkerPanics(w)
  \/ OpenStream(TRUE)
  \/ May("stream") /\ OpenStream(FALSE)
  \/ TakeFile \/ SendFile \/ SenderEnds
  \/ May("stream") /\ StreamBreaks
  \/ Analyze
  \/ Signal \/ GracefulStop \/ WorkersGone \/ Exit

Spec == Init /\ [][Next]_vars

(* Every goroutine that can take a step eventually takes one.              *)
Fairness ==
  /\ \A r \in Roots : WF_vars(Triggered(r))
  /\ \A w \in Workers : WF_vars(Scan(w))
  /\ WF_vars(OpenStream(TRUE)) /\ WF_vars(TakeFile) /\ WF_vars(SendFile) /\ WF_vars(SenderEnds)
  /\ WF_vars(Analyze)
  /\ WF_vars(GracefulStop) /\ WF_vars(WorkersGone) /\ WF_vars(Exit)

FairSpec == Spec /\ Fairness

-----------------------------------------------------------------------------
(* Channels, counters and program counters keep their Go types.             *)
TypeOK ==
  /\ ctxDone \in BOOLEAN
  /\ main \in {"serving", "stopping", "waiting", "closing", "exited"}
  /\ trigger \in [Roots -> {"none", "sending", "started"}]
  /\ dirChan \in Seq(Dirs) /\ Len(dirChan) <= DirBuffer /\ dirClosed \in BOOLEAN
  /\ fileChan \in Seq(Files) /\ Len(fileChan) <= FileBuffer /\ fileClosed \in BOOLEAN
  /\ worker \in [Workers -> [pc : {"select", "throttle", "readdir", "entries", "push", "emit",
                                   "count", "returned"},
                             dir : Dirs \cup {NoDir}, rest : Seq(Dirs \cup Files \cup Specials)]]
  /\ scanWG \in Int /\ workersWG \in Int
  /\ sender \in {"start", "ready", "sending", "returned"}
  /\ hand \in Seq(Files) /\ Len(hand) <= 1
  /\ up \in BOOLEAN
  /\ wire \in Seq(Files) /\ received \in Seq(Files)
  /\ lost \subseteq Files
  /\ stats \in [{"FilesFound", "DirsScanned", "ErrorCount", "SkippedItem"} -> Nat]
  /\ failures \subseteq Faults

Where(pcs) == {w \in Workers : worker[w].pc \in pcs}

\* The subtree below the roots: the least set of directories that holds them
\* and the subdirectories of its members.
IsClosed(ds) == \A d \in ds : Range(Entries[d]) \cap Dirs \subseteq ds
Tree == {d \in Dirs : \A ds \in SUBSET Dirs : Roots \subseteq ds /\ IsClosed(ds) => d \in ds}
Leaves == UNION {Range(Entries[d]) : d \in Tree}
ToReport == Leaves \cap Authorized

InFlight == fileChan \o hand \o wire \o received

\* The directories found and not yet handled: those TriggerScan or a worker
\* waits to send, those in dirChan and those in a worker's hands.
Outstanding ==
  Len(dirChan) + Cardinality({r \in Roots : trigger[r] = "sending"})
  + Cardinality(Where({"throttle", "readdir", "entries", "push", "emit", "count"}))
  + Cardinality(Where({"push"}))

\* scanWG counts the directories that are outstanding.  So, at zero, the walk
\* is over, if no directory failed: all were scanned, all links and devices
\* skipped, and every authorized file is on its way, has arrived, or was
\* dropped behind fileChan.
ScanIsCounted ==
  ~ctxDone =>
    /\ scanWG = Outstanding
    /\ scanWG = 0 /\ failures \subseteq {"stream"} /\ (\A r \in Roots : trigger[r] # "none") =>
         /\ stats.DirsScanned = Cardinality(Tree)
         /\ stats.SkippedItem = Cardinality(Leaves \cap Specials)
         /\ ToReport \subseteq Range(InFlight) \cup lost

\* fileChan is closed only when no scanner worker can send on it any more, as
\* long as no worker panicked: a panic runs workersWG.Done, and the worker runs
\* again without having been added.
FileChanOutlivesWorkers ==
  fileClosed /\ "panic" \notin failures => Where({"returned"}) = Workers

\* A file is in one place between the scan and the master, neither reported
\* twice nor both lost and reported, and FilesFound, which is raised after the
\* send, counts each of them once: what the Scan Summary says was found is what
\* was received and what was lost on the way.
FilesAreAccounted ==
  /\ IsInjective(InFlight) /\ lost \cap Range(InFlight) = {}
  /\ stats.FilesFound + Cardinality(Where({"count"})) = Len(InFlight) + Cardinality(lost)

\* Every worker waits to put a subdirectory in the full dirChan, which nobody
\* but the workers empties.
Jammed == Where({"push"}) = Workers /\ ~HasRoom(dirChan, DirBuffer)

\* Once every scan has been asked for, every authorized file below the roots
\* reaches the master or is dropped, as lost says, unless a directory
\* could not be read, the process is told to stop, or the walk jams.
ScanCompletes ==
  (\A r \in Roots : trigger[r] # "none")
    ~> \/ ToReport \subseteq Range(received) \cup lost
       \/ ctxDone
       \/ ~(failures \subseteq {"stream"})
       \/ Jammed

\* TriggerScan waits for room in dirChan, and no worker is left to make any.
TriggerStuck ==
  /\ \E r \in Roots : trigger[r] = "sending"
  /\ ~HasRoom(dirChan, DirBuffer)
  /\ Where({"returned"}) = Workers

\* A process that is told to stop does stop, unless a call of TriggerScan
\* keeps GracefulStop waiting, or a panic has upset workersWG.
ShutdownCompletes ==
  ctxDone ~> (main = "exited" \/ TriggerStuck \/ "panic" \in failures)
=============================================================================
