---------------------------- MODULE FileDownload ----------------------------
(***************************************************************************)
(* The transfer of files from the scanner to the master.  On the master,   *)
(* FileTransferWorker moves tasks from the persistent queue to requestChan *)
(* and FileDownloaderMasterWorker opens a gRPC stream for each and feeds   *)
(* the accumulator.  On the scanner, FileDownloaderServer.Download shares  *)
(* one request channel and one response channel between all streams, and   *)
(* a pool of FileDownloaderScannerWorker reads the files.                  *)
(*                                                                         *)
(* A file is requested once, so a stream is named by its file.             *)
(***************************************************************************)
EXTENDS FileTaskRepository, FileAccumulator

CONSTANTS
  NoFile,          \* no file
  Workers,         \* the scanner's FileDownloaderScannerWorkers
  BatchSize,       \* pendingFileBatchSize
  BufferSize,      \* capacity of every channel
  Faults,          \* which calls may fail
  MayCancel,       \* whether the master's context may end
  MaxRestarts      \* bound: restarts of the master

ASSUME FileDownloadAssumption ==
  /\ DOMAIN Size = Files
  /\ NoFile \notin Files
  /\ BatchSize \in Nat \ {0}
  /\ BufferSize \in Nat \ {0}
  /\ Faults \subseteq {"mark", "open", "validate", "refuse", "read", "disk"}
  /\ MayCancel \in BOOLEAN
  /\ MaxRestarts \in Nat

VARIABLES
  ctxDone,       \* the master's context is cancelled
  restarts,      \* how often the master was restarted
  transfer,      \* FileTransferWorker.Run: running or returned
  batch,         \* its tasks still to dispatch
  hand,          \* the task it has marked and now sends to requestChan
  downloader,    \* FileDownloaderMasterWorker.Run: running or returned
  requestChan,   \* the master's channel of requests
  current,       \* the file handleDownload works on
  ended,         \* files whose handleDownload has returned
  stray,         \* a download was left before its stream had ended
  stream,        \* stream[f]: state of the stream on the scanner's side
  asked,         \* files whose request the stream's receiver has not passed on
  wire,          \* wire[f]: responses sent on the stream and not yet received
  scanRequests,  \* the scanner's request channel
  scanResponses, \* the scanner's response channel, shared by all streams
  job            \* job[w]: the file a worker reads and the next thing to send

masterVars == <<ctxDone, restarts, transfer, batch, hand, downloader, requestChan, current,
                ended, stray>>
scannerVars == <<scanRequests, scanResponses, job>>
streamVars == <<stream, asked, wire>>
vars == <<taskVars, accumulatorVars, masterVars, scannerVars, streamVars>>

Idle == [file |-> NoFile, next |-> 0]

Init ==
  /\ TaskInit
  /\ AccumulatorInit
  /\ ctxDone = FALSE
  /\ restarts = 0
  /\ transfer = "running" /\ batch = <<>> /\ hand = NoFile
  /\ downloader = "running" /\ requestChan = <<>> /\ current = NoFile
  /\ ended = {} /\ stray = FALSE
  /\ stream = [f \in Files |-> "none"]
  /\ asked = {}
  /\ wire = [f \in Files |-> <<>>]
  /\ scanRequests = <<>> /\ scanResponses = <<>>
  /\ job = [w \in Workers |-> Idle]

Outcomes(fault) == IF fault \in Faults THEN BOOLEAN ELSE {TRUE}

-----------------------------------------------------------------------------
(* The analysis sink stores a task.                                        *)
Enqueue(f) ==
  /\ ~IsPending(f) /\ f \notin processing
  /\ EnqueueTask(f)
  /\ UNCHANGED <<accumulatorVars, masterVars, scannerVars, streamVars>>

(* FileTransferWorker.                                                     *)
TransferKeeps ==
  UNCHANGED <<accumulatorVars, scannerVars, streamVars,
              ctxDone, restarts, downloader, current, ended, stray>>

\* The ticker fires.
Poll ==
  /\ transfer = "running" /\ batch = <<>> /\ hand = NoFile
  /\ pending # <<>>
  /\ batch' = GetNextBatch(BatchSize)
  /\ UNCHANGED <<taskVars, transfer, hand, requestChan>> /\ TransferKeeps

\* MarkAsProcessing; after an error the worker goes on with the next task.
Mark(ok) ==
  /\ batch # <<>> /\ hand = NoFile
  /\ batch' = Tail(batch)
  /\ IF ok /\ IsPending(Head(batch))
       THEN MarkAsProcessing(Head(batch)) /\ hand' = Head(batch)
       ELSE UNCHANGED <<taskVars, hand>>
  /\ UNCHANGED <<transfer, requestChan>> /\ TransferKeeps

\* Mutant: the task is dropped when the channel is full.
DispatchOrDrop ==
  /\ hand # NoFile
  /\ requestChan' = IF Len(requestChan) < BufferSize THEN Append(requestChan, hand) ELSE requestChan
  /\ hand' = NoFile
  /\ UNCHANGED <<taskVars, transfer, batch>> /\ TransferKeeps

\* The blocking send; it does not look at the context.
Dispatch ==
  /\ hand # NoFile
  /\ Len(requestChan) < BufferSize
  /\ requestChan' = Append(requestChan, hand)
  /\ hand' = NoFile
  /\ UNCHANGED <<taskVars, transfer, batch>> /\ TransferKeeps

TransferReturns ==
  /\ ctxDone
  /\ transfer = "running" /\ batch = <<>> /\ hand = NoFile
  /\ transfer' = "returned"
  /\ UNCHANGED <<taskVars, batch, hand, requestChan>> /\ TransferKeeps

-----------------------------------------------------------------------------
(* FileDownloaderMasterWorker.                                             *)
DownloadKeeps == UNCHANGED <<taskVars, scannerVars, ctxDone, restarts, transfer, batch, hand>>

\* handleDownload opens the stream and sends the request, or gives up.
StartDownload(ok) ==
  /\ downloader = "running" /\ current = NoFile
  /\ requestChan # <<>>
  /\ ctxDone => ~ok
  /\ requestChan' = Tail(requestChan)
  /\ LET f == Head(requestChan) IN
       IF ok
         THEN /\ current' = f
              /\ stream' = [stream EXCEPT ![f] = "open"]
              /\ asked' = asked \cup {f}
              /\ UNCHANGED ended
         ELSE /\ ended' = ended \cup {f}
              /\ UNCHANGED <<current, stream, asked>>
  /\ UNCHANGED <<accumulatorVars, downloader, wire, stray>> /\ DownloadKeeps

\* handleDownload returns; it leaves the stream, and the responses in it, as
\* they are.
Break(rest) ==
  /\ current' = NoFile
  /\ ended' = ended \cup {current}
  /\ stray' = (stray \/ stream[current] = "open" \/ rest # <<>>)

\* stream.Recv yields a response, and the accumulator processes it.
Recv(disk, send) ==
  /\ current # NoFile
  /\ wire[current] # <<>>
  /\ ~send => ctxDone
  /\ LET r == Head(wire[current]) IN
       /\ wire' = [wire EXCEPT ![current] = Tail(@)]
       /\ ProcessResponse(current, r, disk, send)
       /\ IF ProcessFails(current, r, disk, send)
            THEN Break(Tail(wire[current]))
            ELSE UNCHANGED <<current, ended, stray>>
  /\ UNCHANGED <<stream, asked, downloader, requestChan>> /\ DownloadKeeps

\* Mutant: handleDownload does not wait for the scanner.
RecvGivesUp ==
  /\ current # NoFile
  /\ wire[current] = <<>>
  /\ current' = NoFile /\ ended' = ended \cup {current}
  /\ UNCHANGED <<accumulatorVars, streamVars, downloader, requestChan, stray>> /\ DownloadKeeps

\* Mutant: EOF does not end the loop.
RecvEndsOnError ==
  /\ current # NoFile
  /\ ctxDone \/ (wire[current] = <<>> /\ stream[current] = "dead")
  /\ Break(wire[current])
  /\ UNCHANGED <<accumulatorVars, streamVars, downloader, requestChan>> /\ DownloadKeeps

\* stream.Recv yields EOF or an error.
RecvEnds ==
  /\ current # NoFile
  /\ \/ ctxDone
     \/ wire[current] = <<>> /\ stream[current] \in {"finished", "dead"}
  /\ Break(wire[current])
  /\ UNCHANGED <<accumulatorVars, streamVars, downloader, requestChan>> /\ DownloadKeeps

DownloaderReturns ==
  /\ ctxDone
  /\ downloader = "running" /\ current = NoFile
  /\ downloader' = "returned"
  /\ UNCHANGED <<accumulatorVars, streamVars, requestChan, current, ended, stray>> /\ DownloadKeeps

-----------------------------------------------------------------------------
(* FileDownloaderServer.Download on the scanner: a receiver and a sender   *)
(* goroutine for each stream.                                              *)
ServerKeeps == UNCHANGED <<taskVars, accumulatorVars, masterVars, job>>

\* The receiver validates the request and passes it on.
Receive(f, valid) ==
  /\ f \in asked
  /\ IF valid
       THEN /\ Len(scanRequests) < BufferSize
            /\ scanRequests' = Append(scanRequests, f)
            /\ UNCHANGED stream
       ELSE /\ stream' = [stream EXCEPT ![f] = IF @ = "open" THEN "dead" ELSE @]
            /\ UNCHANGED scanRequests
  /\ asked' = asked \ {f}
  /\ UNCHANGED <<wire, scanResponses>> /\ ServerKeeps

\* The stream's context ended before the receiver read the request.
ReceiverEnds(f) ==
  /\ f \in asked
  /\ stream[f] # "open"
  /\ asked' = asked \ {f}
  /\ UNCHANGED <<stream, wire, scanRequests, scanResponses>> /\ ServerKeeps

IsLast(r) == r.kind \in {"signature", "error"}

\* The sender takes any response; on a dead stream the response is lost.
SendResponse(f) ==
  /\ stream[f] \in {"open", "dead"}
  /\ scanResponses # <<>>
  /\ LET r == Head(scanResponses) IN
       IF stream[f] = "open"
         THEN /\ wire' = [wire EXCEPT ![f] = Append(@, r)]
              /\ stream' = [stream EXCEPT ![f] = IF IsLast(r) THEN "finished" ELSE @]
         ELSE /\ stream' = [stream EXCEPT ![f] = "finished"]
              /\ UNCHANGED wire
  /\ scanResponses' = Tail(scanResponses)
  /\ UNCHANGED <<asked, scanRequests>> /\ ServerKeeps

\* The sender sees the end of the stream's context.
SenderEnds(f) ==
  /\ stream[f] = "dead"
  /\ stream' = [stream EXCEPT ![f] = "finished"]
  /\ UNCHANGED <<asked, wire, scanRequests, scanResponses>> /\ ServerKeeps

-----------------------------------------------------------------------------
(* FileDownloaderScannerWorker.                                            *)
WorkerKeeps == UNCHANGED <<taskVars, accumulatorVars, masterVars, streamVars>>

TakeRequest(w) ==
  /\ job[w] = Idle
  /\ scanRequests # <<>>
  /\ scanRequests' = Tail(scanRequests)
  /\ job' = [job EXCEPT ![w] = [file |-> Head(scanRequests), next |-> 0]]
  /\ UNCHANGED scanResponses /\ WorkerKeeps

Respond(w, r, rest) ==
  /\ job[w] # Idle
  /\ Len(scanResponses) < BufferSize
  /\ scanResponses' = Append(scanResponses, r)
  /\ job' = [job EXCEPT ![w] = rest]
  /\ UNCHANGED scanRequests /\ WorkerKeeps

\* sendError: the path is unknown, too large, not a file or not readable.
Refuse(w) == job[w].next = 0 /\ Respond(w, FileError(job[w].file), Idle)

\* Process: the metadata, the chunks in order, the signature.
Process(w) ==
  LET f == job[w].file
      i == job[w].next
      more == [file |-> f, next |-> i + 1]
  IN  /\ f # NoFile
      /\ \/ i = 0 /\ Respond(w, Metadata(f), more)
         \/ i \in 1 .. Size[f] /\ Respond(w, FileChunk(f, i), more)
         \/ i = Size[f] + 1 /\ Respond(w, Signature(f), Idle)

\* The first read fails (an empty file), or a later one: Process returns an
\* error, and nothing is sent.
ReadFails(w) ==
  /\ job[w] # Idle
  /\ job[w].next \in 0 .. Size[job[w].file]
  /\ job' = [job EXCEPT ![w] = Idle]
  /\ UNCHANGED <<scanRequests, scanResponses>> /\ WorkerKeeps

-----------------------------------------------------------------------------
(* The master's context ends, or its process dies and starts again: what   *)
(* is in memory is lost, and the scanner sees its streams end.             *)
StreamsDie ==
  /\ stream' = [f \in Files |-> IF stream[f] = "open" THEN "dead" ELSE stream[f]]
  /\ stray' = (stray \/ \E f \in Files : stream[f] = "open")

Cancel ==
  /\ MayCancel /\ ~ctxDone
  /\ ctxDone' = TRUE
  /\ StreamsDie
  /\ UNCHANGED <<taskVars, accumulatorVars, restarts, transfer, batch, hand, downloader,
                 requestChan, current, ended, asked, wire, scannerVars>>

Restart ==
  /\ restarts < MaxRestarts
  /\ restarts' = restarts + 1
  /\ ctxDone' = FALSE
  /\ transfer' = "running" /\ batch' = <<>> /\ hand' = NoFile
  /\ downloader' = "running" /\ requestChan' = <<>> /\ current' = NoFile
  /\ buffers' = <<>>
  /\ StreamsDie
  /\ wire' = [f \in Files |-> <<>>]
  /\ UNCHANGED <<taskVars, announced, ended, asked, scannerVars>>

Serve(f) == \/ \E valid \in Outcomes("validate") : Receive(f, valid)
            \/ ReceiverEnds(f) \/ SendResponse(f) \/ SenderEnds(f)

Next ==
  \/ \E f \in Files : Enqueue(f)
  \/ Poll
  \/ \E ok \in Outcomes("mark") : Mark(ok)
  \/ Dispatch
  \/ TransferReturns
  \/ \E ok \in Outcomes("open") \cup (IF ctxDone THEN {FALSE} ELSE {}) : StartDownload(ok)
  \/ \E disk \in Outcomes("disk"), send \in BOOLEAN : Recv(disk, send)
  \/ RecvEnds
  \/ DownloaderReturns
  \/ \E f \in Files, valid \in Outcomes("validate") : Receive(f, valid)
  \/ \E f \in Files : ReceiverEnds(f)
  \/ \E f \in Files : SendResponse(f)
  \/ \E f \in Files : SenderEnds(f)
  \/ \E w \in Workers : TakeRequest(w)
  \/ \E w \in Workers : "refuse" \in Faults /\ Refuse(w)
  \/ \E w \in Workers : Process(w)
  \/ \E w \in Workers : "read" \in Faults /\ ReadFails(w)
  \/ Cancel
  \/ Restart

Spec == Init /\ [][Next]_vars

(* Every goroutine that can go on eventually does.  A worker whose file    *)
(* can be read reads it; a select that stays ready is eventually taken.    *)
Fairness ==
  /\ WF_vars(Poll) /\ SF_vars(Mark(TRUE)) /\ WF_vars(Dispatch) /\ WF_vars(TransferReturns)
  /\ WF_vars(\E ok \in BOOLEAN : StartDownload(ok))
  /\ WF_vars(Recv(TRUE, TRUE)) /\ WF_vars(RecvEnds) /\ WF_vars(DownloaderReturns)
  /\ \A f \in Files : WF_vars(Serve(f))
  /\ \A w \in Workers : WF_vars(TakeRequest(w)) /\ WF_vars(Process(w))

FairSpec == Spec /\ Fairness

-----------------------------------------------------------------------------
(* Tasks, streams, buffers and program counters keep their Go types.        *)
TypeOK ==
  /\ TaskTypeOK /\ AccumulatorTypeOK
  /\ ctxDone \in BOOLEAN
  /\ restarts \in 0 .. MaxRestarts
  /\ transfer \in {"running", "returned"} /\ downloader \in {"running", "returned"}
  /\ batch \in Seq(Files) /\ Len(batch) <= BatchSize
  /\ hand \in Files \cup {NoFile} /\ current \in Files \cup {NoFile}
  /\ requestChan \in Seq(Files) /\ Len(requestChan) <= BufferSize
  /\ ended \subseteq Files /\ stray \in BOOLEAN /\ asked \subseteq Files
  /\ stream \in [Files -> {"none", "open", "dead", "finished"}]
  /\ wire \in [Files -> Seq(Response)]
  /\ scanRequests \in Seq(Files) /\ Len(scanRequests) <= BufferSize
  /\ scanResponses \in Seq(Response) /\ Len(scanResponses) <= BufferSize
  /\ job \in [Workers -> [file : Files \cup {NoFile}, next : Nat]]

\* Whatever fails and whenever the master restarts, what is announced is one
\* file, whole and in order: this much the sums always ensure.
AnnouncedIsWhole == \A a \in announced : \E f \in Files : a[2] = Content(f)

\* It is the file that was asked for, which the sums alone do not ensure, as
\* long as every download has seen its stream end.
ContentIsTheFiles == ~stray => \A a \in announced : a[2] = Content(a[1])

\* A task is in the hands of one of the workers, or its download is over.
Held(f) == f = hand \/ f \in Range(requestChan) \/ f = current \/ f \in ended

\* A task is in one place and is downloaded once: the places it can be in
\* exclude each other, and one that has left the pending keys is held by a
\* worker or over, short of a restart.
TaskIsInOnePlace ==
  /\ IsInjective(requestChan)
  /\ \A f \in Files :
       /\ f \in Range(requestChan) => f # hand /\ f # current /\ f \notin ended
       /\ f = hand => f # current /\ f \notin ended
       /\ f = current => f \notin ended
       /\ IsPending(f) => f \notin processing
       /\ f \in processing /\ restarts = 0 => Held(f)

\* The transfer of f as its outcome shows it.
Status(f) ==
  IF \E a \in announced : a[1] = f THEN "announced"
  ELSE IF f \in ended THEN "given up"
  ELSE IF f \in processing THEN IF Held(f) THEN "claimed" ELSE "lost"
  ELSE IF IsPending(f) THEN "queued" ELSE "new"

Transfer == INSTANCE FileTransfer WITH
  status  <- [f \in Files |-> Status(f)],
  crashes <- restarts

\* The workers of both sides implement the promise of a transfer: every file
\* at most once, with one final outcome, and no loss short of a crash.
ImplementsTransfer == Transfer!Spec

\* The master waits for a response, and the scanner has none left to send.
Forgotten ==
  /\ current # NoFile /\ current \notin asked
  /\ stream[current] = "open" /\ wire[current] = <<>>
  /\ scanRequests = <<>> /\ scanResponses = <<>>
  /\ \A w \in Workers : job[w] = Idle

\* Every task the sink stored is eventually downloaded or given up, and no
\* file holds up the files behind it, with three exceptions: the context
\* ends; a restart has lost the task after it was marked; or the scanner has
\* forgotten the download in progress.
TasksAreTransferred ==
  \A f \in Files :
    IsPending(f) ~> f \in ended \/ ctxDone \/ (f \in processing /\ ~Held(f)) \/ Forgotten
=============================================================================
