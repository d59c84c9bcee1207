------------------------- MODULE FileDownloadProofs -------------------------
(***************************************************************************)
(* Proofs about the transfer of files, for any files and sizes, any number *)
(* of workers, any buffers, whatever calls fail and however often the      *)
(* master restarts.                                                        *)
(***************************************************************************)
EXTENDS FileDownload, TLAPS

TaskTypes ==
  /\ pending \in Seq(Files) /\ processing \subseteq Files /\ batch \in Seq(Files)
  /\ hand \in Files \cup {NoFile} /\ current \in Files \cup {NoFile}
  /\ requestChan \in Seq(Files) /\ ended \subseteq Files

FlowTypes ==
  /\ current \in Files \cup {NoFile} /\ stray \in BOOLEAN /\ asked \subseteq Files
  /\ stream \in [Files -> {"none", "open", "dead", "finished"}]
  /\ wire \in [Files -> Seq(Response)]
  /\ scanRequests \in Seq(Files) /\ scanResponses \in Seq(Response)
  /\ job \in [Workers -> [file : Files \cup {NoFile}, next : Nat]]
  /\ \A w \in Workers : job[w].file = NoFile => job[w] = Idle

\* What the workers hold, and what was announced, has been marked.
TaskInv ==
  /\ TaskTypes /\ TaskIsInOnePlace
  /\ IsInjective(pending)
  /\ \A f \in Files : Held(f) => f \in processing
  /\ \A a \in announced : a[1] \in processing /\ a[1] # hand /\ a[1] \notin Range(requestChan)

AllIdle == \A w \in Workers : job[w].file = NoFile
Quiet == asked = {} /\ scanRequests = <<>> /\ scanResponses = <<>> /\ AllIdle

\* While no download has been left early, everything on the scanner's side is
\* about the master's current file, the request of that file is in one place,
\* and its last response is behind all the others.
OwnInv ==
  /\ \A f \in Files : stream[f] = "open" => f = current
  /\ (current = NoFile \/ stream[current] # "open") => Quiet
  /\ \A f \in asked : f = current /\ scanRequests = <<>> /\ scanResponses = <<>> /\ AllIdle
  /\ scanRequests # <<>> => scanRequests = <<current>> /\ scanResponses = <<>> /\ AllIdle
  /\ \A w \in Workers : job[w].file # NoFile =>
       /\ job[w].file = current
       /\ \A v \in Workers : v # w => job[v].file = NoFile
       /\ \A i \in DOMAIN scanResponses : ~IsLast(scanResponses[i])
  /\ \A i \in DOMAIN scanResponses :
       /\ scanResponses[i].file = current
       /\ IsLast(scanResponses[i]) => i = Len(scanResponses)
  /\ \A f \in Files : \A i \in DOMAIN wire[f] : wire[f][i].file = f

FlowInv == FlowTypes /\ (~stray => OwnInv)
AnnouncedInv == AnnouncedIsWhole /\ ContentIsTheFiles

-----------------------------------------------------------------------------
(* Sequences without repetition.                                           *)
LEMMA AppendFacts ==
  ASSUME NEW S, NEW q \in Seq(S), NEW x \in S
  PROVE  /\ Append(q, x) \in Seq(S)
         /\ Range(Append(q, x)) = Range(q) \cup {x}
         /\ IsInjective(q) /\ x \notin Range(q) => IsInjective(Append(q, x))
<1>1. /\ Append(q, x) \in Seq(S) /\ DOMAIN q = 1 .. Len(q) /\ Len(q) \in Nat
      /\ DOMAIN Append(q, x) = 1 .. Len(q) + 1
      /\ \A i \in 1 .. Len(q) : Append(q, x)[i] = q[i]
      /\ Append(q, x)[Len(q) + 1] = x
  OBVIOUS
<1>2. Range(Append(q, x)) = Range(q) \cup {x}
  <2>1. ASSUME NEW y \in Range(Append(q, x)) PROVE y \in Range(q) \cup {x}
    BY <1>1, <2>1 DEF Range
  <2>2. ASSUME NEW y \in Range(q) \cup {x} PROVE y \in Range(Append(q, x))
    BY <1>1, <2>2 DEF Range
  <2> QED
    BY <2>1, <2>2
<1>3. IsInjective(q) /\ x \notin Range(q) => IsInjective(Append(q, x))
  BY <1>1 DEF IsInjective, Range
<1> QED
  BY <1>1, <1>2, <1>3, Zenon

\* Taking the first element removes it, and that only.
LEMMA TailFacts ==
  ASSUME NEW S, NEW q \in Seq(S), q # <<>>
  PROVE  /\ Tail(q) \in Seq(S) /\ Head(q) \in S /\ Head(q) \in Range(q)
         /\ Range(q) = Range(Tail(q)) \cup {Head(q)}
         /\ IsInjective(q) => IsInjective(Tail(q)) /\ Head(q) \notin Range(Tail(q))
<1>1. /\ Tail(q) \in Seq(S) /\ Head(q) = q[1] /\ DOMAIN q = 1 .. Len(q) /\ Len(q) \in Nat \ {0}
      /\ DOMAIN Tail(q) = 1 .. Len(q) - 1
      /\ \A i \in 1 .. Len(q) - 1 : Tail(q)[i] = q[i + 1]
  OBVIOUS
<1>2. Range(q) = Range(Tail(q)) \cup {Head(q)}
  <2>1. ASSUME NEW i \in DOMAIN q PROVE q[i] \in Range(Tail(q)) \cup {Head(q)}
    <3>1. CASE i = 1
      BY <1>1, <3>1
    <3>2. CASE i # 1
      <4>1. i - 1 \in DOMAIN Tail(q) /\ Tail(q)[i - 1] = q[i]
        BY <1>1, <3>2
      <4> QED
        BY <4>1 DEF Range
    <3> QED
      BY <3>1, <3>2
  <2>2. ASSUME NEW i \in DOMAIN Tail(q) PROVE Tail(q)[i] \in Range(q)
    BY <1>1 DEF Range
  <2>3. Head(q) \in Range(q)
    BY <1>1 DEF Range
  <2> QED
    BY <2>1, <2>2, <2>3, Zenon DEF Range
<1>3. ASSUME IsInjective(q) PROVE IsInjective(Tail(q)) /\ Head(q) \notin Range(Tail(q))
  <2>1. ASSUME NEW i \in 1 .. Len(q) - 1, NEW j \in 1 .. Len(q) - 1, Tail(q)[i] = Tail(q)[j]
        PROVE  i = j
    <3>1. i + 1 \in DOMAIN q /\ j + 1 \in DOMAIN q /\ q[i + 1] = q[j + 1]
      BY <1>1, <2>1
    <3>2. i + 1 = j + 1
      BY <1>3, <3>1, Zenon DEF IsInjective
    <3> QED
      BY <3>2
  <2>2. ASSUME NEW i \in 1 .. Len(q) - 1 PROVE Tail(q)[i] # Head(q)
    <3>1. /\ i + 1 \in DOMAIN q /\ 1 \in DOMAIN q /\ i + 1 # 1
          /\ Tail(q)[i] = q[i + 1] /\ Head(q) = q[1]
      BY <1>1
    <3> QED
      BY <1>3, <3>1, Zenon DEF IsInjective
  <2> QED
    BY <1>1, <2>1, <2>2, Zenon DEF IsInjective, Range
<1> QED
  BY <1>1, <1>2, <1>3

\* Deleting a pending key removes its file, and that only.
LEMMA DeletedFacts ==
  ASSUME TaskTypes, IsInjective(pending), NEW k \in DOMAIN pending
  PROVE  /\ Deleted(k) \in Seq(Files) /\ IsInjective(Deleted(k))
         /\ Range(Deleted(k)) = Range(pending) \ {pending[k]}
<1>1. /\ DOMAIN pending = 1 .. Len(pending) /\ Len(pending) \in Nat /\ k \in 1 .. Len(pending)
      /\ \A i \in 1 .. Len(pending) : pending[i] \in Files
  BY DEF TaskTypes
<1>2. /\ Deleted(k) \in Seq(Files) /\ DOMAIN Deleted(k) = 1 .. Len(pending) - 1
      /\ \A j \in 1 .. Len(pending) - 1 : Deleted(k)[j] = pending[IF j < k THEN j ELSE j + 1]
  BY <1>1 DEF Deleted
<1> DEFINE from(j) == IF j < k THEN j ELSE j + 1
<1>a. \A j \in 1 .. Len(pending) - 1 : from(j) \in DOMAIN pending /\ from(j) # k
  BY <1>1
<1>b. \A i, j \in 1 .. Len(pending) - 1 : from(i) = from(j) => i = j
  BY <1>1
<1>c. \A j \in 1 .. Len(pending) - 1 : Deleted(k)[j] = pending[from(j)]
  BY <1>2
<1> HIDE DEF from
<1>3. IsInjective(Deleted(k))
  BY <1>2, <1>a, <1>b, <1>c DEF IsInjective
<1>4. ASSUME NEW j \in DOMAIN Deleted(k) PROVE Deleted(k)[j] \in Range(pending) \ {pending[k]}
  BY <1>2, <1>a, <1>c DEF IsInjective, Range
<1>5. ASSUME NEW i \in DOMAIN pending, pending[i] # pending[k] PROVE pending[i] \in Range(Deleted(k))
  <2>1. CASE i < k
    <3>1. i \in DOMAIN Deleted(k) /\ Deleted(k)[i] = pending[i]
      BY <1>1, <1>2, <2>1
    <3> QED
      BY <3>1 DEF Range
  <2>2. CASE ~(i < k)
    <3>1. i - 1 \in DOMAIN Deleted(k) /\ Deleted(k)[i - 1] = pending[i]
      BY <1>1, <1>2, <1>5, <2>2
    <3> QED
      BY <3>1 DEF Range
  <2> QED
    BY <2>1, <2>2
<1>6. Range(Deleted(k)) = Range(pending) \ {pending[k]}
  BY <1>4, <1>5 DEF Range
<1> QED
  BY <1>2, <1>3, <1>6

-----------------------------------------------------------------------------
(* What a step of the master does to the tasks.                            *)
LEMMA AcceptFacts ==
  ASSUME NEW f, NEW r \in Response, NEW disk \in BOOLEAN, NEW send \in BOOLEAN,
         ProcessResponse(f, r, disk, send)
  PROVE  announced' = announced \/ announced' = announced \cup {<<f, Content(r.file)>>}
<1>1. CASE r.kind = "metadata" /\ disk
  <2>1. OpenBuffer(f)
    BY <1>1 DEF ProcessResponse
  <2> QED
    BY <2>1 DEF OpenBuffer
<1>2. CASE r.kind = "chunk" /\ f \in DOMAIN buffers /\ disk
  <2>1. WriteChunk(f, Chunk(r.file, r.n))
    BY <1>2 DEF ProcessResponse
  <2> QED
    BY <2>1 DEF WriteChunk
<1>3. CASE r.kind = "signature"
  <2>1. Finalize(f, Content(r.file), send)
    BY <1>3 DEF ProcessResponse
  <2> QED
    BY <2>1 DEF Finalize, Verified
<1>4. CASE ~(r.kind = "metadata" /\ disk) /\ ~(r.kind = "chunk" /\ f \in DOMAIN buffers /\ disk)
           /\ r.kind # "signature"
  <2>1. UNCHANGED accumulatorVars
    BY <1>4 DEF ProcessResponse
  <2> QED
    BY <2>1 DEF accumulatorVars
<1> QED
  BY <1>1, <1>2, <1>3, <1>4

\* handleDownload goes on, or it returns.
Returns(rest) ==
  \/ UNCHANGED <<current, ended, stray>>
  \/ current # NoFile /\ Break(rest)

\* Recv, seen from the tasks: g is the file that the response is about.
LEMMA RecvFacts ==
  ASSUME FlowTypes, NEW disk \in BOOLEAN, NEW send \in BOOLEAN, Recv(disk, send)
  PROVE  /\ current \in Files /\ wire[current] \in Seq(Response) /\ wire[current] # <<>>
         /\ Head(wire[current]) \in Response
         /\ wire' = [wire EXCEPT ![current] = Tail(@)]
         /\ \/ announced' = announced
            \/ announced' = announced \cup {<<current, Content(Head(wire[current]).file)>>}
         /\ Returns(Tail(wire[current]))
         /\ UNCHANGED <<stream, asked, requestChan, taskVars, scannerVars, restarts, batch, hand>>
<1>1. current \in Files /\ wire[current] \in Seq(Response) /\ wire[current] # <<>>
  BY DEF FlowTypes, Recv
<1>2. Head(wire[current]) \in Response
  BY <1>1, TailFacts
<1>3. ProcessResponse(current, Head(wire[current]), disk, send)
  BY DEF Recv
<1>4. \/ announced' = announced
      \/ announced' = announced \cup {<<current, Content(Head(wire[current]).file)>>}
  BY <1>2, <1>3, AcceptFacts
<1> QED
  BY <1>1, <1>2, <1>4, Zenon DEF Recv, Returns, DownloadKeeps

-----------------------------------------------------------------------------
(* The tasks: TaskInv is kept.                                             *)
LEMMA TaskAside ==
  ASSUME TaskInv, UNCHANGED <<pending, processing, hand, requestChan, current, ended, restarts, announced>>,
         batch' \in Seq(Files)
  PROVE  TaskInv'
BY DEF TaskInv, TaskTypes, TaskIsInOnePlace, Held, IsPending

\* EnqueueTask adds a task that is nowhere yet.
LEMMA EnqueueTasks ==
  ASSUME TaskInv, NEW f \in Files, Enqueue(f)
  PROVE  TaskInv'
<1>1. pending \in Seq(Files) /\ IsInjective(pending) /\ f \notin Range(pending) /\ f \notin processing
  BY DEF TaskInv, TaskTypes, Enqueue, IsPending
<1>2. /\ pending' \in Seq(Files) /\ IsInjective(pending') /\ Range(pending') = Range(pending) \cup {f}
  BY <1>1, AppendFacts DEF Enqueue, EnqueueTask
<1>3. UNCHANGED <<processing, batch, hand, requestChan, current, ended, restarts, announced>>
  BY DEF Enqueue, EnqueueTask, masterVars, accumulatorVars
<1> QED
  BY <1>1, <1>2, <1>3 DEF TaskInv, TaskTypes, TaskIsInOnePlace, Held, IsPending

\* GetNextBatch moves no task.
LEMMA PollTasks ==
  ASSUME TaskInv, Poll
  PROVE  TaskInv'
<1>1. UNCHANGED <<pending, processing, hand, requestChan, current, ended, restarts, announced>>
  BY DEF Poll, TransferKeeps, taskVars, accumulatorVars
<1>2. batch' \in Seq(Files)
  BY FileDownloadAssumption DEF Poll, GetNextBatch, TaskInv, TaskTypes
<1> QED
  BY <1>1, <1>2, TaskAside

\* MarkAsProcessing moves a task from the pending keys into the worker's hands.
LEMMA MarkTasks ==
  ASSUME TaskInv, NEW ok \in BOOLEAN, Mark(ok)
  PROVE  TaskInv'
<1>1. batch \in Seq(Files) /\ batch # <<>> /\ hand = NoFile
  BY DEF Mark, TaskInv, TaskTypes
<1>2. PICK f \in Files : f = Head(batch)
  BY <1>1, TailFacts
<1>3. batch' \in Seq(Files) /\ UNCHANGED <<requestChan, current, ended, restarts, announced>>
  BY <1>1, TailFacts DEF Mark, TransferKeeps, accumulatorVars
<1>4. CASE ok /\ IsPending(f)
  <2>1. PICK k \in DOMAIN pending : pending[k] = f /\ pending' = Deleted(k)
    BY <1>2, <1>4 DEF Mark, MarkAsProcessing
  <2>2. /\ pending' \in Seq(Files) /\ IsInjective(pending') /\ Range(pending') = Range(pending) \ {f}
    BY <2>1, DeletedFacts, Zenon DEF TaskInv
  <2>3. processing' = processing \cup {f} /\ hand' = f
    BY <1>2, <1>4 DEF Mark, MarkAsProcessing
  <2>4. f \notin processing /\ ~Held(f)
    BY <1>4 DEF TaskInv, TaskIsInOnePlace
  <2>5. TaskTypes'
    BY <1>3, <2>2, <2>3, Zenon DEF TaskInv, TaskTypes
  <2>6. \A g \in Files : Held(g)' => Held(g) \/ g = f
    BY <1>3, <2>3 DEF Held
  <2>7. \A g \in Files : Held(g) \/ g = f => Held(g)'
    BY <1>1, <1>3, <2>3, FileDownloadAssumption DEF Held
  <2>8. TaskIsInOnePlace'
    BY <1>3, <2>2, <2>3, <2>4, <2>7, Zenon DEF TaskInv, TaskIsInOnePlace, Held, IsPending
  <2>9. \A a \in announced : a[1] # f
    BY <2>4 DEF TaskInv
  <2> QED
    BY <1>3, <2>2, <2>3, <2>5, <2>6, <2>8, <2>9 DEF TaskInv
<1>5. CASE ~(ok /\ IsPending(f))
  BY <1>2, <1>3, <1>5, TaskAside DEF Mark, taskVars
<1> QED
  BY <1>4, <1>5

\* The transfer worker hands its task to the downloader.
LEMMA DispatchTasks ==
  ASSUME TaskInv, Dispatch
  PROVE  TaskInv' /\ \A f \in Files : Held(f)' <=> Held(f)
<1>1. hand \in Files /\ requestChan \in Seq(Files) /\ IsInjective(requestChan)
      /\ hand \notin Range(requestChan)
  BY DEF Dispatch, TaskInv, TaskTypes, TaskIsInOnePlace
<1>2. /\ requestChan' \in Seq(Files) /\ IsInjective(requestChan')
      /\ Range(requestChan') = Range(requestChan) \cup {hand}
  BY <1>1, AppendFacts DEF Dispatch
<1>3. /\ UNCHANGED <<pending, processing, batch, current, ended, restarts, announced>>
      /\ hand' = NoFile /\ NoFile \notin Files
  BY FileDownloadAssumption DEF Dispatch, TransferKeeps, taskVars, accumulatorVars
<1>4. \A f \in Files : Held(f)' <=> Held(f)
  BY <1>2, <1>3 DEF Held
<1>5. \A a \in announced : a[1] \in Files
  BY DEF TaskInv, TaskTypes
<1> QED
  BY <1>1, <1>2, <1>3, <1>4, <1>5, Zenon DEF TaskInv, TaskTypes, TaskIsInOnePlace, IsPending

\* The downloader takes its task from the request channel, or ends it.
LEMMA StartTasks ==
  ASSUME TaskInv, NEW ok \in BOOLEAN, StartDownload(ok)
  PROVE  TaskInv' /\ \A f \in Files : Held(f)' <=> Held(f)
<1>1. requestChan \in Seq(Files) /\ requestChan # <<>> /\ IsInjective(requestChan)
  BY DEF StartDownload, TaskInv, TaskTypes, TaskIsInOnePlace
<1>2. PICK f \in Files : f = Head(requestChan)
  BY <1>1, TailFacts
<1>3. /\ requestChan' \in Seq(Files) /\ IsInjective(requestChan') /\ f \notin Range(requestChan')
      /\ Range(requestChan) = Range(requestChan') \cup {f}
  BY <1>1, <1>2, TailFacts DEF StartDownload
<1>4. /\ UNCHANGED <<pending, processing, batch, hand, restarts, announced>>
      /\ current = NoFile /\ NoFile \notin Files
      /\ \/ current' = f /\ ended' = ended
         \/ current' = NoFile /\ ended' = ended \cup {f}
  BY <1>2, FileDownloadAssumption DEF StartDownload, DownloadKeeps, taskVars, accumulatorVars
<1>5. \A g \in Files : Held(g)' <=> Held(g)
  BY <1>3, <1>4 DEF Held
<1> QED
  BY <1>2, <1>3, <1>4, <1>5, Zenon DEF TaskInv, TaskTypes, TaskIsInOnePlace, IsPending

\* Recv and RecvEnds: the current file may be announced, and may be over.
Yields(c) ==
  /\ current \in Files
  /\ UNCHANGED <<pending, processing, batch, hand, requestChan, restarts>>
  /\ announced' = announced \/ announced' = announced \cup {<<current, c>>}
  /\ \/ UNCHANGED <<current, ended>>
     \/ current' = NoFile /\ ended' = ended \cup {current}

\* handleDownload keeps its task until it returns, and ends it then.
LEMMA YieldsTasks ==
  ASSUME TaskInv, NEW c, Yields(c)
  PROVE  TaskInv' /\ \A f \in Files : Held(f)' <=> Held(f)
<1>1. NoFile \notin Files
  BY FileDownloadAssumption
<1>2. \A f \in Files : Held(f)' <=> Held(f)
  BY <1>1 DEF Yields, Held
<1>3. TaskTypes' /\ TaskIsInOnePlace'
  BY <1>1, <1>2, Zenon DEF Yields, TaskInv, TaskTypes, TaskIsInOnePlace, IsPending
<1>4. current \in processing /\ current # hand /\ current \notin Range(requestChan)
  BY Zenon DEF Yields, TaskInv, TaskIsInOnePlace, Held
<1>5. \A a \in announced' : a \in announced \/ a[1] = current
  BY DEF Yields
<1> QED
  BY <1>2, <1>3, <1>4, <1>5 DEF Yields, TaskInv

\* A response is announced or not, and handleDownload goes on or returns.
LEMMA RecvYields ==
  ASSUME FlowTypes, NEW disk \in BOOLEAN, NEW send \in BOOLEAN, Recv(disk, send)
  PROVE  \E c : Yields(c)
<1>1. PICK c : c = Content(Head(wire[current]).file)
  OBVIOUS
<1>2. /\ current \in Files /\ Returns(Tail(wire[current]))
      /\ announced' = announced \/ announced' = announced \cup {<<current, c>>}
      /\ UNCHANGED <<requestChan, taskVars, restarts, batch, hand>>
  BY <1>1, RecvFacts, Zenon
<1> QED
  BY <1>2, Zenon DEF Yields, Returns, Break, taskVars

\* handleDownload returns when Recv fails.
LEMMA RecvEndsYields ==
  ASSUME TaskTypes, RecvEnds
  PROVE  \E c : Yields(c)
<1> QED
  BY DEF TaskTypes, RecvEnds, Yields, Break, DownloadKeeps, taskVars, accumulatorVars

\* A restart forgets the tasks in the workers' hands, and no other.
LEMMA RestartTasks ==
  ASSUME TaskInv, restarts \in Nat, Restart
  PROVE  /\ TaskInv' /\ restarts' = restarts + 1
         /\ UNCHANGED <<pending, processing, ended, announced>>
         /\ \A f \in Files : Held(f)' <=> f \in ended
<1>1. /\ UNCHANGED <<pending, processing, ended, announced>> /\ restarts' = restarts + 1
      /\ requestChan' = <<>> /\ batch' = <<>> /\ hand' = NoFile /\ current' = NoFile
      /\ NoFile \notin Files
  BY FileDownloadAssumption DEF Restart, taskVars
<1>2. Range(<<>>) = {} /\ IsInjective(<<>>) /\ <<>> \in Seq(Files)
  BY DEF Range, IsInjective
<1>3. \A f \in Files : Held(f)' <=> f \in ended
  BY <1>1, <1>2 DEF Held
<1>4. \A a \in announced : a[1] \in Files
  BY DEF TaskInv, TaskTypes
<1>5. ended \subseteq processing
  BY DEF TaskInv, TaskTypes, Held
<1>6. restarts' # 0
  BY <1>1
<1> QED
  BY <1>1, <1>2, <1>3, <1>4, <1>5, <1>6, Zenon DEF TaskInv, TaskTypes, TaskIsInOnePlace, IsPending

\* The steps that leave the tasks where they are.
TaskView == <<pending, processing, hand, requestChan, current, ended, restarts, announced>>

Elsewhere ==
  \/ TransferReturns \/ DownloaderReturns \/ Cancel
  \/ \E f \in Files :
       \/ \E valid \in BOOLEAN : Receive(f, valid)
       \/ ReceiverEnds(f) \/ SendResponse(f) \/ SenderEnds(f)
  \/ \E w \in Workers : TakeRequest(w) \/ Refuse(w) \/ Process(w) \/ ReadFails(w)
  \/ UNCHANGED vars

\* The scanner, the streams and the cancellation move no task.
LEMMA ElsewhereTasks ==
  ASSUME Elsewhere
  PROVE  UNCHANGED TaskView /\ UNCHANGED batch
<1>1. CASE TransferReturns \/ DownloaderReturns \/ Cancel
  BY <1>1 DEF TransferReturns, DownloaderReturns, Cancel, TransferKeeps, DownloadKeeps,
              TaskView, taskVars, accumulatorVars, StreamsDie
<1>2. ASSUME NEW f \in Files, NEW valid \in BOOLEAN,
             Receive(f, valid) \/ ReceiverEnds(f) \/ SendResponse(f) \/ SenderEnds(f)
      PROVE  UNCHANGED TaskView /\ UNCHANGED batch
  BY <1>2, Zenon DEF Receive, ReceiverEnds, SendResponse, SenderEnds, ServerKeeps,
              TaskView, taskVars, accumulatorVars, masterVars
<1>3. ASSUME NEW w \in Workers, TakeRequest(w) \/ Refuse(w) \/ Process(w) \/ ReadFails(w)
      PROVE  UNCHANGED TaskView /\ UNCHANGED batch
  BY <1>3, Zenon DEF TakeRequest, Refuse, Process, ReadFails, Respond, WorkerKeeps,
              TaskView, taskVars, accumulatorVars, masterVars
<1>4. CASE UNCHANGED vars
  BY <1>4 DEF vars, TaskView, taskVars, accumulatorVars, masterVars
<1> QED
  BY <1>1, <1>2, <1>3, <1>4, Zenon DEF Elsewhere

\* Next, sorted by what it does to the tasks.
LEMMA Sorted ==
  ASSUME FlowTypes, TaskTypes, [Next]_vars
  PROVE  \/ \E f \in Files : Enqueue(f)
         \/ Poll
         \/ \E ok \in BOOLEAN : Mark(ok) \/ StartDownload(ok)
         \/ Dispatch
         \/ \E c : Yields(c)
         \/ Restart
         \/ Elsewhere
<1>1. \A fault : Outcomes(fault) \subseteq BOOLEAN
  BY Zenon DEF Outcomes
<1>2. CASE \E disk \in Outcomes("disk"), send \in BOOLEAN : Recv(disk, send)
  BY <1>1, <1>2, RecvYields
<1>3. CASE RecvEnds
  BY <1>3, RecvEndsYields
<1>4. CASE \E ok \in Outcomes("mark") : Mark(ok)
  BY <1>1, <1>4
<1>5. CASE \E ok \in Outcomes("open") \cup (IF ctxDone THEN {FALSE} ELSE {}) : StartDownload(ok)
  <2>1. Outcomes("open") \cup (IF ctxDone THEN {FALSE} ELSE {}) \subseteq BOOLEAN
    BY <1>1, Zenon
  <2> QED
    BY <1>5, <2>1, Zenon
<1>6. CASE \E f \in Files, valid \in Outcomes("validate") : Receive(f, valid)
  BY <1>1, <1>6 DEF Elsewhere
<1>7. CASE \/ TransferReturns \/ DownloaderReturns \/ Cancel \/ UNCHANGED vars
           \/ \E f \in Files : ReceiverEnds(f) \/ SendResponse(f) \/ SenderEnds(f)
           \/ \E w \in Workers : TakeRequest(w) \/ Refuse(w) \/ Process(w) \/ ReadFails(w)
  BY <1>7 DEF Elsewhere
<1> QED
  BY <1>2, <1>3, <1>4, <1>5, <1>6, <1>7, Zenon DEF Next

\* Every step keeps the tasks in one place.
LEMMA NextTasks ==
  ASSUME TaskInv, FlowTypes, restarts \in Nat, [Next]_vars
  PROVE  TaskInv' /\ restarts' \in Nat
<1>1. ASSUME NEW f \in Files, Enqueue(f) PROVE TaskInv' /\ restarts' \in Nat
  BY <1>1, EnqueueTasks DEF Enqueue, masterVars
<1>2. CASE Poll
  BY <1>2, PollTasks DEF Poll, TransferKeeps
<1>3. ASSUME NEW ok \in BOOLEAN, Mark(ok) PROVE TaskInv' /\ restarts' \in Nat
  BY <1>3, MarkTasks, Zenon DEF Mark, TransferKeeps
<1>4. ASSUME NEW ok \in BOOLEAN, StartDownload(ok) PROVE TaskInv' /\ restarts' \in Nat
  BY <1>4, StartTasks, Zenon DEF StartDownload, DownloadKeeps
<1>5. CASE Dispatch
  BY <1>5, DispatchTasks DEF Dispatch, TransferKeeps
<1>6. ASSUME NEW c, Yields(c) PROVE TaskInv' /\ restarts' \in Nat
  BY <1>6, YieldsTasks, Zenon DEF Yields
<1>7. CASE Restart
  BY <1>7, RestartTasks
<1>8. CASE Elsewhere
  <2>1. batch \in Seq(Files)
    BY DEF TaskInv, TaskTypes
  <2> QED
    BY <1>8, <2>1, ElsewhereTasks, TaskAside DEF TaskView
<1> QED
  BY <1>1, <1>2, <1>3, <1>4, <1>5, <1>6, <1>7, <1>8, Sorted, Zenon DEF TaskInv

-----------------------------------------------------------------------------
(* The abstract transfer.                                                  *)
Announced(f) == \E a \in announced : a[1] = f

\* What the invariant of the tasks says about the status of a file.
LEMMA StatusFacts ==
  ASSUME TaskInv, NEW f \in Files
  PROVE  /\ Announced(f) => Status(f) = "announced"
         /\ ~Announced(f) /\ f \in ended => Status(f) = "given up"
         /\ ~Announced(f) /\ f \notin ended /\ Held(f) => Status(f) = "claimed"
         /\ ~Announced(f) /\ f \in processing /\ ~Held(f) => Status(f) = "lost"
         /\ f \notin processing => ~Announced(f) /\ f \notin ended /\ ~Held(f)
         /\ f \notin processing /\ IsPending(f) => Status(f) = "queued"
         /\ f \notin processing /\ ~IsPending(f) => Status(f) = "new"
BY Zenon DEF TaskInv, Status, Announced, Held

\* The status depends on these facts alone.
LEMMA StatusKept ==
  ASSUME NEW f \in Files, Announced(f)' <=> Announced(f), (f \in ended)' <=> (f \in ended),
         (f \in processing)' <=> (f \in processing), Held(f)' <=> Held(f),
         IsPending(f)' <=> IsPending(f)
  PROVE  Status(f)' = Status(f)
BY Zenon DEF Status, Announced

\* One file changes its status: a step of the abstract transfer.
LEMMA Settles ==
  ASSUME NEW f \in Files, NEW x, NEW y, Status(f) = x, Status(f)' = y, restarts' = restarts,
         \A g \in Files : g # f => Status(g)' = Status(g)
  PROVE  Transfer!Settle(f, x, y)
BY Zenon DEF Transfer!Settle

\* No file changes its status: a stutter of the abstract transfer.
LEMMA Stutters ==
  ASSUME restarts' = restarts, \A g \in Files : Status(g)' = Status(g)
  PROVE  UNCHANGED Transfer!vars
BY DEF Transfer!vars

\* EnqueueTask queues a file.
LEMMA EnqueueRefines ==
  ASSUME TaskInv, TaskInv', NEW f \in Files, Enqueue(f)
  PROVE  Transfer!Settle(f, "new", "queued")
<1>1. /\ UNCHANGED <<processing, hand, requestChan, current, ended, restarts, announced>>
      /\ f \notin processing /\ ~IsPending(f)
      /\ pending \in Seq(Files)
  BY Zenon DEF Enqueue, EnqueueTask, masterVars, accumulatorVars, TaskInv, TaskTypes
<1>2. \A g \in Files : IsPending(g)' <=> IsPending(g) \/ g = f
  BY <1>1, AppendFacts DEF Enqueue, EnqueueTask, IsPending
<1>3. \A g \in Files : /\ Held(g)' <=> Held(g)
                       /\ Announced(g)' <=> Announced(g)
  BY <1>1 DEF Held, Announced
<1>4. \A g \in Files : g # f => Status(g)' = Status(g)
  BY <1>1, <1>2, <1>3, StatusKept
<1>5. Status(f) = "new"
  BY <1>1, StatusFacts, Zenon
<1>6. Status(f)' = "queued"
  BY <1>1, <1>2, <1>3, StatusFacts, Zenon DEF Status, Announced, TaskInv
<1> QED
  BY <1>1, <1>4, <1>5, <1>6, Settles

\* MarkAsProcessing claims a file, or fails and changes nothing.
LEMMA MarkRefines ==
  ASSUME TaskInv, TaskInv', NEW ok \in BOOLEAN, Mark(ok)
  PROVE  [Transfer!Next]_Transfer!vars
<1>1. batch \in Seq(Files) /\ batch # <<>> /\ hand = NoFile /\ NoFile \notin Files
  BY FileDownloadAssumption, Zenon DEF Mark, TaskInv, TaskTypes
<1>2. PICK f \in Files : f = Head(batch)
  BY <1>1, TailFacts
<1>3. UNCHANGED <<requestChan, current, ended, restarts, announced>>
  BY DEF Mark, TransferKeeps, accumulatorVars
<1>4. CASE ok /\ IsPending(f)
  <2>1. PICK k \in DOMAIN pending : pending[k] = f /\ pending' = Deleted(k)
    BY <1>2, <1>4 DEF Mark, MarkAsProcessing
  <2>2. \A g \in Files : IsPending(g)' <=> IsPending(g) /\ g # f
    BY <2>1, DeletedFacts, Zenon DEF TaskInv, IsPending
  <2>3. processing' = processing \cup {f} /\ hand' = f
    BY <1>2, <1>4 DEF Mark, MarkAsProcessing
  <2>4. f \notin processing
    BY <1>4, Zenon DEF TaskInv, TaskIsInOnePlace
  <2>5. \A g \in Files : /\ Held(g)' <=> Held(g) \/ g = f
                         /\ Announced(g)' <=> Announced(g)
    BY <1>1, <1>3, <2>3, Zenon DEF Held, Announced
  <2>6. \A g \in Files : g # f => Status(g)' = Status(g)
    BY <1>3, <2>2, <2>3, <2>5, StatusKept, Zenon
  <2>7. Status(f) = "queued" /\ ~Announced(f) /\ f \notin ended
    BY <1>4, <2>4, StatusFacts, Zenon
  <2>8. Status(f)' = "claimed"
    BY <1>3, <2>3, <2>5, <2>7, Zenon DEF Status, Announced
  <2>9. Transfer!Settle(f, "queued", "claimed")
    BY <1>3, <2>6, <2>7, <2>8, Settles, Zenon
  <2> QED
    BY <2>9, Zenon DEF Transfer!Next
<1>5. CASE ~(ok /\ IsPending(f))
  <2>1. UNCHANGED <<pending, processing, hand>>
    BY <1>2, <1>5 DEF Mark, taskVars
  <2>2. \A g \in Files : Status(g)' = Status(g)
    BY <1>3, <2>1, Zenon DEF Status, Held, IsPending
  <2> QED
    BY <1>3, <2>2, Stutters
<1> QED
  BY <1>4, <1>5

\* A download that cannot start gives its file up.
LEMMA StartRefines ==
  ASSUME TaskInv, NEW ok \in BOOLEAN, StartDownload(ok)
  PROVE  [Transfer!Next]_Transfer!vars
<1>1. requestChan \in Seq(Files) /\ requestChan # <<>>
  BY Zenon DEF StartDownload, TaskInv, TaskTypes
<1>2. PICK f \in Files : f = Head(requestChan) /\ f \in Range(requestChan)
  BY <1>1, TailFacts
<1>3. /\ UNCHANGED <<pending, processing, restarts, announced>>
      /\ ended' = ended \/ ended' = ended \cup {f}
  BY <1>2, Zenon DEF StartDownload, DownloadKeeps, taskVars, accumulatorVars
<1>4. \A g \in Files : /\ Held(g)' <=> Held(g)
                       /\ Announced(g)' <=> Announced(g)
                       /\ IsPending(g)' <=> IsPending(g)
  BY <1>3, StartTasks, Zenon DEF Announced, IsPending
<1>5. \A g \in Files : g # f \/ ended' = ended => Status(g)' = Status(g)
  BY <1>3, <1>4, StatusKept, Zenon
<1>6. CASE ended' = ended
  BY <1>3, <1>5, <1>6, Stutters
<1>7. CASE ended' = ended \cup {f}
  <2>1. ~Announced(f) /\ f \notin ended /\ Held(f)
    BY <1>2, Zenon DEF TaskInv, TaskIsInOnePlace, Announced, Held
  <2>2. Status(f) = "claimed"
    BY <2>1, StatusFacts, Zenon
  <2>3. Status(f)' = "given up"
    BY <1>4, <1>7, <2>1, Zenon DEF Status, Announced
  <2>4. Transfer!Settle(f, "claimed", "given up")
    BY <1>3, <1>5, <2>2, <2>3, Settles, Zenon
  <2> QED
    BY <2>4, Zenon DEF Transfer!Next
<1> QED
  BY <1>3, <1>6, <1>7

\* handleDownload announces its file, gives it up, or goes on.
LEMMA YieldsRefines ==
  ASSUME TaskInv, NEW c, Yields(c)
  PROVE  [Transfer!Next]_Transfer!vars
<1>1. PICK f \in Files : f = current
  BY DEF Yields
<1>2. /\ UNCHANGED <<pending, processing, restarts>>
      /\ announced' = announced \/ announced' = announced \cup {<<f, c>>}
      /\ ended' = ended \/ ended' = ended \cup {f}
  BY <1>1 DEF Yields
<1>3. \A g \in Files : /\ Held(g)' <=> Held(g)
                       /\ IsPending(g)' <=> IsPending(g)
                       /\ g # f => (Announced(g)' <=> Announced(g))
                       /\ Announced(g) => Announced(g)'
  BY <1>2, YieldsTasks DEF Announced, IsPending
<1>4. \A g \in Files : g # f => Status(g)' = Status(g)
  BY <1>2, <1>3, StatusKept, Zenon
<1>5. f \notin ended /\ Held(f) /\ f \in processing /\ processing' = processing
  BY <1>1, <1>2, Zenon DEF TaskInv, TaskIsInOnePlace, Held
<1>6. CASE Announced(f)
  <2>1. Status(f) = "announced" /\ Status(f)' = "announced"
    BY <1>3, <1>6, Zenon DEF Status, Announced
  <2>2. \A g \in Files : Status(g)' = Status(g)
    BY <1>4, <2>1
  <2> QED
    BY <1>2, <2>2, Stutters
<1>7. CASE ~Announced(f)
  <2>1. Status(f) = "claimed"
    BY <1>5, <1>7, StatusFacts, Zenon
  <2>2. Status(f)' \in {"announced", "given up", "claimed"}
    BY <1>3, <1>5 DEF Status
  <2>3. CASE Status(f)' = "claimed"
    <3>1. \A g \in Files : Status(g)' = Status(g)
      BY <1>4, <2>1, <2>3
    <3> QED
      BY <1>2, <3>1, Stutters
  <2>4. CASE Status(f)' = "announced"
    <3>1. Transfer!Settle(f, "claimed", "announced")
      BY <1>2, <1>4, <2>1, <2>4, Settles
    <3> QED
      BY <3>1, Zenon DEF Transfer!Next
  <2>5. CASE Status(f)' = "given up"
    <3>1. Transfer!Settle(f, "claimed", "given up")
      BY <1>2, <1>4, <2>1, <2>5, Settles, Zenon
    <3> QED
      BY <3>1, Zenon DEF Transfer!Next
  <2> QED
    BY <2>2, <2>3, <2>4, <2>5, Zenon
<1> QED
  BY <1>6, <1>7

\* A restart is the crash of the abstract transfer.
LEMMA RestartRefines ==
  ASSUME TaskInv, restarts \in Nat, Restart
  PROVE  [Transfer!Next]_Transfer!vars
<1>1. /\ restarts' = restarts + 1 /\ UNCHANGED <<pending, processing, ended, announced>>
      /\ \A f \in Files : Held(f)' <=> f \in ended
  BY RestartTasks
<1>2. ASSUME NEW f \in Files
      PROVE  Status(f)' = IF Status(f) = "claimed" THEN "lost" ELSE Status(f)
  <2>1. /\ Announced(f)' <=> Announced(f)
        /\ IsPending(f)' <=> IsPending(f)
    BY <1>1 DEF Announced, IsPending
  <2>2. Held(f) => f \in processing
    BY DEF TaskInv
  <2> QED
    BY <1>1, <2>1, <2>2, Zenon DEF Status, Announced
<1>3. Transfer!Crash
  BY <1>1, <1>2, Zenon DEF Transfer!Crash
<1> QED
  BY <1>3 DEF Transfer!Next

\* Every step is a step of the abstract transfer or a stutter.
LEMMA NextRefines ==
  ASSUME TaskInv, TaskInv', FlowTypes, restarts \in Nat, [Next]_vars
  PROVE  [Transfer!Next]_Transfer!vars
<1>1. ASSUME NEW f \in Files, Enqueue(f) PROVE [Transfer!Next]_Transfer!vars
  BY <1>1, EnqueueRefines, Zenon DEF Transfer!Next
<1>2. ASSUME NEW ok \in BOOLEAN, Mark(ok) PROVE [Transfer!Next]_Transfer!vars
  BY <1>2, MarkRefines
<1>3. ASSUME NEW ok \in BOOLEAN, StartDownload(ok) PROVE [Transfer!Next]_Transfer!vars
  BY <1>3, StartRefines
<1>4. CASE Dispatch
  <2>1. UNCHANGED <<pending, processing, ended, restarts, announced>>
    BY <1>4 DEF Dispatch, TransferKeeps, taskVars, accumulatorVars
  <2>2. \A f \in Files : Status(f)' = Status(f)
    BY <1>4, <2>1, DispatchTasks, StatusKept, Zenon DEF Announced, IsPending
  <2> QED
    BY <2>1, <2>2, Stutters
<1>5. ASSUME NEW c, Yields(c) PROVE [Transfer!Next]_Transfer!vars
  BY <1>5, YieldsRefines
<1>6. CASE Restart
  BY <1>6, RestartRefines
<1>7. CASE Poll \/ Elsewhere
  <2>1. UNCHANGED TaskView
    BY <1>7, ElsewhereTasks, Zenon DEF Poll, TransferKeeps, TaskView, taskVars, accumulatorVars
  <2>2. \A f \in Files : Status(f)' = Status(f)
    BY <2>1, Zenon DEF TaskView, Status, Held, IsPending
  <2> QED
    BY <2>1, <2>2, Stutters DEF TaskView
<1> QED
  BY <1>1, <1>2, <1>3, <1>4, <1>5, <1>6, <1>7, Sorted, Zenon DEF TaskInv

-----------------------------------------------------------------------------
(* The streams: FlowInv is kept.                                           *)
FlowView == <<current, stray, stream, asked, wire, scanRequests, scanResponses, job>>

\* Steps that do not touch the streams or the scanner.
LEMMA FlowAside ==
  ASSUME FlowInv, UNCHANGED FlowView
  PROVE  FlowInv'
BY Zenon DEF FlowView, FlowInv, FlowTypes, OwnInv, Quiet, AllIdle

\* A new download finds the scanner's side quiet, unless one was left early.
LEMMA StartFlow ==
  ASSUME FlowInv, TaskTypes, NEW ok \in BOOLEAN, StartDownload(ok)
  PROVE  FlowInv'
<1>1. PICK f \in Files : f = Head(requestChan)
  <2>1. requestChan \in Seq(Files) /\ requestChan # <<>>
    BY Zenon DEF TaskTypes, StartDownload
  <2> QED
    BY <2>1, TailFacts
<1>2. /\ UNCHANGED <<wire, stray, scanRequests, scanResponses, job>> /\ current = NoFile
      /\ \/ current' = f /\ stream' = [stream EXCEPT ![f] = "open"] /\ asked' = asked \cup {f}
         \/ UNCHANGED <<current, stream, asked>>
  BY <1>1, Zenon DEF StartDownload, DownloadKeeps, scannerVars
<1>3. FlowTypes'
  BY <1>1, <1>2, Zenon DEF FlowInv, FlowTypes
<1>4. ASSUME ~stray, UNCHANGED <<current, stream, asked>> PROVE OwnInv'
  BY <1>2, <1>4, Zenon DEF FlowInv, OwnInv, Quiet, AllIdle
<1>5. ASSUME ~stray, current' = f, stream' = [stream EXCEPT ![f] = "open"], asked' = asked \cup {f}
      PROVE  OwnInv'
  <2>1. Quiet /\ \A g \in Files : stream[g] # "open"
    BY <1>2, <1>5, FileDownloadAssumption, Zenon DEF FlowInv, OwnInv
  <2>2. f # NoFile /\ stream'[f] = "open" /\ \A g \in Files : g # f => stream'[g] # "open"
    BY <1>5, <2>1, FileDownloadAssumption, Zenon DEF FlowInv, FlowTypes
  <2> QED
    BY <1>2, <1>5, <2>1, <2>2 DEF FlowInv, OwnInv, Quiet, AllIdle
<1> QED
  BY <1>2, <1>3, <1>4, <1>5, Zenon DEF FlowInv

\* handleDownload goes on or returns; the rest of the scanner does not notice.
LEMMA ReturnsFlow ==
  ASSUME FlowInv, current \in Files, NEW rest, Returns(rest), wire' \in [Files -> Seq(Response)],
         ~stray => \A f \in Files : \A i \in DOMAIN wire'[f] : wire'[f][i].file = f,
         UNCHANGED <<stream, asked, scanRequests, scanResponses, job>>
  PROVE  FlowInv'
<1>1. NoFile \notin Files
  BY FileDownloadAssumption, Zenon
<1>2. CASE UNCHANGED <<current, ended, stray>>
  BY <1>2, Zenon DEF FlowInv, FlowTypes, OwnInv, Quiet, AllIdle
<1>3. CASE Break(rest)
  <2>1. current' = NoFile /\ stray' \in BOOLEAN /\ (~stray' => ~stray /\ stream[current] # "open")
    BY <1>3, Zenon DEF Break, FlowInv, FlowTypes
  <2>2. FlowTypes'
    BY <2>1, Zenon DEF FlowInv, FlowTypes
  <2>3. ASSUME ~stray' PROVE OwnInv'
    <3>1. Quiet /\ (\A f \in Files : stream[f] # "open") /\ ~stray
      BY <2>1, <2>3, Zenon DEF FlowInv, OwnInv
    <3> QED
      BY <2>1, <3>1 DEF OwnInv, Quiet, AllIdle
  <2> QED
    BY <2>2, <2>3 DEF FlowInv
<1> QED
  BY <1>2, <1>3, Zenon DEF Returns

\* handleDownload takes a response from its own stream.
LEMMA RecvFlow ==
  ASSUME FlowInv, NEW disk \in BOOLEAN, NEW send \in BOOLEAN, Recv(disk, send)
  PROVE  FlowInv'
<1>1. /\ current \in Files /\ wire[current] \in Seq(Response) /\ wire[current] # <<>>
      /\ wire' = [wire EXCEPT ![current] = Tail(@)] /\ Returns(Tail(wire[current]))
      /\ UNCHANGED <<stream, asked, scanRequests, scanResponses, job>>
  BY RecvFacts, Zenon DEF FlowInv, scannerVars
<1>2. /\ Tail(wire[current]) \in Seq(Response)
      /\ \A i \in DOMAIN Tail(wire[current]) :
           i + 1 \in DOMAIN wire[current] /\ Tail(wire[current])[i] = wire[current][i + 1]
  BY <1>1
<1>3. wire' \in [Files -> Seq(Response)]
  BY <1>1, <1>2, Zenon DEF FlowInv, FlowTypes
<1>4. ASSUME ~stray, NEW f \in Files, NEW i \in DOMAIN wire'[f] PROVE wire'[f][i].file = f
  <2>1. CASE f = current
    <3>1. wire'[f] = Tail(wire[current])
      BY <1>1, <2>1, Zenon DEF FlowInv, FlowTypes
    <3> QED
      BY <1>2, <1>4, <2>1, <3>1 DEF FlowInv, OwnInv
  <2>2. CASE f # current
    BY <1>1, <1>4, <2>2, Zenon DEF FlowInv, FlowTypes, OwnInv
  <2> QED
    BY <2>1, <2>2, Zenon
<1> QED
  BY <1>1, <1>3, <1>4, ReturnsFlow, Zenon

\* handleDownload returns when Recv fails: early, if the stream was open.
LEMMA RecvEndsFlow ==
  ASSUME FlowInv, RecvEnds
  PROVE  FlowInv'
<1>1. /\ current \in Files /\ Returns(wire[current])
      /\ UNCHANGED <<wire, stream, asked, scanRequests, scanResponses, job>>
  BY Zenon DEF FlowInv, FlowTypes, RecvEnds, Returns, DownloadKeeps, scannerVars, streamVars
<1> QED
  BY <1>1, ReturnsFlow, Zenon DEF FlowInv, FlowTypes, OwnInv

\* The server passes the request of a stream on to the workers.
LEMMA ReceiveFlow ==
  ASSUME FlowInv, NEW f \in Files, NEW valid \in BOOLEAN, Receive(f, valid)
  PROVE  FlowInv'
<1>1. /\ UNCHANGED <<current, stray, wire, scanResponses, job>> /\ f \in asked /\ asked' = asked \ {f}
      /\ \/ scanRequests' = Append(scanRequests, f) /\ stream' = stream
         \/ /\ stream' = [stream EXCEPT ![f] = IF @ = "open" THEN "dead" ELSE @]
            /\ scanRequests' = scanRequests
  BY Zenon DEF Receive, ServerKeeps, masterVars
<1>2. FlowTypes'
  <2>1. stream' \in [Files -> {"none", "open", "dead", "finished"}]
    BY <1>1, Zenon DEF FlowInv, FlowTypes
  <2>2. scanRequests' \in Seq(Files)
    <3>1. scanRequests \in Seq(Files) /\ Append(scanRequests, f) \in Seq(Files)
      BY AppendFacts, Zenon DEF FlowInv, FlowTypes
    <3> QED
      BY <1>1, <3>1, Zenon
  <2> QED
    BY <1>1, <2>1, <2>2, Zenon DEF FlowInv, FlowTypes
<1>3. ASSUME ~stray PROVE OwnInv'
  <2>1. /\ f = current /\ scanRequests = <<>> /\ scanResponses = <<>> /\ AllIdle
        /\ asked' = {} /\ f # NoFile /\ stream[f] = "open"
    BY <1>1, <1>3, FileDownloadAssumption DEF FlowInv, OwnInv, Quiet
  <2>2. CASE scanRequests' = Append(scanRequests, f) /\ stream' = stream
    <3>1. scanRequests' = <<f>>
      BY <2>1, <2>2
    <3> QED
      BY <1>1, <1>3, <2>1, <2>2, <3>1, Zenon DEF FlowInv, OwnInv, Quiet, AllIdle
  <2>3. CASE stream' = [stream EXCEPT ![f] = IF @ = "open" THEN "dead" ELSE @] /\ scanRequests' = scanRequests
    <3>1. \A g \in Files : stream'[g] # "open"
      BY <1>3, <2>1, <2>3, Zenon DEF FlowInv, FlowTypes, OwnInv
    <3> QED
      BY <1>1, <1>3, <2>1, <2>3, <3>1, Zenon DEF FlowInv, OwnInv, Quiet, AllIdle
  <2> QED
    BY <1>1, <2>2, <2>3, Zenon
<1> QED
  BY <1>1, <1>2, <1>3, Zenon DEF FlowInv

\* The two loops of Download end.
LEMMA EndsFlow ==
  ASSUME FlowInv, NEW f \in Files, ReceiverEnds(f) \/ SenderEnds(f)
  PROVE  FlowInv'
<1>1. UNCHANGED <<current, stray, wire, scanRequests, scanResponses, job>>
  BY Zenon DEF ReceiverEnds, SenderEnds, ServerKeeps, masterVars
<1>2. CASE ReceiverEnds(f)
  <2>1. stray /\ UNCHANGED stream /\ asked' \subseteq asked
    BY <1>2, Zenon DEF FlowInv, OwnInv, Quiet, ReceiverEnds
  <2> QED
    BY <1>1, <2>1, Zenon DEF FlowInv, FlowTypes
<1>3. CASE SenderEnds(f)
  <2>1. /\ stream' \in [Files -> {"none", "open", "dead", "finished"}] /\ UNCHANGED asked
        /\ \A g \in Files : stream'[g] = "open" <=> stream[g] = "open"
    BY <1>3, Zenon DEF FlowInv, FlowTypes, SenderEnds
  <2>2. FlowTypes'
    BY <1>1, <2>1, Zenon DEF FlowInv, FlowTypes
  <2>3. ASSUME ~stray PROVE OwnInv'
    BY <1>1, <2>1, <2>3, Zenon DEF FlowInv, FlowTypes, OwnInv, Quiet, AllIdle
  <2> QED
    BY <1>1, <2>2, <2>3 DEF FlowInv
<1> QED
  BY <1>2, <1>3

\* The server sends the next response of the shared channel on its stream.
LEMMA SendResponseFlow ==
  ASSUME FlowInv, NEW f \in Files, SendResponse(f)
  PROVE  FlowInv'
<1>1. /\ scanResponses \in Seq(Response) /\ scanResponses # <<>> /\ wire[f] \in Seq(Response)
      /\ scanResponses' = Tail(scanResponses)
      /\ UNCHANGED <<current, stray, asked, scanRequests, job>>
  BY Zenon DEF SendResponse, FlowInv, FlowTypes, ServerKeeps, masterVars
<1>2. PICK r \in Response : r = scanResponses[1] /\ r = Head(scanResponses)
  BY <1>1
<1>3. /\ scanResponses' \in Seq(Response) /\ DOMAIN scanResponses' = 1 .. Len(scanResponses) - 1
      /\ Len(scanResponses') = Len(scanResponses) - 1 /\ Len(scanResponses) \in Nat \ {0}
      /\ DOMAIN scanResponses = 1 .. Len(scanResponses)
      /\ \A i \in DOMAIN scanResponses' : scanResponses'[i] = scanResponses[i + 1]
  BY <1>1
<1>4. \/ /\ stream[f] = "open" /\ wire' = [wire EXCEPT ![f] = Append(@, r)]
         /\ stream' = [stream EXCEPT ![f] = IF IsLast(r) THEN "finished" ELSE @]
      \/ /\ stream[f] = "dead" /\ wire' = wire
         /\ stream' = [stream EXCEPT ![f] = "finished"]
  BY <1>2, Zenon DEF SendResponse
<1>5. FlowTypes'
  <2>1. stream' \in [Files -> {"none", "open", "dead", "finished"}]
    BY <1>4, Zenon DEF FlowInv, FlowTypes
  <2>2. Append(wire[f], r) \in Seq(Response)
    BY <1>1
  <2>3. wire' \in [Files -> Seq(Response)]
    BY <1>4, <2>2, Zenon DEF FlowInv, FlowTypes
  <2> QED
    BY <1>1, <1>3, <2>1, <2>3, Zenon DEF FlowInv, FlowTypes
<1>6. ASSUME ~stray PROVE OwnInv'
  <2>1. OwnInv /\ current # NoFile /\ stream[current] = "open" /\ current \in Files
    BY <1>1, <1>6, Zenon DEF FlowInv, OwnInv, Quiet, FlowTypes
  <2>2. asked = {} /\ scanRequests = <<>> /\ r.file = current
    BY <1>1, <1>2, <1>3, <2>1, SMTT(20) DEF OwnInv
  <2>3. /\ \A i \in DOMAIN scanResponses' :
             /\ scanResponses'[i].file = current
             /\ IsLast(scanResponses'[i]) => i = Len(scanResponses')
        /\ \A w \in Workers : job[w].file # NoFile =>
             /\ job[w].file = current
             /\ \A v \in Workers : v # w => job[v].file = NoFile
             /\ \A i \in DOMAIN scanResponses' : ~IsLast(scanResponses'[i])
    <3>1. ASSUME NEW i \in DOMAIN scanResponses'
          PROVE  /\ i + 1 \in DOMAIN scanResponses /\ scanResponses'[i] = scanResponses[i + 1]
                 /\ i + 1 = Len(scanResponses) => i = Len(scanResponses')
      BY <1>3
    <3>2. \A i \in DOMAIN scanResponses :
            scanResponses[i].file = current /\ (IsLast(scanResponses[i]) => i = Len(scanResponses))
      BY <2>1, Zenon DEF OwnInv
    <3>3. \A w \in Workers : job[w].file # NoFile =>
            /\ job[w].file = current
            /\ \A v \in Workers : v # w => job[v].file = NoFile
            /\ \A i \in DOMAIN scanResponses : ~IsLast(scanResponses[i])
      BY <2>1, Zenon DEF OwnInv
    <3>4. \A i \in DOMAIN scanResponses' :
            scanResponses'[i].file = current /\ (IsLast(scanResponses'[i]) => i = Len(scanResponses'))
      BY <3>1, <3>2, Zenon
    <3>5. ASSUME NEW w \in Workers, job[w].file # NoFile
          PROVE  \A i \in DOMAIN scanResponses' : ~IsLast(scanResponses'[i])
      BY <3>1, <3>3, <3>5, Zenon
    <3> QED
      BY <3>3, <3>4, <3>5, Zenon
  <2>4. ASSUME NEW g \in Files, NEW i \in DOMAIN wire'[g] PROVE wire'[g][i].file = g
    <3>1. CASE g = f /\ wire'[f] = Append(wire[f], r) /\ f = current
      <4>1. i = Len(wire[f]) + 1 \/ i \in DOMAIN wire[f]
        BY <1>1, <2>4, <3>1
      <4>2. wire'[g][Len(wire[f]) + 1] = r /\ \A j \in DOMAIN wire[f] : wire'[g][j] = wire[f][j]
        BY <1>1, <3>1
      <4> QED
        BY <2>1, <2>2, <3>1, <4>1, <4>2, SMTT(20) DEF OwnInv
    <3>2. CASE wire'[g] = wire[g]
      BY <2>1, <2>4, <3>2, Zenon DEF OwnInv
    <3> QED
      BY <1>4, <2>1, <3>1, <3>2 DEF OwnInv, FlowInv, FlowTypes
  <2>5. CASE stream'[current] = "open"
    <3>1. \A g \in Files : stream'[g] = "open" => g = current
      BY <1>4, <2>1 DEF OwnInv, FlowInv, FlowTypes
    <3> QED
      BY <1>1, <2>1, <2>2, <2>3, <2>4, <2>5, <3>1, Zenon DEF OwnInv, Quiet
  <2>6. CASE stream'[current] # "open"
    <3>1. f = current /\ IsLast(r) /\ \A g \in Files : stream'[g] # "open"
      BY <1>4, <2>1, <2>6, Zenon DEF OwnInv, FlowInv, FlowTypes
    <3>2. Len(scanResponses) = 1 /\ AllIdle
      BY <1>2, <1>3, <2>1, <3>1 DEF OwnInv, AllIdle
    <3>3. scanResponses' = <<>>
      BY <1>1, <3>2
    <3> QED
      BY <1>1, <2>2, <2>3, <2>4, <3>1, <3>2, <3>3, Zenon DEF OwnInv, Quiet, AllIdle
  <2> QED
    BY <2>5, <2>6
<1> QED
  BY <1>1, <1>5, <1>6, Zenon DEF FlowInv

\* A scanner worker takes a request.
LEMMA TakeRequestFlow ==
  ASSUME FlowInv, NEW w \in Workers, TakeRequest(w)
  PROVE  FlowInv'
<1>1. /\ scanRequests \in Seq(Files) /\ scanRequests # <<>>
      /\ scanRequests' = Tail(scanRequests) /\ job[w] = Idle
      /\ UNCHANGED <<current, stray, stream, asked, wire, scanResponses>>
  BY Zenon DEF TakeRequest, FlowInv, FlowTypes, WorkerKeeps, masterVars, streamVars
<1>2. PICK f \in Files : f = Head(scanRequests)
  BY <1>1, TailFacts, Zenon
<1>3. scanRequests' \in Seq(Files) /\ NoFile \notin Files
  BY <1>1, TailFacts, FileDownloadAssumption, Zenon
<1>4. job' = [job EXCEPT ![w] = [file |-> f, next |-> 0]]
  BY <1>2, Zenon DEF TakeRequest
<1>5. /\ job' \in [Workers -> [file : Files \cup {NoFile}, next : Nat]]
      /\ job'[w].file = f /\ \A v \in Workers : v # w => job'[v] = job[v]
  BY <1>4, Zenon DEF FlowInv, FlowTypes
<1>6. FlowTypes'
  BY <1>1, <1>3, <1>5, Zenon DEF FlowInv, FlowTypes
<1>7. ASSUME ~stray PROVE OwnInv'
  <2>1. /\ OwnInv /\ scanRequests = <<current>> /\ scanResponses = <<>> /\ AllIdle /\ asked = {}
        /\ current # NoFile /\ stream[current] = "open"
    BY <1>1, <1>7, Zenon DEF FlowInv, OwnInv, Quiet
  <2>2. f = current /\ scanRequests' = <<>>
    BY <1>1, <1>2, <2>1
  <2> QED
    BY <1>1, <1>5, <2>1, <2>2, SMTT(20) DEF OwnInv, Quiet, AllIdle
<1> QED
  BY <1>1, <1>6, <1>7, Zenon DEF FlowInv

\* The worker goes on with the chunk after the one it sent.
LEMMA NextChunk ==
  ASSUME NEW f, NEW n \in Nat
  PROVE  [file |-> f, next |-> n + 1] \in [file : {f}, next : Nat]
<1>1. n + 1 \in Nat
  OBVIOUS
<1> QED
  BY <1>1, Zenon

\* A worker sends a response about its file; the last one makes it idle.
LEMMA RespondFlow ==
  ASSUME FlowInv, NEW w \in Workers, NEW r \in Response, NEW rest, Respond(w, r, rest),
         r.file = job[w].file,
         \/ IsLast(r) /\ rest = Idle
         \/ ~IsLast(r) /\ rest \in [file : {job[w].file}, next : Nat]
  PROVE  FlowInv'
<1>1. /\ scanResponses \in Seq(Response) /\ scanResponses' = Append(scanResponses, r)
      /\ job[w] # Idle /\ job' = [job EXCEPT ![w] = rest]
      /\ UNCHANGED <<current, stray, stream, asked, wire, scanRequests>>
  BY Zenon DEF Respond, FlowInv, FlowTypes, WorkerKeeps, masterVars, streamVars
<1>2. job[w].file \in Files /\ NoFile \notin Files
  BY <1>1, FileDownloadAssumption, Zenon DEF FlowInv, FlowTypes
<1>3. /\ scanResponses' \in Seq(Response) /\ DOMAIN scanResponses' = 1 .. Len(scanResponses) + 1
      /\ Len(scanResponses') = Len(scanResponses) + 1 /\ Len(scanResponses) \in Nat
      /\ DOMAIN scanResponses = 1 .. Len(scanResponses)
      /\ \A i \in DOMAIN scanResponses : scanResponses'[i] = scanResponses[i]
      /\ scanResponses'[Len(scanResponses) + 1] = r
  BY <1>1
<1>4. rest \in [file : Files \cup {NoFile}, next : Nat] /\ (rest.file = NoFile => rest = Idle)
      /\ (rest.file = NoFile <=> IsLast(r)) /\ rest.file \in {NoFile, job[w].file}
  BY <1>2, SMTT(20) DEF Idle
<1>5. /\ job' \in [Workers -> [file : Files \cup {NoFile}, next : Nat]]
      /\ job'[w] = rest /\ \A v \in Workers : v # w => job'[v] = job[v]
  BY <1>1, <1>4, Zenon DEF FlowInv, FlowTypes
<1>6. FlowTypes'
  BY <1>1, <1>3, <1>4, <1>5, Zenon DEF FlowInv, FlowTypes
<1>7. ASSUME ~stray PROVE OwnInv'
  <2>1. /\ OwnInv /\ ~AllIdle /\ asked = {} /\ scanRequests = <<>>
        /\ current # NoFile /\ stream[current] = "open"
        /\ job[w].file = current /\ \A v \in Workers : v # w => job[v].file = NoFile
        /\ \A i \in DOMAIN scanResponses : ~IsLast(scanResponses[i]) /\ scanResponses[i].file = current
    BY <1>2, <1>7, Zenon DEF FlowInv, OwnInv, Quiet, AllIdle
  <2>2. \A i \in DOMAIN scanResponses' :
          /\ scanResponses'[i].file = current
          /\ IsLast(scanResponses'[i]) => i = Len(scanResponses') /\ IsLast(r)
    <3>1. ASSUME NEW n \in Nat PROVE \A i \in 1 .. n + 1 : i \in 1 .. n \/ i = n + 1
      OBVIOUS
    <3>2. \A i \in DOMAIN scanResponses' : i \in DOMAIN scanResponses \/ i = Len(scanResponses) + 1
      BY <1>3, <3>1, Zenon
    <3>3. r.file = current
      BY <2>1, Zenon
    <3> QED
      BY <1>3, <2>1, <3>2, <3>3, Zenon
  <2>3. \A v \in Workers : job'[v].file # NoFile => v = w /\ job'[v].file = current /\ ~IsLast(r)
    BY <1>4, <1>5, <2>1, Zenon
  <2>4. \A v \in Workers : job'[v].file # NoFile =>
          /\ job'[v].file = current
          /\ \A u \in Workers : u # v => job'[u].file = NoFile
          /\ \A i \in DOMAIN scanResponses' : ~IsLast(scanResponses'[i])
    BY <1>5, <2>1, <2>2, <2>3, Zenon
  <2> QED
    BY <1>1, <2>1, <2>2, <2>4, Zenon DEF OwnInv, Quiet
<1> QED
  BY <1>1, <1>6, <1>7, Zenon DEF FlowInv

\* A scanner worker sends the next response about its file.
LEMMA WorkerFlow ==
  ASSUME FlowInv, NEW w \in Workers, Refuse(w) \/ Process(w)
  PROVE  FlowInv'
<1>1. PICK f : f = job[w].file
  OBVIOUS
<1>2. f \in DOMAIN Size /\ Size[f] \in Nat /\ job[w].next \in Nat
  <2>1. job[w] # Idle
    BY Zenon DEF Refuse, Process, Respond
  <2> QED
    BY <1>1, <2>1, FileDownloadAssumption, AccumulatorAssumption, Zenon DEF FlowInv, FlowTypes
<1>3. CASE Refuse(w)
  <2>1. FileError(f) \in Response /\ FileError(f).file = f /\ IsLast(FileError(f))
    BY <1>2, SMTT(30) DEF FileError, Response, IsLast
  <2> QED
    BY <1>1, <1>3, <2>1, RespondFlow, Zenon DEF Refuse
<1>4. CASE Respond(w, Metadata(f), [file |-> f, next |-> job[w].next + 1])
  <2>1. Metadata(f) \in Response /\ Metadata(f).file = f /\ ~IsLast(Metadata(f))
    BY <1>2, Zenon DEF Metadata, Response, IsLast
  <2>2. [file |-> f, next |-> job[w].next + 1] \in [file : {f}, next : Nat]
    BY <1>2, NextChunk, Zenon
  <2> QED
    BY <1>1, <1>4, <2>1, <2>2, RespondFlow, Zenon
<1>5. CASE /\ job[w].next \in 1 .. Size[f]
           /\ Respond(w, FileChunk(f, job[w].next), [file |-> f, next |-> job[w].next + 1])
  <2>1. /\ FileChunk(f, job[w].next) \in Response /\ FileChunk(f, job[w].next).file = f
        /\ ~IsLast(FileChunk(f, job[w].next))
    BY <1>2, Zenon DEF FileChunk, Response, IsLast
  <2>2. [file |-> f, next |-> job[w].next + 1] \in [file : {f}, next : Nat]
    BY <1>2, NextChunk, Zenon
  <2> QED
    BY <1>1, <1>5, <2>1, <2>2, RespondFlow, Zenon
<1>6. CASE Respond(w, Signature(f), Idle)
  <2>1. Signature(f) \in Response /\ Signature(f).file = f /\ IsLast(Signature(f))
    BY <1>2, Zenon DEF Signature, Response, IsLast
  <2> QED
    BY <1>1, <1>6, <2>1, RespondFlow, Zenon
<1> QED
  BY <1>1, <1>3, <1>4, <1>5, <1>6, Zenon DEF Process

\* A scanner worker drops its file without a response.
LEMMA ReadFailsFlow ==
  ASSUME FlowInv, NEW w \in Workers, ReadFails(w)
  PROVE  FlowInv'
<1>1. /\ job' = [job EXCEPT ![w] = Idle]
      /\ UNCHANGED <<current, stray, stream, asked, wire, scanRequests, scanResponses>>
  BY Zenon DEF ReadFails, WorkerKeeps, masterVars, streamVars
<1>2. /\ job' \in [Workers -> [file : Files \cup {NoFile}, next : Nat]]
      /\ job'[w] = Idle /\ Idle.file = NoFile /\ \A v \in Workers : v # w => job'[v] = job[v]
  BY <1>1, Zenon DEF FlowInv, FlowTypes, Idle
<1>3. FlowTypes'
  BY <1>1, <1>2, Zenon DEF FlowInv, FlowTypes
<1>4. ASSUME ~stray PROVE OwnInv'
  BY <1>1, <1>2, <1>4, Zenon DEF FlowInv, OwnInv, Quiet, AllIdle
<1> QED
  BY <1>1, <1>3, <1>4, Zenon DEF FlowInv

\* No stream is open, or a download is left early.
LEMMA StreamsDieFlow ==
  ASSUME FlowInv, StreamsDie, UNCHANGED <<asked, scanRequests, scanResponses, job>>,
         current' \in {current, NoFile},
         wire' = wire \/ wire' = [f \in Files |-> <<>>]
  PROVE  FlowInv'
<1>1. /\ stream' \in [Files -> {"none", "open", "dead", "finished"}]
      /\ \A f \in Files : stream'[f] # "open"
  BY Zenon DEF StreamsDie, FlowInv, FlowTypes
<1>2. stray' \in BOOLEAN /\ (~stray' => ~stray /\ \A f \in Files : stream[f] # "open")
  BY Zenon DEF StreamsDie, FlowInv, FlowTypes
<1>3. wire' \in [Files -> Seq(Response)]
  <2>1. <<>> \in Seq(Response) /\ wire \in [Files -> Seq(Response)]
    BY DEF FlowInv, FlowTypes
  <2> QED
    BY <2>1, Zenon
<1>4. FlowTypes'
  BY <1>1, <1>2, <1>3, Zenon DEF FlowInv, FlowTypes
<1>5. ASSUME ~stray' PROVE OwnInv'
  <2>1. Quiet
    BY <1>2, <1>5, Zenon DEF FlowInv, FlowTypes, OwnInv
  <2>2. \A f \in Files : \A i \in DOMAIN wire'[f] : wire'[f][i].file = f
    BY <1>2, <1>5 DEF FlowInv, OwnInv
  <2> QED
    BY <1>1, <2>1, <2>2 DEF OwnInv, Quiet, AllIdle
<1> QED
  BY <1>4, <1>5, Zenon DEF FlowInv

\* While no download was left early, everything is about the current file.
LEMMA NextFlow ==
  ASSUME FlowInv, TaskTypes, [Next]_vars
  PROVE  FlowInv'
<1>1. \A fault : Outcomes(fault) \subseteq BOOLEAN
  BY Zenon DEF Outcomes
<1>2. ASSUME NEW f \in Files, Enqueue(f) PROVE FlowInv'
  BY <1>2, FlowAside, Zenon DEF Enqueue, FlowView, masterVars, scannerVars, streamVars
<1>3. CASE Poll \/ Dispatch \/ TransferReturns \/ \E ok \in Outcomes("mark") : Mark(ok)
  BY <1>3, FlowAside, Zenon
     DEF Poll, Dispatch, TransferReturns, Mark, TransferKeeps, FlowView, scannerVars, streamVars
<1>4. CASE \E ok \in Outcomes("open") \cup (IF ctxDone THEN {FALSE} ELSE {}) : StartDownload(ok)
  <2>1. Outcomes("open") \cup (IF ctxDone THEN {FALSE} ELSE {}) \subseteq BOOLEAN
    BY <1>1, Zenon
  <2> QED
    BY <1>4, <2>1, StartFlow, Zenon
<1>5. CASE \E disk \in Outcomes("disk"), send \in BOOLEAN : Recv(disk, send)
  BY <1>1, <1>5, RecvFlow
<1>6. CASE RecvEnds
  BY <1>6, RecvEndsFlow
<1>7. CASE DownloaderReturns
  BY <1>7, FlowAside, Zenon DEF DownloaderReturns, DownloadKeeps, FlowView, scannerVars, streamVars
<1>8. CASE \E f \in Files, valid \in Outcomes("validate") : Receive(f, valid)
  BY <1>1, <1>8, ReceiveFlow
<1>9. ASSUME NEW f \in Files, ReceiverEnds(f) \/ SendResponse(f) \/ SenderEnds(f) PROVE FlowInv'
  BY <1>9, EndsFlow, SendResponseFlow
<1>10. ASSUME NEW w \in Workers, TakeRequest(w) \/ Refuse(w) \/ Process(w) \/ ReadFails(w) PROVE FlowInv'
  BY <1>10, TakeRequestFlow, WorkerFlow, ReadFailsFlow
<1>11. CASE Cancel \/ Restart
  BY <1>11, StreamsDieFlow, Zenon DEF Cancel, Restart, scannerVars
<1>12. CASE UNCHANGED vars
  BY <1>12, FlowAside, Zenon DEF vars, FlowView, masterVars, scannerVars, streamVars
<1> QED
  BY <1>2, <1>3, <1>4, <1>5, <1>6, <1>7, <1>8, <1>9, <1>10, <1>11, <1>12, Zenon DEF Next

\* What ProcessResponse announces was put together from whole files.
LEMMA NextAnnounced ==
  ASSUME FlowInv, AnnouncedInv, [Next]_vars
  PROVE  AnnouncedInv'
<1>1. CASE \E disk \in Outcomes("disk"), send \in BOOLEAN : Recv(disk, send)
  <2>1. PICK disk \in BOOLEAN, send \in BOOLEAN : Recv(disk, send)
    BY <1>1, Zenon DEF Outcomes
  <2>2. PICK g : g = Head(wire[current]).file
    OBVIOUS
  <2>3. /\ current \in Files /\ g \in Files /\ (~stray => g = current) /\ (stray => stray')
        /\ announced' = announced \/ announced' = announced \cup {<<current, Content(g)>>}
    <3>1. /\ current \in Files /\ wire[current] \in Seq(Response) /\ wire[current] # <<>>
          /\ Head(wire[current]) \in Response /\ Returns(Tail(wire[current]))
          /\ announced' = announced \/ announced' = announced \cup {<<current, Content(g)>>}
      BY <2>1, <2>2, RecvFacts, Zenon DEF FlowInv
    <3>2. Head(wire[current]) = wire[current][1] /\ 1 \in DOMAIN wire[current]
      BY <3>1
    <3>3. g \in Files
      BY <2>2, <3>1, FileDownloadAssumption, Zenon DEF Response
    <3>4. ~stray => g = current
      BY <2>2, <3>1, <3>2, Zenon DEF FlowInv, OwnInv
    <3>5. stray => stray'
      BY <3>1, Zenon DEF Returns, Break
    <3> QED
      BY <3>1, <3>3, <3>4, <3>5, Zenon
  <2>4. \A a \in announced' : a \in announced \/ (a[1] = current /\ a[2] = Content(g))
    BY <2>3
  <2>5. AnnouncedIsWhole'
    BY <2>3, <2>4, Zenon DEF AnnouncedInv, AnnouncedIsWhole
  <2>6. ContentIsTheFiles'
    BY <2>3, <2>4, Zenon DEF AnnouncedInv, ContentIsTheFiles
  <2> QED
    BY <2>5, <2>6 DEF AnnouncedInv
<1>2. ASSUME announced' = announced, stray => stray' PROVE AnnouncedInv'
  BY <1>2, Zenon DEF AnnouncedInv, AnnouncedIsWhole, ContentIsTheFiles
<1>3. CASE RecvEnds \/ Cancel \/ Restart
  <2>1. announced' = announced
    BY <1>3, Zenon DEF RecvEnds, Cancel, Restart, accumulatorVars
  <2>2. stray => stray'
    BY <1>3, Zenon DEF RecvEnds, Cancel, Restart, Break, StreamsDie
  <2> QED
    BY <1>2, <2>1, <2>2
<1>4. CASE UNCHANGED <<announced, stray>>
  BY <1>2, <1>4
<1>5. ASSUME NEW f \in Files, NEW valid \in BOOLEAN,
             \/ Enqueue(f) \/ Receive(f, valid) \/ ReceiverEnds(f)
             \/ SendResponse(f) \/ SenderEnds(f)
      PROVE  UNCHANGED <<announced, stray>>
  BY <1>5, SMTT(30) DEF Enqueue, Receive, ReceiverEnds, SendResponse, SenderEnds, ServerKeeps,
              masterVars, accumulatorVars
<1>6. ASSUME NEW w \in Workers, TakeRequest(w) \/ Refuse(w) \/ Process(w) \/ ReadFails(w)
      PROVE  UNCHANGED <<announced, stray>>
  BY <1>6, Zenon DEF TakeRequest, Refuse, Process, ReadFails, Respond, WorkerKeeps,
              masterVars, accumulatorVars
<1>7. ASSUME NEW ok, Mark(ok) \/ StartDownload(ok)
      PROVE  UNCHANGED <<announced, stray>>
  BY <1>7, Zenon DEF Mark, StartDownload, TransferKeeps, accumulatorVars
<1>8. CASE Poll \/ Dispatch \/ TransferReturns \/ DownloaderReturns \/ UNCHANGED vars
  BY <1>4, <1>8, Zenon DEF Poll, Dispatch, TransferReturns, DownloaderReturns, TransferKeeps,
              masterVars, accumulatorVars, vars
<1>9. Outcomes("validate") \subseteq BOOLEAN
  BY Zenon DEF Outcomes
<1> QED
  BY <1>1, <1>3, <1>4, <1>5, <1>6, <1>7, <1>8, <1>9, Zenon DEF Next

-----------------------------------------------------------------------------
IInv == TaskInv /\ FlowInv /\ AnnouncedInv /\ restarts \in Nat

\* The inductive invariant holds when the master and the scanner start.
LEMMA InitIInv == Init => IInv
<1> SUFFICES ASSUME Init PROVE IInv
  OBVIOUS
<1>1. Range(<<>>) = {} /\ IsInjective(<<>>) /\ \A S : <<>> \in Seq(S)
  BY DEF Range, IsInjective
<1>2. TaskInv
  BY <1>1, FileDownloadAssumption, Zenon
     DEF Init, TaskInit, AccumulatorInit, TaskInv, TaskTypes, TaskIsInOnePlace, Held, IsPending
<1>3. FlowTypes
  BY <1>1, Zenon DEF Init, FlowTypes, Idle
<1>4. OwnInv
  BY FileDownloadAssumption, SMTT(20) DEF Init, OwnInv, Quiet, AllIdle, Idle
<1>5. AnnouncedInv /\ restarts \in Nat
  BY Zenon DEF Init, AccumulatorInit, AnnouncedInv, AnnouncedIsWhole, ContentIsTheFiles
<1> QED
  BY <1>2, <1>3, <1>4, <1>5 DEF IInv, FlowInv

\* Every step keeps the inductive invariant.
LEMMA NextIInv == IInv /\ [Next]_vars => IInv'
<1> SUFFICES ASSUME IInv, [Next]_vars PROVE IInv'
  OBVIOUS
<1> QED
  BY NextTasks, NextFlow, NextAnnounced, Zenon DEF IInv, FlowInv, TaskInv

\* The inductive invariant holds in every reachable state.
LEMMA Invariance == Spec => []IInv
BY InitIInv, NextIInv, PTL DEF Spec

\* Whatever the two sides interleave and whatever fails, a marked task is in
\* one worker's hands, and a restart is the only way to lose it.
THEOREM TasksAreHeldOnce == Spec => []TaskIsInOnePlace
<1>1. IInv => TaskIsInOnePlace
  BY DEF IInv, TaskInv
<1> QED
  BY <1>1, Invariance, PTL

\* The accumulator announces nothing but whole files.
THEOREM WholeFiles == Spec => []AnnouncedIsWhole
<1>1. IInv => AnnouncedIsWhole
  BY DEF IInv, AnnouncedInv
<1> QED
  BY <1>1, Invariance, PTL

\* Although all streams share one response channel on the scanner, each file
\* is announced with its own content while no download was left early.
THEOREM OwnContent == Spec => []ContentIsTheFiles
<1>1. IInv => ContentIsTheFiles
  BY DEF IInv, AnnouncedInv
<1> QED
  BY <1>1, Invariance, PTL

\* The two workers of the master, the streams and the scanner implement the
\* abstract transfer of each file.
THEOREM Refinement == Spec => ImplementsTransfer
<1>1. Init => Transfer!Init
  <2>1. Init => \A f \in Files : Status(f) = "new"
    BY FileDownloadAssumption
       DEF Init, TaskInit, AccumulatorInit, Status, Held, IsPending, Range
  <2> QED
    BY <2>1, Zenon DEF Init, Transfer!Init
<1>2. IInv /\ IInv' /\ [Next]_vars => [Transfer!Next]_Transfer!vars
  BY NextRefines DEF IInv, FlowInv
<1> QED
  BY <1>1, <1>2, Invariance, PTL DEF Spec, ImplementsTransfer, Transfer!Spec
=============================================================================
