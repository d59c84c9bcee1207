--------------------------- MODULE FileScanProofs ---------------------------
(***************************************************************************)
(* Proofs about the two WaitGroups of the scanner, for any tree, any       *)
(* number of workers and any buffers: scanWG counts the directories that   *)
(* are outstanding, and fileChan is closed after the last worker.  Then    *)
(* the invariant of the walk, and the lemmas about it which                *)
(* FileScanWalkProofs needs.                                               *)
(***************************************************************************)
EXTENDS FileScan, FiniteSetTheorems, TLAPS

All == Dirs \cup Files \cup Specials
Busy == {"throttle", "readdir", "entries", "push", "emit", "count"}
Running == Busy \cup {"select"}
Places == [pc : Running \cup {"returned"}, dir : Dirs \cup {NoDir}, rest : Seq(All)]

\* What a worker has in its hands where it stands.
Fits(p) ==
  /\ p \in Places
  /\ p.pc \in Busy => p.dir \in Dirs
  /\ p.pc \in {"push", "emit", "count"} => p.rest # <<>>
  /\ p.pc = "push" => Head(p.rest) \in Dirs

ScanTypes ==
  /\ DOMAIN worker = Workers /\ worker = [w \in Workers |-> worker[w]]
  /\ \A w \in Workers : Fits(worker[w])
  /\ trigger \in [Roots -> {"none", "sending", "started"}]
  /\ dirChan \in Seq(Dirs)
  /\ scanWG \in Int /\ workersWG \in Int
  /\ ctxDone \in BOOLEAN

\* The channels are closed by main, which does so after the context ended.
MainInv ==
  /\ main # "serving" => ctxDone
  /\ dirClosed => ctxDone

\* While no worker panicked, workersWG counts those that run.
WorkersInv == "panic" \notin failures => workersWG = Cardinality(Where(Running))

ScanWGIsExact == ~ctxDone => scanWG = Outstanding

IInv == ScanTypes /\ MainInv /\ WorkersInv /\ ScanWGIsExact /\ FileChanOutlivesWorkers

-----------------------------------------------------------------------------
(* Counting.                                                               *)
One(b) == IF b THEN 1 ELSE 0

\* One element enters or leaves a finite set.
LEMMA CountMoves ==
  ASSUME NEW S, IsFiniteSet(S), NEW A, A \subseteq S, NEW B, B \subseteq S, NEW x \in S,
         \A y \in S : y # x => (y \in A <=> y \in B)
  PROVE  /\ Cardinality(A) \in Nat /\ Cardinality(B) \in Nat
         /\ Cardinality(B) = Cardinality(A) - One(x \in A) + One(x \in B)
<1>1. IsFiniteSet(A) /\ IsFiniteSet(B)
  BY FS_Subset
<1>2. Cardinality(A) \in Nat /\ Cardinality(B) \in Nat
  BY <1>1, FS_CardinalityType
<1>3. CASE x \in A /\ x \in B
  <2>1. A = B
    BY <1>3
  <2> QED
    BY <1>2, <1>3, <2>1 DEF One
<1>4. CASE x \notin A /\ x \notin B
  <2>1. A = B
    BY <1>4
  <2> QED
    BY <1>2, <1>4, <2>1 DEF One
<1>5. CASE x \in A /\ x \notin B
  <2>1. B = A \ {x}
    BY <1>5
  <2>2. Cardinality(B) = Cardinality(A) - 1
    BY <1>1, <1>5, <2>1, FS_RemoveElement
  <2> QED
    BY <1>2, <1>5, <2>2 DEF One
<1>6. CASE x \notin A /\ x \in B
  <2>1. B = A \cup {x}
    BY <1>6
  <2>2. Cardinality(B) = Cardinality(A) + 1
    BY <1>1, <1>6, <2>1, FS_AddElement
  <2> QED
    BY <1>2, <1>6, <2>2 DEF One
<1> QED
  BY <1>3, <1>4, <1>5, <1>6

\* Worker w goes to pc.
Moved(w, pc) ==
  /\ DOMAIN worker' = Workers /\ worker' = [v \in Workers |-> worker'[v]]
  /\ \A v \in Workers : v # w => worker'[v] = worker[v]
  /\ Fits(worker'[w]) /\ worker'[w].pc = pc

\* The step of one worker changes a count of workers by at most one.
LEMMA WhereMoves ==
  ASSUME NEW w \in Workers, NEW pc, Moved(w, pc), NEW pcs
  PROVE  /\ Cardinality(Where(pcs)) \in Nat /\ Cardinality(Where(pcs))' \in Nat
         /\ Cardinality(Where(pcs))' =
              Cardinality(Where(pcs)) - One(worker[w].pc \in pcs) + One(pc \in pcs)
<1>1. PICK A : A = Where(pcs)
  OBVIOUS
<1>2. PICK B : B = {v \in Workers : worker'[v].pc \in pcs}
  BY Zenon
<1>3. /\ A \subseteq Workers /\ B \subseteq Workers /\ IsFiniteSet(Workers)
      /\ \A y \in Workers : y # w => (y \in A <=> y \in B)
      /\ w \in A <=> worker[w].pc \in pcs
      /\ w \in B <=> pc \in pcs
  BY <1>1, <1>2, FileScanAssumption DEF Where, Moved
<1>4. /\ Cardinality(A) \in Nat /\ Cardinality(B) \in Nat
      /\ Cardinality(B) = Cardinality(A) - One(w \in A) + One(w \in B)
  BY <1>3, CountMoves
<1>5. (w \in A) = (worker[w].pc \in pcs) /\ (w \in B) = (pc \in pcs)
  BY <1>3
<1> QED
  BY <1>1, <1>2, <1>4, <1>5 DEF Where

-----------------------------------------------------------------------------
(* A step of a worker, as the two WaitGroups see it: it goes to pc, and    *)
(* adds so many directories to dirChan, to scanWG, and so much to          *)
(* workersWG.                                                              *)
Weight(pc) == One(pc \in Busy) + One(pc \in {"push"})

Steps(w, pc, dirs, scan, workers) ==
  /\ worker[w].pc # "returned"
  /\ Moved(w, pc)
  /\ dirChan' \in Seq(Dirs) /\ Len(dirChan') = Len(dirChan) + dirs
  /\ scanWG' = scanWG + scan /\ workersWG' = workersWG + workers
  /\ UNCHANGED <<ctxDone, main, trigger, dirClosed, fileClosed>>
  /\ failures \subseteq failures'

\* A step of a worker that changes scanWG by the directories it takes up or
\* lays down, and workersWG by the returns of Run, keeps the invariant.
LEMMA StepsKeep ==
  ASSUME IInv, NEW w \in Workers, NEW pc \in Running \cup {"returned"},
         NEW dirs \in Int, NEW scan \in Int, NEW workers \in Int,
         Steps(w, pc, dirs, scan, workers),
         ~ctxDone => scan = dirs + Weight(pc) - Weight(worker[w].pc),
         "panic" \notin failures' => workers = 0 - One(pc = "returned")
  PROVE  IInv'
<1>1. ScanTypes'
  <2>1. scanWG' \in Int /\ workersWG' \in Int
    BY DEF IInv, ScanTypes, Steps
  <2>2. \A v \in Workers : Fits(worker'[v])
    BY Zenon DEF IInv, ScanTypes, Steps, Moved
  <2> QED
    BY <2>1, <2>2, Zenon DEF IInv, ScanTypes, Steps, Moved
<1>2. MainInv'
  BY DEF IInv, MainInv, Steps
<1>3. worker[w].pc \in Running
  BY DEF IInv, ScanTypes, Fits, Places, Steps
<1>4. WorkersInv'
  <2>1. SUFFICES ASSUME "panic" \notin failures' PROVE (workersWG = Cardinality(Where(Running)))'
    BY DEF WorkersInv
  <2>2. workersWG = Cardinality(Where(Running))
    BY <2>1 DEF IInv, WorkersInv, Steps
  <2>3. /\ Cardinality(Where(Running)) \in Nat
        /\ Cardinality(Where(Running))' =
             Cardinality(Where(Running)) - One(worker[w].pc \in Running) + One(pc \in Running)
    BY WhereMoves DEF Steps
  <2>4. One(worker[w].pc \in Running) = 1 /\ One(pc \in Running) = 1 - One(pc = "returned")
    BY <1>3 DEF One, Running, Busy
  <2>5. One(pc = "returned") \in {0, 1}
    BY DEF One
  <2> QED
    BY <2>1, <2>2, <2>3, <2>4, <2>5 DEF Steps
<1>5. ScanWGIsExact'
  <2>1. SUFFICES ASSUME ~ctxDone' PROVE (scanWG = Outstanding)'
    BY DEF ScanWGIsExact
  <2>2. ~ctxDone /\ scanWG = Outstanding /\ trigger' = trigger
    BY <2>1 DEF IInv, ScanWGIsExact, Steps
  <2>3. PICK a \in Nat, b \in Nat, c \in Nat, n \in Nat :
          /\ a = Cardinality(Where(Busy)) /\ b = Cardinality(Where({"push"}))
          /\ c = Cardinality({r \in Roots : trigger[r] = "sending"}) /\ n = Len(dirChan)
    <3>1. Cardinality({r \in Roots : trigger[r] = "sending"}) \in Nat
      BY FS_Subset, FS_CardinalityType, FileScanAssumption
    <3>2. Len(dirChan) \in Nat
      BY DEF IInv, ScanTypes
    <3> QED
      BY <3>1, <3>2, WhereMoves, Zenon DEF Steps
  <2>4. PICK a1 \in Nat, b1 \in Nat :
          /\ a1 = Cardinality(Where(Busy))' /\ b1 = Cardinality(Where({"push"}))'
          /\ a1 = a - One(worker[w].pc \in Busy) + One(pc \in Busy)
          /\ b1 = b - One(worker[w].pc \in {"push"}) + One(pc \in {"push"})
    BY <2>3, WhereMoves, Zenon DEF Steps
  <2>5. scanWG = n + c + a + b /\ Outstanding' = (n + dirs) + c + a1 + b1
    BY <2>2, <2>3, <2>4 DEF Outstanding, Busy, Steps
  <2>6. PICK k \in Int, l \in Int, k1 \in Int, l1 \in Int :
          /\ k = One(worker[w].pc \in Busy) /\ l = One(worker[w].pc \in {"push"})
          /\ k1 = One(pc \in Busy) /\ l1 = One(pc \in {"push"})
    BY DEF One
  <2>7. scan = dirs + (k1 + l1) - (k + l)
    BY <2>2, <2>6 DEF Weight
  <2>8. a1 = a - k + k1 /\ b1 = b - l + l1 /\ scanWG' = scanWG + scan
    BY <2>4, <2>6 DEF Steps
  <2>9. scanWG' = Outstanding'
    BY <2>5, <2>7, <2>8
  <2> QED
    BY <2>9
<1>6. FileChanOutlivesWorkers'
  <2>1. ASSUME fileClosed, "panic" \notin failures' PROVE FALSE
    BY <1>3, <2>1 DEF IInv, FileChanOutlivesWorkers, Where, Running, Busy, Steps
  <2> QED
    BY <2>1 DEF FileChanOutlivesWorkers, Steps
<1> QED
  BY <1>1, <1>2, <1>4, <1>5, <1>6 DEF IInv

-----------------------------------------------------------------------------
(* Where the worker goes.                                                  *)
LEMMA Goes ==
  ASSUME ScanTypes, NEW w \in Workers, NEW p, Fits(p), worker' = [worker EXCEPT ![w] = p]
  PROVE  Moved(w, p.pc)
BY DEF ScanTypes, Moved

\* A worker goes on in the same directory.
LEMMA GotoFacts ==
  ASSUME ScanTypes, NEW w \in Workers, NEW pc \in Running \cup {"returned"}, Goto(w, pc),
         Fits([worker[w] EXCEPT !.pc = pc])
  PROVE  Moved(w, pc)
<1>1. PICK p : p = [worker[w] EXCEPT !.pc = pc]
  OBVIOUS
<1>2. worker' = [worker EXCEPT ![w] = p] /\ p.pc = pc
  BY <1>1 DEF Goto, ScanTypes, Fits, Places
<1> QED
  BY <1>1, <1>2, Goes, Zenon

\* A worker goes on to the next entry.
LEMMA SkipFacts ==
  ASSUME ScanTypes, NEW w \in Workers, Skip(w), worker[w].pc \in Busy, worker[w].rest # <<>>
  PROVE  Moved(w, "entries")
<1>1. PICK p : p = [pc |-> "entries", dir |-> worker[w].dir, rest |-> Tail(worker[w].rest)]
  BY Zenon
<1>2. worker[w] \in Places /\ worker[w].dir \in Dirs
  BY DEF ScanTypes, Fits
<1>3. Tail(worker[w].rest) \in Seq(All)
  BY <1>2 DEF Places
<1>4. Fits(p) /\ p.pc = "entries"
  BY <1>1, <1>2, <1>3 DEF Fits, Places, Running, Busy
<1>5. worker' = [worker EXCEPT ![w] = p]
  BY <1>1 DEF Skip, ScanTypes
<1> QED
  BY <1>4, <1>5, Goes, Zenon

\* A worker is back in its select, or has returned.
LEMMA IdleFacts ==
  /\ Fits(Idle) /\ Idle.pc = "select"
  /\ Fits(Returned) /\ Returned.pc = "returned"
<1>1. <<>> \in Seq(All)
  OBVIOUS
<1>2. Idle \in Places /\ Idle.pc = "select"
  BY <1>1 DEF Idle, Places, Running
<1>3. Returned \in Places /\ Returned.pc = "returned"
  BY <1>1, Zenon DEF Returned, Idle, Places, Running
<1> QED
  BY <1>2, <1>3 DEF Fits, Busy

\* The directories a worker answers for: its own, and the one it is pushing.
LEMMA WeightFacts ==
  /\ Weight("select") = 0 /\ Weight("returned") = 0 /\ Weight("push") = 2
  /\ \A pc \in {"throttle", "readdir", "entries", "emit", "count"} : Weight(pc) = 1
  /\ One("returned" = "returned") = 1
  /\ \A pc \in Running : One(pc = "returned") = 0
BY DEF Weight, One, Busy, Running

-----------------------------------------------------------------------------
(* The steps of a worker.                                                  *)
\* What every step of a worker leaves alone.
WorkerSide ==
  /\ UNCHANGED <<ctxDone, main, trigger, dirClosed, fileClosed>>
  /\ failures \subseteq failures'

\* A step that does not touch dirChan.
LEMMA KeepsDirs ==
  ASSUME ScanTypes, UNCHANGED dirChan
  PROVE  dirChan' \in Seq(Dirs) /\ Len(dirChan') = Len(dirChan) + 0
BY DEF ScanTypes

\* A directory goes from dirChan to a worker, and is counted all the same.
LEMMA TakeDirKeeps ==
  ASSUME IInv, NEW w \in Workers, TakeDir(w)
  PROVE  IInv'
<1>1. dirChan \in Seq(Dirs) /\ dirChan # <<>> /\ <<>> \in Seq(All)
  BY DEF IInv, ScanTypes, TakeDir
<1>2. PICK p : p = [pc |-> "throttle", dir |-> Head(dirChan), rest |-> <<>>]
  BY Zenon
<1>3. Head(dirChan) \in Dirs /\ dirChan' \in Seq(Dirs) /\ Len(dirChan') = Len(dirChan) + (-1)
  BY <1>1 DEF TakeDir
<1>4. Fits(p) /\ p.pc = "throttle"
  BY <1>1, <1>2, <1>3 DEF Fits, Places, Running, Busy
<1>5. Moved(w, "throttle")
  BY <1>2, <1>4, Goes, Zenon DEF TakeDir, IInv
<1>6. Steps(w, "throttle", -1, 0, 0) /\ worker[w].pc = "select"
  BY <1>3, <1>5 DEF Steps, TakeDir, At, WorkerKeeps, IInv, ScanTypes
<1>7. 0 = -1 + Weight("throttle") - Weight("select") /\ 0 = 0 - One("throttle" = "returned")
  BY WeightFacts DEF Running, Busy
<1>8. 0 \in Int /\ -1 \in Int /\ "throttle" \in Running \cup {"returned"}
  BY DEF Running, Busy
<1> QED
  BY <1>6, <1>7, <1>8, StepsKeep, Zenon

\* Run returns.
LEMMA ReturnKeeps ==
  ASSUME IInv, NEW w \in Workers, WorkerEnds(w) \/ ThrottleEnds(w) \/ PushPanics(w)
  PROVE  IInv'
<1>1. worker' = [worker EXCEPT ![w] = Returned] /\ workersWG' = workersWG - 1
  BY DEF WorkerEnds, ThrottleEnds, PushPanics, Return
<1>2. Moved(w, "returned")
  BY <1>1, IdleFacts, Goes, Zenon DEF IInv
<1>3. PICK scan \in {0, -1} : scanWG' = scanWG + scan
  BY DEF WorkerEnds, ThrottleEnds, PushPanics, Done, IInv, ScanTypes
<1>4. ctxDone /\ UNCHANGED dirChan /\ WorkerSide /\ worker[w].pc # "returned"
  BY DEF IInv, MainInv, WorkerEnds, ThrottleEnds, PushPanics, At, WorkerKeeps, WorkerSide
<1>5. Steps(w, "returned", 0, scan, -1)
  BY <1>1, <1>2, <1>3, <1>4, KeepsDirs DEF Steps, WorkerSide, IInv, ScanTypes
<1>6. -1 = 0 - One("returned" = "returned")
  BY WeightFacts
<1> QED
  BY <1>3, <1>4, <1>5, <1>6, StepsKeep

\* handleDirectory returns, and the worker goes on.
LEMMA DoneKeeps ==
  ASSUME IInv, NEW w \in Workers,
         ReadDir(w, FALSE) \/ EndDirectory(w) \/ PushEnds(w) \/ WorkerPanics(w)
  PROVE  IInv'
<1>1. worker' = [worker EXCEPT ![w] = Idle] /\ scanWG' = scanWG + (-1)
  BY DEF ReadDir, EndDirectory, PushEnds, WorkerPanics, Done, IInv, ScanTypes
<1>2. Moved(w, "select")
  BY <1>1, IdleFacts, Goes, Zenon DEF IInv
<1>3. PICK n \in {0, -1} : workersWG' = workersWG + n /\ ("panic" \notin failures' => n = 0)
  <2>1. CASE WorkerPanics(w)
    BY <2>1 DEF WorkerPanics, Fail, IInv, ScanTypes
  <2>2. CASE ~WorkerPanics(w)
    BY <2>2 DEF ReadDir, EndDirectory, PushEnds, IInv, ScanTypes
  <2> QED
    BY <2>1, <2>2
<1>4. UNCHANGED dirChan /\ WorkerSide
  BY DEF ReadDir, EndDirectory, PushEnds, WorkerPanics, WorkerKeeps, WorkerSide, Fail
<1>5. worker[w].pc \in {"readdir", "entries"} \/ (worker[w].pc = "push" /\ ctxDone)
  BY DEF ReadDir, EndDirectory, PushEnds, WorkerPanics, At
<1>6. Steps(w, "select", 0, -1, n)
  BY <1>1, <1>2, <1>3, <1>4, <1>5, KeepsDirs DEF Steps, WorkerSide, IInv
<1>7. /\ ~ctxDone => -1 = 0 + Weight("select") - Weight(worker[w].pc)
      /\ "panic" \notin failures' => n = 0 - One("select" = "returned")
  BY <1>3, <1>5, WeightFacts DEF Running
<1>8. n \in Int /\ -1 \in Int /\ 0 \in Int /\ "select" \in Running \cup {"returned"}
  BY <1>3 DEF Running
<1> QED
  BY <1>6, <1>7, <1>8, StepsKeep, Zenon

\* The steps that leave dirChan, workersWG and the faults alone.
Walks(w, pc, scan) ==
  /\ Moved(w, pc)
  /\ scanWG' = scanWG + scan
  /\ UNCHANGED <<dirChan, workersWG, failures, ctxDone, main, trigger, dirClosed, fileClosed>>

\* A step of a worker inside handleDirectory.
LEMMA WalksKeep ==
  ASSUME IInv, NEW w \in Workers, NEW pc \in Running, NEW scan \in Int, Walks(w, pc, scan),
         worker[w].pc # "returned", scan = Weight(pc) - Weight(worker[w].pc)
  PROVE  IInv'
<1>1. Steps(w, pc, 0, scan, 0)
  BY KeepsDirs DEF Steps, Walks, IInv, ScanTypes
<1>2. scan = 0 + Weight(pc) - Weight(worker[w].pc) /\ 0 = 0 - One(pc = "returned")
  <2>1. Weight(pc) \in Int /\ Weight(worker[w].pc) \in Int
    BY DEF Weight, One
  <2> QED
    BY <2>1, WeightFacts
<1>3. 0 \in Int /\ pc \in Running \cup {"returned"}
  OBVIOUS
<1> QED
  BY <1>1, <1>2, <1>3, StepsKeep, Zenon

\* throttle returns.
LEMMA ThrottleKeeps ==
  ASSUME IInv, NEW w \in Workers, Throttle(w)
  PROVE  IInv'
<1>1. Fits([worker[w] EXCEPT !.pc = "readdir"])
  BY Zenon DEF Throttle, At, IInv, ScanTypes, Fits, Places, Running, Busy
<1>2. Moved(w, "readdir")
  BY <1>1, GotoFacts, Zenon DEF Throttle, IInv, Running, Busy
<1>3. Walks(w, "readdir", 0) /\ worker[w].pc = "throttle"
  BY <1>2 DEF Walks, Throttle, At, WorkerKeeps, IInv, ScanTypes
<1>4. 0 = Weight("readdir") - Weight("throttle")
  BY WeightFacts
<1> QED
  BY <1>3, <1>4, WalksKeep DEF Running, Busy

\* os.ReadDir returns the entries.
LEMMA ReadDirKeeps ==
  ASSUME IInv, NEW w \in Workers, ReadDir(w, TRUE)
  PROVE  IInv'
<1>1. PICK p : p = [pc |-> "entries", dir |-> worker[w].dir, rest |-> Entries[worker[w].dir]]
  BY Zenon
<1>2. worker[w].pc = "readdir" /\ worker[w].dir \in Dirs
  BY DEF ReadDir, At, IInv, ScanTypes, Fits, Busy
<1>3. Entries[worker[w].dir] \in Seq(All)
  BY <1>2, FileScanAssumption DEF All
<1>4. Fits(p) /\ p.pc = "entries"
  BY <1>1, <1>2, <1>3 DEF Fits, Places, Running, Busy
<1>5. Moved(w, "entries")
  <2>1. worker' = [worker EXCEPT ![w] = p]
    BY <1>1 DEF ReadDir, IInv, ScanTypes
  <2> QED
    BY <1>4, <2>1, Goes, Zenon DEF IInv
<1>6. Walks(w, "entries", 0)
  BY <1>5 DEF Walks, ReadDir, WorkerKeeps, IInv, ScanTypes
<1>7. 0 = Weight("entries") - Weight("readdir")
  BY WeightFacts
<1> QED
  BY <1>2, <1>6, <1>7, WalksKeep DEF Running, Busy

\* scanWG is raised for a directory before it is sent.
LEMMA NextEntryKeeps ==
  ASSUME IInv, NEW w \in Workers, NextEntry(w)
  PROVE  IInv'
<1>1. /\ worker[w].pc = "entries" /\ worker[w].rest # <<>> /\ worker[w].dir \in Dirs
      /\ worker[w] \in Places
      /\ UNCHANGED <<dirChan, workersWG, failures, ctxDone, main, trigger, dirClosed, fileClosed>>
  BY DEF NextEntry, At, WorkerKeeps, IInv, ScanTypes, Fits, Busy
<1>2. CASE Entry(w) \in Dirs /\ Add /\ Goto(w, "push")
  <2>1. Fits([worker[w] EXCEPT !.pc = "push"])
    BY <1>1, <1>2 DEF Fits, Places, Entry, Running, Busy
  <2>2. Walks(w, "push", 1)
    BY <1>1, <1>2, <2>1, GotoFacts, Zenon DEF Walks, Add, IInv, Running, Busy
  <2>3. 1 = Weight("push") - Weight("entries")
    BY WeightFacts
  <2> QED
    BY <1>1, <2>2, <2>3, WalksKeep DEF Running, Busy
<1>3. CASE Goto(w, "emit") /\ UNCHANGED scanWG
  <2>1. Fits([worker[w] EXCEPT !.pc = "emit"])
    BY <1>1 DEF Fits, Places, Running, Busy
  <2>2. Walks(w, "emit", 0)
    <3>1. Moved(w, "emit")
      BY <1>3, <2>1, GotoFacts, Zenon DEF IInv, Running, Busy
    <3>2. scanWG' = scanWG + 0
      BY <1>3 DEF IInv, ScanTypes
    <3> QED
      BY <1>1, <3>1, <3>2 DEF Walks
  <2>3. 0 = Weight("emit") - Weight("entries")
    BY WeightFacts
  <2> QED
    BY <1>1, <2>2, <2>3, WalksKeep DEF Running, Busy
<1>4. CASE Skip(w) /\ UNCHANGED scanWG
  <2>1. Walks(w, "entries", 0)
    BY <1>1, <1>4, SkipFacts DEF Walks, IInv, ScanTypes, Busy
  <2>2. 0 = Weight("entries") - Weight("entries")
    BY WeightFacts
  <2> QED
    BY <1>1, <2>1, <2>2, WalksKeep DEF Running, Busy
<1> QED
  BY <1>2, <1>3, <1>4, Zenon DEF NextEntry

\* A directory goes from a worker to dirChan, and is counted all the same.
LEMMA PushDirKeeps ==
  ASSUME IInv, NEW w \in Workers, PushDir(w)
  PROVE  IInv'
<1>1. worker[w].pc = "push" /\ worker[w].rest # <<>> /\ Entry(w) \in Dirs
  BY DEF PushDir, At, Entry, IInv, ScanTypes, Fits
<1>2. dirChan' \in Seq(Dirs) /\ Len(dirChan') = Len(dirChan) + 1
  BY <1>1 DEF PushDir, IInv, ScanTypes
<1>3. Moved(w, "entries")
  BY <1>1, SkipFacts DEF PushDir, IInv, Busy
<1>4. Steps(w, "entries", 1, 0, 0)
  BY <1>1, <1>2, <1>3 DEF Steps, PushDir, WorkerKeeps, IInv, ScanTypes
<1>5. 0 = 1 + Weight("entries") - Weight("push") /\ 0 = 0 - One("entries" = "returned")
  BY WeightFacts DEF Running, Busy
<1>6. 0 \in Int /\ 1 \in Int /\ "entries" \in Running \cup {"returned"}
  BY DEF Running, Busy
<1> QED
  BY <1>1, <1>4, <1>5, <1>6, StepsKeep, Zenon

\* processFile does not touch the WaitGroups.
LEMMA EmitKeeps ==
  ASSUME IInv, NEW w \in Workers, EmitFile(w) \/ CountFile(w) \/ EmitEnds(w)
  PROVE  IInv'
<1>1. /\ worker[w].pc \in {"emit", "count"} /\ worker[w].rest # <<>> /\ worker[w].dir \in Dirs
      /\ worker[w] \in Places /\ scanWG' = scanWG + 0
      /\ UNCHANGED <<dirChan, workersWG, failures, ctxDone, main, trigger, dirClosed, fileClosed>>
  BY DEF EmitFile, CountFile, EmitEnds, At, WorkerKeeps, IInv, ScanTypes, Fits, Busy
<1>2. PICK pc \in {"count", "entries"} : Moved(w, pc)
  <2>1. CASE EmitFile(w)
    <3>1. Fits([worker[w] EXCEPT !.pc = "count"])
      BY <1>1 DEF Fits, Places, Running, Busy
    <3> QED
      BY <2>1, <3>1, GotoFacts, Zenon DEF EmitFile, IInv, Running, Busy
  <2>2. CASE CountFile(w) \/ EmitEnds(w)
    BY <1>1, <2>2, SkipFacts, Zenon DEF CountFile, EmitEnds, IInv, Busy
  <2> QED
    BY <2>1, <2>2
<1>3. Walks(w, pc, 0)
  BY <1>1, <1>2, Zenon DEF Walks
<1>4. 0 = Weight(pc) - Weight(worker[w].pc) /\ pc \in Running
  BY <1>1, <1>2, WeightFacts, SMTT(20) DEF Running, Busy
<1> QED
  BY <1>1, <1>3, <1>4, WalksKeep

-----------------------------------------------------------------------------
(* The other steps.                                                        *)
LEMMA TriggerKeepsIt ==
  ASSUME IInv, NEW r \in Roots, TriggerScan(r) \/ Triggered(r)
  PROVE  IInv'
<1>1. /\ UNCHANGED <<ctxDone, main, dirClosed, fileClosed, worker, workersWG, failures>>
  BY DEF TriggerScan, Triggered, TriggerKeeps
<1>2. PICK A, B : /\ A = {q \in Roots : trigger[q] = "sending"}
                  /\ B = {q \in Roots : trigger'[q] = "sending"}
  BY Zenon
<1>3. /\ trigger' \in [Roots -> {"none", "sending", "started"}]
      /\ \A q \in Roots : q # r => trigger'[q] = trigger[q]
      /\ \/ /\ trigger[r] # "sending" /\ trigger'[r] = "sending"
            /\ scanWG' = scanWG + 1 /\ dirChan' = dirChan
         \/ /\ trigger[r] = "sending" /\ trigger'[r] # "sending"
            /\ scanWG' = scanWG /\ dirChan' = Append(dirChan, r)
  BY DEF TriggerScan, Triggered, IInv, ScanTypes
<1>4. /\ Cardinality(A) \in Nat /\ Cardinality(B) \in Nat
      /\ Cardinality(B) = Cardinality(A) - One(r \in A) + One(r \in B)
  <2>1. IsFiniteSet(Roots)
    BY FS_Subset, FileScanAssumption
  <2>2. A \subseteq Roots /\ B \subseteq Roots /\ \A q \in Roots : q # r => (q \in A <=> q \in B)
    BY <1>2, <1>3
  <2> QED
    BY <2>1, <2>2, CountMoves
<1>5. dirChan \in Seq(Dirs) /\ Len(dirChan) \in Nat /\ r \in Dirs
  BY FileScanAssumption DEF IInv, ScanTypes
<1>6. PICK k \in Int :
        /\ scanWG' = scanWG + k /\ dirChan' \in Seq(Dirs)
        /\ Cardinality(B) + Len(dirChan') = Cardinality(A) + Len(dirChan) + k
  <2>1. CASE trigger[r] # "sending" /\ trigger'[r] = "sending" /\ scanWG' = scanWG + 1 /\ dirChan' = dirChan
    <3>1. Cardinality(B) = Cardinality(A) + 1
      BY <1>2, <1>4, <2>1 DEF One
    <3> QED
      BY <1>4, <1>5, <2>1, <3>1
  <2>2. CASE trigger[r] = "sending" /\ trigger'[r] # "sending" /\ scanWG' = scanWG /\ dirChan' = Append(dirChan, r)
    <3>1. Cardinality(B) = Cardinality(A) - 1
      BY <1>2, <1>4, <2>2 DEF One
    <3>2. dirChan' \in Seq(Dirs) /\ Len(dirChan') = Len(dirChan) + 1 /\ scanWG' = scanWG + 0
      BY <1>5, <2>2 DEF IInv, ScanTypes
    <3> QED
      BY <1>4, <1>5, <3>1, <3>2
  <2> QED
    BY <1>3, <2>1, <2>2
<1>7. ScanTypes'
  BY <1>1, <1>3, <1>6 DEF IInv, ScanTypes
<1>8. ScanWGIsExact'
  <2>1. PICK a, b : a = Cardinality(Where(Busy)) /\ b = Cardinality(Where({"push"}))
    OBVIOUS
  <2>2. a \in Nat /\ b \in Nat
    BY <2>1, FileScanAssumption, FS_Subset, FS_CardinalityType DEF Where
  <2>3. Outstanding = Len(dirChan) + Cardinality(A) + a + b
    BY <1>2, <2>1 DEF Outstanding, Busy
  <2>4. Outstanding' = Len(dirChan') + Cardinality(B) + a + b
    BY <1>1, <1>2, <2>1, Zenon DEF Outstanding, Busy, Where
  <2>5. Len(dirChan') \in Nat
    BY <1>6
  <2>6. Outstanding' = Outstanding + k
    <3>1. PICK m \in Nat, n \in Nat, p \in Nat, q \in Nat :
            m = Len(dirChan) /\ n = Len(dirChan') /\ p = Cardinality(A) /\ q = Cardinality(B)
      BY <1>4, <1>5, <2>5, Zenon
    <3>2. Outstanding = m + p + a + b /\ Outstanding' = n + q + a + b /\ q + n = p + m + k
      BY <1>6, <2>3, <2>4, <3>1, Zenon
    <3> QED
      BY <2>2, <3>2
  <2> QED
    BY <1>1, <1>6, <2>6 DEF IInv, ScanWGIsExact
<1>9. MainInv' /\ WorkersInv' /\ FileChanOutlivesWorkers'
  BY <1>1 DEF IInv, MainInv, WorkersInv, FileChanOutlivesWorkers, Where
<1> QED
  BY <1>7, <1>8, <1>9 DEF IInv

\* main waits for the workers before it closes fileChan.
LEMMA MainKeepsIt ==
  ASSUME IInv, Signal \/ GracefulStop \/ WorkersGone \/ Exit
  PROVE  IInv'
<1>1. UNCHANGED <<trigger, dirChan, worker, scanWG, workersWG, failures>>
  BY DEF Signal, GracefulStop, WorkersGone, Exit, MainKeeps
<1>2. ctxDone' /\ ctxDone' \in BOOLEAN
  BY Zenon DEF Signal, GracefulStop, WorkersGone, Exit, IInv, ScanTypes, MainInv
<1>3. ScanTypes' /\ MainInv' /\ ScanWGIsExact'
  BY <1>1, <1>2 DEF IInv, ScanTypes, MainInv, ScanWGIsExact
<1>4. WorkersInv'
  BY <1>1 DEF IInv, WorkersInv, Where
<1>5. FileChanOutlivesWorkers'
  <2>1. CASE ~WorkersGone
    <3>1. UNCHANGED fileClosed
      BY <2>1 DEF Signal, GracefulStop, Exit
    <3> QED
      BY <1>1, <3>1 DEF IInv, FileChanOutlivesWorkers, Where
  <2>2. CASE WorkersGone /\ "panic" \notin failures
    <3>1. Cardinality(Where(Running)) = 0 /\ IsFiniteSet(Where(Running))
      BY <2>2, FileScanAssumption, FS_Subset, Zenon DEF WorkersGone, AllDone, IInv, WorkersInv, Where
    <3>2. Where(Running) = {}
      BY <3>1, FS_EmptySet
    <3>3. Where({"returned"}) = Workers
      BY <3>2, Zenon DEF Where, IInv, ScanTypes, Fits, Places
    <3> QED
      BY <1>1, <3>3 DEF FileChanOutlivesWorkers, Where
  <2>3. CASE "panic" \in failures
    BY <1>1, <2>3 DEF FileChanOutlivesWorkers
  <2> QED
    BY <2>1, <2>2, <2>3
<1> QED
  BY <1>3, <1>4, <1>5 DEF IInv

\* The sender and the master do not touch the WaitGroups.
LEMMA SenderKeepsIt ==
  ASSUME IInv, failures \subseteq failures',
         UNCHANGED <<ctxDone, main, trigger, dirChan, dirClosed, fileClosed, worker, scanWG, workersWG>>
  PROVE  IInv'
<1>1. ScanTypes' /\ MainInv'
  BY DEF IInv, ScanTypes, MainInv
<1>2. WorkersInv' /\ FileChanOutlivesWorkers'
  BY DEF IInv, WorkersInv, FileChanOutlivesWorkers, Where
<1>3. ScanWGIsExact'
  BY DEF IInv, ScanWGIsExact, Outstanding, Where
<1> QED
  BY <1>1, <1>2, <1>3 DEF IInv

\* Every step keeps the inductive invariant.
LEMMA NextKeeps == IInv /\ [Next]_vars => IInv'
<1> SUFFICES ASSUME IInv, [Next]_vars PROVE IInv'
  OBVIOUS
<1>1. ASSUME NEW r \in Roots, TriggerScan(r) \/ Triggered(r) PROVE IInv'
  BY <1>1, TriggerKeepsIt
<1>2. ASSUME NEW w \in Workers, Scan(w) PROVE IInv'
  BY <1>2, TakeDirKeeps, ReturnKeeps, DoneKeeps, ThrottleKeeps, ReadDirKeeps, NextEntryKeeps,
     PushDirKeeps, EmitKeeps, Zenon DEF Scan
<1>3. ASSUME NEW w \in Workers, ReadDir(w, FALSE) \/ WorkerPanics(w) PROVE IInv'
  BY <1>3, DoneKeeps, Zenon
<1>4. CASE OpenStream(TRUE) \/ OpenStream(FALSE) \/ TakeFile \/ SendFile \/ SenderEnds
           \/ StreamBreaks \/ Analyze
  <2>1. SenderKeeps /\ failures \subseteq failures'
    BY <1>4, Zenon DEF OpenStream, TakeFile, SendFile, SenderEnds, StreamBreaks, Analyze, Fail
  <2> QED
    BY <2>1, SenderKeepsIt DEF SenderKeeps
<1>5. CASE Signal \/ GracefulStop \/ WorkersGone \/ Exit
  BY <1>5, MainKeepsIt
<1>6. CASE UNCHANGED vars
  BY <1>6, SenderKeepsIt DEF vars, chanVars
<1> QED
  BY <1>1, <1>2, <1>3, <1>4, <1>5, <1>6, Zenon DEF Next

\* The inductive invariant holds when main has started the workers.
LEMMA InitIInv == Init => IInv
<1> SUFFICES ASSUME Init PROVE IInv
  OBVIOUS
<1>1. worker = [w \in Workers |-> Idle] /\ \A w \in Workers : worker[w].pc = "select"
  BY IdleFacts DEF Init
<1>2. Cardinality(Workers) \in Nat
  BY FileScanAssumption, FS_CardinalityType
<1>3. ScanTypes
  <2>1. \A w \in Workers : Fits(worker[w])
    BY <1>1, IdleFacts
  <2>2. DOMAIN worker = Workers /\ worker = [w \in Workers |-> worker[w]]
    BY <1>1
  <2>3. trigger \in [Roots -> {"none", "sending", "started"}]
    BY DEF Init
  <2>4. dirChan \in Seq(Dirs) /\ scanWG \in Int
    BY DEF Init
  <2>5. workersWG \in Int
    BY <1>2 DEF Init
  <2>6. ctxDone \in BOOLEAN
    BY Zenon DEF Init
  <2> QED
    BY <2>1, <2>2, <2>3, <2>4, <2>5, <2>6 DEF ScanTypes
<1>4. Where(Running) = Workers /\ Where(Busy) = {} /\ Where({"push"}) = {}
  BY <1>1 DEF Where, Running, Busy
<1>5. {r \in Roots : trigger[r] = "sending"} = {}
  BY DEF Init
<1>6. ScanWGIsExact
  <2>1. Len(dirChan) = 0 /\ scanWG = 0
    BY DEF Init
  <2>2. Outstanding = Len(dirChan) + Cardinality({}) + Cardinality({}) + Cardinality({})
    BY <1>4, <1>5, Zenon DEF Outstanding, Busy
  <2>3. Outstanding = 0
    BY <2>1, <2>2, FS_EmptySet
  <2> QED
    BY <2>1, <2>3 DEF ScanWGIsExact
<1>7. MainInv /\ WorkersInv /\ FileChanOutlivesWorkers
  BY <1>4 DEF Init, MainInv, WorkersInv, FileChanOutlivesWorkers
<1> QED
  BY <1>3, <1>6, <1>7 DEF IInv

-----------------------------------------------------------------------------
\* Whatever fails and whoever panics, until the context ends scanWG is the
\* number of directories that were found and are not handled yet, so that a
\* wait for it returns when the walk is over, and not before.
THEOREM ScanWGCountsDirectories == Spec => [](~ctxDone => scanWG = Outstanding)
<1>1. IInv => (~ctxDone => scanWG = Outstanding)
  BY DEF IInv, ScanWGIsExact
<1> QED
  BY <1>1, InitIInv, NextKeeps, PTL DEF Spec

\* main closes fileChan after the last FileScannerWorker returned.
THEOREM NobodySendsOnClosedFileChan == Spec => []FileChanOutlivesWorkers
<1>1. IInv => FileChanOutlivesWorkers
  BY DEF IInv
<1> QED
  BY <1>1, InitIInv, NextKeeps, PTL DEF Spec

-----------------------------------------------------------------------------
(* The walk.  S is the set of directories read so far: a history that no   *)
(* variable keeps, and over which the invariant quantifies.                *)
Reading == {"entries", "push", "emit", "count"}
Queued == {"throttle", "readdir"}

\* The entries a worker has still to come to, and those of all workers.
Left(w) == IF worker[w].pc = "count" THEN Range(Tail(worker[w].rest)) ELSE Range(worker[w].rest)
Ahead == UNION {Left(w) : w \in Workers}

\* What was found in the directories of S, what of it the workers have come
\* to, and with the roots all that is or was in their hands.
Found(S) == UNION {Range(Entries[d]) : d \in S}
Past(S) == Found(S) \ Ahead
Started == {r \in Roots : trigger[r] = "started"}
Known(S) == Past(S) \cup Started
QueuedDirs == {worker[w].dir : w \in Where(Queued)}

\* Where a worker stands in its directory.
Stands(w, S) ==
  /\ worker[w].pc \in Reading => /\ worker[w].dir \in S
                                 /\ IsInjective(worker[w].rest)
                                 /\ Range(worker[w].rest) \subseteq Range(Entries[worker[w].dir])
  /\ worker[w].pc \notin Reading => worker[w].rest = <<>>
  /\ worker[w].pc \in {"emit", "count"} => Head(worker[w].rest) \in Authorized

\* A directory is in one place: read, in dirChan or with one worker; it got
\* there only once it was found.
TreeInv(S) ==
  /\ S \subseteq Tree
  /\ \A w \in Workers : Stands(w, S)
  /\ \A v, w \in Where(Busy) : v # w => worker[v].dir # worker[w].dir
  /\ IsInjective(dirChan) /\ Range(dirChan) \cap S = {} /\ QueuedDirs \cap S = {}
  /\ \A w \in Where(Busy) : worker[w].dir \notin Range(dirChan)
  /\ S \cup Range(dirChan) \cup QueuedDirs \subseteq Known(S)

SenderInv ==
  /\ fileChan \in Seq(Files) /\ hand \in Seq(Files) /\ wire \in Seq(Files) /\ received \in Seq(Files)
  /\ sender # "sending" => hand = <<>>
  /\ ~up => wire = <<>>
  /\ sender = "start" => ~up
  /\ IsFiniteSet(lost)

\* A file is in one place behind the workers, and got there once the worker
\* came to it.
FileInv(S) ==
  /\ IsInjective(InFlight) /\ lost \cap Range(InFlight) = {}
  /\ Range(InFlight) \cup lost \subseteq Past(S)

CountInv ==
  /\ stats \in [{"FilesFound", "DirsScanned", "ErrorCount", "SkippedItem"} -> Nat]
  /\ stats.FilesFound + Cardinality(Where({"count"})) = Len(InFlight) + Cardinality(lost)

\* Nothing was left out, as long as no worker had to give up a directory.
DoneInv(S) ==
  /\ stats.DirsScanned = Cardinality(S)
  /\ ~ctxDone /\ failures \subseteq {"stream"} =>
       /\ Started \cup (Past(S) \cap Dirs) \subseteq S \cup Range(dirChan) \cup QueuedDirs
       /\ Past(S) \cap Authorized \subseteq Range(InFlight) \cup lost
       /\ IsFiniteSet(Past(S) \cap Specials)
       /\ stats.SkippedItem = Cardinality(Past(S) \cap Specials)

WalkInv(S) == TreeInv(S) /\ FileInv(S) /\ DoneInv(S)

WInv == SenderInv /\ CountInv /\ \E S \in SUBSET Dirs : WalkInv(S)

-----------------------------------------------------------------------------
(* Sequences without repetition.                                           *)
\* An element is put at the end.
LEMMA AppendFacts ==
  ASSUME NEW T, NEW s \in Seq(T), NEW x \in T
  PROVE  /\ Append(s, x) \in Seq(T) /\ Len(Append(s, x)) = Len(s) + 1
         /\ Range(Append(s, x)) = Range(s) \cup {x}
         /\ IsInjective(s) /\ x \notin Range(s) => IsInjective(Append(s, x))
<1>1. /\ Append(s, x) \in Seq(T) /\ Len(Append(s, x)) = Len(s) + 1 /\ Len(s) \in Nat
      /\ DOMAIN Append(s, x) = 1 .. Len(s) + 1 /\ DOMAIN s = 1 .. Len(s)
      /\ \A i \in 1 .. Len(s) : Append(s, x)[i] = s[i]
      /\ Append(s, x)[Len(s) + 1] = x
  OBVIOUS
<1>2. Range(Append(s, x)) = Range(s) \cup {x}
  BY <1>1 DEF Range
<1>3. ASSUME IsInjective(s), x \notin Range(s) PROVE IsInjective(Append(s, x))
  BY <1>1, <1>3 DEF Range, IsInjective
<1> QED
  BY <1>1, <1>2, <1>3, Zenon

\* The first element is taken away.
LEMMA TailFacts ==
  ASSUME NEW T, NEW s \in Seq(T), s # <<>>
  PROVE  /\ Head(s) \in T /\ Tail(s) \in Seq(T) /\ Len(s) = Len(Tail(s)) + 1
         /\ Range(s) = {Head(s)} \cup Range(Tail(s))
         /\ IsInjective(s) => IsInjective(Tail(s)) /\ Head(s) \notin Range(Tail(s))
<1>1. /\ Head(s) \in T /\ Tail(s) \in Seq(T) /\ Len(s) = Len(Tail(s)) + 1 /\ Len(Tail(s)) \in Nat
      /\ DOMAIN s = 1 .. Len(s) /\ DOMAIN Tail(s) = 1 .. Len(Tail(s))
      /\ s[1] = Head(s) /\ \A i \in 1 .. Len(Tail(s)) : Tail(s)[i] = s[i + 1]
  OBVIOUS
<1>2. Range(s) = {Head(s)} \cup Range(Tail(s))
  <2>1. ASSUME NEW y \in Range(s) PROVE y = Head(s) \/ y \in Range(Tail(s))
    <3>1. PICK i \in 1 .. Len(s) : s[i] = y
      BY <1>1, <2>1 DEF Range
    <3>2. CASE i # 1
      <4>1. i - 1 \in 1 .. Len(Tail(s)) /\ Tail(s)[i - 1] = y
        BY <1>1, <3>1, <3>2
      <4> QED
        BY <1>1, <4>1, Zenon DEF Range
    <3> QED
      BY <1>1, <3>1, <3>2
  <2>2. Head(s) \in Range(s)
    BY <1>1 DEF Range
  <2>3. Range(Tail(s)) \subseteq Range(s)
    BY <1>1 DEF Range
  <2> QED
    BY <2>1, <2>2, <2>3
<1>3. ASSUME IsInjective(s) PROVE IsInjective(Tail(s)) /\ Head(s) \notin Range(Tail(s))
  <2>1. IsInjective(Tail(s))
    BY <1>1, <1>3 DEF IsInjective
  <2>2. Head(s) \notin Range(Tail(s))
    BY <1>1, <1>3 DEF Range, IsInjective
  <2> QED
    BY <2>1, <2>2
<1> QED
  BY <1>1, <1>2, <1>3

\* Two sequences, one behind the other.
LEMMA ConcatFacts ==
  ASSUME NEW T, NEW s \in Seq(T), NEW t \in Seq(T)
  PROVE  /\ s \o t \in Seq(T) /\ Len(s \o t) = Len(s) + Len(t)
         /\ Range(s \o t) = Range(s) \cup Range(t)
         /\ IsInjective(s \o t) <=>
              IsInjective(s) /\ IsInjective(t) /\ Range(s) \cap Range(t) = {}
<1>1. /\ s \o t \in Seq(T) /\ Len(s \o t) = Len(s) + Len(t) /\ Len(s) \in Nat /\ Len(t) \in Nat
      /\ DOMAIN s = 1 .. Len(s) /\ DOMAIN t = 1 .. Len(t) /\ DOMAIN (s \o t) = 1 .. Len(s) + Len(t)
      /\ \A i \in 1 .. Len(s) : (s \o t)[i] = s[i]
      /\ \A i \in 1 .. Len(t) : (s \o t)[Len(s) + i] = t[i]
  OBVIOUS
<1>2. \A i \in 1 .. Len(s) + Len(t) :
        \/ i \in 1 .. Len(s) /\ (s \o t)[i] = s[i]
        \/ i - Len(s) \in 1 .. Len(t) /\ (s \o t)[i] = t[i - Len(s)]
  BY <1>1
<1>3. \A i \in 1 .. Len(t) : Len(s) + i \in 1 .. Len(s) + Len(t)
  BY <1>1
<1>4. Range(s \o t) = Range(s) \cup Range(t)
  <2>1. Range(s) \cup Range(t) \subseteq Range(s \o t)
    <3>1. Range(s) \subseteq Range(s \o t)
      BY <1>1 DEF Range
    <3>2. Range(t) \subseteq Range(s \o t)
      <4>1. ASSUME NEW i \in 1 .. Len(t) PROVE t[i] \in Range(s \o t)
        <5>1. Len(s) + i \in DOMAIN (s \o t) /\ (s \o t)[Len(s) + i] = t[i]
          BY <1>1, <1>3, Zenon
        <5> QED
          BY <5>1, Zenon DEF Range
      <4> QED
        BY <1>1, <4>1, Zenon DEF Range
    <3> QED
      BY <3>1, <3>2
  <2>2. Range(s \o t) \subseteq Range(s) \cup Range(t)
    BY <1>1, <1>2 DEF Range
  <2> QED
    BY <2>1, <2>2
<1>5. ASSUME IsInjective(s \o t)
      PROVE  IsInjective(s) /\ IsInjective(t) /\ Range(s) \cap Range(t) = {}
  <2>1. IsInjective(s)
    BY <1>1, <1>5 DEF IsInjective
  <2>2. IsInjective(t)
    <3>1. ASSUME NEW i \in 1 .. Len(t), NEW j \in 1 .. Len(t), t[i] = t[j] PROVE i = j
      <4>1. (s \o t)[Len(s) + i] = (s \o t)[Len(s) + j]
        BY <1>1, <3>1
      <4>2. Len(s) + i = Len(s) + j
        BY <1>1, <1>5, <1>3, <4>1, Zenon DEF IsInjective
      <4> QED
        BY <1>1, <4>2
    <3> QED
      BY <1>1, <3>1 DEF IsInjective
  <2>3. ASSUME NEW i \in 1 .. Len(s), NEW j \in 1 .. Len(t) PROVE s[i] # t[j]
    <3>1. i # Len(s) + j /\ i \in DOMAIN (s \o t) /\ Len(s) + j \in DOMAIN (s \o t)
      BY <1>1
    <3>2. (s \o t)[i] # (s \o t)[Len(s) + j]
      BY <1>5, <3>1, Zenon DEF IsInjective
    <3> QED
      BY <1>1, <3>2, Zenon
  <2> QED
    BY <1>1, <2>1, <2>2, <2>3 DEF Range
<1>6. ASSUME IsInjective(s), IsInjective(t), Range(s) \cap Range(t) = {}
      PROVE  IsInjective(s \o t)
  <2>1. \A i \in 1 .. Len(s), j \in 1 .. Len(t) : s[i] # t[j]
    BY <1>1, <1>6, Zenon DEF Range
  <2>2. /\ \A i, j \in 1 .. Len(s) : s[i] = s[j] => i = j
        /\ \A i, j \in 1 .. Len(t) : t[i] = t[j] => i = j
    BY <1>1, <1>6, Zenon DEF IsInjective
  <2> QED
    BY <1>1, <1>2, <2>1, <2>2, SMTT(20) DEF IsInjective
<1> QED
  BY <1>1, <1>4, <1>5, <1>6, Zenon

\* As many elements as places.
LEMMA RangeCount ==
  ASSUME NEW T, NEW s \in Seq(T), IsInjective(s)
  PROVE  IsFiniteSet(Range(s)) /\ Cardinality(Range(s)) = Len(s)
<1>1. Len(s) \in Nat /\ s \in [1 .. Len(s) -> Range(s)]
  BY DEF Range
<1>2. s \in Bijection(1 .. Len(s), Range(s))
  BY <1>1, Zenon DEF Bijection, Injection, Surjection, Range
<1>3. ExistsBijection(1 .. Len(s), Range(s))
  BY <1>2 DEF ExistsBijection
<1> QED
  BY <1>1, <1>3, FS_NatBijection, FS_CountingElements

\* Nothing is in the empty sequence.
LEMMA EmptyFacts == Range(<<>>) = {} /\ IsInjective(<<>>) /\ Len(<<>>) = 0
BY DEF Range, IsInjective

-----------------------------------------------------------------------------
(* The tree.                                                               *)
\* The roots are in the tree, and it is closed.
LEMMA TreeFacts ==
  /\ Roots \subseteq Tree /\ Tree \subseteq Dirs /\ IsClosed(Tree)
  /\ \A ds \in SUBSET Dirs : Roots \subseteq ds /\ IsClosed(ds) => Tree \subseteq ds
<1>1. Roots \subseteq Tree /\ Tree \subseteq Dirs
  BY FileScanAssumption DEF Tree
<1>2. ASSUME NEW d \in Tree, NEW e \in Range(Entries[d]) \cap Dirs PROVE e \in Tree
  <2>1. ASSUME NEW ds \in SUBSET Dirs, Roots \subseteq ds, IsClosed(ds) PROVE e \in ds
    <3>1. d \in ds
      BY <1>2, <2>1 DEF Tree
    <3> QED
      BY <1>2, <2>1, <3>1 DEF IsClosed
  <2> QED
    BY <1>2, <2>1 DEF Tree
<1> QED
  BY <1>1, <1>2, Zenon DEF IsClosed, Tree

\* What a worker has left was found in the directory it reads, and is in no
\* other worker's hands.
LEMMA LeftFacts ==
  ASSUME ScanTypes, NEW S \in SUBSET Dirs, TreeInv(S), NEW w \in Workers
  PROVE  /\ Left(w) \subseteq Range(worker[w].rest)
         /\ Left(w) \subseteq Found(S)
         /\ \A v \in Workers : v # w => Left(v) \cap Left(w) = {}
<1>1. ASSUME NEW v \in Workers
      PROVE  /\ Left(v) \subseteq Range(worker[v].rest)
             /\ Left(v) # {} => v \in Where(Busy) /\ worker[v].dir \in S
                               /\ Left(v) \subseteq Range(Entries[worker[v].dir])
  <2>1. worker[v].rest \in Seq(All) /\ Fits(worker[v]) /\ Stands(v, S)
    BY Zenon DEF ScanTypes, Fits, Places, TreeInv
  <2>2. Left(v) \subseteq Range(worker[v].rest)
    <3>1. CASE worker[v].pc = "count"
      <4>1. worker[v].rest # <<>>
        BY <2>1, <3>1, Zenon DEF Fits
      <4> QED
        BY <2>1, <3>1, <4>1, TailFacts DEF Left
    <3> QED
      BY <3>1 DEF Left
  <2>3. CASE worker[v].pc \in Reading
    BY <2>1, <2>2, <2>3, Zenon DEF Stands, Where, Reading, Busy
  <2>4. CASE worker[v].pc \notin Reading
    BY <2>1, <2>2, <2>4, EmptyFacts, Zenon DEF Stands
  <2> QED
    BY <2>2, <2>3, <2>4, Zenon
<1>2. Left(w) \subseteq Found(S)
  BY <1>1 DEF Found
<1>3. ASSUME NEW v \in Workers, v # w, NEW x \in Left(v) \cap Left(w) PROVE FALSE
  <2>1. /\ v \in Where(Busy) /\ w \in Where(Busy)
        /\ worker[v].dir \in Dirs /\ worker[w].dir \in Dirs
        /\ x \in Range(Entries[worker[v].dir]) /\ x \in Range(Entries[worker[w].dir])
    BY <1>1, <1>3, Zenon
  <2>2. worker[v].dir # worker[w].dir
    BY <1>3, <2>1, Zenon DEF TreeInv
  <2> QED
    BY <2>1, <2>2, TreeAssumption, Zenon
<1> QED
  BY <1>1, <1>2, <1>3, Zenon

\* Only worker w moves on.
LEMMA AheadMoves ==
  ASSUME ScanTypes, NEW S \in SUBSET Dirs, TreeInv(S), NEW w \in Workers,
         \A v \in Workers : v # w => worker'[v] = worker[v]
  PROVE  Ahead' = (Ahead \ Left(w)) \cup Left(w)'
<1>1. \A v \in Workers : v # w => Left(v)' = Left(v) /\ Left(v) \cap Left(w) = {}
  BY LeftFacts, Zenon DEF Left
<1>2. Ahead = UNION {Left(v) : v \in Workers} /\ Ahead' = UNION {Left(v)' : v \in Workers}
  BY DEF Ahead
<1>3. ASSUME NEW x \in Ahead' PROVE x \in (Ahead \ Left(w)) \cup Left(w)'
  BY <1>1, <1>2, <1>3
<1>4. ASSUME NEW x \in (Ahead \ Left(w)) \cup Left(w)' PROVE x \in Ahead'
  BY <1>1, <1>2, <1>4
<1> QED
  BY <1>3, <1>4

\* A worker that goes on in its directory, or leaves it, has come past what it
\* does not have left any more.
LEMMA PastMoves ==
  ASSUME ScanTypes, NEW S \in SUBSET Dirs, TreeInv(S), NEW w \in Workers,
         \A v \in Workers : v # w => worker'[v] = worker[v],
         Left(w)' \subseteq Left(w)
  PROVE  Past(S)' = Past(S) \cup (Left(w) \ Left(w)')
<1>1. Ahead' = (Ahead \ Left(w)) \cup Left(w)'
  BY AheadMoves, Zenon
<1>2. Left(w) \subseteq Found(S) /\ Found(S)' = Found(S) /\ Left(w) \subseteq Ahead
  BY LeftFacts DEF Found, Ahead
<1> QED
  BY <1>1, <1>2, Zenon DEF Past

\* A worker goes on in its directory, or gives it up.
Stays(w, S) ==
  /\ \A v \in Workers : v # w => worker'[v] = worker[v]
  /\ Stands(w, S)' /\ Left(w)' \subseteq Left(w)
  /\ worker'[w].pc \in Busy => worker[w].pc \in Busy /\ worker'[w].dir = worker[w].dir
  /\ worker'[w].pc \in Queued => worker[w].pc \in Queued
  /\ UNCHANGED trigger

\* Then every directory stays in its one place.
LEMMA StaysKeeps ==
  ASSUME ScanTypes, NEW S \in SUBSET Dirs, TreeInv(S), NEW w \in Workers, Stays(w, S),
         UNCHANGED dirChan
  PROVE  TreeInv(S)'
<1>1. /\ Where(Busy)' \subseteq Where(Busy) /\ Where(Queued)' \subseteq Where(Queued)
      /\ \A v \in Where(Busy)' : worker'[v].dir = worker[v].dir
  BY Zenon DEF Where, Stays
<1>2. QueuedDirs' \subseteq QueuedDirs
  <2>1. Where(Queued)' \subseteq Where(Busy)'
    BY DEF Where, Queued, Busy
  <2> QED
    BY <1>1, <2>1, Zenon DEF QueuedDirs
<1>3. \A v \in Workers : Stands(v, S)'
  BY Zenon DEF TreeInv, Stands, Stays
<1>4. Known(S) \subseteq Known(S)'
  BY PastMoves DEF Known, Started, Stays
<1> QED
  BY <1>1, <1>2, <1>3, <1>4, Zenon DEF TreeInv

\* A directory that was not in any place is put in dirChan, as it becomes known.
LEMMA PutKeeps ==
  ASSUME ScanTypes, NEW S \in SUBSET Dirs, TreeInv(S), NEW d \in Dirs,
         dirChan' = Append(dirChan, d), d \notin Known(S), d \in Known(S)',
         Known(S) \subseteq Known(S)',
         \A v \in Workers : Stands(v, S)',
         \A v \in Workers : worker'[v].pc \in Busy => worker[v].pc \in Busy /\ worker'[v].dir = worker[v].dir,
         \A v \in Workers : worker'[v].pc \in Queued => worker[v].pc \in Queued,
         \A v \in Workers : worker[v].pc \in Busy => worker[v].dir \in S \cup QueuedDirs
  PROVE  TreeInv(S)'
<1>1. /\ Range(dirChan') = Range(dirChan) \cup {d}
      /\ IsInjective(dirChan) /\ d \notin Range(dirChan) => IsInjective(dirChan')
  BY AppendFacts DEF ScanTypes
<1>2. d \notin S /\ d \notin Range(dirChan) /\ d \notin QueuedDirs
  BY Zenon DEF TreeInv
<1>3. /\ Where(Busy)' \subseteq Where(Busy) /\ Where(Queued)' \subseteq Where(Queued)
      /\ \A v \in Where(Busy)' : worker'[v].dir = worker[v].dir
  BY Zenon DEF Where
<1>4. QueuedDirs' \subseteq QueuedDirs
  <2>1. Where(Queued)' \subseteq Where(Busy)'
    BY Zenon DEF Where, Queued, Busy
  <2> QED
    BY <1>3, <2>1, Zenon DEF QueuedDirs
<1>5. \A v \in Where(Busy)' : worker'[v].dir \notin Range(dirChan')
  <2> TAKE v \in Where(Busy)'
  <2>1. worker'[v].dir = worker[v].dir /\ worker[v].dir # d /\ worker[v].dir \notin Range(dirChan)
    BY <1>2, <1>3, Zenon DEF TreeInv, Where
  <2> QED
    BY <1>1, <2>1, Zenon
<1> QED
  <2>1. \A u, v \in Where(Busy)' : u # v => worker'[u].dir # worker'[v].dir
    BY <1>3, Zenon DEF TreeInv
  <2>2. IsInjective(dirChan') /\ Range(dirChan') \cap S = {} /\ QueuedDirs' \cap S = {}
    BY <1>1, <1>2, <1>4, Zenon DEF TreeInv
  <2>3. S \cup Range(dirChan') \cup QueuedDirs' \subseteq Known(S)'
    BY <1>1, <1>4, Zenon DEF TreeInv
  <2> QED
    BY <1>5, <2>1, <2>2, <2>3, Zenon DEF TreeInv

\* A busy worker's directory was read, or waits with it.
LEMMA BusyFacts ==
  ASSUME NEW S, TreeInv(S), NEW w \in Workers, worker[w].pc \in Busy
  PROVE  worker[w].dir \in S \cup QueuedDirs
BY Zenon DEF TreeInv, Stands, QueuedDirs, Where, Busy, Reading, Queued

\* The first worker in the select takes a directory out of dirChan.
LEMMA TakeDirTree ==
  ASSUME ScanTypes, NEW S \in SUBSET Dirs, TreeInv(S), NEW w \in Workers, TakeDir(w)
  PROVE  /\ TreeInv(S)' /\ Past(S)' = Past(S)
         /\ Range(dirChan') \cup QueuedDirs' = Range(dirChan) \cup QueuedDirs
<1>1. /\ Head(dirChan) \in Dirs /\ Range(dirChan) = {Head(dirChan)} \cup Range(dirChan')
      /\ IsInjective(dirChan') /\ Head(dirChan) \notin Range(dirChan')
  BY TailFacts, Zenon DEF TakeDir, ScanTypes, TreeInv
<1>2. /\ worker'[w] = [pc |-> "throttle", dir |-> Head(dirChan), rest |-> <<>>]
      /\ \A v \in Workers : v # w => worker'[v] = worker[v]
      /\ worker[w].pc = "select" /\ UNCHANGED trigger
  BY Zenon DEF TakeDir, ScanTypes, At, WorkerKeeps
<1>3. worker[w].rest = <<>>
  BY <1>2, Zenon DEF TreeInv, Stands, Reading
<1>4. Left(w) = {} /\ Left(w)' = {}
  BY <1>2, <1>3, EmptyFacts DEF Left
<1>5. Past(S)' = Past(S)
  BY <1>2, <1>4, PastMoves, Zenon
<1>6. /\ Where(Busy)' = Where(Busy) \cup {w} /\ Where(Queued)' = Where(Queued) \cup {w}
      /\ w \notin Where(Busy)
  BY <1>2 DEF Where, Busy, Queued
<1>7. QueuedDirs' = QueuedDirs \cup {Head(dirChan)}
  <2>1. w \notin Where(Queued)
    BY <1>2, Zenon DEF Where, Queued
  <2> QED
    BY <1>2, <1>6, <2>1 DEF QueuedDirs, Where
<1>8. \A v \in Workers : Stands(v, S)'
  <2>1. Stands(w, S)'
    BY <1>2 DEF Stands, Reading
  <2>2. \A v \in Workers : v # w => Stands(v, S)'
    BY <1>2, Zenon DEF TreeInv, Stands
  <2> QED
    BY <2>1, <2>2, Zenon
<1>9. Known(S)' = Known(S)
  BY <1>2, <1>5, Zenon DEF Known, Started
<1>10. \A v \in Where(Busy) : worker'[v] = worker[v]
  BY <1>2, <1>6, Zenon DEF Where
<1>11. \A u, v \in Where(Busy)' : u # v => worker'[u].dir # worker'[v].dir
  BY <1>1, <1>2, <1>6, <1>10 DEF TreeInv
<1>12. \A v \in Where(Busy)' : worker'[v].dir \notin Range(dirChan')
  BY <1>1, <1>2, <1>6, <1>10 DEF TreeInv
<1>13. IsInjective(dirChan') /\ Range(dirChan') \cap S = {} /\ QueuedDirs' \cap S = {}
  BY <1>1, <1>7, Zenon DEF TreeInv
<1>14. Range(dirChan') \cup QueuedDirs' = Range(dirChan) \cup QueuedDirs
  BY <1>1, <1>7, Zenon
<1>15. S \cup Range(dirChan') \cup QueuedDirs' \subseteq Known(S)'
  BY <1>9, <1>14, Zenon DEF TreeInv
<1> QED
  BY <1>5, <1>8, <1>11, <1>12, <1>13, <1>14, <1>15, Zenon DEF TreeInv

\* T is the set of directories read once w has read its own.
ReadToo(w, S, T) == T = S \cup {worker[w].dir}

\* A directory is read: it is one more of S, and its entries are ahead.
LEMMA ReadDirTree ==
  ASSUME ScanTypes, NEW S \in SUBSET Dirs, TreeInv(S), NEW w \in Workers, ReadDir(w, TRUE),
         NEW T \in SUBSET Dirs, ReadToo(w, S, T)
  PROVE  /\ worker[w].dir \in Dirs \ S /\ TreeInv(T)' /\ Past(T)' = Past(S)
         /\ S \cup QueuedDirs \subseteq T \cup QueuedDirs'
<1>0. PICK d : d = worker[w].dir /\ T = S \cup {d}
  BY DEF ReadToo
<1>1. /\ worker[w].pc = "readdir" /\ d \in Dirs /\ UNCHANGED <<trigger, dirChan>>
      /\ worker'[w] = [pc |-> "entries", dir |-> d, rest |-> Entries[d]]
      /\ \A v \in Workers : v # w => worker'[v] = worker[v]
  BY <1>0, Zenon DEF ReadDir, At, ScanTypes, Fits, Busy, WorkerKeeps
<1>2. w \in Where(Queued) /\ w \in Where(Busy) /\ d \in QueuedDirs /\ d \notin S /\ worker[w].rest = <<>>
  BY <1>0, <1>1, Zenon DEF Where, Queued, Busy, QueuedDirs, TreeInv, Stands, Reading
<1>3. /\ Where(Busy)' = Where(Busy) /\ Where(Queued)' = Where(Queued) \ {w}
  BY <1>1 DEF Where, Busy, Queued
<1>4. Left(w) = {} /\ Left(w)' = Range(Entries[d])
  <2>1. Left(w) = {}
    BY <1>1, <1>2, EmptyFacts, Zenon DEF Left
  <2>2. worker'[w].pc # "count" /\ worker'[w].rest = Entries[d]
    BY <1>1
  <2> QED
    BY <2>1, <2>2, Zenon DEF Left
<1>5. Ahead' = Ahead \cup Range(Entries[d]) /\ Ahead \subseteq Found(S)
  <2>1. Ahead' = Ahead \cup Range(Entries[d])
    BY <1>1, <1>4, AheadMoves, Zenon
  <2>2. \A v \in Workers : Left(v) \subseteq Found(S)
    BY LeftFacts, Zenon
  <2> QED
    BY <2>1, <2>2, Zenon DEF Ahead
<1>6. /\ Found(T)' = Found(S) \cup Range(Entries[d])
      /\ Found(S) \cap Range(Entries[d]) = {}
  <2>1. Found(T)' = Found(S) \cup Range(Entries[d])
    BY <1>0 DEF Found
  <2>2. \A e \in S : Range(Entries[e]) \cap Range(Entries[d]) = {}
    BY <1>1, <1>2, TreeAssumption, Zenon
  <2> QED
    BY <2>1, <2>2 DEF Found
<1>7. Past(T)' = Past(S)
  BY <1>5, <1>6 DEF Past
<1>8. QueuedDirs = QueuedDirs' \cup {d} /\ d \notin QueuedDirs'
  <2>1. \A v \in Where(Queued) : v # w => worker'[v] = worker[v] /\ worker[v].dir # d
    <3>1. Where(Queued) \subseteq Where(Busy) /\ Where(Queued) \subseteq Workers
      BY Zenon DEF Where, Queued, Busy
    <3> QED
      BY <1>0, <1>1, <1>2, <3>1, Zenon DEF TreeInv
  <2>2. \A v \in Where(Queued)' : v \in Where(Queued) /\ v # w
    BY <1>3, Zenon
  <2>3. d \notin QueuedDirs' /\ QueuedDirs' \subseteq QueuedDirs
    BY <2>1, <2>2, Zenon DEF QueuedDirs
  <2>4. \A v \in Where(Queued) : worker[v].dir = d \/ (v \in Where(Queued)' /\ worker'[v] = worker[v])
    BY <1>0, <1>3, <2>1, Zenon
  <2>5. QueuedDirs \subseteq QueuedDirs' \cup {d}
    BY <2>4, Zenon DEF QueuedDirs
  <2> QED
    BY <1>2, <2>3, <2>5, Zenon
<1>9. Known(T)' = Known(S)
  BY <1>1, <1>7, Zenon DEF Known, Started
<1>10. d \in Tree
  <2>1. d \in Known(S)
    BY <1>2, Zenon DEF TreeInv
  <2>2. Started \subseteq Tree
    BY TreeFacts DEF Started
  <2>3. ASSUME NEW e \in S, d \in Range(Entries[e]) PROVE d \in Tree
    <3>1. e \in Tree
      BY Zenon DEF TreeInv
    <3> QED
      BY <1>1, <2>3, <3>1, TreeFacts, Zenon DEF IsClosed
  <2> QED
    BY <2>1, <2>2, <2>3, Zenon DEF Known, Past, Found
<1>11. \A v \in Workers : Stands(v, T)'
  <2>1. Stands(w, T)'
    <3>1. /\ worker'[w].pc = "entries" /\ worker'[w].dir = d /\ worker'[w].rest = Entries[d]
          /\ d \in T /\ IsInjective(Entries[d])
      <4>1. worker'[w].pc = "entries" /\ worker'[w].dir = d /\ worker'[w].rest = Entries[d]
        BY <1>1
      <4>2. IsInjective(Entries[d])
        BY <1>1, TreeAssumption, Zenon
      <4> QED
        BY <1>0, <4>1, <4>2, Zenon
    <3> QED
      BY <3>1, Zenon DEF Stands, Reading
  <2>2. \A v \in Workers : v # w => Stands(v, T)'
    BY <1>0, <1>1, Zenon DEF TreeInv, Stands
  <2> QED
    BY <2>1, <2>2
<1>12. \A v \in Where(Busy) : worker'[v].dir = worker[v].dir
  BY <1>0, <1>1 DEF Where
<1>13. d \notin Range(dirChan)
  BY <1>0, <1>2, Zenon DEF TreeInv
<1>14. TreeInv(T)'
  <2>1. T \subseteq Tree
    BY <1>0, <1>10, Zenon DEF TreeInv
  <2>2. /\ \A v, u \in Where(Busy)' : v # u => worker'[v].dir # worker'[u].dir
        /\ \A v \in Where(Busy)' : worker'[v].dir \notin Range(dirChan')
    <3>1. /\ \A v, u \in Where(Busy) : v # u => worker[v].dir # worker[u].dir
          /\ \A v \in Where(Busy) : worker[v].dir \notin Range(dirChan)
      BY Zenon DEF TreeInv
    <3>2. \A v, u \in Where(Busy)' : v # u => worker'[v].dir # worker'[u].dir
      BY <1>3, <1>12, <3>1, Zenon
    <3>3. dirChan' = dirChan
      BY <1>1, Zenon
    <3>4. \A v \in Where(Busy)' : worker'[v].dir \notin Range(dirChan')
      BY <1>3, <1>12, <3>1, <3>3, Zenon
    <3> QED
      BY <3>2, <3>4, Zenon
  <2>3. /\ IsInjective(dirChan') /\ Range(dirChan') \cap T = {}
        /\ QueuedDirs' \cap T = {}
    BY <1>0, <1>1, <1>8, <1>13, Zenon DEF TreeInv
  <2>4. T \cup Range(dirChan') \cup QueuedDirs' \subseteq Known(T)'
    <3>1. S \cup Range(dirChan) \cup QueuedDirs \subseteq Known(T)'
      BY <1>9, Zenon DEF TreeInv
    <3> QED
      BY <1>0, <1>1, <1>2, <1>8, <3>1, Zenon
  <2> QED
    BY <1>11, <2>1, <2>2, <2>3, <2>4, Zenon DEF TreeInv
<1> QED
  BY <1>0, <1>1, <1>2, <1>7, <1>8, <1>14, Zenon
=============================================================================
