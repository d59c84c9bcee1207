------------------------- MODULE FileScanWalkProofs -------------------------
(***************************************************************************)
(* Proofs about what the scanner finds, for any tree, any number of        *)
(* workers and any buffers: when scanWG is back at zero the whole tree was *)
(* walked, and a file found is in one place from then on.                  *)
(***************************************************************************)
EXTENDS FileScanProofs

-----------------------------------------------------------------------------
(* What a step of a worker does to the files and to the counters.          *)
\* Most steps touch neither the files nor their counter.
Light(w, pc) ==
  /\ Moved(w, pc) /\ worker[w].pc # "count" /\ pc # "count"
  /\ UNCHANGED <<fileChan, senderVars, lost>>
  /\ stats' \in [{"FilesFound", "DirsScanned", "ErrorCount", "SkippedItem"} -> Nat]
  /\ stats'.FilesFound = stats.FilesFound

\* Then the files stay where they are.
LEMMA LightKeeps ==
  ASSUME SenderInv, CountInv, NEW S, FileInv(S), NEW T, Past(S) \subseteq Past(T)',
         NEW w \in Workers, NEW pc, Light(w, pc)
  PROVE  SenderInv' /\ CountInv' /\ FileInv(T)'
<1>1. InFlight' = InFlight /\ lost' = lost
  BY DEF Light, InFlight, senderVars
<1>2. SenderInv' /\ FileInv(T)'
  BY <1>1 DEF SenderInv, FileInv, Light, senderVars
<1>3. Cardinality(Where({"count"}))' = Cardinality(Where({"count"}))
  <2>1. /\ Cardinality(Where({"count"})) \in Nat
        /\ Cardinality(Where({"count"}))' =
             Cardinality(Where({"count"})) - One(worker[w].pc \in {"count"}) + One(pc \in {"count"})
    BY WhereMoves DEF Light
  <2>2. One(worker[w].pc \in {"count"}) = 0 /\ One(pc \in {"count"}) = 0
    BY DEF One, Light
  <2> QED
    BY <2>1, <2>2
<1>4. CountInv'
  BY <1>1, <1>3 DEF CountInv, Light
<1> QED
  BY <1>2, <1>4

\* The walk goes on, and nothing is left out: only files that need not be
\* reported are passed by.
LEMMA DoneMoves ==
  ASSUME NEW S, NEW T, DoneInv(S),
         Past(S) \subseteq Past(T)', Past(T)' \ Past(S) \subseteq Files \ Authorized,
         Started' = Started,
         S \cup Range(dirChan) \cup QueuedDirs \subseteq T \cup Range(dirChan') \cup QueuedDirs',
         ctxDone' = ctxDone, failures \subseteq failures',
         Range(InFlight) \cup lost \subseteq Range(InFlight') \cup lost',
         stats'.DirsScanned = Cardinality(T), stats'.SkippedItem = stats.SkippedItem
  PROVE  DoneInv(T)'
<1>1. /\ Past(T)' \cap Dirs = Past(S) \cap Dirs
      /\ Past(T)' \cap Authorized = Past(S) \cap Authorized
      /\ Past(T)' \cap Specials = Past(S) \cap Specials
  BY FileScanAssumption
<1>2. ASSUME ~ctxDone', failures' \subseteq {"stream"}
      PROVE  /\ Started' \cup (Past(T)' \cap Dirs) \subseteq T \cup Range(dirChan') \cup QueuedDirs'
             /\ Past(T)' \cap Authorized \subseteq Range(InFlight') \cup lost'
             /\ IsFiniteSet(Past(T)' \cap Specials)
             /\ stats'.SkippedItem = Cardinality(Past(T)' \cap Specials)
  BY <1>1, <1>2, Zenon DEF DoneInv
<1> QED
  BY <1>2 DEF DoneInv

\* A directory was given up: only the count of directories is promised.
LEMMA DoneGivenUp ==
  ASSUME NEW S, DoneInv(S), stats'.DirsScanned = stats.DirsScanned,
         ctxDone' \/ ~(failures' \subseteq {"stream"})
  PROVE  DoneInv(S)'
BY DEF DoneInv

-----------------------------------------------------------------------------
(* The steps of a worker and the walk.                                     *)
\* A worker takes a directory.
LEMMA TakeDirWalks ==
  ASSUME IInv, WInv, NEW w \in Workers, TakeDir(w)
  PROVE  WInv'
<1>1. PICK S \in SUBSET Dirs : WalkInv(S)
  BY DEF WInv
<1>2. /\ TreeInv(S)' /\ Past(S)' = Past(S)
      /\ Range(dirChan') \cup QueuedDirs' = Range(dirChan) \cup QueuedDirs
  BY <1>1, TakeDirTree DEF IInv, WalkInv
<1>3. Light(w, "throttle")
  <2>1. PICK p : p = [pc |-> "throttle", dir |-> Head(dirChan), rest |-> <<>>]
    BY Zenon
  <2>2. Head(dirChan) \in Dirs /\ <<>> \in Seq(All)
    BY DEF IInv, ScanTypes, TakeDir
  <2>3. Fits(p) /\ p.pc = "throttle"
    BY <2>1, <2>2 DEF Fits, Places, Running, Busy
  <2>4. Moved(w, "throttle")
    BY <2>1, <2>3, Goes, Zenon DEF TakeDir, IInv
  <2> QED
    BY <2>4 DEF Light, TakeDir, At, WorkerKeeps, WInv, CountInv
<1>4. SenderInv' /\ CountInv' /\ FileInv(S)'
  BY <1>1, <1>2, <1>3, LightKeeps DEF WInv, WalkInv
<1>5. DoneInv(S)'
  <2>1. Started' = Started /\ InFlight' = InFlight
    BY DEF TakeDir, WorkerKeeps, Started, InFlight, senderVars
  <2> QED
    BY <1>1, <1>2, <2>1, DoneMoves, Zenon DEF WalkInv, TakeDir, WorkerKeeps, DoneInv
<1> QED
  BY <1>2, <1>4, <1>5 DEF WInv, WalkInv

\* A directory is read.
LEMMA ReadDirWalks ==
  ASSUME IInv, WInv, NEW w \in Workers, ReadDir(w, TRUE)
  PROVE  WInv'
<1>1. PICK S \in SUBSET Dirs : WalkInv(S)
  BY DEF WInv
<1>2. PICK T \in SUBSET Dirs : ReadToo(w, S, T)
  BY <1>1, Zenon DEF ReadToo, ReadDir, At, IInv, ScanTypes, Fits, Busy
<1>3. /\ worker[w].dir \in Dirs \ S /\ TreeInv(T)' /\ Past(T)' = Past(S)
      /\ S \cup QueuedDirs \subseteq T \cup QueuedDirs'
  <2>1. ScanTypes /\ TreeInv(S)
    BY <1>1 DEF IInv, WalkInv
  <2> QED
    BY <1>2, <2>1, ReadDirTree, Zenon
<1>4. stats' = [stats EXCEPT !["DirsScanned"] = @ + 1]
  BY DEF ReadDir, Incr
<1>5. Light(w, "entries")
  <2>1. PICK p : p = [pc |-> "entries", dir |-> worker[w].dir, rest |-> Entries[worker[w].dir]]
    BY Zenon
  <2>2. Entries[worker[w].dir] \in Seq(All)
    BY <1>3, FileScanAssumption DEF All
  <2>3. Fits(p) /\ p.pc = "entries"
    BY <1>3, <2>1, <2>2 DEF Fits, Places, Running, Busy
  <2>4. worker' = [worker EXCEPT ![w] = p]
    BY <1>2, <2>1 DEF ReadDir, IInv, ScanTypes
  <2>5. Moved(w, "entries")
    BY <2>3, <2>4, Goes, Zenon DEF IInv
  <2> QED
    BY <1>4, <2>5 DEF Light, ReadDir, At, WorkerKeeps, WInv, CountInv
<1>6. SenderInv' /\ CountInv' /\ FileInv(T)'
  BY <1>1, <1>3, <1>5, LightKeeps DEF WInv, WalkInv
<1>7. stats'.DirsScanned = Cardinality(T) /\ stats'.SkippedItem = stats.SkippedItem
  <2>1. IsFiniteSet(S)
    BY FS_Subset, FileScanAssumption
  <2>2. Cardinality(T) = Cardinality(S) + 1
    BY <1>2, <1>3, <2>1, FS_AddElement, Zenon DEF ReadToo
  <2> QED
    BY <1>1, <1>4, <2>2 DEF WalkInv, DoneInv, WInv, CountInv
<1>8. DoneInv(T)'
  <2>1. Started' = Started /\ InFlight' = InFlight /\ lost' = lost /\ dirChan' = dirChan
    BY DEF ReadDir, WorkerKeeps, Started, InFlight, senderVars
  <2>2. ctxDone' = ctxDone /\ failures' = failures
    BY DEF ReadDir, WorkerKeeps
  <2> QED
    BY <1>1, <1>3, <1>7, <2>1, <2>2, DoneMoves DEF WalkInv
<1> QED
  BY <1>3, <1>6, <1>8 DEF WInv, WalkInv

-----------------------------------------------------------------------------
\* A worker that does not leave the directories it has still to read.
LEMMA QueuedKept ==
  ASSUME NEW w \in Workers, \A v \in Workers : v # w => worker'[v] = worker[v],
         worker[w].pc \in Queued => worker'[w].pc \in Queued /\ worker'[w].dir = worker[w].dir
  PROVE  QueuedDirs \subseteq QueuedDirs'
<1>1. \A v \in Where(Queued) : v \in Where(Queued)' /\ worker'[v].dir = worker[v].dir
  BY DEF Where
<1> QED
  BY <1>1 DEF QueuedDirs

\* A worker that goes on to the next step with the entry at hand.
LEMMA GoesOnTree ==
  ASSUME ScanTypes, NEW S \in SUBSET Dirs, TreeInv(S), NEW w \in Workers, NEW pc, Goto(w, pc),
         UNCHANGED <<trigger, dirChan>>,
         \/ worker[w].pc = "throttle" /\ pc = "readdir"
         \/ worker[w].pc = "entries" /\ pc = "push"
         \/ worker[w].pc = "entries" /\ pc = "emit" /\ Entry(w) \in Authorized
  PROVE  TreeInv(S)' /\ Past(S)' = Past(S) /\ QueuedDirs \subseteq QueuedDirs'
<1>1. /\ worker'[w].pc = pc /\ worker'[w].dir = worker[w].dir /\ worker'[w].rest = worker[w].rest
      /\ \A v \in Workers : v # w => worker'[v] = worker[v]
  BY DEF Goto, ScanTypes, Fits, Places
<1>2. Stands(w, S)
  BY DEF TreeInv
<1>3. Stands(w, S)'
  BY <1>1, <1>2, Zenon DEF Stands, Reading, Entry
<1>4. Left(w)' = Left(w)
  BY <1>1 DEF Left
<1>5. Stays(w, S)
  BY <1>1, <1>3, <1>4 DEF Stays, Busy, Queued
<1>6. Past(S)' = Past(S)
  BY <1>1, <1>4, PastMoves
<1>7. QueuedDirs \subseteq QueuedDirs'
  BY <1>1, QueuedKept DEF Queued
<1> QED
  BY <1>5, <1>6, <1>7, StaysKeeps

\* A worker that is done with its directory, at its end or before.
LEMMA GivesUpTree ==
  ASSUME ScanTypes, NEW S \in SUBSET Dirs, TreeInv(S), NEW w \in Workers, NEW p \in {Idle, Returned},
         worker' = [worker EXCEPT ![w] = p], UNCHANGED <<trigger, dirChan>>
  PROVE  TreeInv(S)' /\ Past(S)' = Past(S) \cup Left(w)
<1>1. /\ worker'[w].pc \notin Busy \cup Queued \cup Reading /\ worker'[w].rest = <<>>
      /\ worker'[w].pc \notin {"emit", "count"}
      /\ \A v \in Workers : v # w => worker'[v] = worker[v]
  BY DEF ScanTypes, Idle, Returned, Busy, Queued, Reading
<1>2. Stands(w, S)'
  BY <1>1 DEF Stands
<1>3. Left(w)' = {}
  BY <1>1, EmptyFacts DEF Left
<1>4. Stays(w, S)
  BY <1>1, <1>2, <1>3 DEF Stays
<1>5. Past(S)' = Past(S) \cup Left(w)
  <2>1. Past(S)' = Past(S) \cup (Left(w) \ Left(w)')
    BY <1>1, <1>3, PastMoves
  <2> QED
    BY <1>3, <2>1
<1> QED
  BY <1>4, <1>5, StaysKeeps

\* A worker that goes on to the next entry: it has come to the one at hand.
LEMMA SkipsPast ==
  ASSUME ScanTypes, NEW S \in SUBSET Dirs, TreeInv(S), NEW w \in Workers, Skip(w),
         worker[w].pc \in Reading, worker[w].rest # <<>>, UNCHANGED trigger
  PROVE  /\ Stays(w, S) /\ QueuedDirs \subseteq QueuedDirs'
         /\ worker[w].pc = "count" => Past(S)' = Past(S)
         /\ worker[w].pc # "count" => /\ Entry(w) \in Left(w) /\ Entry(w) \notin Past(S)
                                      /\ Past(S)' = Past(S) \cup {Entry(w)}
<1>1. /\ worker'[w].pc = "entries" /\ worker'[w].dir = worker[w].dir
      /\ worker'[w].rest = Tail(worker[w].rest)
      /\ \A v \in Workers : v # w => worker'[v] = worker[v]
  BY DEF Skip, ScanTypes
<1>2. Stands(w, S) /\ worker[w].rest \in Seq(All)
  BY DEF TreeInv, ScanTypes, Fits, Places
<1>3. IsInjective(worker[w].rest)
  BY <1>2 DEF Stands
<1>4. /\ Range(worker[w].rest) = {Entry(w)} \cup Range(Tail(worker[w].rest))
      /\ Entry(w) \notin Range(Tail(worker[w].rest)) /\ IsInjective(Tail(worker[w].rest))
  BY <1>2, <1>3, TailFacts DEF Entry
<1>5. Stands(w, S)'
  BY <1>1, <1>2, <1>4, Zenon DEF Stands, Reading
<1>6. Left(w)' = Range(Tail(worker[w].rest))
  BY <1>1 DEF Left
<1>7. /\ worker[w].pc = "count" => Left(w)' = Left(w)
      /\ worker[w].pc # "count" => Left(w) = Left(w)' \cup {Entry(w)} /\ Entry(w) \notin Left(w)'
  BY <1>4, <1>6 DEF Left
<1>8. Left(w)' \subseteq Left(w)
  BY <1>7
<1>9. Stays(w, S)
  BY <1>1, <1>5, <1>8 DEF Stays, Busy, Queued, Reading
<1>10. Past(S)' = Past(S) \cup (Left(w) \ Left(w)')
  BY <1>1, <1>8, PastMoves
<1>11. Left(w) \cap Past(S) = {}
  BY DEF Past, Ahead
<1>12. QueuedDirs \subseteq QueuedDirs'
  BY <1>1, QueuedKept DEF Queued, Reading
<1> QED
  BY <1>7, <1>9, <1>10, <1>11, <1>12

-----------------------------------------------------------------------------
\* A worker that goes on with the entry at hand leaves the files alone.
LEMMA GoesOnWalks ==
  ASSUME IInv, WInv, NEW w \in Workers, NEW pc \in Running, Goto(w, pc), Fits([worker[w] EXCEPT !.pc = pc]),
         UNCHANGED <<ctxDone, trigger, dirChan, fileChan, senderVars, lost, stats, failures>>,
         \/ worker[w].pc = "throttle" /\ pc = "readdir"
         \/ worker[w].pc = "entries" /\ pc = "push"
         \/ worker[w].pc = "entries" /\ pc = "emit" /\ Entry(w) \in Authorized
  PROVE  WInv'
<1>1. PICK S \in SUBSET Dirs : WalkInv(S)
  BY DEF WInv
<1>2. TreeInv(S)' /\ Past(S)' = Past(S) /\ QueuedDirs \subseteq QueuedDirs'
  BY <1>1, GoesOnTree DEF IInv, WalkInv
<1>3. Light(w, pc)
  <2>1. Moved(w, pc)
    BY GotoFacts DEF IInv
  <2> QED
    BY <2>1 DEF Light, WInv, CountInv
<1>4. SenderInv' /\ CountInv' /\ FileInv(S)'
  BY <1>1, <1>2, <1>3, LightKeeps DEF WInv, WalkInv
<1>5. DoneInv(S)'
  <2>1. Started' = Started /\ InFlight' = InFlight
    BY DEF Started, InFlight, senderVars
  <2> QED
    BY <1>1, <1>2, <2>1, DoneMoves DEF WalkInv, DoneInv
<1> QED
  BY <1>2, <1>4, <1>5 DEF WInv, WalkInv

\* throttle lets the worker go on.
LEMMA ThrottleWalks ==
  ASSUME IInv, WInv, NEW w \in Workers, Throttle(w)
  PROVE  WInv'
<1>1. worker[w].pc = "throttle" /\ Fits(worker[w])
  BY DEF IInv, ScanTypes, Throttle, At
<1>2. Fits([worker[w] EXCEPT !.pc = "readdir"]) /\ "readdir" \in Running
  BY <1>1 DEF Fits, Places, Running, Busy
<1>3. Goto(w, "readdir") /\ UNCHANGED <<ctxDone, trigger, dirChan, fileChan, senderVars, lost, stats, failures>>
  BY DEF Throttle, WorkerKeeps
<1> QED
  BY <1>1, <1>2, <1>3, GoesOnWalks

\* A worker drops its directory because the context ended, because it could
\* not be read, or in a panic.
LEMMA GivesUpWalks ==
  ASSUME IInv, WInv, NEW w \in Workers,
         \/ WorkerEnds(w) \/ ThrottleEnds(w) \/ PushEnds(w) \/ PushPanics(w)
         \/ ReadDir(w, FALSE) \/ WorkerPanics(w)
  PROVE  WInv'
<1>1. PICK S \in SUBSET Dirs : WalkInv(S)
  BY DEF WInv
<1>2. PICK p \in {Idle, Returned} : worker' = [worker EXCEPT ![w] = p]
  BY DEF WorkerEnds, ThrottleEnds, PushEnds, PushPanics, ReadDir, WorkerPanics, Return
<1>3. UNCHANGED <<ctxDone, trigger, dirChan, fileChan, senderVars, lost>>
  BY Zenon DEF WorkerEnds, ThrottleEnds, PushEnds, PushPanics, ReadDir, WorkerPanics, WorkerKeeps
<1>4. worker[w].pc # "count"
  BY DEF WorkerEnds, ThrottleEnds, PushEnds, PushPanics, ReadDir, WorkerPanics, At
<1>5. ctxDone' \/ ~(failures' \subseteq {"stream"})
  BY <1>3 DEF WorkerEnds, ThrottleEnds, PushEnds, PushPanics, ReadDir, WorkerPanics, Fail, IInv, MainInv
<1>6. /\ stats' \in [{"FilesFound", "DirsScanned", "ErrorCount", "SkippedItem"} -> Nat]
      /\ stats'.FilesFound = stats.FilesFound /\ stats'.DirsScanned = stats.DirsScanned
  BY DEF WorkerEnds, ThrottleEnds, PushEnds, PushPanics, ReadDir, WorkerPanics, Incr, WInv, CountInv
<1>7. TreeInv(S)' /\ Past(S)' = Past(S) \cup Left(w)
  BY <1>1, <1>2, <1>3, GivesUpTree, Zenon DEF IInv, WalkInv
<1>8. Light(w, p.pc)
  <2>1. Fits(p) /\ p.pc # "count"
    BY <1>2, IdleFacts
  <2>2. Moved(w, p.pc)
    BY <1>2, <2>1, Goes, Zenon DEF IInv
  <2> QED
    BY <1>3, <1>4, <1>6, <2>1, <2>2, Zenon DEF Light
<1>9. SenderInv' /\ CountInv' /\ FileInv(S)'
  BY <1>1, <1>7, <1>8, LightKeeps DEF WInv, WalkInv
<1>10. DoneInv(S)'
  BY <1>1, <1>5, <1>6, DoneGivenUp DEF WalkInv
<1> QED
  BY <1>7, <1>9, <1>10 DEF WInv, WalkInv

\* A worker has come to the end of its directory.
LEMMA EndDirectoryWalks ==
  ASSUME IInv, WInv, NEW w \in Workers, EndDirectory(w)
  PROVE  WInv'
<1>1. PICK S \in SUBSET Dirs : WalkInv(S)
  BY DEF WInv
<1>2. /\ worker' = [worker EXCEPT ![w] = Idle] /\ worker[w].pc = "entries" /\ Left(w) = {}
      /\ UNCHANGED <<ctxDone, trigger, dirChan, fileChan, senderVars, lost, stats, failures>>
  BY EmptyFacts DEF EndDirectory, WorkerKeeps, At, Left
<1>3. TreeInv(S)' /\ Past(S)' = Past(S)
  <2>1. TreeInv(S)' /\ Past(S)' = Past(S) \cup Left(w)
    BY <1>1, <1>2, GivesUpTree, Zenon DEF IInv, WalkInv
  <2> QED
    BY <1>2, <2>1
<1>4. Moved(w, "select")
  BY <1>2, IdleFacts, Goes, Zenon DEF IInv
<1>5. Light(w, "select")
  BY <1>2, <1>4 DEF Light, WInv, CountInv
<1>6. SenderInv' /\ CountInv' /\ FileInv(S)'
  BY <1>1, <1>3, <1>5, LightKeeps DEF WInv, WalkInv
<1>7. QueuedDirs \subseteq QueuedDirs'
  BY <1>2, <1>4, QueuedKept DEF Moved, Queued
<1>8. DoneInv(S)'
  <2>1. Started' = Started /\ InFlight' = InFlight
    BY <1>2 DEF Started, InFlight, senderVars
  <2> QED
    BY <1>1, <1>2, <1>3, <1>7, <2>1, DoneMoves DEF WalkInv, DoneInv
<1> QED
  BY <1>3, <1>6, <1>8 DEF WInv, WalkInv
\* A worker that passes by an entry, and puts it nowhere.
LEMMA SkipsTree ==
  ASSUME IInv, SenderInv, CountInv, NEW S \in SUBSET Dirs, WalkInv(S), NEW w \in Workers, Skip(w),
         worker[w].pc \in {"entries", "emit"}, worker[w].rest # <<>>,
         UNCHANGED <<trigger, dirChan, fileChan, senderVars, lost>>,
         stats' \in [{"FilesFound", "DirsScanned", "ErrorCount", "SkippedItem"} -> Nat],
         stats'.FilesFound = stats.FilesFound
  PROVE  /\ TreeInv(S)' /\ QueuedDirs \subseteq QueuedDirs'
         /\ Entry(w) \notin Past(S) /\ Past(S)' = Past(S) \cup {Entry(w)}
         /\ SenderInv' /\ CountInv' /\ FileInv(S)'
<1>1. /\ Stays(w, S) /\ QueuedDirs \subseteq QueuedDirs'
      /\ Entry(w) \notin Past(S) /\ Past(S)' = Past(S) \cup {Entry(w)}
  BY SkipsPast, Zenon DEF IInv, WalkInv, Reading
<1>2. TreeInv(S)'
  BY <1>1, StaysKeeps, Zenon DEF IInv, WalkInv
<1>3. Light(w, "entries")
  <2>1. Moved(w, "entries")
    BY SkipFacts DEF IInv, Busy
  <2> QED
    BY <2>1, Zenon DEF Light
<1>4. SenderInv' /\ CountInv' /\ FileInv(S)'
  <2>1. Past(S) \subseteq Past(S)'
    BY <1>1
  <2> QED
    BY <1>3, <2>1, LightKeeps, Zenon DEF WalkInv
<1> QED
  BY <1>1, <1>2, <1>4, Zenon

\* A file of another type is passed by, a link or a device is counted.
LEMMA SkipEntryWalks ==
  ASSUME IInv, WInv, NEW w \in Workers, NextEntry(w), Skip(w)
  PROVE  WInv'
<1>1. PICK S \in SUBSET Dirs : WalkInv(S)
  BY DEF WInv
<1>2. /\ worker[w].pc = "entries" /\ worker[w].rest # <<>>
      /\ UNCHANGED <<ctxDone, trigger, dirChan, fileChan, senderVars, lost, failures>>
  BY Zenon DEF NextEntry, At, WorkerKeeps
<1>3. worker'[w].pc = "entries"
  BY DEF Skip, IInv, ScanTypes
<1>4. \/ Entry(w) \in Files \ Authorized /\ UNCHANGED stats
      \/ Entry(w) \in Specials /\ Incr("SkippedItem")
  <2>1. ~Goto(w, "push") /\ ~Goto(w, "emit")
    BY <1>3 DEF Goto, IInv, ScanTypes, Fits, Places
  <2> QED
    BY <2>1, Zenon DEF NextEntry
<1>5. /\ stats' \in [{"FilesFound", "DirsScanned", "ErrorCount", "SkippedItem"} -> Nat]
      /\ stats'.FilesFound = stats.FilesFound /\ stats'.DirsScanned = stats.DirsScanned
      /\ Entry(w) \in Specials => stats'.SkippedItem = stats.SkippedItem + 1
      /\ Entry(w) \in Files \ Authorized => stats'.SkippedItem = stats.SkippedItem
  BY <1>4, FileScanAssumption DEF Incr, WInv, CountInv
<1>6. /\ TreeInv(S)' /\ QueuedDirs \subseteq QueuedDirs'
      /\ Entry(w) \notin Past(S) /\ Past(S)' = Past(S) \cup {Entry(w)}
      /\ SenderInv' /\ CountInv' /\ FileInv(S)'
  BY <1>1, <1>2, <1>5, SkipsTree, Zenon DEF WInv
<1>7. DoneInv(S)'
  <2>1. Started' = Started /\ InFlight' = InFlight /\ stats'.DirsScanned = Cardinality(S)
    BY <1>1, <1>2, <1>5, Zenon DEF Started, InFlight, senderVars, WalkInv, DoneInv
  <2>2. CASE Entry(w) \in Files \ Authorized
    BY <1>1, <1>2, <1>5, <1>6, <2>1, <2>2, DoneMoves, Zenon DEF WalkInv
  <2>3. CASE Entry(w) \in Specials
    <3>1. SUFFICES ASSUME ~ctxDone, failures \subseteq {"stream"}
                   PROVE  /\ Started \cup (Past(S)' \cap Dirs) \subseteq S \cup Range(dirChan) \cup QueuedDirs'
                          /\ Past(S)' \cap Authorized \subseteq Range(InFlight) \cup lost
                          /\ IsFiniteSet(Past(S)' \cap Specials)
                          /\ stats'.SkippedItem = Cardinality(Past(S)' \cap Specials)
      BY <1>2, <2>1, Zenon DEF DoneInv
    <3>2. /\ Past(S)' \cap Dirs = Past(S) \cap Dirs /\ Past(S)' \cap Authorized = Past(S) \cap Authorized
          /\ Past(S)' \cap Specials = (Past(S) \cap Specials) \cup {Entry(w)}
      BY <1>6, <2>3, FileScanAssumption DEF Authorized
    <3>3. /\ Started \cup (Past(S) \cap Dirs) \subseteq S \cup Range(dirChan) \cup QueuedDirs
          /\ Past(S) \cap Authorized \subseteq Range(InFlight) \cup lost
          /\ IsFiniteSet(Past(S) \cap Specials) /\ stats.SkippedItem = Cardinality(Past(S) \cap Specials)
      BY <1>1, <3>1, Zenon DEF WalkInv, DoneInv
    <3>4. /\ IsFiniteSet(Past(S)' \cap Specials)
          /\ Cardinality(Past(S)' \cap Specials) = Cardinality(Past(S) \cap Specials) + 1
      <4>1. PICK A : A = Past(S) \cap Specials
        BY Zenon
      <4>2. IsFiniteSet(A) /\ Entry(w) \notin A
        BY <1>6, <3>3, <4>1
      <4>3. IsFiniteSet(A \cup {Entry(w)}) /\ Cardinality(A \cup {Entry(w)}) = Cardinality(A) + 1
        BY <4>2, FS_AddElement
      <4> QED
        BY <3>2, <4>1, <4>3
    <3> QED
      BY <1>5, <1>6, <2>3, <3>2, <3>3, <3>4, Zenon
  <2> QED
    BY <1>4, <2>2, <2>3
<1> QED
  BY <1>6, <1>7 DEF WInv, WalkInv

\* The loop goes on to the next entry.
LEMMA NextEntryWalks ==
  ASSUME IInv, WInv, NEW w \in Workers, NextEntry(w)
  PROVE  WInv'
<1>1. /\ worker[w].pc = "entries" /\ worker[w].rest # <<>> /\ Fits(worker[w])
      /\ UNCHANGED <<ctxDone, trigger, dirChan, fileChan, senderVars, lost, failures>>
  BY Zenon DEF NextEntry, At, WorkerKeeps, IInv, ScanTypes
<1>2. CASE Entry(w) \in Dirs /\ Goto(w, "push") /\ UNCHANGED stats
  <2>1. Fits([worker[w] EXCEPT !.pc = "push"]) /\ "push" \in Running
    BY <1>1, <1>2 DEF Fits, Places, Running, Busy, Entry
  <2> QED
    BY <1>1, <1>2, <2>1, GoesOnWalks
<1>3. CASE Entry(w) \in Authorized /\ Goto(w, "emit") /\ UNCHANGED stats
  <2>1. Fits([worker[w] EXCEPT !.pc = "emit"]) /\ "emit" \in Running
    BY <1>1, <1>3 DEF Fits, Places, Running, Busy
  <2> QED
    BY <1>1, <1>3, <2>1, GoesOnWalks
<1>4. CASE Skip(w)
  BY <1>4, SkipEntryWalks
<1> QED
  BY <1>2, <1>3, <1>4, Zenon DEF NextEntry

\* The context ends before the file could be sent.
LEMMA EmitEndsWalks ==
  ASSUME IInv, WInv, NEW w \in Workers, EmitEnds(w)
  PROVE  WInv'
<1>1. PICK S \in SUBSET Dirs : WalkInv(S)
  BY DEF WInv
<1>2. /\ worker[w].pc = "emit" /\ worker[w].rest # <<>> /\ Skip(w) /\ ctxDone'
      /\ UNCHANGED <<trigger, dirChan, fileChan, senderVars, lost, stats>>
  BY Zenon DEF EmitEnds, At, WorkerKeeps, IInv, ScanTypes, Fits
<1>3. TreeInv(S)' /\ SenderInv' /\ CountInv' /\ FileInv(S)'
  BY <1>1, <1>2, SkipsTree, Zenon DEF WInv, CountInv
<1>4. DoneInv(S)'
  BY <1>1, <1>2, DoneGivenUp DEF WalkInv
<1> QED
  BY <1>3, <1>4 DEF WInv, WalkInv

-----------------------------------------------------------------------------
(* The way of a file.                                                      *)
\* Four sequences that share no element and repeat none.
Apart(a, b, c, d) ==
  /\ IsInjective(a) /\ IsInjective(b) /\ IsInjective(c) /\ IsInjective(d)
  /\ Range(a) \cap Range(b) = {} /\ Range(a) \cap Range(c) = {} /\ Range(a) \cap Range(d) = {}
  /\ Range(b) \cap Range(c) = {} /\ Range(b) \cap Range(d) = {} /\ Range(c) \cap Range(d) = {}

\* What is on the way: in fileChan, with the sender, on the stream, received.
LEMMA FourFacts ==
  ASSUME NEW T, NEW a \in Seq(T), NEW b \in Seq(T), NEW c \in Seq(T), NEW d \in Seq(T)
  PROVE  /\ a \o b \o c \o d \in Seq(T)
         /\ Len(a \o b \o c \o d) = Len(a) + Len(b) + Len(c) + Len(d)
         /\ Range(a \o b \o c \o d) = Range(a) \cup Range(b) \cup Range(c) \cup Range(d)
         /\ IsInjective(a \o b \o c \o d) <=> Apart(a, b, c, d)
<1>1. PICK e \in Seq(T) : e = a \o b
  BY ConcatFacts, Zenon
<1>2. /\ e \in Seq(T) /\ Len(e) = Len(a) + Len(b) /\ Range(e) = Range(a) \cup Range(b)
      /\ IsInjective(e) <=> IsInjective(a) /\ IsInjective(b) /\ Range(a) \cap Range(b) = {}
  BY <1>1, ConcatFacts
<1>3. PICK f \in Seq(T) : f = e \o c
  BY ConcatFacts, Zenon
<1>4. /\ f \in Seq(T) /\ Len(f) = Len(e) + Len(c) /\ Range(f) = Range(e) \cup Range(c)
      /\ IsInjective(f) <=> IsInjective(e) /\ IsInjective(c) /\ Range(e) \cap Range(c) = {}
  BY <1>3, ConcatFacts
<1>5. PICK g \in Seq(T) : g = f \o d
  BY ConcatFacts, Zenon
<1>6. /\ g \in Seq(T) /\ Len(g) = Len(f) + Len(d) /\ Range(g) = Range(f) \cup Range(d)
      /\ IsInjective(g) <=> IsInjective(f) /\ IsInjective(d) /\ Range(f) \cap Range(d) = {}
  BY <1>5, ConcatFacts
<1>7. g = a \o b \o c \o d
  BY <1>1, <1>3, <1>5
<1>8. IsInjective(g) <=> Apart(a, b, c, d)
  <2>1. Range(e) \cap Range(c) = {} <=> Range(a) \cap Range(c) = {} /\ Range(b) \cap Range(c) = {}
    BY <1>2, Zenon
  <2>2. Range(f) = Range(a) \cup Range(b) \cup Range(c)
    BY <1>2, <1>4, Zenon
  <2>3. Range(f) \cap Range(d) = {} <=>
          /\ Range(a) \cap Range(d) = {} /\ Range(b) \cap Range(d) = {}
          /\ Range(c) \cap Range(d) = {}
    BY <2>2, Zenon
  <2> QED
    BY <1>2, <1>4, <1>6, <2>1, <2>3, Zenon DEF Apart
<1> QED
  BY <1>2, <1>4, <1>6, <1>7, <1>8, Zenon

\* The files on their way.
LEMMA InFlightFacts ==
  ASSUME SenderInv
  PROVE  /\ InFlight \in Seq(Files)
         /\ Len(InFlight) = Len(fileChan) + Len(hand) + Len(wire) + Len(received)
         /\ Range(InFlight) = Range(fileChan) \cup Range(hand) \cup Range(wire) \cup Range(received)
         /\ IsInjective(InFlight) <=> Apart(fileChan, hand, wire, received)
BY FourFacts, Zenon DEF SenderInv, InFlight

\* The same after the step.
LEMMA InFlightNext ==
  ASSUME SenderInv'
  PROVE  /\ Len(InFlight)' = Len(fileChan') + Len(hand') + Len(wire') + Len(received')
         /\ Range(InFlight)' = Range(fileChan') \cup Range(hand') \cup Range(wire') \cup Range(received')
         /\ IsInjective(InFlight)' <=> Apart(fileChan', hand', wire', received')
BY FourFacts DEF SenderInv, InFlight

\* A file is put in fileChan.
LEMMA EmitFileWalks ==
  ASSUME IInv, WInv, NEW w \in Workers, EmitFile(w)
  PROVE  WInv'
<1>1. PICK S \in SUBSET Dirs : WalkInv(S)
  BY DEF WInv
<1>2. PICK x : x = Entry(w)
  OBVIOUS
<1>3. /\ worker[w].pc = "emit" /\ Fits(worker[w]) /\ worker[w].rest # <<>> /\ worker[w].rest \in Seq(All)
      /\ fileChan' = Append(fileChan, x) /\ Goto(w, "count")
      /\ UNCHANGED <<ctxDone, trigger, dirChan, senderVars, lost, stats, failures>>
  BY <1>2, Zenon DEF EmitFile, At, WorkerKeeps, IInv, ScanTypes, Fits, Places
<1>4. /\ worker'[w].pc = "count" /\ worker'[w].dir = worker[w].dir /\ worker'[w].rest = worker[w].rest
      /\ \A v \in Workers : v # w => worker'[v] = worker[v]
  BY <1>3, Zenon DEF Goto, IInv, ScanTypes, Fits, Places
<1>5. Stands(w, S) /\ x \in Authorized /\ x \in Files
  <2>1. Stands(w, S)
    BY <1>1, Zenon DEF WalkInv, TreeInv
  <2>2. x \in Authorized
    BY <1>2, <1>3, <2>1, Zenon DEF Stands, Entry
  <2> QED
    BY <2>1, <2>2 DEF Authorized
<1>6. Range(worker[w].rest) = {x} \cup Range(Tail(worker[w].rest)) /\ x \notin Range(Tail(worker[w].rest))
  BY <1>2, <1>3, <1>5, TailFacts, Zenon DEF Stands, Entry, Reading
<1>7. Left(w) = Left(w)' \cup {x} /\ x \notin Left(w)'
  BY <1>3, <1>4, <1>6, Zenon DEF Left
<1>8. Past(S)' = Past(S) \cup {x} /\ x \notin Past(S)
  <2>1. Past(S)' = Past(S) \cup (Left(w) \ Left(w)')
    BY <1>1, <1>4, <1>7, PastMoves, Zenon DEF IInv, WalkInv
  <2> QED
    BY <1>7, <2>1 DEF Past, Ahead
<1>9. TreeInv(S)'
  <2>1. Stands(w, S)'
    BY <1>3, <1>4, <1>5, Zenon DEF Stands, Reading
  <2>2. Stays(w, S)
    BY <1>3, <1>4, <1>7, <2>1, Zenon DEF Stays, Busy, Queued
  <2> QED
    BY <1>1, <1>3, <2>2, StaysKeeps, Zenon DEF IInv, WalkInv
<1>10. SenderInv'
  BY <1>3, <1>5, AppendFacts, Zenon DEF WInv, SenderInv, senderVars
<1>11. x \notin Range(InFlight) \cup lost
  BY <1>1, <1>8 DEF WalkInv, FileInv
<1>12. /\ Range(InFlight)' = Range(InFlight) \cup {x} /\ Len(InFlight)' = Len(InFlight) + 1
       /\ IsInjective(InFlight)' /\ Len(InFlight) \in Nat
  <2>1. /\ Range(InFlight) = Range(fileChan) \cup Range(hand) \cup Range(wire) \cup Range(received)
        /\ Apart(fileChan, hand, wire, received)
        /\ Len(InFlight) = Len(fileChan) + Len(hand) + Len(wire) + Len(received)
    BY <1>1, InFlightFacts, Zenon DEF WInv, WalkInv, FileInv
  <2>2. /\ Range(fileChan') = Range(fileChan) \cup {x} /\ Len(fileChan') = Len(fileChan) + 1
        /\ IsInjective(fileChan')
    BY <1>3, <1>5, <1>11, <2>1, AppendFacts DEF WInv, SenderInv, Apart
  <2>3. UNCHANGED <<hand, wire, received>>
    BY <1>3, Zenon DEF senderVars
  <2>4. Apart(fileChan', hand', wire', received')
    BY <1>11, <2>1, <2>2, <2>3 DEF Apart
  <2>5. /\ Range(InFlight)' = Range(fileChan') \cup Range(hand') \cup Range(wire') \cup Range(received')
        /\ Len(InFlight)' = Len(fileChan') + Len(hand') + Len(wire') + Len(received')
        /\ IsInjective(InFlight)'
    BY <1>10, <2>4, InFlightNext
  <2> QED
    BY <2>1, <2>2, <2>3, <2>5 DEF WInv, SenderInv
<1>13. FileInv(S)'
  BY <1>1, <1>3, <1>8, <1>11, <1>12, Zenon DEF WalkInv, FileInv
<1>14. CountInv'
  <2>1. Moved(w, "count")
    <3>1. Fits([worker[w] EXCEPT !.pc = "count"]) /\ "count" \in Running
      BY <1>3 DEF Fits, Places, Running, Busy
    <3> QED
      BY <1>3, <3>1, GotoFacts DEF IInv
  <2>2. /\ Cardinality(Where({"count"})) \in Nat
        /\ Cardinality(Where({"count"}))' =
             Cardinality(Where({"count"})) - One(worker[w].pc \in {"count"}) + One("count" \in {"count"})
    BY <2>1, WhereMoves, Zenon
  <2>3. One(worker[w].pc \in {"count"}) = 0 /\ One("count" \in {"count"}) = 1
    BY <1>3, Zenon DEF One
  <2>4. Cardinality(lost) \in Nat /\ stats.FilesFound \in Nat
    BY FS_CardinalityType, Zenon DEF WInv, SenderInv, CountInv
  <2>5. Cardinality(Where({"count"}))' = Cardinality(Where({"count"})) + 1
    BY <2>2, <2>3
  <2>6. /\ stats.FilesFound + Cardinality(Where({"count"})) = Len(InFlight) + Cardinality(lost)
        /\ stats \in [{"FilesFound", "DirsScanned", "ErrorCount", "SkippedItem"} -> Nat]
        /\ stats' = stats /\ lost' = lost
    BY <1>3, Zenon DEF WInv, CountInv
  <2>7. stats.FilesFound + (Cardinality(Where({"count"})) + 1) = (Len(InFlight) + 1) + Cardinality(lost)
    <3>1. PICK c \in Nat, f \in Nat, m \in Nat, n \in Nat :
            c = Cardinality(Where({"count"})) /\ f = stats.FilesFound /\ m = Cardinality(lost) /\ n = Len(InFlight)
      BY <1>12, <2>2, <2>4, Zenon
    <3>2. f + c = n + m
      BY <2>6, <3>1, Zenon
    <3>3. f + (c + 1) = (n + 1) + m
      BY <3>2
    <3> QED
      BY <3>1, <3>3, Zenon
  <2> QED
    BY <1>12, <2>5, <2>6, <2>7, Zenon DEF CountInv
<1>15. DoneInv(S)'
  <2>1. QueuedDirs \subseteq QueuedDirs'
    BY <1>3, <1>4, QueuedKept, Zenon DEF Queued
  <2>2. /\ Past(S)' \cap Dirs = Past(S) \cap Dirs /\ Past(S)' \cap Specials = Past(S) \cap Specials
        /\ Started' = Started
    <3>1. x \notin Dirs /\ x \notin Specials
      BY <1>5, FileScanAssumption, Zenon
    <3> QED
      BY <1>3, <1>8, <3>1, Zenon DEF Started
  <2> QED
    BY <1>1, <1>3, <1>8, <1>12, <2>1, <2>2, Zenon DEF WalkInv, DoneInv
<1> QED
  BY <1>9, <1>10, <1>13, <1>14, <1>15 DEF WInv, WalkInv

\* The file that was sent is counted.
LEMMA CountFileWalks ==
  ASSUME IInv, WInv, NEW w \in Workers, CountFile(w)
  PROVE  WInv'
<1>1. PICK S \in SUBSET Dirs : WalkInv(S)
  BY DEF WInv
<1>2. /\ worker[w].pc = "count" /\ worker[w].rest # <<>> /\ Skip(w)
      /\ UNCHANGED <<ctxDone, trigger, dirChan, fileChan, senderVars, lost, failures>>
  BY Zenon DEF CountFile, At, WorkerKeeps, IInv, ScanTypes, Fits
<1>3. /\ stats' \in [{"FilesFound", "DirsScanned", "ErrorCount", "SkippedItem"} -> Nat]
      /\ stats'.FilesFound = stats.FilesFound + 1 /\ stats'.DirsScanned = stats.DirsScanned
      /\ stats'.SkippedItem = stats.SkippedItem /\ stats.FilesFound \in Nat
  <2>1. /\ stats' = [stats EXCEPT !["FilesFound"] = @ + 1]
        /\ stats \in [{"FilesFound", "DirsScanned", "ErrorCount", "SkippedItem"} -> Nat]
    BY Zenon DEF CountFile, Incr, WInv, CountInv
  <2> QED
    BY <2>1
<1>4. Stays(w, S) /\ QueuedDirs \subseteq QueuedDirs' /\ Past(S)' = Past(S)
  BY <1>1, <1>2, SkipsPast, Zenon DEF IInv, WalkInv, Reading
<1>5. TreeInv(S)'
  BY <1>1, <1>2, <1>4, StaysKeeps, Zenon DEF IInv, WalkInv
<1>6. InFlight' = InFlight /\ Started' = Started
  BY <1>2, Zenon DEF InFlight, senderVars, Started
<1>7. SenderInv' /\ FileInv(S)'
  BY <1>1, <1>2, <1>4, <1>6, Zenon DEF WInv, SenderInv, senderVars, WalkInv, FileInv
<1>8. CountInv'
  <2>1. Moved(w, "entries")
    BY <1>2, SkipFacts, Zenon DEF IInv, Busy
  <2>2. /\ Cardinality(Where({"count"})) \in Nat /\ Cardinality(Where({"count"}))' \in Nat
        /\ Cardinality(Where({"count"}))' =
             Cardinality(Where({"count"})) - One(worker[w].pc \in {"count"}) + One("entries" \in {"count"})
    BY <2>1, WhereMoves, Zenon
  <2>3. One(worker[w].pc \in {"count"}) = 1 /\ One("entries" \in {"count"}) = 0
    BY <1>2 DEF One
  <2>4. stats'.FilesFound + Cardinality(Where({"count"}))' = stats.FilesFound + Cardinality(Where({"count"}))
    BY <1>3, <2>2, <2>3
  <2> QED
    BY <1>2, <1>3, <1>6, <2>4, Zenon DEF WInv, CountInv
<1>9. DoneInv(S)'
  BY <1>1, <1>2, <1>3, <1>4, <1>6, DoneMoves, Zenon DEF WalkInv, DoneInv
<1> QED
  BY <1>5, <1>7, <1>8, <1>9 DEF WInv, WalkInv

\* A subdirectory is put in dirChan: it was found, and nobody had come to it.
LEMMA PushDirWalks ==
  ASSUME IInv, WInv, NEW w \in Workers, PushDir(w)
  PROVE  WInv'
<1>1. PICK S \in SUBSET Dirs : WalkInv(S)
  BY DEF WInv
<1>2. PICK x : x = Entry(w)
  OBVIOUS
<1>3. /\ worker[w].pc = "push" /\ worker[w].rest # <<>> /\ Skip(w) /\ x \in Dirs
      /\ dirChan' = Append(dirChan, x)
      /\ UNCHANGED <<ctxDone, trigger, fileChan, senderVars, lost, stats, failures>>
  BY <1>2, Zenon DEF PushDir, At, WorkerKeeps, IInv, ScanTypes, Fits, Entry
<1>4. /\ Stays(w, S) /\ QueuedDirs \subseteq QueuedDirs'
      /\ x \in Left(w) /\ x \notin Past(S) /\ Past(S)' = Past(S) \cup {x}
  BY <1>1, <1>2, <1>3, SkipsPast, Zenon DEF IInv, WalkInv, Reading
<1>5. Started' = Started /\ x \notin Started
  <2>1. Stands(w, S) /\ Left(w) \subseteq Range(worker[w].rest)
    BY <1>1, LeftFacts, Zenon DEF IInv, WalkInv, TreeInv
  <2>2. x \in Range(Entries[worker[w].dir]) /\ worker[w].dir \in Dirs
    BY <1>1, <1>3, <1>4, <2>1, Zenon DEF Stands, Reading
  <2> QED
    BY <1>3, <2>2, TreeAssumption, Zenon DEF Started
<1>6. x \notin Known(S) /\ x \in Known(S)' /\ Known(S) \subseteq Known(S)'
  BY <1>4, <1>5 DEF Known
<1>7. TreeInv(S)'
  <2>1. \A v \in Workers : Stands(v, S)'
    BY <1>1, <1>4, Zenon DEF WalkInv, TreeInv, Stands, Stays
  <2>2. /\ \A v \in Workers : worker'[v].pc \in Busy => worker[v].pc \in Busy /\ worker'[v].dir = worker[v].dir
        /\ \A v \in Workers : worker'[v].pc \in Queued => worker[v].pc \in Queued
    BY <1>4, Zenon DEF Stays
  <2>3. \A v \in Workers : worker[v].pc \in Busy => worker[v].dir \in S \cup QueuedDirs
    BY <1>1, BusyFacts, Zenon DEF WalkInv
  <2> QED
    BY <1>1, <1>3, <1>6, <2>1, <2>2, <2>3, PutKeeps, Zenon DEF IInv, WalkInv
<1>8. Light(w, "entries")
  <2>1. Moved(w, "entries")
    BY <1>3, SkipFacts, Zenon DEF IInv, Busy
  <2> QED
    BY <1>3, <2>1, Zenon DEF Light, WInv, CountInv
<1>9. SenderInv' /\ CountInv' /\ FileInv(S)'
  <2>1. Past(S) \subseteq Past(S)'
    BY <1>4, Zenon
  <2> QED
    BY <1>1, <1>8, <2>1, LightKeeps, Zenon DEF WInv, WalkInv
<1>10. DoneInv(S)'
  <2>1. /\ Past(S)' \cap Dirs = (Past(S) \cap Dirs) \cup {x} /\ Past(S)' \cap Specials = Past(S) \cap Specials
        /\ Past(S)' \cap Authorized = Past(S) \cap Authorized
    BY <1>3, <1>4, FileScanAssumption, Zenon DEF Authorized
  <2>2. Range(dirChan') = Range(dirChan) \cup {x} /\ InFlight' = InFlight
    BY <1>3, AppendFacts DEF IInv, ScanTypes, InFlight, senderVars
  <2> QED
    BY <1>1, <1>3, <1>4, <1>5, <2>1, <2>2, Zenon DEF WalkInv, DoneInv
<1> QED
  BY <1>7, <1>9, <1>10 DEF WInv, WalkInv

\* A root is put in dirChan.
LEMMA TriggeredWalks ==
  ASSUME IInv, WInv, NEW r \in Roots, Triggered(r)
  PROVE  WInv'
<1>1. PICK S \in SUBSET Dirs : WalkInv(S)
  BY DEF WInv
<1>2. /\ dirChan' = Append(dirChan, r) /\ r \in Dirs
      /\ UNCHANGED <<ctxDone, worker, fileChan, senderVars, lost, stats, failures>>
  BY FileScanAssumption, Zenon DEF Triggered, TriggerKeeps
<1>3. Past(S)' = Past(S) /\ QueuedDirs' = QueuedDirs /\ Where({"count"})' = Where({"count"})
  BY <1>2, Zenon DEF Past, Found, Ahead, Left, QueuedDirs, Where
<1>4. Started' = Started \cup {r} /\ r \notin Started
  BY Zenon DEF Started, Triggered, IInv, ScanTypes
<1>5. r \notin Past(S)
  BY TreeAssumption DEF Past, Found
<1>6. r \notin Known(S) /\ r \in Known(S)' /\ Known(S) \subseteq Known(S)'
  BY <1>3, <1>4, <1>5 DEF Known
<1>7. TreeInv(S)'
  <2>1. \A v \in Workers : Stands(v, S)'
    BY <1>1, <1>2, Zenon DEF WalkInv, TreeInv, Stands
  <2>2. \A v \in Workers : worker[v].pc \in Busy => worker[v].dir \in S \cup QueuedDirs
    BY <1>1, BusyFacts DEF WalkInv
  <2> QED
    BY <1>1, <1>2, <1>6, <2>1, <2>2, PutKeeps, Zenon DEF IInv, WalkInv
<1>8. InFlight' = InFlight
  BY <1>2 DEF InFlight, senderVars
<1>9. SenderInv' /\ CountInv' /\ FileInv(S)'
  BY <1>1, <1>2, <1>3, <1>8, Zenon DEF WInv, SenderInv, CountInv, senderVars, WalkInv, FileInv
<1>10. DoneInv(S)'
  <2>1. Range(dirChan') = Range(dirChan) \cup {r}
    BY <1>2, AppendFacts DEF IInv, ScanTypes
  <2> QED
    BY <1>1, <1>2, <1>3, <1>4, <1>8, <2>1, Zenon DEF WalkInv, DoneInv
<1> QED
  BY <1>7, <1>9, <1>10 DEF WInv, WalkInv

-----------------------------------------------------------------------------
(* The steps of the sender, of the master and of main.                     *)
\* As many files on their way or lost as were sent.
LEMMA WayCount ==
  ASSUME NEW T, NEW s \in Seq(T), IsInjective(s), NEW l, IsFiniteSet(l), l \cap Range(s) = {}
  PROVE  Len(s) + Cardinality(l) = Cardinality(Range(s) \cup l)
<1>1. IsFiniteSet(Range(s)) /\ Cardinality(Range(s)) = Len(s)
  BY RangeCount, Zenon
<1>2. Cardinality(Range(s) \cup l) = Cardinality(Range(s)) + Cardinality(l) - Cardinality(Range(s) \cap l)
  BY <1>1, FS_Union, Zenon
<1>3. Cardinality(Range(s) \cap l) = 0
  <2>1. Range(s) \cap l = {}
    OBVIOUS
  <2> QED
    BY <2>1, FS_EmptySet, Zenon
<1>4. Len(s) \in Nat /\ Cardinality(l) \in Nat
  BY FS_CardinalityType
<1> QED
  BY <1>1, <1>2, <1>3, <1>4

\* A step that only moves the files that are on their way.
LEMMA FilesMove ==
  ASSUME WInv, SenderInv', UNCHANGED <<ctxDone, dirChan, worker, stats>>, Started' = Started,
         failures \subseteq failures',
         Apart(fileChan', hand', wire', received'), lost' \cap Range(InFlight)' = {},
         Range(InFlight)' \cup lost' = Range(InFlight) \cup lost
  PROVE  WInv'
<1>1. PICK S \in SUBSET Dirs : WalkInv(S)
  BY DEF WInv
<1>2. Past(S)' = Past(S) /\ QueuedDirs' = QueuedDirs /\ \A pcs : Where(pcs)' = Where(pcs)
  BY DEF Past, Found, Ahead, Left, QueuedDirs, Where
<1>3. Known(S)' = Known(S)
  BY <1>2, Zenon DEF Known
<1>4. TreeInv(S)'
  BY <1>1, <1>2, <1>3, Zenon DEF WalkInv, TreeInv, Stands
<1>5. IsInjective(InFlight)'
  BY InFlightNext, Zenon
<1>6. FileInv(S)'
  BY <1>1, <1>2, <1>5, Zenon DEF WalkInv, FileInv
<1>7. DoneInv(S)'
  <2>1. \A A : A \subseteq Range(InFlight) \cup lost => A \subseteq Range(InFlight') \cup lost'
    BY Zenon
  <2> QED
    BY <1>1, <1>2, <2>1, Zenon DEF WalkInv, DoneInv
<1>8. CountInv'
  <2>1. Len(InFlight) + Cardinality(lost) = Cardinality(Range(InFlight) \cup lost)
    BY <1>1, InFlightFacts, WayCount, Zenon DEF WInv, SenderInv, WalkInv, FileInv
  <2>2. Len(InFlight)' + Cardinality(lost') = Cardinality(Range(InFlight)' \cup lost')
    <3>1. InFlight' \in Seq(Files) /\ IsFiniteSet(lost')
      BY FourFacts, Zenon DEF SenderInv, InFlight
    <3> QED
      BY <1>5, <3>1, WayCount, Zenon
  <2>3. Cardinality(Where({"count"}))' = Cardinality(Where({"count"}))
    BY <1>2, Zenon
  <2> QED
    BY <2>1, <2>2, <2>3, Zenon DEF WInv, CountInv
<1> QED
  BY <1>4, <1>6, <1>7, <1>8, Zenon DEF WInv, WalkInv

\* The files as the sender finds them.
LEMMA FilesBefore ==
  ASSUME WInv
  PROVE  /\ Apart(fileChan, hand, wire, received)
         /\ lost \cap Range(fileChan) = {} /\ lost \cap Range(hand) = {}
         /\ lost \cap Range(wire) = {} /\ lost \cap Range(received) = {}
         /\ Range(InFlight) = Range(fileChan) \cup Range(hand) \cup Range(wire) \cup Range(received)
<1>1. PICK S \in SUBSET Dirs : FileInv(S)
  BY DEF WInv, WalkInv
<1>2. /\ IsInjective(InFlight) <=> Apart(fileChan, hand, wire, received)
      /\ Range(InFlight) = Range(fileChan) \cup Range(hand) \cup Range(wire) \cup Range(received)
  BY InFlightFacts, Zenon DEF WInv
<1> QED
  BY <1>1, <1>2, Zenon DEF FileInv

\* A stream is opened, or not: there is nothing on it.
LEMMA OpenStreamWalks ==
  ASSUME WInv, OpenStream(TRUE) \/ OpenStream(FALSE)
  PROVE  WInv'
<1>1. /\ UNCHANGED <<ctxDone, trigger, dirChan, worker, stats, fileChan, hand, received, lost>>
      /\ wire = <<>> /\ wire' = <<>> /\ failures \subseteq failures'
  BY Zenon DEF OpenStream, SenderKeeps, WInv, SenderInv, Fail
<1>2. SenderInv'
  BY <1>1, Zenon DEF OpenStream, WInv, SenderInv
<1>3. InFlight' = InFlight /\ Started' = Started
  BY <1>1, Zenon DEF InFlight, Started
<1> QED
  BY <1>1, <1>2, <1>3, FilesBefore, FilesMove, Zenon DEF WInv

\* The sender takes a file.
LEMMA TakeFileWalks ==
  ASSUME WInv, TakeFile
  PROVE  WInv'
<1>1. /\ UNCHANGED <<ctxDone, trigger, dirChan, worker, stats, wire, received, lost, failures>>
      /\ hand = <<>> /\ hand' = <<Head(fileChan)>> /\ fileChan' = Tail(fileChan)
      /\ fileChan # <<>> /\ fileChan \in Seq(Files)
  BY Zenon DEF TakeFile, SenderKeeps, WInv, SenderInv
<1>2. /\ Head(fileChan) \in Files /\ Tail(fileChan) \in Seq(Files)
      /\ Range(fileChan) = {Head(fileChan)} \cup Range(fileChan')
      /\ IsInjective(fileChan') /\ Head(fileChan) \notin Range(fileChan')
  BY <1>1, TailFacts, FilesBefore, Zenon DEF Apart
<1>3. hand' \in Seq(Files) /\ Range(hand') = {Head(fileChan)} /\ IsInjective(hand')
  BY <1>1, <1>2 DEF Range, IsInjective
<1>4. SenderInv'
  BY <1>1, <1>2, <1>3, Zenon DEF TakeFile, WInv, SenderInv
<1>5. Started' = Started /\ Range(hand) = {}
  BY <1>1, EmptyFacts, Zenon DEF Started
<1>6. Apart(fileChan', hand', wire', received')
  BY <1>1, <1>2, <1>3, FilesBefore DEF Apart
<1>7. lost' \cap Range(InFlight)' = {} /\ Range(InFlight)' \cup lost' = Range(InFlight) \cup lost
  BY <1>1, <1>2, <1>3, <1>4, <1>5, FilesBefore, InFlightNext
<1> QED
  BY <1>1, <1>4, <1>5, <1>6, <1>7, FilesMove, Zenon

\* The sender sends a file, or loses it.
LEMMA SendFileWalks ==
  ASSUME WInv, SendFile
  PROVE  WInv'
<1>1. /\ UNCHANGED <<ctxDone, trigger, dirChan, worker, stats, fileChan, received, failures>>
      /\ hand' = <<>> /\ Range(hand') = {} /\ IsInjective(hand') /\ hand' \in Seq(Files)
      /\ hand \in Seq(Files) /\ wire \in Seq(Files) /\ Started' = Started
  BY EmptyFacts DEF SendFile, SenderKeeps, WInv, SenderInv, Started
<1>2. CASE up
  <2>1. wire' = wire \o hand /\ lost' = lost
    BY <1>2, Zenon DEF SendFile, Sent
  <2>2. /\ wire' \in Seq(Files) /\ Range(wire') = Range(wire) \cup Range(hand)
        /\ IsInjective(wire')
    BY <1>1, <2>1, ConcatFacts, FilesBefore DEF Apart
  <2>3. SenderInv'
    BY <1>1, <1>2, <2>1, <2>2, Zenon DEF SendFile, WInv, SenderInv
  <2>4. Apart(fileChan', hand', wire', received')
    BY <1>1, <2>2, FilesBefore, Zenon DEF Apart
  <2>5. lost' \cap Range(InFlight)' = {} /\ Range(InFlight)' \cup lost' = Range(InFlight) \cup lost
    BY <1>1, <2>1, <2>2, <2>3, FilesBefore, InFlightNext, Zenon
  <2> QED
    BY <1>1, <2>3, <2>4, <2>5, FilesMove, Zenon
<1>3. CASE ~up
  <2>1. wire' = wire /\ lost' = lost \cup Range(hand)
    BY <1>3, Zenon DEF SendFile
  <2>2. IsFiniteSet(lost')
    <3>1. IsFiniteSet(Range(hand))
      BY <1>1, RangeCount, FilesBefore, Zenon DEF Apart
    <3> QED
      BY <2>1, <3>1, FS_Union, Zenon DEF WInv, SenderInv
  <2>3. SenderInv'
    BY <1>1, <1>3, <2>1, <2>2, Zenon DEF SendFile, WInv, SenderInv
  <2>4. Apart(fileChan', hand', wire', received')
    BY <1>1, <2>1, FilesBefore, Zenon DEF Apart
  <2>5. lost' \cap Range(InFlight)' = {} /\ Range(InFlight)' \cup lost' = Range(InFlight) \cup lost
    BY <1>1, <2>1, <2>3, FilesBefore, InFlightNext DEF Apart
  <2> QED
    BY <1>1, <2>3, <2>4, <2>5, FilesMove
<1> QED
  BY <1>2, <1>3

\* The stream is cut: what the sender holds, or what is on it, is lost.
LEMMA CutWalks ==
  ASSUME WInv, SenderEnds \/ StreamBreaks
  PROVE  WInv'
<1>1. /\ UNCHANGED <<ctxDone, trigger, dirChan, worker, stats, fileChan, received>>
      /\ failures \subseteq failures' /\ ~up'
      /\ wire' = <<>> /\ Range(wire') = {} /\ IsInjective(wire') /\ wire' \in Seq(Files)
      /\ hand \in Seq(Files) /\ wire \in Seq(Files) /\ Started' = Started
  <2>1. /\ UNCHANGED <<ctxDone, trigger, dirChan, worker, stats, fileChan, received>>
        /\ failures \subseteq failures' /\ up' = FALSE /\ wire' = <<>>
    BY Zenon DEF SenderEnds, StreamBreaks, SenderKeeps, Fail
  <2> QED
    BY <2>1, EmptyFacts DEF WInv, SenderInv, Started
<1>2. /\ hand' \in Seq(Files) /\ IsInjective(hand')
      /\ lost' \cup Range(hand') = lost \cup Range(hand) \cup Range(wire)
      /\ lost' \cap Range(hand') = {} /\ Range(hand') \subseteq Range(hand)
  <2>1. CASE SenderEnds
    BY <1>1, <2>1, EmptyFacts, Zenon DEF SenderEnds
  <2>2. CASE StreamBreaks
    BY <1>1, <2>2, FilesBefore, Zenon DEF StreamBreaks, Apart
  <2> QED
    BY <2>1, <2>2, Zenon
<1>3. IsFiniteSet(lost')
  <2>1. IsFiniteSet(Range(hand)) /\ IsFiniteSet(Range(wire)) /\ IsFiniteSet(lost)
    BY <1>1, RangeCount, FilesBefore, Zenon DEF Apart, WInv, SenderInv
  <2>2. IsFiniteSet(lost \cup Range(hand) \cup Range(wire))
    BY <2>1, FS_Union, Zenon
  <2>3. lost' \subseteq lost \cup Range(hand) \cup Range(wire)
    BY <1>2, Zenon
  <2> QED
    BY <2>2, <2>3, FS_Subset, Zenon
<1>4. SenderInv'
  BY <1>1, <1>2, <1>3, EmptyFacts, Zenon DEF SenderEnds, StreamBreaks, WInv, SenderInv
<1>5. Apart(fileChan', hand', wire', received')
  BY <1>1, <1>2, FilesBefore, Zenon DEF Apart
<1>6. lost' \cap Range(InFlight)' = {} /\ Range(InFlight)' \cup lost' = Range(InFlight) \cup lost
  <2>1. lost' \subseteq lost \cup Range(hand) \cup Range(wire)
    BY <1>2
  <2>2. lost' \cap Range(fileChan) = {} /\ lost' \cap Range(received) = {}
    BY <2>1, FilesBefore, Zenon DEF Apart
  <2>3. Range(InFlight)' = Range(fileChan) \cup Range(hand') \cup Range(received)
    BY <1>1, <1>4, InFlightNext, Zenon
  <2> QED
    BY <1>2, <2>2, <2>3, FilesBefore, Zenon
<1> QED
  BY <1>1, <1>4, <1>5, <1>6, FilesMove, Zenon

\* The master receives a file, and passes it on or logs that it does not
\* validate.
LEMMA AnalyzeWalks ==
  ASSUME WInv, Analyze
  PROVE  WInv'
<1>1. PICK x : x = Head(wire)
  OBVIOUS
<1>2. /\ UNCHANGED <<ctxDone, trigger, dirChan, worker, stats, fileChan, sender, hand, up, failures>>
      /\ wire # <<>> /\ wire \in Seq(Files) /\ received \in Seq(Files) /\ wire' = Tail(wire)
      /\ Started' = Started
  BY Zenon DEF Analyze, SenderKeeps, WInv, SenderInv, Started
<1>3. /\ x \in Files /\ wire' \in Seq(Files) /\ Range(wire) = {x} \cup Range(wire')
      /\ IsInjective(wire') /\ x \notin Range(wire')
  BY <1>1, <1>2, TailFacts, FilesBefore, Zenon DEF Apart
<1>4. CASE x \in Invalid
  <2>1. lost' = lost \cup {x} /\ received' = received
    BY <1>1, <1>4, Zenon DEF Analyze
  <2>2. IsFiniteSet(lost')
    BY <2>1, FS_AddElement, Zenon DEF WInv, SenderInv
  <2>3. SenderInv'
    BY <1>2, <1>3, <2>1, <2>2, Zenon DEF WInv, SenderInv
  <2>4. Apart(fileChan', hand', wire', received')
    BY <1>2, <1>3, <2>1, FilesBefore, Zenon DEF Apart
  <2>5. lost' \cap Range(InFlight)' = {} /\ Range(InFlight)' \cup lost' = Range(InFlight) \cup lost
    BY <1>2, <1>3, <2>1, <2>3, FilesBefore, InFlightNext DEF Apart
  <2> QED
    BY <1>2, <2>3, <2>4, <2>5, FilesMove, Zenon
<1>5. CASE x \notin Invalid
  <2>1. received' = Append(received, x) /\ lost' = lost
    BY <1>1, <1>5 DEF Analyze
  <2>2. /\ received' \in Seq(Files) /\ Range(received') = Range(received) \cup {x}
        /\ IsInjective(received')
    BY <1>2, <1>3, <2>1, AppendFacts, FilesBefore DEF Apart
  <2>3. SenderInv'
    BY <1>2, <1>3, <2>1, <2>2, Zenon DEF WInv, SenderInv
  <2>4. Apart(fileChan', hand', wire', received')
    BY <1>2, <1>3, <2>2, FilesBefore DEF Apart
  <2>5. lost' \cap Range(InFlight)' = {} /\ Range(InFlight)' \cup lost' = Range(InFlight) \cup lost
    BY <1>2, <1>3, <2>1, <2>2, <2>3, FilesBefore, InFlightNext DEF Apart
  <2> QED
    BY <1>2, <2>3, <2>4, <2>5, FilesMove
<1> QED
  BY <1>4, <1>5

\* A step that moves neither directories nor files: of main, or a call of
\* TriggerScan that has not sent its directory yet.
LEMMA OthersWalk ==
  ASSUME WInv, Started' = Started, ctxDone => ctxDone',
         UNCHANGED <<dirChan, worker, fileChan, senderVars, lost, stats, failures>>
  PROVE  WInv'
<1>1. PICK S \in SUBSET Dirs : WalkInv(S)
  BY DEF WInv
<1>2. Past(S)' = Past(S) /\ QueuedDirs' = QueuedDirs /\ \A pcs : Where(pcs)' = Where(pcs)
  BY Zenon DEF Past, Found, Ahead, Left, QueuedDirs, Where
<1>3. Known(S)' = Known(S) /\ InFlight' = InFlight
  BY <1>2, Zenon DEF Known, InFlight, senderVars
<1>4. TreeInv(S)'
  BY <1>1, <1>2, <1>3, Zenon DEF WalkInv, TreeInv, Stands
<1>5. SenderInv' /\ CountInv' /\ FileInv(S)'
  BY <1>1, <1>2, <1>3, Zenon DEF WInv, SenderInv, CountInv, senderVars, WalkInv, FileInv
<1>6. DoneInv(S)'
  BY <1>1, <1>2, <1>3, Zenon DEF WalkInv, DoneInv
<1> QED
  BY <1>4, <1>5, <1>6, Zenon DEF WInv, WalkInv

\* Every step keeps the invariant of the walk.
LEMMA NextWalks == IInv /\ WInv /\ [Next]_vars => WInv'
<1> SUFFICES ASSUME IInv, WInv, [Next]_vars PROVE WInv'
  OBVIOUS
<1>1. ASSUME NEW r \in Roots, TriggerScan(r) PROVE WInv'
  <2>1. Started' = Started
    BY <1>1, Zenon DEF TriggerScan, Started, IInv, ScanTypes
  <2> QED
    BY <1>1, <2>1, OthersWalk, Zenon DEF TriggerScan, TriggerKeeps
<1>2. ASSUME NEW r \in Roots, Triggered(r) PROVE WInv'
  BY <1>2, TriggeredWalks
<1>3. ASSUME NEW w \in Workers, Scan(w) PROVE WInv'
  BY <1>3, TakeDirWalks, GivesUpWalks, ThrottleWalks, ReadDirWalks, NextEntryWalks, EndDirectoryWalks,
     PushDirWalks, EmitFileWalks, CountFileWalks, EmitEndsWalks, Zenon DEF Scan
<1>4. ASSUME NEW w \in Workers, ReadDir(w, FALSE) \/ WorkerPanics(w) PROVE WInv'
  BY <1>4, GivesUpWalks, Zenon
<1>5. CASE OpenStream(TRUE) \/ OpenStream(FALSE)
  BY <1>5, OpenStreamWalks, Zenon
<1>6. CASE TakeFile \/ SendFile \/ SenderEnds \/ StreamBreaks \/ Analyze
  BY <1>6, TakeFileWalks, SendFileWalks, CutWalks, AnalyzeWalks, Zenon
<1>7. CASE Signal \/ GracefulStop \/ WorkersGone \/ Exit
  <2>1. MainKeeps /\ (ctxDone => ctxDone')
    BY <1>7 DEF Signal, GracefulStop, WorkersGone, Exit
  <2>2. Started' = Started
    BY <2>1 DEF MainKeeps, Started
  <2> QED
    BY <2>1, <2>2, OthersWalk, Zenon DEF MainKeeps
<1>8. CASE UNCHANGED vars
  BY <1>8, OthersWalk, Zenon DEF vars, chanVars, Started
<1> QED
  BY <1>1, <1>2, <1>3, <1>4, <1>5, <1>6, <1>7, <1>8, Zenon DEF Next

\* Nothing is found when main has started the workers.
LEMMA InitWInv == Init => WInv
<1> SUFFICES ASSUME Init PROVE WInv
  OBVIOUS
<1>1. {} \in SUBSET Dirs /\ Found({}) = {} /\ Started = {}
  BY Zenon DEF Found, Started, Init
<1>2. \A w \in Workers : worker[w].pc = "select" /\ worker[w].rest = <<>>
  BY Zenon DEF Init, Idle
<1>3. \A pcs : "select" \notin pcs => Where(pcs) = {}
  BY <1>2, Zenon DEF Where
<1>4. Where(Busy) = {} /\ Where(Queued) = {} /\ Where({"count"}) = {}
  BY <1>3, Zenon DEF Busy, Queued
<1>5. Past({}) = {} /\ Known({}) = {} /\ QueuedDirs = {}
  BY <1>1, <1>4, Zenon DEF Past, Known, QueuedDirs
<1>6. SenderInv
  BY FS_EmptySet DEF Init, SenderInv
<1>7. Len(InFlight) = 0 /\ Range(InFlight) = {} /\ IsInjective(InFlight)
  <2>1. Apart(fileChan, hand, wire, received)
    BY EmptyFacts, Zenon DEF Init, Apart
  <2> QED
    BY <1>6, <2>1, InFlightFacts, EmptyFacts DEF Init
<1>8. Cardinality({}) = 0 /\ IsFiniteSet({})
  BY FS_EmptySet
<1>9. CountInv
  <2>1. /\ stats \in [{"FilesFound", "DirsScanned", "ErrorCount", "SkippedItem"} -> Nat]
        /\ stats.FilesFound = 0 /\ lost = {}
    BY DEF Init
  <2>2. Cardinality(Where({"count"})) = 0 /\ Cardinality(lost) = 0
    BY <1>4, <1>8, <2>1, Zenon
  <2> QED
    BY <1>7, <2>1, <2>2, Zenon DEF CountInv
<1>10. TreeInv({})
  BY <1>1, <1>2, <1>4, <1>5, EmptyFacts, Zenon DEF TreeInv, Stands, Reading, Init
<1>11. FileInv({})
  BY <1>7, Zenon DEF FileInv, Init
<1>12. DoneInv({})
  BY <1>1, <1>5, <1>8, Zenon DEF DoneInv, Init
<1> QED
  BY <1>1, <1>6, <1>9, <1>10, <1>11, <1>12, Zenon DEF WInv, WalkInv

\* At the end of the walk, what was read is the tree.
LEMMA WalkOver ==
  ASSUME IInv, WInv
  PROVE  ScanIsCounted
<1>1. PICK S \in SUBSET Dirs : WalkInv(S)
  BY DEF WInv
<1>2. SUFFICES ASSUME ~ctxDone, scanWG = 0, failures \subseteq {"stream"},
                      \A r \in Roots : trigger[r] # "none"
               PROVE  /\ stats.DirsScanned = Cardinality(Tree)
                      /\ stats.SkippedItem = Cardinality(Leaves \cap Specials)
                      /\ ToReport \subseteq Range(InFlight) \cup lost
  BY Zenon DEF ScanIsCounted, IInv, ScanWGIsExact
<1>3. /\ Len(dirChan) = 0 /\ Cardinality({r \in Roots : trigger[r] = "sending"}) = 0
      /\ Cardinality(Where(Busy)) = 0
  <2>1. PICK a \in Nat, b \in Nat, c \in Nat, n \in Nat :
          /\ a = Cardinality(Where(Busy)) /\ b = Cardinality(Where({"push"}))
          /\ c = Cardinality({r \in Roots : trigger[r] = "sending"}) /\ n = Len(dirChan)
    <3>1. IsFiniteSet({r \in Roots : trigger[r] = "sending"})
      BY FS_Subset, FileScanAssumption, Zenon
    <3>2. IsFiniteSet(Where(Busy)) /\ IsFiniteSet(Where({"push"}))
      BY FS_Subset, FileScanAssumption, Zenon DEF Where
    <3>3. Len(dirChan) \in Nat
      BY DEF IInv, ScanTypes
    <3> QED
      BY <3>1, <3>2, <3>3, FS_CardinalityType, Zenon
  <2>2. n + c + a + b = 0
    BY <1>2, <2>1, Zenon DEF IInv, ScanWGIsExact, Outstanding, Busy
  <2>3. n = 0 /\ c = 0 /\ a = 0
    BY <2>2
  <2> QED
    BY <2>1, <2>3, Zenon
<1>4. Where(Busy) = {} /\ {r \in Roots : trigger[r] = "sending"} = {} /\ Range(dirChan) = {}
  <2>1. IsFiniteSet(Where(Busy)) /\ IsFiniteSet({r \in Roots : trigger[r] = "sending"})
    BY FS_Subset, FileScanAssumption, Zenon DEF Where
  <2>2. dirChan = <<>>
    BY <1>3 DEF IInv, ScanTypes
  <2> QED
    BY <1>3, <2>1, <2>2, FS_EmptySet, EmptyFacts, Zenon
<1>5. Started = Roots
  BY <1>2, <1>4, Zenon DEF Started, IInv, ScanTypes
<1>6. Ahead = {} /\ QueuedDirs = {}
  <2>1. ASSUME NEW w \in Workers PROVE Left(w) = {}
    <3>1. worker[w].pc \notin Busy
      BY <1>4, Zenon DEF Where
    <3>2. worker[w].rest = <<>> /\ worker[w].pc # "count"
      <4>1. Stands(w, S)
        BY <1>1, Zenon DEF WalkInv, TreeInv
      <4> QED
        BY <3>1, <4>1, Zenon DEF Stands, Busy, Reading
    <3> QED
      BY <3>2, EmptyFacts, Zenon DEF Left
  <2>2. Where(Queued) = {}
    BY <1>4, Zenon DEF Where, Queued, Busy
  <2> QED
    BY <2>1, <2>2, Zenon DEF Ahead, QueuedDirs
<1>7. Past(S) = Found(S)
  BY <1>6 DEF Past
<1>8. /\ Roots \cup (Found(S) \cap Dirs) \subseteq S
      /\ Found(S) \cap Authorized \subseteq Range(InFlight) \cup lost
      /\ stats.SkippedItem = Cardinality(Found(S) \cap Specials)
      /\ stats.DirsScanned = Cardinality(S)
  BY <1>1, <1>2, <1>4, <1>5, <1>6, <1>7, Zenon DEF WalkInv, DoneInv
<1>9. S = Tree
  <2>1. IsClosed(S)
    BY <1>8, Zenon DEF IsClosed, Found
  <2>2. Tree \subseteq S
    BY <1>8, <2>1, TreeFacts, Zenon
  <2> QED
    BY <1>1, <2>2, Zenon DEF WalkInv, TreeInv
<1>10. Leaves = Found(S)
  BY <1>9, Zenon DEF Leaves, Found
<1> QED
  BY <1>8, <1>9, <1>10, Zenon DEF ToReport

-----------------------------------------------------------------------------
\* Until the context ends scanWG is the number of directories outstanding, and
\* at zero, if no directory failed, the whole tree below the roots was read,
\* each link and device counted, and every authorized file is on its way,
\* received or lost behind fileChan: for any tree, any number of workers and
\* any buffers, handleDirectory and TriggerScan leave nothing out.
THEOREM ScanIsComplete == Spec => []ScanIsCounted
<1>1. Init => IInv /\ WInv
  BY InitIInv, InitWInv
<1>2. IInv /\ WInv /\ [Next]_vars => (IInv /\ WInv)'
  BY NextKeeps, NextWalks
<1>3. IInv /\ WInv => ScanIsCounted
  BY WalkOver
<1> QED
  BY <1>1, <1>2, <1>3, PTL DEF Spec

\* processFile, FileSenderWorker and the master neither repeat a file nor both
\* lose and report it, and FilesFound counts each file that was sent once,
\* whatever breaks, for any tree and any number of workers.
THEOREM FilesTravelOnce == Spec => []FilesAreAccounted
<1>1. Init => IInv /\ WInv
  BY InitIInv, InitWInv
<1>2. IInv /\ WInv /\ [Next]_vars => (IInv /\ WInv)'
  BY NextKeeps, NextWalks
<1>3. WInv => FilesAreAccounted
  BY Zenon DEF WInv, WalkInv, FileInv, CountInv, FilesAreAccounted
<1> QED
  BY <1>1, <1>2, <1>3, PTL DEF Spec
=============================================================================
