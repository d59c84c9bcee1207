---------------------------- MODULE Coordinator ----------------------------
(***************************************************************************)
(* The specialist coordinator of runtime/coordinator.go: what Broadcast    *)
(* leaves running when it returns.  For every target specialist there is a *)
(* goroutine that calls Analyze and appends its result to a slice shared   *)
(* without a lock; one more goroutine waits for all of them and sends one  *)
(* SpecialistResponse.                                                     *)
(*                                                                         *)
(* A result is represented by the specialist it comes from: a reply and an *)
(* error are appended in the same way.  The zero-valued entries the slice  *)
(* is created with carry neither reply nor error and are left out.         *)
(***************************************************************************)
EXTENDS Integers, Sequences, FiniteSets, MimeTypes

CONSTANTS
  Files,        \* file identifiers (domain.FileID)
  Specialists,  \* specialist clients registered with the coordinator
  MimeOf,       \* MimeOf[f]: the type the scanner's downloader detects in f
  Capabilities, \* Capabilities[s]: the MIME types of specialist s
  BufferSize    \* capacity of every channel (BUFFER_SIZE)

ASSUME CoordinatorAssumption ==
  /\ IsFiniteSet(Files)
  /\ IsFiniteSet(Specialists)
  /\ MimeOf \in [Files -> Detected]
  /\ Capabilities \in [Specialists -> SUBSET Media]
  /\ BufferSize \in Nat \ {0}

CanHandle(s, mimeType) == mimeType \in Capabilities[s]

\* The specialists Broadcast calls for f, by the effective type of its metadata.
Targets == [f \in Files |-> {s \in Specialists : CanHandle(s, ToMIME(MimeOf[f]))}]

VARIABLES
  calls,      \* calls[f][s]: where the goroutine analysing f with s stands
  seen,       \* seen[f][s]: the slice contents that goroutine read before appending
  results,    \* results[f]: contents of the shared results slice
  collector,  \* collector[f]: the goroutine that gathers f's results
  res,        \* res[f]: the slice that goroutine received as its argument
  specialistResponseChan,
  ctxDone     \* the workers' context is cancelled

coordVars == <<calls, seen, results, collector, res, specialistResponseChan>>

CallState == {"none", "analyzing", "appending"}
CollectorState == {"none", "spawning", "waiting"}
Response == [file : Files, res : SUBSET Specialists]

CoordInit ==
  /\ calls = [f \in Files |-> [s \in Specialists |-> "none"]]
  /\ seen = [f \in Files |-> [s \in Specialists |-> {}]]
  /\ results = [f \in Files |-> {}]
  /\ collector = [f \in Files |-> "none"]
  /\ res = [f \in Files |-> {}]
  /\ specialistResponseChan = <<>>
  /\ ctxDone = FALSE

-----------------------------------------------------------------------------
(* Broadcast, called for each file of the set started and returning nil.   *)
(* Without a target it returns before it starts anything.                  *)
Broadcast(started) ==
  /\ calls' = [f \in Files |-> IF f \in started
                               THEN [s \in Specialists |-> IF s \in Targets[f]
                                                           THEN "analyzing" ELSE "none"]
                               ELSE calls[f]]
  /\ collector' = [f \in Files |-> IF f \in started /\ Targets[f] # {}
                                   THEN "spawning" ELSE collector[f]]
  /\ UNCHANGED <<seen, results, res, specialistResponseChan>>

(* Analyze returns, and the goroutine reads the slice it will append to.   *)
Analyze(f, s) ==
  /\ calls[f][s] = "analyzing"
  /\ calls' = [calls EXCEPT ![f][s] = "appending"]
  /\ seen' = [seen EXCEPT ![f][s] = results[f]]
  /\ UNCHANGED <<results, collector, res, specialistResponseChan, ctxDone>>

\* Mutant: the goroutine stores the slice as it was.
AppendNothing(f, s) == seen[f][s]

Appended(f, s) == seen[f][s] \cup {s}

(* The goroutine stores the extended slice, then wg.Done.                  *)
AppendResult(f, s) ==
  /\ calls[f][s] = "appending"
  /\ results' = [results EXCEPT ![f] = Appended(f, s)]
  /\ calls' = [calls EXCEPT ![f][s] = "none"]
  /\ seen' = [seen EXCEPT ![f][s] = {}]
  /\ UNCHANGED <<collector, res, specialistResponseChan, ctxDone>>

(* The go statement evaluates its argument: the collector gets the slice   *)
(* as it is now.                                                           *)
SpawnCollector(f) ==
  /\ collector[f] = "spawning"
  /\ collector' = [collector EXCEPT ![f] = "waiting"]
  /\ res' = [res EXCEPT ![f] = results[f]]
  /\ UNCHANGED <<calls, seen, results, specialistResponseChan, ctxDone>>

(* wg.Wait has returned.                                                   *)
AllDone(f) == collector[f] = "waiting" /\ \A s \in Specialists : calls[f][s] = "none"

\* Mutant: the collector does not end after it has sent.
EndCollectorNever(f) == UNCHANGED <<calls, seen, results, collector, res, ctxDone>>

(* The collector ends; its slices are garbage.                             *)
EndCollector(f) ==
  /\ collector' = [collector EXCEPT ![f] = "none"]
  /\ results' = [results EXCEPT ![f] = {}]
  /\ res' = [res EXCEPT ![f] = {}]
  /\ UNCHANGED <<calls, seen, ctxDone>>

SendResponse(f) ==
  /\ AllDone(f)
  /\ Len(specialistResponseChan) < BufferSize
  /\ specialistResponseChan' = Append(specialistResponseChan, [file |-> f, res |-> res[f]])
  /\ EndCollector(f)

GiveUpResponse(f) ==
  /\ AllDone(f)
  /\ ctxDone
  /\ EndCollector(f)
  /\ UNCHANGED specialistResponseChan

CoordNext ==
  \E f \in Files :
    \/ \E s \in Specialists : Analyze(f, s) \/ AppendResult(f, s)
    \/ SpawnCollector(f)
    \/ SendResponse(f)
    \/ GiveUpResponse(f)

CoordTypeOK ==
  /\ calls \in [Files -> [Specialists -> CallState]]
  /\ seen \in [Files -> [Specialists -> SUBSET Specialists]]
  /\ results \in [Files -> SUBSET Specialists]
  /\ collector \in [Files -> CollectorState]
  /\ res \in [Files -> SUBSET Specialists]
  /\ specialistResponseChan \in Seq(Response)
  /\ ctxDone \in BOOLEAN
=============================================================================
