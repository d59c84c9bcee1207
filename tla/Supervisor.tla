----------------------------- MODULE Supervisor -----------------------------
(***************************************************************************)
(* runtime/workers/supervisor.go: Run starts a goroutine per worker and    *)
(* waits for all of them; each goroutine runs its worker again after an    *)
(* error or a panic, until the worker returns nil or the context ends.     *)
(***************************************************************************)
EXTENDS Integers, FiniteSets

CONSTANTS
  Workers,
  Stubborn,     \* workers whose Run does not return when the context ends
  BufferSize,   \* capacity of telemetryChan
  MaxFailures   \* bound: how often one worker fails

ASSUME SupervisorAssumption ==
  /\ IsFiniteSet(Workers)
  /\ Stubborn \subseteq Workers
  /\ BufferSize \in Nat
  /\ MaxFailures \in Nat

VARIABLES
  parentDone,     \* the context given to Run is cancelled
  Cancel,         \* s.Cancel: nil, set, or called
  run,            \* where Run stands
  goroutine,      \* goroutine[w]: where the goroutine of w stands
  wg,             \* the WaitGroup's counter
  telemetryChan,  \* number of events in the channel
  failures,       \* failures[w]: how often w has failed
  finished        \* workers whose Run returned nil

vars == <<parentDone, Cancel, run, goroutine, wg, telemetryChan, failures, finished>>

\* The supervised context is derived from the parent.
CtxDone == parentDone \/ Cancel = "called"

Init ==
  /\ parentDone = FALSE
  /\ Cancel = "nil"
  /\ run = "idle"
  /\ goroutine = [w \in Workers |-> "none"]
  /\ wg = 0
  /\ telemetryChan = 0
  /\ failures = [w \in Workers |-> 0]
  /\ finished = {}

-----------------------------------------------------------------------------
Run ==
  /\ run = "idle"
  /\ run' = "starting"
  /\ Cancel' = "set"
  /\ UNCHANGED <<parentDone, goroutine, wg, telemetryChan, failures, finished>>

Start(w) ==
  /\ run = "starting"
  /\ goroutine[w] = "none"
  /\ wg' = wg + 1
  /\ goroutine' = [goroutine EXCEPT ![w] = "loop"]
  /\ UNCHANGED <<parentDone, Cancel, run, telemetryChan, failures, finished>>

\* s.wg.Wait returns; the deferred Cancel runs.
Wait ==
  /\ run = "starting"
  /\ \A w \in Workers : goroutine[w] # "none"
  /\ wg = 0
  /\ run' = "returned"
  /\ Cancel' = "called"
  /\ UNCHANGED <<parentDone, goroutine, wg, telemetryChan, failures, finished>>

Step(w, from, to) == goroutine[w] = from /\ goroutine' = [goroutine EXCEPT ![w] = to]

\* Mutant: wg.Done is missing.
LeaveWithoutDone(w, from) == Step(w, from, "done") /\ UNCHANGED wg

\* The goroutine returns, and wg.Done runs.
Leave(w, from) == Step(w, from, "done") /\ wg' = wg - 1

\* Top of the loop: stop, or execute the worker.
Loop(w) ==
  /\ IF CtxDone THEN Leave(w, "loop") ELSE Step(w, "loop", "running") /\ UNCHANGED wg
  /\ UNCHANGED <<parentDone, Cancel, run, telemetryChan, failures, finished>>

ReturnNil(w) ==
  /\ Leave(w, "running")
  /\ finished' = finished \cup {w}
  /\ UNCHANGED <<parentDone, Cancel, run, telemetryChan, failures>>

\* Run of a worker returns ctx.Err().
ReturnCtxErr(w) ==
  /\ CtxDone
  /\ w \notin Stubborn
  /\ Step(w, "running", "failed")
  /\ UNCHANGED <<parentDone, Cancel, run, wg, telemetryChan, failures, finished>>

ReturnErr(w) ==
  /\ failures[w] < MaxFailures
  /\ Step(w, "running", "failed")
  /\ failures' = [failures EXCEPT ![w] = @ + 1]
  /\ UNCHANGED <<parentDone, Cancel, run, wg, telemetryChan, finished>>

TelemetryFull == telemetryChan >= BufferSize

\* The worker panics: recover, and sendRestartEvent, which gives up at once
\* when the channel is full or the context is done.
Panic(w, sent) ==
  /\ failures[w] < MaxFailures
  /\ Step(w, "running", "failed")
  /\ failures' = [failures EXCEPT ![w] = @ + 1]
  /\ \/ sent /\ ~TelemetryFull /\ telemetryChan' = telemetryChan + 1
     \/ ~sent /\ (CtxDone \/ TelemetryFull) /\ UNCHANGED telemetryChan
  /\ UNCHANGED <<parentDone, Cancel, run, wg, finished>>

\* Mutant: an error ends the supervision.
DecideToStop(w) ==
  /\ Leave(w, "failed")
  /\ UNCHANGED <<parentDone, Cancel, run, telemetryChan, failures, finished>>

\* After an error: stop, or wait for the restart interval.
Decide(w) ==
  /\ IF CtxDone THEN Leave(w, "failed") ELSE Step(w, "failed", "backoff") /\ UNCHANGED wg
  /\ UNCHANGED <<parentDone, Cancel, run, telemetryChan, failures, finished>>

Backoff(w) ==
  /\ \/ CtxDone /\ Leave(w, "backoff")
     \/ Step(w, "backoff", "loop") /\ UNCHANGED wg
  /\ UNCHANGED <<parentDone, Cancel, run, telemetryChan, failures, finished>>

\* Stop cancels the context Run created, if there is one.
Stop ==
  /\ Cancel # "called"
  /\ Cancel' = IF Cancel = "nil" THEN "nil" ELSE "called"
  /\ UNCHANGED <<parentDone, run, goroutine, wg, telemetryChan, failures, finished>>

CancelParent ==
  /\ ~parentDone
  /\ parentDone' = TRUE
  /\ UNCHANGED <<Cancel, run, goroutine, wg, telemetryChan, failures, finished>>

\* The telemetry worker takes an event.
TakeTelemetry ==
  /\ telemetryChan > 0
  /\ telemetryChan' = telemetryChan - 1
  /\ UNCHANGED <<parentDone, Cancel, run, goroutine, wg, failures, finished>>

Supervise(w) == Start(w) \/ Loop(w) \/ ReturnCtxErr(w) \/ Decide(w) \/ Backoff(w)

Next ==
  \/ Run \/ Wait \/ Stop \/ CancelParent \/ TakeTelemetry
  \/ \E w \in Workers :
       \/ Supervise(w)
       \/ ReturnNil(w)
       \/ ReturnErr(w)
       \/ \E sent \in BOOLEAN : Panic(w, sent)

Spec == Init /\ [][Next]_vars

(* The scheduler runs every goroutine; whether and how a worker fails or   *)
(* finishes by itself is left open.                                        *)
Fairness ==
  /\ WF_vars(Run)
  /\ WF_vars(Wait)
  /\ \A w \in Workers : WF_vars(Supervise(w))

FairSpec == Spec /\ Fairness
-----------------------------------------------------------------------------
(* Every variable keeps its type.                                          *)
TypeOK ==
  /\ parentDone \in BOOLEAN
  /\ Cancel \in {"nil", "set", "called"}
  /\ run \in {"idle", "starting", "returned"}
  /\ goroutine \in [Workers -> {"none", "loop", "running", "failed", "backoff", "done"}]
  /\ wg \in Int
  /\ telemetryChan \in 0 .. BufferSize
  /\ failures \in [Workers -> Nat]
  /\ finished \subseteq Workers

\* Workers whose goroutine exists.
Alive == {w \in Workers : goroutine[w] \notin {"none", "done"}}

(* The WaitGroup counts the goroutines that exist, whatever path they      *)
(* leave by, so it never goes negative, and when Run has returned every    *)
(* worker was started and none is left ("Wait for the end of all           *)
(* goroutines via WaitGroup").                                             *)
WaitGroupIsExact ==
  /\ wg = Cardinality(Alive)
  /\ run = "returned" => \A w \in Workers : goroutine[w] = "done"

(* A worker is given up only if it returned nil or the context has ended:  *)
(* no number of errors or panics, and no full telemetry channel, ends its  *)
(* supervision.                                                            *)
NeverGivenUp == \A w \in Workers : goroutine[w] = "done" => w \in finished \/ CtxDone

(* A worker that failed runs again, unless the context ends ("In case of a *)
(* panic, the Supervisor recovers, logs the failure, and restarts the      *)
(* worker automatically", README.md).                                      *)
FailedIsRestarted ==
  \A w \in Workers : goroutine[w] = "failed" ~> goroutine[w] = "running" \/ CtxDone

(* Once the context has ended, Run returns ("Shutdown properly if parent   *)
(* context is canceled", supervisor.go:18), or a worker that does not look *)
(* at its context keeps it waiting.                                        *)
CancelEndsRun ==
  CtxDone ~> run = "returned" \/ \E w \in Stubborn : goroutine[w] = "running"
=============================================================================
