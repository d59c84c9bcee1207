-------------------------- MODULE SpecialistHealth --------------------------
(***************************************************************************)
(* The specialists as processes: Coordinator.Init starts them one after    *)
(* the other, the HealthMonitoringWorker samples them, GlobalMonitoring    *)
(* shows them, next to the scanner and its heartbeats.  The                *)
(* ChannelCapacityWorker and the TelemetryWorker share telemetryChan with  *)
(* the health worker.  Time is a tick of the tickers.                      *)
(***************************************************************************)
EXTENDS Naturals, Sequences, Functions

CONSTANTS
  ConfigLists,      \* the lists of specialists Init may be given, in the order
                    \* it starts them; the empty one stands for EnableSpecialists off
  Scanner,          \* the scanner's node
  ChannelSize,      \* the capacity of processTrackerChan and of telemetryChan
  Channels,         \* how many channels the capacity worker reports on
  GhostAfter,       \* ticks after which GetSnapshot shows a node as GHOST
  Deaths,           \* what is left of a dead child: on Linux a zombie, until its
                    \* parent waits for it, which the master does not; or nothing
  MayFail,          \* whether reading a process and the RPCs may fail
  MayDie            \* whether specialists and the scanner may die

Specialists == UNION {Range(l) : l \in ConfigLists}
Nodes == Specialists \cup {Scanner}

ASSUME SpecialistHealthAssumption ==
  /\ \A l \in ConfigLists : l \in Seq(Specialists) /\ IsInjective(l)
  /\ Scanner \notin Specialists
  /\ ChannelSize \in Nat \ {0} /\ Channels \in Nat /\ GhostAfter \in Nat
  /\ Deaths \subseteq {"zombie", "gone"} /\ Deaths # {}
  /\ {MayFail, MayDie} \subseteq BOOLEAN

VARIABLES
  master,     \* where the master is: Init of the Coordinator, running, ended
  configs,    \* the specialists Init is not done with
  proc,       \* proc[n]: the process of a specialist, or of the scanner
  pool,       \* Coordinator.specialists
  tracker,    \* processTrackerChan
  processes,  \* HealthMonitoringWorker.processes
  telemetry,  \* how many events telemetryChan holds
  due,        \* the tickers that have fired
  todo,       \* the processes the health worker has yet to sample
  left,       \* the channels the capacity worker has yet to report
  receiving,  \* the TelemetryWorker waits for an event
  seen, age   \* GlobalMonitoring.Nodes: the PIDStatus, and the ticks since LastSeen

bootVars == <<master, configs, pool>>
workVars == <<due, todo, left, receiving>>
nodeVars == <<seen, age>>
healthVars == <<bootVars, proc, tracker, processes, telemetry, workVars, nodeVars>>

HealthInit ==
  /\ configs \in ConfigLists
  /\ master = IF configs = <<>> THEN "run" ELSE "boot"
  /\ pool = {}
  /\ proc = [n \in Nodes |-> IF n = Scanner THEN "running" ELSE "none"]
  /\ tracker = <<>> /\ processes = {} /\ telemetry = 0
  /\ due = {} /\ todo = {} /\ left = 0 /\ receiving = FALSE
  /\ seen = [n \in Nodes |-> "never"] /\ age = [n \in Nodes |-> 0]

-----------------------------------------------------------------------------
(* Coordinator.Init and startSpecialist. *)
Current == Head(configs)
BootKeeps == UNCHANGED <<processes, telemetry, workVars, nodeVars>>

\* os.Stat and cmd.Start
StartSpecialist(ok) ==
  /\ master = "boot"
  /\ master' = IF ok THEN "wait" ELSE "failed"
  /\ proc' = [proc EXCEPT ![Current] = IF ok THEN "running" ELSE @]
  /\ UNCHANGED <<configs, pool, tracker>> /\ BootKeeps

\* Mutants: the process is left running; there is no deadline.
NotKilled(s) == proc' = proc
ReadyOnly(ok) == ok /\ proc[Current] = "running"

Killed(s) == \E d \in Deaths : proc' = [proc EXCEPT ![s] = d]
Readiness(ok) == ok => proc[Current] = "running"

\* READY before the deadline, or the process is killed and Init fails.
WaitForReady(ok) ==
  /\ master = "wait"
  /\ Readiness(ok)
  /\ master' = IF ok THEN "track" ELSE "failed"
  /\ pool' = IF ok THEN pool \cup {Current} ELSE pool
  /\ IF ok THEN UNCHANGED proc ELSE Killed(Current)
  /\ UNCHANGED <<configs, tracker>> /\ BootKeeps

\* Blocks while processTrackerChan is full: its reader is not started yet.
Track ==
  /\ master = "track"
  /\ Len(tracker) < ChannelSize
  /\ tracker' = Append(tracker, Current)
  /\ configs' = Tail(configs)
  /\ master' = IF Tail(configs) = <<>> THEN "run" ELSE "boot"
  /\ UNCHANGED <<pool, proc>> /\ BootKeeps

-----------------------------------------------------------------------------
(* HealthMonitoringWorker.Run, and UpdateNode. *)
Fires(worker) == master = "run" /\ worker \in due /\ due' = due \ {worker}

UpdateNode(n) ==
  /\ seen' = [seen EXCEPT ![n] = proc[n]]
  /\ age' = [age EXCEPT ![n] = 0]

HealthTick ==
  /\ todo = {}
  /\ Fires("health")
  /\ todo' = processes
  /\ UNCHANGED <<bootVars, proc, tracker, processes, telemetry, left, receiving, nodeVars>>

TakeProcess ==
  /\ master = "run" /\ todo = {} /\ tracker # <<>>
  /\ tracker' = Tail(tracker)
  /\ processes' = processes \cup {Head(tracker)}
  /\ UNCHANGED <<bootVars, proc, telemetry, workVars, nodeVars>>

Sample(s) ==
  /\ master = "run" /\ s \in todo
  /\ todo' = todo \ {s}
  /\ UNCHANGED <<bootVars, proc, tracker, due, left, receiving>>

\* Mutants: any error is taken for the end of the process; none is.
AnyError(s) == proc[s] = "gone" \/ MayFail
NoError(s) == FALSE

Unreachable(s) == proc[s] = "gone"

Full == telemetry >= ChannelSize

\* NewProcess finds no such process.
Forget(s) ==
  /\ Sample(s)
  /\ Unreachable(s)
  /\ processes' = processes \ {s}
  /\ UNCHANGED <<telemetry, nodeVars>>

\* The node is updated when, and only when, the event finds room.
Report(s) ==
  /\ Sample(s)
  /\ ~Unreachable(s)
  /\ ~Full
  /\ telemetry' = telemetry + 1
  /\ UpdateNode(s)
  /\ UNCHANGED processes

\* Its status cannot be read, or telemetryChan is full.
Lose(s) ==
  /\ Sample(s)
  /\ ~Unreachable(s)
  /\ MayFail \/ Full
  /\ UNCHANGED <<processes, telemetry, nodeVars>>

-----------------------------------------------------------------------------
(* ChannelCapacityWorker.Run and TelemetryWorker.Run. *)
CapacityTick ==
  /\ left = 0
  /\ Fires("capacity")
  /\ left' = Channels
  /\ UNCHANGED <<bootVars, proc, tracker, processes, telemetry, todo, receiving, nodeVars>>

ReportCapacity ==
  /\ master = "run" /\ left > 0
  /\ left' = left - 1
  /\ telemetry' = IF Full THEN telemetry ELSE telemetry + 1
  /\ UNCHANGED <<bootVars, proc, tracker, processes, due, todo, receiving, nodeVars>>

TelemetryTick ==
  /\ ~receiving
  /\ Fires("telemetry")
  /\ receiving' = TRUE
  /\ UNCHANGED <<bootVars, proc, tracker, processes, telemetry, todo, left, nodeVars>>

ReceiveTelemetry ==
  /\ master = "run" /\ receiving /\ telemetry > 0
  /\ telemetry' = telemetry - 1
  /\ receiving' = FALSE
  /\ UNCHANGED <<bootVars, proc, tracker, processes, due, todo, left, nodeVars>>

-----------------------------------------------------------------------------
(* HeartbeatWorker.Run of the scanner and ReportStatus of the master. *)
Heartbeat(ok) ==
  /\ proc[Scanner] = "running" /\ "heartbeat" \in due
  /\ due' = due \ {"heartbeat"}
  /\ IF ok /\ master = "run" THEN UpdateNode(Scanner) ELSE MayFail /\ UNCHANGED nodeVars
  /\ UNCHANGED <<bootVars, proc, tracker, processes, telemetry, todo, left, receiving>>

-----------------------------------------------------------------------------
(* The environment. *)
TickersFire ==
  /\ master = "run"
  /\ due' = {"health", "capacity", "telemetry", "heartbeat"}
  /\ age' = [n \in Nodes |-> IF age[n] > GhostAfter THEN age[n] ELSE age[n] + 1]
  /\ UNCHANGED <<bootVars, proc, tracker, processes, telemetry, todo, left, receiving, seen>>

Die(n) ==
  /\ MayDie /\ master \notin {"failed", "down"}
  /\ proc[n] = "running"
  /\ IF n = Scanner THEN proc' = [proc EXCEPT ![n] = "gone"] ELSE Killed(n)
  /\ UNCHANGED <<bootVars, tracker, processes, telemetry, workVars, nodeVars>>

\* The context is cancelled: the workers return.
Shutdown ==
  /\ MayDie /\ master = "run"
  /\ master' = "down"
  /\ UNCHANGED <<configs, pool, proc, tracker, processes, telemetry, workVars, nodeVars>>

Boot == \E ok \in BOOLEAN : StartSpecialist(ok) \/ WaitForReady(ok)
Probe(s) == Forget(s) \/ Report(s) \/ Lose(s)

HealthNext ==
  \/ Boot
  \/ Track
  \/ HealthTick \/ TakeProcess
  \/ \E s \in Specialists : Probe(s)
  \/ CapacityTick \/ ReportCapacity
  \/ TelemetryTick \/ ReceiveTelemetry
  \/ \E ok \in BOOLEAN : Heartbeat(ok)
  \/ TickersFire
  \/ \E n \in Nodes : Die(n)
  \/ Shutdown

HealthSpec == HealthInit /\ [][HealthNext]_healthVars

\* The goroutines run, the tickers tick, waiting for READY has a deadline.  A
\* select with two ready cases takes each of them now and then.
HealthFairness ==
  /\ WF_healthVars(Boot) /\ WF_healthVars(Track) /\ WF_healthVars(TickersFire)
  /\ SF_healthVars(HealthTick) /\ SF_healthVars(TakeProcess)
  /\ \A s \in Specialists : WF_healthVars(Probe(s))
  /\ WF_healthVars(CapacityTick) /\ WF_healthVars(ReportCapacity)
  /\ WF_healthVars(TelemetryTick) /\ WF_healthVars(ReceiveTelemetry)
  /\ WF_healthVars(\E ok \in BOOLEAN : Heartbeat(ok))

FairHealthSpec == HealthSpec /\ HealthFairness

-----------------------------------------------------------------------------
(* The node map, the pids and the channels keep their Go types.             *)
HealthTypeOK ==
  /\ master \in {"boot", "wait", "track", "run", "failed", "down"}
  /\ configs \in Seq(Specialists) /\ pool \subseteq Specialists
  /\ proc \in [Nodes -> {"none", "running", "zombie", "gone"}]
  /\ tracker \in Seq(Specialists) /\ Len(tracker) <= ChannelSize
  /\ processes \subseteq Specialists /\ todo \subseteq processes
  /\ telemetry \in 0 .. ChannelSize
  /\ due \subseteq {"health", "capacity", "telemetry", "heartbeat"}
  /\ left \in 0 .. Channels /\ receiving \in BOOLEAN
  /\ seen \in [Nodes -> {"never", "running", "zombie"}]
  /\ age \in [Nodes -> 0 .. GhostAfter + 1]

\* No specialist runs that the Coordinator does not know, except the one Init
\* waits for: one that does not become ready is killed "to prevent orphan
\* sidecars".
NoOrphan ==
  \A s \in Specialists :
    proc[s] = "running" => s \in pool \/ (master = "wait" /\ s = Current)

\* A specialist of the pool is on its way to the health worker or watched by
\* it, and not both; only a process that is gone is let go of.
WatchedOnce ==
  \A s \in pool :
    LET handed == ~(master = "track" /\ s = Current)
        waits == s \in Range(tracker)
    IN  /\ IsInjective(tracker)
        /\ ~(waits /\ s \in processes)
        /\ handed /\ proc[s] # "gone" => waits \/ s \in processes

\* Mutant: LastSeen is not looked at.
StatusAlways(n) == IF seen[n] = "never" THEN "absent" ELSE "ALIVE"

\* GetSnapshot
Status(n) ==
  IF seen[n] = "never" THEN "absent" ELSE IF age[n] > GhostAfter THEN "GHOST" ELSE "ALIVE"

\* Boot ends, well or badly, when processTrackerChan has room for every
\* specialist: Init never waits for ever on one of them.  With less room the
\* master never runs, because nobody reads that channel before Init returns.
BootEnds ==
  IF Len(configs) <= ChannelSize THEN <>(master \in {"run", "failed"}) ELSE [](master # "run")

\* A node whose process died does not stay on the screen as one that is alive
\* and running, whatever events are lost.
DeathIsShown ==
  \A n \in Nodes :
    (proc[n] \in {"zombie", "gone"} /\ master = "run")
      ~> (master = "down" \/ Status(n) # "ALIVE" \/ seen[n] = "zombie")

\* "If a process is no longer reachable, it is automatically removed from the
\* tracking map": once nothing is left of it, which a zombie never reaches.
DeadIsRemoved ==
  \A s \in Specialists :
    (s \in processes /\ proc[s] = "gone") ~> (master = "down" \/ s \notin processes)
=============================================================================
