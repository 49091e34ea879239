------------------------------ MODULE Watchdog ------------------------------
(***************************************************************************)
(* SupervisorWatchdog (appcore-supervisor/src/watchdog.rs): four atomics,  *)
(* no lock.  The reconcile thread reports the start and the completion of  *)
(* its cycles, any number of health probes evaluate progress               *)
(* (api/src/http/handlers.rs), and shutdown marks the watchdog stopping.   *)
(* Each load or store is a step of its own.                                *)
(***************************************************************************)
EXTENDS Naturals

CONSTANTS
  Probes,        \* threads that call evaluate_watchdog
  StallTimeout,  \* WatchdogConfig.stall_timeout_ms; enabled
  MaxTime,
  MaxCycles      \* bound on completed cycles

VARIABLES
  state,
  lastReconcile, lastProgress, sequence,
  cycle,     \* reconcile thread: its place and the timestamp of its cycle
  probe,     \* per probe: its place, timestamp, what it read and decided
  marked,    \* history: mark_stopping was called
  now

watchdogVars == <<state, lastReconcile, lastProgress, sequence, cycle, probe, marked, now>>

States == {"Starting", "Healthy", "Stalled", "Stopping"}

\* The types of the state; no timestamp of a cycle lies ahead of the clock's range.
WatchdogTypeOK ==
  /\ state \in States
  /\ {lastReconcile, lastProgress, now} \subseteq 0..MaxTime
  /\ sequence \in Nat
  /\ cycle \in [pc : {"idle", "started", "progressed", "counted", "decided"}, at : 0..MaxTime]
  /\ probe \in [Probes -> [pc : {"idle", "read", "decided"}, at : 0..MaxTime,
                           previous : States, next : States]]
  /\ marked \in BOOLEAN

ProbeResting == [pc |-> "idle", at |-> 0, previous |-> "Starting", next |-> "Starting"]

\* created_at_ms is the origin of the clock.
WatchdogInit ==
  /\ state = "Starting"
  /\ lastReconcile = 0 /\ lastProgress = 0 /\ sequence = 0
  /\ cycle = [pc |-> "idle", at |-> 0]
  /\ probe = [p \in Probes |-> ProbeResting]
  /\ marked = FALSE
  /\ now = 0

-----------------------------------------------------------------------------
(* The reconcile thread.                                                   *)

ReconcileStarts ==
  /\ cycle.pc = "idle"
  /\ lastReconcile' = now
  /\ cycle' = [pc |-> "started", at |-> now]
  /\ UNCHANGED <<state, lastProgress, sequence, probe, marked, now>>

\* reconcile returns early with an error: the cycle is not completed.
ReconcileFails ==
  /\ cycle.pc = "started"
  /\ cycle' = [pc |-> "idle", at |-> 0]
  /\ UNCHANGED <<state, lastReconcile, lastProgress, sequence, probe, marked, now>>

\* record_reconcile_completed with the timestamp reconcile was called with.
RecordProgress ==
  /\ cycle.pc = "started"
  /\ sequence < MaxCycles
  /\ lastReconcile' = cycle.at
  /\ lastProgress' = cycle.at
  /\ cycle' = [cycle EXCEPT !.pc = "progressed"]
  /\ UNCHANGED <<state, sequence, probe, marked, now>>

CountCycle ==
  /\ cycle.pc = "progressed"
  /\ sequence' = sequence + 1
  /\ cycle' = [cycle EXCEPT !.pc = "counted"]
  /\ UNCHANGED <<state, lastReconcile, lastProgress, probe, marked, now>>

\* The state is looked at, and overwritten in a later step.
LookBeforeHealthy ==
  /\ cycle.pc = "counted"
  /\ cycle' = IF state = "Stopping" THEN [pc |-> "idle", at |-> 0]
              ELSE [cycle EXCEPT !.pc = "decided"]
  /\ UNCHANGED <<state, lastReconcile, lastProgress, sequence, probe, marked, now>>

SetHealthy ==
  /\ cycle.pc = "decided"
  /\ state' = "Healthy"
  /\ cycle' = [pc |-> "idle", at |-> 0]
  /\ UNCHANGED <<lastReconcile, lastProgress, sequence, probe, marked, now>>

-----------------------------------------------------------------------------
(* Probes.                                                                 *)

Elapsed(since, until) == IF until >= since THEN until - since ELSE 0

\* Slip: a cycle that was only started counts as progress.
StalledForAnyCycle(t) == Elapsed(lastReconcile, t)

StalledFor(t) == Elapsed(lastProgress, t)

\* Slip: Stopping is overwritten like any other state.
ProbeReadsAnyState(p) ==
  /\ probe[p].pc = "idle"
  /\ probe' = [probe EXCEPT ![p] = [pc |-> "read", at |-> now, previous |-> state,
                                    next |-> state]]
  /\ UNCHANGED <<state, lastReconcile, lastProgress, sequence, cycle, marked, now>>

\* evaluate: the timestamp is the caller's, the previous state is read first.
ProbeReads(p) ==
  /\ probe[p].pc = "idle"
  /\ state # "Stopping"
  /\ probe' = [probe EXCEPT ![p] = [pc |-> "read", at |-> now, previous |-> state,
                                    next |-> state]]
  /\ UNCHANGED <<state, lastReconcile, lastProgress, sequence, cycle, marked, now>>

Verdict(t) ==
  IF StalledFor(t) > StallTimeout THEN "Stalled"
  ELSE IF sequence = 0 THEN "Starting" ELSE "Healthy"

ProbeDecides(p) ==
  /\ probe[p].pc = "read"
  /\ probe' = [probe EXCEPT ![p] =
       IF Verdict(probe[p].at) = probe[p].previous THEN ProbeResting
       ELSE [@ EXCEPT !.pc = "decided", !.next = Verdict(probe[p].at)]]
  /\ UNCHANGED <<state, lastReconcile, lastProgress, sequence, cycle, marked, now>>

ProbeSets(p) ==
  /\ probe[p].pc = "decided"
  /\ state' = probe[p].next
  /\ probe' = [probe EXCEPT ![p] = ProbeResting]
  /\ UNCHANGED <<lastReconcile, lastProgress, sequence, cycle, marked, now>>

-----------------------------------------------------------------------------
MarkStopping ==
  /\ ~marked
  /\ state' = "Stopping"
  /\ marked' = TRUE
  /\ UNCHANGED <<lastReconcile, lastProgress, sequence, cycle, probe, now>>

WatchdogTick ==
  /\ now < MaxTime
  /\ now' = now + 1
  /\ UNCHANGED <<state, lastReconcile, lastProgress, sequence, cycle, probe, marked>>

Probing(p) == ProbeReads(p) \/ ProbeDecides(p) \/ ProbeSets(p)

WatchdogNext ==
  \/ ReconcileStarts \/ ReconcileFails \/ RecordProgress \/ CountCycle
  \/ LookBeforeHealthy \/ SetHealthy
  \/ \E p \in Probes : Probing(p)
  \/ MarkStopping \/ WatchdogTick

WatchdogSpec == WatchdogInit /\ [][WatchdogNext]_watchdogVars

\* Somebody keeps probing, and time passes; the reconcile thread may hang anywhere,
\* except between the last loads and stores of a cycle it has completed.
FairSpec ==
  /\ WatchdogSpec
  /\ \A p \in Probes : WF_watchdogVars(Probing(p))
  /\ WF_watchdogVars(CountCycle \/ LookBeforeHealthy \/ SetHealthy)
  /\ WF_watchdogVars(WatchdogTick)

-----------------------------------------------------------------------------
(* Properties.                                                             *)

Overdue == Elapsed(lastProgress, now) > StallTimeout

\* A reconcile thread that hangs, or starts cycles and never completes one, is
\* reported as stalled, although probes overwrite each other's verdicts.
StallIsDetected ==
  Overdue ~> (state = "Stalled" \/ ~Overdue \/ marked)

\* A probe or a cycle that looked at the state before mark_stopping may still
\* overwrite Stopping (the look and the store are two operations); once none is on
\* its way and the state says Stopping, it says so for good.
StoppingSticks ==
  [](/\ state = "Stopping"
     /\ cycle.pc # "decided"
     /\ \A p \in Probes : probe[p].pc = "idle"
     => [](state = "Stopping"))
=============================================================================
