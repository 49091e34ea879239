---------------------------- MODULE Supervision -----------------------------
(***************************************************************************)
(* Supervisor (appcore-supervisor/src/supervisor*.rs), its bounded restart *)
(* executor (restart_executor.rs) and the CallbackManagedService adapter   *)
(* (adapters.rs) through which it starts and stops its services.           *)
(*                                                                         *)
(* One thread calls reconcile; one operator thread calls start, stop,      *)
(* restart and shutdown; the workers of the executor run restarts.  The    *)
(* records, each adapter's state and the two queues have locks of their    *)
(* own, and every section under a lock is a step: schedule_restart takes   *)
(* the records' lock three times, a dispatch twice.  Time is relative: the *)
(* ages of the attempts in the window and the wait of a scheduled restart, *)
(* and a call's timestamp is the time of its steps.  Every service's mode  *)
(* is OnFailure; a service of mode Never is never restarted.               *)
(* The runtime_state of a record is read by diagnostics only, and left out.*)
(***************************************************************************)
EXTENDS Integers, Sequences, FiniteSets, SequencesExt, ServiceGraph

CONSTANTS
  Services,        \* the registered services
  Dependencies,    \* per service: a set of [service, requirement]
  Disabled,        \* services that are not enabled
  Workers,
  Budget, Window,  \* RestartPolicy.restart_budget, restart_window (in ticks)
  Backoff,         \* backoff and jitter, in ticks
  Capacity,        \* of the command queue; completions: Capacity + workers
  MaxDisturbances, \* bound: failures and calls of the operator, together
  NoOne

VARIABLES
  record,      \* per service: RuntimeRecord
  adapter,     \* per service: the adapter's runtime_state
  sick,        \* services whose health probe reports Failed
  gate,        \* per service: who holds the adapter's lifecycle mutex
  round,       \* the reconcile thread: its place and what it has left to do
  operator,    \* the operator thread: its call and its place in it
  commands, completions,
  worker,      \* per worker: its place, service and outcome
  executorStopped,   \* the executor's cancellation flag
  owed,        \* history: attempts paid from the budget and not dispatched
  disturbances

supervisionVars == <<record, adapter, sick, gate, round, operator, commands, completions,
                     worker, executorStopped, owed, disturbances>>

Enabled(s) == s \notin Disabled
Order == TopologicalOrder(Dependencies)

\* A set of services whose graph is not valid is refused before any is started.
ASSUME GraphAssumption ==
  DOMAIN Dependencies = Services /\ Services \subseteq Nodes /\ GraphIsValid(Dependencies)

ASSUME SupervisionAssumption ==
  /\ {Budget, Window, Backoff, Capacity, MaxDisturbances} \subseteq Nat
  /\ NoOne \notin Services \cup Workers

Resting == [at |-> "idle", todo |-> <<>>, due |-> <<>>]
NoCall == [op |-> "none", at |-> "idle", service |-> NoOne, rest |-> <<>>]
Free == [at |-> "check", service |-> NoOne, outcome |-> "none"]

NewRecord == [health |-> "None", restart |-> "None", wait |-> 0, ages |-> <<>>,
              quarantined |-> FALSE]

\* start_all has run: the enabled services are up.
SupervisionInit ==
  /\ record = [s \in Services |-> IF Enabled(s) THEN [NewRecord EXCEPT !.health = "Ready"]
                                                ELSE NewRecord]
  /\ adapter = [s \in Services |-> IF Enabled(s) THEN "Running" ELSE "Stopped"]
  /\ sick = {}
  /\ gate = [s \in Services |-> NoOne]
  /\ round = Resting
  /\ operator = NoCall
  /\ commands = <<>> /\ completions = <<>>
  /\ worker = [w \in Workers |-> Free]
  /\ executorStopped = FALSE
  /\ owed = [s \in Services |-> 0]
  /\ disturbances = 0

-----------------------------------------------------------------------------
(* The adapter.                                                            *)

\* health: the probe is asked only while the adapter says Ready.
HealthOf(s) ==
  CASE adapter[s] = "Running" -> IF s \in sick THEN "Failed" ELSE "Ready"
    [] adapter[s] \in {"Failed", "Orphaned"} -> "Failed"
    [] adapter[s] = "Stopped" -> "Unknown"
    [] OTHER -> adapter[s]

\* Every dependency but an optional one must be registered, and healthy enough.
Available(s) ==
  \A d \in Dependencies[s] :
    d.requirement = "Optional" \/ Accepts(d.requirement, HealthOf(d.service))

\* acquire_lifecycle and the set_state that follows it: refused at once while
\* another call is in progress, and for good once the service is orphaned.
Admits(s) == gate[s] = NoOne /\ adapter[s] # "Orphaned"

Enter(s, who, state) ==
  /\ Admits(s)
  /\ gate' = [gate EXCEPT ![s] = who]
  /\ adapter' = [adapter EXCEPT ![s] = state]

\* A callback returns; an error or a panic of stop orphans the service.
Leave(s, state) ==
  /\ gate' = [gate EXCEPT ![s] = NoOne]
  /\ adapter' = [adapter EXCEPT ![s] = state]
  /\ sick' = IF state = "Running" THEN sick \ {s} ELSE sick

Disturb == disturbances < MaxDisturbances /\ disturbances' = disturbances + 1

\* The resource fails while it runs.
ResourceFails(s) ==
  /\ adapter[s] = "Running" /\ s \notin sick
  /\ Disturb
  /\ sick' = sick \cup {s}
  /\ UNCHANGED <<record, adapter, gate, round, operator, commands, completions, worker,
                 executorStopped, owed>>

-----------------------------------------------------------------------------
(* Records and the restart budget.                                         *)

Active(s) ==
  record[s].quarantined \/ record[s].restart \in {"Scheduled", "Stopping"}

Recent(s) ==
  Retained(record[s].ages, {i \in DOMAIN record[s].ages : record[s].ages[i] < Window})

\* consume_restart_budget, one section: the attempt is paid for, or the service
\* is quarantined.
Consumed(s) ==
  IF Len(Recent(s)) >= Budget
  THEN [record EXCEPT ![s].health = "Failed", ![s].quarantined = TRUE, ![s].ages = Recent(s)]
  ELSE [record EXCEPT ![s].ages = Append(Recent(s), 0)]

Exhausted(s) == Len(Recent(s)) >= Budget

Scheduled(s) == [record EXCEPT ![s].restart = "Scheduled", ![s].wait = Backoff]

Tick ==
  /\ \E s \in Services : record[s].wait > 0 \/ \E i \in DOMAIN record[s].ages :
                                                 record[s].ages[i] < Window
  /\ record' = [s \in Services |->
       [record[s] EXCEPT
          !.wait = IF @ > 0 THEN @ - 1 ELSE 0,
          !.ages = [i \in DOMAIN @ |-> IF @[i] < Window THEN @[i] + 1 ELSE @[i]]]]
  /\ UNCHANGED <<adapter, sick, gate, round, operator, commands, completions, worker,
                 executorStopped, owed, disturbances>>

-----------------------------------------------------------------------------
(* reconcile.                                                              *)

RoundOnly ==
  UNCHANGED <<adapter, sick, gate, operator, commands, worker, executorStopped, disturbances>>

\* drain_completions; then the services are visited, dependencies first.
RoundStarts ==
  /\ round.at = "idle"
  /\ round' = [round EXCEPT !.at = "apply", !.todo = completions]
  /\ completions' = <<>>
  /\ RoundOnly /\ UNCHANGED <<record, owed>>

\* Slip: a failed restart leaves the record's restart in progress.
AppliedUnlessFailed(c) ==
  CASE c.outcome = "Restarted" ->
         [record EXCEPT ![c.service].restart = "None",
                        ![c.service].health = HealthOf(c.service)]
    [] c.outcome = "Orphaned" ->
         [record EXCEPT ![c.service].restart = "Failed", ![c.service].health = "Failed",
                        ![c.service].quarantined = TRUE]
    [] OTHER -> [record EXCEPT ![c.service].health = "Failed"]

\* apply_restart_completion reads the adapter's health when it is applied.
Applied(c) ==
  CASE c.outcome = "Restarted" ->
         [record EXCEPT ![c.service].restart = "None",
                        ![c.service].health = HealthOf(c.service)]
    [] c.outcome = "Orphaned" ->
         [record EXCEPT ![c.service].restart = "Failed", ![c.service].health = "Failed",
                        ![c.service].quarantined = TRUE]
    [] OTHER ->
         [record EXCEPT ![c.service].restart = "Failed", ![c.service].health = "Failed"]

ApplyCompletion ==
  /\ round.at = "apply"
  /\ IF round.todo # <<>>
     THEN /\ record' = Applied(Head(round.todo))
          /\ round' = [round EXCEPT !.todo = Tail(@)]
     ELSE /\ round' = [round EXCEPT !.at = "visit", !.todo = Order]
          /\ UNCHANGED record
  /\ RoundOnly /\ UNCHANGED <<completions, owed>>

Visiting == round.at = "visit" /\ round.todo # <<>>
Visited == [round EXCEPT !.at = "visit", !.todo = Tail(@)]

\* reconcile_service up to schedule_restart's first look at the record.  A
\* service whose dependencies are not there is Degraded and not restarted.
VisitService ==
  /\ Visiting
  /\ LET s == Head(round.todo)
         h == IF Available(s) THEN HealthOf(s) ELSE "Degraded"
     IN /\ record' = IF Enabled(s) THEN [record EXCEPT ![s].health = h] ELSE record
        /\ round' = IF Enabled(s) /\ h = "Failed"
                    THEN [round EXCEPT !.at = "check"] ELSE Visited
  /\ RoundOnly /\ UNCHANGED <<completions, owed>>

RoundChecks ==
  /\ round.at = "check"
  /\ LET s == Head(round.todo)
     IN round' = IF Active(s) THEN Visited ELSE [round EXCEPT !.at = "consume"]
  /\ RoundOnly /\ UNCHANGED <<record, completions, owed>>

Pay(s) == owed' = [owed EXCEPT ![s] = IF Exhausted(s) THEN @ ELSE @ + 1]

\* An exhausted budget does not end the round.
RoundConsumes ==
  /\ round.at = "consume"
  /\ LET s == Head(round.todo)
     IN /\ record' = Consumed(s)
        /\ Pay(s)
        /\ round' = IF Exhausted(s) THEN Visited ELSE [round EXCEPT !.at = "schedule"]
  /\ RoundOnly /\ UNCHANGED completions

RoundSchedules ==
  /\ round.at = "schedule"
  /\ record' = Scheduled(Head(round.todo))
  /\ round' = Visited
  /\ RoundOnly /\ UNCHANGED <<completions, owed>>

Due(s) == record[s].restart = "Scheduled" /\ record[s].wait = 0

\* dispatch_due_restarts: the due services, then one by one.
CollectDue ==
  /\ round.at = "visit" /\ round.todo = <<>>
  /\ round' = [round EXCEPT !.at = "dispatch",
                            !.due = Retained(Names, {i \in DOMAIN Names :
                                       Names[i] \in Services /\ Due(Names[i])})]
  /\ RoundOnly /\ UNCHANGED <<record, completions, owed>>

\* schedule: a full queue leaves the restart scheduled, a stopped executor ends
\* the round with its error.
Dispatch ==
  /\ round.at = "dispatch" /\ round.due # <<>> /\ ~executorStopped
  /\ IF Len(commands) < Capacity
     THEN /\ commands' = Append(commands, Head(round.due))
          /\ owed' = [owed EXCEPT ![Head(round.due)] = @ - 1]
          /\ round' = [round EXCEPT !.at = "mark"]
     ELSE /\ round' = [round EXCEPT !.due = Tail(@)]
          /\ UNCHANGED <<commands, owed>>
  /\ UNCHANGED <<record, adapter, sick, gate, operator, completions, worker, executorStopped,
                 disturbances>>

\* Slip: the dispatched restart stays scheduled.
MarkDispatchedLater ==
  /\ round.at = "mark"
  /\ round' = [round EXCEPT !.at = "dispatch", !.due = Tail(@)]
  /\ RoundOnly /\ UNCHANGED <<record, completions, owed>>

MarkDispatched ==
  /\ round.at = "mark"
  /\ record' = [record EXCEPT ![Head(round.due)].restart = "Stopping"]
  /\ round' = [round EXCEPT !.at = "dispatch", !.due = Tail(@)]
  /\ RoundOnly /\ UNCHANGED <<completions, owed>>

RoundEnds ==
  /\ round.at = "dispatch"
  /\ round.due = <<>> \/ executorStopped
  /\ round' = Resting
  /\ RoundOnly /\ UNCHANGED <<record, completions, owed>>

Reconcile ==
  \/ RoundStarts \/ ApplyCompletion \/ VisitService \/ RoundChecks \/ RoundConsumes
  \/ RoundSchedules \/ CollectDue \/ Dispatch \/ MarkDispatched \/ RoundEnds

-----------------------------------------------------------------------------
(* The workers.                                                            *)

WorkerOnly == UNCHANGED <<record, round, operator, executorStopped, owed>>

Step(w, at) == worker' = [worker EXCEPT ![w].at = at]
Outcome(w, o) == worker' = [worker EXCEPT ![w].at = "report", ![w].outcome = o]

\* The flag is looked at before a command is waited for, not after.
WorkerLooks(w) ==
  /\ worker[w].at = "check"
  /\ Step(w, IF executorStopped THEN "gone" ELSE "wait")
  /\ WorkerOnly /\ UNCHANGED <<adapter, sick, gate, commands, completions, disturbances>>

\* recv_timeout: a command, or nothing within 25 ms, or the sender is gone.
WorkerReceives(w) ==
  /\ worker[w].at = "wait"
  /\ IF commands # <<>>
     THEN /\ worker' = [worker EXCEPT ![w] = [at |-> "stop", service |-> Head(commands),
                                              outcome |-> "none"]]
          /\ commands' = Tail(commands)
     ELSE /\ Step(w, "check")
          /\ UNCHANGED commands
  /\ WorkerOnly /\ UNCHANGED <<adapter, sick, gate, completions, disturbances>>

\* execute_restart: stop is refused, or its callback begins.
WorkerStops(w) ==
  LET s == worker[w].service IN
  /\ worker[w].at = "stop"
  /\ IF Admits(s)
     THEN Enter(s, w, "Stopping") /\ Step(w, "stopping")
     ELSE /\ Outcome(w, IF adapter[s] = "Orphaned" THEN "Orphaned" ELSE "Failed")
          /\ UNCHANGED <<gate, adapter>>
  /\ WorkerOnly /\ UNCHANGED <<sick, commands, completions, disturbances>>

WorkerStopped(w) ==
  LET s == worker[w].service IN
  /\ worker[w].at = "stopping"
  /\ \/ Leave(s, "Stopped") /\ UNCHANGED disturbances
        /\ IF executorStopped THEN Outcome(w, "Cancelled") ELSE Step(w, "start")
     \/ Disturb /\ Leave(s, "Orphaned") /\ Outcome(w, "Orphaned")
  /\ WorkerOnly /\ UNCHANGED <<commands, completions>>

WorkerStarts(w) ==
  LET s == worker[w].service IN
  /\ worker[w].at = "start"
  /\ IF Admits(s)
     THEN Enter(s, w, "Starting") /\ Step(w, "starting")
     ELSE Outcome(w, "Failed") /\ UNCHANGED <<gate, adapter>>
  /\ WorkerOnly /\ UNCHANGED <<sick, commands, completions, disturbances>>

WorkerStarted(w) ==
  LET s == worker[w].service IN
  /\ worker[w].at = "starting"
  /\ \/ Leave(s, "Running") /\ Outcome(w, "Restarted") /\ UNCHANGED disturbances
     \/ Disturb /\ Leave(s, "Failed") /\ Outcome(w, "Failed")
  /\ WorkerOnly /\ UNCHANGED <<commands, completions>>

\* send_completion: retried while the queue is full, dropped after cancellation.
WorkerReports(w) ==
  /\ worker[w].at = "report"
  /\ executorStopped \/ Len(completions) < Capacity + Cardinality(Workers)
  /\ completions' = IF executorStopped THEN completions
                    ELSE Append(completions, [service |-> worker[w].service,
                                              outcome |-> worker[w].outcome])
  /\ worker' = [worker EXCEPT ![w] = Free]
  /\ WorkerOnly /\ UNCHANGED <<adapter, sick, gate, commands, disturbances>>

WorkerStep(w) ==
  \/ WorkerLooks(w) \/ WorkerReceives(w) \/ WorkerStops(w) \/ WorkerStopped(w)
  \/ WorkerStarts(w) \/ WorkerStarted(w) \/ WorkerReports(w)

-----------------------------------------------------------------------------
(* The operator.                                                           *)

OperatorOnly == UNCHANGED <<round, worker>>

Call(op, s, at) ==
  /\ operator = NoCall
  /\ Disturb
  /\ operator' = [op |-> op, at |-> at, service |-> s, rest |-> <<>>]

At(op, at) == operator.op = op /\ operator.at = at
Go(at) == operator' = [operator EXCEPT !.at = at]
Returns == operator' = NoCall
SetHealth(s, h) == record' = [record EXCEPT ![s].health = h]

\* start, for an enabled service whose dependencies are available.
OperatorStarts(s) ==
  /\ Enabled(s) /\ Available(s)
  /\ Call("start", s, "enter")
  /\ UNCHANGED <<record, adapter, sick, gate, round, commands, completions, worker, executorStopped,
                 owed>>

OperatorStop(s) ==
  /\ Enabled(s)
  /\ Call("stop", s, "enter")
  /\ UNCHANGED <<record, adapter, sick, gate, round, commands, completions, worker, executorStopped,
                 owed>>

\* restart: the dependencies, then schedule_restart.
OperatorRestarts(s) ==
  /\ Available(s)
  /\ Call("restart", s, "check")
  /\ UNCHANGED <<record, adapter, sick, gate, round, commands, completions, worker, executorStopped,
                 owed>>

OperatorChecks ==
  /\ At("restart", "check")
  /\ IF Active(operator.service) THEN Returns ELSE Go("consume")
  /\ OperatorOnly
  /\ UNCHANGED <<record, adapter, sick, gate, commands, completions, executorStopped, owed, disturbances>>

OperatorConsumes ==
  LET s == operator.service IN
  /\ At("restart", "consume")
  /\ record' = Consumed(s)
  /\ Pay(s)
  /\ IF Exhausted(s) THEN Returns ELSE Go("schedule")
  /\ OperatorOnly
  /\ UNCHANGED <<adapter, sick, gate, commands, completions, executorStopped, disturbances>>

OperatorSchedules ==
  /\ At("restart", "schedule")
  /\ record' = Scheduled(operator.service)
  /\ Returns
  /\ OperatorOnly
  /\ UNCHANGED <<adapter, sick, gate, commands, completions, executorStopped, owed, disturbances>>

\* After a stop, shutdown goes on with the next service, even after an error.
Continue ==
  IF operator.op = "shutdown" /\ operator.rest # <<>>
  THEN operator' = [operator EXCEPT !.at = "enter", !.service = Head(operator.rest),
                                    !.rest = Tail(@)]
  ELSE Returns

\* record_stop_failure, or the failed start: an orphan is quarantined.
Refused(s) ==
  IF operator.op # "start" /\ adapter[s] = "Orphaned"
  THEN [record EXCEPT ![s].restart = "Failed", ![s].health = "Failed", ![s].quarantined = TRUE]
  ELSE [record EXCEPT ![s].health = "Failed"]

OperatorEnters ==
  LET s == operator.service IN
  /\ operator.at = "enter"
  /\ IF Admits(s)
     THEN /\ Enter(s, "operator", IF operator.op = "start" THEN "Starting" ELSE "Stopping")
          /\ Go("callback")
          /\ UNCHANGED record
     ELSE record' = Refused(s) /\ Continue /\ UNCHANGED <<gate, adapter>>
  /\ OperatorOnly /\ UNCHANGED <<sick, commands, completions, executorStopped, owed, disturbances>>

\* The callback returns; the record is written in a later section.
OperatorCallback ==
  LET s == operator.service IN
  /\ operator.at = "callback"
  /\ \/ /\ Leave(s, IF operator.op = "start" THEN "Running" ELSE "Stopped")
        /\ Go("succeeded") /\ UNCHANGED disturbances
     \/ /\ Disturb
        /\ Leave(s, IF operator.op = "start" THEN "Failed" ELSE "Orphaned")
        /\ Go("failed")
  /\ OperatorOnly /\ UNCHANGED <<record, commands, completions, executorStopped, owed>>

OperatorRecords ==
  LET s == operator.service IN
  /\ operator.at \in {"succeeded", "failed"}
  /\ IF operator.at = "failed" THEN record' = Refused(s)
     ELSE SetHealth(s, IF operator.op = "start" THEN HealthOf(s) ELSE "Unknown")
  /\ Continue
  /\ OperatorOnly
  /\ UNCHANGED <<adapter, sick, gate, commands, completions, executorStopped, owed, disturbances>>

\* shutdown: cancellation first.
OperatorShutsDown ==
  /\ Call("shutdown", NoOne, "cancelled")
  /\ executorStopped' = TRUE
  /\ UNCHANGED <<record, adapter, sick, gate, round, commands, completions, worker, owed>>

\* The workers are waited for, ten seconds at most; what they left is dropped and
\* the services are stopped, dependents first.
OperatorDrains ==
  /\ At("shutdown", "cancelled")
  /\ commands' = <<>> /\ completions' = <<>>
  /\ LET order == Reverse(Order)
         enabled == Retained(order, {i \in DOMAIN order : Enabled(order[i])})
     IN IF enabled = <<>> THEN Returns
        ELSE operator' = [operator EXCEPT !.at = "enter", !.service = Head(enabled),
                                          !.rest = Tail(enabled)]
  /\ OperatorOnly /\ UNCHANGED <<record, adapter, sick, gate, executorStopped, owed, disturbances>>

OperatorStep ==
  \/ OperatorChecks \/ OperatorConsumes \/ OperatorSchedules \/ OperatorEnters
  \/ OperatorCallback \/ OperatorRecords \/ OperatorDrains

SupervisionNext ==
  \/ Reconcile
  \/ \E w \in Workers : WorkerStep(w)
  \/ \E s \in Services : OperatorStarts(s) \/ OperatorStop(s) \/ OperatorRestarts(s)
  \/ OperatorShutsDown
  \/ OperatorStep
  \/ \E s \in Services : ResourceFails(s)
  \/ Tick

SupervisionSpec == SupervisionInit /\ [][SupervisionNext]_supervisionVars

-----------------------------------------------------------------------------
(* Properties.                                                             *)

\* Workers never execute more restarts of a service than its budget paid for, and
\* no window holds more attempts than the budget, though the reconcile thread and
\* an operator may schedule the same service at once
\* (supervisor_restart.rs, consume_restart_budget).
RestartsArePaidFor ==
  \A s \in Services : owed[s] >= 0 /\ Len(Recent(s)) <= Budget

\* An enabled service that failed with its dependencies available does not stay
\* so unattended: it runs again, or is quarantined for the operator, or was
\* stopped, or the supervisor is being shut down.
FailureIsAnswered ==
  \A s \in Services :
    (Enabled(s) /\ HealthOf(s) = "Failed") ~>
      (HealthOf(s) # "Failed" \/ record[s].quarantined \/ executorStopped \/ ~Available(s))

\* "Automatic lifecycle actions are disabled pending operator action" (health.rs):
\* no restart of a quarantined service is handed to the workers.
QuarantineDisablesRestarts ==
  [][\A s \in Services : owed'[s] < owed[s] => ~record[s].quarantined]_supervisionVars
=============================================================================
