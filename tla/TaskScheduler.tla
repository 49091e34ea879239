--------------------------- MODULE TaskScheduler ----------------------------
(***************************************************************************)
(* The local scheduler (appcore-scheduler/src/runtime.rs): callers that    *)
(* register, cancel and shut down, the coordinator thread that selects due *)
(* tasks, and the worker threads that run their callbacks.                 *)
(*                                                                         *)
(* The state mutex makes each section that holds it one step, except the   *)
(* coordinator's scan: TaskHandle::cancel takes no lock and may fall       *)
(* between its retain and its selection.  The atomics `active` and         *)
(* `shutdown` are read and written outside the lock, in steps of their     *)
(* own.  The wait on the condition variable ends at the latest after       *)
(* poll_interval, so the coordinator may resume at any time.  The clock is *)
(* the wall clock up to the end of its range; a deadline beyond it is the  *)
(* overflow checked_add reports.                                           *)
(***************************************************************************)
EXTENDS Naturals, FiniteSets

CONSTANTS
  Callers,        \* threads that use the scheduler
  Threads,        \* worker threads; one more than may run at once
  TaskIds,
  Absent, Free,
  Kind,           \* per task: "once", "interval" or "cron"
  Priority,       \* per task
  MaxAttempts,    \* per task: RetryPolicy.max_attempts
  Every,          \* interval between executions
  RetryDelays,    \* what retry_delay may return, jitter included
  Starts,         \* run_at and start_at of the registrations
  MaxTasks,       \* SchedulerConfig.max_tasks
  MaxConcurrent,  \* SchedulerConfig.max_concurrent_tasks
  MaxTime,        \* end of the clock's range
  MaxSchedules    \* bound on registrations

ASSUME SchedulerAssumption ==
  /\ IsFiniteSet(Threads) /\ IsFiniteSet(TaskIds)
  /\ Kind \in [TaskIds -> {"once", "interval", "cron"}]
  /\ Priority \in [TaskIds -> Nat]
  /\ MaxAttempts \in [TaskIds -> Nat \ {0}]
  /\ {Every, MaxTasks, MaxConcurrent, MaxTime, MaxSchedules} \subseteq Nat
  /\ Every > 0 /\ MaxTasks > 0 /\ MaxConcurrent > 0
  /\ RetryDelays \subseteq Nat /\ RetryDelays # {}
  /\ Starts \subseteq 0..MaxTime
  /\ Cardinality(Threads) > MaxConcurrent
  /\ Free \notin TaskIds

VARIABLES
  entry,      \* SchedulerState.tasks: a TaskEntry, or Absent
  shutdown,
  active,     \* callbacks counted as executing
  sequence,   \* registrations so far
  coord,      \* coordinator: [pc, available, due]
  worker,     \* per thread: the task whose callback it runs or has completed
  finished,   \* threads past complete_task's locked part
  caller,     \* per caller: [pc, task, next]
  now

vars == <<entry, shutdown, active, sequence, coord, worker, finished, caller, now>>

Entry == [next : 0..MaxTime, running : BOOLEAN, attempts : Nat,
          cancelled : BOOLEAN, order : Nat]

ASSUME AbsentAssumption == Absent \notin Entry

Registered == {t \in TaskIds : entry[t] # Absent}

TypeOK ==
  /\ entry \in [TaskIds -> Entry \cup {Absent}]
  /\ Cardinality(Registered) <= MaxTasks
  /\ shutdown \in BOOLEAN
  /\ active \in Nat
  /\ sequence \in Nat
  /\ coord \in [pc : {"loop", "scan", "select", "spawn", "wait", "join", "exited"},
                available : 0..MaxConcurrent, due : SUBSET TaskIds]
  /\ worker \in [Threads -> TaskIds \cup {Free}]
  /\ finished \in SUBSET Threads
  /\ caller \in [Callers -> [pc : {"idle", "schedule", "flagged", "joining", "returned"},
                             task : TaskIds \cup {Free}, next : 0..MaxTime]]
  /\ now \in 0..MaxTime

Init ==
  /\ entry = [t \in TaskIds |-> Absent]
  /\ shutdown = FALSE
  /\ active = 0 /\ sequence = 0
  /\ coord = [pc |-> "loop", available |-> 0, due |-> {}]
  /\ worker = [w \in Threads |-> Free]
  /\ finished = {}
  /\ caller = [c \in Callers |-> [pc |-> "idle", task |-> Free, next |-> 0]]
  /\ now = 0

Unlocked == coord.pc # "select"

-----------------------------------------------------------------------------
(* Callers.                                                                *)

Representable(S) == {t \in S : t <= MaxTime}

\* schedule_next and parse_schedule: the next executions after this instant.
Occurrences(t) ==
  Representable(CASE Kind[t] = "once" -> {}
                  [] Kind[t] = "interval" -> {now + Every}
                  [] Kind[t] = "cron" -> (now + 1)..MaxTime)

FirstRuns(t) == IF Kind[t] = "cron" THEN Occurrences(t) ELSE Starts \cup Occurrences(t)

\* Up to the lock: the first look at shutdown, validation and parsing.
Schedule(c, t) ==
  /\ caller[c].pc = "idle"
  /\ sequence < MaxSchedules
  /\ ~shutdown
  /\ \E next \in FirstRuns(t) :
       caller' = [caller EXCEPT ![c] = [pc |-> "schedule", task |-> t, next |-> next]]
  /\ UNCHANGED <<entry, shutdown, active, sequence, coord, worker, finished, now>>

\* Slip: shutdown is not looked at again under the lock.
AdmitsUnchecked(t) == entry[t] = Absent /\ Cardinality(Registered) < MaxTasks

Admits(t) ==
  /\ ~shutdown
  /\ entry[t] = Absent
  /\ Cardinality(Registered) < MaxTasks

\* Under the lock: register, or fail with Shutdown, DuplicateTask or
\* CapacityExceeded.
Register(c) ==
  /\ caller[c].pc = "schedule"
  /\ Unlocked
  /\ \/ /\ Admits(caller[c].task)
        /\ entry' = [entry EXCEPT ![caller[c].task] =
                       [next |-> caller[c].next, running |-> FALSE, attempts |-> 0,
                        cancelled |-> FALSE, order |-> sequence]]
        /\ sequence' = sequence + 1
     \/ ~Admits(caller[c].task) /\ UNCHANGED <<entry, sequence>>
  /\ caller' = [caller EXCEPT ![c] = [pc |-> "idle", task |-> Free, next |-> 0]]
  /\ UNCHANGED <<shutdown, active, coord, worker, finished, now>>

\* Scheduler::cancel under the lock and TaskHandle::cancel without it have the
\* same effect; the latter may come at any time.
Cancel(t) ==
  /\ entry[t] # Absent
  /\ ~entry[t].cancelled
  /\ entry' = [entry EXCEPT ![t].cancelled = TRUE]
  /\ UNCHANGED <<shutdown, active, sequence, coord, worker, finished, caller, now>>

\* shutdown, and Drop: the flag is set first, without the lock.
Shutdown(c) ==
  /\ caller[c].pc = "idle"
  /\ shutdown' = TRUE
  /\ caller' = [caller EXCEPT ![c].pc = "flagged"]
  /\ UNCHANGED <<entry, active, sequence, coord, worker, finished, now>>

CancelAll(c) ==
  /\ caller[c].pc = "flagged"
  /\ Unlocked
  /\ entry' = [t \in TaskIds |->
                 IF entry[t] = Absent THEN Absent ELSE [entry[t] EXCEPT !.cancelled = TRUE]]
  /\ caller' = [caller EXCEPT ![c].pc = "joining"]
  /\ UNCHANGED <<shutdown, active, sequence, coord, worker, finished, now>>

\* The coordinator's handle stays locked while the first caller joins, so every
\* caller waits for the coordinator.
ShutdownReturns(c) ==
  /\ caller[c].pc = "joining"
  /\ coord.pc = "exited"
  /\ caller' = [caller EXCEPT ![c].pc = "returned"]
  /\ UNCHANGED <<entry, shutdown, active, sequence, coord, worker, finished, now>>

-----------------------------------------------------------------------------
(* The coordinator.                                                        *)

Minus(m, n) == IF m >= n THEN m - n ELSE 0

\* Slip: running callbacks are not subtracted.
AvailableAll == MaxConcurrent

Available == Minus(MaxConcurrent, active)

\* Slip: the loop does not look at shutdown.
LoopForever ==
  /\ coord.pc = "loop"
  /\ coord' = [pc |-> "scan", available |-> Available, due |-> {}]
  /\ UNCHANGED <<entry, shutdown, active, sequence, worker, finished, caller, now>>

\* Top of the loop; `available` is computed before the lock is taken.
Loop ==
  /\ coord.pc = "loop"
  /\ coord' = IF shutdown THEN [coord EXCEPT !.pc = "join"]
              ELSE [pc |-> "scan", available |-> Available, due |-> {}]
  /\ UNCHANGED <<entry, shutdown, active, sequence, worker, finished, caller, now>>

Retain(t) == entry[t].running \/ ~entry[t].cancelled

\* Lock, then retain.
Scan ==
  /\ coord.pc = "scan"
  /\ entry' = [t \in TaskIds |-> IF entry[t] # Absent /\ Retain(t) THEN entry[t] ELSE Absent]
  /\ coord' = [coord EXCEPT !.pc = "select"]
  /\ UNCHANGED <<shutdown, active, sequence, worker, finished, caller, now>>

Due == {t \in Registered : ~entry[t].running /\ entry[t].next <= now}

\* The sort: priority, then deadline, then registration.
Before(s, t) ==
  \/ Priority[s] > Priority[t]
  \/ Priority[s] = Priority[t] /\ entry[s].next < entry[t].next
  \/ Priority[s] = Priority[t] /\ entry[s].next = entry[t].next /\ entry[s].order < entry[t].order

\* The first `available` of the due tasks.
Selection == {t \in Due : Cardinality({s \in Due : Before(s, t)}) < coord.available}

\* Mark the selection running, and unlock.
Select ==
  /\ coord.pc = "select"
  /\ entry' = [t \in TaskIds |->
                 IF t \in Selection
                 THEN [entry[t] EXCEPT !.running = TRUE, !.attempts = @ + 1] ELSE entry[t]]
  /\ coord' = [coord EXCEPT !.pc = "spawn", !.due = Selection]
  /\ UNCHANGED <<shutdown, active, sequence, worker, finished, caller, now>>

First(t) == t \in coord.due /\ \A s \in coord.due \ {t} : Before(t, s)

Spawn(t) ==
  /\ coord.pc = "spawn"
  /\ First(t)
  /\ active' = active + 1
  /\ worker' = [worker EXCEPT ![CHOOSE w \in Threads : worker[w] = Free] = t]
  /\ coord' = [coord EXCEPT !.due = @ \ {t}]
  /\ UNCHANGED <<entry, shutdown, sequence, finished, caller, now>>

Retries(t) == entry[t].attempts < MaxAttempts[t]

\* complete_task: what becomes of the entry, one outcome per possible deadline.
Outcomes(t, ok) ==
  IF entry[t] = Absent \/ shutdown \/ entry[t].cancelled THEN {Absent}
  ELSE IF ~ok /\ Retries(t)
  THEN {IF now + d <= MaxTime THEN [entry[t] EXCEPT !.running = FALSE, !.next = now + d]
        ELSE Absent : d \in RetryDelays}
  ELSE IF Occurrences(t) = {} THEN {Absent}
  ELSE {[entry[t] EXCEPT !.running = FALSE, !.attempts = 0, !.next = n] :
          n \in Occurrences(t)}

CompleteTask(t, ok) == \E e \in Outcomes(t, ok) : entry' = [entry EXCEPT ![t] = e]

\* The thread does not start; the coordinator completes the task itself, and
\* `active` is back where it was.
SpawnFails(t) ==
  /\ coord.pc = "spawn"
  /\ First(t)
  /\ CompleteTask(t, FALSE)
  /\ coord' = [coord EXCEPT !.due = @ \ {t}]
  /\ UNCHANGED <<shutdown, active, sequence, worker, finished, caller, now>>

Wait ==
  /\ coord.pc = "spawn" /\ coord.due = {}
  /\ coord' = [coord EXCEPT !.pc = IF shutdown THEN "loop" ELSE "wait"]
  /\ UNCHANGED <<entry, shutdown, active, sequence, worker, finished, caller, now>>

\* A notification or the end of poll_interval.
Wake ==
  /\ coord.pc = "wait"
  /\ coord' = [coord EXCEPT !.pc = "loop"]
  /\ UNCHANGED <<entry, shutdown, active, sequence, worker, finished, caller, now>>

Joined == \A w \in Threads : worker[w] = Free

\* After the loop: join the workers, then clear the tasks.
Exit ==
  /\ coord.pc = "join"
  /\ Joined
  /\ entry' = [t \in TaskIds |-> Absent]
  /\ coord' = [coord EXCEPT !.pc = "exited"]
  /\ UNCHANGED <<shutdown, active, sequence, worker, finished, caller, now>>

-----------------------------------------------------------------------------
(* Workers.                                                                *)

\* The callback returns or panics; complete_task up to the unlock.
Complete(w, ok) ==
  /\ worker[w] # Free
  /\ w \notin finished
  /\ Unlocked
  /\ CompleteTask(worker[w], ok)
  /\ finished' = finished \cup {w}
  /\ UNCHANGED <<shutdown, active, sequence, coord, worker, caller, now>>

\* Slip: the counter is not taken back.
LeaveUncounted(w) ==
  /\ w \in finished
  /\ worker' = [worker EXCEPT ![w] = Free]
  /\ finished' = finished \ {w}
  /\ UNCHANGED <<entry, shutdown, active, sequence, coord, caller, now>>

\* The rest of complete_task: the counter.
Leave(w) ==
  /\ w \in finished
  /\ active' = Minus(active, 1)
  /\ worker' = [worker EXCEPT ![w] = Free]
  /\ finished' = finished \ {w}
  /\ UNCHANGED <<entry, shutdown, sequence, coord, caller, now>>

Tick ==
  /\ now < MaxTime
  /\ now' = now + 1
  /\ UNCHANGED <<entry, shutdown, active, sequence, coord, worker, finished, caller>>

-----------------------------------------------------------------------------
Coordinate ==
  \/ Loop \/ Scan \/ Select \/ Wait \/ Wake \/ Exit
  \/ \E t \in TaskIds : Spawn(t) \/ SpawnFails(t)

Work(w) == Leave(w) \/ \E ok \in BOOLEAN : Complete(w, ok)

Finish(c) == Register(c) \/ CancelAll(c) \/ ShutdownReturns(c)

Next ==
  \/ \E c \in Callers : Finish(c) \/ Shutdown(c) \/ \E t \in TaskIds : Schedule(c, t)
  \/ \E t \in TaskIds : Cancel(t)
  \/ Coordinate
  \/ \E w \in Threads : Work(w)
  \/ Tick

Spec == Init /\ [][Next]_vars

\* Callbacks return, and every thread that can run eventually does.  A thread that
\* wants the state mutex gets it although the coordinator takes it again and
\* again: parking_lot's mutex is eventually fair.
FairSpec ==
  /\ Spec
  /\ WF_vars(Coordinate)
  /\ \A w \in Threads : SF_vars(Work(w))
  /\ \A c \in Callers : SF_vars(Finish(c))
  /\ WF_vars(Tick)

-----------------------------------------------------------------------------
(* Properties.                                                             *)

Executing(t) == {w \in Threads \ finished : worker[w] = t}

\* A task is marked running exactly while one callback of it executes or is about
\* to be started: no task runs twice at once, also after it was cancelled and
\* registered again, and none stays marked with nobody left to complete it.  And
\* never more of them than the "maximum callbacks executing concurrently"
\* (task.rs), although the coordinator may work with a stale `available`.
RunningIsExecuting ==
  /\ \A t \in TaskIds :
       LET runs == Executing(t) \cup (IF t \in coord.due THEN {Free} ELSE {})
       IN IF entry[t] # Absent /\ entry[t].running THEN Cardinality(runs) = 1 ELSE runs = {}
  /\ active <= MaxConcurrent
  /\ Cardinality({w \in Threads : worker[w] # Free}) = active

\* "Stops accepting work, cancels tasks and joins all worker threads": once a
\* call of shutdown returned, no callback runs and no task is registered,
\* although a registration may have been under way.
ShutdownIsFinal ==
  (\E c \in Callers : caller[c].pc = "returned") =>
    Registered = {} /\ active = 0 /\ \A w \in Threads : worker[w] = Free

\* Every call of shutdown returns once the callbacks do.
ShutdownCompletes ==
  \A c \in Callers : caller[c].pc = "flagged" ~> caller[c].pc = "returned"

\* A registered task that is due is executed, cancelled or shut down: no
\* interleaving of the scan, the workers and the counter leaves it waiting.
DueTasksRun ==
  \A t \in TaskIds : (t \in Due) ~> (t \notin Due)
=============================================================================
