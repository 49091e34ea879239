---------------------------- MODULE ManagedThread ---------------------------
(***************************************************************************)
(* ManagedThreadService (appcore-supervisor/src/adapters.rs): the adapter  *)
(* that gives one cooperatively cancellable thread the lifecycle of a      *)
(* managed service.  Lifecycle callers are the restart workers and the     *)
(* threads that call Supervisor::start, stop and shutdown.                 *)
(*                                                                         *)
(* The state mutex is released while stop waits for the thread, with the   *)
(* runtime taken out of the state.  A thread may end by itself, panic, or  *)
(* ignore the request to stop past the deadline.                           *)
(***************************************************************************)
CONSTANTS
  Callers,
  Instances,  \* threads the factory can create
  None

ASSUME ThreadAssumption == None \notin Instances

VARIABLES
  health, runtimeState,
  runtime,    \* ThreadState.runtime: the instance, or None
  thread,     \* per instance: "unused", "live", "returned", "panicked"
  cancelled,  \* instances whose shutdown flag is set
  stopping    \* per caller: the instance its stop waits for, or None

vars == <<health, runtimeState, runtime, thread, cancelled, stopping>>

Healths == {"Unknown", "Ready", "Failed", "Stopping"}
\* Starting and StopRequested are overwritten before the mutex is released.
RuntimeStates == {"Stopped", "Running", "Stopping", "Orphaned", "Failed"}

\* The state as others can see it, types and all: neither of the two transient
\* states is left behind by an early return.
TypeOK ==
  /\ health \in Healths
  /\ runtimeState \in RuntimeStates
  /\ runtime \in Instances \cup {None}
  /\ thread \in [Instances -> {"unused", "live", "returned", "panicked"}]
  /\ cancelled \subseteq Instances
  /\ stopping \in [Callers -> Instances \cup {None}]

Init ==
  /\ health = "Unknown" /\ runtimeState = "Stopped"
  /\ runtime = None
  /\ thread = [i \in Instances |-> "unused"]
  /\ cancelled = {}
  /\ stopping = [c \in Callers |-> None]

Live == {i \in Instances : thread[i] = "live"}
Idle(c) == stopping[c] = None

\* refresh, which start, stop, health and runtime_state begin with: a thread that
\* has ended is joined and taken out of the state.
Stale == runtime # None /\ thread[runtime] # "live"

Refreshed ==
  IF ~Stale THEN [health |-> health, state |-> runtimeState, runtime |-> runtime]
  ELSE IF runtime \in cancelled
  THEN [health |-> "Unknown", state |-> "Stopped", runtime |-> None]
  ELSE [health |-> "Failed", state |-> "Failed", runtime |-> None]

Set(h, s, r) == health' = h /\ runtimeState' = s /\ runtime' = r

\* health and runtime_state.
Observe ==
  /\ Stale
  /\ Set(Refreshed.health, Refreshed.state, Refreshed.runtime)
  /\ UNCHANGED <<thread, cancelled, stopping>>

-----------------------------------------------------------------------------
\* Slip: an orphan does not keep start from creating a thread.
MayStartBesideOrphan == Refreshed.runtime = None \/ Refreshed.state = "Orphaned"

MayStart == Refreshed.state # "Orphaned" /\ Refreshed.runtime = None

Start(c, i) ==
  /\ Idle(c)
  /\ MayStart
  /\ thread[i] = "unused"
  /\ thread' = [thread EXCEPT ![i] = "live"]
  /\ Set("Ready", "Running", i)
  /\ UNCHANGED <<cancelled, stopping>>

\* The factory fails or panics.
StartFails(c) ==
  /\ Idle(c)
  /\ MayStart
  /\ Set("Failed", "Failed", None)
  /\ UNCHANGED <<thread, cancelled, stopping>>

\* stop, up to the unlock: the runtime is taken out of the state.
Stop(c) ==
  /\ Idle(c)
  /\ Refreshed.state # "Orphaned"
  /\ Refreshed.runtime # None
  /\ cancelled' = cancelled \cup {Refreshed.runtime}
  /\ stopping' = [stopping EXCEPT ![c] = Refreshed.runtime]
  /\ Set("Stopping", "Stopping", None)
  /\ UNCHANGED thread

\* Nothing to stop.
StopNothing(c) ==
  /\ Idle(c)
  /\ Refreshed.state # "Orphaned"
  /\ Refreshed.runtime = None
  /\ Set("Unknown", "Stopped", None)
  /\ UNCHANGED <<thread, cancelled, stopping>>

\* The thread has ended within the deadline; its own error is passed on.
StopCompletes(c) ==
  /\ ~Idle(c)
  /\ thread[stopping[c]] = "returned"
  /\ stopping' = [stopping EXCEPT ![c] = None]
  /\ Set("Unknown", "Stopped", runtime)
  /\ UNCHANGED <<thread, cancelled>>

\* The thread has panicked: join's error returns before the state is written.
StopPanicked(c) ==
  /\ ~Idle(c)
  /\ thread[stopping[c]] = "panicked"
  /\ stopping' = [stopping EXCEPT ![c] = None]
  /\ UNCHANGED <<health, runtimeState, runtime, thread, cancelled>>

\* Slip: the orphan's handle is dropped.
StopTimesOutDetached(c) ==
  /\ ~Idle(c)
  /\ stopping[c] \in Live
  /\ stopping' = [stopping EXCEPT ![c] = None]
  /\ Set("Failed", "Failed", None)
  /\ UNCHANGED <<thread, cancelled>>

\* The deadline passes first: the instance goes back, orphaned.
StopTimesOut(c) ==
  /\ ~Idle(c)
  /\ stopping[c] \in Live
  /\ stopping' = [stopping EXCEPT ![c] = None]
  /\ Set("Failed", "Orphaned", stopping[c])
  /\ UNCHANGED <<thread, cancelled>>

ThreadEnds(i, how) ==
  /\ thread[i] = "live"
  /\ thread' = [thread EXCEPT ![i] = how]
  /\ UNCHANGED <<health, runtimeState, runtime, cancelled, stopping>>

Next ==
  \/ \E c \in Callers :
       \/ \E i \in Instances : Start(c, i)
       \/ StartFails(c) \/ Stop(c) \/ StopNothing(c)
       \/ StopCompletes(c) \/ StopPanicked(c) \/ StopTimesOut(c)
  \/ \E i \in Instances, how \in {"returned", "panicked"} : ThreadEnds(i, how)
  \/ Observe

Spec == Init /\ [][Next]_vars

-----------------------------------------------------------------------------
(* Properties.                                                             *)

\* "An orphaned thread is quarantined and cannot be replaced in-process": at no
\* time do two threads of the service live, however stop, its deadline and a
\* thread that ends late fall together.
OneInstance == \A i, j \in Live : i = j

\* Every live thread can still be told to stop: the state or a stop in progress
\* holds its handle and its flag.
LiveThreadsAreOwned ==
  \A i \in Live : i = runtime \/ \E c \in Callers : stopping[c] = i

=============================================================================
