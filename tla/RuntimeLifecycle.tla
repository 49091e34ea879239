-------------------------- MODULE RuntimeLifecycle --------------------------
(***************************************************************************)
(* The process lifecycle table of appcore-core (lifecycle.rs).  The table  *)
(* is data: RuntimeLifecycle::new registers it in a StateMachine and       *)
(* RuntimeLifecycle::apply looks a transition up and refuses every pair    *)
(* (state, event) that is not in it, leaving the state as it was.          *)
(***************************************************************************)

LifecycleStates ==
  {"Booting", "LoadingConfig", "CheckingSecurity", "OpeningStorage",
   "StartingApi", "Running", "Degraded", "Restricted", "ShuttingDown",
   "Stopped"}

LifecycleEvents ==
  {"ConfigLoaded", "SecurityChecked", "StorageOpened", "ApiStarted",
   "DegradedDetected", "RestrictedDetected", "ShutdownRequested",
   "ShutdownCompleted", "RecoveryCompleted"}

\* LoadingConfig has no incoming edge: ConfigLoaded leads from Booting straight
\* to CheckingSecurity, and no startup state accepts ShutdownRequested.
Transitions ==
  {<<"Booting",          "ConfigLoaded",       "CheckingSecurity">>,
   <<"CheckingSecurity", "SecurityChecked",    "OpeningStorage">>,
   <<"OpeningStorage",   "StorageOpened",      "StartingApi">>,
   <<"StartingApi",      "ApiStarted",         "Running">>,
   <<"Running",          "DegradedDetected",   "Degraded">>,
   <<"Running",          "RestrictedDetected", "Restricted">>,
   <<"Degraded",         "RecoveryCompleted",  "Running">>,
   <<"Restricted",       "RecoveryCompleted",  "Running">>,
   <<"Running",          "ShutdownRequested",  "ShuttingDown">>,
   <<"Degraded",         "ShutdownRequested",  "ShuttingDown">>,
   <<"Restricted",       "ShutdownRequested",  "ShuttingDown">>,
   <<"ShuttingDown",     "ShutdownCompleted",  "Stopped">>}

InitialLifecycle == "Booting"

\* RuntimeLifecycle::apply: the state reached, for a pair the table accepts.
Applies(from, event, to) == <<from, event, to>> \in Transitions

\* RuntimeController::check_lifecycle_readiness: the states in which a command
\* reaches the idempotency store and the handler.
AcceptsCommands(state) == state \in {"Running", "Degraded"}
=============================================================================
