--------------------------- MODULE MCSupervision ----------------------------
(***************************************************************************)
(* The runtime's threads side by side: the thread adapter, the watchdog    *)
(* and the supervisor with its restart executor over two services, `web`   *)
(* depending on `db`. A behaviour exercises the part its focus names; the  *)
(* others rest, so that their states add up instead of multiplying.        *)
(***************************************************************************)
EXTENDS ManagedThread, Watchdog, Supervision, TLC

CONSTANTS i1, i2, i3, i4, c1, p1, p2
VARIABLE focus

threadVars == vars
all == <<focus, threadVars, watchdogVars, supervisionVars>>

NamesInOrder == <<"db", "web">>
WebNeedsDb ==
  [s \in {"db", "web"} |->
     IF s = "web" THEN {[service |-> "db", requirement |-> "Ready"]} ELSE {}]

MCInit ==
  /\ focus \in {"thread", "watchdog", "supervision"}
  /\ Init
  /\ WatchdogInit
  /\ SupervisionInit

ThreadNext ==
  /\ focus = "thread" /\ Next
  /\ UNCHANGED <<focus, watchdogVars, supervisionVars>>

ProbeNext ==
  /\ focus = "watchdog" /\ WatchdogNext
  /\ UNCHANGED <<focus, threadVars, supervisionVars>>

SupervisorNext ==
  /\ focus = "supervision" /\ SupervisionNext
  /\ UNCHANGED <<focus, threadVars, watchdogVars>>

MCNext == ThreadNext \/ ProbeNext \/ SupervisorNext

WatchdogStep(A) == focus = "watchdog" /\ A /\ UNCHANGED <<focus, threadVars, supervisionVars>>
SupervisorStep(A) == focus = "supervision" /\ A /\ UNCHANGED <<focus, threadVars, watchdogVars>>

MCSpec ==
  /\ MCInit /\ [][MCNext]_all
  /\ \A p \in Probes : WF_all(WatchdogStep(Probing(p)))
  /\ WF_all(WatchdogStep(CountCycle \/ LookBeforeHealthy \/ SetHealthy))
  /\ WF_all(WatchdogStep(WatchdogTick))
  /\ WF_all(SupervisorStep(Reconcile))
  /\ \A w \in Workers : WF_all(SupervisorStep(WorkerStep(w)))
  /\ WF_all(SupervisorStep(OperatorStep))
  /\ WF_all(SupervisorStep(Tick))
=============================================================================
