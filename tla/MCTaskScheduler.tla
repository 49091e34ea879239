-------------------------- MODULE MCTaskScheduler ---------------------------
(***************************************************************************)
(* A small scheduler (a one-shot, an interval and a cron task) and, in     *)
(* behaviours of its own, the engine that places work on two cores.        *)
(***************************************************************************)
EXTENDS TaskScheduler, Placement, TLC

CONSTANTS once, every, cron, w1, w2, w3, w4, c1, c2

VARIABLE focus

OneOfEach == [t \in TaskIds |-> CASE t = once -> "once" [] t = every -> "interval"
                                  [] OTHER -> "cron"]
OnceFirst == [t \in TaskIds |-> IF t = once THEN 1 ELSE 0]
\* The callers are interchangeable; the worker threads are picked with CHOOSE.
Symmetry == Permutations(Callers)

RetryOnce == [t \in TaskIds |-> 2]

-----------------------------------------------------------------------------
(* Two cores alike but for the room and the resources they have, so that   *)
(* their scores can be equal.                                              *)

Core(service, mode, concurrency, cpu, gpu) ==
  [service |-> service, capabilities |-> {"run"},
   leadership |-> [service |-> service, mode |-> mode, lease |-> IF mode = "disabled" THEN 0 ELSE 1],
   weight |-> 1, priority |-> 0, maxConcurrency |-> concurrency, available |-> TRUE,
   workload |-> "general", affinity |-> {"here"}, cpu |-> cpu, memory |-> NoValue, gpu |-> gpu]

Job(write, leader, cpu) ==
  [capability |-> "run", service |-> "s", runtime |-> "cluster", write |-> write, leader |-> leader,
   workload |-> "compute", affinity |-> {"here"}, cpu |-> cpu, memory |-> NoValue, gpu |-> 0]

TwoCores == <<"a", "b">>
TwoProfiles == [a |-> Core("s", "required", 2, 4, 0), b |-> Core("s", "preferred", 1, NoValue, 1)]
InCluster == [a |-> "cluster", b |-> "cluster"]
Jobs ==
  {Job(FALSE, FALSE, NoValue), Job(TRUE, TRUE, NoValue), Job(FALSE, FALSE, 4),
   [Job(TRUE, FALSE, NoValue) EXCEPT !.gpu = 1],
   [Job(FALSE, FALSE, NoValue) EXCEPT !.affinity = {"far"}],
   [Job(FALSE, FALSE, 1) EXCEPT !.runtime = "standalone"]}

-----------------------------------------------------------------------------
schedulerVars == vars

MCInit == focus \in {"scheduler", "placement"} /\ Init /\ PlacementInit

MCNext ==
  \/ focus = "scheduler" /\ Next /\ UNCHANGED <<focus, placementVars>>
  \/ focus = "placement" /\ PlacementNext /\ UNCHANGED <<focus, schedulerVars>>

MCSpec == MCInit /\ [][MCNext]_<<focus, schedulerVars, placementVars>>
=============================================================================
