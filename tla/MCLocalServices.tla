--------------------------- MODULE MCLocalServices --------------------------
(***************************************************************************)
(* What a node keeps on its own disk and in its own threads: the store of  *)
(* update artifacts, the data root with its snapshots, the operational     *)
(* journal, and the task scheduler with one worker at a time.  A behaviour *)
(* exercises the part its focus names; the others rest.                    *)
(***************************************************************************)
EXTENDS ArtifactUpdate, FileStorage, OperationalJournal, TLC

CONSTANTS a1, a2, a3, a4, x, y, z, Callers, Threads, Absent, NoTask

VARIABLES
  focus,
  entry, shutdown, active, registrations, coord, slots, finished, user, wall

Builds == a1 :> x @@ a2 :> y @@ a3 :> x @@ a4 :> z
Versions == a1 :> 1 @@ a2 :> 2 @@ a3 :> 3 @@ a4 :> 4
SealedAs == [key |-> "k1", context |-> "app", limit |-> 1]

\* An audit entry and events of two sizes.
OfThreeKinds == {<<"audit", 1>>, <<"event", 1>>, <<"event", 2>>}

\* The hypotheses of the theorems about the parts hold of this instance.
ASSUME PartsAssumption == StorageAssumption /\ JournalAssumption

\* One caller, a one-shot and an interval task of equal priority, each retried once.
T == INSTANCE TaskScheduler WITH
  TaskIds <- {"once", "every"}, Free <- NoTask,
  Kind <- [once |-> "once", every |-> "interval"],
  Priority <- [once |-> 0, every |-> 0], MaxAttempts <- [once |-> 2, every |-> 2],
  Every <- 1, RetryDelays <- {0}, Starts <- {0},
  MaxTasks <- 2, MaxConcurrent <- 1, MaxSchedules <- 2, MaxTime <- 1,
  sequence <- registrations, worker <- slots, caller <- user, now <- wall

updateVars == vars
schedulerVars == <<entry, shutdown, active, registrations, coord, slots, finished, user, wall>>
all == <<focus, updateVars, storageVars, journalVars, schedulerVars>>

MCInit ==
  /\ focus \in {"update", "storage", "journal", "scheduler"}
  /\ Init /\ StorageInit /\ JournalInit /\ T!Init

UpdateNext ==
  /\ focus = "update" /\ Next
  /\ UNCHANGED <<focus, storageVars, journalVars, schedulerVars>>

StoreNext ==
  /\ focus = "storage" /\ StorageNext
  /\ UNCHANGED <<focus, updateVars, journalVars, schedulerVars>>

RecordNext ==
  /\ focus = "journal" /\ JournalNext
  /\ UNCHANGED <<focus, updateVars, storageVars, schedulerVars>>

SchedulerStep(A) ==
  /\ focus = "scheduler" /\ A
  /\ UNCHANGED <<focus, updateVars, storageVars, journalVars>>

MCNext == UpdateNext \/ StoreNext \/ RecordNext \/ SchedulerStep(T!Next)

MCSpec ==
  /\ MCInit /\ [][MCNext]_all
  /\ WF_all(SchedulerStep(T!Coordinate))
  /\ \A w \in Threads : SF_all(SchedulerStep(T!Work(w)))
  /\ \A c \in Callers : SF_all(SchedulerStep(T!Finish(c)))
  /\ WF_all(SchedulerStep(T!Tick))

\* Every call of shutdown returns (TaskScheduler.ShutdownCompletes).
ShutdownCompletes == T!ShutdownCompletes

\* A task that is due is executed, cancelled or shut down (TaskScheduler.DueTasksRun).
DueTasksRun == T!DueTasksRun
=============================================================================
