\* Artifacts with three faults, storage and journal with two, one scheduler caller.
CONSTANTS
  a1 = a1  a2 = a2  a3 = a3  a4 = a4  x = x  y = y  z = z
  Artifacts = {a1, a2, a3, a4}
  BuildIds = {x, y, z}
  BuildOf <- Builds
  VersionOf <- Versions
  Compatible = {a1, a2, a3, a4}
  Genuine = {a1, a2, a3}
  None = None
  Damaged = Damaged
  MaxFaults = 3
  Paths = {"a", "b"}
  Snapshots = {"s1"}
  Policy <- SealedAs
  JournalRecords <- OfThreeKinds
  HeldKeys = {"k1", "k2"}
  OneCaller = TRUE
  NoTree = NoTree
  Nothing = Nothing
  MaxWrites = 3
  MaxStorageFaults = 2
  MaxRecords = 2
  MaxBytes = 3
  MaxInMemory = 2
  GoesOn = FALSE
  MaxJournalFaults = 2
  MaxAppends = 5
  Callers = {"c1"}
  Threads = {"t1", "t2"}
  Absent = Absent
  NoTask = NoTask
SPECIFICATION MCSpec
INVARIANTS PointersResolve RecoversToHealthy AppliedIsKept LastGoodRootSurvives 
PROPERTIES ShutdownCompletes DueTasksRun
CHECK_DEADLOCK FALSE
