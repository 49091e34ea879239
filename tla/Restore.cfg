\* A caller that goes on writing after a restore of another one failed.
CONSTANTS
  a1 = a1  a2 = a2  a3 = a3  a4 = a4  x = x  y = y  z = z
  Artifacts = {a1, a2, a3, a4}
  BuildIds = {x, y, z}
  BuildOf <- Builds
  VersionOf <- Versions
  Compatible = {a1, a2, a3, a4}
  Genuine = {a1, a2, a3}
  None = None
  Damaged = Damaged
  MaxFaults = 0
  Paths = {"a", "b"}
  Snapshots = {"s1"}
  Policy <- SealedAs
  JournalRecords <- OfThreeKinds
  HeldKeys = {"k1"}
  OneCaller = FALSE
  NoTree = NoTree
  Nothing = Nothing
  MaxWrites = 2
  MaxStorageFaults = 1
  MaxRecords = 1
  MaxBytes = 1
  MaxInMemory = 1
  GoesOn = FALSE
  MaxJournalFaults = 0
  MaxAppends = 0
  Callers = {"c1"}
  Threads = {"t1", "t2"}
  Absent = Absent
  NoTask = NoTask
SPECIFICATION MCSpec
INVARIANT LastGoodRootSurvives
CHECK_DEADLOCK FALSE
