\* Two workers, two callers that register and shut down, three tasks of which two fit.
CONSTANTS
  once = once  every = every  cron = cron
  w1 = w1  w2 = w2  w3 = w3  w4 = w4
  c1 = c1  c2 = c2
  Callers = {c1, c2}
  Threads = {w1, w2, w3}
  TaskIds = {once, every, cron}
  Absent = Absent  Free = Free  NoValue = NoValue
  CoreOrder <- TwoCores
  CoreProfile <- TwoProfiles
  RuntimeModeOf <- InCluster
  PlacementAsks <- Jobs
  MaxLoad = 2
  Kind <- OneOfEach
  Priority <- OnceFirst
  MaxAttempts <- RetryOnce
  Every = 1
  RetryDelays = {0, 1}
  Starts = {0}
  MaxTasks = 2
  MaxConcurrent = 2
  MaxTime = 1
  MaxSchedules = 3
SPECIFICATION MCSpec
INVARIANTS RunningIsExecuting ShutdownIsFinal PlacedWhereItFits
SYMMETRY Symmetry
CHECK_DEADLOCK FALSE
