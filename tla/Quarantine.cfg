\* A stop that orphans a service during a round.
CONSTANTS
  i1 = i1  i2 = i2  i3 = i3  i4 = i4  c1 = c1  p1 = p1  p2 = p2
  Callers = {c1}
  Instances = {i1, i2, i3, i4}
  None = None
  Probes = {p1, p2}
  StallTimeout = 1
  MaxTime = 3
  MaxCycles = 2
  Names <- NamesInOrder
  Services = {"db", "web"}
  Dependencies <- WebNeedsDb
  Disabled = {}
  Workers = {"w1"}
  Budget = 1
  Window = 2
  Backoff = 1
  Capacity = 1
  MaxDisturbances = 2
  NoOne = NoOne
SPECIFICATION MCSpec
PROPERTY QuarantineDisablesRestarts
CHECK_DEADLOCK FALSE
