\* One leader process, two requests at once; a late answer, a crash, a failed write.
CONSTANTS
  b1 = b1  b2 = b2  b3 = b3  b4 = b4  x = x  y = y  z = z
  c1 = c1  c2 = c2  h1 = h1  h2 = h2
  NoHash = NoHash  NoEvent = NoEvent  NoBatch = NoBatch  NoHandler = NoHandler
  Batches = {b1, b2, b3, b4}
  Events = {x, y, z}
  Clients = {c1}
  Handlers = {h1, h2}
  StartOf <- ForkStart
  EndOf <- ForkEnd
  EventOf <- ForkEvents
  PrevOf <- ForkPrev
  MaxSeq = 3
  MaxQueue = 2
  MaxAttempts = 2
  MaxProcessed = 2
  MaxFlushes = 0
  MaxLostRequests = 0
  MaxTimeouts = 1
  MaxCrashes = 1
  MaxIoFailures = 1
SPECIFICATION Spec
INVARIANTS CheckpointBacked
PROPERTY AppendsWholeBatches
CHECK_DEADLOCK FALSE
