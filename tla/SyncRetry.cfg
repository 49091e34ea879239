\* The answer to an applied batch is lost and the batch is sent again.
CONSTANTS
  b1 = b1  b2 = b2  b3 = b3  b4 = b4  x = x  y = y  z = z
  c1 = c1  c2 = c2  h1 = h1  h2 = h2
  NoHash = NoHash  NoEvent = NoEvent  NoBatch = NoBatch  NoHandler = NoHandler
  Batches = {b1, b2, b3}
  Events = {x, y, z}
  Clients = {c1}
  Handlers = {h1}
  StartOf <- RowStart
  EndOf <- RowEnd
  EventOf <- RowEvents
  PrevOf <- RowPrev
  MaxSeq = 3
  MaxQueue = 3
  MaxAttempts = 2
  MaxProcessed = 3
  MaxFlushes = 0
  MaxLostRequests = 0
  MaxTimeouts = 1
  MaxCrashes = 0
  MaxIoFailures = 0
SPECIFICATION Spec
INVARIANTS AppliesIdempotently
CHECK_DEADLOCK FALSE
