\* Two leader processes share the outbox file; the follower serves one request at a time.
CONSTANTS
  b1 = b1  b2 = b2  b3 = b3  b4 = b4  x = x  y = y  z = z
  c1 = c1  c2 = c2  h1 = h1  h2 = h2
  NoHash = NoHash  NoEvent = NoEvent  NoBatch = NoBatch  NoHandler = NoHandler
  Batches = {b1, b2, b3}
  Events = {x, y, z}
  Clients = {c1, c2}
  Handlers = {h1}
  StartOf <- RowStart
  EndOf <- RowEnd
  EventOf <- RowEvents
  PrevOf <- RowPrev
  MaxSeq = 3
  MaxQueue = 3
  MaxAttempts = 2
  MaxProcessed = 1
  MaxFlushes = 1
  MaxLostRequests = 1
  MaxTimeouts = 1
  MaxCrashes = 1
  MaxIoFailures = 0
SPECIFICATION FairSpec
INVARIANTS NothingLost 
PROPERTY OutboxDrains
CHECK_DEADLOCK FALSE
