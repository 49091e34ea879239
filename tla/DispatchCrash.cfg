\* A ttl that just covers the slowest handler, crashes at every point, no surviving failed write.
CONSTANTS
  r1 = r1  r2 = r2  r3 = r3  k1 = k1  k2 = k2  p1 = p1  p2 = p2
  NoRecord = NoRecord  NoKey = NoKey  Free = Free  Busy = Busy  NoAnswer = NoAnswer
  Payloads = {p1, p2}
  Requests = {r1, r2, r3}
  Keys = {k1}
  KeyOf <- RetryKeys
  PayloadOf <- RetryPayloads
  FileBacked = TRUE
  Ttl = 1
  MaxHandlerTime = 1
  MaxClock = 3
  MaxCrashes = 2
  MaxIoFailures = 0
SPECIFICATION Spec
INVARIANTS SingleFlight StoreReopens
CHECK_DEADLOCK FALSE
