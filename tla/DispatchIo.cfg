\* Two keys share the file; store writes fail and the process goes on.
CONSTANTS
  r1 = r1  r2 = r2  r3 = r3  k1 = k1  k2 = k2  p1 = p1  p2 = p2
  NoRecord = NoRecord  NoKey = NoKey  Free = Free  Busy = Busy  NoAnswer = NoAnswer
  Payloads = {p1, p2}
  Requests = {r1, r2, r3}
  Keys = {k1, k2}
  KeyOf <- TwoKeys
  PayloadOf <- OnePayload
  FileBacked = TRUE
  Ttl = 0
  MaxHandlerTime = 1
  MaxClock = 1
  MaxCrashes = 1
  MaxIoFailures = 2
SPECIFICATION Spec
INVARIANTS EventsOncePerKey RepliesAgree
PROPERTY KeepsPromise
CHECK_DEADLOCK FALSE
