SPECIFICATION Spec
CONSTANTS
  n1 = n1
  n2 = n2
  r1 = r1
  h1 = h1
  b1 = b1
  Node = {n1, n2}
  Host = {h1}
  Request = {r1}
  HostOf <- OneHost
  Immutable = {r1}
  Body = {b1}
  NotFound = NotFound
  Err = Err
  None = None
  MAX_ATTEMPTS = 2
  TARGET_INFLIGHT_PER_HOST = 2
  MaxQueue = 2
CONSTRAINT QueueBound
INVARIANTS TypeOK EveryWaiterHasItsJob UnleasedJobIsQueued OpenAuditCanEnd
PROPERTIES KeepsFetchPromise
