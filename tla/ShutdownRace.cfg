SPECIFICATION FleetSpec
CONSTANTS
  n1 = n1
  n2 = n2
  r1 = r1
  r2 = r2
  h1 = h1
  b1 = b1
  b2 = b2
  Node = {n1, n2}
  Host = {h1}
  Request = {r1}
  HostOf <- OneHost
  Immutable = {r1}
  Body = {b1}
  NotFound = NotFound
  Err = Err
  None = None
  MAX_ATTEMPTS = 2
  TARGET_INFLIGHT_PER_HOST = 1
  Truth <- OwnBody
  Liars = {}
  Away = {}
  MaxFaults = 1
  MaxRestarts = 0
  StopAllowed = TRUE
PROPERTIES ShutdownResolvesFetches
