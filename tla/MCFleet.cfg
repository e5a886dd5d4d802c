SPECIFICATION FleetSpec
CONSTANTS
  n1 = n1
  n2 = n2
  r1 = r1
  r2 = r2
  h1 = h1
  b1 = b1
  b2 = b2
  Node = {n1, n2}
  Host = {h1}
  Request = {r1, r2}
  HostOf <- OneHost
  Immutable = {r1, r2}
  Body = {b1, b2}
  NotFound = NotFound
  Err = Err
  None = None
  MAX_ATTEMPTS = 2
  TARGET_INFLIGHT_PER_HOST = 1
  Truth <- OwnBody
  Liars = {}
  Away = {n2}
  MaxFaults = 1
  MaxRestarts = 1
  StopAllowed = TRUE
CONSTRAINT AuditsAlone
INVARIANTS FleetTypeOK InflightWithinTarget OwnAnswersUntilRestart
PROPERTIES FetchReturns
