SPECIFICATION CrawlerSpec
CONSTANTS
  a = a
  b = b
  p1 = p1
  p2 = p2
  p3 = p3
  Player = {p1, p2, p3}
  Regions <- OneRegion
  PlayersOf <- Solo
  PlatformOf <- AllHere
  Num <- Ids
  HostOf <- SameHost
  Apex <- Leagues
  Ladder <- Bands
  Legacy = {p2}
  Unusable = {4}
  HISTORY_REQUIRED = 2
  PAGE = 1
  MATCHLIST_MAX_DEPTH = 100
  MAX_MATCH_AGE = 2
  SEED_INTERVAL = 4
  RETRY_DELAY = 1
  Revisit = {1}
  BRAKE_OVERDUE_GRACE = 1
  BRAKE_ON_COUNT = 1
  BRAKE_OFF_COUNT = 0
  ADOPTION_THRESHOLD = 1
  None = None
  MaxTime = 4
  Start = 3
  MaxFaults = 1
  MaxRestarts = 1
INVARIANTS CrawlerTypeOK FrontierAgrees MembersStayInPlay CursorFollowsEnrolment SamplesAreExact BackfillCompletes
PROPERTIES BrakeStopsGrowth
