SPECIFICATION CrawlerSpec
CONSTANTS
  a = a
  b = b
  p1 = p1
  p2 = p2
  p3 = p3
  Player = {p1, p2}
  Regions <- OneRegion
  PlayersOf <- Grinder
  PlatformOf <- AllHere
  Num <- Ids
  HostOf <- SameHost
  Apex <- Leagues
  Ladder <- Bands
  Legacy = {}
  Unusable = {}
  HISTORY_REQUIRED = 2
  PAGE = 1
  MATCHLIST_MAX_DEPTH = 100
  MAX_MATCH_AGE = 9
  SEED_INTERVAL = 4
  RETRY_DELAY = 1
  Revisit = {1}
  BRAKE_OVERDUE_GRACE = 1
  BRAKE_ON_COUNT = 1
  BRAKE_OFF_COUNT = 0
  ADOPTION_THRESHOLD = 1
  None = None
  MaxTime = 4
  Start = 2
  MaxFaults = 0
  MaxRestarts = 0
PROPERTIES VisitCatchesOverflow
