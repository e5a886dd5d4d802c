SPECIFICATION StoreSpec
CONSTANTS
  g1 = g1
  g2 = g2
  g3 = g3
  p1 = p1
  p2 = p2
  Game = {g1, g2, g3}
  Puuid = {p1, p2}
  League = {p2}
  PlayersOf <- Line
  Remake = {g2}
  Skip = {g3}
  ADOPTION_THRESHOLD = 1
  None = None
  MaxDate = 2
  MaxFaults = 1
INVARIANTS BitmapIsBacked
