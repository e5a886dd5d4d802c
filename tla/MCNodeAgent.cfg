SPECIFICATION NodeSpec
CONSTANTS
  j1 = j1
  j2 = j2
  k1 = k1
  k2 = k2
  Job = {j1, j2}
  Key = {k1, k2}
  FirstKey = k1
  Lasting = {k2}
  DefaultSpecs <- TwoWindows
  Headers <- DeclaredWindows
  RetryAfter = 1
  MAX_TRIES = 2
  MaxSaves = 1
  MaxThrottles = 1
INVARIANTS NodeTypeOK SlotsWithinBudget
PROPERTIES JobEnds KeyPauseEnds
