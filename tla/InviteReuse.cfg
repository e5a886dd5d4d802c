SPECIFICATION BackofficeSpec
CONSTANTS
  e1 = e1
  e2 = e2
  n1 = n1
  n2 = n2
  c1 = c1
  c2 = c2
  None = None
  Enroller = {e1, e2}
  Name = {n1, n2}
  Code = {c1, c2}
  MINUTES = 2
  RETAIN_HOURS = 2
  Windows = {1}
  MaxMinute = 0
  MaxCalls = 4
  MaxFaults = 0
INVARIANTS CodeAdmitsOneNode
SYMMETRY Alike
