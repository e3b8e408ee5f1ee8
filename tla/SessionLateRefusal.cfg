SPECIFICATION Spec
CONSTANTS
  Account = {a1, a2}
  NoAccount = none
  Tab = {t1}
  CpCall = {c1}
  McpCall = {m1}
  InOrder = TRUE
  MaxLogins = 2
  MaxMismatches = 0
  MaxFaults = 0
SYMMETRY Symmetry
PROPERTIES
  RefusalDropsTheDead
CHECK_DEADLOCK FALSE
