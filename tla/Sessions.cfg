SPECIFICATION WatchSpec
CONSTANTS
  Account = {a1, a2}
  NoAccount = none
  Tab = {t1, t2}
  CpCall = {cp1}
  McpCall = {m1}
  InOrder = TRUE
  MaxLogins = 3
  MaxMismatches = 1
  MaxFaults = 0
  MaxDelay = 3
  Coarse = 2
  Lifetimes = {0, 2, 3, 4, 8}
  MaxNow = 12
  MaxSleeps = 2
  MaxSetBacks = 2
  MaxSessions = 3
  Debounce = 1
  Cooldown = 3
  Flood = 3
  MaxTime = 7
  MaxEvents = 4
  Proposal = {"review", "above limit"}
  Named = {"above limit"}
  MaxReads = 2
SYMMETRY Symmetry
INVARIANTS
  Agreement WholeSession ExpiryIsKept QueueIsTrue
PROPERTIES
  BellIsKept
CHECK_DEADLOCK FALSE
