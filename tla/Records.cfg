SPECIFICATION RecordsSpec
CONSTANTS
  x1 = x1
  x2 = x2
  Authorization = {1, 2}
  NoAuthorization = 0
  Handler = {x1, x2}
  Home <- Homes
  MaxChanges = 3
  MaxTroubles = 1
  Call = {c1}
  Mandate = {1, 2, 3, 4}
  NoMandate = 0
  Key = {"x", "y"}
  Value = {"u", "v"}
  Rank <- FourIds
  ScopeOf <- MixedScopes
  Mode <- MixedModes
  Unrouted = {4}
  Cap <- MixedCaps
  MaxAttempts = 1
  MaxFaults = 1
  Procs = {p1}
  Rows = {r1, r2, r3}
  Keys = {k1, k2}
  NoKey = NoKey
  Legacy <- LegacyRows
  MaxStarts = 4
  MaxTorn = 1
  MaxSaves = 3
  Checks = {x1, x2}
  None = 0
  Servers = {p1}
  Proposals = {own1, own2, foreign}
  Here = {own1, own2}
  MaxAge = 1
  MaxNow = 3
  MaxRestarts = 1
  MaxLost = 1
SYMMETRY Symmetry
INVARIANTS
  ReviewIsKept SelectionIsSound StoresKeep ReportIsSound AtMostOnce
PROPERTIES
  PurgeOnlyIfGone CleanResyncIsExact
CHECK_DEADLOCK FALSE
