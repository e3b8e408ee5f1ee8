SPECIFICATION CallsSpec
CONSTANTS
  c1 = c1
  c2 = c2
  Call = {c1, c2}
  Mandate = {1, 2}
  NoMandate = 0
  Key = {"x"}
  Value = {"a", "b"}
  Rank <- TwoIds
  ScopeOf <- PairScopes
  Mode <- PairModes
  Unrouted = {}
  Cap <- PairCaps
  MaxAttempts = 2
  MaxFaults = 2
  Tools <- ReadTools
  Mandates <- ReadMandates
  Windows <- ReadWindows
  Folders <- ReadFolders
  Items <- ReadItems
  Fragments <- ReadFragments
  MaxNow = 1
  MaxChanges = 1
  MaxSignings = 2
  MaxTroubles = 2
  Approval = {p1, p2}
  Decision = {r1, r2}
  NoOne = nobody
  MaxFlips = 2
SYMMETRY Symmetry
INVARIANTS
  OneTicketPerCall NothingRanIsTrue CallsAreEvidenced
  ReadsFollowThePolicy
PROPERTIES
  OneExecutionPromise CeremonyKept PanelFollows
CHECK_DEADLOCK FALSE
