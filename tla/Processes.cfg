SPECIFICATION HostSpec
CONSTANTS
  Process = {x1, x2}
  NoProcess = Nobody
  Proposal = {y1, y2}
  NoProposal = Nobody
  Children = {1, 2, 3}
  Values = {1, 2}
  Ages = {7}
  MaxRespawns = 2
  MaxRequests = 3
  MaxCrashes = 2
  MaxFailures = 1
  Gens = {x1, x2}
  Shells = {y1, y2}
  Commands = {"start", "detach", "stop", "restart", "install", "uninstall"}
  MaxCommands = 3
  MaxFallen = 1
  Slow = TRUE
  NoTree = Nobody
  Integrations = {"crm", "crm2", "erp"}
  Packages = {"crm-mcp", "erp-mcp"}
  PackageOf <- Packaged
  PinOf <- Pins
  MaxNpmFailures = 1
  MaxDeaths = 1
  MaxStops = 1
  x1 = x1
  x2 = x2
  y1 = y1
  y2 = y2
  Nobody = Nobody
SYMMETRY Symmetry
INVARIANTS
  DirectoryIsShared ConnectorIsWhole NobodyLeftBehind
PROPERTY
  OnlyThePin
CHECK_DEADLOCK FALSE
