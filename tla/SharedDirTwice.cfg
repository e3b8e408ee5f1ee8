SPECIFICATION Spec
CONSTANTS
  Process = {dev, npm}
  NoProcess = NoProcess
  Proposal = {p1}
  NoProposal = NoProposal
CHECK_DEADLOCK FALSE
INVARIANTS OnceAcrossProcesses
