SPECIFICATION Spec
CONSTANTS
  Proposal = {p1}
  NoProposal = NoProposal
  RefusedStatus = {"refused", "executed"}
  MaxAttempts = 3
  MaxTickets = 2
  MaxFaults = 0
INVARIANTS ExecutedIsTrue
