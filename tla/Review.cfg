SPECIFICATION FairSpec
CONSTANTS
  Proposal = {p1, p2}
  NoProposal = NoProposal
  RefusedStatus = {"refused", "executed"}
  MaxAttempts = 2
  MaxTickets = 2
  MaxFaults = 1
INVARIANTS TypeOK AtMostOnce ClaimDiscipline RowsAreTrue NoForgottenClaim
  ForeignProposalsUntouched NothingRanWithoutNote
PROPERTIES
  OneExecutionPromise
  RunsSettle
  ApprovedIsDecided
