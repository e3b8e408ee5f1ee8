-------------------------- MODULE ReviewExecution ---------------------------
(***************************************************************************)
(* The review path of one gateway process: a tool call is submitted to the *)
(* Authority Server (AS) as a proposal, a person approves it there, and    *)
(* the gateway asks for its ticket and then calls the downstream tool.     *)
(*                                                                         *)
(* Three triggers run an approved proposal (poll loop, nudge, an agent's   *)
(* check-pending-commitments); all of them go through the serial queue of  *)
(* CommittedExecutor.  executeCommitted() is cut where the code awaits:    *)
(* every action below is one synchronous stretch of JavaScript.            *)
(*                                                                         *)
(* The AS and the network are external and modelled from what sp-client.ts *)
(* and commitments.ts expect of them: a ticket request can be lost,        *)
(* delayed past its attempt, or answered with an answer that never arrives.*)
(***************************************************************************)
EXTENDS Naturals, Sequences, FiniteSets

CONSTANTS
  Proposal,       \* proposal ids
  NoProposal,     \* "nobody": not a proposal
  MaxAttempts,    \* receiptRetry.maxAttempts of postReceipt
  RefusedStatus,  \* what the AS makes of a proposal whose ticket it refuses
  MaxTickets,     \* bound: tickets the AS issues for one proposal
  MaxFaults       \* bound: failures of network, AS, disk and process

ASSUME ProposalAssumption == NoProposal \notin Proposal
ASSUME AttemptsAssumption == MaxAttempts \in Nat \ {0}
\* A fixed AS says "refused"; one from before that fix says "executed".
ASSUME RefusedStatusAssumption == RefusedStatus \subseteq {"refused", "executed"}

VARIABLES
  asStatus,    \* AS: status of each proposal
  issued,      \* AS: number of tickets issued for each proposal
  wire,        \* network: ticket requests that may still reach the AS
  submitted,   \* disk: proposal-submissions.json
  journal,     \* disk: execution-journal.json
  up,          \* the process runs
  submitting,  \* memory: tool calls between submitProposal() and record()
  chain,       \* memory: the executor's queue (inFlight), head is running
  run,         \* memory: where executeCommitted() stands for Head(chain)
  poll,        \* memory: rest of the fetched list, proposal awaited
  agent,       \* memory: one check-pending call: its proposal, what it read
  calls,       \* history: downstream calls made per proposal
  effects,     \* history: calls that took effect downstream
  said,        \* history: what the texts handed out claim about a proposal
  faults       \* history: failures spent

asVars   == <<asStatus, issued>>
diskVars == <<submitted, journal>>
memVars  == <<submitting, chain, run, poll, agent>>
history  == <<calls, effects, said>>
vars == <<asVars, wire, diskVars, up, memVars, history, faults>>

J == INSTANCE ExecutionJournal WITH Request <- Proposal

AsStatus == {"absent", "pending", "committed", "executed", "refused",
             "rejected", "expired"}
Answer   == {"none", "ticket", "already", "refused earlier", "refused",
             "version", "401", "5xx", "lost"}
Pc       == {"idle", "await", "verify", "preview", "finalize", "called"}

\* Said of a proposal: the action ran; nothing ran.
Claim == {"ran", "nothing ran"}

Run == [pc : Pc, attempt : Nat, answer : Answer, ticket : Nat, worked : BOOLEAN]

Idle == [pc |-> "idle", attempt |-> 0, answer |-> "none", ticket |-> 0,
         worked |-> FALSE]

NoPoll  == [left |-> {}, waiting |-> NoProposal]
NoCheck == [on |-> NoProposal, read |-> "absent"]

TypeOK ==
  /\ asStatus \in [Proposal -> AsStatus]
  /\ issued \in [Proposal -> Nat]
  /\ wire \in SUBSET Proposal
  /\ submitted \in SUBSET Proposal
  /\ journal \in J!JournalType
  /\ up \in BOOLEAN
  /\ submitting \in SUBSET Proposal
  /\ chain \in Seq(Proposal)
  /\ run \in Run
  /\ poll \in [left : SUBSET Proposal, waiting : Proposal \cup {NoProposal}]
  /\ agent \in [on : Proposal \cup {NoProposal}, read : AsStatus \cup {"waiting"}]
  /\ calls \in [Proposal -> Nat]
  /\ effects \in [Proposal -> Nat]
  /\ said \in [Proposal -> SUBSET Claim]
  /\ faults \in Nat

Init ==
  /\ asStatus = [p \in Proposal |-> "absent"]
  /\ issued = [p \in Proposal |-> 0]
  /\ wire = {}
  /\ submitted = {}
  /\ journal = J!EmptyJournal
  /\ up = TRUE
  /\ submitting = {}
  /\ chain = <<>>
  /\ run = Idle
  /\ poll = NoPoll
  /\ agent = NoCheck
  /\ calls = [p \in Proposal |-> 0]
  /\ effects = [p \in Proposal |-> 0]
  /\ said = [p \in Proposal |-> {}]
  /\ faults = 0

Fault == faults < MaxFaults /\ faults' = faults + 1

-----------------------------------------------------------------------------
(* Submission (tool-proxy.ts) and the person's decision.                    *)

\* The AS has the proposal; this gateway's handler still awaits the answer
\* and the preview read (here), or another device submitted it (~here).
Submit(p, here) ==
  /\ asStatus[p] = "absent"
  /\ here => up
  /\ asStatus' = [asStatus EXCEPT ![p] = "pending"]
  /\ submitting' = IF here THEN submitting \cup {p} ELSE submitting
  /\ UNCHANGED <<issued, wire, diskVars, up, chain, run, poll, agent, history,
                 faults>>

\* proposalSubmissions.record(), after two awaits.
RecordSubmission(p) ==
  /\ p \in submitting
  /\ submitting' = submitting \ {p}
  /\ submitted' = submitted \cup {p}
  /\ UNCHANGED <<asVars, wire, journal, up, chain, run, poll, agent, history,
                 faults>>

\* The answer to submitProposal() is lost: the handler reports an error and
\* records nothing, the proposal exists all the same.
SubmissionLost(p) ==
  /\ p \in submitting
  /\ Fault
  /\ submitting' = submitting \ {p}
  /\ UNCHANGED <<asVars, wire, diskVars, up, chain, run, poll, agent, history>>

Decide(p) ==
  /\ asStatus[p] = "pending"
  /\ \E s \in {"committed", "rejected", "expired"} :
        asStatus' = [asStatus EXCEPT ![p] = s]
  /\ UNCHANGED <<issued, wire, diskVars, up, memVars, history, faults>>

-----------------------------------------------------------------------------
(* The triggers.                                                            *)

InFlight == {chain[i] : i \in DOMAIN chain}

\* CommittedExecutor.execute(): join the run in flight, or queue a new one.
Enqueue(p) == chain' = IF p \in InFlight THEN chain ELSE Append(chain, p)

\* A tick of the timer or a nudge, unless the previous one is still draining.
\* The list is a snapshot: it is worked off after the AS has moved on.
\* This process holds the executor lock throughout (isHeld(): SharedDataDir).
PollFetch ==
  /\ up
  /\ poll = NoPoll
  /\ poll' = [poll EXCEPT !.left = {p \in Proposal : asStatus[p] = "committed"}]
  /\ UNCHANGED <<asVars, wire, diskVars, up, submitting, chain, run, agent,
                 history, faults>>

PollNext ==
  /\ poll.waiting = NoProposal
  /\ \E p \in poll.left :
       /\ poll' = [left |-> poll.left \ {p}, waiting |-> p]
       /\ Enqueue(p)
  /\ UNCHANGED <<asVars, wire, diskVars, up, submitting, run, agent, history,
                 faults>>

\* check-pending-commitments(proposal_id): getProposalById(), repeated while
\* the proposal is pending.
AgentReads(p) ==
  /\ up
  /\ asStatus[p] # "absent"
  /\ agent = NoCheck \/ agent = [on |-> p, read |-> "pending"]
  /\ agent' = [on |-> p, read |-> asStatus[p]]
  /\ UNCHANGED <<asVars, wire, diskVars, up, submitting, chain, run, poll,
                 history, faults>>

\* localOutcomeOfExecuted(), then the fallback "The action ran; the gateway
\* did not retain its output" when there is no local outcome to report.
ExecutedClaim(p) ==
  LET row == J!Newest(journal, p)
  IN  {c \in Claim :
         \/ c = "ran" /\ row.state \in {"none", "requested", "done"}
         \/ c = "nothing ran" /\ row.state = "failed" /\ row.outcome # ""}

\* What a call that read status s is told.  A pending, rejected or expired
\* proposal claims nothing lasting.
AgentAnswer(p, s) ==
  IF s = "executed" THEN ExecutedClaim(p)
                    ELSE {c \in {"nothing ran"} : s = "refused"}

\* The call goes on with the status it read: it joins the executor, or
\* answers.
AgentActs(p) ==
  /\ agent.on = p
  /\ agent.read \in AsStatus
  /\ IF agent.read = "committed"
     THEN /\ Enqueue(p)
          /\ agent' = [on |-> p, read |-> "waiting"]
          /\ UNCHANGED said
     ELSE /\ said' = [said EXCEPT ![p] = @ \cup AgentAnswer(p, agent.read)]
          /\ agent' = NoCheck
          /\ UNCHANGED chain
  /\ UNCHANGED <<asVars, wire, diskVars, up, submitting, run, poll, calls,
                 effects, faults>>

-----------------------------------------------------------------------------
(* The AS (external).                                                       *)

\* What the AS may make of a ticket request: its new status s, the number n
\* of tickets issued, its answer a.  It issues one ticket per proposal and
\* replays it to the same caller; that a replay can carry a new id is what the
\* journal's requestKey is for.
AsVerdict(p, s, n, a) ==
  \/ /\ asStatus[p] = "committed"
     /\ \/ s = "executed" /\ n = 1 /\ a = "ticket"
        \/ s \in RefusedStatus /\ n = 0 /\ a = "refused"
  \/ /\ asStatus[p] = "executed" /\ issued[p] > 0
     /\ n > issued[p] => n <= MaxTickets
     /\ s = "executed" /\ n >= issued[p] /\ a = "ticket"
  \/ /\ asStatus[p] = "executed" /\ issued[p] = 0
     /\ s = "executed" /\ n = 0 /\ a = "already"
  \/ /\ asStatus[p] \notin {"committed", "executed"}
     /\ s = asStatus[p] /\ n = issued[p] /\ a = "refused earlier"

Awaiting(p) ==
  chain # <<>> /\ p = Head(chain) /\ run.pc = "await" /\ run.answer = "none"

\* The answer only reaches a run that still waits for it.
AsAnswers(p) ==
  /\ p \in wire
  /\ wire' = wire \ {p}
  /\ \E s \in AsStatus, n \in {issued[p], issued[p] + 1}, a \in Answer :
       /\ AsVerdict(p, s, n, a)
       /\ asStatus' = [asStatus EXCEPT ![p] = s]
       /\ issued' = [issued EXCEPT ![p] = n]
       /\ run' = IF Awaiting(p)
                 THEN [run EXCEPT !.answer = a, !.ticket = n] ELSE run
  /\ UNCHANGED <<diskVars, up, submitting, chain, poll, agent, history, faults>>

\* The attempt fails.  After a lost answer or a 5xx (a proxy in between) the
\* request may still be on its way, or already be decided, at the AS; a 401 or
\* VERSION_UNSUPPORTED is the AS's answer and changes nothing there.
AttemptFails(p) ==
  /\ Awaiting(p)
  /\ Fault
  /\ \E a \in {"lost", "5xx", "401", "version"} :
       /\ run' = [run EXCEPT !.answer = a]
       /\ wire' \in IF a \in {"lost", "5xx"} THEN {wire, wire \ {p}}
                                             ELSE {wire \ {p}}
  /\ UNCHANGED <<asVars, diskVars, up, submitting, chain, poll, agent, history>>

-----------------------------------------------------------------------------
(* executeCommitted() for the head of the queue.                            *)

Running(p, pc) == chain # <<>> /\ p = Head(chain) /\ run.pc = pc

\* Mistake: the poll loop's draining flag is not reset.
SettleDraining(p, c) ==
  /\ chain' = Tail(chain)
  /\ run' = Idle
  /\ UNCHANGED poll
  /\ agent' = IF agent = [on |-> p, read |-> "waiting"] THEN NoCheck ELSE agent
  /\ said' = [said EXCEPT ![p] = @ \cup c]

\* The promise settles: the queue moves on, the poll loop and the agent call
\* that await it continue, and its text says c of the proposal.
Settle(p, c) ==
  /\ chain' = Tail(chain)
  /\ run' = Idle
  /\ poll' = IF poll.waiting = p THEN [poll EXCEPT !.waiting = NoProposal] ELSE poll
  /\ agent' = IF agent = [on |-> p, read |-> "waiting"] THEN NoCheck ELSE agent
  /\ said' = [said EXCEPT ![p] = @ \cup c]

\* No submission record: left for whichever gateway submitted it.
Skip(p) ==
  /\ Running(p, "idle")
  /\ p \notin submitted
  /\ Settle(p, {})
  /\ UNCHANGED <<asVars, wire, diskVars, up, submitting, calls, effects, faults>>

\* Mistake: a ticket is asked for without a submission record.
StartForeign(p) ==
  /\ Running(p, "idle")
  /\ journal' = J!Requested(journal, p)
  /\ wire' = wire \cup {p}
  /\ run' = [Idle EXCEPT !.pc = "await", !.attempt = 1]
  /\ UNCHANGED <<asVars, submitted, up, submitting, chain, poll, agent, history,
                 faults>>

\* requested() is on disk before the first attempt leaves.
Start(p) ==
  /\ Running(p, "idle")
  /\ p \in submitted
  /\ journal' = J!Requested(journal, p)
  /\ wire' = wire \cup {p}
  /\ run' = [Idle EXCEPT !.pc = "await", !.attempt = 1]
  /\ UNCHANGED <<asVars, submitted, up, submitting, chain, poll, agent, history,
                 faults>>

\* postReceipt(): a network error or a 5xx is retried, except on the last
\* attempt.
Retry(p) ==
  /\ Running(p, "await")
  /\ run.answer \in {"lost", "5xx"}
  /\ run.attempt < MaxAttempts
  /\ run' = [run EXCEPT !.attempt = @ + 1, !.answer = "none"]
  /\ wire' = wire \cup {p}
  /\ UNCHANGED <<asVars, diskVars, up, submitting, chain, poll, agent, history,
                 faults>>

\* Mistake: VERSION_UNSUPPORTED never settles the promise.
GiveUpOnLost(p) ==
  /\ Running(p, "await")
  /\ run.answer = "lost" /\ run.attempt = MaxAttempts
  /\ Settle(p, {})
  /\ UNCHANGED <<asVars, wire, diskVars, up, submitting, calls, effects, faults>>

\* The last network error is thrown as it is, VERSION_UNSUPPORTED only flags
\* the mandate: in both cases the row stays requested.
GiveUp(p) ==
  /\ Running(p, "await")
  /\ \/ run.answer = "lost" /\ run.attempt = MaxAttempts
     \/ run.answer = "version"
  /\ Settle(p, {})
  /\ UNCHANGED <<asVars, wire, diskVars, up, submitting, calls, effects, faults>>

\* PROPOSAL_ALREADY_EXECUTED.
AlreadyExecuted(p) ==
  /\ Running(p, "await")
  /\ run.answer = "already"
  /\ Settle(p, ExecutedClaim(p))
  /\ UNCHANGED <<asVars, wire, diskVars, up, submitting, calls, effects, faults>>

\* PROPOSAL_REFUSED closes the requested row.
RefusedEarlier(p) ==
  /\ Running(p, "await")
  /\ run.answer = "refused earlier"
  /\ journal' = J!RefusedBeforeTicket(journal, p)
  /\ Settle(p, {"nothing ran"})
  /\ UNCHANGED <<asVars, wire, submitted, up, submitting, calls, effects, faults>>

\* Every other SPReceiptError - a refusal, but also a 401 and the 5xx of the
\* last attempt - closes the requested row and notes the refusal under the
\* synthetic ticket id.
TakenAsRefusal(p) ==
  /\ Running(p, "await")
  /\ \/ run.answer \in {"refused", "401"}
     \/ run.answer = "5xx" /\ run.attempt = MaxAttempts
  /\ journal' = J!NoteAsRefused(J!RefusedBeforeTicket(journal, p), p)
  /\ Settle(p, {"nothing ran"})
  /\ UNCHANGED <<asVars, wire, submitted, up, submitting, calls, effects, faults>>

\* Mistake: the claim is made in memory only.
BeginInMemory(p) ==
  /\ Running(p, "await")
  /\ run.answer = "ticket"
  /\ J!Claimable(journal, p, run.ticket)
  /\ run' = [run EXCEPT !.pc = "verify"]
  /\ UNCHANGED <<asVars, wire, diskVars, up, submitting, chain, poll, agent,
                 history, faults>>

\* The ticket is here: begin() claims it before anything else is done.
BeginOk(p) ==
  /\ Running(p, "await")
  /\ run.answer = "ticket"
  /\ J!Claimable(journal, p, run.ticket)
  /\ journal' = J!Begin(journal, p, run.ticket)
  /\ run' = [run EXCEPT !.pc = "verify"]
  /\ UNCHANGED <<asVars, wire, submitted, up, submitting, chain, poll, agent,
                 history, faults>>

\* begin() refuses: an earlier run got this far.
BeginRefused(p) ==
  /\ Running(p, "await")
  /\ run.answer = "ticket"
  /\ ~J!Claimable(journal, p, run.ticket)
  /\ Settle(p, IF journal.row[p].state = "done" THEN {"ran"} ELSE {})
  /\ UNCHANGED <<asVars, wire, diskVars, up, submitting, calls, effects, faults>>

\* verifyTicket() and archiveReceipt(), then the preview read of AU4.
Proceed(p) ==
  /\ \/ Running(p, "verify") /\ run' = [run EXCEPT !.pc = "preview"]
     \/ Running(p, "preview") /\ run' = [run EXCEPT !.pc = "finalize"]
  /\ UNCHANGED <<asVars, wire, diskVars, up, submitting, chain, poll, agent,
                 history, faults>>

\* Mistake: the early return of a changed record does not close the claim.
RefuseOpen(p) ==
  /\ \/ /\ Running(p, "verify")
        /\ journal' = J!Complete(journal, p, "failed", "")
     \/ Running(p, "preview") /\ UNCHANGED journal
  /\ Settle(p, {"nothing ran"})
  /\ UNCHANGED <<asVars, wire, submitted, up, submitting, calls, effects, faults>>

\* The claim is closed without a call: the ticket does not verify or cannot
\* be archived, the record changed, a reference no longer resolves the same.
Refuse(p) ==
  /\ \/ /\ Running(p, "verify")
        /\ journal' = J!Complete(journal, p, "failed", "")
     \/ /\ Running(p, "preview") \/ Running(p, "finalize")
        /\ journal' = J!Complete(journal, p, "failed", "changed")
  /\ Settle(p, {"nothing ran"})
  /\ UNCHANGED <<asVars, wire, submitted, up, submitting, calls, effects, faults>>

\* finalizeAttachmentsForExecution() was fine, and preparing the arguments
\* throws: the outer catch finds the row still intent and closes it.
PrepareThrows(p) ==
  /\ Running(p, "finalize")
  /\ journal' = J!Complete(journal, p, "failed", "")
  /\ Settle(p, {})
  /\ UNCHANGED <<asVars, wire, submitted, up, submitting, calls, effects, faults>>

\* callTool() goes out; the action takes effect downstream or it does not.
CallTool(p) ==
  /\ Running(p, "finalize")
  /\ calls' = [calls EXCEPT ![p] = @ + 1]
  /\ \E w \in BOOLEAN :
       /\ run' = [run EXCEPT !.pc = "called", !.worked = w]
       /\ effects' = [effects EXCEPT ![p] = IF w THEN @ + 1 ELSE @]
  /\ UNCHANGED <<asVars, wire, diskVars, up, submitting, chain, poll, agent,
                 said, faults>>

ToolSucceeds(p) ==
  /\ Running(p, "called")
  /\ run.worked
  /\ journal' = J!Complete(journal, p, "done", "")
  /\ Settle(p, {"ran"})
  /\ UNCHANGED <<asVars, wire, submitted, up, submitting, calls, effects, faults>>

\* The connector answers isError: it did nothing.
ToolRefuses(p) ==
  /\ Running(p, "called")
  /\ ~run.worked
  /\ journal' = J!Complete(journal, p, "failed", "refused")
  /\ Settle(p, {"nothing ran"})
  /\ UNCHANGED <<asVars, wire, submitted, up, submitting, calls, effects, faults>>

\* Mistake: a call that throws is recorded like one that was refused.
ThrowRefused(p) ==
  /\ Running(p, "called")
  /\ journal' = J!Complete(journal, p, "failed", "refused")
  /\ Settle(p, {})
  /\ UNCHANGED <<asVars, wire, submitted, up, submitting, calls, effects, faults>>

\* callTool() throws (timeout, dead connector): the effect is unknown.
ToolThrows(p) ==
  /\ Running(p, "called")
  /\ journal' = J!Complete(journal, p, "failed", "")
  /\ Settle(p, {})
  /\ UNCHANGED <<asVars, wire, submitted, up, submitting, calls, effects, faults>>

\* The run stands before a write of the journal, or before its first request.
AboutToWrite(p) ==
  /\ chain # <<>> /\ p = Head(chain)
  /\ run.pc = "await" =>
       \/ run.answer \in {"ticket", "refused", "refused earlier", "401"}
       \/ run.answer = "5xx" /\ run.attempt = MaxAttempts

\* The run ends before that: the approved content does not resolve here or
\* differs from the submission (no request yet), or persist() throws.
RunAborts(p) ==
  /\ AboutToWrite(p)
  /\ Fault
  /\ Settle(p, {})
  /\ UNCHANGED <<asVars, wire, diskVars, up, submitting, calls, effects>>

-----------------------------------------------------------------------------
(* The process dies and is started again: only disk and AS survive.         *)

Crash ==
  /\ up
  /\ Fault
  /\ up' = FALSE
  /\ submitting' = {}
  /\ chain' = <<>>
  /\ run' = Idle
  /\ poll' = NoPoll
  /\ agent' = NoCheck
  /\ UNCHANGED <<asVars, wire, diskVars, history>>

Restart ==
  /\ ~up
  /\ up' = TRUE
  /\ UNCHANGED <<asVars, wire, diskVars, memVars, history, faults>>

-----------------------------------------------------------------------------
RunStep(p) ==
  \/ Skip(p) \/ Start(p) \/ Retry(p) \/ GiveUp(p) \/ AlreadyExecuted(p)
  \/ RefusedEarlier(p) \/ TakenAsRefusal(p) \/ BeginOk(p) \/ BeginRefused(p)
  \/ Proceed(p) \/ Refuse(p) \/ PrepareThrows(p) \/ CallTool(p)
  \/ ToolSucceeds(p) \/ ToolRefuses(p) \/ ToolThrows(p)

Next ==
  \/ \E p \in Proposal :
       \/ Submit(p, TRUE) \/ Submit(p, FALSE) \/ RecordSubmission(p)
       \/ SubmissionLost(p) \/ Decide(p)
       \/ AgentReads(p) \/ AgentActs(p)
       \/ AsAnswers(p) \/ AttemptFails(p)
       \/ RunStep(p) \/ RunAborts(p)
  \/ PollFetch \/ PollNext
  \/ Crash \/ Restart

Spec == Init /\ [][Next]_vars

\* What the scheduling gives: the 5 s timer keeps firing, settled promises and
\* answered requests are continued, the AS answers what reaches it, callTool()
\* returns or times out, a supervisor restarts the process.  Neither agents nor
\* persons owe the system anything.
Fairness ==
  /\ WF_vars(PollFetch) /\ WF_vars(PollNext) /\ WF_vars(Restart)
  /\ \A p \in Proposal : /\ WF_vars(RunStep(p))
                         /\ WF_vars(AsAnswers(p))
                         /\ WF_vars(AgentActs(p))

FairSpec == Spec /\ Fairness

-----------------------------------------------------------------------------
(* Properties.                                                              *)

\* One approved proposal, one downstream call: across the three triggers,
\* stale snapshots of the poll loop, retries, replayed or re-issued tickets,
\* failed writes, crashes and restarts (execution-journal.ts, "one execution
\* per ticket").
AtMostOnce == \A p \in Proposal : calls[p] <= 1

\* What the journal on disk says is what happened, across stale lists, failed
\* writes and crashes. Write-ahead: a call was made only under a claim that is
\* on disk, with a ticket the AS issued for a proposal of this gateway's own.
\* And the verdict in a row is the truth about the downstream system: done only
\* if the action took effect, refused or changed only if it did not.
RowsAreTrue ==
  \A p \in Proposal :
     LET row == journal.row[p]
     IN  /\ calls[p] > 0 => /\ row.state \in {"intent", "done", "failed"}
                            /\ row.ticket \in 1 .. issued[p]
                            /\ p \in submitted
         /\ row.state = "done" => effects[p] = 1
         /\ row.outcome \in {"refused", "changed", "as_refused"} => effects[p] = 0

\* While nothing has failed, a claim is open only as long as its run is under
\* way: no early return of executeCommitted() leaves a row behind as intent.
NoForgottenClaim ==
  \A p \in Proposal :
     journal.row[p].state = "intent" /\ faults = 0 =>
        /\ chain # <<>> /\ p = Head(chain)
        /\ run.pc \in {"verify", "preview", "finalize", "called"}

\* Proposals of the operator's other devices are left alone: no ticket is
\* asked for, so the AS does not mark them executed, and nothing is journaled.
ForeignProposalsUntouched ==
  \A p \in Proposal \ submitted :
     /\ journal.row[p] = J!NoRow /\ p \notin journal.asRefused
     /\ p \notin wire /\ issued[p] = 0

\* "Nothing ran" holds for ever once said, unless the synthetic as_refused row
\* was written (see NothingRanIsTrue): a refused action is never run later by
\* another trigger.
NothingRanWithoutNote ==
  \A p \in Proposal :
     "nothing ran" \in said[p] /\ p \notin journal.asRefused => effects[p] = 0

\* What a row is to the abstract promise.
ClaimOf(p) ==
  CASE journal.row[p].state \in {"none", "requested"} -> "open"
    [] journal.row[p].state = "intent" -> "claimed"
    [] OTHER -> journal.row[p].state

\* The journal and the downstream calls implement the abstract promise.
Promise == INSTANCE OneExecution WITH
  Request <- Proposal,
  claim   <- [p \in Proposal |-> ClaimOf(p)],
  acts    <- calls

OneExecutionPromise == Promise!Spec

\* Every run settles, so the serial queue never wedges: not by a lost answer,
\* a failed write, a throwing tool or an early return.
RunsSettle ==
  \A p \in Proposal : (p \in InFlight) ~> (p \notin InFlight)

\* An approved proposal that this gateway submitted gets its ticket asked for
\* and decided by the AS, whoever crashed or lost an answer on the way.
ApprovedIsDecided ==
  \A p \in Proposal :
     (asStatus[p] = "committed" /\ p \in submitted) ~> (asStatus[p] # "committed")

-----------------------------------------------------------------------------
(* Why a proposal is acted on at most once: the inductive strengthening of  *)
(* AtMostOnce that ReviewExecutionProofs proves and the runs check as well. *)

\* A run past begin() stands under an intent row of its own, which no other
\* run can have; before the call nothing was done under it.
ClaimDiscipline ==
  /\ run.pc # "idle" => chain # <<>>
  /\ run.pc \in {"verify", "preview", "finalize"} =>
       journal.row[Head(chain)].state = "intent" /\ calls[Head(chain)] = 0
  /\ run.pc = "called" =>
       journal.row[Head(chain)].state = "intent" /\ calls[Head(chain)] = 1
  /\ \A p \in Proposal :
       /\ journal.row[p].state \in {"none", "requested"} => calls[p] = 0
       /\ calls[p] <= 1

-----------------------------------------------------------------------------
(* Statements of comments and texts that the code does not live up to.      *)

\* execution-journal.ts:151-154: a requested row means "the ticket never
\* arrived, so the action cannot have started"; commitments.ts:434-444: the
\* text "already been EXECUTED" must not be given for an action that never ran.
ExecutedIsTrue ==
  \A p \in Proposal : "ran" \in said[p] => calls[p] > 0

\* commitments.ts:566-570: a replayed ticket without a record of execution is
\* executed once (lost-response recovery).  So an action whose ticket the AS
\* has issued does not stay requested for ever.
LostAnswerIsRecovered ==
  \A p \in Proposal :
     (issued[p] > 0 /\ journal.row[p].state = "requested")
       ~> (journal.row[p].state # "requested")

\* execution-journal.ts:67-71: as_refused is written when the AS itself
\* refused to issue a ticket for an approved proposal.
AsRefusedMeansRefused ==
  \A p \in Proposal :
     journal.row[p].outcome = "as_refused" =>
        \/ asStatus[p] = "refused"
        \/ asStatus[p] = "executed" /\ issued[p] = 0

\* commitments.ts:767-776: told of an as_refused proposal: "nothing ran".
NothingRanIsTrue ==
  \A p \in Proposal : "nothing ran" \in said[p] => effects[p] = 0

=============================================================================
