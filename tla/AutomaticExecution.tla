------------------------- MODULE AutomaticExecution -------------------------
(***************************************************************************)
(* Write calls through the gated tool handler (tool-proxy.ts): candidate   *)
(* mandates, selection, the ticket, the evidence, the downstream call, and *)
(* the fallback to another mandate.                                        *)
(*                                                                         *)
(* Calls run concurrently in one process and are cut where the handler     *)
(* awaits.  A ticket request is keyed on an id drawn at each attempt with  *)
(* a mandate, and no mandate is attempted twice in one call: the pair      *)
(* <<call, mandate>> stands for that key.  The Authority Server (AS) and   *)
(* the network are external; the AS alone counts executions (the handler   *)
(* passes the gatekeeper no execution log).                                *)
(***************************************************************************)
EXTENDS ScopeSelection, Naturals

CONSTANTS
  Call,
  NoMandate,
  ScopeOf,        \* ScopeOf[m]: the signed scope
  Mode,           \* Mode[m]: the signed commitment_mode
  Unrouted,       \* mandates the AS sends without pending approvers
  Cap,            \* Cap[m]: executions the AS allows under m
  MaxAttempts,    \* receiptRetry.maxAttempts of postReceipt
  MaxFaults       \* bound: failed attempts, disk errors and crashes

MandateAssumption ==
  /\ NoMandate \notin Mandate
  /\ ScopeOf \in [Mandate -> Scope]
  /\ Mode \in [Mandate -> {"automatic", "review_above_cap", "review"}]
  /\ Unrouted \subseteq Mandate
  /\ Cap \in [Mandate -> Nat]
AttemptsAssumption == MaxAttempts \in Nat \ {0}

Request == Call \X Mandate

VARIABLES
  validity,    \* AS: "valid", "revoked" or "old" (its protocol version) per mandate
  issued,      \* AS: requests it has issued, and counted, a ticket for
  proposed,    \* AS: calls it holds a proposal of
  wire,        \* network: ticket requests that may still reach the AS
  journal,     \* disk: execution-journal.json
  archive,     \* disk: requests whose ticket is in the receipt archive
  cache,       \* memory: mandates the attestation cache offers
  flagged,     \* memory: mandates marked as needing re-approval
  at,          \* memory: where each call stands
  runs,        \* history: downstream calls per request
  refused,     \* history: requests whose downstream call was answered with isError
  faults       \* history: failures spent

vars == <<validity, issued, proposed, wire, journal, archive, cache, flagged,
          at, runs, refused, faults>>

J == INSTANCE ExecutionJournal

Pc     == {"idle", "checks", "ask", "proposal", "evidence", "begun", "call", "over", "dead"}
Answer == {"none", "ticket", "stale", "version", "above cap", "refused", "failed"}
\* What the agent is told at the end: nothing ran (in whatever words), a
\* proposal was made, the tool's own answer, or an error the tool threw.
Reply  == {"none", "nothing ran", "proposed", "tool", "threw"}

At == [pc : Pc, passers : SUBSET Mandate, pool : SUBSET Mandate,
       mandate : Mandate \cup {NoMandate}, attempt : 0 .. MaxAttempts,
       answer : Answer, reply : Reply]

Idle == [pc |-> "idle", passers |-> {}, pool |-> {}, mandate |-> NoMandate,
         attempt |-> 0, answer |-> "none", reply |-> "none"]

TypeOK ==
  /\ validity \in [Mandate -> {"valid", "revoked", "old"}]
  /\ issued \in SUBSET Request
  /\ proposed \in SUBSET Call
  /\ wire \in SUBSET Request
  /\ journal \in J!JournalType
  /\ archive \in SUBSET Request
  /\ cache \in SUBSET Mandate
  /\ flagged \in SUBSET Mandate
  /\ at \in [Call -> At]
  /\ runs \in [Request -> Nat]
  /\ refused \in SUBSET Request
  /\ faults \in Nat

Init ==
  /\ validity = [m \in Mandate |-> "valid"]
  /\ issued = {}
  /\ proposed = {}
  /\ wire = {}
  /\ journal = J!EmptyJournal
  /\ archive = {}
  /\ cache = Mandate
  /\ flagged = {}
  /\ at = [c \in Call |-> Idle]
  /\ runs = [k \in Request |-> 0]
  /\ refused = {}
  /\ faults = 0

asVars   == <<validity, issued, proposed>>
diskVars == <<journal, archive>>
outcomes == <<runs, refused>>

Fault == faults < MaxFaults /\ faults' = faults + 1

KeyOf(c) == <<c, at[c].mandate>>

\* The handler returns, or throws, to the agent.
Ends(c, reply) ==
  at' = [at EXCEPT ![c].pc = "over", ![c].reply = reply]

-----------------------------------------------------------------------------
(* Mistakes this file could have; each takes the place of the operator with *)
(* the same parameters below.                                               *)

\* No check of the signed commitment mode.
DowngradeUnseen(m) == FALSE

\* Another mandate is tried after a request without an answer, too.
StaleOrUnknown(a) == a \in {"stale", "version", "failed"}

\* The refused mandate stays among the candidates.
KeepsRefused(c) == at[c].pool

\* The ticket is used without being archived.
BeginUnarchived(c) ==
  /\ at[c].pc = "evidence"
  /\ journal' = J!Begin(journal, KeyOf(c), 1)
  /\ at' = [at EXCEPT ![c].pc = "begun"]
  /\ UNCHANGED <<asVars, wire, archive, cache, flagged, outcomes, faults>>

\* begin() is not written before the call.
BeginInMemory(c) ==
  /\ at[c].pc = "evidence"
  /\ archive' = archive \cup {KeyOf(c)}
  /\ at' = [at EXCEPT ![c].pc = "begun"]
  /\ UNCHANGED <<asVars, wire, journal, cache, flagged, outcomes, faults>>

\* A tool that throws is answered like any refusal before the call.
ThrowIsBlocked(c) ==
  /\ at[c].pc = "call"
  /\ journal' = J!Complete(journal, KeyOf(c), "failed", "")
  /\ Ends(c, "nothing ran")
  /\ UNCHANGED <<asVars, wire, archive, cache, flagged, outcomes, faults>>

-----------------------------------------------------------------------------
(* Selection.                                                               *)

\* Pending approver domains come with the mandate, unsigned.
RequiresApproval(m) == Mode[m] = "review" /\ m \notin Unrouted

\* isCommitmentDowngrade(): review was signed, nobody is to approve.
Downgrade(m) == Mode[m] = "review" /\ m \in Unrouted

\* postReceipt() is preceded by requested(), on disk.
RecordRequest(J0, k) == J!Requested(J0, k)

\* attemptWithCandidates() up to its first await that matters: a mandate is
\* selected; the call is refused, becomes a proposal, or asks for a ticket.
\* J0 is the journal so far.
Attempt(c, passers, pool, J0) ==
  LET m == Select(pool, ScopeOf, {n \in Mandate : RequiresApproval(n)})
      Go(pc, n, reply) ==
        at' = [at EXCEPT ![c] =
                 [pc |-> pc, passers |-> passers, pool |-> pool, mandate |-> m,
                  attempt |-> n, answer |-> "none", reply |-> reply]]
  IN  \/ /\ Downgrade(m)
         /\ Go("over", 0, "nothing ran")
         /\ journal' = J0
         /\ UNCHANGED wire
      \/ /\ RequiresApproval(m)
         /\ Go("proposal", 0, "none")
         /\ journal' = J0
         /\ UNCHANGED wire
      \/ /\ ~ RequiresApproval(m) /\ ~ Downgrade(m)
         /\ \/ /\ Go("ask", 1, "none")
               /\ journal' = RecordRequest(J0, <<c, m>>)
               /\ wire' = wire \cup {<<c, m>>}
            \* A stale document, a missing amount, content that cannot be bound.
            \/ /\ Go("over", 0, "nothing ran")
               /\ journal' = J0
               /\ UNCHANGED wire

\* The call arrives and reads the cache; then the blocking checks are awaited.
Arrive(c) ==
  /\ at[c] = Idle
  /\ IF cache = {} THEN Ends(c, "nothing ran")
                   ELSE at' = [at EXCEPT ![c].pc = "checks", ![c].pool = cache]
  /\ UNCHANGED <<asVars, wire, diskVars, cache, flagged, outcomes, faults>>

\* The gatekeeper looks at every mandate; which of them pass (and allow the
\* attachments) depends on the arguments of the call.
ChecksPass(c) ==
  /\ at[c].pc = "checks"
  /\ \E passers \in (SUBSET at[c].pool) \ {{}} : Attempt(c, passers, passers, journal)
  /\ UNCHANGED <<asVars, archive, cache, flagged, outcomes, faults>>

\* A blocking check fails, or no mandate passes.
ChecksFail(c) ==
  /\ at[c].pc = "checks"
  /\ Ends(c, "nothing ran")
  /\ UNCHANGED <<asVars, wire, diskVars, cache, flagged, outcomes, faults>>

-----------------------------------------------------------------------------
(* The Authority Server.                                                    *)

\* Executions counted under m.
Count(m) == Cardinality({k \in issued : k[2] = m})

\* A request it has answered with a ticket gets that ticket again.
Verdict(k) ==
  LET m == k[2]
  IN  IF k \in issued THEN "ticket"
      ELSE IF validity[m] = "revoked" THEN "stale"
      ELSE IF validity[m] = "old" THEN "version"
      ELSE IF Count(m) < Cap[m] THEN "ticket"
      ELSE IF Mode[m] = "review_above_cap" THEN "above cap" ELSE "refused"

Awaiting(c) == at[c].pc = "ask" /\ at[c].answer = "none"

\* A request reaches the AS.  Its answer reaches a call that still waits for
\* it, or is lost.
AsAnswers(k) ==
  /\ k \in wire
  /\ wire' = wire \ {k}
  /\ issued' = IF Verdict(k) = "ticket" THEN issued \cup {k} ELSE issued
  /\ \/ /\ Awaiting(k[1]) /\ KeyOf(k[1]) = k
        /\ at' = [at EXCEPT ![k[1]].answer = Verdict(k)]
     \/ UNCHANGED at
  /\ UNCHANGED <<validity, proposed, diskVars, cache, flagged, outcomes, faults>>

\* A person revokes a mandate, or the AS drops its protocol version.
Invalid(m) ==
  /\ validity[m] = "valid"
  /\ \E v \in {"revoked", "old"} : validity' = [validity EXCEPT ![m] = v]
  /\ UNCHANGED <<issued, proposed, wire, diskVars, cache, flagged, at, outcomes, faults>>

-----------------------------------------------------------------------------
(* The answer to the ticket request.                                        *)

\* A network error, a timeout or a 5xx: tried again with the same key, unless
\* it was the last attempt.  The failed request may still be under way.
AttemptFails(c) ==
  /\ Awaiting(c)
  /\ Fault \/ (KeyOf(c) \notin wire /\ UNCHANGED faults)
  /\ IF at[c].attempt < MaxAttempts
     THEN /\ at' = [at EXCEPT ![c].attempt = @ + 1]
          /\ wire' = wire \cup {KeyOf(c)}
     ELSE /\ at' = [at EXCEPT ![c].answer = "failed"]
          /\ UNCHANGED wire
  /\ UNCHANGED <<asVars, diskVars, cache, flagged, outcomes>>

\* The refusals after which another mandate is tried.
FallsBack(a) == a \in {"stale", "version"}

Remaining(c) == at[c].pool \ {at[c].mandate}

\* The row of a request that got no ticket is closed first, whatever the error.
Closed(c) == J!RefusedBeforeTicket(journal, KeyOf(c))

\* A stale mandate leaves the cache, one of an old version is flagged; the
\* call goes on with the other candidates of its own pool.
Fallback(c) ==
  /\ at[c].pc = "ask" /\ FallsBack(at[c].answer)
  /\ cache' = IF at[c].answer = "stale" THEN cache \ {at[c].mandate} ELSE cache
  /\ flagged' = IF at[c].answer = "version" THEN flagged \cup {at[c].mandate} ELSE flagged
  /\ IF Remaining(c) # {}
     THEN Attempt(c, at[c].passers, Remaining(c), Closed(c))
     ELSE Ends(c, "nothing ran") /\ journal' = Closed(c) /\ UNCHANGED wire
  /\ UNCHANGED <<asVars, archive, outcomes, faults>>

\* 409: the action needs an approval of its own.
AboveCap(c) ==
  /\ at[c].pc = "ask" /\ at[c].answer = "above cap"
  /\ at' = [at EXCEPT ![c].pc = "proposal"]
  /\ journal' = Closed(c)
  /\ UNCHANGED <<asVars, wire, archive, cache, flagged, outcomes, faults>>

\* 422, 403, 401, or no answer at all.
Blocked(c) ==
  /\ at[c].pc = "ask" /\ at[c].answer \in {"refused", "failed"} /\ ~ FallsBack(at[c].answer)
  /\ Ends(c, "nothing ran")
  /\ journal' = Closed(c)
  /\ UNCHANGED <<asVars, wire, archive, cache, flagged, outcomes, faults>>

\* submitProposal(); its answer may be lost, then the agent hears of a failure.
Propose(c) ==
  /\ at[c].pc = "proposal"
  /\ \E made \in BOOLEAN :
       proposed' = IF made THEN proposed \cup {c} ELSE proposed
  /\ \E reply \in {"proposed", "nothing ran"} :
       /\ reply = "proposed" => c \in proposed'
       /\ Ends(c, reply)
  /\ UNCHANGED <<validity, issued, wire, diskVars, cache, flagged, outcomes, faults>>

TicketArrives(c) ==
  /\ at[c].pc = "ask" /\ at[c].answer = "ticket"
  /\ at' = [at EXCEPT ![c].pc = "evidence"]
  /\ UNCHANGED <<asVars, wire, diskVars, cache, flagged, outcomes, faults>>

\* verifyTicket() or archiveReceipt() throws: the row stays requested.
EvidenceFails(c) ==
  /\ at[c].pc = "evidence"
  /\ Ends(c, "nothing ran")
  /\ UNCHANGED <<asVars, wire, diskVars, cache, flagged, outcomes, faults>>

-----------------------------------------------------------------------------
(* The downstream call.                                                     *)

\* The ticket is archived; begin() follows without an await.
Begin(c) ==
  /\ at[c].pc = "evidence"
  /\ archive' = archive \cup {KeyOf(c)}
  /\ IF J!Claimable(journal, KeyOf(c), 1)
     THEN journal' = J!Begin(journal, KeyOf(c), 1) /\ at' = [at EXCEPT ![c].pc = "begun"]
     ELSE Ends(c, "nothing ran") /\ UNCHANGED journal
  /\ UNCHANGED <<asVars, wire, cache, flagged, outcomes, faults>>

\* callTool() follows at once, but a crash may come in between.
CallTool(c) ==
  /\ at[c].pc = "begun"
  /\ runs' = [runs EXCEPT ![KeyOf(c)] = @ + 1]
  /\ at' = [at EXCEPT ![c].pc = "call"]
  /\ UNCHANGED <<asVars, wire, diskVars, cache, flagged, refused, faults>>

\* begin() cannot write: the error goes to the agent before the call.
BeginThrows(c) ==
  /\ at[c].pc = "evidence"
  /\ Fault
  /\ archive' = archive \cup {KeyOf(c)}
  /\ Ends(c, "threw")
  /\ UNCHANGED <<asVars, wire, journal, cache, flagged, outcomes>>

\* The tool answers; an answer with isError is an answer.
ToolAnswers(c) ==
  /\ at[c].pc = "call"
  /\ journal' = J!Complete(journal, KeyOf(c), "done", "")
  /\ \E isError \in BOOLEAN :
       refused' = IF isError THEN refused \cup {KeyOf(c)} ELSE refused
  /\ Ends(c, "tool")
  /\ UNCHANGED <<asVars, wire, archive, cache, flagged, runs, faults>>

\* The tool throws, or complete() does: then the catch block completes the
\* row once more, if the disk lets it.
CallThrows(c) ==
  /\ at[c].pc = "call"
  /\ \/ journal' = J!Complete(journal, KeyOf(c), "failed", "") /\ UNCHANGED faults
     \/ UNCHANGED journal /\ Fault
  /\ Ends(c, "threw")
  /\ UNCHANGED <<asVars, wire, archive, cache, flagged, outcomes>>

\* The process dies and is started again: the calls are gone, the cache is
\* filled with what the AS still offers.
Crash ==
  /\ Fault
  /\ at' = [c \in Call |-> IF at[c].pc \in {"idle", "over"} THEN at[c]
                           ELSE [at[c] EXCEPT !.pc = "dead"]]
  /\ cache' = {m \in Mandate : validity[m] # "revoked"}
  /\ flagged' = {}
  /\ UNCHANGED <<asVars, wire, diskVars, outcomes>>

-----------------------------------------------------------------------------
\* What the event loop continues by itself, for one call.
Step(c) ==
  \/ ChecksPass(c) \/ ChecksFail(c)
  \/ Fallback(c) \/ AboveCap(c) \/ Blocked(c) \/ Propose(c)
  \/ TicketArrives(c) \/ EvidenceFails(c)
  \/ Begin(c) \/ CallTool(c) \/ ToolAnswers(c) \/ CallThrows(c)

Next ==
  \/ \E c \in Call : Arrive(c) \/ Step(c) \/ AttemptFails(c) \/ BeginThrows(c)
  \/ \E k \in Request : AsAnswers(k)
  \/ \E m \in Mandate : Invalid(m)
  \/ Crash

\* Promises and timers of the process; every request has a timeout, so an
\* attempt ends even when its answer is lost; callTool() is timed out by the
\* MCP SDK.
Fairness ==
  /\ \A c \in Call : WF_vars(Step(c)) /\ WF_vars(AttemptFails(c))
  /\ \A k \in Request : WF_vars(AsAnswers(k))

Spec == Init /\ [][Next]_vars /\ Fairness
-----------------------------------------------------------------------------
\* A call spends at most one ticket however many mandates it is tried under:
\* only refusals that judged the mandate, not the call, lead to another one,
\* and no late copy of a request is issued a ticket afterwards.
OneTicketPerCall ==
  \A c \in Call : \A m, n \in Mandate :
    {<<c, m>>, <<c, n>>} \subseteq issued => m = n

\* When the agent hears that nothing ran, nothing ran and nothing will.
NothingRanIsTrue ==
  \A k \in Request : at[k[1]].reply = "nothing ran" => runs[k] = 0

\* Every execution the AS has counted has a row on disk, whatever was lost
\* and whenever the process died: requested() comes first.
TicketsLeaveARow ==
  \A k \in issued : journal.row[k].state # "none"

\* No ticket, no execution; no evidence, no execution: what ran has a ticket
\* at the AS, the ticket is archived here, and the row was begun under it.
RunsAreEvidenced ==
  \A k \in Request : runs[k] > 0 =>
    /\ k \in issued \cap archive
    /\ journal.row[k].ticket = 1
    /\ journal.row[k].state \in {"intent", "done", "failed"}

\* Both together: from the AS's count to the row, from the call to its ticket.
CallsAreEvidenced == TicketsLeaveARow /\ RunsAreEvidenced

\* Nothing runs under a mandate signed for review, and nothing runs under
\* another one unless it is strictly narrower than every mandate that would
\* have asked for approval, whatever was dropped on the way.
ReviewIsKept ==
  \A c \in Call : \A m \in Mandate : runs[<<c, m>>] > 0 =>
    /\ Mode[m] # "review"
    /\ \A n \in at[c].passers :
         RequiresApproval(n) => StrictlyMoreSpecific(ScopeOf[m], ScopeOf[n])

\* Claimed, acted on once under the claim, closed for good: the same promise
\* as on the review path, per request.
ClaimOf(k) ==
  IF journal.row[k].state \in {"none", "requested"} THEN "open"
  ELSE IF journal.row[k].state = "intent" THEN "claimed"
  ELSE journal.row[k].state
OneExec == INSTANCE OneExecution WITH claim <- [k \in Request |-> ClaimOf(k)], acts <- runs
OneExecutionPromise == OneExec!Spec

\* Every call is answered unless the process dies under it: the fallbacks end
\* (the pool shrinks) and so do the attempts.
CallsAreAnswered ==
  \A c \in Call : at[c].pc # "idle" ~> at[c].pc \in {"over", "dead"}

-----------------------------------------------------------------------------
(* Statements of the source that do not hold.                               *)

\* tool-proxy.ts:1683 on the requested row: "A lost response leaves this row,
\* and that is the one case a replayed ticket may run."
LostResponseLeavesRow ==
  \A k \in issued :
    at[k[1]].pc = "over" /\ runs[k] = 0 => journal.row[k].state = "requested"

\* execution-journal.ts:60, outcome: "Set with state 'failed': 'refused' when
\* the connector answered but refused the action".
ConnectorRefusalIsFailed ==
  \A k \in refused : journal.row[k].state = "failed"
=============================================================================
