----------------------- MODULE ReviewExecutionProofs ------------------------
(***************************************************************************)
(* Theorems about ReviewExecution, for every set of proposals, every       *)
(* number of attempts, tickets, failures, crashes and restarts.            *)
(***************************************************************************)
EXTENDS ReviewExecution, SequenceTheorems, TLAPS

-----------------------------------------------------------------------------
(* The journal's operators.                                                 *)

\* Every method of the journal maps a journal to a journal.
LEMMA JournalTypes ==
  ASSUME NEW K \in J!JournalType, NEW p \in Proposal, NEW t \in Nat,
         NEW s \in {"done", "failed"}, NEW o \in J!Outcome
  PROVE  /\ J!Requested(K, p) \in J!JournalType
         /\ J!RefusedBeforeTicket(K, p) \in J!JournalType
         /\ J!Begin(K, p, t) \in J!JournalType
         /\ J!Complete(K, p, s, o) \in J!JournalType
         /\ J!NoteAsRefused(K, p) \in J!JournalType
  <1>. USE DEF J!JournalType, J!Row, J!RowState, J!Outcome
  <1>1. K.row[p] \in J!Row /\ K.row \in [Proposal -> J!Row] /\ K.asRefused \in SUBSET Proposal
    OBVIOUS
  <1>2. J!Requested(K, p) \in J!JournalType
    BY <1>1 DEF J!Requested
  <1>3. J!RefusedBeforeTicket(K, p) \in J!JournalType
    BY <1>1 DEF J!RefusedBeforeTicket
  <1>4. J!Begin(K, p, t) \in J!JournalType
    BY <1>1 DEF J!Begin
  <1>5. J!Complete(K, p, s, o) \in J!JournalType
    BY <1>1 DEF J!Complete
  <1>6. J!NoteAsRefused(K, p) \in J!JournalType
    BY <1>1 DEF J!NoteAsRefused
  <1>. QED  BY <1>2, <1>3, <1>4, <1>5, <1>6

LEMMA EmptyJournalType == J!EmptyJournal \in J!JournalType
  BY DEF J!JournalType, J!Row, J!RowState, J!Outcome, J!EmptyJournal, J!NoRow

-----------------------------------------------------------------------------
(* The queue.                                                               *)

\* Joining or queueing keeps a non-empty queue's head, the run under way.
LEMMA EnqueueKeepsHead ==
  ASSUME NEW p \in Proposal, chain \in Seq(Proposal), Enqueue(p)
  PROVE  /\ chain' \in Seq(Proposal)
         /\ chain # <<>> => chain' # <<>> /\ Head(chain') = Head(chain)
  <1>1. CASE p \in InFlight
    BY <1>1 DEF Enqueue
  <1>2. CASE p \notin InFlight
    <2>1. chain' = Append(chain, p)
      BY <1>2 DEF Enqueue
    <2>. QED  BY <2>1, AppendProperties, HeadTailAppend
  <1>. QED  BY <1>1, <1>2

\* What Settle leaves behind is well typed.
LEMMA SettleTypes ==
  ASSUME TypeOK, NEW p \in Proposal, NEW c \in SUBSET Claim, Settle(p, c),
         chain # <<>>
  PROVE  /\ chain' \in Seq(Proposal)
         /\ run' \in Run
         /\ poll' \in [left : SUBSET Proposal, waiting : Proposal \cup {NoProposal}]
         /\ agent' \in [on : Proposal \cup {NoProposal},
                        read : AsStatus \cup {"waiting"}]
         /\ said' \in [Proposal -> SUBSET Claim]
  <1>1. chain' \in Seq(Proposal)
    BY HeadTailProperties DEF Settle, TypeOK
  <1>2. run' \in Run
    BY DEF Settle, Idle, Run, Pc, Answer
  <1>3. poll' \in [left : SUBSET Proposal, waiting : Proposal \cup {NoProposal}]
    BY DEF Settle, TypeOK
  <1>4. agent' \in [on : Proposal \cup {NoProposal}, read : AsStatus \cup {"waiting"}]
    BY DEF Settle, TypeOK, NoCheck, AsStatus
  <1>5. said' \in [Proposal -> SUBSET Claim]
    BY DEF Settle, TypeOK
  <1>. QED  BY <1>1, <1>2, <1>3, <1>4, <1>5

-----------------------------------------------------------------------------
(* Type correctness.                                                        *)

LEMMA InitTypeOK == Init => TypeOK
  <1>. SUFFICES ASSUME Init PROVE TypeOK
    OBVIOUS
  <1>1. journal \in J!JournalType
    BY EmptyJournalType DEF Init
  <1>2. run \in Run
    BY DEF Init, Idle, Run, Pc, Answer
  <1>. QED
    BY <1>1, <1>2 DEF Init, TypeOK, NoPoll, NoCheck, AsStatus

\* The steps of submission, triggers and AS keep the types.
LEMMA OutsideTypeOK ==
  ASSUME TypeOK, NEW p \in Proposal,
         \/ Submit(p, TRUE) \/ Submit(p, FALSE) \/ RecordSubmission(p)
         \/ SubmissionLost(p) \/ Decide(p)
         \/ AgentReads(p) \/ AgentActs(p)
         \/ AsAnswers(p) \/ AttemptFails(p)
  PROVE  TypeOK'
  <1>. USE DEF asVars, diskVars, history
  <1>1. ASSUME NEW here \in BOOLEAN, Submit(p, here) PROVE TypeOK'
    <2>1. submitting' \in SUBSET Proposal
      BY <1>1 DEF Submit, TypeOK
    <2>2. asStatus' \in [Proposal -> AsStatus]
      BY <1>1 DEF Submit, TypeOK, AsStatus
    <2>. QED  BY <1>1, <2>1, <2>2 DEF Submit, TypeOK
  <1>2. CASE RecordSubmission(p) \/ SubmissionLost(p)
    BY <1>2 DEF RecordSubmission, SubmissionLost, Fault, TypeOK
  <1>3. CASE Decide(p)
    BY <1>3 DEF Decide, TypeOK, AsStatus, memVars
  <1>4. CASE AgentReads(p)
    <2>1. asStatus[p] \in AsStatus
      BY DEF TypeOK
    <2>2. agent' \in [on : Proposal \cup {NoProposal}, read : AsStatus \cup {"waiting"}]
      BY <1>4, <2>1 DEF AgentReads
    <2>. QED  BY <1>4, <2>2 DEF AgentReads, TypeOK
  <1>5. CASE AgentActs(p)
    <2>1. chain' \in Seq(Proposal)
      BY <1>5, EnqueueKeepsHead DEF AgentActs, TypeOK
    <2>2. AgentAnswer(p, agent.read) \subseteq Claim
      BY DEF AgentAnswer, ExecutedClaim, Claim
    <2>3. said' \in [Proposal -> SUBSET Claim]
      <3>1. said \in [Proposal -> SUBSET Claim]
        BY DEF TypeOK
      <3>2. \/ said' = said
            \/ said' = [said EXCEPT ![p] = said[p] \cup AgentAnswer(p, agent.read)]
        BY <1>5 DEF AgentActs
      <3>. QED  BY <2>2, <3>1, <3>2
    <2>4. agent' \in [on : Proposal \cup {NoProposal}, read : AsStatus \cup {"waiting"}]
      BY <1>5 DEF AgentActs, TypeOK, NoCheck, AsStatus
    <2>. QED  BY <1>5, <2>1, <2>3, <2>4 DEF AgentActs, TypeOK
  <1>6. CASE AsAnswers(p)
    <2>1. PICK s \in AsStatus, n \in {issued[p], issued[p] + 1}, a \in Answer :
            /\ asStatus' = [asStatus EXCEPT ![p] = s]
            /\ issued' = [issued EXCEPT ![p] = n]
            /\ run' = IF Awaiting(p)
                      THEN [run EXCEPT !.answer = a, !.ticket = n] ELSE run
      BY <1>6 DEF AsAnswers
    <2>2. n \in Nat
      BY DEF TypeOK
    <2>3. run' \in Run
      BY <2>1, <2>2 DEF TypeOK, Run
    <2>. QED  BY <1>6, <2>1, <2>2, <2>3 DEF AsAnswers, TypeOK
  <1>7. CASE AttemptFails(p)
    <2>1. run' \in Run
      BY <1>7 DEF AttemptFails, TypeOK, Run, Answer
    <2>2. wire' \in SUBSET Proposal
      BY <1>7 DEF AttemptFails, TypeOK
    <2>. QED  BY <1>7, <2>1, <2>2 DEF AttemptFails, TypeOK, Fault
  <1>. QED  BY <1>1, <1>2, <1>3, <1>4, <1>5, <1>6, <1>7

\* A step that settles the run keeps the types, whatever it writes.
LEMMA SettledTypeOK ==
  ASSUME TypeOK, NEW p \in Proposal, NEW c \in SUBSET Claim, Settle(p, c),
         chain # <<>>, journal' \in J!JournalType, faults' \in Nat,
         UNCHANGED <<asVars, wire, submitted, up, submitting, calls, effects>>
  PROVE  TypeOK'
  BY SettleTypes DEF TypeOK, asVars

\* The steps of the run at the head of the queue keep the types.
LEMMA RunTypeOK ==
  ASSUME TypeOK, NEW p \in Proposal, RunStep(p) \/ RunAborts(p)
  PROVE  TypeOK'
  <1>. USE DEF diskVars, asVars, history
  <1>1. /\ journal \in J!JournalType /\ faults \in Nat /\ run.ticket \in Nat
        /\ {} \in SUBSET Claim /\ {"ran"} \in SUBSET Claim
        /\ {"nothing ran"} \in SUBSET Claim
    BY DEF TypeOK, Run, Claim
  <1>2. CASE Skip(p) \/ GiveUp(p)
    BY <1>1, <1>2, SettledTypeOK DEF Skip, GiveUp, Running
  <1>3. CASE Start(p)
    <2>1. journal' \in J!JournalType
      BY <1>1, <1>3, JournalTypes DEF Start, J!Outcome
    <2>2. run' \in Run
      BY <1>3 DEF Start, Idle, Run, Pc, Answer
    <2>. QED  BY <1>3, <2>1, <2>2 DEF Start, TypeOK
  <1>4. CASE Retry(p)
    <2>1. run' \in Run
      <3>1. run \in Run /\ run.attempt \in Nat
        BY DEF TypeOK, Run
      <3>2. run' = [run EXCEPT !.attempt = run.attempt + 1, !.answer = "none"]
        BY <1>4 DEF Retry
      <3>3. run.attempt + 1 \in Nat
        BY <3>1
      <3>. QED  BY <3>1, <3>2, <3>3, Zenon DEF Run, Answer
    <2>. QED  BY <1>4, <2>1 DEF Retry, TypeOK
  <1>5. CASE AlreadyExecuted(p)
    <2>1. ExecutedClaim(p) \in SUBSET Claim
      BY DEF ExecutedClaim
    <2>. QED  BY <1>1, <1>5, <2>1, SettledTypeOK DEF AlreadyExecuted, Running
  <1>6. CASE RefusedEarlier(p)
    <2>1. journal' \in J!JournalType
      BY <1>1, <1>6, JournalTypes DEF RefusedEarlier, J!Outcome
    <2>. QED  BY <1>1, <1>6, <2>1, SettledTypeOK DEF RefusedEarlier, Running
  <1>7. CASE TakenAsRefusal(p)
    <2>1. journal' \in J!JournalType
      <3>1. J!RefusedBeforeTicket(journal, p) \in J!JournalType
        BY <1>1, JournalTypes DEF J!Outcome
      <3>. QED  BY <1>7, <3>1, JournalTypes DEF TakenAsRefusal, J!Outcome
    <2>. QED  BY <1>1, <1>7, <2>1, SettledTypeOK DEF TakenAsRefusal, Running
  <1>8. CASE BeginOk(p)
    <2>1. journal' \in J!JournalType
      BY <1>1, <1>8, JournalTypes DEF BeginOk, J!Outcome
    <2>2. run' \in Run
      BY <1>8 DEF BeginOk, TypeOK, Run, Pc
    <2>. QED  BY <1>8, <2>1, <2>2 DEF BeginOk, TypeOK
  <1>9. CASE BeginRefused(p)
    <2>1. (IF journal.row[p].state = "done" THEN {"ran"} ELSE {}) \in SUBSET Claim
      BY <1>1
    <2>. QED  BY <1>1, <1>9, <2>1, SettledTypeOK DEF BeginRefused, Running
  <1>10. CASE Proceed(p)
    <2>1. run' \in Run
      BY <1>10 DEF Proceed, TypeOK, Run, Pc
    <2>. QED  BY <1>10, <2>1 DEF Proceed, TypeOK
  <1>11. CASE Refuse(p)
    <2>1. journal' \in J!JournalType
      BY <1>1, <1>11, JournalTypes DEF Refuse, J!Outcome
    <2>. QED  BY <1>1, <1>11, <2>1, SettledTypeOK DEF Refuse, Running
  <1>12. CASE PrepareThrows(p) \/ ToolThrows(p)
    <2>1. journal' \in J!JournalType
      BY <1>1, <1>12, JournalTypes DEF PrepareThrows, ToolThrows, J!Outcome
    <2>. QED  BY <1>1, <1>12, <2>1, SettledTypeOK DEF PrepareThrows, ToolThrows, Running
  <1>13. CASE CallTool(p)
    <2>1. PICK w \in BOOLEAN :
            /\ run' = [run EXCEPT !.pc = "called", !.worked = w]
            /\ effects' = [effects EXCEPT ![p] = IF w THEN @ + 1 ELSE @]
      BY <1>13 DEF CallTool
    <2>2. run' \in Run
      BY <2>1 DEF TypeOK, Run, Pc
    <2>3. effects' \in [Proposal -> Nat] /\ calls' \in [Proposal -> Nat]
      BY <1>13, <2>1 DEF CallTool, TypeOK
    <2>. QED  BY <1>13, <2>2, <2>3 DEF CallTool, TypeOK
  <1>14. CASE ToolSucceeds(p) \/ ToolRefuses(p)
    <2>1. journal' \in J!JournalType
      BY <1>1, <1>14, JournalTypes DEF ToolSucceeds, ToolRefuses, J!Outcome
    <2>. QED  BY <1>1, <1>14, <2>1, SettledTypeOK DEF ToolSucceeds, ToolRefuses, Running
  <1>15. CASE RunAborts(p)
    <2>1. faults' \in Nat
      <3>1. faults' = faults + 1
        BY <1>15 DEF RunAborts, Fault
      <3>2. faults \in Nat
        BY DEF TypeOK
      <3>. QED  BY <3>1, <3>2
    <2>. chain # <<>>
      BY <1>15 DEF RunAborts, AboutToWrite
    <2>2. /\ Settle(p, {}) /\ journal' \in J!JournalType
          /\ UNCHANGED <<asVars, wire, submitted, up, submitting, calls, effects>>
      BY <1>1, <1>15 DEF RunAborts
    <2>. QED  BY <1>1, <2>1, <2>2, SettledTypeOK
  <1>. QED
    BY <1>2, <1>3, <1>4, <1>5, <1>6, <1>7, <1>8, <1>9, <1>10, <1>11, <1>12,
       <1>13, <1>14, <1>15 DEF RunStep

\* The steps of the poll loop, a crash and a restart keep the types.
LEMMA ProcessTypeOK ==
  ASSUME TypeOK, PollFetch \/ PollNext \/ Crash \/ Restart
  PROVE  TypeOK'
  <1>. USE DEF diskVars, asVars, history
  <1>1. CASE PollFetch
    BY <1>1 DEF PollFetch, TypeOK
  <1>2. CASE PollNext
    <2>1. PICK p \in poll.left :
            poll' = [left |-> poll.left \ {p}, waiting |-> p] /\ Enqueue(p)
      BY <1>2 DEF PollNext
    <2>2. p \in Proposal /\ chain \in Seq(Proposal)
      BY DEF TypeOK
    <2>3. chain' \in Seq(Proposal)
      BY <2>1, <2>2, EnqueueKeepsHead
    <2>. QED  BY <1>2, <2>1, <2>2, <2>3 DEF PollNext, TypeOK
  <1>3. CASE Crash
    <2>1. run' \in Run
      BY <1>3 DEF Crash, Idle, Run, Pc, Answer
    <2>2. poll' \in [left : SUBSET Proposal, waiting : Proposal \cup {NoProposal}]
      BY <1>3 DEF Crash, NoPoll
    <2>3. agent' \in [on : Proposal \cup {NoProposal}, read : AsStatus \cup {"waiting"}]
      BY <1>3 DEF Crash, NoCheck, AsStatus
    <2>4. chain' \in Seq(Proposal) /\ faults' \in Nat
      BY <1>3 DEF Crash, Fault, TypeOK
    <2>. QED  BY <1>3, <2>1, <2>2, <2>3, <2>4 DEF Crash, TypeOK
  <1>4. CASE Restart
    BY <1>4 DEF Restart, TypeOK, memVars
  <1>. QED  BY <1>1, <1>2, <1>3, <1>4

\* Every reachable state is well typed: no step of the review path, of the AS
\* or of a crash takes a variable outside the values the code can hold.
THEOREM TypeCorrect == Spec => []TypeOK
  <1>1. TypeOK /\ [Next]_vars => TypeOK'
    <2>. SUFFICES ASSUME TypeOK, [Next]_vars PROVE TypeOK'
      OBVIOUS
    <2>1. CASE UNCHANGED vars
      BY <2>1 DEF vars, asVars, diskVars, memVars, history, TypeOK
    <2>2. CASE Next
      BY <2>2, OutsideTypeOK, RunTypeOK, ProcessTypeOK DEF Next
    <2>. QED  BY <2>1, <2>2
  <1>. QED  BY <1>1, InitTypeOK, PTL DEF Spec

-----------------------------------------------------------------------------
(* One approved proposal, one downstream call.                              *)

\* No method of the journal turns a claimed or closed row back into one that a
\* run could claim; begin() makes the row intent and leaves the others alone.
LEMMA ClaimsAreKept ==
  ASSUME NEW K \in J!JournalType, NEW p \in Proposal, NEW q \in Proposal,
         NEW t \in Nat, NEW s \in {"done", "failed"}, NEW o \in J!Outcome,
         K.row[q].state \notin {"none", "requested"}
  PROVE  /\ J!Requested(K, p).row[q].state \notin {"none", "requested"}
         /\ J!RefusedBeforeTicket(K, p).row[q].state \notin {"none", "requested"}
         /\ J!Begin(K, p, t).row[q].state \notin {"none", "requested"}
         /\ J!Complete(K, p, s, o).row[q].state \notin {"none", "requested"}
         /\ J!NoteAsRefused(K, p).row[q] = K.row[q]
  <1>. USE DEF J!JournalType, J!Row, J!RowState, J!Outcome
  <1>1. K.row \in [Proposal -> J!Row] /\ K.row[p] \in J!Row /\ K.row[q] \in J!Row
    OBVIOUS
  <1>2. J!Requested(K, p).row[q].state \notin {"none", "requested"}
    BY <1>1 DEF J!Requested
  <1>3. J!RefusedBeforeTicket(K, p).row[q].state \notin {"none", "requested"}
    BY <1>1 DEF J!RefusedBeforeTicket
  <1>4. J!Begin(K, p, t).row[q].state \notin {"none", "requested"}
    BY <1>1 DEF J!Begin
  <1>5. J!Complete(K, p, s, o).row[q].state \notin {"none", "requested"}
    BY <1>1 DEF J!Complete
  <1>6. J!NoteAsRefused(K, p).row[q] = K.row[q]
    BY <1>1 DEF J!NoteAsRefused
  <1>. QED  BY <1>2, <1>3, <1>4, <1>5, <1>6

LEMMA BeginClaims ==
  ASSUME NEW K \in J!JournalType, NEW p \in Proposal, NEW t \in Nat
  PROVE  J!Begin(K, p, t).row[p].state = "intent"
  <1>1. K.row \in [Proposal -> J!Row] /\ K.row[p] \in J!Row
    BY DEF J!JournalType
  <1>. QED  BY <1>1 DEF J!Begin, J!Row

\* What holds of the rows alone; a run that settles leaves only this to show.
RowsDiscipline ==
  \A q \in Proposal :
     /\ journal.row[q].state \in {"none", "requested"} => calls[q] = 0
     /\ calls[q] <= 1

\* Settling a run without a call keeps the discipline, provided that no row is
\* made claimable again.
LEMMA SettledDiscipline ==
  ASSUME TypeOK, ClaimDiscipline, NEW p \in Proposal, NEW c, Settle(p, c),
         calls' = calls,
         \A q \in Proposal :
            journal.row[q].state \notin {"none", "requested"} =>
               journal'.row[q].state \notin {"none", "requested"}
  PROVE  ClaimDiscipline'
  <1>1. run'.pc = "idle"
    BY DEF Settle, Idle
  <1>2. RowsDiscipline'
    BY DEF ClaimDiscipline, RowsDiscipline
  <1>. QED  BY <1>1, <1>2 DEF ClaimDiscipline, RowsDiscipline

\* Steps that touch neither journal nor calls nor the position of the run, and
\* keep the head of a non-empty queue, keep the discipline.
LEMMA HeadKeepsDiscipline ==
  ASSUME ClaimDiscipline, journal' = journal, calls' = calls,
         run'.pc = run.pc \/ run'.pc = "idle",
         run'.pc # "idle" =>
            (chain # <<>> => chain' # <<>> /\ Head(chain') = Head(chain))
  PROVE  ClaimDiscipline'
  <1>1. CASE run'.pc = "idle"
    BY <1>1 DEF ClaimDiscipline
  <1>2. CASE run'.pc # "idle"
    <2>1. run.pc = run'.pc /\ chain # <<>> /\ chain' # <<>> /\ Head(chain') = Head(chain)
      BY <1>2 DEF ClaimDiscipline
    <2>. QED  BY <2>1 DEF ClaimDiscipline
  <1>. QED  BY <1>1, <1>2

\* The steps of submission, agent and AS keep the discipline.
LEMMA OutsideDiscipline ==
  ASSUME TypeOK, ClaimDiscipline, NEW p \in Proposal,
         \/ Submit(p, TRUE) \/ Submit(p, FALSE) \/ RecordSubmission(p)
         \/ SubmissionLost(p) \/ Decide(p)
         \/ AgentReads(p) \/ AgentActs(p)
         \/ AsAnswers(p) \/ AttemptFails(p)
  PROVE  ClaimDiscipline'
  <1>. USE DEF diskVars, asVars, history, memVars
  <1>1. ASSUME NEW here \in BOOLEAN, Submit(p, here) PROVE ClaimDiscipline'
    BY <1>1, HeadKeepsDiscipline DEF Submit
  <1>2. CASE RecordSubmission(p)
    BY <1>2, HeadKeepsDiscipline DEF RecordSubmission
  <1>3. CASE SubmissionLost(p)
    BY <1>3, HeadKeepsDiscipline DEF SubmissionLost
  <1>4. CASE Decide(p)
    BY <1>4, HeadKeepsDiscipline DEF Decide
  <1>5. CASE AgentReads(p)
    BY <1>5, HeadKeepsDiscipline DEF AgentReads
  <1>6. CASE AgentActs(p)
    <2>1. chain # <<>> => chain' # <<>> /\ Head(chain') = Head(chain)
      BY <1>6, EnqueueKeepsHead DEF AgentActs, TypeOK
    <2>. QED  BY <1>6, <2>1, HeadKeepsDiscipline DEF AgentActs
  <1>7. CASE AsAnswers(p)
    <2>1. PICK n \in {issued[p], issued[p] + 1}, a \in Answer :
            run' = IF Awaiting(p)
                   THEN [run EXCEPT !.answer = a, !.ticket = n] ELSE run
      BY <1>7 DEF AsAnswers
    <2>2. run'.pc = run.pc
      BY <2>1 DEF TypeOK, Run
    <2>3. journal' = journal /\ calls' = calls /\ chain' = chain
      BY <1>7 DEF AsAnswers
    <2>. QED  BY <2>2, <2>3, HeadKeepsDiscipline
  <1>8. CASE AttemptFails(p)
    <2>1. run'.pc = run.pc
      BY <1>8 DEF AttemptFails, TypeOK, Run
    <2>. QED  BY <1>8, <2>1, HeadKeepsDiscipline DEF AttemptFails
  <1>. QED  BY <1>1, <1>2, <1>3, <1>4, <1>5, <1>6, <1>7, <1>8

\* The poll loop, a crash and a restart keep the discipline.
LEMMA ProcessDiscipline ==
  ASSUME TypeOK, ClaimDiscipline, PollFetch \/ PollNext \/ Crash \/ Restart
  PROVE  ClaimDiscipline'
  <1>. USE DEF diskVars, asVars, history, memVars
  <1>1. CASE PollFetch
    BY <1>1, HeadKeepsDiscipline DEF PollFetch
  <1>2. CASE PollNext
    <2>1. PICK q \in poll.left : Enqueue(q)
      BY <1>2 DEF PollNext
    <2>2. q \in Proposal /\ chain \in Seq(Proposal)
      BY DEF TypeOK
    <2>3. chain # <<>> => chain' # <<>> /\ Head(chain') = Head(chain)
      BY <2>1, <2>2, EnqueueKeepsHead
    <2>. QED  BY <1>2, <2>3, HeadKeepsDiscipline DEF PollNext
  <1>3. CASE Crash
    <2>1. run'.pc = "idle"
      BY <1>3 DEF Crash, Idle
    <2>. QED  BY <1>3, <2>1, HeadKeepsDiscipline DEF Crash
  <1>4. CASE Restart
    BY <1>4, HeadKeepsDiscipline DEF Restart
  <1>. QED  BY <1>1, <1>2, <1>3, <1>4

\* The steps of the run keep the discipline: begin() is passed only by a row
\* under which nothing was called, and the call is made once under it.
LEMMA RunDiscipline ==
  ASSUME TypeOK, ClaimDiscipline, NEW p \in Proposal, RunStep(p) \/ RunAborts(p)
  PROVE  ClaimDiscipline'
  <1>. USE DEF diskVars, asVars, history
  <1>0. journal \in J!JournalType /\ run \in Run
    BY DEF TypeOK
  <1>1. CASE Skip(p) \/ GiveUp(p) \/ AlreadyExecuted(p) \/ BeginRefused(p) \/ RunAborts(p)
    <2>1. journal' = journal /\ calls' = calls
      BY <1>1 DEF Skip, GiveUp, AlreadyExecuted, BeginRefused, RunAborts
    <2>2. PICK c : Settle(p, c)
      BY <1>1 DEF Skip, GiveUp, AlreadyExecuted, BeginRefused, RunAborts
    <2>. QED  BY <2>1, <2>2, SettledDiscipline
  <1>2. CASE Start(p)
    <2>1. \A q \in Proposal : journal.row[q].state \notin {"none", "requested"} =>
            journal'.row[q].state \notin {"none", "requested"}
      BY <1>0, <1>2, ClaimsAreKept DEF Start, J!Outcome
    <2>2. run'.pc = "await" /\ chain' = chain /\ chain # <<>> /\ calls' = calls
      BY <1>2 DEF Start, Idle, Running
    <2>. QED  BY <2>1, <2>2 DEF ClaimDiscipline
  <1>3. CASE Retry(p)
    <2>1. run'.pc = run.pc
      BY <1>0, <1>3 DEF Retry, Run
    <2>. QED  BY <1>3, <2>1, HeadKeepsDiscipline DEF Retry
  <1>4. CASE RefusedEarlier(p) \/ TakenAsRefusal(p)
    <2>1. J!RefusedBeforeTicket(journal, p) \in J!JournalType
      BY <1>0, JournalTypes DEF J!Outcome
    <2>2. \A q \in Proposal : journal.row[q].state \notin {"none", "requested"} =>
            journal'.row[q].state \notin {"none", "requested"}
      <3>. SUFFICES ASSUME NEW q \in Proposal,
                           journal.row[q].state \notin {"none", "requested"}
                    PROVE  journal'.row[q].state \notin {"none", "requested"}
        OBVIOUS
      <3>1. J!RefusedBeforeTicket(journal, p).row[q].state \notin {"none", "requested"}
        BY <1>0, ClaimsAreKept DEF J!Outcome
      <3>2. J!NoteAsRefused(J!RefusedBeforeTicket(journal, p), p).row[q].state
              \notin {"none", "requested"}
        BY <2>1, <3>1, ClaimsAreKept DEF J!Outcome
      <3>. QED  BY <1>4, <3>1, <3>2 DEF RefusedEarlier, TakenAsRefusal
    <2>3. Settle(p, {"nothing ran"}) /\ calls' = calls
      BY <1>4 DEF RefusedEarlier, TakenAsRefusal
    <2>. QED  BY <2>2, <2>3, SettledDiscipline
  <1>5. CASE BeginOk(p)
    <2>1. journal' = J!Begin(journal, p, run.ticket) /\ run.ticket \in Nat
      BY <1>0, <1>5 DEF BeginOk, Run
    <2>2. journal'.row[p].state = "intent"
      BY <1>0, <2>1, BeginClaims
    <2>3. run'.pc = "verify" /\ chain' = chain /\ chain # <<>> /\ p = Head(chain)
      BY <1>0, <1>5 DEF BeginOk, Running, Run
    <2>4. journal.row[p].state \in {"none", "requested"} /\ calls' = calls
      BY <1>5 DEF BeginOk, J!Claimable
    <2>5. calls[p] = 0
      BY <2>4 DEF ClaimDiscipline
    <2>6. \A q \in Proposal : journal.row[q].state \notin {"none", "requested"} =>
            journal'.row[q].state \notin {"none", "requested"}
      BY <1>0, <2>1, ClaimsAreKept DEF J!Outcome
    <2>. QED  BY <2>2, <2>3, <2>4, <2>5, <2>6 DEF ClaimDiscipline
  <1>6. CASE Proceed(p)
    <2>1. /\ run.pc \in {"verify", "preview"} /\ run'.pc \in {"preview", "finalize"}
          /\ chain' = chain /\ chain # <<>> /\ journal' = journal /\ calls' = calls
      BY <1>0, <1>6 DEF Proceed, Running, Run
    <2>. QED  BY <2>1 DEF ClaimDiscipline
  <1>7. CASE Refuse(p) \/ PrepareThrows(p) \/ ToolSucceeds(p) \/ ToolRefuses(p)
             \/ ToolThrows(p)
    <2>1. PICK s \in {"done", "failed"}, o \in J!Outcome :
            journal' = J!Complete(journal, p, s, o)
      BY <1>7 DEF Refuse, PrepareThrows, ToolSucceeds, ToolRefuses, ToolThrows, J!Outcome
    <2>2. \A q \in Proposal : journal.row[q].state \notin {"none", "requested"} =>
            journal'.row[q].state \notin {"none", "requested"}
      BY <1>0, <2>1, ClaimsAreKept
    <2>3. PICK c : Settle(p, c)
      BY <1>7 DEF Refuse, PrepareThrows, ToolSucceeds, ToolRefuses, ToolThrows
    <2>4. calls' = calls
      BY <1>7 DEF Refuse, PrepareThrows, ToolSucceeds, ToolRefuses, ToolThrows
    <2>. QED  BY <2>2, <2>3, <2>4, SettledDiscipline
  <1>8. CASE CallTool(p)
    <2>1. run.pc = "finalize" /\ chain # <<>> /\ p = Head(chain)
      BY <1>8 DEF CallTool, Running
    <2>2. journal.row[p].state = "intent" /\ calls[p] = 0
      BY <2>1 DEF ClaimDiscipline
    <2>3. calls' = [calls EXCEPT ![p] = 1]
      BY <1>8, <2>2 DEF CallTool, TypeOK
    <2>4. run'.pc = "called" /\ chain' = chain /\ journal' = journal
      BY <1>0, <1>8 DEF CallTool, Run
    <2>5. \A q \in Proposal : calls'[q] = IF q = p THEN 1 ELSE calls[q]
      BY <2>3 DEF TypeOK
    <2>. QED  BY <2>1, <2>2, <2>4, <2>5 DEF ClaimDiscipline
  <1>. QED
    BY <1>1, <1>2, <1>3, <1>4, <1>5, <1>6, <1>7, <1>8 DEF RunStep

\* The claim discipline is invariant: whichever of the three triggers starts a
\* run, at whatever point the process dies, a run past begin() is the only one
\* under its row.
THEOREM DisciplineHolds == Spec => []ClaimDiscipline
  <1>1. Init => ClaimDiscipline
    <2>. SUFFICES ASSUME Init PROVE ClaimDiscipline
      OBVIOUS
    <2>1. run.pc = "idle"
      BY DEF Init, Idle
    <2>2. \A q \in Proposal : calls[q] = 0
      BY DEF Init
    <2>. QED  BY <2>1, <2>2 DEF ClaimDiscipline
  <1>2. TypeOK /\ ClaimDiscipline /\ [Next]_vars => ClaimDiscipline'
    <2>. SUFFICES ASSUME TypeOK, ClaimDiscipline, [Next]_vars PROVE ClaimDiscipline'
      OBVIOUS
    <2>1. CASE UNCHANGED vars
      BY <2>1 DEF vars, diskVars, memVars, history, ClaimDiscipline
    <2>2. CASE Next
      <3>1. CASE \E p \in Proposal : RunStep(p) \/ RunAborts(p)
        BY <3>1, RunDiscipline
      <3>2. CASE ~\E p \in Proposal : RunStep(p) \/ RunAborts(p)
        BY <2>2, <3>2, OutsideDiscipline, ProcessDiscipline DEF Next
      <3>. QED  BY <3>1, <3>2
    <2>. QED  BY <2>1, <2>2
  <1>. QED  BY <1>1, <1>2, TypeCorrect, PTL DEF Spec

\* One approved proposal is acted on at most once: the claim in the journal,
\* written before the call, holds across triggers, replays and restarts.
THEOREM ActsAtMostOnce == Spec => []AtMostOnce
  <1>1. ClaimDiscipline => AtMostOnce
    BY DEF ClaimDiscipline, AtMostOnce
  <1>. QED  BY <1>1, DisciplineHolds, PTL

=============================================================================
