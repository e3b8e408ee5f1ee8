------------------------- MODULE ReviewTruthProofs --------------------------
(***************************************************************************)
(* What the journal and the texts say is true: theorems about              *)
(* ReviewExecution that rest on the claim discipline proved in             *)
(* ReviewExecutionProofs.  The invariant is built in layers: what the AS   *)
(* has decided, whose proposals run, what the rows say, which claims are   *)
(* open, what the texts say.  The last part is the refinement: the review  *)
(* path implements OneExecution.                                           *)
(***************************************************************************)
EXTENDS ReviewExecutionProofs

-----------------------------------------------------------------------------
(* What the AS has decided about the proposals this process works on.       *)

Decided == {"committed", "executed", "refused"}

\* Only decided proposals are queued, listed or asked about; a ticket makes
\* the proposal executed, and a refusal stays one.
Statuses ==
  /\ \A p \in Proposal : asStatus[p] # "executed" => issued[p] = 0
  /\ \A p \in InFlight \cup wire \cup poll.left : asStatus[p] \in Decided
  /\ agent.read # "absent" => agent.on \in Proposal
  /\ agent.read \in {"committed", "waiting"} => asStatus[agent.on] \in Decided
  /\ agent.read = "refused" => asStatus[agent.on] = "refused"
  /\ run.pc = "await" /\ run.answer = "refused earlier" =>
       asStatus[Head(chain)] = "refused"

LEMMA HeadInFlight ==
  ASSUME chain \in Seq(Proposal), chain # <<>>
  PROVE  Head(chain) \in InFlight /\ InFlight \subseteq Proposal
  <1>1. Head(chain) = chain[1] /\ 1 \in DOMAIN chain
    OBVIOUS
  <1>2. QED
    BY <1>1 DEF InFlight

LEMMA SameQueue == chain' = chain => InFlight' = InFlight
  BY DEF InFlight

LEMMA EnqueueAddsOne ==
  ASSUME chain \in Seq(Proposal), NEW p \in Proposal, Enqueue(p)
  PROVE  InFlight' \subseteq InFlight \cup {p}
  <1>1. CASE p \in InFlight
    BY <1>1 DEF Enqueue, InFlight
  <1>2. CASE p \notin InFlight
    <2>1. chain' = Append(chain, p)
      BY <1>2 DEF Enqueue
    <2>2. ASSUME NEW i \in DOMAIN chain' PROVE chain'[i] \in InFlight \cup {p}
      <3>1. i \in 1 .. Len(chain) + 1
        BY <2>1, <2>2, AppendProperties
      <3>2. CASE i = Len(chain) + 1
        BY <2>1, <3>2, AppendProperties
      <3>3. CASE i \in 1 .. Len(chain)
        <4>1. chain'[i] = chain[i] /\ i \in DOMAIN chain
          BY <2>1, <3>3, AppendProperties
        <4>2. QED
          BY <4>1 DEF InFlight
      <3>4. QED
        BY <3>1, <3>2, <3>3
    <2>3. QED
      BY <2>2 DEF InFlight
  <1>3. QED
    BY <1>1, <1>2

LEMMA TailTakesAway ==
  ASSUME chain \in Seq(Proposal), chain # <<>>, chain' = Tail(chain)
  PROVE  InFlight' \subseteq InFlight
  <1>1. ASSUME NEW i \in DOMAIN chain' PROVE chain'[i] \in InFlight
    <2>1. chain' \in Seq(Proposal) /\ Len(chain') = Len(chain) - 1
      BY HeadTailProperties
    <2>2. i \in 1 .. Len(chain) - 1
      BY <1>1, <2>1
    <2>3. chain'[i] = chain[i + 1] /\ i + 1 \in DOMAIN chain
      BY <2>1, <2>2, HeadTailProperties
    <2>4. QED
      BY <2>3 DEF InFlight
  <1>2. QED
    BY <1>1 DEF InFlight

-----------------------------------------------------------------------------
(* What a step does to the AS's records.                                    *)

\* From one state to the next: decided stays decided, refused stays refused,
\* and no ticket is taken back.
AsMovesOn ==
  \A p \in Proposal :
     /\ asStatus[p] \in Decided => asStatus'[p] \in Decided
     /\ asStatus[p] = "refused" => asStatus'[p] = "refused"
     /\ issued'[p] >= issued[p]
     /\ (asStatus[p] # "executed" => issued[p] = 0)
          => (asStatus'[p] # "executed" => issued'[p] = 0)

LEMMA UnchangedMovesOn ==
  ASSUME TypeOK, UNCHANGED asVars
  PROVE  AsMovesOn
  BY DEF TypeOK, asVars, AsMovesOn, Decided

LEMMA AsAnswersMovesOn ==
  ASSUME TypeOK, NEW p \in Proposal, AsAnswers(p)
  PROVE  AsMovesOn
  <1>1. PICK s \in AsStatus, n \in {issued[p], issued[p] + 1}, a \in Answer :
          /\ AsVerdict(p, s, n, a)
          /\ asStatus' = [asStatus EXCEPT ![p] = s]
          /\ issued' = [issued EXCEPT ![p] = n]
    BY DEF AsAnswers
  <1>2. asStatus \in [Proposal -> AsStatus] /\ issued \in [Proposal -> Nat]
    BY DEF TypeOK
  <1>3. n >= issued[p] /\ issued[p] \in Nat
    BY <1>2
  <1>4. /\ asStatus[p] \in Decided => s \in {"committed", "executed", "refused"}
        /\ asStatus[p] = "refused" => s = "refused"
        /\ (asStatus[p] # "executed" => issued[p] = 0) => (s # "executed" => n = 0)
    BY <1>1, RefusedStatusAssumption DEF AsVerdict, Decided
  <1>5. ASSUME NEW q \in Proposal
        PROVE  /\ asStatus[q] \in Decided => asStatus'[q] \in Decided
               /\ asStatus[q] = "refused" => asStatus'[q] = "refused"
               /\ issued'[q] >= issued[q]
               /\ (asStatus[q] # "executed" => issued[q] = 0)
                    => (asStatus'[q] # "executed" => issued'[q] = 0)
    <2>1. CASE q = p
      <3>1. asStatus'[p] = s /\ issued'[p] = n
        BY <1>1, <1>2
      <3>2. QED
        BY <1>3, <1>4, <2>1, <3>1 DEF Decided
    <2>2. CASE q # p
      <3>1. asStatus'[q] = asStatus[q] /\ issued'[q] = issued[q] /\ issued[q] \in Nat
        BY <1>1, <1>2, <2>2
      <3>2. QED
        BY <3>1 DEF Decided
    <2>3. QED
      BY <2>1, <2>2
  <1>6. QED
    BY <1>5 DEF AsMovesOn

LEMMA PersonsMoveOn ==
  ASSUME TypeOK, NEW p \in Proposal, NEW here \in BOOLEAN, Submit(p, here) \/ Decide(p)
  PROVE  AsMovesOn
  <1>1. asStatus \in [Proposal -> AsStatus] /\ issued \in [Proposal -> Nat]
    BY DEF TypeOK
  <1>2. asStatus[p] \in {"absent", "pending"} /\ issued' = issued
    BY DEF Submit, Decide, memVars
  <1>3. PICK s \in {"pending", "committed", "rejected", "expired"} :
          asStatus' = [asStatus EXCEPT ![p] = s]
    BY DEF Submit, Decide
  <1>4. QED
    BY <1>1, <1>2, <1>3 DEF AsMovesOn, Decided

\* Every step of the system leaves the AS's records so.
LEMMA StepMovesOn ==
  ASSUME TypeOK, [Next]_vars
  PROVE  AsMovesOn
  <1>1. CASE UNCHANGED asVars
    BY <1>1, UnchangedMovesOn
  <1>2. CASE \E p \in Proposal : AsAnswers(p)
    BY <1>2, AsAnswersMovesOn
  <1>3. CASE \E p \in Proposal : Submit(p, TRUE) \/ Submit(p, FALSE) \/ Decide(p)
    <2>1. PICK p \in Proposal, here \in BOOLEAN : Submit(p, here) \/ Decide(p)
      BY <1>3
    <2>2. QED
      BY <2>1, PersonsMoveOn
  <1>4. QED
    <2>1. CASE UNCHANGED vars
      BY <1>1, <2>1 DEF vars
    <2>2. CASE PollFetch \/ PollNext \/ Crash \/ Restart
      BY <1>1, <2>2 DEF PollFetch, PollNext, Crash, Restart
    <2>3. ASSUME NEW p \in Proposal,
                 RecordSubmission(p) \/ SubmissionLost(p) \/ AgentReads(p) \/ AgentActs(p)
                   \/ AttemptFails(p) \/ RunStep(p) \/ RunAborts(p)
          PROVE  UNCHANGED asVars
      BY <2>3 DEF RecordSubmission, SubmissionLost, AgentReads, AgentActs, AttemptFails,
           RunAborts, RunStep, Skip, Start, Retry, GiveUp, AlreadyExecuted, RefusedEarlier,
           TakenAsRefusal, BeginOk, BeginRefused, Proceed, Refuse, PrepareThrows, CallTool,
           ToolSucceeds, ToolRefuses, ToolThrows
    <2>4. QED
      BY <1>1, <1>2, <1>3, <2>1, <2>2, <2>3 DEF Next

-----------------------------------------------------------------------------
(* Statuses is invariant.                                                   *)

\* What the memory may take up in a step: proposals that are decided, an
\* answer to the agent that matches the AS, no new refusal.
TakesUp ==
  /\ \A q \in InFlight' \cup wire' \cup poll'.left :
       \/ q \in InFlight \cup wire \cup poll.left
       \/ q \in Proposal /\ asStatus[q] \in Decided
  /\ \/ agent' = agent \/ agent' = NoCheck
     \/ /\ agent'.on \in Proposal
        /\ agent'.read \in {"committed", "waiting"} => asStatus[agent'.on] \in Decided
        /\ agent'.read = "refused" => asStatus[agent'.on] = "refused"
  /\ run'.pc = "await" /\ run'.answer = "refused earlier" =>
       /\ run.pc = "await" /\ run.answer = "refused earlier"
       /\ Head(chain') = Head(chain)

LEMMA StatusesKept ==
  ASSUME TypeOK, ClaimDiscipline, Statuses, AsMovesOn, TakesUp
  PROVE  Statuses'
  <1>1. \A p \in Proposal : asStatus'[p] # "executed" => issued'[p] = 0
    BY DEF Statuses, AsMovesOn
  <1>2. InFlight \cup wire \cup poll.left \subseteq Proposal
    <2>1. InFlight \subseteq Proposal
      BY DEF TypeOK, InFlight
    <2>2. QED
      BY <2>1 DEF TypeOK
  <1>3. \A q \in InFlight' \cup wire' \cup poll'.left : asStatus'[q] \in Decided
    BY <1>2 DEF Statuses, AsMovesOn, TakesUp
  <1>4. /\ agent'.read # "absent" => agent'.on \in Proposal
        /\ agent'.read \in {"committed", "waiting"} => asStatus'[agent'.on] \in Decided
        /\ agent'.read = "refused" => asStatus'[agent'.on] = "refused"
    <2>1. CASE agent' = agent
      BY <2>1 DEF Statuses, AsMovesOn, Decided
    <2>2. CASE agent' = NoCheck
      BY <2>2 DEF NoCheck
    <2>3. CASE /\ agent'.on \in Proposal
               /\ agent'.read \in {"committed", "waiting"} => asStatus[agent'.on] \in Decided
               /\ agent'.read = "refused" => asStatus[agent'.on] = "refused"
      BY <2>3 DEF AsMovesOn, Decided
    <2>4. QED
      BY <2>1, <2>2, <2>3 DEF TakesUp
  <1>5. run'.pc = "await" /\ run'.answer = "refused earlier" =>
          asStatus'[Head(chain')] = "refused"
    <2>1. SUFFICES ASSUME run'.pc = "await", run'.answer = "refused earlier"
                   PROVE  asStatus'[Head(chain')] = "refused"
      OBVIOUS
    <2>2. run.pc = "await" /\ run.answer = "refused earlier" /\ Head(chain') = Head(chain)
      BY <2>1 DEF TakesUp
    <2>3. Head(chain) \in Proposal
      BY <2>2, HeadInFlight DEF TypeOK, ClaimDiscipline
    <2>4. QED
      BY <2>2, <2>3 DEF Statuses, AsMovesOn
  <1>6. QED
    BY <1>1, <1>3, <1>4, <1>5 DEF Statuses

\* A step that only settles the run takes nothing up.
LEMMA SettledTakesUp ==
  ASSUME TypeOK, chain # <<>>, NEW p, NEW c, Settle(p, c), wire' = wire
  PROVE  TakesUp
  <1>1. InFlight' \subseteq InFlight
    BY TailTakesAway DEF Settle, TypeOK
  <1>2. poll'.left = poll.left
    BY DEF Settle, TypeOK
  <1>3. agent' = agent \/ agent' = NoCheck
    BY DEF Settle
  <1>4. run'.pc = "idle"
    BY DEF Settle, Idle
  <1>5. QED
    BY <1>1, <1>2, <1>3, <1>4 DEF TakesUp

\* Submission, decision, agent, a failed attempt.
LEMMA OutsideTakesUp ==
  ASSUME TypeOK, ClaimDiscipline, Statuses, NEW p \in Proposal,
         \/ Submit(p, TRUE) \/ Submit(p, FALSE) \/ RecordSubmission(p)
         \/ SubmissionLost(p) \/ Decide(p) \/ AgentReads(p) \/ AgentActs(p)
         \/ AttemptFails(p)
  PROVE  TakesUp
  <1>. USE DEF diskVars, asVars, history, memVars
  <1>1. ASSUME NEW here \in BOOLEAN,
               Submit(p, here) \/ RecordSubmission(p) \/ SubmissionLost(p) \/ Decide(p)
        PROVE  TakesUp
    <2>1. UNCHANGED <<chain, wire, poll, agent, run>>
      BY <1>1 DEF Submit, RecordSubmission, SubmissionLost, Decide
    <2>2. QED
      BY <2>1, SameQueue DEF TakesUp
  <1>2. CASE AgentReads(p)
    <2>1. UNCHANGED <<chain, wire, poll, run>> /\ agent' = [on |-> p, read |-> asStatus[p]]
      BY <1>2 DEF AgentReads
    <2>2. asStatus[p] \in AsStatus
      BY DEF TypeOK
    <2>3. agent'.read \in {"committed", "waiting"} => asStatus[agent'.on] \in Decided
      BY <2>1, <2>2 DEF Decided, AsStatus
    <2>4. QED
      BY <2>1, <2>3, SameQueue DEF TakesUp
  <1>3. CASE AgentActs(p)
    <2>1. UNCHANGED <<wire, poll, run>>
      BY <1>3 DEF AgentActs
    <2>2. CASE agent.read = "committed"
      <3>1. Enqueue(p) /\ agent' = [on |-> p, read |-> "waiting"] /\ asStatus[p] \in Decided
        BY <1>3, <2>2 DEF AgentActs, Statuses
      <3>2. InFlight' \subseteq InFlight \cup {p}
        BY <3>1, EnqueueAddsOne DEF TypeOK
      <3>3. run'.pc = "await" => Head(chain') = Head(chain)
        BY <2>1, <3>1, EnqueueKeepsHead DEF TypeOK, ClaimDiscipline
      <3>4. QED
        BY <2>1, <3>1, <3>2, <3>3 DEF TakesUp
    <2>3. CASE agent.read # "committed"
      <3>1. chain' = chain /\ agent' = NoCheck
        BY <1>3, <2>3 DEF AgentActs
      <3>2. QED
        BY <2>1, <3>1, SameQueue DEF TakesUp
    <2>4. QED
      BY <2>2, <2>3
  <1>4. CASE AttemptFails(p)
    <2>1. UNCHANGED <<chain, poll, agent>> /\ wire' \subseteq wire
      BY <1>4 DEF AttemptFails
    <2>2. run'.answer # "refused earlier"
      BY <1>4 DEF AttemptFails, TypeOK, Run
    <2>3. QED
      BY <2>1, <2>2, SameQueue DEF TakesUp
  <1>5. QED
    BY <1>1, <1>2, <1>3, <1>4

\* The poll loop, a crash, a restart.
LEMMA ProcessTakesUp ==
  ASSUME TypeOK, ClaimDiscipline, Statuses, PollFetch \/ PollNext \/ Crash \/ Restart
  PROVE  TakesUp
  <1>. USE DEF diskVars, asVars, history, memVars
  <1>1. CASE PollFetch
    <2>1. UNCHANGED <<chain, wire, agent, run>>
      BY <1>1 DEF PollFetch
    <2>2. poll'.left = {q \in Proposal : asStatus[q] = "committed"}
      BY <1>1 DEF PollFetch, TypeOK
    <2>3. QED
      BY <2>1, <2>2, SameQueue DEF TakesUp, Decided
  <1>2. CASE PollNext
    <2>1. PICK p \in poll.left :
            Enqueue(p) /\ poll' = [left |-> poll.left \ {p}, waiting |-> p]
      BY <1>2 DEF PollNext
    <2>2. UNCHANGED <<wire, agent, run>> /\ p \in Proposal /\ chain \in Seq(Proposal)
      BY <1>2 DEF PollNext, TypeOK
    <2>3. InFlight' \subseteq InFlight \cup {p}
      BY <2>1, <2>2, EnqueueAddsOne
    <2>4. run'.pc = "await" => Head(chain') = Head(chain)
      BY <2>1, <2>2, EnqueueKeepsHead DEF ClaimDiscipline
    <2>5. QED
      BY <2>1, <2>2, <2>3, <2>4 DEF TakesUp
  <1>3. CASE Crash
    BY <1>3 DEF Crash, TakesUp, InFlight, NoPoll, Idle
  <1>4. CASE Restart
    <2>1. UNCHANGED <<chain, wire, poll, agent, run>>
      BY <1>4 DEF Restart
    <2>2. QED
      BY <2>1, SameQueue DEF TakesUp
  <1>5. QED
    BY <1>1, <1>2, <1>3, <1>4

\* The run itself sends only for the proposal it runs.
LEMMA RunTakesUp ==
  ASSUME TypeOK, Statuses, NEW p \in Proposal, RunStep(p) \/ RunAborts(p)
  PROVE  TakesUp
  <1>. USE DEF diskVars, asVars, history
  <1>1. chain # <<>> /\ p = Head(chain)
    BY DEF RunStep, RunAborts, AboutToWrite, Running, Skip, Start, Retry, GiveUp,
       AlreadyExecuted, RefusedEarlier, TakenAsRefusal, BeginOk, BeginRefused, Proceed,
       Refuse, PrepareThrows, CallTool, ToolSucceeds, ToolRefuses, ToolThrows
  <1>2. asStatus[p] \in Decided
    BY <1>1, HeadInFlight DEF Statuses, TypeOK
  <1>3. CASE Start(p) \/ Retry(p)
    <2>1. UNCHANGED <<chain, poll, agent>> /\ wire' = wire \cup {p} /\ run'.answer = "none"
      BY <1>3 DEF Start, Retry, Idle, TypeOK, Run
    <2>2. QED
      BY <1>2, <2>1, SameQueue DEF TakesUp
  <1>4. CASE BeginOk(p) \/ Proceed(p) \/ CallTool(p)
    <2>1. UNCHANGED <<chain, poll, agent, wire>> /\ run'.pc # "await"
      BY <1>4 DEF BeginOk, Proceed, CallTool, TypeOK, Run
    <2>2. QED
      BY <2>1, SameQueue DEF TakesUp
  <1>5. CASE ~ (Start(p) \/ Retry(p) \/ BeginOk(p) \/ Proceed(p) \/ CallTool(p))
    <2>1. PICK c : Settle(p, c)
      BY <1>5 DEF RunStep, RunAborts, Skip, GiveUp, AlreadyExecuted, RefusedEarlier,
         TakenAsRefusal, BeginRefused, Refuse, PrepareThrows, ToolSucceeds, ToolRefuses,
         ToolThrows
    <2>2. wire' = wire
      BY <1>5 DEF RunStep, RunAborts, Skip, GiveUp, AlreadyExecuted, RefusedEarlier,
         TakenAsRefusal, BeginRefused, Refuse, PrepareThrows, ToolSucceeds, ToolRefuses,
         ToolThrows
    <2>3. QED
      BY <1>1, <2>1, <2>2, SettledTakesUp
  <1>6. QED
    BY <1>3, <1>4, <1>5

\* The AS answers: what it tells the run of a refusal is its own record.
LEMMA AsAnswersStatuses ==
  ASSUME TypeOK, ClaimDiscipline, Statuses, NEW p \in Proposal, AsAnswers(p)
  PROVE  Statuses'
  <1>1. PICK s \in AsStatus, n \in {issued[p], issued[p] + 1}, a \in Answer :
          /\ AsVerdict(p, s, n, a)
          /\ asStatus' = [asStatus EXCEPT ![p] = s]
          /\ run' = IF Awaiting(p)
                    THEN [run EXCEPT !.answer = a, !.ticket = n] ELSE run
    BY DEF AsAnswers
  <1>2. UNCHANGED <<chain, poll, agent>> /\ p \in wire /\ wire' \subseteq wire
    BY DEF AsAnswers
  <1>3. AsMovesOn
    BY AsAnswersMovesOn
  <1>4. CASE Awaiting(p) /\ a = "refused earlier"
    <2>1. asStatus[p] = "refused" /\ s = "refused"
      BY <1>1, <1>2, <1>4 DEF AsVerdict, Statuses, Decided
    <2>2. asStatus'[p] = "refused" /\ p = Head(chain')
      BY <1>1, <1>2, <1>4, <2>1 DEF TypeOK, Awaiting
    <2>3. \A q \in InFlight' \cup wire' \cup poll'.left : asStatus'[q] \in Decided
      <3>1. InFlight' = InFlight /\ InFlight \subseteq Proposal
        BY <1>2 DEF InFlight, TypeOK
      <3>2. QED
        BY <1>2, <1>3, <3>1 DEF Statuses, AsMovesOn, TypeOK
    <2>4. QED
      BY <1>2, <1>3, <2>2, <2>3 DEF Statuses, AsMovesOn, Decided
  <1>5. CASE ~ (Awaiting(p) /\ a = "refused earlier")
    <2>1. run'.answer = "refused earlier" => run' = run
      BY <1>1, <1>5 DEF TypeOK, Run
    <2>2. TakesUp
      BY <1>2, <2>1, SameQueue DEF TakesUp
    <2>3. QED
      BY <1>3, <2>2, StatusesKept
  <1>6. QED
    BY <1>4, <1>5

LEMMA StatusesHold == Spec => []Statuses
  <1>1. Init => Statuses
    BY DEF Init, Statuses, InFlight, NoPoll, NoCheck, Idle
  <1>2. TypeOK /\ ClaimDiscipline /\ Statuses /\ [Next]_vars => Statuses'
    <2>1. SUFFICES ASSUME TypeOK, ClaimDiscipline, Statuses, [Next]_vars
                   PROVE  Statuses'
      OBVIOUS
    <2>2. AsMovesOn
      BY <2>1, StepMovesOn
    <2>3. CASE UNCHANGED vars
      <3>1. TakesUp
        BY <2>3 DEF vars, memVars, TakesUp, InFlight
      <3>2. QED
        BY <2>1, <2>2, <3>1, StatusesKept
    <2>4. CASE \E p \in Proposal : AsAnswers(p)
      BY <2>1, <2>4, AsAnswersStatuses
    <2>5. CASE Next /\ ~ \E p \in Proposal : AsAnswers(p)
      <3>1. TakesUp
        BY <2>1, <2>5, OutsideTakesUp, ProcessTakesUp, RunTakesUp DEF Next
      <3>2. QED
        BY <2>1, <2>2, <3>1, StatusesKept
    <2>6. QED
      BY <2>1, <2>3, <2>4, <2>5
  <1>3. QED
    BY <1>1, <1>2, TypeCorrect, DisciplineHolds, PTL DEF Spec

-----------------------------------------------------------------------------
(* What a step of the run leaves alone.                                     *)

LEMMA NewRow ==
  ASSUME NEW r, r = [state |-> "requested", outcome |-> "", ticket |-> 0]
  PROVE  r.state = "requested" /\ r.outcome = "" /\ r.ticket = 0
  BY Zenon

LEMMA NoRowFields == J!NoRow.state = "none" /\ J!NoRow.outcome = "" /\ J!NoRow.ticket = 0
  BY Zenon DEF J!NoRow

\* What each operator of the journal makes of the request's own row; the rows
\* of the others stay as they are.
LEMMA RequestedRows ==
  ASSUME NEW K \in J!JournalType, NEW p \in Proposal
  PROVE  /\ \A q \in Proposal \ {p} : J!Requested(K, p).row[q] = K.row[q]
         /\ J!Requested(K, p).asRefused = K.asRefused
         /\ K.row[p].state # "none" => J!Requested(K, p).row[p] = K.row[p]
         /\ K.row[p].state = "none" =>
              /\ J!Requested(K, p).row[p].state = "requested"
              /\ J!Requested(K, p).row[p].outcome = ""
              /\ J!Requested(K, p).row[p].ticket = 0
  <1>1. /\ \A q \in Proposal \ {p} : J!Requested(K, p).row[q] = K.row[q]
        /\ J!Requested(K, p).asRefused = K.asRefused
        /\ K.row[p].state # "none" => J!Requested(K, p).row[p] = K.row[p]
        /\ K.row[p].state = "none" =>
             J!Requested(K, p).row[p] = [state |-> "requested", outcome |-> "", ticket |-> 0]
    BY DEF J!Requested, J!JournalType
  <1>2. QED
    BY <1>1, NewRow

LEMMA RefusedRows ==
  ASSUME NEW K \in J!JournalType, NEW p \in Proposal
  PROVE  /\ \A q \in Proposal \ {p} : J!RefusedBeforeTicket(K, p).row[q] = K.row[q]
         /\ J!RefusedBeforeTicket(K, p).asRefused = K.asRefused
         /\ K.row[p].state # "requested" => J!RefusedBeforeTicket(K, p).row[p] = K.row[p]
         /\ K.row[p].state = "requested" =>
              /\ J!RefusedBeforeTicket(K, p).row[p].state = "failed"
              /\ J!RefusedBeforeTicket(K, p).row[p].outcome = "as_refused"
              /\ J!RefusedBeforeTicket(K, p).row[p].ticket = K.row[p].ticket
  BY DEF J!RefusedBeforeTicket, J!JournalType, J!Row

LEMMA BegunRows ==
  ASSUME NEW K \in J!JournalType, NEW p \in Proposal, NEW t
  PROVE  /\ \A q \in Proposal \ {p} : J!Begin(K, p, t).row[q] = K.row[q]
         /\ J!Begin(K, p, t).asRefused = K.asRefused
         /\ J!Begin(K, p, t).row[p].state = "intent"
         /\ J!Begin(K, p, t).row[p].outcome = K.row[p].outcome
         /\ J!Begin(K, p, t).row[p].ticket = t
  BY DEF J!Begin, J!JournalType, J!Row

LEMMA CompletedRows ==
  ASSUME NEW K \in J!JournalType, NEW p \in Proposal, NEW s, NEW o
  PROVE  /\ \A q \in Proposal \ {p} : J!Complete(K, p, s, o).row[q] = K.row[q]
         /\ J!Complete(K, p, s, o).asRefused = K.asRefused
         /\ J!Complete(K, p, s, o).row[p].state = s
         /\ J!Complete(K, p, s, o).row[p].ticket = K.row[p].ticket
  BY DEF J!Complete, J!JournalType, J!Row

\* The outcome is only written when one is given.
LEMMA CompletedOutcome ==
  ASSUME NEW K \in J!JournalType, NEW p \in Proposal, NEW s
  PROVE  J!Complete(K, p, s, "").row[p].outcome = K.row[p].outcome
  BY DEF J!Complete, J!JournalType, J!Row

LEMMA NotedRows ==
  ASSUME NEW K \in J!JournalType, NEW p \in Proposal
  PROVE  /\ J!NoteAsRefused(K, p).row = K.row
         /\ J!NoteAsRefused(K, p).asRefused = K.asRefused \cup {p}
  BY DEF J!NoteAsRefused, J!JournalType

\* A step of the run leaves the queue as it is, or ends in Settle.
LEMMA RunMoves ==
  ASSUME TypeOK, NEW p \in Proposal, RunStep(p) \/ RunAborts(p)
  PROVE  /\ chain # <<>> /\ p = Head(chain)
         /\ \/ Start(p) \/ Retry(p) \/ BeginOk(p) \/ Proceed(p) \/ CallTool(p)
            \/ \E c : Settle(p, c)
         /\ run'.pc # "idle" => chain' = chain
  <1>1. chain # <<>> /\ p = Head(chain)
    BY DEF RunStep, RunAborts, AboutToWrite, Running, Skip, Start, Retry, GiveUp,
       AlreadyExecuted, RefusedEarlier, TakenAsRefusal, BeginOk, BeginRefused, Proceed,
       Refuse, PrepareThrows, CallTool, ToolSucceeds, ToolRefuses, ToolThrows
  <1>2. CASE Start(p) \/ Retry(p) \/ BeginOk(p) \/ Proceed(p) \/ CallTool(p)
    <2>1. chain' = chain
      BY <1>2 DEF Start, Retry, BeginOk, Proceed, CallTool
    <2>2. QED
      BY <1>1, <1>2, <2>1
  <1>3. CASE ~ (Start(p) \/ Retry(p) \/ BeginOk(p) \/ Proceed(p) \/ CallTool(p))
    <2>1. PICK c : Settle(p, c)
      BY <1>3 DEF RunStep, RunAborts, Skip, GiveUp, AlreadyExecuted, RefusedEarlier,
         TakenAsRefusal, BeginRefused, Refuse, PrepareThrows, ToolSucceeds, ToolRefuses,
         ToolThrows
    <2>2. run'.pc = "idle"
      BY <2>1 DEF Settle, Idle
    <2>3. QED
      BY <1>1, <2>1, <2>2
  <1>4. QED
    BY <1>2, <1>3

\* The rest of the system is left as it was.
Frame(p) ==
  /\ issued' = issued /\ submitted' = submitted
  /\ \A q \in Proposal \ {p} :
       /\ journal'.row[q] = journal.row[q]
       /\ q \in journal'.asRefused <=> q \in journal.asRefused
       /\ q \in wire' <=> q \in wire
       /\ calls'[q] = calls[q] /\ effects'[q] = effects[q] /\ said'[q] = said[q]

LEMMA SettledSays ==
  ASSUME TypeOK, NEW p \in Proposal, NEW c, Settle(p, c)
  PROVE  /\ said'[p] = said[p] \cup c
         /\ \A q \in Proposal \ {p} : said'[q] = said[q]
  BY DEF Settle, TypeOK

LEMMA RunFrame ==
  ASSUME TypeOK, NEW p \in Proposal, RunStep(p) \/ RunAborts(p)
  PROVE  Frame(p)
  <1>. USE DEF diskVars, asVars, history
  <1>1. journal \in J!JournalType /\ run.ticket \in Nat
    BY DEF TypeOK, Run
  <1>2. issued' = issued /\ submitted' = submitted
    BY DEF RunAborts, RunStep, Skip, Start, Retry, GiveUp, AlreadyExecuted, RefusedEarlier,
       TakenAsRefusal, BeginOk, BeginRefused, Proceed, Refuse, PrepareThrows, CallTool,
       ToolSucceeds, ToolRefuses, ToolThrows
  <1>3. \A q \in Proposal \ {p} : q \in wire' <=> q \in wire
    BY DEF RunAborts, RunStep, Skip, Start, Retry, GiveUp, AlreadyExecuted, RefusedEarlier,
       TakenAsRefusal, BeginOk, BeginRefused, Proceed, Refuse, PrepareThrows, CallTool,
       ToolSucceeds, ToolRefuses, ToolThrows
  <1>4. \A q \in Proposal \ {p} : calls'[q] = calls[q] /\ effects'[q] = effects[q]
    <2>1. CASE CallTool(p)
      BY <2>1 DEF CallTool, TypeOK
    <2>2. CASE ~ CallTool(p)
      <3>1. UNCHANGED <<calls, effects>>
        BY <2>2 DEF RunAborts, RunStep, Skip, Start, Retry, GiveUp, AlreadyExecuted,
           RefusedEarlier, TakenAsRefusal, BeginOk, BeginRefused, Proceed, Refuse,
           PrepareThrows, ToolSucceeds, ToolRefuses, ToolThrows
      <3>2. QED
        BY <3>1
    <2>3. QED
      BY <2>1, <2>2
  <1>5. \A q \in Proposal \ {p} : said'[q] = said[q]
    <2>1. CASE Start(p) \/ Retry(p) \/ BeginOk(p) \/ Proceed(p) \/ CallTool(p)
      BY <2>1 DEF Start, Retry, BeginOk, Proceed, CallTool
    <2>2. CASE ~ (Start(p) \/ Retry(p) \/ BeginOk(p) \/ Proceed(p) \/ CallTool(p))
      <3>1. PICK c : Settle(p, c)
        BY <2>2 DEF RunStep, RunAborts, Skip, GiveUp, AlreadyExecuted, RefusedEarlier,
           TakenAsRefusal, BeginRefused, Refuse, PrepareThrows, ToolSucceeds, ToolRefuses,
           ToolThrows
      <3>2. QED
        BY <3>1, SettledSays
    <2>3. QED
      BY <2>1, <2>2
  <1>6. \A q \in Proposal \ {p} :
          /\ journal'.row[q] = journal.row[q]
          /\ q \in journal'.asRefused <=> q \in journal.asRefused
    <2>1. CASE journal' = journal
      BY <2>1
    <2>2. CASE Start(p)
      BY <1>1, <2>2, RequestedRows DEF Start
    <2>3. CASE RefusedEarlier(p)
      BY <1>1, <2>3, RefusedRows DEF RefusedEarlier
    <2>4. CASE TakenAsRefusal(p)
      <3>1. J!RefusedBeforeTicket(journal, p) \in J!JournalType
        BY <1>1, JournalTypes DEF J!Outcome
      <3>2. journal' = J!NoteAsRefused(J!RefusedBeforeTicket(journal, p), p)
        BY <2>4 DEF TakenAsRefusal
      <3>3. /\ journal'.row = J!RefusedBeforeTicket(journal, p).row
            /\ journal'.asRefused = journal.asRefused \cup {p}
        BY <1>1, <3>1, <3>2, RefusedRows, NotedRows
      <3>4. QED
        BY <1>1, <3>3, RefusedRows
    <2>5. CASE BeginOk(p)
      BY <1>1, <2>5, BegunRows DEF BeginOk
    <2>6. CASE journal' # journal /\ (Refuse(p) \/ PrepareThrows(p) \/ ToolSucceeds(p)
                                        \/ ToolRefuses(p) \/ ToolThrows(p))
      <3>1. PICK s, o : journal' = J!Complete(journal, p, s, o)
        BY <2>6 DEF Refuse, PrepareThrows, ToolSucceeds, ToolRefuses, ToolThrows
      <3>2. QED
        BY <1>1, <3>1, CompletedRows
    <2>7. QED
      BY <2>1, <2>2, <2>3, <2>4, <2>5, <2>6
         DEF RunStep, RunAborts, Skip, GiveUp, AlreadyExecuted, Retry, BeginRefused, Proceed,
             CallTool
  <1>7. QED
    BY <1>2, <1>3, <1>4, <1>5, <1>6 DEF Frame

-----------------------------------------------------------------------------
(* Whose proposals run.                                                     *)

\* A run past its start is one of this gateway's own submissions.
OwnRuns ==
  /\ run.pc # "idle" => Head(chain) \in submitted
  /\ ForeignProposalsUntouched

\* A step outside the run that sends nothing keeps it.
LEMMA OutsideOwnRuns ==
  ASSUME TypeOK, ClaimDiscipline, OwnRuns,
         journal' = journal, submitted \subseteq submitted', wire' \subseteq wire,
         issued' = issued,
         run'.pc # "idle" => run.pc # "idle" /\ Head(chain') = Head(chain)
  PROVE  OwnRuns'
  <1>1. \A p \in Proposal \ submitted' :
          /\ journal'.row[p] = J!NoRow /\ p \notin journal'.asRefused
          /\ p \notin wire' /\ issued'[p] = 0
    BY DEF OwnRuns, ForeignProposalsUntouched
  <1>2. run'.pc # "idle" => Head(chain') \in submitted'
    BY DEF OwnRuns
  <1>3. QED
    BY <1>1, <1>2 DEF OwnRuns, ForeignProposalsUntouched

LEMMA AsAnswersOwnRuns ==
  ASSUME TypeOK, OwnRuns, NEW p \in Proposal, AsAnswers(p)
  PROVE  OwnRuns'
  <1>1. PICK n \in {issued[p], issued[p] + 1}, a \in Answer :
          /\ issued' = [issued EXCEPT ![p] = n]
          /\ run' = IF Awaiting(p) THEN [run EXCEPT !.answer = a, !.ticket = n] ELSE run
    BY DEF AsAnswers
  <1>2. /\ p \in wire /\ wire' = wire \ {p} /\ journal' = journal /\ submitted' = submitted
        /\ chain' = chain
    BY DEF AsAnswers, diskVars
  <1>3. run'.pc = run.pc
    BY <1>1 DEF TypeOK, Run
  <1>4. p \in submitted
    BY <1>2 DEF OwnRuns, ForeignProposalsUntouched
  <1>5. \A q \in Proposal \ submitted : issued'[q] = issued[q]
    BY <1>1, <1>4 DEF TypeOK
  <1>6. QED
    BY <1>2, <1>3, <1>5 DEF OwnRuns, ForeignProposalsUntouched

LEMMA RunOwnRuns ==
  ASSUME TypeOK, ClaimDiscipline, OwnRuns, NEW p \in Proposal, RunStep(p) \/ RunAborts(p)
  PROVE  OwnRuns'
  <1>1. Frame(p)
    BY RunFrame
  <1>2. CASE p \in submitted
    <2>1. ForeignProposalsUntouched'
      BY <1>1, <1>2 DEF OwnRuns, ForeignProposalsUntouched, Frame
    <2>2. run'.pc # "idle" => chain' = chain /\ p = Head(chain)
      BY RunMoves
    <2>3. QED
      BY <1>1, <1>2, <2>1, <2>2 DEF OwnRuns, Frame
  <1>3. CASE p \notin submitted
    <2>1. run.pc = "idle"
      BY <1>3 DEF OwnRuns, RunAborts, AboutToWrite, RunStep, Skip, Start, Retry, GiveUp,
         AlreadyExecuted, RefusedEarlier, TakenAsRefusal, BeginOk, BeginRefused, Proceed,
         Refuse, PrepareThrows, CallTool, ToolSucceeds, ToolRefuses, ToolThrows, Running
    <2>2. Skip(p) \/ RunAborts(p)
      BY <1>3, <2>1 DEF RunStep, Start, Retry, GiveUp, AlreadyExecuted, RefusedEarlier,
         TakenAsRefusal, BeginOk, BeginRefused, Proceed, Refuse, PrepareThrows, CallTool,
         ToolSucceeds, ToolRefuses, ToolThrows, Running
    <2>3. UNCHANGED <<journal, submitted, wire, issued>> /\ run'.pc = "idle"
      BY <2>2 DEF Skip, RunAborts, Settle, Idle, diskVars, asVars
    <2>4. QED
      BY <2>3, OutsideOwnRuns
  <1>4. QED
    BY <1>2, <1>3

LEMMA OwnRunsHold == Spec => []OwnRuns
  <1>1. Init => OwnRuns
    BY DEF Init, OwnRuns, ForeignProposalsUntouched, Idle, J!EmptyJournal
  <1>2. TypeOK /\ ClaimDiscipline /\ OwnRuns /\ [Next]_vars => OwnRuns'
    <2>1. SUFFICES ASSUME TypeOK, ClaimDiscipline, OwnRuns, [Next]_vars
                   PROVE  OwnRuns'
      OBVIOUS
    <2>. USE <2>1 DEF diskVars, asVars, history, memVars
    <2>2. CASE UNCHANGED vars
      BY <2>2, OutsideOwnRuns DEF vars
    <2>3. CASE \E p \in Proposal : AsAnswers(p)
      BY <2>3, AsAnswersOwnRuns
    <2>4. CASE \E p \in Proposal : RunStep(p) \/ RunAborts(p)
      BY <2>4, RunOwnRuns
    <2>5. ASSUME NEW p \in Proposal, NEW here \in BOOLEAN,
                 \/ Submit(p, here) \/ RecordSubmission(p) \/ SubmissionLost(p) \/ Decide(p)
                 \/ AgentReads(p) \/ AttemptFails(p)
          PROVE  OwnRuns'
      <3>1. /\ journal' = journal /\ submitted \subseteq submitted' /\ wire' \subseteq wire
            /\ issued' = issued /\ chain' = chain
        BY <2>5 DEF Submit, RecordSubmission, SubmissionLost, Decide, AgentReads, AttemptFails
      <3>2. run'.pc = run.pc
        BY <2>5 DEF Submit, RecordSubmission, SubmissionLost, Decide, AgentReads, AttemptFails,
           TypeOK, Run
      <3>3. QED
        BY <3>1, <3>2, OutsideOwnRuns
    <2>6. ASSUME NEW p \in Proposal, AgentActs(p) \/ (PollNext /\ Enqueue(p)) PROVE OwnRuns'
      <3>1. UNCHANGED <<journal, submitted, wire, issued, run>>
        BY <2>6 DEF AgentActs, PollNext
      <3>2. chain # <<>> => Head(chain') = Head(chain)
        BY <2>6, EnqueueKeepsHead DEF AgentActs, TypeOK
      <3>3. QED
        BY <3>1, <3>2, OutsideOwnRuns DEF ClaimDiscipline
    <2>7. CASE PollFetch \/ Crash \/ Restart
      <3>1. UNCHANGED <<journal, submitted, wire, issued>>
        BY <2>7 DEF PollFetch, Crash, Restart
      <3>2. run'.pc # "idle" => run' = run /\ chain' = chain
        BY <2>7 DEF PollFetch, Crash, Restart, Idle
      <3>3. QED
        BY <3>1, <3>2, OutsideOwnRuns
    <2>8. PollNext => \E p \in Proposal : PollNext /\ Enqueue(p)
      BY DEF PollNext, TypeOK
    <2>9. QED
      BY <2>2, <2>3, <2>4, <2>5, <2>6, <2>7, <2>8 DEF Next
  <1>3. QED
    BY <1>1, <1>2, TypeCorrect, DisciplineHolds, PTL DEF Spec

\* Proposals of the operator's other devices are left alone, by whatever
\* trigger they are met: executeCommitted() gives up before it asks for a
\* ticket or writes a row.
THEOREM ForeignUntouched == Spec => []ForeignProposalsUntouched
  <1>1. OwnRuns => ForeignProposalsUntouched
    BY DEF OwnRuns
  <1>2. QED
    BY <1>1, OwnRunsHold, PTL

-----------------------------------------------------------------------------
(* What the rows say.                                                       *)

\* A row holds a ticket of the AS's from begin() on, a verdict that is the
\* truth, and a call was made only under a ticket.
RowIsTrue(p) ==
  /\ journal.row[p].ticket <= issued[p]
  /\ journal.row[p].state \in {"none", "requested"} =>
       journal.row[p].outcome = "" /\ journal.row[p].ticket = 0
  /\ journal.row[p].state = "intent" =>
       journal.row[p].outcome = "" /\ journal.row[p].ticket > 0
  /\ journal.row[p].state = "done" => effects[p] = 1
  /\ journal.row[p].outcome # "" => effects[p] = 0
  /\ calls[p] > 0 => journal.row[p].ticket > 0
  /\ calls[p] = 0 => effects[p] = 0

\* What the run under way has in hand.
HeadIsTrue ==
  /\ run.pc = "await" => journal.row[Head(chain)].state # "none"
  /\ run.pc = "await" /\ run.answer = "ticket" =>
       run.ticket > 0 /\ run.ticket <= issued[Head(chain)]
  /\ run.pc = "called" => effects[Head(chain)] = IF run.worked THEN 1 ELSE 0

Truth == (\A p \in Proposal : RowIsTrue(p)) /\ HeadIsTrue

LEMMA RowStaysTrue ==
  ASSUME TypeOK, TypeOK', NEW q \in Proposal, RowIsTrue(q),
         journal'.row[q] = journal.row[q], calls'[q] = calls[q], effects'[q] = effects[q],
         issued'[q] >= issued[q]
  PROVE  RowIsTrue(q)'
  <1>1. journal.row[q].ticket \in Nat /\ issued[q] \in Nat /\ issued'[q] \in Nat
    BY DEF TypeOK, J!JournalType, J!Row
  <1>2. journal'.row[q].ticket <= issued'[q]
    <2>1. journal.row[q].ticket <= issued[q]
      BY DEF RowIsTrue
    <2>2. QED
      BY <1>1, <2>1
  <1>3. QED
    BY <1>2 DEF RowIsTrue

\* Steps that write no row and make no call.
LEMMA TruthKept ==
  ASSUME TypeOK, TypeOK', ClaimDiscipline, Truth, AsMovesOn,
         UNCHANGED <<journal, calls, effects>>,
         run'.pc # "idle" =>
           run'.pc = run.pc /\ run'.worked = run.worked /\ Head(chain') = Head(chain),
         run'.pc = "await" /\ run'.answer = "ticket" =>
           run'.ticket > 0 /\ run'.ticket <= issued'[Head(chain')]
  PROVE  Truth'
  <1>1. \A q \in Proposal : RowIsTrue(q)'
    BY RowStaysTrue DEF Truth, AsMovesOn
  <1>2. HeadIsTrue'
    BY DEF Truth, HeadIsTrue
  <1>3. QED
    BY <1>1, <1>2 DEF Truth

\* A ticket reaches the run with its number.
LEMMA AsAnswersTruth ==
  ASSUME TypeOK, TypeOK', ClaimDiscipline, Truth, NEW p \in Proposal, AsAnswers(p)
  PROVE  Truth'
  <1>1. PICK s \in AsStatus, n \in {issued[p], issued[p] + 1}, a \in Answer :
          /\ AsVerdict(p, s, n, a)
          /\ issued' = [issued EXCEPT ![p] = n]
          /\ run' = IF Awaiting(p) THEN [run EXCEPT !.answer = a, !.ticket = n] ELSE run
    BY DEF AsAnswers
  <1>2. UNCHANGED <<journal, chain, calls, effects>>
    BY DEF AsAnswers, diskVars, history
  <1>3. AsMovesOn
    BY AsAnswersMovesOn
  <1>4. run'.pc = run.pc /\ run'.worked = run.worked
    BY <1>1 DEF TypeOK, Run
  <1>5. run'.pc = "await" /\ run'.answer = "ticket" =>
          run'.ticket > 0 /\ run'.ticket <= issued'[Head(chain')]
    <2>1. SUFFICES ASSUME run'.pc = "await", run'.answer = "ticket"
                   PROVE  run'.ticket > 0 /\ run'.ticket <= issued'[Head(chain')]
      OBVIOUS
    <2>2. CASE Awaiting(p)
      <3>1. run'.ticket = n /\ a = "ticket" /\ Head(chain') = p
        BY <1>1, <1>2, <2>1, <2>2 DEF TypeOK, Run, Awaiting
      <3>2. issued'[p] = n /\ n \in Nat /\ issued[p] \in Nat
        BY <1>1 DEF TypeOK
      <3>3. n > 0
        BY <1>1, <3>1, <3>2 DEF AsVerdict
      <3>4. QED
        BY <3>1, <3>2, <3>3
    <2>3. CASE ~ Awaiting(p)
      <3>1. run' = run /\ chain # <<>> /\ Head(chain) \in Proposal
        BY <1>1, <1>4, <2>1, <2>3, HeadInFlight DEF ClaimDiscipline, TypeOK
      <3>2. run.ticket > 0 /\ run.ticket <= issued[Head(chain)]
        BY <2>1, <3>1 DEF Truth, HeadIsTrue
      <3>3. issued'[Head(chain)] >= issued[Head(chain)] /\ run.ticket \in Nat
            /\ issued[Head(chain)] \in Nat /\ issued'[Head(chain)] \in Nat
        BY <1>3, <3>1 DEF AsMovesOn, TypeOK, Run
      <3>4. QED
        BY <1>2, <3>1, <3>2, <3>3
    <2>4. QED
      BY <2>2, <2>3
  <1>6. QED
    BY <1>2, <1>3, <1>4, <1>5, TruthKept

\* A step of the run: the row it stands under stays true, the others are left.
LEMMA RunTruth ==
  ASSUME TypeOK, TypeOK', ClaimDiscipline, Truth, NEW p \in Proposal,
         RunStep(p) \/ RunAborts(p)
  PROVE  Truth'
  <1>. USE DEF diskVars, asVars, history
  <1>1. /\ chain # <<>> /\ p = Head(chain) /\ Frame(p)
        /\ run'.pc # "idle" => chain' = chain
    BY RunMoves, RunFrame
  <1>2. \A q \in Proposal \ {p} : RowIsTrue(q)'
    <2>1. \A q \in Proposal : issued'[q] >= issued[q]
      BY <1>1 DEF Frame, TypeOK
    <2>2. QED
      BY <1>1, <2>1, RowStaysTrue DEF Truth, Frame
  <1>3. /\ journal \in J!JournalType /\ journal.row[p] \in J!Row /\ run \in Run
        /\ issued[p] \in Nat /\ calls[p] \in Nat /\ effects[p] \in Nat
        /\ run.ticket \in Nat /\ journal.row[p].ticket \in Nat
    BY DEF TypeOK, J!JournalType, Run, J!Row
  <1>4. RowIsTrue(p) /\ HeadIsTrue /\ issued' = issued
    BY <1>1 DEF Truth, Frame
  <1>5. SUFFICES RowIsTrue(p)' /\ (run'.pc # "idle" => HeadIsTrue')
    BY <1>2 DEF Truth, HeadIsTrue
  <1>6. CASE Skip(p) \/ GiveUp(p) \/ AlreadyExecuted(p) \/ BeginRefused(p) \/ RunAborts(p)
    <2>1. UNCHANGED <<journal, calls, effects>> /\ run'.pc = "idle"
      BY <1>6 DEF Skip, GiveUp, AlreadyExecuted, BeginRefused, RunAborts, Settle, Idle
    <2>2. QED
      BY <1>4, <2>1 DEF RowIsTrue
  <1>7. CASE Start(p)
    <2>1. /\ journal' = J!Requested(journal, p) /\ UNCHANGED <<calls, effects>>
          /\ run'.pc = "await" /\ run'.answer = "none"
      BY <1>7 DEF Start, Idle
    <2>2. journal'.row[p].state # "none"
      <3>1. CASE journal.row[p].state # "none"
        BY <1>3, <2>1, <3>1, RequestedRows
      <3>2. CASE journal.row[p].state = "none"
        BY <1>3, <2>1, <3>2, RequestedRows
      <3>3. QED
        BY <3>1, <3>2
    <2>3. RowIsTrue(p)'
      <3>1. CASE journal.row[p].state # "none"
        BY <1>3, <1>4, <2>1, <3>1, RequestedRows DEF RowIsTrue
      <3>2. CASE journal.row[p].state = "none"
        <4>2. /\ journal'.row[p].state = "requested" /\ journal'.row[p].outcome = ""
              /\ journal'.row[p].ticket = 0
          BY <1>3, <2>1, <3>2, RequestedRows
        <4>3. calls[p] = 0 /\ effects[p] = 0 /\ 0 <= issued[p]
          BY <1>3, <1>4, <3>2 DEF ClaimDiscipline, RowIsTrue
        <4>4. QED
          BY <1>4, <2>1, <4>2, <4>3 DEF RowIsTrue
      <3>3. QED
        BY <3>1, <3>2
    <2>4. QED
      BY <1>1, <2>1, <2>2, <2>3 DEF HeadIsTrue
  <1>8. CASE Retry(p)
    <2>1. /\ UNCHANGED <<journal, calls, effects>> /\ run.pc = "await"
          /\ run'.pc = "await" /\ run'.answer = "none"
      BY <1>3, <1>8 DEF Retry, Running, Run
    <2>2. QED
      BY <1>1, <1>4, <2>1 DEF RowIsTrue, HeadIsTrue
  <1>9. CASE RefusedEarlier(p) \/ TakenAsRefusal(p)
    <2>1. Settle(p, {"nothing ran"}) /\ UNCHANGED <<calls, effects>> /\ run'.pc = "idle"
      <3>1. Settle(p, {"nothing ran"}) /\ UNCHANGED <<calls, effects>>
        BY <1>9 DEF RefusedEarlier, TakenAsRefusal
      <3>2. QED
        BY <3>1 DEF Settle, Idle
    <2>2. journal'.row[p] = J!RefusedBeforeTicket(journal, p).row[p]
      <3>1. J!RefusedBeforeTicket(journal, p) \in J!JournalType
        BY <1>3, JournalTypes DEF J!Outcome
      <3>2. QED
        BY <1>9, <3>1, NotedRows DEF RefusedEarlier, TakenAsRefusal
    <2>3. CASE journal.row[p].state # "requested"
      BY <1>3, <1>4, <2>1, <2>2, <2>3, RefusedRows DEF RowIsTrue
    <2>4. CASE journal.row[p].state = "requested"
      <3>1. calls[p] = 0 /\ effects[p] = 0
        BY <1>4, <2>4 DEF ClaimDiscipline, RowIsTrue
      <3>2. /\ journal'.row[p].state = "failed" /\ journal'.row[p].outcome = "as_refused"
            /\ journal'.row[p].ticket = journal.row[p].ticket
        BY <1>3, <2>2, <2>4, RefusedRows
      <3>3. QED
        BY <1>3, <1>4, <2>1, <3>1, <3>2 DEF RowIsTrue
    <2>5. QED
      BY <2>1, <2>3, <2>4
  <1>10. CASE BeginOk(p)
    <2>1. /\ journal' = J!Begin(journal, p, run.ticket) /\ UNCHANGED <<calls, effects>>
          /\ run'.pc = "verify" /\ run.pc = "await" /\ run.answer = "ticket"
          /\ journal.row[p].state \in {"none", "requested"}
      BY <1>3, <1>10 DEF BeginOk, Running, Run, J!Claimable
    <2>2. /\ journal'.row[p].state = "intent" /\ journal'.row[p].outcome = ""
          /\ journal'.row[p].ticket = run.ticket
      <3>1. journal.row[p].outcome = ""
        BY <1>4, <2>1 DEF RowIsTrue
      <3>2. /\ journal'.row[p].state = "intent" /\ journal'.row[p].ticket = run.ticket
            /\ journal'.row[p].outcome = journal.row[p].outcome
        BY <1>3, <2>1, BegunRows
      <3>3. QED
        BY <3>1, <3>2
    <2>3. run.ticket > 0 /\ run.ticket <= issued[p] /\ calls[p] = 0 /\ effects[p] = 0
      BY <1>1, <1>4, <2>1 DEF HeadIsTrue, RowIsTrue, ClaimDiscipline
    <2>4. QED
      BY <1>4, <2>1, <2>2, <2>3 DEF RowIsTrue, HeadIsTrue
  <1>11. CASE Proceed(p)
    <2>1. UNCHANGED <<journal, calls, effects>> /\ run'.pc \in {"preview", "finalize"}
      BY <1>3, <1>11 DEF Proceed, Run
    <2>2. QED
      BY <1>4, <2>1 DEF RowIsTrue, HeadIsTrue
  <1>12. CASE Refuse(p) \/ PrepareThrows(p)
    <2>1. PICK o, c : journal' = J!Complete(journal, p, "failed", o) /\ Settle(p, c)
      BY <1>12 DEF Refuse, PrepareThrows
    <2>2. /\ UNCHANGED <<calls, effects>> /\ run'.pc = "idle"
          /\ run.pc \in {"verify", "preview", "finalize"}
      <3>1. run'.pc = "idle"
        BY <2>1 DEF Settle, Idle
      <3>2. QED
        BY <1>12, <3>1 DEF Refuse, PrepareThrows, Running
    <2>3. journal.row[p].state = "intent" /\ calls[p] = 0 /\ effects[p] = 0
      BY <1>1, <1>4, <2>2 DEF ClaimDiscipline, RowIsTrue
    <2>4. journal'.row[p].state = "failed" /\ journal'.row[p].ticket = journal.row[p].ticket
      BY <1>3, <2>1, CompletedRows
    <2>5. QED
      BY <1>3, <1>4, <2>2, <2>3, <2>4 DEF RowIsTrue
  <1>13. CASE CallTool(p)
    <2>1. PICK w \in BOOLEAN :
            /\ run' = [run EXCEPT !.pc = "called", !.worked = w]
            /\ effects' = [effects EXCEPT ![p] = IF w THEN effects[p] + 1 ELSE effects[p]]
      BY <1>13 DEF CallTool
    <2>2. /\ journal' = journal /\ run.pc = "finalize"
          /\ calls' = [calls EXCEPT ![p] = calls[p] + 1]
      BY <1>13 DEF CallTool, Running
    <2>3. journal.row[p].state = "intent" /\ calls[p] = 0 /\ effects[p] = 0
      BY <1>1, <1>4, <2>2 DEF ClaimDiscipline, RowIsTrue
    <2>4. run'.pc = "called" /\ run'.worked = w
      BY <1>3, <2>1 DEF Run
    <2>5. effects'[p] = (IF w THEN 1 ELSE 0) /\ calls'[p] = 1
      BY <2>1, <2>2, <2>3 DEF TypeOK
    <2>6. RowIsTrue(p)'
      BY <1>4, <2>2, <2>3, <2>5 DEF RowIsTrue
    <2>7. HeadIsTrue'
      BY <1>1, <2>4, <2>5 DEF HeadIsTrue
    <2>8. QED
      BY <2>6, <2>7
  <1>14. CASE ToolSucceeds(p) \/ ToolRefuses(p) \/ ToolThrows(p)
    <2>1. UNCHANGED <<calls, effects>> /\ run'.pc = "idle" /\ run.pc = "called"
      <3>1. PICK c : Settle(p, c)
        BY <1>14 DEF ToolSucceeds, ToolRefuses, ToolThrows
      <3>2. run'.pc = "idle"
        BY <3>1 DEF Settle, Idle
      <3>3. QED
        BY <1>14, <3>2 DEF ToolSucceeds, ToolRefuses, ToolThrows, Running
    <2>2. /\ journal.row[p].state = "intent" /\ journal.row[p].outcome = ""
          /\ journal.row[p].ticket > 0 /\ calls[p] = 1
          /\ effects[p] = IF run.worked THEN 1 ELSE 0
      BY <1>1, <1>4, <2>1 DEF ClaimDiscipline, RowIsTrue, HeadIsTrue
    <2>3. CASE ToolSucceeds(p)
      <3>1. journal' = J!Complete(journal, p, "done", "") /\ run.worked
        BY <2>3 DEF ToolSucceeds
      <3>2. /\ journal'.row[p].state = "done" /\ journal'.row[p].outcome = ""
            /\ journal'.row[p].ticket = journal.row[p].ticket
        <4>1. journal'.row[p].outcome = journal.row[p].outcome
          BY <1>3, <3>1, CompletedOutcome
        <4>2. PICK o : journal' = J!Complete(journal, p, "done", o)
          BY <3>1
        <4>3. journal'.row[p].state = "done" /\ journal'.row[p].ticket = journal.row[p].ticket
          BY <1>3, <4>2, CompletedRows
        <4>4. QED
          BY <2>2, <4>1, <4>3
      <3>3. QED
        BY <1>3, <1>4, <2>1, <2>2, <3>1, <3>2 DEF RowIsTrue
    <2>4. CASE ToolRefuses(p)
      <3>1. journal' = J!Complete(journal, p, "failed", "refused") /\ ~ run.worked
        BY <2>4 DEF ToolRefuses
      <3>2. journal'.row[p].state = "failed" /\ journal'.row[p].ticket = journal.row[p].ticket
        BY <1>3, <3>1, CompletedRows
      <3>3. QED
        BY <1>3, <1>4, <2>1, <2>2, <3>1, <3>2 DEF RowIsTrue
    <2>5. CASE ToolThrows(p)
      <3>1. journal' = J!Complete(journal, p, "failed", "")
        BY <2>5 DEF ToolThrows
      <3>2. /\ journal'.row[p].state = "failed" /\ journal'.row[p].outcome = ""
            /\ journal'.row[p].ticket = journal.row[p].ticket
        <4>1. journal'.row[p].outcome = journal.row[p].outcome
          BY <1>3, <3>1, CompletedOutcome
        <4>2. PICK o : journal' = J!Complete(journal, p, "failed", o)
          BY <3>1
        <4>3. journal'.row[p].state = "failed" /\ journal'.row[p].ticket = journal.row[p].ticket
          BY <1>3, <4>2, CompletedRows
        <4>4. QED
          BY <2>2, <4>1, <4>3
      <3>3. QED
        BY <1>3, <1>4, <2>1, <2>2, <3>2 DEF RowIsTrue
    <2>6. QED
      BY <1>14, <2>1, <2>3, <2>4, <2>5
  <1>15. QED
    BY <1>6, <1>7, <1>8, <1>9, <1>10, <1>11, <1>12, <1>13, <1>14 DEF RunStep

LEMMA TruthHolds == Spec => []Truth
  <1>1. Init => Truth
    <2>1. SUFFICES ASSUME Init PROVE Truth
      OBVIOUS
    <2>2. \A p \in Proposal : /\ journal.row[p].state = "none"
                             /\ journal.row[p].outcome = "" /\ journal.row[p].ticket = 0
      BY <2>1, NoRowFields DEF Init, J!EmptyJournal
    <2>3. \A p \in Proposal : issued[p] = 0 /\ calls[p] = 0 /\ effects[p] = 0
      BY <2>1 DEF Init
    <2>4. run.pc = "idle"
      BY <2>1 DEF Init, Idle
    <2>5. ASSUME NEW p \in Proposal PROVE RowIsTrue(p)
      <3>1. journal.row[p].ticket = 0 /\ issued[p] = 0 /\ calls[p] = 0 /\ effects[p] = 0
        BY <2>2, <2>3, Zenon
      <3>2. journal.row[p].ticket <= issued[p] /\ ~ (calls[p] > 0)
        BY <3>1
      <3>3. QED
        BY <2>2, <3>1, <3>2 DEF RowIsTrue
    <2>6. QED
      BY <2>4, <2>5 DEF Truth, HeadIsTrue
  <1>2. TypeOK /\ TypeOK' /\ ClaimDiscipline /\ Truth /\ [Next]_vars => Truth'
    <2>1. SUFFICES ASSUME TypeOK, TypeOK', ClaimDiscipline, Truth, [Next]_vars
                   PROVE  Truth'
      OBVIOUS
    <2>. USE <2>1 DEF diskVars, asVars, history, memVars
    <2>2. AsMovesOn
      BY StepMovesOn
    <2>3. run.pc = "await" /\ run.answer = "ticket" =>
            run.ticket > 0 /\ run.ticket <= issued[Head(chain)]
      BY DEF Truth, HeadIsTrue
    <2>4. CASE UNCHANGED vars
      BY <2>2, <2>3, <2>4, TruthKept DEF vars
    <2>5. CASE \E p \in Proposal : AsAnswers(p)
      BY <2>5, AsAnswersTruth
    <2>6. CASE \E p \in Proposal : RunStep(p) \/ RunAborts(p)
      BY <2>6, RunTruth
    <2>7. ASSUME NEW p \in Proposal, NEW here \in BOOLEAN,
                 \/ Submit(p, here) \/ RecordSubmission(p) \/ SubmissionLost(p) \/ Decide(p)
                 \/ AgentReads(p)
          PROVE  Truth'
      <3>1. UNCHANGED <<journal, calls, effects, issued, chain, run>>
        BY <2>7 DEF Submit, RecordSubmission, SubmissionLost, Decide, AgentReads
      <3>2. QED
        BY <2>2, <2>3, <3>1, TruthKept
    <2>8. ASSUME NEW p \in Proposal, AttemptFails(p) PROVE Truth'
      <3>1. UNCHANGED <<journal, calls, effects, issued, chain>>
        BY <2>8 DEF AttemptFails
      <3>2. run'.pc = run.pc /\ run'.worked = run.worked /\ run'.answer # "ticket"
        BY <2>8 DEF AttemptFails, TypeOK, Run
      <3>3. QED
        BY <2>2, <3>1, <3>2, TruthKept
    <2>9. ASSUME NEW p \in Proposal, AgentActs(p) \/ (PollNext /\ Enqueue(p)) PROVE Truth'
      <3>1. UNCHANGED <<journal, calls, effects, issued, run>>
        BY <2>9 DEF AgentActs, PollNext
      <3>2. run.pc # "idle" => Head(chain') = Head(chain)
        BY <2>9, EnqueueKeepsHead DEF AgentActs, TypeOK, ClaimDiscipline
      <3>3. QED
        BY <2>2, <2>3, <3>1, <3>2, TruthKept
    <2>10. CASE PollFetch \/ Crash \/ Restart
      <3>1. UNCHANGED <<journal, calls, effects, issued>>
        BY <2>10 DEF PollFetch, Crash, Restart
      <3>2. run'.pc = "idle" \/ (run' = run /\ chain' = chain)
        BY <2>10 DEF PollFetch, Crash, Restart, Idle
      <3>3. QED
        BY <2>2, <2>3, <3>1, <3>2, TruthKept
    <2>11. PollNext => \E p \in Proposal : PollNext /\ Enqueue(p)
      BY DEF PollNext, TypeOK
    <2>12. QED
      BY <2>4, <2>5, <2>6, <2>7, <2>8, <2>9, <2>10, <2>11 DEF Next
  <1>3. QED
    BY <1>1, <1>2, TypeCorrect, DisciplineHolds, PTL DEF Spec

\* What the journal on disk says is what happened: a call was made only under a
\* claim on disk with a ticket of the AS for an own proposal, done only if the
\* action took effect, refused or changed only if it did not; across stale
\* lists, failed writes, crashes and restarts.
THEOREM RowsHold == Spec => []RowsAreTrue
  <1>1. TypeOK /\ ClaimDiscipline /\ OwnRuns /\ Truth => RowsAreTrue
    <2>1. SUFFICES ASSUME TypeOK, ClaimDiscipline, OwnRuns, Truth, NEW p \in Proposal
                   PROVE  /\ calls[p] > 0 =>
                               /\ journal.row[p].state \in {"intent", "done", "failed"}
                               /\ journal.row[p].ticket \in 1 .. issued[p]
                               /\ p \in submitted
                          /\ journal.row[p].state = "done" => effects[p] = 1
                          /\ journal.row[p].outcome \in {"refused", "changed", "as_refused"}
                               => effects[p] = 0
      BY DEF RowsAreTrue
    <2>2. RowIsTrue(p)
      BY <2>1 DEF Truth
    <2>3. /\ journal.row[p].state \in J!RowState /\ journal.row[p].ticket \in Nat
          /\ issued[p] \in Nat /\ calls[p] \in Nat
      BY <2>1 DEF TypeOK, J!JournalType, J!Row
    <2>4. ASSUME calls[p] > 0
          PROVE  /\ journal.row[p].state \in {"intent", "done", "failed"}
                 /\ journal.row[p].ticket \in 1 .. issued[p]
                 /\ p \in submitted
      <3>1. journal.row[p].state \in {"intent", "done", "failed"}
        BY <2>1, <2>3, <2>4 DEF ClaimDiscipline, J!RowState
      <3>2. journal.row[p].ticket \in 1 .. issued[p]
        <4>1. journal.row[p].ticket > 0 /\ journal.row[p].ticket <= issued[p]
          BY <2>2, <2>4 DEF RowIsTrue
        <4>2. QED
          BY <2>3, <4>1
      <3>3. p \in submitted
        <4>1. p \notin submitted => journal.row[p] = J!NoRow
          BY <2>1 DEF OwnRuns, ForeignProposalsUntouched
        <4>2. QED
          BY <3>1, <4>1, NoRowFields
      <3>4. QED
        BY <3>1, <3>2, <3>3
    <2>5. QED
      BY <2>2, <2>4 DEF RowIsTrue
  <1>2. QED
    BY <1>1, TypeCorrect, DisciplineHolds, OwnRunsHold, TruthHolds, PTL

-----------------------------------------------------------------------------
(* No claim is left open while nothing has failed.                          *)

PastBegin == {"verify", "preview", "finalize", "called"}

\* A step outside the run that spends no fault leaves a run past begin() alone.
LEMMA OutsideForgetsNothing ==
  ASSUME NoForgottenClaim, journal' = journal, faults' = 0 => faults = 0,
         faults' = 0 /\ chain # <<>> /\ run.pc \in PastBegin =>
           run'.pc = run.pc /\ chain' # <<>> /\ Head(chain') = Head(chain)
  PROVE  NoForgottenClaim'
  BY DEF NoForgottenClaim, PastBegin

LEMMA RunForgetsNothing ==
  ASSUME TypeOK, NoForgottenClaim, NEW p \in Proposal, RunStep(p)
  PROVE  NoForgottenClaim'
  <1>. USE DEF diskVars, asVars, history
  <1>1. /\ chain # <<>> /\ p = Head(chain) /\ Frame(p)
        /\ run'.pc # "idle" => chain' = chain
    BY RunMoves, RunFrame
  <1>2. journal \in J!JournalType /\ run \in Run
    BY DEF TypeOK
  <1>3. faults' = faults
    BY DEF RunStep, Skip, Start, Retry, GiveUp, AlreadyExecuted, RefusedEarlier,
       TakenAsRefusal, BeginOk, BeginRefused, Proceed, Refuse, PrepareThrows, CallTool,
       ToolSucceeds, ToolRefuses, ToolThrows
  <1>4. ASSUME NEW q \in Proposal \ {p}, journal'.row[q].state = "intent" PROVE faults' # 0
    <2>1. journal.row[q].state = "intent"
      BY <1>1, <1>4 DEF Frame
    <2>2. QED
      BY <1>1, <1>3, <2>1 DEF NoForgottenClaim
  <1>5. SUFFICES ASSUME journal'.row[p].state = "intent", faults = 0
                 PROVE  run'.pc \in PastBegin
    BY <1>1, <1>3, <1>4 DEF NoForgottenClaim, PastBegin
  <1>6. CASE BeginOk(p) \/ Proceed(p) \/ CallTool(p)
    BY <1>2, <1>6 DEF BeginOk, Proceed, CallTool, Run, PastBegin
  <1>7. CASE \/ Skip(p) \/ Start(p) \/ Retry(p) \/ GiveUp(p) \/ AlreadyExecuted(p)
             \/ RefusedEarlier(p) \/ TakenAsRefusal(p) \/ BeginRefused(p)
    <2>1. run.pc \in {"idle", "await"}
      BY <1>7 DEF Skip, Start, Retry, GiveUp, AlreadyExecuted, RefusedEarlier,
         TakenAsRefusal, BeginRefused, Running
    <2>2. journal.row[p].state = "intent"
      <3>1. CASE journal' = journal
        BY <1>5, <3>1
      <3>2. CASE Start(p)
        <4>1. journal' = J!Requested(journal, p)
          BY <3>2 DEF Start
        <4>2. journal.row[p].state # "none"
          BY <1>2, <1>5, <4>1, RequestedRows
        <4>3. QED
          BY <1>2, <1>5, <4>1, <4>2, RequestedRows
      <3>3. CASE RefusedEarlier(p) \/ TakenAsRefusal(p)
        <4>1. J!RefusedBeforeTicket(journal, p) \in J!JournalType
          BY <1>2, JournalTypes DEF J!Outcome
        <4>2. journal'.row[p] = J!RefusedBeforeTicket(journal, p).row[p]
          BY <1>2, <3>3, <4>1, NotedRows DEF RefusedEarlier, TakenAsRefusal
        <4>3. QED
          BY <1>2, <1>5, <4>2, RefusedRows
      <3>4. QED
        BY <1>7, <3>1, <3>2, <3>3
           DEF Skip, Retry, GiveUp, AlreadyExecuted, BeginRefused
    <2>3. QED
      BY <1>5, <2>1, <2>2 DEF NoForgottenClaim
  <1>8. CASE Refuse(p) \/ PrepareThrows(p) \/ ToolRefuses(p) \/ ToolThrows(p)
    <2>1. PICK o : journal' = J!Complete(journal, p, "failed", o)
      BY <1>8 DEF Refuse, PrepareThrows, ToolRefuses, ToolThrows
    <2>2. journal'.row[p].state = "failed"
      BY <1>2, <2>1, CompletedRows
    <2>3. QED
      BY <1>5, <2>2
  <1>9. CASE ToolSucceeds(p)
    <2>1. PICK o : journal' = J!Complete(journal, p, "done", o)
      BY <1>9 DEF ToolSucceeds
    <2>2. journal'.row[p].state = "done"
      BY <1>2, <2>1, CompletedRows
    <2>3. QED
      BY <1>5, <2>2
  <1>10. QED
    BY <1>6, <1>7, <1>8, <1>9 DEF RunStep

\* No early return of executeCommitted() leaves a row behind as intent: while
\* nothing has failed, a claim is open only as long as its run is under way.
THEOREM NoClaimIsForgotten == Spec => []NoForgottenClaim
  <1>1. Init => NoForgottenClaim
    <2>1. SUFFICES ASSUME Init, NEW p \in Proposal PROVE journal.row[p].state # "intent"
      BY DEF NoForgottenClaim
    <2>2. journal.row[p] = J!NoRow
      BY <2>1 DEF Init, J!EmptyJournal
    <2>3. QED
      BY <2>2, NoRowFields
  <1>2. TypeOK /\ ClaimDiscipline /\ NoForgottenClaim /\ [Next]_vars => NoForgottenClaim'
    <2>1. SUFFICES ASSUME TypeOK, ClaimDiscipline, NoForgottenClaim, [Next]_vars
                   PROVE  NoForgottenClaim'
      OBVIOUS
    <2>. USE <2>1 DEF diskVars, asVars, history, memVars
    <2>2. CASE UNCHANGED vars
      BY <2>2, OutsideForgetsNothing DEF vars
    <2>3. CASE \E p \in Proposal : RunStep(p)
      BY <2>3, RunForgetsNothing
    <2>4. ASSUME NEW p \in Proposal, NEW here \in BOOLEAN,
                 Submit(p, here) \/ RecordSubmission(p) \/ Decide(p) \/ AgentReads(p)
          PROVE  NoForgottenClaim'
      <3>1. UNCHANGED <<journal, chain, run, faults>>
        BY <2>4 DEF Submit, RecordSubmission, Decide, AgentReads
      <3>2. QED
        BY <3>1, OutsideForgetsNothing
    <2>5. ASSUME NEW p \in Proposal, AsAnswers(p) PROVE NoForgottenClaim'
      <3>1. UNCHANGED <<journal, chain, faults>> /\ run'.pc = run.pc
        BY <2>5 DEF AsAnswers, TypeOK, Run
      <3>2. QED
        BY <3>1, OutsideForgetsNothing
    <2>6. CASE \/ \E p \in Proposal : SubmissionLost(p) \/ AttemptFails(p) \/ RunAborts(p)
               \/ Crash
      <3>1. faults' = faults + 1 /\ faults \in Nat
        BY <2>6 DEF SubmissionLost, AttemptFails, RunAborts, Crash, Fault, TypeOK
      <3>2. QED
        BY <3>1 DEF NoForgottenClaim
    <2>7. ASSUME NEW p \in Proposal, AgentActs(p) \/ (PollNext /\ Enqueue(p))
          PROVE  NoForgottenClaim'
      <3>1. UNCHANGED <<journal, run, faults>> /\ (chain' = chain \/ Enqueue(p))
        BY <2>7 DEF AgentActs, PollNext
      <3>2. chain # <<>> => chain' # <<>> /\ Head(chain') = Head(chain)
        BY <3>1, EnqueueKeepsHead DEF TypeOK
      <3>3. QED
        BY <3>1, <3>2, OutsideForgetsNothing
    <2>8. PollNext => \E p \in Proposal : PollNext /\ Enqueue(p)
      BY DEF PollNext, TypeOK
    <2>9. CASE PollFetch \/ Restart
      <3>1. UNCHANGED <<journal, chain, run, faults>>
        BY <2>9 DEF PollFetch, Restart
      <3>2. QED
        BY <3>1, OutsideForgetsNothing
    <2>10. QED
      BY <2>2, <2>3, <2>4, <2>5, <2>6, <2>7, <2>8, <2>9 DEF Next
  <1>3. QED
    BY <1>1, <1>2, TypeCorrect, DisciplineHolds, PTL DEF Spec

-----------------------------------------------------------------------------
(* "Nothing ran" is true for good.                                          *)

\* Said without the synthetic note, it rests on a closed row under which nothing
\* was done, or on the AS's refusal; neither is ever taken back.
SaidTruly(p) ==
  "nothing ran" \in said[p] /\ p \notin journal.asRefused =>
    \/ journal.row[p].state = "failed" /\ effects[p] = 0
    \/ asStatus[p] = "refused"

SaidTrue == \A p \in Proposal : SaidTruly(p)

LEMMA SaidStays ==
  ASSUME NEW q \in Proposal, SaidTruly(q),
         "nothing ran" \in said'[q] => "nothing ran" \in said[q],
         q \in journal.asRefused => q \in journal'.asRefused,
         journal.row[q].state = "failed" =>
           journal'.row[q] = journal.row[q] /\ effects'[q] = effects[q],
         asStatus[q] = "refused" => asStatus'[q] = "refused"
  PROVE  SaidTruly(q)'
  BY DEF SaidTruly

\* A closed row is never written again, and no call is made under it.
LEMMA FailedRowStays ==
  ASSUME TypeOK, ClaimDiscipline, NEW p \in Proposal, RunStep(p) \/ RunAborts(p)
  PROVE  /\ journal.row[p].state = "failed" =>
              journal'.row[p] = journal.row[p] /\ effects'[p] = effects[p]
         /\ p \in journal.asRefused => p \in journal'.asRefused
  <1>. USE DEF diskVars, asVars, history
  <1>1. chain # <<>> /\ p = Head(chain) /\ journal \in J!JournalType
    BY RunMoves DEF TypeOK
  <1>2. CASE journal' = journal /\ effects' = effects
    BY <1>2
  <1>3. CASE Start(p)
    <2>1. journal' = J!Requested(journal, p) /\ effects' = effects
      BY <1>3 DEF Start
    <2>2. QED
      BY <1>1, <2>1, RequestedRows
  <1>4. CASE RefusedEarlier(p) \/ TakenAsRefusal(p)
    <2>1. J!RefusedBeforeTicket(journal, p) \in J!JournalType
      BY <1>1, JournalTypes DEF J!Outcome
    <2>2. /\ effects' = effects
          /\ \/ journal' = J!RefusedBeforeTicket(journal, p)
             \/ journal' = J!NoteAsRefused(J!RefusedBeforeTicket(journal, p), p)
      BY <1>4 DEF RefusedEarlier, TakenAsRefusal
    <2>3. /\ journal'.row = J!RefusedBeforeTicket(journal, p).row
          /\ p \in journal.asRefused => p \in journal'.asRefused
      BY <1>1, <2>1, <2>2, NotedRows, RefusedRows
    <2>4. QED
      BY <1>1, <2>2, <2>3, RefusedRows
  <1>5. CASE BeginOk(p)
    <2>1. journal' = J!Begin(journal, p, run.ticket) /\ journal.row[p].state # "failed"
      BY <1>5 DEF BeginOk, J!Claimable
    <2>2. QED
      BY <1>1, <2>1, BegunRows
  <1>6. CASE CallTool(p)
    BY <1>1, <1>6 DEF CallTool, Running, ClaimDiscipline
  <1>7. CASE Refuse(p) \/ PrepareThrows(p) \/ ToolSucceeds(p) \/ ToolRefuses(p) \/ ToolThrows(p)
    <2>1. PICK s, o : journal' = J!Complete(journal, p, s, o)
      BY <1>7 DEF Refuse, PrepareThrows, ToolSucceeds, ToolRefuses, ToolThrows
    <2>2. run.pc \in {"verify", "preview", "finalize", "called"}
      BY <1>7 DEF Refuse, PrepareThrows, ToolSucceeds, ToolRefuses, ToolThrows, Running
    <2>3. journal.row[p].state = "intent"
      BY <1>1, <2>2 DEF ClaimDiscipline
    <2>4. QED
      BY <1>1, <2>1, <2>3, CompletedRows
  <1>8. QED
    BY <1>2, <1>3, <1>4, <1>5, <1>6, <1>7
       DEF RunStep, RunAborts, Skip, Retry, GiveUp, AlreadyExecuted, BeginRefused, Proceed

\* The fallback of localOutcomeOfExecuted() reads the row.
LEMMA ExecutedClaimIsTrue ==
  ASSUME Truth, NEW p \in Proposal, "nothing ran" \in ExecutedClaim(p)
  PROVE  p \in journal.asRefused \/ (journal.row[p].state = "failed" /\ effects[p] = 0)
  <1>1. SUFFICES ASSUME p \notin journal.asRefused
                 PROVE  journal.row[p].state = "failed" /\ effects[p] = 0
    OBVIOUS
  <1>2. J!Newest(journal, p) = journal.row[p]
    BY <1>1 DEF J!Newest
  <1>3. journal.row[p].state = "failed" /\ journal.row[p].outcome # ""
    BY <1>2 DEF ExecutedClaim
  <1>4. QED
    BY <1>3 DEF Truth, RowIsTrue

LEMMA RunSaysTrue ==
  ASSUME TypeOK, ClaimDiscipline, Statuses, Truth, SaidTrue, NEW p \in Proposal,
         RunStep(p) \/ RunAborts(p)
  PROVE  SaidTrue'
  <1>. USE DEF diskVars, asVars, history
  <1>1. /\ chain # <<>> /\ p = Head(chain) /\ Frame(p) /\ asStatus' = asStatus
        /\ journal \in J!JournalType /\ RowIsTrue(p) /\ HeadIsTrue
    <2>1. asStatus' = asStatus
      BY DEF RunAborts, RunStep, Skip, Start, Retry, GiveUp, AlreadyExecuted,
         RefusedEarlier, TakenAsRefusal, BeginOk, BeginRefused, Proceed, Refuse,
         PrepareThrows, CallTool, ToolSucceeds, ToolRefuses, ToolThrows
    <2>2. QED
      BY <2>1, RunMoves, RunFrame DEF TypeOK, Truth
  <1>2. \A q \in Proposal \ {p} : SaidTruly(q)'
    <2>1. ASSUME NEW q \in Proposal \ {p} PROVE SaidTruly(q)'
      BY <1>1, SaidStays DEF SaidTrue, Frame
    <2>2. QED
      BY <2>1
  <1>3. SUFFICES SaidTruly(p)'
    BY <1>2 DEF SaidTrue
  <1>4. CASE "nothing ran" \in said'[p] => "nothing ran" \in said[p]
    BY <1>1, <1>4, FailedRowStays, SaidStays DEF SaidTrue
  <1>5. CASE AlreadyExecuted(p) /\ "nothing ran" \notin said[p]
    <2>1. Settle(p, ExecutedClaim(p)) /\ journal' = journal /\ effects' = effects
      BY <1>5 DEF AlreadyExecuted
    <2>2. said'[p] = said[p] \cup ExecutedClaim(p)
      BY <2>1, SettledSays
    <2>3. QED
      BY <1>5, <2>1, <2>2, ExecutedClaimIsTrue DEF SaidTruly
  <1>6. CASE RefusedEarlier(p)
    <2>1. asStatus'[p] = "refused"
      BY <1>1, <1>6 DEF RefusedEarlier, Running, Statuses
    <2>2. QED
      BY <2>1 DEF SaidTruly
  <1>7. CASE TakenAsRefusal(p)
    <2>1. J!RefusedBeforeTicket(journal, p) \in J!JournalType
      BY <1>1, JournalTypes DEF J!Outcome
    <2>2. p \in journal'.asRefused
      BY <1>7, <2>1, NotedRows DEF TakenAsRefusal
    <2>3. QED
      BY <2>2 DEF SaidTruly
  <1>8. CASE Refuse(p) \/ ToolRefuses(p)
    <2>1. PICK o : journal' = J!Complete(journal, p, "failed", o)
      BY <1>8 DEF Refuse, ToolRefuses
    <2>2. journal'.row[p].state = "failed"
      BY <1>1, <2>1, CompletedRows
    <2>3. effects'[p] = 0
      <3>1. CASE Refuse(p)
        BY <1>1, <3>1 DEF Refuse, Running, ClaimDiscipline, RowIsTrue
      <3>2. CASE ToolRefuses(p)
        BY <1>1, <3>2 DEF ToolRefuses, Running, HeadIsTrue
      <3>3. QED
        BY <1>8, <3>1, <3>2
    <2>4. QED
      BY <2>2, <2>3 DEF SaidTruly
  <1>9. CASE ~ (\/ AlreadyExecuted(p) \/ RefusedEarlier(p) \/ TakenAsRefusal(p)
                \/ Refuse(p) \/ ToolRefuses(p))
    <2>1. CASE Start(p) \/ Retry(p) \/ BeginOk(p) \/ Proceed(p) \/ CallTool(p)
      <3>1. said' = said
        BY <2>1 DEF Start, Retry, BeginOk, Proceed, CallTool
      <3>2. QED
        BY <1>4, <3>1
    <2>2. CASE \/ Skip(p) \/ GiveUp(p) \/ BeginRefused(p) \/ PrepareThrows(p)
               \/ ToolSucceeds(p) \/ ToolThrows(p) \/ RunAborts(p)
      <3>1. Settle(p, {}) \/ Settle(p, {"ran"})
        BY <2>2 DEF Skip, GiveUp, BeginRefused, PrepareThrows, ToolSucceeds, ToolThrows,
           RunAborts
      <3>2. PICK c : Settle(p, c) /\ (c = {} \/ c = {"ran"})
        BY <3>1
      <3>3. "nothing ran" \notin c
        <4>1. "nothing ran" \notin {"ran"}
          OBVIOUS
        <4>2. QED
          BY <3>2, <4>1
      <3>4. said'[p] = said[p] \cup c
        BY <3>2, SettledSays
      <3>5. "nothing ran" \in said'[p] => "nothing ran" \in said[p]
        BY <3>3, <3>4
      <3>6. QED
        BY <1>4, <3>5
    <2>3. QED
      BY <1>9, <2>1, <2>2 DEF RunStep
  <1>10. QED
    BY <1>4, <1>5, <1>6, <1>7, <1>8, <1>9

\* The agent's answers are read off the row or the AS's status.
LEMMA AgentSaysTrue ==
  ASSUME TypeOK, Statuses, Truth, SaidTrue, NEW p \in Proposal, AgentActs(p)
  PROVE  SaidTrue'
  <1>1. UNCHANGED <<journal, effects, asStatus>> /\ agent.on = p
    BY DEF AgentActs, diskVars, asVars
  <1>2. CASE said' = said
    BY <1>1, <1>2 DEF SaidTrue, SaidTruly
  <1>3. CASE said' # said
    <2>1. said' = [said EXCEPT ![p] = said[p] \cup AgentAnswer(p, agent.read)]
      BY <1>3 DEF AgentActs
    <2>2. ASSUME NEW q \in Proposal \ {p} PROVE SaidTruly(q)'
      <3>1. said'[q] = said[q]
        BY <2>1 DEF TypeOK
      <3>2. QED
        BY <1>1, <3>1, SaidStays DEF SaidTrue
    <2>3. said'[p] = said[p] \cup AgentAnswer(p, agent.read)
      BY <2>1 DEF TypeOK
    <2>4. CASE "nothing ran" \notin AgentAnswer(p, agent.read)
      <3>1. SaidTruly(p)'
        BY <1>1, <2>3, <2>4, SaidStays DEF SaidTrue
      <3>2. QED
        BY <2>2, <3>1 DEF SaidTrue
    <2>5. CASE "nothing ran" \in AgentAnswer(p, agent.read)
      <3>1. CASE agent.read = "refused"
        <4>1. asStatus[p] = "refused"
          BY <1>1, <3>1 DEF Statuses
        <4>2. QED
          BY <1>1, <2>2, <4>1 DEF SaidTrue, SaidTruly
      <3>2. CASE "nothing ran" \in ExecutedClaim(p)
        <4>1. SaidTruly(p)'
          BY <1>1, <3>2, ExecutedClaimIsTrue DEF SaidTruly
        <4>2. QED
          BY <2>2, <4>1 DEF SaidTrue
      <3>3. QED
        BY <2>5, <3>1, <3>2 DEF AgentAnswer
    <2>6. QED
      BY <2>4, <2>5
  <1>4. QED
    BY <1>2, <1>3

LEMMA SaidHolds == Spec => []SaidTrue
  <1>1. Init => SaidTrue
    BY DEF Init, SaidTrue, SaidTruly
  <1>2. TypeOK /\ ClaimDiscipline /\ Statuses /\ Truth /\ SaidTrue /\ [Next]_vars
          => SaidTrue'
    <2>1. SUFFICES ASSUME TypeOK, ClaimDiscipline, Statuses, Truth, SaidTrue, [Next]_vars
                   PROVE  SaidTrue'
      OBVIOUS
    <2>. USE <2>1 DEF diskVars, asVars, history, memVars
    <2>2. CASE \E p \in Proposal : RunStep(p) \/ RunAborts(p)
      BY <2>2, RunSaysTrue
    <2>3. CASE \E p \in Proposal : AgentActs(p)
      BY <2>3, AgentSaysTrue
    <2>4. CASE UNCHANGED <<journal, effects, said>>
      <3>1. AsMovesOn
        BY StepMovesOn
      <3>2. QED
        BY <2>4, <3>1 DEF SaidTrue, SaidTruly, AsMovesOn
    <2>5. QED
      BY <2>2, <2>3, <2>4
         DEF Next, vars, Submit, RecordSubmission, SubmissionLost, Decide, AgentReads,
             AsAnswers, AttemptFails, PollFetch, PollNext, Crash, Restart
  <1>3. QED
    BY <1>1, <1>2, TypeCorrect, DisciplineHolds, StatusesHold, TruthHolds, PTL DEF Spec

\* An agent or a person told "nothing ran" is told the truth, and it stays true:
\* no other trigger runs the refused action later.  Except where the synthetic
\* as_refused row was written.
THEOREM NothingRanHolds == Spec => []NothingRanWithoutNote
  <1>1. TypeOK /\ Statuses /\ Truth /\ SaidTrue => NothingRanWithoutNote
    <2>1. SUFFICES ASSUME TypeOK, Statuses, Truth, SaidTrue, NEW p \in Proposal,
                          "nothing ran" \in said[p], p \notin journal.asRefused
                   PROVE  effects[p] = 0
      BY DEF NothingRanWithoutNote
    <2>2. CASE asStatus[p] = "refused"
      <3>1. RowIsTrue(p) /\ issued[p] = 0
        BY <2>1, <2>2 DEF Statuses, Truth
      <3>2. journal.row[p].ticket \in Nat /\ calls[p] \in Nat
        BY <2>1 DEF TypeOK, J!JournalType, J!Row
      <3>3. /\ journal.row[p].ticket <= issued[p]
            /\ calls[p] > 0 => journal.row[p].ticket > 0
            /\ calls[p] = 0 => effects[p] = 0
        BY <3>1 DEF RowIsTrue
      <3>4. QED
        BY <3>1, <3>2, <3>3
    <2>3. QED
      BY <2>1, <2>2 DEF SaidTrue, SaidTruly
  <1>2. QED
    BY <1>1, TypeCorrect, StatusesHold, TruthHolds, SaidHolds, PTL

-----------------------------------------------------------------------------
(* The review path implements the abstract promise.                         *)

LEMMA NoClaimMoves ==
  ASSUME calls' = calls, \A q \in Proposal : ClaimOf(q)' = ClaimOf(q)
  PROVE  UNCHANGED Promise!vars
  BY DEF Promise!vars

LEMMA RunPromises ==
  ASSUME TypeOK, ClaimDiscipline, NEW p \in Proposal, RunStep(p) \/ RunAborts(p)
  PROVE  [Promise!Next]_(Promise!vars)
  <1>. USE DEF diskVars, asVars, history
  <1>. DEFINE Claims == [q \in Proposal |-> ClaimOf(q)]
  <1>1. /\ chain # <<>> /\ p = Head(chain)
        /\ journal \in J!JournalType /\ calls \in [Proposal -> Nat]
        /\ \A q \in Proposal \ {p} : ClaimOf(q)' = ClaimOf(q)
    <2>1. \A q \in Proposal \ {p} : journal'.row[q] = journal.row[q]
      BY RunFrame DEF Frame
    <2>2. QED
      BY <2>1, RunMoves DEF ClaimOf, TypeOK
  <1>2. ASSUME calls' = calls, ClaimOf(p)' = ClaimOf(p) PROVE UNCHANGED Promise!vars
    BY <1>1, <1>2, NoClaimMoves
  <1>3. ASSUME NEW v, ClaimOf(p)' = v PROVE Claims' = [Claims EXCEPT ![p] = v]
    BY <1>1, <1>3
  <1>4. Claims[p] = ClaimOf(p)
    OBVIOUS
  <1>5. CASE journal' = journal /\ calls' = calls
    BY <1>2, <1>5 DEF ClaimOf
  <1>6. CASE Start(p)
    <2>1. journal' = J!Requested(journal, p) /\ calls' = calls
      BY <1>6 DEF Start
    <2>2. \/ journal'.row[p].state = journal.row[p].state
          \/ journal.row[p].state = "none" /\ journal'.row[p].state = "requested"
      BY <1>1, <2>1, RequestedRows
    <2>3. ClaimOf(p)' = ClaimOf(p)
      BY <2>2 DEF ClaimOf
    <2>4. QED
      BY <1>2, <2>1, <2>3
  <1>7. CASE RefusedEarlier(p) \/ TakenAsRefusal(p)
    <2>1. J!RefusedBeforeTicket(journal, p) \in J!JournalType
      BY <1>1, JournalTypes DEF J!Outcome
    <2>2. calls' = calls /\ journal'.row = J!RefusedBeforeTicket(journal, p).row
      BY <1>1, <1>7, <2>1, NotedRows DEF RefusedEarlier, TakenAsRefusal
    <2>3. CASE journal.row[p].state = "requested"
      <3>1. journal'.row[p].state = "failed"
        BY <1>1, <2>2, <2>3, RefusedRows
      <3>2. ClaimOf(p) = "open" /\ ClaimOf(p)' = "failed"
        BY <2>3, <3>1 DEF ClaimOf
      <3>3. Promise!Refuse(p)
        BY <1>3, <1>4, <2>2, <3>2 DEF Promise!Refuse
      <3>4. QED
        BY <3>3 DEF Promise!Next
    <2>4. CASE journal.row[p].state # "requested"
      <3>1. ClaimOf(p)' = ClaimOf(p)
        BY <1>1, <2>2, <2>4, RefusedRows DEF ClaimOf
      <3>2. QED
        BY <1>2, <2>2, <3>1
    <2>5. QED
      BY <2>3, <2>4
  <1>8. CASE BeginOk(p)
    <2>1. /\ journal' = J!Begin(journal, p, run.ticket) /\ calls' = calls
          /\ journal.row[p].state \in {"none", "requested"}
      BY <1>8 DEF BeginOk, J!Claimable
    <2>2. journal'.row[p].state = "intent"
      BY <1>1, <2>1, BegunRows
    <2>3. ClaimOf(p) = "open" /\ ClaimOf(p)' = "claimed"
      BY <2>1, <2>2 DEF ClaimOf
    <2>4. Promise!Claim(p)
      BY <1>3, <1>4, <2>1, <2>3 DEF Promise!Claim
    <2>5. QED
      BY <2>4 DEF Promise!Next
  <1>9. CASE CallTool(p)
    <2>1. /\ journal' = journal /\ run.pc = "finalize"
          /\ calls' = [calls EXCEPT ![p] = calls[p] + 1]
      BY <1>9 DEF CallTool, Running
    <2>2. journal.row[p].state = "intent" /\ calls[p] = 0
      BY <1>1, <2>1 DEF ClaimDiscipline
    <2>3. calls' = [calls EXCEPT ![p] = 1]
      BY <2>1, <2>2
    <2>4. ClaimOf(p) = "claimed" /\ Claims' = Claims
      BY <2>1, <2>2 DEF ClaimOf
    <2>5. Promise!Act(p)
      BY <1>4, <2>2, <2>3, <2>4 DEF Promise!Act
    <2>6. QED
      BY <2>5 DEF Promise!Next
  <1>10. CASE /\ journal' # journal
              /\ \/ Refuse(p) \/ PrepareThrows(p) \/ ToolSucceeds(p) \/ ToolRefuses(p)
                 \/ ToolThrows(p)
    <2>1. calls' = calls
      BY <1>10 DEF Refuse, PrepareThrows, ToolSucceeds, ToolRefuses, ToolThrows
    <2>2. ClaimOf(p) = "claimed" /\ (ToolSucceeds(p) => calls[p] > 0)
      <3>1. run.pc \in {"verify", "preview", "finalize", "called"}
        BY <1>10 DEF Refuse, PrepareThrows, ToolSucceeds, ToolRefuses, ToolThrows, Running
      <3>2. journal.row[p].state = "intent"
        BY <1>1, <3>1 DEF ClaimDiscipline
      <3>3. ToolSucceeds(p) => calls[p] > 0
        <4>1. ToolSucceeds(p) => run.pc = "called"
          BY DEF ToolSucceeds, Running
        <4>2. run.pc = "called" => calls[p] = 1
          BY <1>1 DEF ClaimDiscipline
        <4>3. QED
          BY <4>1, <4>2
      <3>4. QED
        BY <3>2, <3>3 DEF ClaimOf
    <2>3. CASE ToolSucceeds(p)
      <3>1. PICK o : journal' = J!Complete(journal, p, "done", o)
        BY <2>3 DEF ToolSucceeds
      <3>2. journal'.row[p].state = "done"
        BY <1>1, <3>1, CompletedRows
      <3>3. ClaimOf(p)' = "done"
        BY <3>2 DEF ClaimOf
      <3>4. Promise!Close(p)
        BY <1>3, <1>4, <2>1, <2>2, <2>3, <3>3 DEF Promise!Close
      <3>5. QED
        BY <3>4 DEF Promise!Next
    <2>4. CASE ~ ToolSucceeds(p)
      <3>1. PICK o : journal' = J!Complete(journal, p, "failed", o)
        BY <1>10, <2>4 DEF Refuse, PrepareThrows, ToolRefuses, ToolThrows
      <3>2. journal'.row[p].state = "failed"
        BY <1>1, <3>1, CompletedRows
      <3>3. ClaimOf(p)' = "failed"
        BY <3>2 DEF ClaimOf
      <3>4. Promise!Close(p)
        BY <1>3, <1>4, <2>1, <2>2, <3>3 DEF Promise!Close
      <3>5. QED
        BY <3>4 DEF Promise!Next
    <2>5. QED
      BY <2>3, <2>4
  <1>11. QED
    BY <1>5, <1>6, <1>7, <1>8, <1>9, <1>10
       DEF RunStep, RunAborts, Skip, Retry, GiveUp, AlreadyExecuted, BeginRefused, Proceed,
           Refuse, PrepareThrows, ToolSucceeds, ToolRefuses, ToolThrows

\* The review path implements the abstract promise: every approved proposal is
\* claimed on disk before it is acted on, acted on at most once and only under
\* its claim, and closed for good.
THEOREM ReviewPromise == Spec => OneExecutionPromise
  <1>1. Init => Promise!Init
    <2>1. SUFFICES ASSUME Init PROVE Promise!Init
      OBVIOUS
    <2>2. ASSUME NEW p \in Proposal PROVE ClaimOf(p) = "open"
      <3>1. journal.row[p] = J!NoRow
        BY <2>1 DEF Init, J!EmptyJournal
      <3>2. journal.row[p].state = "none"
        BY <3>1, NoRowFields
      <3>3. QED
        BY <3>2 DEF ClaimOf
    <2>3. calls = [p \in Proposal |-> 0]
      BY <2>1 DEF Init
    <2>4. QED
      BY <2>2, <2>3 DEF Promise!Init
  <1>2. TypeOK /\ ClaimDiscipline /\ [Next]_vars => [Promise!Next]_(Promise!vars)
    <2>1. SUFFICES ASSUME TypeOK, ClaimDiscipline, [Next]_vars
                   PROVE  [Promise!Next]_(Promise!vars)
      OBVIOUS
    <2>. USE <2>1 DEF diskVars, asVars, history, memVars
    <2>2. CASE \E p \in Proposal : RunStep(p) \/ RunAborts(p)
      BY <2>2, RunPromises
    <2>3. CASE UNCHANGED <<journal, calls>>
      <3>1. \A q \in Proposal : ClaimOf(q)' = ClaimOf(q)
        BY <2>3 DEF ClaimOf
      <3>2. QED
        BY <2>3, <3>1, NoClaimMoves
    <2>4. QED
      BY <2>2, <2>3
         DEF Next, vars, Submit, RecordSubmission, SubmissionLost, Decide, AgentReads,
             AgentActs, AsAnswers, AttemptFails, PollFetch, PollNext, Crash, Restart
  <1>3. QED
    BY <1>1, <1>2, TypeCorrect, DisciplineHolds, PTL
       DEF Spec, OneExecutionPromise, Promise!Spec
=============================================================================
