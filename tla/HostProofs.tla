----------------------------- MODULE HostProofs ------------------------------
(***************************************************************************)
(* Theorems about what the processes of one machine share.  The data       *)
(* directory (SharedDataDir), for every number of processes and proposals: *)
(* the journal stops a second call as long as no two writes of it overlap, *)
(* and the lock keeps running processes out of each other's loop as long   *)
(* as they did not race for it.  The launcher (Launcher), for every number *)
(* of shells, trees and commands: nothing that runs is out of reach.  The  *)
(* connectors' packages (ConnectorInstall), for every number of            *)
(* integrations: one install at a time, and only the pin runs.             *)
(***************************************************************************)
EXTENDS SharedDataDir, Launcher, ConnectorInstall, TLAPS

-----------------------------------------------------------------------------
(* The data directory.                                                      *)

Assumed == NoProcessAssumption /\ NoProposalAssumption

-----------------------------------------------------------------------------
(* The inductive invariant.                                                 *)

\* A run is of a proposal until it settles, and a claim is only prepared on a
\* copy of the journal that allows it.
RunsAreWhole ==
  \A i \in Process :
    /\ run[i].pc # "idle" => run[i].of \in Proposal
    /\ run[i].pc = "claiming" => J!Claimable(run[i].view, run[i].of, Ticket)

Holding == {"claimed", "called", "closing"}

Holds(i, p) == run[i].pc \in Holding /\ run[i].of = p

\* What the row of a proposal says of its calls and of who may still make one.
RowGuards(p) ==
  /\ calls[p] <= 1
  /\ calls[p] > 0 => journal.row[p].state \in {"intent", "done"}
  /\ \A i \in Process :
       Holds(i, p) => /\ journal.row[p].state = "intent"
                      /\ journal.row[p].ticket = Ticket
                      /\ calls[p] = IF run[i].pc = "claimed" THEN 0 ELSE 1
  /\ \A i, k \in Process : Holds(i, p) /\ Holds(k, p) => i = k

\* The lock: who holds it is running, who loops while running holds it; the
\* file names who has written it, and what an acquiring process has read there
\* is nobody that lives.
LockIsSound ==
  /\ lockFile # NoProcess => state[lockFile] \in {"running", "stopping", "dead"}
  /\ \A i \in Process :
       /\ held[i] => state[i] = "running"
       /\ InLoop(i) => state[i] \in {"running", "stopping"}
       /\ InLoop(i) /\ state[i] = "running" => held[i]
       /\ state[i] = "acquiring" => seen[i] = NoProcess \/ state[seen[i]] = "dead"
  /\ ~raced => \A i \in Process : held[i] => lockFile = i

RowsGuard == ~overlapped => \A p \in Proposal : RowGuards(p)

SharedInv == TypeOK /\ RunsAreWhole /\ RowsGuard /\ LockIsSound

-----------------------------------------------------------------------------
(* The journal's operators, on the rows of proposals.                       *)

\* What the three methods make of a whole file: a file, with the row of the
\* proposal changed as said.
LEMMA JournalRows ==
  ASSUME NEW K \in J!JournalType, NEW p \in Proposal
  PROVE  /\ J!Requested(K, p) \in J!JournalType
         /\ J!Begin(K, p, Ticket) \in J!JournalType
         /\ J!Complete(K, p, "done", "") \in J!JournalType
         /\ K.row[p].state = "none" => J!Requested(K, p).row[p].state = "requested"
         /\ J!Begin(K, p, Ticket).row[p].state = "intent"
         /\ J!Begin(K, p, Ticket).row[p].ticket = Ticket
         /\ J!Complete(K, p, "done", "").row[p].state = "done"
<1>1. K.row \in [Proposal -> J!Row] /\ K.row[p] \in J!Row
  BY DEF J!JournalType
<1>2. QED
  BY <1>1 DEF J!JournalType, J!Row, J!RowState, J!Outcome, Ticket,
              J!Requested, J!Begin, J!Complete

\* Every other row is as it was.
LEMMA OtherRows ==
  ASSUME NEW K \in J!JournalType, NEW p \in Proposal, NEW q \in Proposal, q # p
  PROVE  /\ J!Requested(K, p).row[q] = K.row[q]
         /\ J!Begin(K, p, Ticket).row[q] = K.row[q]
         /\ J!Complete(K, p, "done", "").row[q] = K.row[q]
BY DEF J!JournalType, J!Row, J!RowState, J!Outcome, Ticket, J!Requested, J!Begin,
    J!Complete

-----------------------------------------------------------------------------
(* Types.                                                                   *)

LEMMA IdleIsARun == J!EmptyJournal \in J!JournalType /\ Idle \in Run
<1>1. J!NoRow \in J!Row
  BY DEF J!NoRow, J!Row, J!RowState, J!Outcome
<1>2. J!EmptyJournal \in J!JournalType
  BY <1>1 DEF J!EmptyJournal, J!JournalType
<1>3. QED BY <1>2 DEF Idle, Run, Pc

\* TypeOK without its two flags, which need another prover than the rest.
ValueTypes ==
  /\ lockFile \in Process \cup {NoProcess}
  /\ journal \in J!JournalType
  /\ asStatus \in [Proposal -> {"committed", "executed"}]
  /\ state \in [Process -> {"new", "acquiring", "running", "stopping", "dead"}]
  /\ seen \in [Process -> Process \cup {NoProcess}]
  /\ held \in [Process -> BOOLEAN]
  /\ ticking \in SUBSET Process
  /\ list \in [Process -> SUBSET Proposal]
  /\ asked \in [Process -> SUBSET Proposal]
  /\ run \in [Process -> Run]
  /\ calls \in [Proposal -> Nat]

FlagTypes == raced \in BOOLEAN /\ overlapped \in BOOLEAN

LEMMA TypesAreBoth == TypeOK <=> ValueTypes /\ FlagTypes
BY DEF TypeOK, ValueTypes, FlagTypes

LEMMA InitTypes == Init => TypeOK
<1>1. Init => ValueTypes
  BY IdleIsARun DEF Init, ValueTypes
<1>2. Init => FlagTypes
  BY Zenon DEF Init, FlagTypes
<1>3. QED BY <1>1, <1>2, TypesAreBoth

\* A run that goes on: to another pc, with its view or with a new one.
LEMMA RunGoesOn ==
  ASSUME ValueTypes, NEW i \in Process, NEW pc \in Pc
  PROVE  /\ [run EXCEPT ![i].pc = pc] \in [Process -> Run]
         /\ [run EXCEPT ![i].pc = pc, ![i].view = journal] \in [Process -> Run]
         /\ [run EXCEPT ![i].pc = pc, ![i].view = journal][i]
              = [pc |-> pc, of |-> run[i].of, view |-> journal]
         /\ [run EXCEPT ![i].pc = pc][i] = [run[i] EXCEPT !.pc = pc]
<1>1. run \in [Process -> Run] /\ journal \in J!JournalType
  BY DEF ValueTypes
<1>2. /\ run[i] \in Run
      /\ [run[i] EXCEPT !.pc = pc] \in Run
  BY <1>1 DEF Run
<1>3. [run EXCEPT ![i].pc = pc] \in [Process -> Run]
  BY <1>1, <1>2
<1> DEFINE f == [run EXCEPT ![i].pc = pc]
<1>4. f \in [Process -> Run] /\ [f[i] EXCEPT !.view = journal] \in Run
  BY <1>1, <1>3 DEF Run
<1>5. [f EXCEPT ![i].view = journal] \in [Process -> Run]
  BY <1>4
<1>6. f[i] = [run[i] EXCEPT !.pc = pc]
  BY <1>1
<1>7. [f EXCEPT ![i].view = journal][i] = [pc |-> pc, of |-> run[i].of, view |-> journal]
  BY <1>1, <1>4, <1>6 DEF Run
<1>8. QED BY <1>3, <1>5, <1>6, <1>7

LEMMA TypeStep == ASSUME TypeOK, RunsAreWhole, [Next]_vars PROVE TypeOK'
<1>0. ValueTypes /\ FlagTypes
  BY TypesAreBoth
<1>1. CASE UNCHANGED vars
  BY <1>1 DEF vars, disk, memory, TypeOK
<1>2. ASSUME NEW i \in Process,
             \/ AcquireReads(i) \/ AcquireWrites(i) \/ Signal(i) \/ Ends(i)
             \/ Tick(i) \/ Fetched(i) \/ \E p \in Proposal : AgentAsks(i, p)
      PROVE  ValueTypes'
  <2> USE <1>0 DEF ValueTypes
  <2>1. CASE AcquireReads(i)
    BY <2>1 DEF AcquireReads, disk
  <2>6. CASE AcquireWrites(i)
    <3>1. /\ lockFile' = i /\ held' = [held EXCEPT ![i] = TRUE]
          /\ state' = [state EXCEPT ![i] = "running"]
          /\ UNCHANGED <<journal, asStatus, seen, ticking, list, asked, run, calls>>
      BY <2>6 DEF AcquireWrites
    <3>2. QED BY <3>1
  <2>2. CASE Signal(i)
    BY <2>2 DEF Signal
  <2>3. CASE Ends(i)
    BY <2>3, IdleIsARun DEF Ends, disk
  <2>4. CASE Tick(i) \/ Fetched(i) \/ \E p \in Proposal : AgentAsks(i, p)
    BY <2>4 DEF Tick, Fetched, AgentAsks, disk
  <2>5. QED BY <1>2, <2>1, <2>2, <2>3, <2>4, <2>6
<1>3. ASSUME NEW i \in Process, RunStep(i) PROVE ValueTypes'
  <2> DEFINE r == run[i]
  <2>1. /\ r \in Run /\ r.view \in J!JournalType
        /\ r.pc # "idle" => r.of \in Proposal
    BY <1>0 DEF ValueTypes, Run, RunsAreWhole
  <2>2. \A pc \in Pc : /\ [run EXCEPT ![i].pc = pc] \in [Process -> Run]
                       /\ [run EXCEPT ![i].pc = pc, ![i].view = journal] \in [Process -> Run]
    BY <1>0, RunGoesOn
  <2> USE <1>0 DEF ValueTypes
  <2>3. CASE TakesUp(i)
    <3>1. PICK p \in list[i] \cup asked[i] :
            run' = [run EXCEPT ![i] = [pc |-> "requesting", of |-> p, view |-> journal]]
      BY <2>3 DEF TakesUp
    <3>2. [pc |-> "requesting", of |-> p, view |-> journal] \in Run
      BY <3>1 DEF Run, Pc
    <3>3. QED BY <2>3, <3>1, <3>2 DEF TakesUp, disk
  <2>4. CASE RequestPersists(i)
    <3>1. run' \in [Process -> Run]
      BY <2>4, <2>2 DEF RequestPersists, Pc
    <3>2. journal' \in J!JournalType
      <4>1. r.of \in Proposal
        BY <2>4, <2>1 DEF RequestPersists, At
      <4>2. J!Requested(r.view, r.of) \in J!JournalType
        BY <2>1, <4>1, JournalRows
      <4>3. journal' = J!Requested(r.view, r.of) \/ journal' = journal
        BY <2>4 DEF RequestPersists, Persists
      <4>4. QED BY <4>2, <4>3
    <3>3. QED BY <2>4, <3>1, <3>2 DEF RequestPersists
  <2>5. CASE TicketArrives(i)
    <3>1. run' \in [Process -> Run]
      BY <2>5, <2>2 DEF TicketArrives, Pc
    <3>2. QED BY <2>5, <3>1 DEF TicketArrives, disk
  <2>6. ASSUME Settles(i) PROVE run' \in [Process -> Run] /\ list' \in [Process -> SUBSET Proposal]
                                /\ asked' \in [Process -> SUBSET Proposal]
    BY <2>6, IdleIsARun DEF Settles
  <2>7. ASSUME NEW pc \in Pc, Loads(i, pc) PROVE run' \in [Process -> Run]
    BY <2>7, <2>2 DEF Loads
  <2>8. CASE BeginLoads(i)
    BY <2>8, <2>6, <2>7 DEF BeginLoads, Pc, disk
  <2>9. CASE BeginPersists(i)
    <3>1. run' \in [Process -> Run]
      BY <2>9, <2>2 DEF BeginPersists, Pc
    <3>2. journal' \in J!JournalType
      BY <2>9, <2>1, JournalRows DEF BeginPersists, Persists, At
    <3>3. QED BY <2>9, <3>1, <3>2 DEF BeginPersists
  <2>10. CASE CallsTool(i)
    <3>1. run' \in [Process -> Run]
      BY <2>10, <2>2 DEF CallsTool, Pc
    <3>2. calls' \in [Proposal -> Nat]
      BY <2>10, <2>1 DEF CallsTool, At
    <3>3. QED BY <2>10, <3>1, <3>2 DEF CallsTool, disk
  <2>11. CASE CompleteLoads(i)
    BY <2>11, <2>6, <2>7 DEF CompleteLoads, Pc, disk
  <2>12. CASE CompletePersists(i)
    <3>1. journal' \in J!JournalType
      BY <2>12, <2>1, JournalRows DEF CompletePersists, Persists, At
    <3>2. QED BY <2>12, <2>6, <3>1 DEF CompletePersists
  <2>13. QED
    BY <1>3, <2>3, <2>4, <2>5, <2>8, <2>9, <2>10, <2>11, <2>12 DEF RunStep
<1>4. [Next]_vars => FlagTypes'
  BY <1>0, Zenon DEF FlagTypes, Next, vars, AcquireReads, AcquireWrites, Signal, Ends,
     Tick, Fetched, AgentAsks, RunStep, TakesUp, RequestPersists, TicketArrives,
     BeginLoads, BeginPersists, CallsTool, CompleteLoads, CompletePersists, Persists
<1>5. ASSUME Next PROVE ValueTypes'
  <2>1. PICK i \in Process :
          \/ AcquireReads(i) \/ AcquireWrites(i) \/ Signal(i) \/ Ends(i)
          \/ Tick(i) \/ Fetched(i) \/ RunStep(i) \/ \E p \in Proposal : AgentAsks(i, p)
    BY <1>5 DEF Next
  <2>2. QED BY <2>1, <1>2, <1>3
<1>6. CASE Next
  BY <1>4, <1>5, <1>6, Zenon DEF TypeOK, ValueTypes, FlagTypes
<1>7. QED
  BY <1>1, <1>6

-----------------------------------------------------------------------------
(* Runs.                                                                    *)

LEMMA RunsStep == ASSUME TypeOK, RunsAreWhole, [Next]_vars PROVE RunsAreWhole'
<1> USE DEF RunsAreWhole
<1>1. CASE UNCHANGED run
  BY <1>1
<1>2. ASSUME NEW i \in Process, run' # run,
             Ends(i) \/ RunStep(i)
      PROVE  RunsAreWhole'
  <2>1. /\ run \in [Process -> Run] /\ run[i] \in Run
        /\ list[i] \subseteq Proposal /\ asked[i] \subseteq Proposal
    BY DEF TypeOK
  <2>2. ASSUME NEW r, run' = [run EXCEPT ![i] = r],
               r.pc # "idle" => r.of \in Proposal,
               r.pc = "claiming" => J!Claimable(r.view, r.of, Ticket)
        PROVE  RunsAreWhole'
    BY <2>1, <2>2
  <2>3. CASE \/ Ends(i) \/ CompletePersists(i)
             \/ (BeginLoads(i) \/ CompleteLoads(i)) /\ Settles(i)
    <3>1. run' = [run EXCEPT ![i] = Idle]
      BY <2>3 DEF Ends, Settles, CompletePersists
    <3>2. QED BY <3>1, <2>2 DEF Idle
  <2>4. CASE TakesUp(i)
    <3>1. PICK p \in Proposal :
            run' = [run EXCEPT ![i] = [pc |-> "requesting", of |-> p, view |-> journal]]
      BY <2>1, <2>4 DEF TakesUp
    <3>2. QED BY <3>1, <2>2
  <2>5. ASSUME NEW pc \in Pc \ {"idle", "claiming"}, ~ At(i, "idle"),
               \/ run' = [run EXCEPT ![i].pc = pc]
               \/ run' = [run EXCEPT ![i].pc = pc, ![i].view = journal]
        PROVE  RunsAreWhole'
    <3>1. run[i].of \in Proposal
      BY <2>5 DEF At
    <3>2. run'[i].pc = pc /\ run'[i].of = run[i].of
      <4>1. CASE run' = [run EXCEPT ![i].pc = pc]
        BY <2>1, <4>1 DEF Run
      <4>2. CASE run' = [run EXCEPT ![i].pc = pc, ![i].view = journal]
        <5>1. ValueTypes /\ pc \in Pc
          BY <2>5, TypesAreBoth
        <5>2. run'[i] = [pc |-> pc, of |-> run[i].of, view |-> journal]
          BY <5>1, <4>2, RunGoesOn
        <5>3. QED BY <5>2
      <4>3. QED BY <2>5, <4>1, <4>2
    <3>3. \A k \in Process \ {i} : run'[k] = run[k]
      BY <2>1, <2>5
    <3>4. QED BY <3>1, <3>2, <3>3
  <2>6. CASE RequestPersists(i) \/ TicketArrives(i) \/ BeginPersists(i) \/ CallsTool(i)
    <3>1. ~ At(i, "idle")
      BY <2>6 DEF RequestPersists, TicketArrives, BeginPersists, CallsTool, At
    <3>2. \E pc \in {"asking", "ticket", "claimed", "called"} : run' = [run EXCEPT ![i].pc = pc]
      BY <2>6 DEF RequestPersists, TicketArrives, BeginPersists, CallsTool
    <3>3. QED BY <3>1, <3>2, <2>5 DEF Pc
  <2>7. CASE CompleteLoads(i) /\ Loads(i, "closing")
    <3>1. ~ At(i, "idle")
      BY <2>7 DEF CompleteLoads, At
    <3>2. run' = [run EXCEPT ![i].pc = "closing", ![i].view = journal]
      BY <2>7 DEF Loads
    <3>3. "closing" \in Pc \ {"idle", "claiming"}
      BY DEF Pc
    <3>4. QED BY <3>1, <3>2, <3>3, <2>5
  <2>8. CASE BeginLoads(i) /\ J!Claimable(journal, run[i].of, Ticket)
    <3>1. run' = [run EXCEPT ![i].pc = "claiming", ![i].view = journal]
      BY <2>8 DEF BeginLoads, Loads
    <3>2. run[i].of \in Proposal
      BY <2>8 DEF BeginLoads, At
    <3>3. run'[i] = [pc |-> "claiming", of |-> run[i].of, view |-> journal]
      BY <3>1, RunGoesOn, TypesAreBoth DEF Pc
    <3>4. \A k \in Process \ {i} : run'[k] = run[k]
      BY <2>1, <3>1
    <3>5. QED BY <2>8, <3>2, <3>3, <3>4
  <2>9. QED
    <3>1. CASE BeginLoads(i)
      BY <3>1, <2>3, <2>8 DEF BeginLoads
    <3>2. CASE CompleteLoads(i)
      BY <3>2, <2>3, <2>7 DEF CompleteLoads
    <3>3. CASE Ends(i) \/ CompletePersists(i)
      BY <3>3, <2>3
    <3>4. QED BY <1>2, <2>4, <2>6, <3>1, <3>2, <3>3 DEF RunStep
<1>3. QED
  BY <1>1, <1>2 DEF Next, vars, memory, AcquireReads, AcquireWrites, Signal, Tick,
                    Fetched, AgentAsks

-----------------------------------------------------------------------------
(* Rows.                                                                    *)

\* The rows of a proposal guard it still if neither its row nor its calls
\* changed and nobody came to hold it.
LEMMA RowFrame ==
  ASSUME NEW p \in Proposal, RowGuards(p),
         journal'.row[p] = journal.row[p], calls'[p] = calls[p],
         \A k \in Process : Holds(k, p)' => /\ Holds(k, p)
                                            /\ run'[k].pc = "claimed" <=> run[k].pc = "claimed"
  PROVE  RowGuards(p)'
<1> USE DEF RowGuards
<1>1. calls'[p] <= 1 /\ (calls'[p] > 0 => journal'.row[p].state \in {"intent", "done"})
  OBVIOUS
<1>2. ASSUME NEW i \in Process, Holds(i, p)'
      PROVE  /\ journal'.row[p].state = "intent" /\ journal'.row[p].ticket = Ticket
             /\ calls'[p] = IF run'[i].pc = "claimed" THEN 0 ELSE 1
  BY <1>2 DEF Holds
<1>3. ASSUME NEW i \in Process, NEW k \in Process, Holds(i, p)', Holds(k, p)'
      PROVE  i = k
  BY <1>3 DEF Holds
<1>4. QED BY <1>1, <1>2, <1>3

\* What a step of one run leaves alone: every other run.
LEMMA OthersHold ==
  ASSUME TypeOK, NEW i \in Process, NEW r, run' = [run EXCEPT ![i] = r]
  PROVE  /\ run'[i] = r
         /\ \A k \in Process \ {i} : run'[k] = run[k]
         /\ \A k \in Process \ {i}, p \in Proposal : Holds(k, p)' <=> Holds(k, p)
BY DEF TypeOK, Holds

LEMMA GoesOn ==
  ASSUME TypeOK, NEW i \in Process, NEW pc \in Pc,
         \/ run' = [run EXCEPT ![i].pc = pc]
         \/ run' = [run EXCEPT ![i].pc = pc, ![i].view = journal]
  PROVE  /\ run'[i].pc = pc /\ run'[i].of = run[i].of
         /\ \A k \in Process \ {i} : run'[k] = run[k]
         /\ \A k \in Process \ {i}, p \in Proposal : Holds(k, p)' <=> Holds(k, p)
<1>1. run \in [Process -> Run] /\ ValueTypes
  BY TypesAreBoth DEF TypeOK
<1>2. run'[i].pc = pc /\ run'[i].of = run[i].of
  <2>1. CASE run' = [run EXCEPT ![i].pc = pc]
    BY <1>1, <2>1 DEF Run
  <2>2. CASE run' = [run EXCEPT ![i].pc = pc, ![i].view = journal]
    <3>1. run'[i] = [pc |-> pc, of |-> run[i].of, view |-> journal]
      BY <1>1, <2>2, RunGoesOn
    <3>2. QED BY <3>1
  <2>3. QED BY <2>1, <2>2
<1>3. \A k \in Process \ {i} : run'[k] = run[k]
  BY <1>1
<1>4. QED BY <1>2, <1>3 DEF Holds

LEMMA RowsStep ==
  ASSUME TypeOK, RunsAreWhole, RowsGuard, [Next]_vars
  PROVE  RowsGuard'
<1> SUFFICES ASSUME ~overlapped', NEW p \in Proposal
             PROVE  RowGuards(p)'
  BY DEF RowsGuard
<1>1. CASE UNCHANGED <<run, journal, calls, overlapped>>
  <2>1. RowGuards(p)
    BY <1>1 DEF RowsGuard
  <2>2. QED BY <1>1, <2>1, RowFrame DEF Holds
<1>2. ASSUME NEW i \in Process, Ends(i) \/ RunStep(i)
      PROVE  RowGuards(p)'
  <2> DEFINE r == run[i]
  <2>1. ~overlapped /\ RowGuards(p)
    <3>1. ~overlapped
      BY <1>2 DEF Ends, RunStep, TakesUp, RequestPersists, TicketArrives, BeginLoads,
                  BeginPersists, CallsTool, CompleteLoads, CompletePersists, Persists
    <3>2. QED BY <3>1 DEF RowsGuard
  <2>2. /\ r \in Run /\ calls[p] \in Nat /\ journal \in J!JournalType
        /\ journal.row[p].state \in J!RowState
        /\ r.pc # "idle" => r.of \in Proposal
    BY DEF TypeOK, RunsAreWhole, J!JournalType, J!Row
  <2>3. ASSUME run' = [run EXCEPT ![i] = Idle], UNCHANGED <<journal, calls>>
        PROVE  RowGuards(p)'
    <3>1. run'[i] = Idle
      BY <2>3, OthersHold
    <3>4. ~ Holds(i, p)'
      BY <3>1 DEF Holds, Holding, Idle
    <3>2. \A k \in Process \ {i} : run'[k] = run[k] /\ (Holds(k, p)' <=> Holds(k, p))
      BY <2>3, OthersHold
    <3>3. QED BY <2>1, <2>3, <3>2, <3>4, RowFrame
  <2>4. CASE TakesUp(i)
    <3>1. PICK q : run' = [run EXCEPT ![i] = [pc |-> "requesting", of |-> q, view |-> journal]]
      BY <2>4 DEF TakesUp
    <3>5. run'[i].pc = "requesting"
      BY <3>1 DEF TypeOK
    <3>2. ~ Holds(i, p)'
      BY <3>5 DEF Holds, Holding
    <3>3. \A k \in Process \ {i} : run'[k] = run[k] /\ (Holds(k, p)' <=> Holds(k, p))
      BY <3>1, OthersHold
    <3>4. QED BY <2>1, <2>4, <3>2, <3>3, RowFrame DEF TakesUp, disk
  <2>5. CASE RequestPersists(i)
    <3>1. /\ run'[i].pc = "asking"
          /\ \A k \in Process \ {i} : run'[k] = run[k] /\ (Holds(k, p)' <=> Holds(k, p))
      BY <2>5, GoesOn DEF RequestPersists, Pc
    <3>2. \A k \in Process : Holds(k, p)' => Holds(k, p) /\ run'[k] = run[k]
      BY <3>1 DEF Holds, Holding
    <3>3. calls' = calls
      BY <2>5 DEF RequestPersists
    <3>4. CASE journal'.row[p] = journal.row[p]
      BY <2>1, <3>2, <3>3, <3>4, RowFrame
    <3>5. CASE journal'.row[p] # journal.row[p]
      <4>1. /\ journal.row[r.of].state = "none" /\ journal' = J!Requested(journal, r.of)
            /\ r.of \in Proposal
        BY <2>2, <2>5, <3>5 DEF RequestPersists, Persists, At
      <4>5. p = r.of /\ journal.row[p].state = "none"
        BY <2>2, <3>5, <4>1, OtherRows
      <4>3. calls[p] = 0 /\ \A k \in Process : ~ Holds(k, p)
        BY <2>1, <2>2, <4>5 DEF RowGuards
      <4>4. QED BY <3>2, <3>3, <4>3 DEF RowGuards
    <3>6. QED BY <3>4, <3>5
  <2>6. CASE TicketArrives(i) \/ (BeginLoads(i) /\ Loads(i, "claiming"))
    <3>1. \E pc \in {"ticket", "claiming"} :
            \/ run' = [run EXCEPT ![i].pc = pc]
            \/ run' = [run EXCEPT ![i].pc = pc, ![i].view = journal]
      BY <2>6 DEF TicketArrives, Loads
    <3>2. /\ run'[i].pc \in {"ticket", "claiming"}
          /\ \A k \in Process \ {i} : run'[k] = run[k] /\ (Holds(k, p)' <=> Holds(k, p))
      BY <3>1, GoesOn DEF Pc
    <3>3. \A k \in Process : Holds(k, p)' => Holds(k, p) /\ run'[k] = run[k]
      BY <3>2 DEF Holds, Holding
    <3>4. UNCHANGED <<journal, calls>>
      BY <2>6 DEF TicketArrives, BeginLoads, disk
    <3>5. QED BY <2>1, <3>3, <3>4, RowFrame
  <2>7. CASE BeginPersists(i)
    <3>1. /\ r.pc = "claiming" /\ r.of \in Proposal /\ r.view = journal
          /\ journal' = J!Begin(journal, r.of, Ticket) /\ calls' = calls
          /\ J!Claimable(journal, r.of, Ticket)
      BY <2>2, <2>7 DEF BeginPersists, Persists, At, RunsAreWhole
    <3>2. /\ run'[i].pc = "claimed" /\ run'[i].of = r.of
          /\ \A k \in Process \ {i} : run'[k] = run[k] /\ (Holds(k, p)' <=> Holds(k, p))
      BY <2>7, GoesOn DEF BeginPersists, Pc
    <3>3. CASE p # r.of
      <4>1. journal'.row[p] = journal.row[p]
        BY <2>2, <3>1, <3>3, OtherRows
      <4>2. ~ Holds(i, p)'
        BY <3>2, <3>3 DEF Holds
      <4>3. QED BY <2>1, <3>1, <3>2, <4>1, <4>2, RowFrame
    <3>4. CASE p = r.of
      <4>1. calls[p] = 0 /\ \A k \in Process : ~ Holds(k, p)
        BY <2>1, <2>2, <3>1, <3>4 DEF RowGuards, J!Claimable
      <4>2. journal'.row[p].state = "intent" /\ journal'.row[p].ticket = Ticket
        BY <2>2, <3>1, <3>4, JournalRows
      <4>3. \A k \in Process \ {i} : ~ Holds(k, p)'
        BY <3>2, <4>1
      <4>4. QED BY <3>1, <3>2, <4>1, <4>2, <4>3 DEF RowGuards
    <3>5. QED BY <3>3, <3>4
  <2>8. CASE CallsTool(i)
    <3>1. /\ r.pc = "claimed" /\ r.of \in Proposal /\ journal' = journal
          /\ calls' = [calls EXCEPT ![r.of] = @ + 1]
      BY <2>2, <2>8 DEF CallsTool, At, disk
    <3>2. /\ run'[i].pc = "called" /\ run'[i].of = r.of
          /\ \A k \in Process \ {i} : run'[k] = run[k] /\ (Holds(k, p)' <=> Holds(k, p))
      BY <2>8, GoesOn DEF CallsTool, Pc
    <3>3. CASE p # r.of
      <4>1. calls'[p] = calls[p] /\ ~ Holds(i, p)'
        BY <3>1, <3>2, <3>3 DEF TypeOK, Holds
      <4>2. QED BY <2>1, <3>1, <3>2, <4>1, RowFrame
    <3>4. CASE p = r.of
      <4>1. Holds(i, p)
        BY <3>1, <3>4 DEF Holds, Holding
      <4>2. /\ journal.row[p].state = "intent" /\ journal.row[p].ticket = Ticket
            /\ calls[p] = 0 /\ \A k \in Process \ {i} : ~ Holds(k, p)
        BY <2>1, <3>1, <4>1 DEF RowGuards
      <4>3. calls'[p] = 1
        BY <3>1, <3>4, <4>2 DEF TypeOK
      <4>4. QED BY <3>1, <3>2, <4>2, <4>3 DEF RowGuards
    <3>5. QED BY <3>3, <3>4
  <2>9. CASE CompleteLoads(i) /\ Loads(i, "closing")
    <3>1. r.pc = "called" /\ UNCHANGED <<journal, calls>>
      BY <2>9 DEF CompleteLoads, At, disk
    <3>2. /\ run'[i].pc = "closing" /\ run'[i].of = r.of
          /\ \A k \in Process \ {i} : run'[k] = run[k] /\ (Holds(k, p)' <=> Holds(k, p))
      BY <2>9, GoesOn DEF Loads, Pc
    <3>3. Holds(i, p)' => Holds(i, p)
      BY <3>1, <3>2 DEF Holds, Holding
    <3>4. QED BY <2>1, <3>1, <3>2, <3>3, RowFrame
  <2>10. CASE CompletePersists(i)
    <3>1. /\ r.pc = "closing" /\ r.of \in Proposal /\ r.view = journal
          /\ journal' = J!Complete(journal, r.of, "done", "") /\ calls' = calls
          /\ run' = [run EXCEPT ![i] = Idle]
      BY <2>2, <2>10 DEF CompletePersists, Persists, Settles, At
    <3>6. /\ run'[i] = Idle
          /\ \A k \in Process \ {i} : run'[k] = run[k] /\ (Holds(k, p)' <=> Holds(k, p))
      BY <3>1, OthersHold
    <3>2. /\ ~ Holds(i, p)'
          /\ \A k \in Process \ {i} : run'[k] = run[k] /\ (Holds(k, p)' <=> Holds(k, p))
      BY <3>6 DEF Holds, Holding, Idle
    <3>3. CASE p # r.of
      <4>1. journal'.row[p] = journal.row[p]
        BY <2>2, <3>1, <3>3, OtherRows
      <4>2. QED BY <2>1, <3>1, <3>2, <4>1, RowFrame
    <3>4. CASE p = r.of
      <4>1. Holds(i, p)
        BY <3>1, <3>4 DEF Holds, Holding
      <4>2. \A k \in Process : ~ Holds(k, p)'
        BY <2>1, <3>2, <4>1 DEF RowGuards
      <4>3. journal'.row[p].state = "done"
        BY <2>2, <3>1, <3>4, JournalRows
      <4>4. QED BY <2>1, <3>1, <4>2, <4>3 DEF RowGuards
    <3>5. QED BY <3>3, <3>4
  <2>11. CASE Ends(i) \/ ((BeginLoads(i) \/ CompleteLoads(i)) /\ Settles(i))
    BY <2>11, <2>3 DEF Ends, BeginLoads, CompleteLoads, Settles, disk
  <2>12. QED
    <3>1. CASE BeginLoads(i)
      BY <3>1, <2>6, <2>11 DEF BeginLoads
    <3>2. CASE CompleteLoads(i)
      BY <3>2, <2>9, <2>11 DEF CompleteLoads
    <3>3. QED BY <1>2, <2>4, <2>5, <2>6, <2>7, <2>8, <2>10, <2>11, <3>1, <3>2
        DEF RunStep
<1>3. QED
  BY <1>1, <1>2 DEF Next, vars, disk, memory, AcquireReads, AcquireWrites, Signal, Tick,
                    Fetched, AgentAsks

-----------------------------------------------------------------------------
(* The lock.                                                                *)

LEMMA LockStep ==
  ASSUME Assumed, TypeOK, LockIsSound, [Next]_vars
  PROVE  LockIsSound'
<1> USE DEF LockIsSound, InLoop
<1>0. /\ lockFile \in Process \cup {NoProcess} /\ NoProcess \notin Process
      /\ seen \in [Process -> Process \cup {NoProcess}]
      /\ state \in [Process -> {"new", "acquiring", "running", "stopping", "dead"}]
      /\ held \in [Process -> BOOLEAN] /\ list \in [Process -> SUBSET Proposal]
      /\ ticking \subseteq Process
  BY DEF TypeOK, Assumed, NoProcessAssumption
<1>1. CASE UNCHANGED <<lockFile, state, seen, held, ticking, list, raced>>
  BY <1>1
<1>2. ASSUME NEW i \in Process, AcquireReads(i) PROVE LockIsSound'
  BY <1>0, <1>2 DEF AcquireReads, TakenBy, disk
<1>3. ASSUME NEW i \in Process, AcquireWrites(i) PROVE LockIsSound'
  BY <1>0, <1>3 DEF AcquireWrites
<1>4. ASSUME NEW i \in Process, Signal(i) PROVE LockIsSound'
  BY <1>0, <1>4 DEF Signal, IsHeld
<1>5. ASSUME NEW i \in Process, Ends(i) PROVE LockIsSound'
  BY <1>0, <1>5 DEF Ends, disk
<1>6. ASSUME NEW i \in Process, Tick(i) \/ Fetched(i) PROVE LockIsSound'
  BY <1>0, <1>6 DEF Tick, Fetched, Serving, IsHeld, disk
<1>7. ASSUME NEW i \in Process, RunStep(i) PROVE LockIsSound'
  <2>1. UNCHANGED <<lockFile, state, seen, held, ticking, raced>>
    BY <1>7 DEF RunStep, TakesUp, RequestPersists, TicketArrives, BeginLoads,
       BeginPersists, CallsTool, CompleteLoads, CompletePersists, disk
  <2>2. \A k \in Process : list'[k] \subseteq list[k]
    <3>1. list' = list \/ Settles(i)
      BY <1>7 DEF RunStep, TakesUp, RequestPersists, TicketArrives, BeginLoads,
                  BeginPersists, CallsTool, CompleteLoads, CompletePersists
    <3>2. QED BY <1>0, <3>1 DEF Settles
  <2>3. QED BY <2>1, <2>2
<1>8. QED
  BY <1>1, <1>2, <1>3, <1>4, <1>5, <1>6, <1>7 DEF Next, vars, disk, memory, AgentAsks

-----------------------------------------------------------------------------
(* What follows for every behaviour.                                        *)

LEMMA SharedInvariant == ASSUME Assumed PROVE Spec => []SharedInv
<1>1. Init => SharedInv
  <2> SUFFICES ASSUME Init PROVE SharedInv
    OBVIOUS
  <2>1. RunsAreWhole
    BY DEF Init, RunsAreWhole, Idle
  <2>2. RowsGuard
    BY DEF Init, RowsGuard, RowGuards, Holds, Holding, Idle
  <2>3. LockIsSound
    BY DEF Init, LockIsSound, InLoop
  <2>4. QED BY <2>1, <2>2, <2>3, InitTypes DEF SharedInv
<1>2. SharedInv /\ [Next]_vars => SharedInv'
  BY TypeStep, RunsStep, RowsStep, LockStep DEF SharedInv
<1>3. QED BY <1>1, <1>2, PTL DEF Spec

\* Every reachable state is well typed.
THEOREM SharedTypes == ASSUME Assumed PROVE Spec => []TypeOK
<1>1. SharedInv => TypeOK
  BY DEF SharedInv
<1>2. QED BY <1>1, SharedInvariant, PTL

\* Whatever number of gateways share a data directory, with the lock or
\* without: unless two writes of the journal overlapped, no proposal is acted on
\* twice and every call is on record; and unless two of them raced for the
\* lock, no two running processes are in the loop.
THEOREM DirectoryShared == ASSUME Assumed PROVE Spec => []DirectoryIsShared
<1>1. SharedInv => OnceUnlessOverlapped /\ CallsAreOnRecord
  BY DEF SharedInv, RowsGuard, RowGuards, OnceUnlessOverlapped, CallsAreOnRecord
<1>2. SharedInv => RunningLoopsExclude
  BY DEF SharedInv, LockIsSound, RunningLoopsExclude
<1>3. QED BY <1>1, <1>2, SharedInvariant, PTL DEF DirectoryIsShared

-----------------------------------------------------------------------------
(* The launcher.                                                            *)

\* As long as no command got in another one's way, one shell at a time is in
\* the middle of something; a tree that runs is the login service's, somebody's
\* in the foreground, or in the PID file; and what a shell has in hand is what
\* the file says.
PidFileIsTrue ==
  ~crowded =>
    /\ \A s, t \in Shells : Busy(s) /\ Busy(t) => s = t
    /\ \A g \in Gens : Alive(g) /\ g # managed =>
         pidFile = g \/ \E s \in Shells : shell[s].at = "attached" /\ shell[s].gen = g
    /\ \A s \in Shells :
         /\ shell[s].at \in {"stopping", "await"} => pidFile = shell[s].gen
         /\ shell[s].at \in {"probe ui", "probe mcp", "again"} => pidFile = NoTree

LaunchInv == LaunchTypeOK /\ ChildrenFollow /\ PidFileIsTrue

\* LaunchTypeOK, of the trees and of the commands.
TreeTypes ==
  /\ top \in [Gens -> {"up", "dead"}]
  /\ child \in [Gens -> [Roles -> {"dead", "booting", "up", "closing"}]]
  /\ \A g \in Gens : child[g]["ui"] # "closing"
  /\ signalled \subseteq Gens \X {"top", "ui", "mcp"}
  /\ port \in [Roles -> Gens \union {NoTree}] /\ stranded \subseteq Gens
  /\ \A g \in Gens, r \in Roles : (port[r] = g) = (child[g][r] \in {"up", "closing"})

Named == {"start", "detach", "stop", "restart"}
States == [cmd : {"none"} \union Named,
           at : {"idle", "probe ui", "probe mcp", "attached", "await", "stopping", "again"},
           gen : Gens \union {NoTree}]
ShellTypes ==
  /\ pidFile \in Gens \union {NoTree} /\ managed \in Gens \union {NoTree}
  /\ service \in {"none", "enabled", "active"}
  /\ shell \in [Shells -> States]
  /\ \A s \in Shells : shell[s].at \in {"attached", "await", "stopping"} => shell[s].gen # NoTree

LEMMA LaunchTypesAre == LaunchTypeOK <=> TreeTypes /\ ShellTypes /\ crowded \in BOOLEAN
BY DEF LaunchTypeOK, TreeTypes, ShellTypes, States, Named

-----------------------------------------------------------------------------
(* One tree.                                                                *)

\* What the trees keep whatever moves: their types, and no child is left behind
\* by a supervisor that was not killed alone.
TreesAreSound == TreeTypes /\ ChildrenFollow

\* Nothing moves, or only more signals are on their way.
LEMMA TreesRest ==
  ASSUME TreesAreSound, UNCHANGED <<top, child, port, stranded>>, signalled \subseteq signalled',
         signalled' \subseteq Gens \X {"top", "ui", "mcp"}
  PROVE  TreesAreSound'
BY DEF TreesAreSound, TreeTypes, ChildrenFollow, Alive

\* One child of one tree changes and nothing else but its port and its signal.
LEMMA OneChildMoves ==
  ASSUME TreesAreSound, NEW g \in Gens, NEW r \in Roles, UNCHANGED <<top, stranded>>,
         NEW to \in {"dead", "booting", "up", "closing"},
         child' = [child EXCEPT ![g][r] = to],
         signalled' = signalled \/ signalled' = signalled \ {<<g, r>>},
         r = "ui" => to # "closing",
         port' \in [Roles -> Gens \union {NoTree}],
         \A q \in Roles \ {r} : port'[q] = port[q],
         \A h \in Gens \ {g} : (port'[r] = h) = (port[r] = h),
         (port'[r] = g) = (to \in {"up", "closing"}),
         to \in {"dead", "closing"} \/ (signalled' = signalled /\ child[g][r] \notin {"dead", "closing"})
  PROVE  TreesAreSound'
<1> USE DEF TreesAreSound, TreeTypes
<1>1. /\ child[g] \in [Roles -> {"dead", "booting", "up", "closing"}]
      /\ child' \in [Gens -> [Roles -> {"dead", "booting", "up", "closing"}]]
      /\ child'[g][r] = to
      /\ \A h \in Gens, q \in Roles : <<h, q>> # <<g, r>> => child'[h][q] = child[h][q]
  OBVIOUS
<1>2. \A h \in Gens : child'[h]["ui"] # "closing"
  BY <1>1 DEF Roles
<1>3. \A h \in Gens, q \in Roles : (port'[q] = h) = (child'[h][q] \in {"up", "closing"})
  BY <1>1
<1>4. ChildrenFollow'
  <2> SUFFICES ASSUME NEW h \in Gens \ stranded, NEW q \in Roles, ~Alive(h)'
               PROVE  child'[h][q] \in {"dead", "closing"} \/ <<h, q>> \in signalled'
    BY DEF ChildrenFollow
  <2>1. child[h][q] \in {"dead", "closing"} \/ <<h, q>> \in signalled
    BY DEF ChildrenFollow, Alive
  <2>2. CASE <<h, q>> = <<g, r>>
    BY <1>1, <2>1, <2>2
  <2>3. CASE <<h, q>> # <<g, r>>
    BY <1>1, <2>1, <2>3
  <2>4. QED BY <2>2, <2>3
<1>5. QED BY <1>1, <1>2, <1>3, <1>4

LEMMA ChildEndsSoundly ==
  ASSUME LauncherAssumption, TreesAreSound, NEW g \in Gens, NEW r \in Roles, UNCHANGED <<top, stranded>>,
         ChildEnds(g, r), signalled' = signalled \/ signalled' = signalled \ {<<g, r>>}
  PROVE  TreesAreSound'
<1>1. /\ port' \in [Roles -> Gens \union {NoTree}] /\ port'[r] # g
      /\ \A q \in Roles \ {r} : port'[q] = port[q]
      /\ \A h \in Gens \ {g} : (port'[r] = h) = (port[r] = h)
  BY DEF ChildEnds, TreesAreSound, TreeTypes, LauncherAssumption
<1>2. child' = [child EXCEPT ![g][r] = "dead"]
  BY DEF ChildEnds
<1>3. "dead" \in {"dead", "booting", "up", "closing"} /\ "dead" \notin {"up", "closing"}
      /\ "dead" \in {"dead", "closing"} /\ "dead" # "closing"
  OBVIOUS
<1>4. (port'[r] = g) = ("dead" \in {"up", "closing"})
  BY <1>1, <1>3
<1>5. QED BY <1>1, <1>2, <1>3, <1>4, OneChildMoves

\* A supervisor is killed, and its children stay as they are.
LEMMA TopKilledSoundly ==
  ASSUME TreesAreSound, NEW g \in Gens, KillTop(g)
  PROVE  TreesAreSound'
<1>1. /\ top' \in [Gens -> {"up", "dead"}] /\ signalled' \subseteq Gens \X {"top", "ui", "mcp"}
      /\ stranded' = stranded \union {g} /\ UNCHANGED <<child, port>>
      /\ \A h \in Gens \ {g} : top'[h] = top[h]
      /\ \A h \in Gens \ {g}, r \in Roles : <<h, r>> \in signalled => <<h, r>> \in signalled'
  BY DEF KillTop, TreesAreSound, TreeTypes
<1>2. TreeTypes'
  BY <1>1 DEF TreesAreSound, TreeTypes
<1>3. ChildrenFollow'
  BY <1>1 DEF TreesAreSound, ChildrenFollow, Alive
<1>4. QED BY <1>2, <1>3 DEF TreesAreSound

\* A tree starts, or starts over, in the place of one that has ended.
LEMMA LaunchSoundly ==
  ASSUME LauncherAssumption, TreesAreSound, NEW g \in Gens,
         (Launch(g) /\ Gone(g)) \/ (Relaunch(g) /\ Alive(g)) \/ KillTree(g)
  PROVE  TreesAreSound'
<1> USE DEF TreesAreSound, TreeTypes
<1>0. stranded' \subseteq stranded /\ stranded \ {g} \subseteq stranded'
  BY DEF Launch, Relaunch, KillTree
<1>1. PICK to \in {"booting", "dead"} : child' = [child EXCEPT ![g] = [r \in Roles |-> to]]
  BY DEF Launch, Relaunch, KillTree
<1>2. /\ child' \in [Gens -> [Roles -> {"dead", "booting", "up", "closing"}]]
      /\ \A r \in Roles : child'[g][r] = to
      /\ \A h \in Gens \ {g} : child'[h] = child[h]
  BY <1>1
<1>3. /\ signalled' = {x \in signalled : x[1] # g}
      /\ top' \in [Gens -> {"up", "dead"}]
      /\ \A h \in Gens \ {g} : top'[h] = top[h]
      /\ top'[g] = "up" \/ to = "dead"
  <2>1. CASE Launch(g) /\ Gone(g)
    BY <2>1 DEF Launch
  <2>2. CASE Relaunch(g) /\ Alive(g)
    BY <2>2 DEF Relaunch, Alive
  <2>3. CASE KillTree(g)
    <3>1. to = "dead"
      <4>1. "ui" \in Roles
        BY DEF Roles
      <4>2. child'[g]["ui"] = "dead"
        BY <2>3, <4>1 DEF KillTree
      <4>3. QED BY <1>2, <4>1, <4>2
    <3>2. QED BY <2>3, <3>1 DEF KillTree
  <2>4. QED BY <2>1, <2>2, <2>3
<1>4. /\ port' \in [Roles -> Gens \union {NoTree}]
      /\ \A r \in Roles : port'[r] # g /\ \A h \in Gens \ {g} : (port'[r] = h) = (port[r] = h)
  <2>1. CASE port' = PortsWithout(g)
    BY <2>1 DEF PortsWithout, LauncherAssumption
  <2>2. CASE Launch(g) /\ Gone(g)
    BY <2>2 DEF Launch, Gone
  <2>3. QED BY <2>1, <2>2 DEF Relaunch, KillTree
<1>5. \A h \in Gens, r \in Roles : (port'[r] = h) = (child'[h][r] \in {"up", "closing"})
  BY <1>2, <1>4
<1>6. \A h \in Gens : child'[h]["ui"] # "closing"
  BY <1>2 DEF Roles
<1>7. ChildrenFollow'
  <2> SUFFICES ASSUME NEW h \in Gens \ stranded', NEW r \in Roles, ~Alive(h)'
               PROVE  child'[h][r] \in {"dead", "closing"} \/ <<h, r>> \in signalled'
    BY DEF ChildrenFollow
  <2>1. CASE h = g
    BY <1>2, <1>3, <2>1 DEF Alive
  <2>2. CASE h # g
    <3>1. child[h][r] \in {"dead", "closing"} \/ <<h, r>> \in signalled
      BY <1>0, <1>3, <2>2 DEF ChildrenFollow, Alive
    <3>2. <<h, r>>[1] = h
      OBVIOUS
    <3>3. QED BY <1>2, <1>3, <2>2, <3>1, <3>2
  <2>3. QED BY <2>1, <2>2
<1>8. QED BY <1>0, <1>2, <1>3, <1>4, <1>5, <1>6, <1>7

\* The steps of a tree by itself.
LEMMA TreeStep ==
  ASSUME LauncherAssumption, TreesAreSound, NEW g \in Gens,
         Runs(g) \/ Shuts(g) \/ Falls(g)
  PROVE  TreesAreSound'
<1> USE DEF Roles
<1>1. ASSUME NEW r \in Roles, Listens(g, r) PROVE TreesAreSound'
  <2>1. CASE port[r] = NoTree
    <3>1. /\ child' = [child EXCEPT ![g][r] = "up"] /\ port' = [port EXCEPT ![r] = g]
          /\ child[g][r] = "booting" /\ signalled' = signalled /\ UNCHANGED <<top, stranded>>
      BY <1>1, <2>1 DEF Listens, Processes
    <3>2. /\ port' \in [Roles -> Gens \union {NoTree}] /\ port'[r] = g
          /\ \A q \in Roles \ {r} : port'[q] = port[q]
          /\ \A h \in Gens \ {g} : (port'[r] = h) = (port[r] = h)
      BY <2>1, <3>1 DEF TreesAreSound, TreeTypes, LauncherAssumption
    <3>3. "up" \in {"dead", "booting", "up", "closing"} /\ "up" \in {"up", "closing"}
          /\ "up" # "closing" /\ child[g][r] \notin {"dead", "closing"}
      BY <3>1
    <3>4. (port'[r] = g) = ("up" \in {"up", "closing"})
      BY <3>2, <3>3
    <3>5. r = "ui" => "up" # "closing"
      BY <3>3
    <3>6. QED BY <1>1, <3>1, <3>2, <3>3, <3>4, <3>5, OneChildMoves, Zenon
  <2>2. CASE port[r] # NoTree
    BY <1>1, <2>2, ChildEndsSoundly DEF Listens, Processes
  <2>3. QED BY <2>1, <2>2
<1>2. ASSUME NEW r \in Roles, Takes(g, r) PROVE TreesAreSound'
  <2>1. CASE r = "mcp" /\ child[g][r] \in {"up", "closing"}
    <3>1. /\ child' = [child EXCEPT ![g][r] = "closing"] /\ port' = port
          /\ signalled' = signalled \ {<<g, r>>} /\ UNCHANGED <<top, stranded>>
      BY <1>2, <2>1 DEF Takes, Processes
    <3>2. /\ port' \in [Roles -> Gens \union {NoTree}] /\ port'[r] = g
          /\ \A q \in Roles \ {r} : port'[q] = port[q]
          /\ \A h \in Gens \ {g} : (port'[r] = h) = (port[r] = h)
      BY <2>1, <3>1 DEF TreesAreSound, TreeTypes
    <3>3. "closing" \in {"dead", "booting", "up", "closing"} /\ "closing" \in {"up", "closing"}
          /\ r # "ui" /\ "closing" \in {"dead", "closing"}
      BY <2>1
    <3>4. (port'[r] = g) = ("closing" \in {"up", "closing"})
      BY <3>2, <3>3
    <3>5. QED BY <3>1, <3>2, <3>3, <3>4, OneChildMoves
  <2>2. CASE ~(r = "mcp" /\ child[g][r] \in {"up", "closing"})
    BY <1>2, <2>2, ChildEndsSoundly DEF Takes, Processes
  <2>3. QED BY <2>1, <2>2
<1>3. CASE ChildExits(g)
  <2>1. /\ top' = [top EXCEPT ![g] = "dead"] /\ UNCHANGED <<child, port, stranded>>
        /\ signalled' = signalled \union {<<g, r>> : r \in {q \in Roles : child[g][q] # "dead"}}
    BY <1>3 DEF ChildExits, Processes
  <2>2. top' \in [Gens -> {"up", "dead"}] /\ signalled' \subseteq Gens \X {"top", "ui", "mcp"}
    BY <2>1 DEF TreesAreSound, TreeTypes
  <2>3. ChildrenFollow'
    <3> SUFFICES ASSUME NEW h \in Gens \ stranded, NEW r \in Roles, ~Alive(h)'
                 PROVE  child'[h][r] \in {"dead", "closing"} \/ <<h, r>> \in signalled'
      BY <2>1 DEF ChildrenFollow
    <3>1. CASE h = g
      BY <2>1, <3>1
    <3>2. CASE h # g
      <4>1. ~Alive(h)
        BY <2>1, <3>2 DEF TreesAreSound, TreeTypes, Alive
      <4>2. QED BY <2>1, <4>1 DEF TreesAreSound, ChildrenFollow
    <3>3. QED BY <3>1, <3>2
  <2>4. QED BY <2>1, <2>2, <2>3 DEF TreesAreSound, TreeTypes
<1>4. CASE Forwards(g)
  <2>1. /\ UNCHANGED <<top, child, port, stranded>>
        /\ signalled' = (signalled \ {<<g, "top">>}) \union {<<g, r>> : r \in Roles}
    BY <1>4 DEF Forwards, Processes
  <2>2. signalled' \subseteq Gens \X {"top", "ui", "mcp"}
    BY <2>1 DEF TreesAreSound, TreeTypes
  <2>3. \A h \in Gens, r \in Roles : <<h, r>> \in signalled => <<h, r>> \in signalled'
    BY <2>1
  <2>4. ChildrenFollow'
    BY <2>1, <2>3 DEF TreesAreSound, ChildrenFollow, Alive
  <2>5. QED BY <2>1, <2>2, <2>4 DEF TreesAreSound, TreeTypes
<1>5. CASE Closes(g)
  BY <1>5, ChildEndsSoundly DEF Closes, Processes
<1>6. ASSUME NEW r \in Roles, ChildCrash(g, r) PROVE TreesAreSound'
  BY <1>6, ChildEndsSoundly DEF ChildCrash, Processes
<1>7. CASE SupervisorDies(g)
  BY <1>7, LaunchSoundly, TopKilledSoundly DEF SupervisorDies
<1>8. QED BY <1>1, <1>2, <1>3, <1>4, <1>5, <1>6, <1>7 DEF Runs, Shuts, Falls

\* Only signals to supervisors are added.
LEMMA SignalsSoundly ==
  ASSUME TreesAreSound, NEW g \in Gens, UNCHANGED <<top, child, port, stranded>>,
         signalled' = signalled \union {<<g, "top">>}
  PROVE  TreesAreSound'
<1>1. signalled' \subseteq Gens \X {"top", "ui", "mcp"}
  BY DEF TreesAreSound, TreeTypes
<1>2. QED BY <1>1, TreesRest

-----------------------------------------------------------------------------
(* The commands, the login service and the machine.                         *)

LEMMA FreeIsDead == ASSUME NEW g \in Free PROVE g \in Gens /\ Gone(g) /\ ~Alive(g)
BY DEF Free, Gone

\* What a shell does to the trees.
LEMMA ShellsMoveTrees ==
  ASSUME LauncherAssumption, TreesAreSound, ShellTypes, NEW s \in Shells,
         Steps(s) \/ Command(s) \/ Interrupt(s) \/ StopKills(s)
  PROVE  TreesAreSound'
<1>1. CASE UNCHANGED tree
  BY <1>1, TreesRest DEF tree, TreesAreSound, TreeTypes
<1>2. ASSUME NEW cmd, StopBegins(s, cmd), UNCHANGED <<top, child, port, stranded>>
      PROVE  TreesAreSound'
  <2>1. CASE PidAlive
    <3>1. pidFile \in Gens /\ signalled' = signalled \union {<<pidFile, "top">>}
      BY <1>2, <2>1 DEF StopBegins, PidAlive, ShellTypes
    <3>2. QED BY <1>2, <3>1, SignalsSoundly
  <2>2. CASE ~PidAlive
    BY <1>1, <1>2, <2>2 DEF StopBegins, tree
  <2>3. QED BY <2>1, <2>2
<1>3. CASE ProbeMcp(s)
  <2>1. ASSUME NEW g \in Free, Launch(g) PROVE TreesAreSound'
    <3>1. g \in Gens /\ Gone(g)
      BY FreeIsDead
    <3>2. QED BY <2>1, <3>1, LaunchSoundly
  <2>2. UNCHANGED tree \/ \E g \in Free : Launch(g)
    BY <1>3 DEF ProbeMcp, tree
  <2>3. QED BY <1>1, <2>1, <2>2
<1>4. CASE Interrupt(s)
  <2>1. shell[s].gen \in Gens
    BY <1>4 DEF Interrupt, ShellTypes, States
  <2>2. QED BY <1>4, <2>1, SignalsSoundly DEF Interrupt, Processes
<1>5. CASE StopKills(s)
  <2>1. shell[s].gen \in Gens
    BY <1>5 DEF StopKills, ShellTypes, States
  <2>2. QED BY <1>5, <2>1, LaunchSoundly, TopKilledSoundly DEF StopKills
<1>6. CASE Stop(s)
  BY <1>6, <1>2 DEF Stop
<1>7. CASE Restart(s)
  <2>1. CASE ServiceRunning
    <3>1. managed \in Gens /\ Alive(managed)
      BY <2>1 DEF ServiceRunning, ShellTypes
    <3>2. QED BY <1>1, <1>7, <2>1, <3>1, LaunchSoundly DEF Restart
  <2>2. CASE ~ServiceRunning
    BY <1>1, <1>2, <1>7, <2>2 DEF Restart, tree
  <2>3. QED BY <2>1, <2>2
<1>8. CASE \/ ProbeUi(s) \/ Serves(s) \/ NotServing(s) \/ Detached(s) \/ StopEnds(s)
           \/ StartAgain(s) \/ Install(s) \/ Uninstall(s) \/ \E cmd \in Commands : Start(s, cmd)
  BY <1>1, <1>8 DEF ProbeUi, Serves, NotServing, Detached, StopEnds, StartAgain,
     Install, Uninstall, Start, Untouched
<1>9. QED BY <1>3, <1>4, <1>5, <1>6, <1>7, <1>8 DEF Steps, Command

LEMMA TreesStep ==
  ASSUME LauncherAssumption, TreesAreSound, ShellTypes, [LaunchNext]_launchVars
  PROVE  TreesAreSound'
<1>1. CASE UNCHANGED launchVars
  BY <1>1, TreesRest DEF launchVars, tree, TreesAreSound, TreeTypes
<1>2. CASE ServiceLaunches
  <2>1. ASSUME NEW g \in Free, Launch(g) PROVE TreesAreSound'
    <3>1. g \in Gens /\ Gone(g)
      BY FreeIsDead
    <3>2. QED BY <2>1, <3>1, LaunchSoundly
  <2>2. QED BY <1>2, <2>1 DEF ServiceLaunches
<1>3. CASE Reboot
  <2>1. /\ top' = [g \in Gens |-> "dead"] /\ signalled' = {}
        /\ child' = [g \in Gens |-> [r \in Roles |-> "dead"]]
        /\ port' = [r \in Roles |-> NoTree] /\ stranded' = {}
    BY <1>3 DEF Reboot
  <2>3. \A g \in Gens, r \in Roles : child'[g][r] = "dead" /\ port'[r] # g
    BY <2>1 DEF LauncherAssumption
  <2>4. "ui" \in Roles
    BY DEF Roles
  <2>5. TreeTypes'
    BY <2>1, <2>3, <2>4 DEF TreeTypes
  <2>6. QED BY <2>3, <2>5 DEF TreesAreSound, ChildrenFollow
<1>4. QED BY <1>1, <1>2, <1>3, TreeStep, ShellsMoveTrees DEF LaunchNext


\* A shell is in the middle of something else, or back at its prompt.
Moves(s, to) == shell' = [shell EXCEPT ![s] = to]

LEMMA ShellMoves ==
  ASSUME ShellTypes, NEW s \in Shells, NEW to \in States, Moves(s, to),
         to.at \in {"attached", "await", "stopping"} => to.gen # NoTree,
         pidFile' \in Gens \union {NoTree}, managed' \in Gens \union {NoTree},
         service' \in {"none", "enabled", "active"}
  PROVE  ShellTypes' /\ shell'[s] = to /\ \A t \in Shells \ {s} : shell'[t] = shell[t]
BY DEF ShellTypes, Moves

LEMMA WaitingIsAState == Waiting \in States /\ Waiting.at = "idle" /\ Waiting.gen = NoTree
BY DEF Waiting, States

\* What each command makes of its shell.
LEMMA ShellTargets ==
  ASSUME LauncherAssumption, ShellTypes, NEW s \in Shells,
         Steps(s) \/ Command(s) \/ StopKills(s)
  PROVE  \E to \in States :
           /\ Moves(s, to) /\ (to.at \in {"attached", "await", "stopping"} => to.gen # NoTree)
           /\ pidFile' \in Gens \union {NoTree} /\ managed' = managed
           /\ service' \in {"none", "enabled", "active"}
<1> DEFINE Kept == \E to \in States :
              /\ Moves(s, to) /\ (to.at \in {"attached", "await", "stopping"} => to.gen # NoTree)
              /\ pidFile' \in Gens \union {NoTree} /\ managed' = managed
              /\ service' \in {"none", "enabled", "active"}
<1> SUFFICES Kept
  OBVIOUS
<1>1. /\ shell[s] \in States /\ shell[s].cmd \in {"none"} \union Named
      /\ shell[s].gen \in Gens \union {NoTree}
      /\ pidFile \in Gens \union {NoTree} /\ managed \in Gens \union {NoTree}
      /\ service \in {"none", "enabled", "active"}
  BY DEF ShellTypes, States
<1>2. ASSUME NEW what, NEW g, Says(s, what, g), pidFile' \in {pidFile, NoTree},
             managed' = managed, service' = service
      PROVE  Kept
  BY <1>1, <1>2, WaitingIsAState DEF Says, Moves, Kept
<1>3. ASSUME NEW cmd \in {"none"} \union Named, NEW at, NEW g \in Gens \union {NoTree},
             at \in {"probe ui", "probe mcp", "attached", "await", "stopping", "again"},
             at \in {"attached", "await", "stopping"} => g # NoTree,
             ShellGoes(s, cmd, at, g), pidFile' \in {pidFile, NoTree, g},
             managed' = managed, service' = service
      PROVE  Kept
  <2> DEFINE to == [cmd |-> cmd, at |-> at, gen |-> g]
  <2>1. to \in States /\ to.at = at /\ to.gen = g
    BY <1>3 DEF States
  <2>2. Moves(s, to)
    BY <1>3 DEF ShellGoes, Moves
  <2>3. /\ pidFile' \in Gens \union {NoTree} /\ managed' = managed
        /\ service' \in {"none", "enabled", "active"}
    BY <1>1, <1>3
  <2> HIDE DEF to
  <2>4. QED BY <1>3, <2>1, <2>2, <2>3
<1> HIDE DEF Kept
<1>0. /\ UNCHANGED login => managed' = managed /\ service' = service
      /\ Untouched => managed' = managed /\ service' = service
  BY DEF Untouched, login
<1>4. ASSUME NEW cmd \in Named, StartBegins(s, cmd), UNCHANGED login PROVE Kept
  <2>1. CASE PidAlive
    <3>1. Says(s, "already running", pidFile) /\ pidFile' \in {pidFile, NoTree}
      BY <1>4, <2>1 DEF StartBegins
    <3>2. QED BY <1>0, <1>2, <1>4, <3>1
  <2>2. CASE ~PidAlive
    <3>1. ShellGoes(s, cmd, "probe ui", NoTree) /\ pidFile' \in {pidFile, NoTree}
      BY <1>4, <2>2 DEF StartBegins
    <3>2. QED BY <1>0, <1>3, <1>4, <3>1
  <2>3. QED BY <2>1, <2>2
<1>5. ASSUME NEW cmd \in Named, StopBegins(s, cmd), UNCHANGED login PROVE Kept
  <2>1. CASE PidAlive
    <3>1. /\ pidFile \in Gens /\ pidFile # NoTree /\ pidFile' = pidFile
          /\ ShellGoes(s, cmd, "stopping", pidFile)
      BY <1>1, <1>5, <2>1 DEF StopBegins, PidAlive
    <3>2. QED BY <1>0, <1>3, <1>5, <3>1
  <2>2. CASE ~PidAlive
    <3>1. PICK what : Says(s, what, NoTree)
      BY <1>5, <2>2 DEF StopBegins
    <3>2. pidFile' \in {pidFile, NoTree}
      BY <1>5, <2>2 DEF StopBegins
    <3>3. QED BY <1>0, <1>2, <1>5, <3>1, <3>2
  <2>3. QED BY <2>1, <2>2
<1>6. CASE ProbeUi(s)
  <2>1. pidFile' \in {pidFile, NoTree} /\ Untouched
    BY <1>6 DEF ProbeUi
  <2>2. \/ Says(s, "in use", NoTree)
        \/ ShellGoes(s, shell[s].cmd, "probe mcp", NoTree)
    BY <1>6 DEF ProbeUi
  <2>3. QED BY <1>0, <1>1, <1>2, <1>3, <2>1, <2>2
<1>7. CASE ProbeMcp(s)
  <2>1. CASE port.mcp # NoTree
    <3>1. Says(s, "in use", NoTree) /\ UNCHANGED login
      BY <1>7, <2>1 DEF ProbeMcp
    <3>2. pidFile' \in {pidFile, NoTree}
      BY <1>7, <2>1 DEF ProbeMcp
    <3>3. QED BY <1>0, <1>2, <3>1, <3>2
  <2>2. CASE ~(port.mcp # NoTree)
    <3>1. PICK g \in Free, to \in {"attached", "await"} :
             ShellGoes(s, shell[s].cmd, to, g) /\ pidFile' \in {pidFile, g}
      BY <1>7, <2>2 DEF ProbeMcp
    <3>2. g \in Gens /\ g # NoTree
      BY FreeIsDead DEF LauncherAssumption
    <3>3. UNCHANGED login
      BY <1>7 DEF ProbeMcp
    <3>4. QED BY <1>0, <1>1, <1>3, <3>1, <3>2, <3>3
  <2>3. QED BY <2>1, <2>2
<1>8. CASE Serves(s) \/ NotServing(s) \/ Detached(s)
  <2>1. pidFile' \in {pidFile, NoTree} /\ Untouched
    BY <1>8 DEF Serves, NotServing, Detached
  <2>2. PICK what : Says(s, what, shell[s].gen)
    BY <1>8 DEF Serves, NotServing, Detached
  <2>3. QED BY <1>0, <1>2, <2>1, <2>2
<1>9. CASE StopEnds(s) \/ StopKills(s)
  <2>1. Stopped(s) /\ pidFile' = NoTree /\ managed' = managed /\ service' = service
    BY <1>0, <1>9 DEF StopEnds, StopKills
  <2>2. CASE shell[s].cmd = "restart"
    <3>1. "restart" \in {"none"} \union Named
      BY DEF Named
    <3>2. ShellGoes(s, "restart", "again", NoTree)
      BY <2>1, <2>2 DEF Stopped
    <3>3. QED BY <1>3, <2>1, <3>1, <3>2
  <2>3. CASE shell[s].cmd # "restart"
    <3>1. Says(s, "stopped", shell[s].gen)
      BY <2>1, <2>3 DEF Stopped
    <3>2. QED BY <1>2, <2>1, <3>1
  <2>4. QED BY <2>2, <2>3
<1>10. CASE StartAgain(s)
  <2>1. StartBegins(s, "restart") /\ UNCHANGED login /\ "restart" \in Named
    BY <1>10 DEF StartAgain, Untouched, login, Named
  <2>2. QED BY <1>4, <2>1
<1>11. ASSUME NEW cmd \in Commands, Start(s, cmd) PROVE Kept
  <2>1. StartBegins(s, cmd) /\ UNCHANGED login /\ cmd \in Named
    BY <1>11 DEF Start, Untouched, login, Named
  <2>2. QED BY <1>4, <2>1
<1>12. CASE Stop(s)
  <2>1. StopBegins(s, "stop") /\ UNCHANGED login /\ "stop" \in Named
    BY <1>12 DEF Stop, Named, login
  <2>2. QED BY <1>5, <2>1
<1>13. CASE Restart(s)
  <2>1. UNCHANGED login /\ "restart" \in Named
    BY <1>13 DEF Restart, Named
  <2>2. CASE ServiceRunning
    <3>1. Says(s, "restarted", managed) /\ pidFile' \in {pidFile, NoTree}
      BY <1>13, <2>2 DEF Restart
    <3>2. QED BY <1>0, <1>2, <2>1, <3>1
  <2>3. CASE ~ServiceRunning
    <3>1. StopBegins(s, "restart") \/ StartBegins(s, "restart")
      BY <1>13, <2>3 DEF Restart
    <3>2. QED BY <1>4, <1>5, <2>1, <3>1
  <2>4. QED BY <2>2, <2>3
<1>14. CASE Install(s) \/ Uninstall(s)
  <2>1. /\ pidFile' \in {pidFile, NoTree} /\ managed' = managed
        /\ service' \in {"none", "enabled", "active"} /\ Moves(s, Waiting)
    BY <1>14 DEF Install, Uninstall, Says, Moves
  <2>2. QED BY <1>1, <2>1, WaitingIsAState DEF Kept
<1>15. QED
  BY <1>6, <1>7, <1>8, <1>9, <1>10, <1>11, <1>12, <1>13, <1>14 DEF Steps, Command


LEMMA ShellsStep ==
  ASSUME LauncherAssumption, ShellTypes, [LaunchNext]_launchVars
  PROVE  ShellTypes'
<1>1. CASE UNCHANGED <<pidFile, login, shell>>
  BY <1>1 DEF ShellTypes, login
<1>2. ASSUME NEW s \in Shells, Steps(s) \/ Command(s) \/ StopKills(s) PROVE ShellTypes'
  <2>1. PICK to \in States :
          /\ Moves(s, to) /\ (to.at \in {"attached", "await", "stopping"} => to.gen # NoTree)
          /\ pidFile' \in Gens \union {NoTree} /\ managed' = managed
          /\ service' \in {"none", "enabled", "active"}
    BY <1>2, ShellTargets
  <2>2. managed' \in Gens \union {NoTree}
    BY <2>1 DEF ShellTypes
  <2>3. QED BY <2>1, <2>2, ShellMoves
<1>3. CASE ServiceLaunches
  <2>1. managed' \in Gens /\ UNCHANGED <<pidFile, service, shell>>
    BY <1>3, FreeIsDead DEF ServiceLaunches
  <2>2. QED BY <2>1 DEF ShellTypes
<1>4. CASE Reboot
  <2>1. /\ pidFile' = pidFile /\ managed' = NoTree /\ service' \in {service, "active"}
        /\ shell' = [s \in Shells |-> Waiting]
    BY <1>4 DEF Reboot
  <2>2. QED BY <2>1, WaitingIsAState DEF ShellTypes
<1>5. ASSUME NEW g \in Gens, Runs(g) \/ Shuts(g) \/ Falls(g)
      PROVE  UNCHANGED <<pidFile, login, shell>>
  BY <1>5 DEF Runs, Shuts, Falls, Listens, Takes, ChildExits, Forwards, Closes, ChildCrash,
      SupervisorDies, Processes
<1>6. ASSUME NEW s \in Shells, Interrupt(s) PROVE UNCHANGED <<pidFile, login, shell>>
  BY <1>6 DEF Interrupt, Processes
<1>7. QED
  BY <1>1, <1>2, <1>3, <1>4, <1>5, <1>6 DEF LaunchNext, launchVars

LEMMA CrowdedStep == ASSUME crowded \in BOOLEAN, [LaunchNext]_launchVars PROVE crowded' \in BOOLEAN
<1>1. ASSUME NEW s \in Shells, NotServing(s) PROVE crowded' \in BOOLEAN
  BY <1>1, Zenon DEF NotServing
<1>2. ASSUME NEW s \in Shells, NEW cmd, Given(s, cmd) PROVE crowded' \in BOOLEAN
  BY <1>2, Zenon DEF Given
<1>3. ASSUME NEW s \in Shells, Command(s) PROVE crowded' \in BOOLEAN
  BY <1>2, <1>3, Zenon DEF Command, Start, Stop, Restart, Install, Uninstall
<1>4. CASE UNCHANGED crowded
  BY <1>4, Zenon
<1>5. ASSUME NEW s \in Shells, Steps(s) \/ Interrupt(s) \/ StopKills(s), ~NotServing(s)
      PROVE  UNCHANGED crowded
  BY <1>5 DEF Steps, ProbeUi, ProbeMcp, Serves, Detached, StopEnds, StartAgain,
     Interrupt, StopKills, Processes
<1>6. ASSUME NEW g \in Gens, Runs(g) \/ Shuts(g) \/ Falls(g)
      PROVE  UNCHANGED crowded
  BY <1>6 DEF Runs, Shuts, Falls, Listens, Takes, ChildExits, Forwards, Closes, ChildCrash,
      SupervisorDies, Processes
<1>7. ServiceLaunches \/ Reboot \/ UNCHANGED launchVars => UNCHANGED crowded
  BY DEF ServiceLaunches, Reboot, launchVars
<1>8. QED BY <1>1, <1>3, <1>4, <1>5, <1>6, <1>7, Zenon DEF LaunchNext


-----------------------------------------------------------------------------
(* The PID file.                                                            *)

\* What PidFileIsTrue says while nothing is crowded.
Quiet ==
  /\ \A s, t \in Shells : Busy(s) /\ Busy(t) => s = t
  /\ \A g \in Gens : Alive(g) /\ g # managed =>
       pidFile = g \/ \E s \in Shells : shell[s].at = "attached" /\ shell[s].gen = g
  /\ \A s \in Shells :
       /\ shell[s].at \in {"stopping", "await"} => pidFile = shell[s].gen
       /\ shell[s].at \in {"probe ui", "probe mcp", "again"} => pidFile = NoTree

InTheForeground(g, S) == \E s \in S : shell[s].at = "attached" /\ shell[s].gen = g

\* A tree that still runs was running before: nothing to tell the file.
LEMMA QuietWithoutNews ==
  ASSUME Quiet, UNCHANGED <<pidFile, managed, shell>>, \A g \in Gens : Alive(g)' => Alive(g)
  PROVE  Quiet'
BY DEF Quiet, Busy

\* One shell moves, and with it the PID file.
LEMMA QuietMove ==
  ASSUME ShellTypes, Quiet, NEW s \in Shells, NEW to \in States, Moves(s, to),
         to.at \in {"idle", "attached"} \/ Busy(s) \/ \A t \in Shells : ~Busy(t),
         \A g \in Gens : Alive(g)' /\ g # managed' =>
            pidFile' = g \/ (to.at = "attached" /\ to.gen = g) \/ InTheForeground(g, Shells \ {s}),
         to.at \in {"stopping", "await"} => pidFile' = to.gen,
         to.at \in {"probe ui", "probe mcp", "again"} => pidFile' = NoTree,
         pidFile' = pidFile \/ \A t \in Shells \ {s} : ~Busy(t)
  PROVE  Quiet'
<1>1. /\ shell \in [Shells -> States] /\ shell'[s] = to
      /\ \A t \in Shells \ {s} : shell'[t] = shell[t]
  BY DEF ShellTypes, Moves
<1>2. \A a, b \in Shells : Busy(a)' /\ Busy(b)' => a = b
  <2>1. \A t \in Shells \ {s} : Busy(t)' <=> Busy(t)
    BY <1>1 DEF Busy
  <2>2. Busy(s)' => to.at \notin {"idle", "attached"}
    BY <1>1 DEF Busy
  <2>3. QED BY <2>1, <2>2 DEF Quiet
<1>3. \A g \in Gens : Alive(g)' /\ g # managed' =>
        pidFile' = g \/ \E t \in Shells : shell'[t].at = "attached" /\ shell'[t].gen = g
  BY <1>1 DEF InTheForeground
<1>4. ASSUME NEW t \in Shells
      PROVE  /\ shell'[t].at \in {"stopping", "await"} => pidFile' = shell'[t].gen
             /\ shell'[t].at \in {"probe ui", "probe mcp", "again"} => pidFile' = NoTree
  <2>1. CASE t = s
    BY <1>1, <2>1
  <2>2. CASE t # s /\ pidFile' = pidFile
    BY <1>1, <2>2 DEF Quiet
  <2>3. CASE t # s /\ ~Busy(t)
    BY <1>1, <2>3 DEF Busy
  <2>4. QED BY <2>1, <2>2, <2>3
<1>5. QED BY <1>2, <1>3, <1>4 DEF Quiet

\* Whoever is not in the foreground itself finds what runs in the PID file, in
\* somebody else's foreground or with the login service.
LEMMA QuietSeen ==
  ASSUME Quiet, NEW s \in Shells, NEW g \in Gens, Alive(g), g # managed,
         shell[s].at # "attached" \/ shell[s].gen # g
  PROVE  pidFile = g \/ InTheForeground(g, Shells \ {s})
BY DEF Quiet, InTheForeground

\* A command is given when nobody else is in the middle of one.
LEMMA GivenAlone ==
  ASSUME NEW s \in Shells, NEW cmd, Given(s, cmd), ~crowded'
  PROVE  ~crowded /\ (\A t \in Shells : ~Busy(t)) /\ shell[s].at = "idle"
<1>1. ~crowded /\ \A t \in Shells : ~Busy(t)
  BY Zenon DEF Given
<1>2. QED BY <1>1, WaitingIsAState DEF Given

\* start and stop, when nobody else is in the middle of a command.
LEMMA QuietBegins ==
  ASSUME LauncherAssumption, ShellTypes, Quiet, NEW s \in Shells, NEW cmd \in Named,
         shell[s].at # "attached", \A t \in Shells \ {s} : ~Busy(t),
         Busy(s) \/ \A t \in Shells : ~Busy(t),
         UNCHANGED top, UNCHANGED managed, StartBegins(s, cmd) \/ StopBegins(s, cmd)
  PROVE  Quiet'
<1>1. \A g \in Gens : Alive(g)' <=> Alive(g)
  BY DEF Alive
<1>2. \A g \in Gens : Alive(g)' /\ g # managed' => pidFile = g \/ InTheForeground(g, Shells \ {s})
  BY <1>1, QuietSeen
<1>3. CASE PidAlive
  <2>1. PICK to \in States : /\ Moves(s, to) /\ pidFile' = pidFile
                             /\ to.at = "idle" \/ (to.at = "stopping" /\ to.gen = pidFile)
    <3>1. CASE StartBegins(s, cmd)
      BY <1>3, <3>1, WaitingIsAState DEF StartBegins, Says, Moves
    <3>2. CASE StopBegins(s, cmd)
      <4> DEFINE to == [cmd |-> cmd, at |-> "stopping", gen |-> pidFile]
      <4>1. to \in States
        BY DEF States, ShellTypes
      <4>2. Moves(s, to) /\ pidFile' = pidFile
        BY <1>3, <3>2 DEF StopBegins, ShellGoes, Moves
      <4>3. QED BY <4>1, <4>2
    <3>3. QED BY <3>1, <3>2
  <2>2. QED BY <1>2, <2>1, QuietMove
<1>4. CASE ~PidAlive
  <2>1. PICK to \in States : /\ Moves(s, to) /\ pidFile' = NoTree
                             /\ to.at \in {"idle", "probe ui"}
    <3>1. CASE StartBegins(s, cmd)
      <4> DEFINE to == [cmd |-> cmd, at |-> "probe ui", gen |-> NoTree]
      <4>1. to \in States
        BY DEF States
      <4>2. Moves(s, to) /\ pidFile' = NoTree
        BY <1>4, <3>1 DEF StartBegins, ShellGoes, Moves
      <4>3. QED BY <4>1, <4>2
    <3>2. CASE StopBegins(s, cmd)
      BY <1>4, <3>2, WaitingIsAState DEF StopBegins, Says, Moves
    <3>3. QED BY <3>1, <3>2
  <2>2. \A g \in Gens : Alive(g)' /\ g # managed' => InTheForeground(g, Shells \ {s})
    BY <1>1, <1>2, <1>4 DEF PidAlive, LauncherAssumption
  <2>3. QED BY <2>1, <2>2, QuietMove
<1>5. QED BY <1>3, <1>4


\* Back at its prompt, with what runs where it was.
LEMMA QuietReturns ==
  ASSUME ShellTypes, Quiet, NEW s \in Shells, Moves(s, Waiting),
         \A t \in Shells \ {s} : ~Busy(t) \/ pidFile' = pidFile, UNCHANGED managed,
         \A g \in Gens : Alive(g)' => Alive(g),
         \A g \in Gens : Alive(g)' /\ pidFile = g => pidFile' = g,
         shell[s].at = "attached" => ~Alive(shell[s].gen)
  PROVE  Quiet'
<1>1. \A g \in Gens : Alive(g)' /\ g # managed' => pidFile' = g \/ InTheForeground(g, Shells \ {s})
  BY QuietSeen
<1>2. QED BY <1>1, WaitingIsAState, QuietMove

\* What a shell that is in the middle of a command does next.
LEMMA QuietSteps ==
  ASSUME LauncherAssumption, TreeTypes, ShellTypes, Quiet, NEW s \in Shells, ~crowded',
         ~crowded, Steps(s) \/ StopKills(s)
  PROVE  Quiet'
<1> USE WaitingIsAState
<1>1. shell[s] \in States /\ shell[s].gen \in Gens \union {NoTree}
  BY DEF ShellTypes, States
<1>2. Busy(s) => \A t \in Shells \ {s} : ~Busy(t)
  BY DEF Quiet
<1>3. Untouched => (\A g \in Gens : Alive(g)' <=> Alive(g)) /\ UNCHANGED managed /\ UNCHANGED top
  BY DEF Untouched, tree, login, Alive
<1>4. ASSUME NEW what, NEW g, Says(s, what, g) PROVE Moves(s, Waiting)
  BY <1>4 DEF Says, Moves
<1>5. CASE ProbeUi(s)
  <2>1. Busy(s) /\ pidFile = NoTree /\ pidFile' = NoTree /\ Untouched /\ shell[s].at # "attached"
    BY <1>5 DEF ProbeUi, Busy, Quiet
  <2>2. CASE port.ui # NoTree
    <3>1. Says(s, "in use", NoTree)
      BY <1>5, <2>2 DEF ProbeUi
    <3>2. QED BY <1>2, <1>3, <1>4, <2>1, <3>1, QuietReturns
  <2>3. CASE port.ui = NoTree
    <3> DEFINE to == [cmd |-> shell[s].cmd, at |-> "probe mcp", gen |-> NoTree]
    <3>1. to \in States /\ to.at = "probe mcp"
      BY <1>1 DEF States
    <3>2. Moves(s, to)
      BY <1>5, <2>3 DEF ProbeUi, ShellGoes, Moves
    <3>3. \A g \in Gens : Alive(g)' /\ g # managed' => pidFile' = g \/ InTheForeground(g, Shells \ {s})
      BY <1>3, <2>1, QuietSeen
    <3> HIDE DEF to
    <3>4. QED BY <1>2, <2>1, <3>1, <3>2, <3>3, QuietMove
  <2>4. QED BY <2>2, <2>3
<1>6. CASE ProbeMcp(s)
  <2>1. Busy(s) /\ pidFile = NoTree /\ shell[s].at # "attached" /\ UNCHANGED managed
    BY <1>6 DEF ProbeMcp, Busy, Quiet, login
  <2>2. CASE port.mcp # NoTree
    <3>1. Says(s, "in use", NoTree) /\ UNCHANGED <<top, pidFile>>
      BY <1>6, <2>2 DEF ProbeMcp, tree
    <3>2. \A g \in Gens : Alive(g)' <=> Alive(g)
      BY <3>1 DEF Alive
    <3>3. QED BY <1>2, <1>4, <2>1, <3>1, <3>2, QuietReturns
  <2>3. CASE ~(port.mcp # NoTree)
    <3>1. PICK g \in Free :
            /\ Launch(g)
            /\ \/ ShellGoes(s, shell[s].cmd, "attached", g) /\ pidFile' = pidFile
               \/ ShellGoes(s, shell[s].cmd, "await", g) /\ pidFile' = g
      BY <1>6, <2>3 DEF ProbeMcp
    <3>2. PICK at \in {"attached", "await"} : /\ ShellGoes(s, shell[s].cmd, at, g)
                                              /\ at = "await" => pidFile' = g
                                              /\ at = "attached" => pidFile' = pidFile
      BY <3>1
    <3>3. g \in Gens
      BY FreeIsDead
    <3> DEFINE to == [cmd |-> shell[s].cmd, at |-> at, gen |-> g]
    <3>4. to \in States /\ to.at = at /\ to.gen = g
      BY <1>1, <3>3 DEF States
    <3>5. Moves(s, to)
      BY <3>2 DEF ShellGoes, Moves
    <3>6. \A h \in Gens \ {g} : Alive(h)' => Alive(h)
      BY <3>1 DEF Launch, Alive
    <3> HIDE DEF to
    <3>7. ASSUME NEW h \in Gens, Alive(h)', h # managed'
          PROVE  pidFile' = h \/ (to.at = "attached" /\ to.gen = h)
                   \/ InTheForeground(h, Shells \ {s})
      <4>1. CASE h = g
        BY <3>2, <3>4, <4>1
      <4>2. CASE h # g
        <5>1. pidFile = h \/ InTheForeground(h, Shells \ {s})
          BY <2>1, <3>6, <3>7, <4>2, QuietSeen
        <5>2. pidFile # h
          BY <2>1 DEF LauncherAssumption
        <5>3. QED BY <5>1, <5>2
      <4>3. QED BY <4>1, <4>2
    <3>8. QED BY <1>2, <2>1, <3>2, <3>4, <3>5, <3>7, QuietMove
  <2>4. QED BY <2>2, <2>3
<1>7. CASE Serves(s)
  <2>1. Says(s, "started", shell[s].gen) /\ Untouched /\ UNCHANGED pidFile /\ shell[s].at # "attached"
    BY <1>7 DEF Serves
  <2>2. QED BY <1>3, <1>4, <2>1, QuietReturns
<1>8. CASE NotServing(s)
  <2>1. /\ Says(s, "failed", shell[s].gen) /\ Untouched /\ Busy(s) /\ pidFile = shell[s].gen
        /\ shell[s].at # "attached"
    BY <1>8 DEF NotServing, Busy, Quiet
  <2>2. ~Alive(shell[s].gen)
    BY <1>8, Zenon DEF NotServing
  <2>3. QED BY <1>2, <1>3, <1>4, <2>1, <2>2, QuietReturns
<1>9. CASE Detached(s)
  <2>1. /\ Says(s, "ended", shell[s].gen) /\ Untouched /\ UNCHANGED pidFile
        /\ ~Alive(shell[s].gen)
    BY <1>9 DEF Detached
  <2>2. QED BY <1>3, <1>4, <2>1, QuietReturns
<1>10. CASE StopEnds(s) \/ StopKills(s)
  <2>1. /\ shell[s].at = "stopping" /\ Busy(s) /\ pidFile = shell[s].gen /\ Stopped(s)
        /\ pidFile' = NoTree /\ pidFile \in Gens
    BY <1>1, <1>10 DEF StopEnds, StopKills, Busy, Quiet, ShellTypes
  <2>2. /\ UNCHANGED managed
        /\ \A g \in Gens : Alive(g)' => Alive(g) /\ g # pidFile
    <3>1. CASE StopEnds(s)
      BY <1>3, <2>1, <3>1 DEF StopEnds
    <3>2. CASE StopKills(s)
      <4>1. top' = [top EXCEPT ![pidFile] = "dead"]
        BY <2>1, <3>2 DEF StopKills, KillTree, KillTop
      <4>2. \A g \in Gens : Alive(g)' => Alive(g) /\ g # pidFile
        BY <4>1 DEF Alive, TreeTypes
      <4>3. QED BY <3>2, <4>2 DEF StopKills, login
    <3>3. QED BY <1>10, <3>1, <3>2
  <2>3. PICK to \in States : Moves(s, to) /\ to.at \in {"idle", "again"}
    <3>1. CASE shell[s].cmd = "restart"
      <4> DEFINE to == [cmd |-> "restart", at |-> "again", gen |-> NoTree]
      <4>1. to \in States
        BY DEF States, Named
      <4>2. Moves(s, to)
        BY <2>1, <3>1 DEF Stopped, ShellGoes, Moves
      <4>3. QED BY <4>1, <4>2
    <3>2. CASE shell[s].cmd # "restart"
      BY <2>1, <3>2 DEF Stopped, Says, Moves
    <3>3. QED BY <3>1, <3>2
  <2>4. \A g \in Gens : Alive(g)' /\ g # managed' => InTheForeground(g, Shells \ {s})
    BY <2>1, <2>2, QuietSeen
  <2>5. QED BY <1>2, <2>1, <2>3, <2>4, QuietMove
<1>11. CASE StartAgain(s)
  <2>1. StartBegins(s, "restart") /\ Untouched /\ Busy(s) /\ shell[s].at # "attached"
    BY <1>11 DEF StartAgain, Busy
  <2>2. "restart" \in Named
    BY DEF Named
  <2>3. QED BY <1>2, <1>3, <2>1, <2>2, QuietBegins
<1>12. QED BY <1>5, <1>6, <1>7, <1>8, <1>9, <1>10, <1>11 DEF Steps

\* A command that is given when nobody is in the middle of another one.
LEMMA QuietCommands ==
  ASSUME LauncherAssumption, ShellTypes, Quiet, NEW s \in Shells, ~crowded', Command(s)
  PROVE  Quiet'
<1> USE WaitingIsAState
<1>1. PICK cmd : Given(s, cmd)
  BY DEF Command, Start, Stop, Restart, Install, Uninstall
<1>2. /\ \A t \in Shells : ~Busy(t)
      /\ shell[s].at = "idle"
  BY <1>1, GivenAlone
<1>3. ASSUME UNCHANGED top, UNCHANGED managed, NEW c \in Named, StartBegins(s, c) \/ StopBegins(s, c)
      PROVE  Quiet'
  BY <1>2, <1>3, QuietBegins
<1>4. ASSUME NEW what, NEW g, Says(s, what, g), UNCHANGED top, UNCHANGED managed,
             \A h \in Gens : Alive(h) /\ pidFile = h => pidFile' = h
      PROVE  Quiet'
  <2>1. Moves(s, Waiting)
    BY <1>4 DEF Says, Moves
  <2>2. \A h \in Gens : Alive(h)' <=> Alive(h)
    BY <1>4 DEF Alive
  <2>3. QED BY <1>2, <1>4, <2>1, <2>2, QuietReturns
<1>5. ASSUME NEW c \in Commands, Start(s, c) PROVE Quiet'
  <2>1. StartBegins(s, c) /\ UNCHANGED top /\ UNCHANGED managed /\ c \in Named
    BY <1>5 DEF Start, Untouched, tree, login, Named
  <2>2. QED BY <1>3, <2>1
<1>6. CASE Stop(s)
  <2>1. StopBegins(s, "stop") /\ UNCHANGED top /\ UNCHANGED managed /\ "stop" \in Named
    BY <1>6 DEF Stop, login, Named
  <2>2. QED BY <1>3, <2>1
<1>7. CASE Restart(s)
  <2>1. UNCHANGED managed /\ "restart" \in Named
    BY <1>7 DEF Restart, login, Named
  <2>2. CASE ServiceRunning
    <3>1. UNCHANGED top
      BY <1>7, <2>2 DEF Restart, Relaunch, tree
    <3>2. Says(s, "restarted", managed) /\ UNCHANGED pidFile
      BY <1>7, <2>2 DEF Restart
    <3>3. QED BY <1>4, <2>1, <3>1, <3>2
  <2>3. CASE ~ServiceRunning
    <3>1. UNCHANGED top /\ (StartBegins(s, "restart") \/ StopBegins(s, "restart"))
      BY <1>7, <2>3 DEF Restart
    <3>2. QED BY <1>3, <2>1, <3>1
  <2>4. QED BY <2>2, <2>3
<1>8. CASE Install(s)
  <2>1. Says(s, "installed", NoTree) /\ UNCHANGED top /\ UNCHANGED managed
    BY <1>8 DEF Install, tree
  <2>2. \A h \in Gens : Alive(h) /\ pidFile = h => pidFile' = h
    BY <1>8 DEF Install, PidAlive, LauncherAssumption
  <2>3. QED BY <1>4, <2>1, <2>2
<1>9. CASE Uninstall(s)
  <2>1. Says(s, "removed", NoTree) /\ UNCHANGED top /\ UNCHANGED managed /\ UNCHANGED pidFile
    BY <1>9 DEF Uninstall, tree
  <2>2. QED BY <1>4, <2>1
<1>10. QED BY <1>5, <1>6, <1>7, <1>8, <1>9 DEF Command

LEMMA QuietStep ==
  ASSUME LauncherAssumption, TreeTypes, ShellTypes, PidFileIsTrue, [LaunchNext]_launchVars
  PROVE  PidFileIsTrue'
<1>1. PidFileIsTrue <=> (~crowded => Quiet)
  BY Zenon DEF PidFileIsTrue, Quiet
<1>2. PidFileIsTrue' <=> (~crowded' => Quiet')
  BY Zenon DEF PidFileIsTrue, Quiet
<1> SUFFICES ASSUME ~crowded' PROVE Quiet'
  BY <1>2
<1>3. ASSUME NEW g \in Gens, Runs(g) \/ Shuts(g) \/ Falls(g)
      PROVE  Quiet'
  <2>1. UNCHANGED <<pidFile, login, shell, crowded>>
    BY <1>3 DEF Runs, Shuts, Falls, Listens, Takes, ChildExits, Forwards, Closes, ChildCrash,
        SupervisorDies, Processes
  <2>2. top' = top \/ top' = [top EXCEPT ![g] = "dead"]
    BY <1>3 DEF Runs, Shuts, Falls, Listens, Takes, ChildExits, Forwards, Closes, ChildCrash,
        SupervisorDies, KillTree, KillTop
  <2>3. \A h \in Gens : Alive(h)' => Alive(h)
    BY <2>2 DEF Alive, TreeTypes
  <2>4. UNCHANGED <<pidFile, managed, shell>>
    BY <2>1 DEF login
  <2>5. Quiet
    BY <1>1, <2>1
  <2>6. QED BY <2>3, <2>4, <2>5, QuietWithoutNews
<1>4. ASSUME NEW s \in Shells, Interrupt(s) PROVE Quiet'
  <2>1. UNCHANGED <<pidFile, managed, shell, crowded>> /\ \A h \in Gens : Alive(h)' => Alive(h)
    BY <1>4 DEF Interrupt, Processes, login, Alive
  <2>2. QED BY <1>1, <2>1, QuietWithoutNews
<1>5. ASSUME NEW s \in Shells, Steps(s) \/ StopKills(s) PROVE Quiet'
  <2>1. ~crowded
    <3>1. CASE NotServing(s)
      BY <3>1, Zenon DEF NotServing
    <3>2. CASE ~NotServing(s)
      BY <1>5, <3>2 DEF Steps, ProbeUi, ProbeMcp, Serves, Detached, StopEnds,
          StartAgain, StopKills
    <3>3. QED BY <3>1, <3>2
  <2>2. QED BY <1>1, <1>5, <2>1, QuietSteps
<1>6. ASSUME NEW s \in Shells, Command(s) PROVE Quiet'
  <2>1. PICK cmd : Given(s, cmd)
    BY <1>6 DEF Command, Start, Stop, Restart, Install, Uninstall
  <2>2. Quiet
    BY <1>1, <2>1, GivenAlone
  <2>3. QED BY <1>6, <2>2, QuietCommands
<1>7. CASE ServiceLaunches
  <2>1. PICK g \in Free : Launch(g) /\ managed' = g
    BY <1>7 DEF ServiceLaunches
  <2>2. UNCHANGED <<pidFile, shell, crowded>>
    BY <1>7 DEF ServiceLaunches
  <2>3. \A h \in Gens : Alive(h)' /\ h # managed' => Alive(h) /\ h # managed
    BY <1>7, <2>1 DEF ServiceLaunches, Launch, Alive, LauncherAssumption
  <2>4. QED BY <1>1, <2>2, <2>3 DEF Quiet, Busy
<1>8. CASE Reboot
  <2>1. \A h \in Gens : ~Alive(h)'
    BY <1>8 DEF Reboot, Alive
  <2>2. \A s \in Shells : shell'[s].at = "idle"
    BY <1>8, WaitingIsAState DEF Reboot
  <2>3. QED BY <2>1, <2>2 DEF Quiet, Busy
<1>9. CASE UNCHANGED launchVars
  <2>1. UNCHANGED <<pidFile, managed, shell, crowded, top>>
    BY <1>9 DEF launchVars, login, tree
  <2>2. QED BY <1>1, <2>1, QuietWithoutNews DEF Alive
<1>10. QED BY <1>3, <1>4, <1>5, <1>6, <1>7, <1>8, <1>9 DEF LaunchNext

-----------------------------------------------------------------------------
(* What follows.                                                            *)

\* At first nothing runs.
LEMMA LaunchStarts == ASSUME LauncherAssumption, LaunchInit PROVE LaunchInv
<1>1. \A s \in Shells : shell[s].at = "idle" /\ shell[s].gen = NoTree
  BY WaitingIsAState DEF LaunchInit
<1>2. \A g \in Gens : ~Alive(g) /\ \A r \in Roles : child[g][r] = "dead" /\ port[r] # g
  BY DEF LaunchInit, Alive, LauncherAssumption
<1>3. TreeTypes
  BY <1>2 DEF TreeTypes, LaunchInit, Roles
<1>4. ShellTypes
  BY <1>1, WaitingIsAState DEF ShellTypes, LaunchInit
<1>5. crowded \in BOOLEAN
  BY Zenon DEF LaunchInit
<1>6. LaunchTypeOK
  BY <1>3, <1>4, <1>5, LaunchTypesAre
<1>7. ChildrenFollow
  BY <1>2 DEF ChildrenFollow
<1>8. PidFileIsTrue
  BY <1>1, <1>2 DEF PidFileIsTrue, Busy
<1>9. QED BY <1>6, <1>7, <1>8 DEF LaunchInv

LEMMA LaunchGoesOn ==
  ASSUME LauncherAssumption, LaunchInv, [LaunchNext]_launchVars PROVE LaunchInv'
<1>1. TreesAreSound /\ ShellTypes /\ crowded \in BOOLEAN
  BY LaunchTypesAre DEF LaunchInv, TreesAreSound
<1>2. TreesAreSound' /\ ShellTypes' /\ crowded' \in BOOLEAN
  BY <1>1, TreesStep, ShellsStep, CrowdedStep
<1>3. LaunchTypeOK'
  <2>1. TreeTypes' /\ ShellTypes'
    BY <1>2 DEF TreesAreSound
  <2>2. (LaunchTypeOK <=> TreeTypes /\ ShellTypes /\ crowded \in BOOLEAN)'
    BY DEF LaunchTypeOK, TreeTypes, ShellTypes, States, Named
  <2>3. QED BY <1>2, <2>1, <2>2
<1>4. PidFileIsTrue'
  BY <1>1, QuietStep DEF LaunchInv, TreesAreSound
<1>5. QED BY <1>2, <1>3, <1>4 DEF LaunchInv, TreesAreSound

\* The PID file tells the truth about what was started in the background for as
\* long as the commands take turns.
THEOREM ThePidFileIsTrue == ASSUME LauncherAssumption PROVE LaunchSpec => []LaunchInv
<1>1. LaunchInit => LaunchInv
  BY LaunchStarts
<1>2. LaunchInv /\ [LaunchNext]_launchVars => LaunchInv'
  BY LaunchGoesOn
<1>3. QED BY <1>1, <1>2, PTL DEF LaunchSpec

\* What runs is within reach of the commands.  No child outlives its supervisor
\* unasked (server.js, the exit handler and the forwarded signals; stop() with the
\* group; the login service) unless the supervisor alone is killed, by the system
\* or by stop() where the group is out of its reach; and no tree that a command
\* started in the background loses its PID file to another command that took its
\* turn.
THEOREM NobodyIsLeftBehind ==
  ASSUME LauncherAssumption PROVE LaunchSpec => []NobodyLeftBehind
<1>1. LaunchInv => NobodyLeftBehind
  <2> SUFFICES ASSUME LaunchInv PROVE Found
    BY DEF LaunchInv, NobodyLeftBehind
  <2> SUFFICES ASSUME ~crowded, NEW g \in Gens, Alive(g), g # managed, g \notin Attached
               PROVE  pidFile = g
    BY DEF Found
  <2>1. pidFile = g \/ \E s \in Shells : shell[s].at = "attached" /\ shell[s].gen = g
    BY DEF LaunchInv, PidFileIsTrue
  <2>2. QED BY <2>1 DEF Attached
<1>2. QED BY <1>1, ThePidFileIsTrue, PTL

-----------------------------------------------------------------------------
(* The connectors' packages.                                                *)

\* The queue for the lock: everybody in it once, npm only for its head; offline
\* nobody gets there.
TakesTurns ==
  /\ InstallTypeOK /\ OneInstall
  /\ \A i \in Integrations : stage[i] = "installing" <=> i \in npm
  /\ offline => lock = <<>> /\ npm = {}

\* What was found at its pin while no npm was at the package stays there, and no
\* npm comes to the package as long as it is to be spawned.
StaysAtThePin ==
  \A i \in alone : PinOf[i] # NoPin => Installed(i) /\ ~AtWork(PackageOf[i])

InstallInv == TakesTurns /\ StaysAtThePin

AloneAreReady == \A i \in alone : i \in Integrations /\ stage[i] = "ready"

Stages == {"stopped", "waiting", "installing", "ready", "refused", "running"}
Versioned == {"old", "pinned", "broken", "absent"}

\* Joining and leaving a queue in which everybody is once.
LEMMA QueueJoined ==
  ASSUME NEW S, NEW q \in Seq(S), IsInjective(q), NEW e \in S, e \notin Range(q)
  PROVE  /\ Append(q, e) \in Seq(S) /\ IsInjective(Append(q, e))
         /\ Range(Append(q, e)) = Range(q) \union {e}
         /\ q # <<>> => Head(Append(q, e)) = Head(q)
<1> DEFINE r == Append(q, e)
<1>1. /\ r \in Seq(S) /\ Len(r) = Len(q) + 1 /\ r[Len(q) + 1] = e
      /\ \A n \in 1..Len(q) : r[n] = q[n]
      /\ DOMAIN r = 1..(Len(q) + 1) /\ DOMAIN q = 1..Len(q) /\ Len(q) \in Nat
  OBVIOUS
<1> HIDE DEF r
<1>2. \A n \in 1..Len(q) : q[n] \in Range(q) /\ q[n] # e
  BY <1>1 DEF Range
<1>3. IsInjective(r)
  <2> SUFFICES ASSUME NEW a \in 1..(Len(q) + 1), NEW b \in 1..(Len(q) + 1), r[a] = r[b]
               PROVE  a = b
    BY <1>1 DEF IsInjective
  <2>1. CASE a \in 1..Len(q) /\ b \in 1..Len(q)
    BY <1>1, <2>1 DEF IsInjective
  <2>2. CASE a = Len(q) + 1 /\ b \in 1..Len(q)
    BY <1>1, <1>2, <2>2
  <2>3. CASE b = Len(q) + 1 /\ a \in 1..Len(q)
    BY <1>1, <1>2, <2>3
  <2>4. QED BY <1>1, <2>1, <2>2, <2>3
<1>4. Range(r) = Range(q) \union {e}
  <2>1. \A n \in 1..(Len(q) + 1) : r[n] \in Range(q) \union {e}
    BY <1>1, <1>2
  <2>2. \A n \in 1..Len(q) : q[n] \in Range(r)
    BY <1>1 DEF Range
  <2>3. e \in Range(r)
    BY <1>1 DEF Range
  <2>4. QED BY <1>1, <2>1, <2>2, <2>3 DEF Range
<1>5. q # <<>> => Head(r) = Head(q)
  <2>1. q # <<>> => 1 \in 1..Len(q) /\ Head(q) = q[1] /\ Head(r) = r[1]
    BY DEF r
  <2>2. QED BY <1>1, <2>1
<1>6. QED BY <1>1, <1>3, <1>4, <1>5 DEF r

LEMMA QueueLeft ==
  ASSUME NEW S, NEW q \in Seq(S), IsInjective(q), q # <<>>
  PROVE  /\ Tail(q) \in Seq(S) /\ IsInjective(Tail(q)) /\ Head(q) \in Range(q)
         /\ Range(Tail(q)) = Range(q) \ {Head(q)}
<1> DEFINE r == Tail(q)
<1>1. /\ r \in Seq(S) /\ Len(r) = Len(q) - 1 /\ Len(q) \in Nat /\ Len(q) > 0
      /\ \A n \in 1..(Len(q) - 1) : r[n] = q[n + 1]
      /\ DOMAIN r = 1..(Len(q) - 1) /\ DOMAIN q = 1..Len(q) /\ Head(q) = q[1]
  OBVIOUS
<1> HIDE DEF r
<1>2. IsInjective(r)
  <2> SUFFICES ASSUME NEW a \in 1..(Len(q) - 1), NEW b \in 1..(Len(q) - 1), r[a] = r[b]
               PROVE  a = b
    BY <1>1 DEF IsInjective
  <2>1. a + 1 \in DOMAIN q /\ b + 1 \in DOMAIN q /\ q[a + 1] = q[b + 1]
    BY <1>1
  <2>2. a + 1 = b + 1
    BY <2>1 DEF IsInjective
  <2>3. QED BY <2>2
<1>3. q[1] \in Range(q)
  BY <1>1 DEF Range
<1>4. Range(r) = Range(q) \ {q[1]}
  <2>1. ASSUME NEW n \in 1..(Len(q) - 1) PROVE r[n] \in Range(q) \ {q[1]}
    <3>1. n + 1 \in DOMAIN q /\ 1 \in DOMAIN q /\ n + 1 # 1 /\ r[n] = q[n + 1]
      BY <1>1
    <3>2. q[n + 1] # q[1]
      BY <3>1 DEF IsInjective
    <3>3. QED BY <3>1, <3>2 DEF Range
  <2>2. ASSUME NEW n \in 1..Len(q), q[n] # q[1] PROVE q[n] \in Range(r)
    <3>1. n - 1 \in DOMAIN r /\ r[n - 1] = q[n]
      BY <1>1, <2>2
    <3>2. QED BY <3>1 DEF Range
  <2>3. \A x \in Range(r) : x \in Range(q) \ {q[1]}
    BY <1>1, <2>1 DEF Range
  <2>4. \A x \in Range(q) \ {q[1]} : x \in Range(r)
    BY <1>1, <2>2 DEF Range
  <2>5. QED BY <2>3, <2>4
<1>5. QED BY <1>1, <1>2, <1>3, <1>4 DEF r

LEMMA NobodyQueues == IsInjective(<<>>) /\ Range(<<>>) = {}
BY DEF IsInjective, Range

\* Only one integration has its install run, and it has not been started yet.
LEMMA TheInstall ==
  ASSUME TakesTurns, NEW i \in Integrations, lock # <<>>, Head(lock) = i
  PROVE  npm \subseteq {i} /\ (stage[i] = "waiting" => npm = {})
BY DEF TakesTurns, OneInstall

\* An integration starts waiting, and one that waited or installed is through.
LEMMA Joins ==
  ASSUME InstallAssumption, TakesTurns, NEW i \in Integrations, stage[i] = "stopped",
         ~offline, Reaches(i, "waiting"), lock' = Append(lock, i),
         UNCHANGED <<offline, installed, npm, orphans, alone>>
  PROVE  TakesTurns'
<1>1. i \notin Range(lock) /\ lock \in Seq(Integrations) /\ IsInjective(lock)
  BY DEF TakesTurns, InstallTypeOK
<1>2. /\ lock' \in Seq(Integrations) /\ IsInjective(lock')
      /\ Range(lock') = Range(lock) \union {i}
      /\ lock # <<>> => Head(lock') = Head(lock)
  BY <1>1, QueueJoined
<1>3. i \in Range(lock') /\ lock' # <<>>
  BY <1>2, NobodyQueues
<1>4. InstallTypeOK'
  BY <1>2 DEF TakesTurns, InstallTypeOK, Reaches
<1>5. OneInstall' /\ \A j \in Integrations : stage'[j] = "installing" <=> j \in npm'
  BY <1>2, <1>3 DEF TakesTurns, InstallTypeOK, OneInstall, Reaches
<1>6. QED BY <1>4, <1>5 DEF TakesTurns

LEMMA Leaves ==
  ASSUME InstallAssumption, TakesTurns, NEW i \in Integrations, NEW to \in {"ready", "refused"},
         lock # <<>>, Head(lock) = i, lock' = Tail(lock), npm' = {}, Reaches(i, to),
         installed' \in [Packages -> Versions \union {"broken", "absent"}],
         UNCHANGED <<offline, orphans>>, npm \subseteq {i}, AloneAreReady'
  PROVE  TakesTurns'
<1>1. lock \in Seq(Integrations) /\ IsInjective(lock)
  BY DEF TakesTurns, InstallTypeOK
<1>2. /\ lock' \in Seq(Integrations) /\ IsInjective(lock')
      /\ Range(lock') = Range(lock) \ {i}
  BY <1>1, QueueLeft
<1>3. InstallTypeOK'
  <2>1. \A j \in Integrations : stage'[j] \in {"waiting", "installing"} <=> j \in Range(lock')
    BY <1>2 DEF TakesTurns, InstallTypeOK, Reaches
  <2>2. stage' \in [Integrations -> Stages]
    BY DEF TakesTurns, InstallTypeOK, Reaches, Stages
  <2>3. QED BY <1>2, <2>1, <2>2 DEF TakesTurns, InstallTypeOK, Stages, AloneAreReady
<1>4. OneInstall' /\ \A j \in Integrations : stage'[j] = "installing" <=> j \in npm'
  BY DEF TakesTurns, InstallTypeOK, OneInstall, Reaches
<1>5. offline' => lock' = <<>>
  BY DEF TakesTurns
<1>6. QED BY <1>3, <1>4, <1>5 DEF TakesTurns

\* Neither the queue nor anybody in it moves.
LEMMA OthersMove ==
  ASSUME InstallAssumption, TakesTurns, UNCHANGED <<offline, lock, npm>>,
         installed' \in [Packages -> Versions \union {"broken", "absent"}],
         orphans' \subseteq Integrations, AloneAreReady',
         \/ UNCHANGED stage
         \/ \E i \in Integrations, to \in {"ready", "refused", "running", "stopped"} :
               stage[i] \in {"stopped", "ready", "running", "refused"} /\ Reaches(i, to)
  PROVE  TakesTurns'
<1>1. /\ stage' \in [Integrations -> Stages]
      /\ \A j \in Integrations :
            \/ stage'[j] = stage[j]
            \/ {stage[j], stage'[j]} \intersect {"waiting", "installing"} = {}
  BY DEF TakesTurns, InstallTypeOK, Reaches, Stages
<1>2. \A j \in Integrations : stage'[j] \in {"waiting", "installing"} <=> j \in Range(lock')
  BY <1>1 DEF TakesTurns, InstallTypeOK
<1>3. InstallTypeOK'
  BY <1>1, <1>2 DEF TakesTurns, InstallTypeOK, Stages, AloneAreReady
<1>4. OneInstall' /\ \A j \in Integrations : stage'[j] = "installing" <=> j \in npm'
  BY <1>1 DEF TakesTurns, OneInstall
<1>5. QED BY <1>3, <1>4 DEF TakesTurns

LEMMA Lands ==
  ASSUME InstallAssumption, TakesTurns, NEW i \in Integrations, NEW result \in Versioned,
         NEW ok \in BOOLEAN, Landed(i, result, ok)
  PROVE  TakesTurns' /\ npm' = {} /\ ~offline
<1>1. lock # <<>> /\ Head(lock) = i /\ npm = {i}
  BY TheInstall DEF TakesTurns, OneInstall, Landed
<1>2. installed' \in [Packages -> Versions \union {"broken", "absent"}]
  BY DEF Landed, TakesTurns, InstallTypeOK, Versions, Versioned
<1>3. PICK to \in {"ready", "refused"} :
         Reaches(i, to) /\ alone' \subseteq alone \union (IF to = "ready" THEN {i} ELSE {})
  BY DEF Landed, Finds
<1>4. npm' = {} /\ lock' = Tail(lock) /\ UNCHANGED <<offline, orphans>>
  BY <1>1 DEF Landed
<1>5. ~offline
  BY <1>1 DEF TakesTurns
<1>6. AloneAreReady'
  <2>1. stage[i] = "installing" /\ AloneAreReady /\ stage \in [Integrations -> Stages]
    BY <1>1 DEF AloneAreReady, TakesTurns, InstallTypeOK, Stages
  <2>2. QED BY <1>3, <2>1 DEF AloneAreReady, Reaches
<1>7. QED BY <1>1, <1>2, <1>3, <1>4, <1>5, <1>6, Leaves

LEMMA WhatLands ==
  ASSUME InstallAssumption, TakesTurns, NEW i \in Integrations, NpmSucceeds(i) \/ NpmFails(i)
  PROVE  \E result \in Versioned, ok \in BOOLEAN :
           Landed(i, result, ok) /\ (result = "absent" => installed[PackageOf[i]] = "absent")
<1>1. installed[PackageOf[i]] \in Versioned
  BY DEF InstallAssumption, TakesTurns, InstallTypeOK, Versions, Versioned
<1>2. Target(i) \subseteq Versions
  BY DEF Target, Versions, InstallAssumption
<1>3. CASE NpmSucceeds(i)
  BY <1>2, <1>3 DEF NpmSucceeds, Versions, Versioned
<1>4. CASE NpmFails(i)
  BY <1>1, <1>2, <1>4 DEF NpmFails, Versions, Versioned
<1>5. QED BY <1>3, <1>4

LEMMA Enters ==
  ASSUME InstallAssumption, TakesTurns, NEW i \in Integrations, Enter(i) PROVE TakesTurns'
<1>1. /\ lock # <<>> /\ Head(lock) = i /\ stage[i] = "waiting" /\ npm = {}
      /\ UNCHANGED <<offline, orphans>>
  BY TheInstall DEF Enter
<1>2. CASE Installed(i)
  <2>1. /\ Reaches(i, "ready") /\ lock' = Tail(lock) /\ UNCHANGED <<installed, npm>>
        /\ alone' \subseteq alone \union {i}
    BY <1>2 DEF Enter, Finds
  <2>2. installed' \in [Packages -> Versions \union {"broken", "absent"}]
    BY <2>1 DEF TakesTurns, InstallTypeOK
  <2>3. AloneAreReady'
    BY <2>1 DEF AloneAreReady, TakesTurns, InstallTypeOK, Reaches
  <2>4. QED BY <1>1, <2>1, <2>2, <2>3, Leaves
<1>3. CASE ~Installed(i)
  <2>1. /\ Reaches(i, "installing") /\ npm' = {i} /\ lock' = lock /\ alone' = alone
        /\ installed' \in [Packages -> Versions \union {"broken", "absent"}]
    BY <1>1, <1>3 DEF Enter, TakesTurns, InstallTypeOK
  <2>2. InstallTypeOK'
    BY <1>1, <2>1 DEF TakesTurns, InstallTypeOK, Reaches
  <2>3. OneInstall' /\ \A j \in Integrations : stage'[j] = "installing" <=> j \in npm'
    BY <1>1, <2>1 DEF TakesTurns, InstallTypeOK, OneInstall, Reaches
  <2>4. ~offline
    BY <1>1 DEF TakesTurns
  <2>5. QED BY <1>1, <2>2, <2>3, <2>4 DEF TakesTurns
<1>4. QED BY <1>2, <1>3

LEMMA EndsOffNpm ==
  ASSUME InstallAssumption, TakesTurns, GatewayDies \/ \E i \in Integrations : OrphanEnds(i)
  PROVE  TakesTurns' /\ KeepsWorking /\ npm' \subseteq npm
         /\ \A i \in Integrations : stage'[i] \in {stage[i], "stopped"}
<1>1. CASE GatewayDies
  <2>1. /\ stage' = [i \in Integrations |-> "stopped"] /\ lock' = <<>> /\ npm' = {}
        /\ UNCHANGED <<offline, installed>> /\ orphans' \subseteq Integrations /\ alone' = {}
    BY <1>1 DEF GatewayDies, TakesTurns, InstallTypeOK, InstallAssumption
  <2>2. lock' \in Seq(Integrations) /\ IsInjective(lock') /\ Range(lock') = {}
    BY <2>1, NobodyQueues
  <2>3. InstallTypeOK'
    BY <2>1, <2>2 DEF TakesTurns, InstallTypeOK
  <2>4. TakesTurns'
    BY <2>1, <2>3 DEF TakesTurns, OneInstall
  <2>5. KeepsWorking
    BY <2>1 DEF KeepsWorking, Usable, Versions
  <2>6. QED BY <2>1, <2>4, <2>5
<1>2. ASSUME NEW k \in Integrations, OrphanEnds(k)
      PROVE  /\ TakesTurns' /\ KeepsWorking /\ npm' \subseteq npm
             /\ \A i \in Integrations : stage'[i] \in {stage[i], "stopped"}
  <2>1. Target(k) \subseteq Versions
    BY DEF Target, Versions, InstallAssumption
  <2>2. /\ UNCHANGED <<offline, lock, npm, stage, alone>> /\ orphans' \subseteq Integrations
        /\ installed' \in [Packages -> Versions \union {"broken", "absent"}]
        /\ KeepsWorking
    BY <1>2, <2>1 DEF OrphanEnds, TakesTurns, InstallTypeOK, Versions, KeepsWorking, Usable
  <2>3. AloneAreReady'
    BY <2>2 DEF AloneAreReady, TakesTurns, InstallTypeOK
  <2>4. QED BY <2>2, <2>3, OthersMove
<1>3. QED BY <1>1, <1>2

\* One step: everything OnlyThePin says of it.
LEMMA InstallStep ==
  ASSUME InstallAssumption, InstallInv, [InstallNext]_installVars
  PROVE  TakesTurns' /\ TakesThePin /\ KeepsWorking
<1> USE DEF InstallAssumption
<1> DEFINE Shown == TakesTurns' /\ TakesThePin /\ KeepsWorking
<1> SUFFICES Shown
  OBVIOUS
<1>0. /\ stage \in [Integrations -> Stages]
      /\ installed \in [Packages -> Versions \union {"broken", "absent"}]
      /\ orphans \subseteq Integrations /\ (offline => npm = {}) /\ TakesTurns /\ AloneAreReady
      /\ \A i \in alone : PinOf[i] # NoPin => Installed(i)
  BY DEF InstallInv, TakesTurns, StaysAtThePin, InstallTypeOK, Stages, AloneAreReady
<1>1. ASSUME UNCHANGED installed PROVE KeepsWorking
  BY <1>1 DEF KeepsWorking, Usable, Versions
<1>2. ASSUME NEW i \in Integrations, NEW to, Reaches(i, to), to = "ready" => Installed(i)',
             offline => npm' = {}
      PROVE  TakesThePin
  BY <1>0, <1>2 DEF TakesThePin, Reaches
<1>3. ASSUME UNCHANGED stage, offline => npm' = {} PROVE TakesThePin
  BY <1>0, <1>3 DEF TakesThePin
<1>4. ASSUME NEW i \in Integrations, UNCHANGED installed PROVE Installed(i)' <=> Installed(i)
  BY <1>4 DEF Installed, Usable
<1> HIDE DEF Shown
<1>5. ASSUME NEW i \in Integrations, Ensure(i) PROVE Shown
  <2>1. UNCHANGED <<offline, installed, npm, orphans>> /\ stage[i] = "stopped"
    BY <1>5 DEF Ensure
  <2>2. KeepsWorking /\ (offline => npm' = {})
    BY <1>0, <1>1, <2>1
  <2>3. CASE Installed(i) \/ offline
    <3>1. PICK to \in {"ready", "refused"} :
             /\ Reaches(i, to) /\ UNCHANGED lock /\ (to = "ready" => Installed(i))
             /\ alone' \subseteq alone \union (IF to = "ready" THEN {i} ELSE {})
      BY <1>5, <2>3 DEF Ensure, Finds
    <3>2. TakesThePin
      BY <1>2, <1>4, <2>1, <2>2, <3>1
    <3>3. AloneAreReady'
      BY <1>0, <2>1, <3>1 DEF AloneAreReady, Reaches
    <3>4. TakesTurns'
      BY <1>0, <2>1, <3>1, <3>3, OthersMove
    <3>5. QED BY <2>2, <3>2, <3>4 DEF Shown
  <2>4. CASE ~(Installed(i) \/ offline)
    <3>1. Reaches(i, "waiting") /\ lock' = Append(lock, i) /\ alone' = alone
      BY <1>5, <2>4 DEF Ensure
    <3>2. TakesTurns'
      BY <1>0, <2>1, <2>4, <3>1, Joins
    <3>3. TakesThePin
      BY <1>2, <2>2, <3>1
    <3>4. QED BY <2>2, <3>2, <3>3 DEF Shown
  <2>5. QED BY <2>3, <2>4
<1>6. ASSUME NEW i \in Integrations, Enter(i) PROVE Shown
  <2>1. TakesTurns'
    BY <1>0, <1>6, Enters
  <2>2. offline => npm' = {}
    BY <1>6, <2>1 DEF TakesTurns, Enter
  <2>3. KeepsWorking
    BY <1>0, <1>6 DEF Enter, KeepsWorking, Usable, Versions
  <2>4. TakesThePin
    <3>1. CASE Installed(i)
      <4>1. Reaches(i, "ready") /\ UNCHANGED installed
        BY <1>6, <3>1 DEF Enter, Finds
      <4>2. QED BY <1>2, <1>4, <2>2, <3>1, <4>1
    <3>2. CASE ~Installed(i)
      <4>1. Reaches(i, "installing")
        BY <1>6, <3>2 DEF Enter
      <4>2. QED BY <1>2, <2>2, <4>1
    <3>3. QED BY <3>1, <3>2
  <2>5. QED BY <2>1, <2>3, <2>4 DEF Shown
<1>7. ASSUME NEW i \in Integrations, NpmWrites(i) PROVE Shown
  <2>1. Target(i) \subseteq Versions
    BY DEF Target, Versions
  <2>2. /\ UNCHANGED <<offline, stage, lock, npm, orphans, alone>>
        /\ installed' \in [Packages -> Versions \union {"broken", "absent"}]
        /\ KeepsWorking
    BY <1>0, <1>7, <2>1 DEF NpmWrites, KeepsWorking, Usable, Versions
  <2>3. TakesTurns' /\ TakesThePin
    BY <1>0, <1>3, <2>2, OthersMove DEF AloneAreReady
  <2>4. QED BY <2>2, <2>3 DEF Shown
<1>8. ASSUME NEW i \in Integrations, NpmSucceeds(i) \/ NpmFails(i) PROVE Shown
  <2>1. PICK result \in Versioned, ok \in BOOLEAN :
           Landed(i, result, ok) /\ (result = "absent" => installed[PackageOf[i]] = "absent")
    BY <1>0, <1>8, WhatLands
  <2>2. TakesTurns' /\ npm' = {} /\ ~offline
    BY <1>0, <2>1, Lands
  <2>3. installed' = [installed EXCEPT ![PackageOf[i]] = result]
    BY <2>1 DEF Landed
  <2>4. KeepsWorking
    BY <1>0, <2>1, <2>3 DEF KeepsWorking, Usable, Versions
  <2>5. result \in Target(i) => Installed(i)'
    BY <1>0, <2>3 DEF Target, Installed, Usable, Versions
  <2>6. PICK to \in {"ready", "refused"} :
           Reaches(i, to) /\ (to = "ready" => result \in Target(i))
    BY <2>1 DEF Landed, Finds
  <2>7. TakesThePin
    BY <1>2, <2>2, <2>5, <2>6
  <2>8. QED BY <2>2, <2>4, <2>7 DEF Shown
<1>9. ASSUME NEW i \in Integrations, SpawnIt(i) \/ StopIt(i) PROVE Shown
  <2>1. UNCHANGED <<offline, installed, lock, npm, orphans>>
    BY <1>9 DEF SpawnIt, StopIt
  <2>2. PICK to \in {"running", "stopped"} :
           /\ stage[i] \in {"ready", "running", "refused"} /\ Reaches(i, to)
           /\ alone' \subseteq alone /\ (stage[i] = "ready" => i \notin alone')
    BY <1>9 DEF SpawnIt, StopIt
  <2>3. AloneAreReady'
    BY <1>0, <2>2 DEF AloneAreReady, Reaches
  <2>4. TakesTurns'
    BY <1>0, <2>1, <2>2, <2>3, OthersMove
  <2>5. TakesThePin /\ KeepsWorking
    BY <1>0, <1>1, <1>2, <2>1, <2>2
  <2>6. QED BY <2>4, <2>5 DEF Shown
<1>10. CASE GatewayDies \/ \E i \in Integrations : OrphanEnds(i)
  <2>1. /\ TakesTurns' /\ KeepsWorking /\ npm' \subseteq npm
        /\ \A i \in Integrations : stage'[i] \in {stage[i], "stopped"}
    BY <1>0, <1>10, EndsOffNpm
  <2>2. TakesThePin
    BY <1>0, <2>1 DEF TakesThePin
  <2>3. QED BY <2>1, <2>2 DEF Shown
<1>11. CASE UNCHANGED installVars
  <2>1. UNCHANGED <<offline, installed, stage, lock, npm, orphans, alone>>
    BY <1>11 DEF installVars
  <2>2. TakesTurns'
    BY <1>0, <2>1, OthersMove DEF AloneAreReady
  <2>3. QED BY <1>0, <1>1, <1>3, <2>1, <2>2 DEF Shown
<1>12. QED BY <1>5, <1>6, <1>7, <1>8, <1>9, <1>10, <1>11 DEF InstallNext

\* What was found alone at its pin: by the fast path, behind the lock or as npm
\* has ended.  Only an npm for its package could move it; but whoever waits for
\* the package finds it as it should be, and no orphan comes without a death.
LEMMA PinStep ==
  ASSUME InstallAssumption, InstallInv, [InstallNext]_installVars
  PROVE  StaysAtThePin'
<1> USE DEF InstallAssumption
<1>0. /\ stage \in [Integrations -> Stages] /\ npm \subseteq Integrations
      /\ installed \in [Packages -> Versions \union {"broken", "absent"}]
      /\ orphans \subseteq Integrations /\ TakesTurns /\ AloneAreReady
      /\ \A i \in alone : PinOf[i] # NoPin => Installed(i) /\ ~AtWork(PackageOf[i])
  BY DEF InstallInv, TakesTurns, StaysAtThePin, InstallTypeOK, Stages, AloneAreReady
<1>1. ASSUME UNCHANGED installed, npm' \union orphans' \subseteq npm \union orphans,
             alone' \subseteq alone
      PROVE  StaysAtThePin'
  BY <1>0, <1>1 DEF StaysAtThePin, Installed, Usable, AtWork
<1>2. ASSUME NEW i \in Integrations, i \in npm \union orphans,
             npm' \union orphans' \subseteq npm \union orphans,
             \A p \in Packages \ {PackageOf[i]} : installed'[p] = installed[p],
             \A j \in alone' : j \in alone \/ (j = i /\ Installed(i)' /\ ~AtWork(PackageOf[i])')
      PROVE  StaysAtThePin'
  <2> SUFFICES ASSUME NEW j \in alone', PinOf[j] # NoPin, ~(Installed(j)' /\ ~AtWork(PackageOf[j])')
               PROVE  FALSE
    BY DEF StaysAtThePin
  <2>1. j \in alone /\ j \in Integrations
    BY <1>0, <1>2 DEF AloneAreReady
  <2>2. Installed(j) /\ ~AtWork(PackageOf[j])
    BY <1>0, <2>1
  <2>3. PackageOf[j] \in Packages \ {PackageOf[i]}
    BY <1>2, <2>1, <2>2 DEF AtWork
  <2>4. Installed(j)'
    BY <1>2, <2>2, <2>3 DEF Installed, Usable
  <2>5. ~AtWork(PackageOf[j])'
    BY <1>2, <2>2 DEF AtWork
  <2>6. QED BY <2>4, <2>5
<1>3. ASSUME NEW i \in Integrations, UNCHANGED <<installed, npm, orphans>>, Installed(i), Finds(i)
      PROVE  StaysAtThePin'
  BY <1>0, <1>3 DEF StaysAtThePin, Finds, Installed, Usable, AtWork
<1>4. ASSUME NEW i \in Integrations, Ensure(i) PROVE StaysAtThePin'
  BY <1>1, <1>3, <1>4 DEF Ensure
<1>5. ASSUME NEW i \in Integrations, Enter(i) PROVE StaysAtThePin'
  <2>1. CASE Installed(i)
    BY <1>3, <1>5, <2>1 DEF Enter
  <2>2. CASE ~Installed(i)
    <3>1. /\ npm' = npm \union {i} /\ UNCHANGED <<orphans, alone>>
          /\ \A p \in Packages \ {PackageOf[i]} : installed'[p] = installed[p]
      BY <1>0, <1>5, <2>2 DEF Enter
    <3>2. ASSUME NEW j \in alone, PinOf[j] # NoPin
          PROVE  PackageOf[j] \in Packages \ {PackageOf[i]}
      <4>1. j \in Integrations /\ Installed(j)
        BY <1>0, <3>2 DEF AloneAreReady
      <4>2. PackageOf[j] = PackageOf[i] => Installed(i)
        BY <3>2, <4>1 DEF Installed
      <4>3. QED BY <2>2, <4>1, <4>2
    <3>3. ASSUME NEW j \in alone', PinOf[j] # NoPin
          PROVE  Installed(j)' /\ ~AtWork(PackageOf[j])'
      <4>1. j \in alone /\ Installed(j) /\ ~AtWork(PackageOf[j])
        BY <1>0, <3>1, <3>3
      <4>2. PackageOf[j] \in Packages \ {PackageOf[i]}
        BY <3>2, <3>3, <4>1
      <4>3. QED BY <3>1, <4>1, <4>2 DEF Installed, Usable, AtWork
    <3>4. QED BY <3>3 DEF StaysAtThePin
  <2>3. QED BY <2>1, <2>2
<1>6. ASSUME NEW i \in Integrations, NpmWrites(i) PROVE StaysAtThePin'
  BY <1>0, <1>2, <1>6 DEF NpmWrites
<1>7. ASSUME NEW i \in Integrations, NpmSucceeds(i) \/ NpmFails(i) PROVE StaysAtThePin'
  <2>1. PICK result \in Versioned, ok \in BOOLEAN : Landed(i, result, ok)
    BY <1>0, <1>7, WhatLands
  <2>2. /\ i \in npm /\ npm' = npm \ {i} /\ UNCHANGED orphans
        /\ \A p \in Packages \ {PackageOf[i]} : installed'[p] = installed[p]
    BY <1>0, <2>1 DEF Landed
  <2>3. result \in Target(i) => Installed(i)'
    BY <1>0, <2>1 DEF Landed, Target, Installed, Usable, Versions
  <2>4. \A j \in alone' : j \in alone \/ (j = i /\ Installed(i)' /\ ~AtWork(PackageOf[i])')
    BY <2>1, <2>3 DEF Landed, Finds
  <2>5. QED BY <1>2, <2>2, <2>4
<1>8. ASSUME NEW i \in Integrations, SpawnIt(i) \/ StopIt(i) PROVE StaysAtThePin'
  BY <1>1, <1>8 DEF SpawnIt, StopIt
<1>9. CASE GatewayDies
  BY <1>9 DEF GatewayDies, StaysAtThePin
<1>10. ASSUME NEW i \in Integrations, OrphanEnds(i) PROVE StaysAtThePin'
  BY <1>0, <1>2, <1>10 DEF OrphanEnds
<1>11. CASE UNCHANGED installVars
  BY <1>1, <1>11 DEF installVars
<1>12. QED BY <1>4, <1>5, <1>6, <1>7, <1>8, <1>9, <1>10, <1>11 DEF InstallNext

LEMMA InstallStarts == ASSUME InstallAssumption, InstallInit PROVE InstallInv
<1>1. \A i \in Integrations : stage[i] = "stopped"
  BY DEF InstallInit
<1>2. lock \in Seq(Integrations) /\ IsInjective(lock) /\ Range(lock) = {}
  BY NobodyQueues DEF InstallInit
<1>3. offline \in BOOLEAN
  BY Zenon DEF InstallInit
<1>4. InstallTypeOK
  BY <1>1, <1>2, <1>3 DEF InstallTypeOK, InstallInit
<1>5. QED BY <1>1, <1>4 DEF InstallInv, TakesTurns, StaysAtThePin, OneInstall, InstallInit

\* One install at a time, in the order the starts asked for it.
THEOREM OneInstallAtATime == ASSUME InstallAssumption PROVE InstallSpec => []InstallInv
<1>1. InstallInit => InstallInv
  BY InstallStarts
<1>2. InstallInv /\ [InstallNext]_installVars => InstallInv'
  BY InstallStep, PinStep DEF InstallInv
<1>3. QED BY <1>1, <1>2, PTL DEF InstallSpec

\* A connector is made ready only at its pin (ensureInstalled(), installNow()) and
\* spawned at it, unless an npm was at the package as it was found: for any number
\* of integrations that share packages, npm failures and crashes; no install
\* removes what works.
THEOREM OnlyThePinRuns == ASSUME InstallAssumption PROVE InstallSpec => OnlyThePin
<1> DEFINE Step == InstallTypeOK' /\ OneInstall' /\ TakesThePin /\ KeepsWorking
<1>1. InstallInv /\ [InstallNext]_installVars => [Step]_installVars
  BY InstallStep DEF InstallInv, TakesTurns
<1>2. QED BY <1>1, OneInstallAtATime, PTL DEF InstallSpec, OnlyThePin, Step
==============================================================================
