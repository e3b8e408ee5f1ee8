---------------------------- MODULE SharedDataDir ----------------------------
(***************************************************************************)
(* Several gateway processes on one data directory (the dev gateway, the   *)
(* npm-installed one, a restarted one): they share executor.lock,          *)
(* execution-journal.json and the account at the Authority Server (AS).    *)
(*                                                                         *)
(* ReviewExecution shows one process and takes a method of the journal as  *)
(* one step.  Here a method is what it is for a second process: load() the *)
(* whole file, then persist() the whole file.  The rest of a run is cut    *)
(* down to what matters between processes: the AS gives every process the  *)
(* same ticket, every call succeeds, and every proposal was submitted from *)
(* this data directory.                                                    *)
(***************************************************************************)
EXTENDS Naturals

CONSTANTS
  Process,      \* operating system processes, each started at most once
  NoProcess,    \* no lock file
  Proposal,     \* proposal ids, all of them approved
  NoProposal    \* no run

NoProcessAssumption == NoProcess \notin Process
NoProposalAssumption == NoProposal \notin Proposal

VARIABLES
  lockFile,    \* disk: the pid in executor.lock
  journal,     \* disk: execution-journal.json
  asStatus,    \* AS: status of each proposal
  state,       \* life of each process
  seen,        \* memory: the lock file as acquire() read it
  held,        \* memory: ExecutorLock.held
  ticking,     \* memory: a tick of the poll loop is past isHeld()
  list,        \* memory: rest of the poll loop's list
  asked,       \* memory: proposals that agents' calls wait for
  run,         \* memory: the run at the head of the executor's queue
  calls,       \* history: downstream calls made per proposal
  raced,       \* history: a lock was taken that another one took meanwhile
  overlapped   \* history: the journal was written from an outdated copy

disk   == <<lockFile, journal>>
memory == <<state, seen, held, ticking, list, asked, run>>
vars   == <<disk, asStatus, memory, calls, raced, overlapped>>

J == INSTANCE ExecutionJournal WITH Request <- Proposal

Pc == {"idle", "requesting", "asking", "ticket", "claiming", "claimed",
       "called", "closing"}

\* view is the copy of the journal that the method under way has loaded.
Run == [pc : Pc, of : Proposal \cup {NoProposal}, view : J!JournalType]

Idle == [pc |-> "idle", of |-> NoProposal, view |-> J!EmptyJournal]

\* The one ticket the AS issues for a proposal.
Ticket == 1

TypeOK ==
  /\ lockFile \in Process \cup {NoProcess}
  /\ journal \in J!JournalType
  /\ asStatus \in [Proposal -> {"committed", "executed"}]
  /\ state \in [Process -> {"new", "acquiring", "running", "stopping", "dead"}]
  /\ seen \in [Process -> Process \cup {NoProcess}]
  /\ held \in [Process -> BOOLEAN]
  /\ ticking \in SUBSET Process
  /\ list \in [Process -> SUBSET Proposal]
  /\ asked \in [Process -> SUBSET Proposal]
  /\ run \in [Process -> Run]
  /\ calls \in [Proposal -> Nat]
  /\ raced \in BOOLEAN
  /\ overlapped \in BOOLEAN

Init ==
  /\ lockFile = NoProcess
  /\ journal = J!EmptyJournal
  /\ asStatus = [p \in Proposal |-> "committed"]
  /\ state = [i \in Process |-> "new"]
  /\ seen = [i \in Process |-> NoProcess]
  /\ held = [i \in Process |-> FALSE]
  /\ ticking = {}
  /\ list = [i \in Process |-> {}]
  /\ asked = [i \in Process |-> {}]
  /\ run = [i \in Process |-> Idle]
  /\ calls = [p \in Proposal |-> 0]
  /\ raced = FALSE
  /\ overlapped = FALSE

-----------------------------------------------------------------------------
(* ExecutorLock and the life of a process.                                  *)

\* Mistake: every holder is taken for dead.
TakenByNobody(i, pid) == FALSE

\* isAlive(): the process of this pid exists.
TakenBy(i, pid) ==
  pid \notin {NoProcess, i} /\ state[pid] \in {"acquiring", "running", "stopping"}

\* acquire(), up to the decision: asked once, when the server starts.
AcquireReads(i) ==
  /\ state[i] = "new"
  /\ seen' = [seen EXCEPT ![i] = lockFile]
  /\ state' = [state EXCEPT ![i] =
                 IF TakenBy(i, lockFile) THEN "running" ELSE "acquiring"]
  /\ UNCHANGED <<disk, asStatus, held, ticking, list, asked, run, calls, raced,
                 overlapped>>

\* The rest of acquire(): the lock is written whatever the file says by now.
AcquireWrites(i) ==
  /\ state[i] = "acquiring"
  /\ lockFile' = i
  /\ held' = [held EXCEPT ![i] = TRUE]
  /\ state' = [state EXCEPT ![i] = "running"]
  /\ raced' = (raced \/ lockFile # seen[i])
  /\ UNCHANGED <<journal, asStatus, seen, ticking, list, asked, run, calls,
                 overlapped>>

\* isHeld(): re-checks the file.
IsHeld(i) == held[i] /\ lockFile = i

\* SIGINT or SIGTERM: release() at once, then integrationManager.shutdown() is
\* awaited; runs under way go on meanwhile.
Signal(i) ==
  /\ state[i] = "running"
  /\ state' = [state EXCEPT ![i] = "stopping"]
  /\ held' = [held EXCEPT ![i] = FALSE]
  /\ lockFile' = IF IsHeld(i) THEN NoProcess ELSE lockFile
  /\ UNCHANGED <<journal, asStatus, seen, ticking, list, asked, run, calls,
                 raced, overlapped>>

\* The process is gone: shutdown is complete, or it was killed.  Its lock file
\* stays behind if it was not released.
Ends(i) ==
  /\ state[i] \in {"acquiring", "running", "stopping"}
  /\ state' = [state EXCEPT ![i] = "dead"]
  /\ held' = [held EXCEPT ![i] = FALSE]
  /\ ticking' = ticking \ {i}
  /\ list' = [list EXCEPT ![i] = {}]
  /\ asked' = [asked EXCEPT ![i] = {}]
  /\ run' = [run EXCEPT ![i] = Idle]
  /\ UNCHANGED <<disk, asStatus, seen, calls, raced, overlapped>>

-----------------------------------------------------------------------------
(* The triggers.                                                            *)

Serving(i) == state[i] \in {"running", "stopping"}

\* executeCommittedProposals(): isHeld() is asked once per tick.
Tick(i) ==
  /\ Serving(i) /\ IsHeld(i)
  /\ i \notin ticking /\ list[i] = {}
  /\ ticking' = ticking \cup {i}
  /\ UNCHANGED <<disk, asStatus, state, seen, held, list, asked, run, calls,
                 raced, overlapped>>

\* getCommittedProposals() returns.
Fetched(i) ==
  /\ i \in ticking
  /\ ticking' = ticking \ {i}
  /\ list' = [list EXCEPT ![i] = {p \in Proposal : asStatus[p] = "committed"}]
  /\ UNCHANGED <<disk, asStatus, state, seen, held, asked, run, calls, raced,
                 overlapped>>

\* check-pending-commitments(proposal_id) reads "committed" and joins the
\* executor: no lock is asked for.
AgentAsks(i, p) ==
  /\ Serving(i)
  /\ asStatus[p] = "committed"
  /\ p \notin asked[i]
  /\ asked' = [asked EXCEPT ![i] = @ \cup {p}]
  /\ UNCHANGED <<disk, asStatus, state, seen, held, ticking, list, run, calls,
                 raced, overlapped>>

-----------------------------------------------------------------------------
(* executeCommitted(), with load() and persist() as separate steps.         *)

At(i, pc) == run[i].pc = pc

\* load(): the method under way has its copy, the run stands at pc.
Loads(i, pc) == run' = [run EXCEPT ![i].pc = pc, ![i].view = journal]

\* persist(): tmp file and rename put the copy, edited, in the file's place.
Persists(i, new) ==
  /\ journal' = new
  /\ overlapped' = (overlapped \/ journal # run[i].view)

Settles(i) ==
  /\ run' = [run EXCEPT ![i] = Idle]
  /\ list' = [list EXCEPT ![i] = @ \ {run[i].of}]
  /\ asked' = [asked EXCEPT ![i] = @ \ {run[i].of}]

\* The next run of the queue; requested() loads.
TakesUp(i) ==
  /\ At(i, "idle")
  /\ \E p \in list[i] \cup asked[i] :
       run' = [run EXCEPT ![i] = [pc |-> "requesting", of |-> p, view |-> journal]]
  /\ UNCHANGED <<disk, asStatus, state, seen, held, ticking, list, asked, calls,
                 raced, overlapped>>

\* Mistake: a request that has a row is not made again.
RequestOnce(i) ==
  LET r == run[i] IN
  /\ At(i, "requesting")
  /\ IF r.view.row[r.of].state = "none"
     THEN /\ Persists(i, J!Requested(r.view, r.of))
          /\ run' = [run EXCEPT ![i].pc = "asking"]
          /\ UNCHANGED <<list, asked>>
     ELSE Settles(i) /\ UNCHANGED <<journal, overlapped>>
  /\ UNCHANGED <<lockFile, asStatus, state, seen, held, ticking, calls, raced>>

\* requested() persists, unless the request has a row.
RequestPersists(i) ==
  LET r == run[i] IN
  /\ At(i, "requesting")
  /\ IF r.view.row[r.of].state = "none"
     THEN Persists(i, J!Requested(r.view, r.of))
     ELSE UNCHANGED <<journal, overlapped>>
  /\ run' = [run EXCEPT ![i].pc = "asking"]
  /\ UNCHANGED <<lockFile, asStatus, state, seen, held, ticking, list, asked,
                 calls, raced>>

\* The AS executes the proposal, or replays the ticket it issued before.
TicketArrives(i) ==
  /\ At(i, "asking")
  /\ asStatus' = [asStatus EXCEPT ![run[i].of] = "executed"]
  /\ run' = [run EXCEPT ![i].pc = "ticket"]
  /\ UNCHANGED <<disk, state, seen, held, ticking, list, asked, calls, raced,
                 overlapped>>

\* begin() loads and decides.
BeginLoads(i) ==
  /\ At(i, "ticket")
  /\ IF J!Claimable(journal, run[i].of, Ticket)
     THEN Loads(i, "claiming") /\ UNCHANGED <<list, asked>>
     ELSE Settles(i)
  /\ UNCHANGED <<disk, asStatus, state, seen, held, ticking, calls, raced,
                 overlapped>>

BeginPersists(i) ==
  /\ At(i, "claiming")
  /\ Persists(i, J!Begin(run[i].view, run[i].of, Ticket))
  /\ run' = [run EXCEPT ![i].pc = "claimed"]
  /\ UNCHANGED <<lockFile, asStatus, state, seen, held, ticking, list, asked,
                 calls, raced>>

CallsTool(i) ==
  /\ At(i, "claimed")
  /\ calls' = [calls EXCEPT ![run[i].of] = @ + 1]
  /\ run' = [run EXCEPT ![i].pc = "called"]
  /\ UNCHANGED <<disk, asStatus, state, seen, held, ticking, list, asked, raced,
                 overlapped>>

\* complete() loads; a row that is gone is a programming error, and throws.
CompleteLoads(i) ==
  /\ At(i, "called")
  /\ IF journal.row[run[i].of].ticket = Ticket
     THEN Loads(i, "closing") /\ UNCHANGED <<list, asked>>
     ELSE Settles(i)
  /\ UNCHANGED <<disk, asStatus, state, seen, held, ticking, calls, raced,
                 overlapped>>

CompletePersists(i) ==
  /\ At(i, "closing")
  /\ Persists(i, J!Complete(run[i].view, run[i].of, "done", ""))
  /\ Settles(i)
  /\ UNCHANGED <<lockFile, asStatus, state, seen, held, ticking, calls, raced>>

-----------------------------------------------------------------------------
RunStep(i) ==
  \/ TakesUp(i) \/ RequestPersists(i) \/ TicketArrives(i)
  \/ BeginLoads(i) \/ BeginPersists(i) \/ CallsTool(i)
  \/ CompleteLoads(i) \/ CompletePersists(i)

Next ==
  \E i \in Process :
    \/ AcquireReads(i) \/ AcquireWrites(i) \/ Signal(i) \/ Ends(i)
    \/ Tick(i) \/ Fetched(i) \/ RunStep(i)
    \/ \E p \in Proposal : AgentAsks(i, p)

Spec == Init /\ [][Next]_vars

\* Timers fire and promises are continued; nobody has to start or stop a
\* process, or to ask.
FairSpec ==
  /\ Spec
  /\ \A i \in Process : /\ WF_vars(AcquireWrites(i))
                        /\ WF_vars(Tick(i)) /\ WF_vars(Fetched(i))
                        /\ WF_vars(RunStep(i))

-----------------------------------------------------------------------------
(* Properties.                                                              *)

\* What the journal does guarantee across processes: as long as no process
\* wrote it from an outdated copy, no proposal is acted on twice, whichever
\* process and whichever trigger came to it, with the lock or without.
OnceUnlessOverlapped ==
  ~overlapped => \A p \in Proposal : calls[p] <= 1

\* And a call that was made is on record, as started or as done.
CallsAreOnRecord ==
  ~overlapped =>
    \A p \in Proposal :
      calls[p] > 0 => journal.row[p].state \in {"intent", "done"}

\* A tick or a list in hand: the committed-proposal loop of the process runs.
InLoop(i) == i \in ticking \/ list[i] # {}

\* What the lock does guarantee: two processes that are not being stopped and
\* did not race in acquire() are never both in the loop.
RunningLoopsExclude ==
  ~raced =>
    \A i, k \in Process :
      /\ InLoop(i) /\ state[i] = "running"
      /\ InLoop(k) /\ state[k] = "running"
      => i = k

\* Together: what sharing a data directory leaves true.
DirectoryIsShared == OnceUnlessOverlapped /\ CallsAreOnRecord /\ RunningLoopsExclude

\* While some process holds the lock, an approved proposal gets executed.
HolderExecutes ==
  \A p \in Proposal :
    (asStatus[p] = "committed" /\ \E i \in Process : IsHeld(i))
      ~> (asStatus[p] = "executed" \/ ~\E i \in Process : IsHeld(i))

-----------------------------------------------------------------------------
(* Statements of comments and log lines that the code does not live up to.  *)

\* committed-executor.ts:20-22: the journal "is what stops a repeat across
\* restarts and across processes".
OnceAcrossProcesses == \A p \in Proposal : calls[p] <= 1

\* committed-executor.ts:96: "At most one process per data directory runs the
\* committed-proposal loop."
OneLoop ==
  ~raced => \A i, k \in Process : InLoop(i) /\ InLoop(k) => i = k

\* http.ts:1435-1438, told by a process that did not get the lock: "Stop that
\* gateway if this one should execute."
SurvivorExecutes ==
  \A p \in Proposal :
    (asStatus[p] = "committed" /\ \E i \in Process : state[i] = "running")
      ~> \/ asStatus[p] = "executed"
         \/ ~\E i \in Process : state[i] = "running"
         \/ raced

=============================================================================
