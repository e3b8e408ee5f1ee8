# Suveren Gateway: TLA+ models and proofs

This directory models the parts of the gateway that decide *whether, when and
how often* something happens: approved proposals, tickets, the execution journal,
the choice and the signing of a mandate, what the person is shown of what waits for
them, the session with the Authority Server, what is kept on disk, and the life of
the processes on a host. Paths are relative to the
repository's root; `mcp/` stands for `apps/mcp-server/src/`, `cp/` for
`apps/control-plane/src/`.

## 1. The system

An AI client calls tools through the MCP server. Each gated call needs a ticket
from the Authority Server (AS), which is external. In automatic mode the ticket
is requested at once; in review mode the call becomes a *proposal*, a person
decides it, and the gateway executes it later. The control plane keeps the
person's session and keys, tells the MCP server about them, and serves the
browser UI. A launcher starts both as one tree of processes.

| Component | State | Interaction | Hard part | Module |
|---|---|---|---|---|
| execution journal (`mcp/lib/execution-journal.ts`) | a JSON file of rows `requested → intent → done / failed` | written by both execution paths, by every process on the data directory | a crash between two writes; whole-file read-modify-write of two processes | `ExecutionJournal` |
| committed executor and its lock (`mcp/lib/committed-executor.ts`) | promise chain, in-flight map, `executor.lock` | poll loop, nudge, agents | joins and serialises three triggers; must never wedge | `ReviewExecution`, `SharedDataDir` |
| review execution (`mcp/tools/commitments.ts`) | none of its own between calls | AS, journal, submission store, connectors | ten awaits, nine early returns after the ticket is spent | `ReviewExecution` |
| poll loops, internal routes, startup (`apps/mcp-server/bin/http.ts`) | `draining`, lock | AS lists, executor, outbox, integrations | works off lists that are outdated | all that have a route |
| tool proxy (`mcp/lib/tool-proxy.ts`) | none | AS, mandates, journal, archive, connector | stale mandates, partial failure after the ticket | `AutomaticExecution`, `ReadGate` |
| scope selection (`mcp/lib/scope-specificity.ts`) | none | tool proxy | a fallback must not weaken an approval | `ScopeSelection`, `SelectionFallback` |
| read gate (`mcp/lib/read-gate.ts`) | none | tool proxy, around the connector's call | two sources of the age limit, four kinds of read tools | `ReadGate` |
| attestation cache and gate content (`mcp/lib/attestation-cache.ts`, `shared-state.ts`) | mandates in memory, the active workspace, gates | resync and push routes, refused calls | a sync that overwrites what arrived meanwhile | `MandateCache` |
| encrypted stores (gates, execution log, denials, results, archive) | a file and its copy in memory | the vault key arrives later than the first entries | torn writes, migration, two processes | `EncryptedStores` |
| outcome outbox (`mcp/lib/outcome-outbox.ts`) | rows, delivered or not | poll, replies of tools | once, and not never | `OutcomeOutbox` |
| report (`mcp/lib/report-store.ts`) | the current report and its result | three routes | verification is awaited between read and write | `ReportStore` |
| integrations (`mcp/lib/integration-manager.ts`) | running children, queues, crash timers, npm prefix | routes, crashes, connectors | a start in flight against stop, removal, crash | `IntegrationLifecycle`, `ConnectorInstall` |
| mandate ceremony (`mcp/tools/cp-mandate.ts`, `cp/routes/internal-mandate.ts`, `cp/lib/mandate-ceremony.ts`, `apps/ui/src/pages/AgentReviewPage.tsx`) | one ceremony of each kind under way; the tab's `sessionStorage` | AS, MCP server, the proposal it answers | seven awaits and an undo that may fail; two ways to sign one thing | `MandateCeremony` |
| approvals queue (`apps/ui/src/contexts/ApprovalQueueContext.tsx`, `lib/approval-queue.ts`) | two lists, ids hidden after a decision | AS, by events, a poll and after each decision | answers that overtake one another | `ApprovalQueue` |
| approvals panel (`lib/approval-panel.ts`, `ApprovalPanelHost.tsx`) | open, known ids, a debt; the result on screen | the queue, the person | neither hide nor nag | `ApprovalPanel` |
| session (`cp/lib/session-lock.ts`, `vault.ts`, `mcp-bridge.ts`, `cp/routes/auth.ts`, `mcp/lib/sp-client.ts`) | cookie, key, expiry, in two processes | loopback pushes, late 401 answers | two holders of one session | `SessionLock` |
| session expiry (`cp/lib/session-expiry-scheduler.ts`) | chained timers | session lock | 31-bit delays, sleep, clock changes | `ExpiryTimer` |
| desktop notifications (`cp/lib/notification-dispatcher.ts`) | two timers and four fields | event bus | neither nag nor forget | `NotificationDispatcher` |
| launcher (`bundle/bin/suveren-gateway.js`, `bundle/server.js`) | PID file, service, processes, ports | shells, login service | every command sees only part of it | `Launcher` |

`PROJECT.json` lists the same parts with their files and what of them is not
modelled, and the hazards, each at its line.

What makes them correct:

- **journal, executor, review execution**: one approved proposal, at most one
  call; a durable claim before the call; verdicts and texts are true; every run
  settles.
- **automatic path**: one ticket per call, evidence before the call, and "nothing
  ran" only if nothing did; nothing runs unapproved that a mandate wanted to see.
- **lock between processes**: one process runs the loop; approved proposals do
  not wait for ever.
- **reads**: nothing is returned that no mandate and no setting covers, nothing
  covered is withheld.
- **signing**: no mandate stays active without its content, what a ceremony says is
  so, and what it replaces is retired only after the new one is live.
- **approvals**: what was decided does not come back, what waits is there, and it is
  shown without taking the person's form away.
- **mandates**: a mandate the AS ended is not offered; the content of a living one
  is not deleted.
- **stores, outbox, report**: nothing recorded is lost or brought back, nothing is
  told twice, a result belongs to its report.
- **session**: both processes agree, an ended session is dropped in time, a late
  answer does not end the next one.
- **integrations, launcher**: one child per integration, the pinned package and no
  other, no process left behind.

## 2. Modules

Three kinds of modules stand beside each other:

- *components*, one per row above, with initial states, one action per operation, a
  next-state relation and a specification (and one with fairness where something must
  happen in the end): `Init`, `Next`, `Spec`, `FairSpec`, or with a prefix of their own
  (`LifeInit`, `CacheNext`, ...) where modules are extended together. JavaScript runs
  one synchronous stretch at a time, so an action is the code from one `await` to
  the next; what another process sees in between is cut further
  (`SharedDataDir`). Each module begins with what it stands for and ends with
  its properties and, separately, with *statements of the source that do not
  hold*. Operators above the actions named as mistakes (`BeginUnarchived`,
  `EnsureUsable`, ...) are faulty variants of an action that show that the
  properties notice them; nothing uses them.
- *instances* (`MC...`): constants, symmetry and the specification TLC runs.
- *proofs* (`...Proofs`).

`OneExecution` is the abstract specification of both execution paths: a request
is claimed, acted on at most once under the claim, and closed for good.

### ExecutionJournal

The file is a list of rows; a review-path request owns at most two. Its own row
is keyed on the proposal (`requestKey`), pushed by `requested()`. The other is
written by `commitments.ts` under the synthetic ticket id `as_refused:<id>`: it
is begun and completed in one synchronous stretch, always after the first.
Hence a journal is `[row, asRefused]`: each request's own row and the set of
requests that have the synthetic one. `findByProposal()`, the newest row, is
`Newest`. A row that only exists because the previous one was pruned after 90
days is not modelled. On the automatic path the key is drawn per attempt with a
mandate, hence a pair `<<call, mandate>>`.

### ReviewExecution

| Action | Code |
|---|---|
| `Submit`, `RecordSubmission`, `SubmissionLost` | deferred-commitment branch of the gated tool handler (`tool-proxy.ts:1497-1586`); `Submit(p, FALSE)` is the operator's other device |
| `Decide` | the approver (external) |
| `PollFetch`, `PollNext` | `executeCommittedProposals()` (`http.ts:1487-1513`): the list is a snapshot, one proposal awaited at a time, `draining` is `poll # NoPoll` |
| `AgentReads`, `AgentActs` | `check-pending-commitments(proposal_id)`; what it reads and what it does about it are two steps |
| `Enqueue`, `Settle` | `CommittedExecutor.execute()`: join or append; a settled promise moves the queue on and releases those who await it |
| `Skip`, `Start` | no submission record; `requested()` on disk, then the first attempt leaves |
| `AttemptFails`, `Retry`, `GiveUp` | `postReceipt()`: a network error or 5xx is retried unless it is the last attempt |
| `AsAnswers`, `AsVerdict` | the AS: one ticket per proposal, replayed to the same caller, possibly with a new id |
| `AlreadyExecuted`, `RefusedEarlier`, `TakenAsRefusal` | the branches of the `catch` around `postReceipt()` |
| `BeginOk`, `BeginRefused` | `begin()` |
| `Proceed`, `Refuse`, `PrepareThrows` | verification, archive, AU4 preview, attachments, preparation of the arguments |
| `CallTool`, `ToolSucceeds`, `ToolRefuses`, `ToolThrows` | the downstream call and its three endings |
| `RunAborts` | an early return before any ticket request, or a journal write that throws |
| `Crash`, `Restart` | disk and AS survive, memory does not |

`said` records what the texts handed out claim about a proposal ("ran",
"nothing ran"), because agents act on them. `wire` holds ticket requests that may
still reach the AS after their attempt was given up. A request that is sent
again merges with the copy under way; the AS answers both alike.

### SharedDataDir

`ReviewExecution` takes a method of the journal as one step, which is what it is
inside one process. Between processes it is `load()` and, later, `persist()` of
the whole file, so the run is cut there too. In exchange the AS is reduced to
"gives everybody the same ticket", every call succeeds, every proposal is
approved and was submitted from this data directory, and a failed ticket request
(which only ends the run) is left to `ReviewExecution`. A process is started at
most once; a restart is another process. The two history variables `raced` and
`overlapped` say that two `acquire()` calls, or two journal methods, interleaved:
the properties that hold are stated under the condition that they did not.

### AutomaticExecution, ScopeSelection, SelectionFallback

`AutomaticExecution` is the write path of the gated tool handler for concurrent
calls: `Arrive` reads the candidates, `ChecksPass` is the gatekeeper (its verdict
per mandate is a choice, because the checks of bounds are hap-core's),
`Attempt` is `attemptWithCandidates()`: select a mandate, refuse a downgrade,
make a proposal, or write `requested()` and ask for a ticket. `AsAnswers` is the
AS with its own count per mandate, `Fallback` the branches that drop or flag a
mandate and try the next one, `AboveCap` the 409, `Blocked` every other refusal,
`Begin`, `CallTool`, `ToolAnswers`, `CallThrows` the rest. `Crash` forgets the
calls and refills the cache.

`ScopeSelection` is the pure selection (`strictlyMoreSpecific`, dominators, the
fail-safe tie-break). `SelectionFallback` runs it over every assignment of scopes
while the pool shrinks, and compares it with what scopes mean: the set of calls
they cover.

### ReadGate

One read: the call is decided (`Decide`: refused, or passed on with an age floor
or a folder put into its arguments), the connector answers, and the answer is
cut (`ReadAnswers`). The kinds of tools are the combinations of the adapter fields
that the shipped manifests declare; mandates (`held`, a set: the gate never asks
for their order), items and windows are small sets. In between, the owner may
change the local policy (`SetReadAge`), mandates may be synced (`Sync`) and time
passes (`Tick`).

### MandateCeremony

Two ceremonies sign a mandate in the same order of requests: the page's, which the
person opens (`OpenNew`, `OpenCopy`, `OpenEdit`, `OpenProposal`) and starts with
`Commit`, and the tool's, which the executor of an approved `setup__create_mandate`
starts (`ToolCalled`). Both go through `Checks`, `Signed` (or `SignRefused`,
`SignLost`), `Delivered` or `DeliveryFails`, and `Revoke` when the content did not
arrive. The page goes on to retire what it replaces: `Retire` revokes the old
mandate, `ReadProposal` and `Withdraw` take the proposal back. `Cut` is the end of a
tab or of the control plane in between, `SignOut` the end of the session,
`ToolTimesOut` the 30 seconds of `cp-mandate.ts`, after which the ceremony goes on
unheard. A failed request and one whose answer is lost are troubles; `said` is what
the ceremony told, `opened` what the person had opened the page for.

### ApprovalQueue, ApprovalPanel

`ApprovalQueue` reads two lists with up to `MaxReads` requests each under way:
`Fetch` is the moment the AS answers, `Listed` the moment the answer is taken, in any
order (`Overtaken`). `CardDecides` and `CardDecided` are the request of a card and
its answer, which hides the id until neither list has it (`Prune`), whether the id
still waits by then or not. `DecidedElsewhere` is another device.

`ApprovalPanel` is `reconcilePanel()` (`Reconcile`) with the effects that call
it: React runs them before the next event, so each action ends with them
(`Effects`). The queue changes in any way (`QueueChanges`); the person types,
navigates, decides, sends the panel away (`GoesLater`) or opens it; a result stays
on screen for a while (`ResultArrives`, `ResultShown`, `SlidOut`).

A card's request outlives the card. When its approval leaves the queue, or the panel
is closed and the content is gone (`CardUnmounts`), the card unmounts, another one is
shown and can be decided while the first request is still out: hence `decision`, one
place per request, and `onScreen`, the one whose card is busy. The answer is handled
by `handleDecided()` as it was at the click, so it finds its entry although the queue
has lost it, marks it and holds the panel with its result (`settling`). Two results
may overlap (`overlap`): the timer of either releases whatever is held. The timers are
untimed, so that they fire in any order, which is more than the browser does. Left out
are a click in the 440 ms in which a closed panel slides out, and a card shown with a
result whose approval does not wait any more: its request finds no entry and changes
nothing here.

### MandateCache

The record of each mandate (`Authorization`) at the AS, the cache (`cached`), the
active workspace and the gate content. Handlers (`x1`, `x2`) serve `resync-gates` (`ResyncStarts`,
`TeamLearnt`, `ResyncNext`) and `gate-content` (`PushStarts`); `AsReads` reads a
record, `Served`/`Caches`/`NotServed`/`ReadFailed` use it later. `CallRefused` is
a tool call that invalidates a mandate.

### EncryptedStores, OutcomeOutbox, ReportStore

The six stores are one class but for what happens to a file that cannot be read and
how many accounts it has to serve (the variables `policy` and `accounts`, fixed by
`StoreInit`). `Start`, `SetVaultKey` with the migration of the plaintext file
(`MigrationCut` is a crash within), `Record`, `Delete`, `TornWrite`.
`OutcomeOutbox` adds to such a store what the outbox does: `PollAdmits` and
`PollRecords` are one entry of the poll's list before and after its await,
`Answer` marks and attaches, `ReplyArrives`/`ReplyLost` are the network.
`ReportStore` cuts saving and re-checking at the awaited verification.

### SessionLock, ExpiryTimer, NotificationDispatcher

`SessionLock` numbers sessions by login. A login is cut at its network awaits;
the messages between the processes are two ordered channels of loopback requests
(`toMcp`, `toCp`); calls of either process under way remember which cookie they
were sent with, and are answered 401 when that session has ended, possibly after
another one began. `Logout`, the AS's expiry, a TLS pin or key mismatch and the
scheduled lock end sessions. `ExpiryTimer` is the scheduled lock's timer: chained
chunks, the coarse interval, sleep (timers stand still) and a clock set back.
`NotificationDispatcher` is the debounce and cooldown of the doorbell.

### IntegrationLifecycle, ConnectorInstall, Launcher

`IntegrationLifecycle` is one integration: the queue of `runExclusive()`, a job
through close, install, connect and list (`Begin`, `Close`, `Spawn`, `Connect`,
`List` and how each fails), the crash handler's timers, and the handlers that ask
(add, remove, credentials of a service, restore at unlock, stop all, read policy).
`started` and `respawned` count what `RespawnsAreBounded` compares.

`ConnectorInstall` is `ensureInstalled()` for several
integrations on one npm prefix: the fast path, the install lock, and what npm leaves
behind. When the gateway dies the npm of an install dies with it or goes on without
lock and gateway (`orphans`) and ends with anything that install may land. `SpawnIt`
looks at nothing, like the code: it runs what the shim leads to. The history variable
`alone` holds the integrations that were made ready while no npm was at their package
(`AtWork`); about those the property can say what is spawned. There is one gateway per
prefix and one pinned version per package.

`Launcher` has the commands of several shells, the
supervisor's tree of three processes, the two ports, the PID file and the login
service. A supervisor ends because a child did (`ChildExits`), by a signal it forwards
(`Forwards`), with its process group (`KillTree`), or alone (`KillTop`): by itself
(`SupervisorDies`: SIGKILL, out of memory, an uncaught exception), or when `stop()` may
not kill the group and falls back to the one pid. In the last two cases the children do
not notice; the history variable `stranded` names such trees. launchd and systemd end the
rest of a job whose main process has died, so the service's tree goes as a whole. The
parent that re-executes the supervisor for a saved CA file is one process with it, and a
`kill()` that fails altogether is not modelled. The history variable `crowded` says that a command was given in the middle of
another one, or gave up on a start that was only slow: what the PID file is good for is
stated for the time before.


## 3. Runs

The state machines of different components share nothing that TLC would have to
interleave. So several small instances are checked in one run: a harness
(`MCToolCalls`, `MCRecords`, `MCSessions`, `MCProcesses`, `MCProgress`,
`MCHostProgress`) has the variables of all of them and a variable `part`. The
initial states choose a part; `Next` moves that part and leaves the others as they
began, so the numbers of states add up instead of multiplying. The first four
harnesses EXTEND their components: a property of the run is the component's own
definition, the one the theorems are about. Two parts may move the same component
under different bounds (`cache` and `resync`, `shells` and `turns`). In the two
harnesses for progress, whose components share names, each is an INSTANCE, and its
properties are restated guarded by `part = ...`. Fairness is restated per part with the
same actions as in the component.

| Run | Parts | Checks |
|---|---|---|
| `Review` | the review path under fairness | seven invariants, the refinement of `OneExecution`, runs settle and approved proposals are decided |
| `ToolCalls` | `auto` (`AutomaticExecution`), `read` (`ReadGate`), `sign` (`MandateCeremony`), `panel` (`ApprovalPanel`) | tickets, truth, evidence, refinement; the read policy; signing; what the panel shows |
| `Records` | `cache`, `resync` (`MandateCache`), `among` (`AutomaticExecution` with four mandates), `choice` (`SelectionFallback`), `store` (`EncryptedStores`), `report`, `outbox` | what is kept is kept, told once, and chosen soundly |
| `Sessions` | `lock` (`SessionLock`), `timer` (`ExpiryTimer`), `bell` (`NotificationDispatcher`), `queue` (`ApprovalQueue`) | both processes agree; a session does not outlive its end; what the person is shown |
| `Processes` | `dir` (`SharedDataDir`), `life` (`IntegrationLifecycle`), `install` (`ConnectorInstall`), `shells`, `turns` (`Launcher`) | exclusion, the pin, and nothing left behind |
| `Progress` | `auto`, `lock`, `outbox`, `install` | liveness of the MCP server |
| `HostProgress` | `life`, `dir`, `launch` | liveness of the processes on the host |
| `ReviewExecutedText`, `ReviewLostAnswer`, `SharedDirTwice`, `SessionLateRefusal`, `SignRetiresOther` | one module each | one statement of the source that does not hold |

### What the properties say

Review path (`Review`):

- `AtMostOnce`: no proposal is acted on twice; `ClaimDiscipline` is the inductive
  reason (section 5).
- `RowsAreTrue`: a call is covered by a claim on disk with a ticket of the AS for a
  proposal submitted here; `done` only if it took effect, `refused`, `changed`
  and `as_refused` only if it did not.
- `NoForgottenClaim`: without a failure no early return leaves an open claim.
- `ForeignProposalsUntouched`: proposals of other devices get no ticket and no row.
- `NothingRanWithoutNote`: "nothing ran" is true for ever once said, unless the
  synthetic row was written.
- `OneExecutionPromise`: refinement of `OneExecution`.
- `RunsSettle`, `ApprovedIsDecided`: the queue never wedges; an approved proposal
  of this gateway gets its ticket decided.

Automatic path, reads, signing and the panel (`ToolCalls`, `Records`, `Progress`):

- `OneTicketPerCall`: a call spends at most one ticket over all its fallbacks and
  retries.
- `NothingRanIsTrue`: an agent told that nothing ran is told the truth, also later.
- `CallsAreEvidenced`: whatever ran has its ticket at the AS, in the archive and in
  its row, and every execution the AS counted has a row.
- `ReviewIsKept`: nothing runs by itself that a mandate in force wanted to see first.
- `SelectionIsSound`: more specific means fewer calls, a narrower exception is used.
- `ReadsFollowThePolicy`: no item is returned that no mandate and no setting in
  force during the call covers, and none that is covered is held back.
- `CeremonyKept`: no mandate stays active without its content unless the AS or the
  process fails as well, what a ceremony says is so, nothing is retired before the
  new mandate is live, and a proposal left open is named.
- `PanelFollows`: an arrival while no result is on screen is shown, or owed to a person
  who is typing; what was sent away does not come back by itself.
- `CallsAreAnswered`: every call is answered unless the process dies under it.

What is kept (`Records`, `Progress`):

- `PurgeOnlyIfGone`: gate content is only deleted after its mandate has ended;
  `CleanResyncIsExact`: a resync without interference leaves exactly the right
  mandates.
- `StoresKeep`: what was recorded and not deleted is in a file, memory and file
  agree, and what was deleted does not come back, through migration, new keys and
  torn writes.
- `ReportIsSound`: only a check that was overtaken by a save mixes report and
  result, and the last save stays.
- `AtMostOnce` of `Records`: the agent reads an outcome at most once.
  `OutcomeIsLearned`: and it does read it, unless its reply is lost or it lapses.

Sessions and what the person is shown (`Sessions`, `Progress`):

- `Agreement`: with nothing under way, vault and MCP server hold the same session,
  or the MCP server holds none.
- `WholeSession`: what a login leaves (cookie, key, account) belongs together, also
  when tabs and accounts interleave.
- `ExpiryIsKept`: awake and with an untouched clock no session outlives its end;
  after sleep or a clock set back it ends within one coarse interval.
- `BellIsKept`: at most one notification per quiet period, none dropped, none
  about what did not happen.
- `QueueIsTrue`: what the gateway answered a decision for is not shown again unless
  answers overtook one another, and up-to-date lists show exactly what waits.
- `EndedSessionIsDropped`: an ended session is in the end held by neither process.

Processes (`Processes`, `HostProgress`, `Progress`):

- `DirectoryIsShared`: two processes act on a proposal once, unless two journal
  methods overlapped; every call is on record; the lock excludes those who run and
  did not race for it. `HolderExecutes`: while somebody holds it, approved
  proposals are executed.
- `ConnectorIsWhole`, `ConnectorSettles`: one child per integration, bounded
  respawns, the newest credentials; every job ends and every crash is answered.
- `OnlyThePin`, `StartsSettle`: a pinned connector is made ready only when found at its
  pin, and that is what is spawned unless an npm was at the package as it was found;
  one install runs at a time, nothing that works is removed, every start ends running
  or refused for a reason.
- `NobodyLeftBehind`, `TreesSettle`: no child is left unasked by a supervisor that ends
  through its own code or with its group; the PID file names what runs in the background
  unless commands crossed; trees unwind unless their supervisor alone was killed; the
  service comes back.

### Findings

Five statements of comments and texts are refuted by a run of their own
(`findings` quotes them in full):

| Run | What the code says and what happens |
|---|---|
| `ReviewExecutedText` | a `requested` row means the action cannot have started; `check-pending-commitments` says "EXECUTED ... The action ran" for it, even with no failure at all: the ticket's answer is still under way |
| `ReviewLostAnswer` | a replayed ticket is run once as lost-response recovery; nothing triggers that once the AS says `executed` |
| `SharedDirTwice` | the journal stops a repeat across processes; two overlapping `begin()` calls both succeed |
| `SessionLateRefusal` | a 401 means the session ended server-side; a late one of the previous session clears the one the person has begun since |
| `SignRetiresOther` | signing revokes the mandate that was opened for editing; what the page retires stands in `sessionStorage` and survives an edit left without signing, so that the next mandate signed in the tab retires it |

The modules state further sentences of the source that do not hold. No run of the
project checks them: each is the definition to name in a configuration to see its
counterexample. The comment above each quotes the source.

| Module | Definitions |
|---|---|
| `ReviewExecution` | `AsRefusedMeansRefused` (a 401 and a last 5xx are recorded as refusals of the AS), `NothingRanIsTrue` (the synthetic row then hides one that is `done`) |
| `SharedDataDir` | `OneLoop` (a process shutting down has released the lock and still works off its list), `SurvivorExecutes` (the lock is asked for at start only) |
| `AutomaticExecution` | `LostResponseLeavesRow`, `ConnectorRefusalIsFailed` (an `isError` answer is recorded as done) |
| `MandateCache` | `RefusedStaysOut` (a sync under way brings the mandate back), `KeptOnFailure`, `ContentSurvivesResync` |
| `ReadGate` | `EveryAgeIsBounded`, `EmptyMeansNone` |
| `OutcomeOutbox` | `MarksStay` (two processes), `MarkedIsRead`, `NothingResurfaces` |
| `ReportStore` | `ResultIsOfTheReport`, `WindowIsItsOwn` (a window written by an overtaken check is what every later check reads and keeps) |
| `SessionLock` | `RefusalLocksTheDead`, `EchoIsNoOp`, `LockedMeansStopped` |
| `IntegrationLifecycle` | `NothingLingers`, `RemovedIsNotRespawned`, `HaltedStaysStopped`, `ExplicitStays`, `PolicyApplies` |
| `ConnectorInstall` | `RunsThePin` (the version check is not repeated before the spawn), `SpawnIsUndisturbed` |
| `Launcher` | `StartedServes`, `RestartRuns`, `StopEndsTheTree`, `NotRunningIsTrue`, `InstallDoesNotCompete` |

A few more stand in no definition; the models show them as behaviours:

- The page passes silently over a proposal that was approved meanwhile
  (`AgentReviewPage.tsx:404-406`): person and executor may then both make a mandate.
- "so it was revoked" is also told when the revocation failed
  (`mandate-ceremony.ts:313-316`), and after its 30 seconds `cp-mandate.ts` says the
  control plane could not be reached while the ceremony goes on.
- A list answer that was overtaken brings a decided approval back until the next
  answer (`QueueIsTrue` has that case in its condition).
- A start that takes the fast path while an npm is at its package, that of an orphan or
  of an install in front of it, may spawn what that npm makes of it: a broken tree, or
  through an unpinned integration that shares the package another version (`RunsThePin`).
  An unpinned integration runs whatever version it finds.
- A supervisor that is killed alone, by the system or by the fallback of `stop()`,
  leaves its children running; they hold the ports, and no command of the launcher
  finds them.
- An approval that arrives while the last result is on screen is closed away with it
  and never opens by itself (compare `approval-panel.test.ts:22`); a debt raised over
  a form survives "Later".

`EncryptedStores` runs with one process per data directory: with two, each writes
the rows of its own memory, and `EverythingKept` does not hold.

### Bounds

- **Review path**: two proposals. One shows every interleaving of the triggers with
  itself; the second makes the queue, the stale list and the run of another proposal
  in between real, and nothing relates three. They are interchangeable, but symmetry
  is not used because the run checks liveness. `MaxAttempts` 2 (a first and a last
  attempt is the only distinction the code makes), 3 in the violation runs (the
  code's value). `MaxTickets` 2 (original and re-issued). `MaxFaults` 1: a crash, a
  lost answer, a 401 or a disk error, each at every point; several of
  them are covered by the theorems of section 5, which have no bound.
- **`auto`**: two calls on two mandates with a capacity of one each, so that the
  second call meets the cap, a revocation or the other mandate; two attempts, two
  faults. For progress one call, three attempts, three faults. `among`: one call
  and four mandates, the least for a narrower one, two that want to see the call
  and one that overlaps. `choice`: every assignment of scopes over two keys and two
  values to three mandates, and every fallback order.
- **`read`**: every kind of read tool the shipped manifests declare, every pair of
  five mandates, two folders, three windows, items before, at and
  after each; one change of the setting and one tick of the clock during the call.
- **`sign`**: two ceremonies of the page beside the tool's one, so that what one left
  behind meets the next; two troubles, a failed undo being the second.
- **`queue`**: two approvals, one for named approvers and one not, and two requests
  under way per list, the least for one to overtake another. **`panel`**: two
  approvals (one shown or sent away, one that arrives), two decisions under way or shown,
  so that results overlap, two changes of the setting.
- **`cache`, `resync`**: one mandate with two overlapping handlers, three changes at
  the AS and a failed read; two mandates of different owners, two changes and no
  failure.
- **`store`**: three rows, four starts, one torn write; either policy, and two keys
  where the store survives a change of account (the archive). `report`: three saves,
  two checks.
  `outbox`: two own proposals and a foreign one, a window of one unit in a clock of
  three, one restart, one lost reply.
- **`lock`**: two accounts, two tabs, three logins, or two and a mismatch: the third
  login meets late answers of the first. Loopback requests arrive in order and none is
  lost, the case `Agreement` is about; `SessionLateRefusal` happens in it as well.
  Progress: one tab, two logins, two faults.
- **`timer`**: a clock of 12 with chunks of 3 and a coarse interval of 2, so that
  expiries lie within, at and beyond one and several chunks; two sleeps, the clock
  set back twice. **`bell`**: debounce 1, cooldown 3, flood 3, four events.
- **`dir`**: two processes, because the lock and the overlap relate pairs; two
  proposals. **`life`**: three requests, two crashes, one failure, two respawns
  (the code's limit is larger but only counted). **`install`**: three integrations
  on two packages, so that two wait for one install; one failure, crash and stop.
  `dir` stops once the journal was overwritten: nothing is promised of it any more, and
  the lock does not depend on it.
- **`shells`, `turns`, `launch`**: any two commands of two shells, however they
  interleave; three commands of one shell, none given up on early; one reboot or
  crash of a child or a supervisor: a command, one that races it, and one that undoes it.

In all of them together each action fires, and each mutation listed in
`PROJECT.json` is noticed. Counters of faults, changes, requests and logins are
bounds of the guards, named in the constants.

### Fairness

Weak fairness throughout, on steps the platform takes by itself: timers fire again
(`PollFetch`, `Tick`, `ScheduledLock`, `Respawn`), settled promises and answered
requests are continued by the event loop (`PollNext`, `AgentActs`, `RunStep`,
`Step`, `Proceed`), the AS answers what reached it (`AsAnswers`) and ends sessions
that are over (`Expire`), loopback requests are delivered (`Delivery`), children and
commands run (`Runs`, `Steps`), and npm is assumed to end although it runs without a
timeout. Every request to the AS has a timeout (`as-tls-pin.ts`) and `callTool()`
the one of the MCP SDK, so an attempt always ends. `Restart` assumes a supervisor.
In the launcher every shutdown of the integrations ends (`Shuts`, in `FairSpec`);
`HangingSpec` is what is left without that.

One step has strong fairness, `PollAdmits` of the outbox: the poll fires every five
seconds but can do nothing while the person is signed out, so weak fairness would
never oblige it; assumed is that signed-in periods come back and outlast a poll.

Agents, approvers, signals, persons at a shell and failures owe nothing. Failures
are finite in each behaviour: that they stop at some point is what progress rests on.

Deadlock is checked on the review path. The other runs say `CHECK_DEADLOCK FALSE`:
their systems really stop, when every process has ended, every call is answered, or
the bounded requests are used up.

## 4. Reading a counterexample

`tlc -config ReviewExecutedText.cfg MCReviewExecution.tla` prints the trace. The
actions are named after the code as in section 2; `run.pc`, `at[c].pc` or
`serving[h].pc` says at which await the code stands. In a harness `part` names the
component that moves, and the variables of the others can be ignored.

## 5. Proofs

TLAPS checks the theorems for every value of the constants, under the assumptions
of the modules and the hypotheses named here. The bounds of section 3 are constants
too (any naturals), so the theorems hold for every number of failures, processes,
requests and events. Eight modules hold them; none reaches a `RECURSIVE` operator.
Every safety property that a passing run checks, the two refinements of
`OneExecution` among them, is a theorem; the liveness properties are not. Each is proved
in the same way: an inductive invariant, shown of the initial states and of every action,
and the property from it. The invariants were tried by TLC on the run's instance
before they were proved, but for `CacheInv`, whose induction went through at once.

### Review path: `ReviewExecutionProofs`, `ReviewTruthProofs`

Assumed: `NoProposal` is not a proposal, `MaxAttempts` is positive, a refused
proposal becomes `refused` or `executed`.

| Theorem | Statement |
|---|---|
| `TypeCorrect`, `DisciplineHolds`, `ActsAtMostOnce` | `Spec => []TypeOK`, `[]ClaimDiscipline`, `[]AtMostOnce` |
| `ForeignUntouched` | `Spec => []ForeignProposalsUntouched` |
| `RowsHold` | `Spec => []RowsAreTrue` |
| `NoClaimIsForgotten` | `Spec => []NoForgottenClaim` |
| `NothingRanHolds` | `Spec => []NothingRanWithoutNote` |
| `ReviewPromise` | `Spec => OneExecutionPromise` |

`AtMostOnce` is not inductive: nothing in it says why a run that is about to call
has not called before. `ClaimDiscipline` adds it: a run between `begin()` and the
call stands at the head of the queue under a row `intent` with no call made, a run
after the call under one with one call, and a row that can still be claimed has
none. It is kept because `begin()` passes only a row that is missing or
`requested` (`BeginClaims`), no method of the journal makes a claimed or closed row
claimable again (`ClaimsAreKept`), joining or extending a queue keeps its head
(`EnqueueKeepsHead`) and settling leaves no run behind (`SettledDiscipline`), and a
crash forgets the run but not the row.

The other theorems add layers, each inductive relative to those below it:

1. `Statuses`: only decided proposals are queued, listed or asked about, the AS
   never takes a decision back, a ticket exists only where it says `executed`.
   Needed because a run works with lists and answers that are outdated.
2. `OwnRuns`: a run past its start is one of this gateway's submissions.
3. `Truth`: a row's ticket is one the AS issued, a row that is not closed says
   nothing, effects exist only under a call, and a run in `called` knows whether
   its call took effect (`worked`), which is what makes `done` and `refused` true.
4. `NoForgottenClaim` is inductive with the discipline, because whatever ends a
   run past `begin()` without closing its row spends a fault.
5. `SaidTrue`: "nothing ran" rests on a closed row without effect, or on a refusal
   of the AS. Neither is taken back: a closed row is never written again
   (`FailedRowStays`), and a refused proposal has no ticket, hence no call.

The refinement maps a row to the abstract claim (`ClaimOf`). Of the run's steps
`BeginOk` is `Claim`, `CallTool` is `Act`, every `complete()` is `Close`,
`RefusedEarlier` and `TakenAsRefusal` are `Refuse` or a stutter, and everything else
a stutter (`RunPromises`).

### Automatic path and selection: `AutomaticExecutionProofs`

Assumed: ids are ranked injectively by naturals, `NoMandate` is none, `MaxAttempts`
is positive. The invariant `Sound` is the type invariant and, per call, four
statements: tickets exist only for the mandate in use (`TicketsAreLast`), what a call
that is asking has in hand (`Asking`), what one that has its ticket has on disk
(`Running`), and what one that ran left behind (`Ran`).
`OneCall` says that a step of one call keeps what is required of the others. From it
follow `AutomaticTypes`, `OneTicket`, `NothingRan`, `Evidence` and `ReviewKept`;
`AutomaticPromise` is the refinement of `OneExecution`, action by action.

The fallback comes first in the module. The comparison of scopes is inclusion of the calls they cover (both directions, the
second needs a value no scope names: `OtherAssumption`); what dominates and what the
tie-break picks is what the definition of precedence says; and a pool that has lost
candidates still contains every one that requires approval (`PoolKeepsReview`).
Together `SelectionSound`, which holds for any mandates, keys, values and fallbacks.
That every set of candidates has a first one (`FirstExists`) follows from ranks being
naturals.

### One host: `HostProofs`

| Theorem | Statement | Hypotheses |
|---|---|---|
| `SharedTypes`, `DirectoryShared` | `Spec => []TypeOK`, `[]DirectoryIsShared` | `NoProcessAssumption`, `NoProposalAssumption` |
| `ThePidFileIsTrue`, `NobodyIsLeftBehind` | `LaunchSpec => []LaunchInv`, `[]NobodyLeftBehind` | `LauncherAssumption` |
| `OneInstallAtATime`, `OnlyThePinRuns` | `InstallSpec => []InstallInv`, `OnlyThePin` | `InstallAssumption` |

**The data directory.** `DirectoryIsShared` says how often a tool is called; the journal that prevents a
second call is read long before. `SharedInv` adds

- `RunsAreWhole`: a claim is only prepared on a copy of the file that allows it;
- `RowGuards`, as long as no two journal methods overlapped: the file on disk has a
  claimed or closed row for whatever was called, and at most one run holds the claim;
- `LockIsSound`: who is in the loop runs or is shutting down, who runs and is in the
  loop holds the lock, and without a race the lock file names its holder.

The history flags carry the argument: a step between another's `load()` and
`persist()` sets `overlapped`, so otherwise a copy read before is still the file.

**The launcher.** `ChildrenFollow`, that a child without its supervisor is gone, closing
or has its SIGTERM to take, is inductive as it stands: a supervisor that ends through its
own code signals every child that is not dead, one that is killed with its group takes
them along, and one that is killed alone is `stranded`, about which nothing is said until
the tree is gone and used again. That the PID file names what runs (`Found`) is a statement
about quiet moments and says nothing of how one command leaves the file to the next.
`PidFileIsTrue` says it of every moment as long as nobody crossed anybody (`~crowded`):
one shell at a time is in the middle of something; each tree that runs is the login
service's, in the PID file, or attached to a shell; a shell that stops or waits for a
tree has that one in the file, and one that probes the ports before a start has found
the file empty. Each command step either leaves the trees alone (`Untouched`) or is a
`Launch` or a `KillTree` of the one tree the file names.

**The connectors' packages.** `OneInstall`, that npm runs for the head of the lock only,
is not inductive alone: `TakesTurns` adds that whoever is `installing` is whom npm runs
for and that nobody waits while offline. `OnlyThePin` is an action property. The step to
`ready` goes through npm's success or the fast path, both of which look at the pin
(`Installed`), and a removal through npm is only of what did not work. What is spawned
is another matter, since the spawn looks at nothing: `StaysAtThePin` says of every pinned
integration in `alone` that its package is at the pin and that no npm is at it. It is
kept because an npm is only started for an integration that finds its package wanting,
and at the pin nobody does: a package has one pin, and without a pin whatever is usable
will do. `InstallInv` is both.

### A connector: `LifecycleProofs`

| Theorem | Statement | Hypotheses |
|---|---|---|
| `TheConnectorIsSound`, `TheConnectorIsWhole` | `LifeSpec => []LifeInv`, `[]ConnectorIsWhole` | `LifecycleAssumption` |

Of the three parts of `ConnectorIsWhole` only `RespawnsAreBounded` is inductive, and only
with the types. `LifeInv` adds

- `ChildrenAreSound`: neither the entry's child nor that of the job that is connecting or
  listing is one that was given up on after a failed discovery, and a job that starts
  something is no stop;
- `CredentialsFollow`: whenever what runs, or the job under way, was given older
  credentials than the newest, a job that will read them again is in the queue (`Sent`) or
  is under way itself. `CredentialsArrive` is the case of an empty queue.

`RespawnsAreBounded` is a budget: each start that is asked for brings `MaxRespawns`, and
what was spent, is booked in timers, waits in the queue, is under way or is left to the
entry never exceeds it. A step moves an amount from one of these places to another
(`BudgetHolds`, `SettlesInBudget`). The amounts are sums over sequences, by a recursive
function: that such a function exists and is unique, that appending an element adds it
and removing one subtracts it (`SumIs`, `SumGrows`, `SumShrinks`) is proved by the least
index at which it would fail (`UpTo`).

### Session: `SessionLockProofs`

| Theorem | Statement | Hypotheses |
|---|---|---|
| `SessionTypes`, `SessionIsWhole` | `Spec => []TypeOK`, `[]WholeSession` | `SessionAssumption` |
| `ProcessesAgree` | `Spec => []Agreement` | also `InOrder`: with reordered loopback requests the older one wins |
| `ExpiryKept` | `TimerSpec => []ExpiryIsKept` | `TimesAssumption` |
| `BellKept` | `BellSpec => BellIsKept` | `BellAssumption` |

`WholeSession` is inductive with what a login carries between its awaits
(`LoginsAreWhole`). `Agreement` only speaks of quiet states; `WillAgree` says the same
of all states by looking ahead: what the MCP server will hold once everything sent
to it has arrived (`WillHold`, the last request in the queue) is the vault's cookie,
unless an event on its way will lock the vault. Every step either changes the last
request and the cookie together or neither.

`PreciseIsRight` says that the precise timer never sleeps past the end of a session
and that only the last link of the chain is a check; `CoarseIsNear` bounds by the
coarse interval how long a session has been overdue. For the bell, `RingIsDue`
relates the two timers to the time of the last ring and to the events that wait, so
that a ring is neither early nor, for any event, late; `WindowIsWhatWaits` ties the
three summary fields to the events themselves.

### What is kept: `RecordsProofs`

| Theorem | Statement | Hypotheses |
|---|---|---|
| `ReportTypes`, `ReportSound` | `[]ReportTypeOK`, `[]ReportIsSound` | `ReportAssumption` |
| `OutboxTypes`, `ToldAtMostOnce`, `MarksAreKept` | `[]OutboxTypeOK`, `[]AtMostOnce`, `MarksStay` | `OutboxAssumption`, `OneServer` |
| `StoreTypes`, `StoresAreKept` | `[]StoreTypeOK`, `[]StoresKeep` | `StoreAssumption`, `OneProcess` |
| `CacheIsSound`, `GatesOutliveFailures`, `ResyncIsExact` | `[]CacheInv`, `PurgeOnlyIfGone`, `CleanResyncIsExact` | `HomeAssumption` |

`OneServer` and `OneProcess` say that one server works on the data directory: with two
each writes the rows of its own memory, and the properties do not hold (section 3).
`ReportInv` adds that a check nobody overtook has verified the report that is in the
store, and that a check under way has a report to read at all. `OutboxInv` adds that
memory and file agree on every outcome still in its window, unless the server has
restarted and nobody has signed in since, when it does nothing (`Agree`); and that
what was handed to a reply is marked in both and under way at most once
(`HandedOnce`). `StoreInv` says what file and memory hold in each phase of start,
unlock, migration and torn write: in particular that an archive's file is contained
in the memory or in the copies set aside before a write can replace it.

The two properties of `MandateCache` are about the step in which a handler uses what it
read several awaits before. `WorkIsTrue` carries that over: a handler only asks about
mandates that were signed, so that "absent" is never the answer, and a mandate that was
read as revoked or deleted still is, because the AS takes neither back. `Undisturbed`
says how far a resync has come with which nothing interfered: no other handler is under
way, the active workspace is the account's, and each mandate that has gate content and is
not on its list any more is cached under its workspace, unless a tool call has dropped it
since, which it only does to those that are not to be offered (`Settled`).

### Around a call: `ToolCallsProofs`

| Theorem | Statement | Hypotheses |
|---|---|---|
| `ReadTypes`, `PolicyHolds` | `[]ReadTypeOK`, `[]ReadsFollowThePolicy` | `ReadAssumption` (the widths of windows are finitely many) |
| `SigningTypes`, `CeremonyIsKept` | `[]SigningTypeOK`, `CeremonyKept` | `CeremonyAssumption` |
| `QueueTypes`, `QueueHolds` | `[]QueueTypeOK`, `[]QueueIsTrue` | `QueueAssumption` |
| `PanelTypes`, `PanelDoesFollow` | `[]PanelTypeOK`, `PanelFollows` | `PanelAssumption` |

- **Reads.** `Accepted` carries what was decided past the connector's call: which
  mandates were asked, the window that was computed from them, that the folder is
  one of theirs and that the age floor is within the window. What is cut afterwards
  is compared with that, whatever the owner or a sync does meanwhile. The widest
  signed window covers exactly what some window covers (`WidestCovers`), for which
  finite sets of naturals must have a largest element (`LargestNatural`).
- **Signing.** `CeremonyInv` adds that what is not signed yet does not exist at the AS,
  that between signing and telling the mandate is active (`InPlace`), that a page past
  its first ceremony is about a mandate of its own (`OnesOwn`), and that who is not
  signed in has met trouble.
- **Queue.** Reads are answered in the order the AS served them, unless overtaken. So
  what is gone from one answer is in no later one (`ServedInOrder`), nor in any that
  may still be taken in order (`TakenInOrder`); a decided id was listed when its card
  was shown, and remains hidden until its list has lost it for good
  (`DecidedWasListed`, `AnsweredIsHidden`).
- **Panel.** Once loaded it knows exactly what waits; what is due waits and may be
  opened by itself; what was sent away still waits. These are what `Reconcile` needs of
  its previous state (`EffectsKeep`). What is due also has to survive the end of a result,
  which takes the panel away: as long as no result came over another, only one is shown
  and it is the one held (`OneResult`), and if it was the last of what waited nothing is
  due behind it (`LastOwesNothing`). After an overlap the panel may be closed under an
  arrival, which is not counted as due then.

### What the proofs changed

- `SetBack` of `ExpiryTimer` did not reset the history of overdue time, which made the
  statement about the coarse check mean less after a clock was set back.
- `EncryptedStores` took its policy and its number of accounts from parameters of the
  harness; they are variables that never change, so that one theorem covers all
  stores.
- `WindowIsItsOwn` was meant to belong to `ReportIsSound`. The induction failed: the
  window a mixed write left is read and stored again by the next check, which nobody
  overtook. It is a deviation now (section 3).
- `ReadGate` held mandates in a sequence; neither the gate nor any property asks for
  the order, and a set makes the argument about the widest window possible.
- `Found` of the launcher said that the PID file names what runs whenever no command is
  under way. The induction failed at two commands of different shells that cross, and at
  one that gives up on a slow start: both leave a tree the file does not name. `crowded`
  makes that condition explicit.
- `RespawnsAreBounded` summed what waits with a fold over sequences, whose definition is
  recursive; it is a sum by a recursive function now, about which lemmas can be proved.
- `OnlyThePin` and "no install removes what works" were two properties; one action
  property with the types and `OneInstall` needs no hypothesis about the previous state.
- `OnlyThePin` once looked at the step to `ready` alone, which says nothing of what is
  spawned. The statement about the spawn fails without a condition (`RunsThePin`), and
  the condition that npm is idle at the spawn is too weak: what matters is whether one
  was at the package when it was found, which is what `alone` records.
- `NobodyLeftBehind`, `ConnectorIsWhole`, `OnlyThePin` and the properties of `MandateCache`
  were checked on renamed instances. The runs now extend these modules, so that they
  check the very definitions the theorems state.
- The order of ids was an assumed least element of every set; it is an injective rank
  in the naturals now, from which the least element is derived.

### Only model-checked

- **Liveness** (`Progress`, `HostProgress`, and `RunsSettle` and `ApprovedIsDecided` of
  `Review`): it rests on fairness, hence on `ENABLED`, which is out of the prover's
  reach.
- **That a statement of the source fails** (the five violation runs): a counterexample
  needs no proof.
- **Induction over data** goes by least counterexample where it is about naturals
  (`WFMin` with the well-foundedness of `<`, in `FirstExists`, `LargestNatural` and
  `UpTo`); the induction theorems of the library take an operator, which the provers cannot
  instantiate.

## 6. Not modelled

The map covers under a tenth of the repository's implementation lines. The rest is
mostly not a state machine:

- a **torn write of the outbox's file**: `OutcomeOutbox` rewrites it in one step, the
  cut is in `EncryptedStores`, whose class the outbox shares;
- a **proposal without a submission record**, which is skipped for ever: it is modelled
  (`SubmissionLost`, `Skip`), but no property counts it, since to this gateway it looks
  like another device's; nor one that waits for a process which lost the lock
  (`SurvivorExecutes` does not hold);
- the **user interface** (the largest part) beyond signing and approvals: rendering,
  and copies of what the control plane answers; of the approvals the switch of a team,
  at which a late list of the previous one may be shown;
- **parsing and validation**: integration registry and manifests, arguments,
  attachments, previews, inserts. Where a model needs their result it is a choice;
- **cryptography**: ticket signatures, content binding, sealed proposals, the vault's
  entries, TLS pins and pairing. A check that fails is an outcome of the action that
  makes it, a request that fails because of a pin is a fault;
- **the gatekeeper's bounds**: in hap-core, whose source is not in the repository;
  their verdict per mandate is a choice in `AutomaticExecution`;
- **read-only rendering**: briefs, guides, the listing form of
  `check-pending-commitments`, consumption and its usage log (sums for display), the
  cards of checks (`mcp/lib/checks.ts`);
- **routes** that read or write a single file, the event stream to the browser, the
  desktop's notification commands, Windows, packaging and update checks;
- the **90 days** after which the journal drops a row: they need a clock, and a
  request that old is out of every other component's reach.

The AS, the connectors, npm and the login service are external: the models say what
the gateway's code and comments expect of them.
