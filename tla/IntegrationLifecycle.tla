------------------------ MODULE IntegrationLifecycle ------------------------
(* Starting, stopping and respawning one downstream MCP server              *)
(* (integration-manager.ts) and the handlers that ask for it (http.ts).     *)
(* Every request is a job of the per-id queue of runExclusive(); a job runs *)
(* through closing, installing, connecting and listing, and only then does  *)
(* its caller go on.  A child may die in between, and a crash timer asks    *)
(* for a start of its own.                                                  *)
EXTENDS Integers, SequencesExt

CONSTANTS Children,     \* child processes
          MaxRespawns,  \* MAX_RESPAWN_ATTEMPTS
          Values,       \* versions of the service credentials
          Ages,         \* local read-age windows (readAgeDays)
          MaxRequests, MaxCrashes, MaxFailures  \* bounds: requests of the
                        \* control plane, crashes of children, failed steps

LifecycleAssumption ==
    /\ MaxRespawns \in Nat \ {0}
    /\ {MaxRequests, MaxCrashes, MaxFailures} \subseteq Nat
    /\ 0 \notin Values \union Children /\ Ages \subseteq Nat

VARIABLES required,     \* the integration cannot start without credentials
          creds,        \* serviceCredentials, 0 before the first push
          registry,     \* the gating saved in integrations.json, or None
          saved,        \* the readAgeDays saved there
          running,      \* the entry of `running`, or NoEntry
          live,         \* child processes that are alive
          queue,        \* opQueues: jobs that wait
          work, pc,     \* the job under way and where it is
          timers,       \* crash timers not fired yet, in no order of firing
          gaveUp,       \* the last crash was not answered by a timer
          abandoned,    \* children whose discovery failed (history)
          halted,       \* stop-all-running has answered, no request since (history)
          started, respawned,   \* starts of an entry, timers fired (history)
          requests, crashes, failures

process == <<running, live, abandoned>>
jobs == <<queue, work, pc>>
lifeCounters == <<requests, crashes, failures>>
lifeVars == <<required, creds, registry, saved, running, live, queue, work, pc, timers,
              gaveUp, abandoned, halted, started, respawned, lifeCounters>>

None == "none"
Gatings == {"manifest", "explicit"}
Keeps == {"restore", "service", "respawn"}      \* skipIfRunning
Stops == {"remove", "halt"}
Job(by, gating, attempts, age) ==
    [by |-> by, gating |-> gating, attempts |-> attempts, age |-> age,
     child |-> 0, creds |-> 0]      \* of the job under way: what it has spawned
NoAge == -1
NoJob == Job(None, None, 0, NoAge)
NoEntry == [child |-> 0, gating |-> None, creds |-> 0, attempts |-> 0, age |-> NoAge]

LifeInit == /\ required \in BOOLEAN /\ creds = 0
            /\ registry \in {None, "manifest"} /\ saved \in Ages
            /\ running = NoEntry /\ live = {} /\ abandoned = {}
            /\ queue = <<>> /\ work = NoJob /\ pc = "idle"
            /\ timers = <<>> /\ gaveUp = FALSE /\ halted = FALSE
            /\ started = 0 /\ respawned = 0
            /\ requests = 0 /\ crashes = 0 /\ failures = 0

-----------------------------------------------------------------------------
(* The handlers of http.ts.                                                 *)

Asked == requests < MaxRequests /\ requests' = requests + 1
Resolvable(value) == required => value # 0
Enqueue(job) == queue' = Append(queue, job)
Handled == UNCHANGED <<required, live, abandoned, work, pc, timers, gaveUp, started,
                       respawned, crashes, failures>>

(* /internal/add-integration: save, and start again with what was sent      *)
Add == /\ Asked
       /\ \E gating \in Gatings, age \in Ages :
            /\ registry' = gating /\ saved' = age
            /\ IF Resolvable(creds) THEN Enqueue(Job("add", gating, 0, age))
                                    ELSE UNCHANGED queue
       /\ halted' = FALSE /\ UNCHANGED <<creds, running>> /\ Handled

(* startPendingIntegrations(): at boot and when all credentials were pushed *)
Restore == /\ Asked /\ registry # None /\ running = NoEntry /\ Resolvable(creds)
           /\ Enqueue(Job("restore", "manifest", 0, saved))
           /\ halted' = FALSE /\ UNCHANGED <<creds, registry, saved, running>> /\ Handled

(* As if only an integration that does not run were started                 *)
ChangedNever(entry, value) == FALSE
Changed(entry, value) == entry # NoEntry /\ entry.creds # value

(* /internal/service-credentials: store, then startIntegrationForService()  *)
Service == /\ Asked
           /\ \E value \in Values :
                /\ creds' = value
                /\ IF registry = None THEN UNCHANGED queue
                   ELSE IF running = NoEntry THEN Enqueue(Job("service", "manifest", 0, saved))
                   ELSE IF Changed(running, value)
                   THEN Enqueue(Job("restart", "manifest", 0, saved))
                   ELSE UNCHANGED queue
           /\ halted' = FALSE /\ UNCHANGED <<registry, saved, running>> /\ Handled

(* DELETE /internal/remove-integration: a queued stop, then the registry    *)
RemoveIt == /\ Asked /\ registry # None /\ Enqueue(Job("remove", None, 0, NoAge))
            /\ UNCHANGED <<creds, registry, saved, running, halted>> /\ Handled

(* /internal/stop-all-running: shutdown() stops what is running now         *)
StopAll == /\ Asked
           /\ IF running = NoEntry THEN halted' = TRUE /\ UNCHANGED queue
              ELSE Enqueue(Job("halt", None, 0, NoAge)) /\ UNCHANGED halted
           /\ UNCHANGED <<creds, registry, saved, running>> /\ Handled

(* PATCH /internal/integration/:id/read-policy: the registry's copy and the *)
(* running entry's                                                          *)
SetPolicy == /\ Asked /\ registry # None
             /\ \E age \in Ages \ {saved} :
                  /\ saved' = age
                  /\ running' = IF running = NoEntry THEN running
                                ELSE [running EXCEPT !.age = age]
             /\ UNCHANGED <<creds, registry, queue, halted>> /\ Handled

-----------------------------------------------------------------------------
(* How a job ends, and how its caller goes on.                              *)

Timer(attempts, config) ==
    [attempts |-> attempts, gating |-> config.gating, age |-> config.age]

Crashless == UNCHANGED <<timers, gaveUp>>
(* handleCrash(): a timer, unless the entry has used up its respawns        *)
HandleCrash(attempts, config) ==
    /\ gaveUp' = (attempts >= MaxRespawns)
    /\ timers' = IF gaveUp' THEN timers ELSE Append(timers, Timer(attempts, config))

Stamped(job, entry) == IF job.by = "respawn" /\ entry # NoEntry
                       THEN [entry EXCEPT !.attempts = job.attempts + 1]
                       ELSE entry

(* The job settles with this entry in `running`; rest waits behind it       *)
Settle(job, entry, ok, rest) ==
    /\ running' = Stamped(job, entry)
    /\ work' = NoJob /\ pc' = "idle"
    /\ queue' = IF job.by = "service" /\ Changed(entry, creds)
                THEN Append(rest, Job("restart", "manifest", 0, job.age)) ELSE rest
    /\ registry' = IF job.by = "remove" THEN None ELSE registry
    /\ halted' = (halted \/ job.by = "halt")
    /\ IF job.by = "respawn" /\ ~ok
       THEN HandleCrash(job.attempts + 1, job) ELSE Crashless
    /\ UNCHANGED <<required, creds, saved, respawned, requests, crashes>>

Goes(to) == /\ pc' = to
            /\ UNCHANGED <<required, creds, registry, saved, timers, gaveUp, halted,
                           started, respawned, requests, crashes>>

(* A start that keeps what runs, a stop of what does not                    *)
Idles(job) == IF running = NoEntry THEN job.by \in Stops ELSE job.by \in Keeps

(* As if a start did not stop the child it replaces                         *)
BeginBeside == /\ pc = "idle" /\ queue # <<>> /\ ~Idles(Head(queue))
               /\ work' = Head(queue) /\ queue' = Tail(queue)
               /\ Goes("installing") /\ running' = NoEntry
               /\ UNCHANGED <<live, abandoned, failures>>

(* The next job starts, if it has something to do                           *)
Begin == /\ pc = "idle" /\ queue # <<>> /\ ~Idles(Head(queue))
         /\ work' = Head(queue) /\ queue' = Tail(queue)
         /\ Goes(IF running = NoEntry THEN "installing" ELSE "closing")
         /\ UNCHANGED <<process, failures>>

NothingToDo == /\ pc = "idle" /\ queue # <<>> /\ Idles(Head(queue))
               /\ Settle(Head(queue), running, TRUE, Tail(queue))
               /\ UNCHANGED <<live, abandoned, started, failures>>

(* stopIntegrationLocked(): no crash is handled from here on                *)
Close == /\ pc = "closing"
         /\ live' = live \ {running.child}
         /\ IF work.by \in Stops
            THEN Settle(work, NoEntry, TRUE, queue) /\ UNCHANGED started
            ELSE /\ running' = NoEntry /\ Goes("installing") /\ UNCHANGED <<work, queue>>
         /\ UNCHANGED <<abandoned, failures>>

Entry(child) == [child |-> child, gating |-> work.gating, creds |-> work.creds,
                 attempts |-> 0, age |-> work.age]

(* ensureInstalled() is done: the environment is read and the child spawned *)
Spawn == /\ pc = "installing" /\ Children # live
         /\ LET child == CHOOSE c \in Children : c \notin live
            IN  /\ live' = live \union {child}
                /\ work' = [work EXCEPT !.creds = creds, !.child = child]
         /\ Goes("connecting") /\ UNCHANGED <<running, abandoned, queue, failures>>

(* connectWithGuard() succeeds                                              *)
Connect == /\ pc = "connecting" /\ work.child \in live
           /\ Goes("listing") /\ UNCHANGED <<process, work, queue, failures>>

(* listTools() answers: only now is the entry visible                       *)
List == /\ pc = "listing" /\ work.child \in live
        /\ Settle(work, Entry(work.child), TRUE, queue)
        /\ started' = IF work.by = "respawn" THEN started ELSE started + 1
        /\ UNCHANGED <<live, abandoned, failures>>

Failed == failures < MaxFailures /\ failures' = failures + 1
Fail == Settle(work, NoEntry, FALSE, queue) /\ UNCHANGED started

(* The mode, the install, the pin or the remote's preflight refuses         *)
InstallFails == /\ pc = "installing" /\ Failed /\ Fail
                /\ UNCHANGED <<live, abandoned>>

(* As if connect() were awaited without the guard                           *)
ConnectFailsByItself == /\ pc = "connecting" /\ work.child \in live
                        /\ Failed /\ Fail /\ UNCHANGED <<live, abandoned>>

(* No handshake: the guard closes the transport                             *)
ConnectFails == /\ pc = "connecting"
                /\ IF work.child \in live THEN Failed ELSE UNCHANGED failures
                /\ live' = live \ {work.child}
                /\ Fail /\ UNCHANGED abandoned

(* listTools() throws: nothing closes the child                             *)
ListFails == /\ pc = "listing"
             /\ IF work.child \in live THEN Failed ELSE UNCHANGED failures
             /\ abandoned' = abandoned \union ({work.child} \intersect live)
             /\ Fail /\ UNCHANGED live

-----------------------------------------------------------------------------
(* A child dies.  Only that of the entry is watched, and not while closing  *)
Watched(child) == running # NoEntry /\ running.child = child /\ pc # "closing"

Crash == \E child \in live :
    /\ crashes < MaxCrashes /\ crashes' = crashes + 1
    /\ live' = live \ {child} /\ abandoned' = abandoned \ {child}
    /\ IF Watched(child)
       THEN running' = NoEntry /\ HandleCrash(running.attempts, running)
       ELSE UNCHANGED running /\ Crashless
    /\ UNCHANGED <<required, creds, registry, saved, jobs, halted, started, respawned,
                   requests, failures>>

(* The timer of a crash fires: a start with the entry's own configuration   *)
Respawn == \E i \in DOMAIN timers :
    /\ timers' = RemoveAt(timers, i)
    /\ Enqueue(Job("respawn", timers[i].gating, timers[i].attempts, timers[i].age))
    /\ respawned' = respawned + 1
    /\ UNCHANGED <<required, creds, registry, saved, process, work, pc, gaveUp, halted,
                   started, lifeCounters>>

Request == Add \/ Restore \/ Service \/ RemoveIt \/ StopAll \/ SetPolicy
Proceed == \/ Begin \/ NothingToDo \/ Close \/ Spawn \/ Connect \/ List
           \/ InstallFails \/ ConnectFails \/ ListFails
LifeNext == Request \/ Proceed \/ Crash \/ Respawn

LifeSpec == LifeInit /\ [][LifeNext]_lifeVars

(* Every await of a job ends: the handshake has a timeout, a close and the  *)
(* SDK's request have theirs, npm runs without one and is assumed to end.   *)
LifeFairSpec == LifeSpec /\ WF_lifeVars(Proceed) /\ WF_lifeVars(Respawn)

-----------------------------------------------------------------------------
(* The state each variable ranges over.                                     *)
Entries == [child : Children, gating : Gatings, creds : {0} \union Values,
            attempts : 0 .. MaxRespawns, age : Ages]
Jobs == [by : Keeps \union Stops \union {"add", "restart"},
         gating : Gatings \union {None}, attempts : 0 .. MaxRespawns - 1,
         age : Ages \union {NoAge}, child : {0} \union Children,
         creds : {0} \union Values]
Timers == [attempts : 0 .. MaxRespawns - 1, gating : Gatings, age : Ages]
LifeTypeOK ==
    /\ required \in BOOLEAN /\ creds \in {0} \union Values
    /\ registry \in Gatings \union {None} /\ saved \in Ages
    /\ running \in Entries \union {NoEntry}
    /\ live \subseteq Children /\ abandoned \subseteq live
    /\ queue \in Seq(Jobs) /\ work \in Jobs \union {NoJob}
    /\ pc \in {"idle", "closing", "installing", "connecting", "listing"}
    /\ (pc = "idle") = (work = NoJob)
    /\ timers \in Seq(Timers)
    /\ gaveUp \in BOOLEAN /\ halted \in BOOLEAN
    /\ started \in Nat /\ respawned \in Nat
    /\ requests \in Nat /\ crashes \in Nat /\ failures \in Nat

(* Whatever order starts, stops, crashes and respawns come in, at most one  *)
(* child is alive besides those whose discovery failed, and an entry of     *)
(* `running` stands for a child that is alive: no start leaks a process     *)
(* and no late close tears down a successor.                                *)
OneChild ==
    /\ live \ abandoned \subseteq
         (IF running = NoEntry THEN {} ELSE {running.child})
         \union (IF pc \in {"connecting", "listing"} THEN {work.child} ELSE {})
    /\ running # NoEntry /\ pc # "closing" => running.child \in live
    /\ pc \in {"installing", "connecting", "listing"} => running = NoEntry

(* When every job is done, a saved integration that runs was started with   *)
(* the newest credentials, also those that arrived during a start.          *)
CredentialsArrive ==
    pc = "idle" /\ queue = <<>> /\ registry # None /\ running # NoEntry
        => running.creds = creds

(* A child that keeps crashing is respawned MaxRespawns times for every     *)
(* start somebody asked for and no more, whatever timers overlap: the       *)
(* respawns still to come are spent by what is waiting.                     *)
Left(attempts) == MaxRespawns - attempts
SumOf(s) == LET sum[n \in 0 .. Len(s)] == IF n = 0 THEN 0 ELSE sum[n - 1] + s[n]
            IN  sum[Len(s)]
OfTimers == SumOf([i \in DOMAIN timers |-> Left(timers[i].attempts)])
OfJob(job) == IF job.by = "respawn" THEN Left(job.attempts + 1) ELSE 0
OfQueue == SumOf([i \in DOMAIN queue |-> OfJob(queue[i])])
OfRunning == IF running = NoEntry THEN 0 ELSE Left(running.attempts)
RespawnsAreBounded ==
    respawned + OfTimers + OfQueue + OfJob(work) + OfRunning <= MaxRespawns * started

(* Together: there is one child, it is the one that is meant to run, and it *)
(* runs with what it was last given.                                        *)
ConnectorIsWhole ==
    LifeTypeOK /\ OneChild /\ RespawnsAreBounded /\ CredentialsArrive

(* A job that fails, hangs in a handshake or finds nothing to do never      *)
(* wedges the queue: every job that is asked for is done.                   *)
EveryJobEnds == queue # <<>> \/ pc # "idle" ~> queue = <<>> /\ pc = "idle"

(* A crash is answered: the child runs again or the gateway has given up.   *)
CrashIsAnswered == timers # <<>> ~> running # NoEntry \/ gaveUp

(* A start that fails leaves no child behind (integration-manager.ts: "On   *)
(* failure the transport is closed so the child process can't linger").     *)
NothingLingers == pc = "idle" /\ running = NoEntry => live = {}

(* No child is spawned for a crash of an integration that has been removed  *)
(* since (http.ts: 'For "stop and forget", use DELETE').                    *)
RemovedIsNotRespawned ==
    pc = "connecting" /\ work.by = "respawn" => registry # None

(* After stop-all-running nothing runs until somebody asks for a start      *)
(* (http.ts: "Stop every running integration").                             *)
HaltedStaysStopped == pc = "idle" /\ halted => running = NoEntry

(* A start on behalf of the manifest never replaces an entry an explicit    *)
(* add-integration brought up (startOneIntegration(): "this call must not   *)
(* restart the integration with the manifest config").                      *)
ExplicitStays ==
    [][pc = "closing" /\ pc' = "installing" /\ running.gating = "explicit"
         => work.by = "add"]_lifeVars

(* Once every job is done, what runs reads under the window that is saved   *)
(* (http.ts: the setting "takes effect on the next read").                  *)
PolicyApplies ==
    pc = "idle" /\ queue = <<>> /\ registry # None /\ running # NoEntry
        => running.age = saved
=============================================================================
