------------------------------ MODULE Launcher ------------------------------
(* The command line (suveren-gateway.js) and the supervisor it spawns       *)
(* (server.js), on POSIX.  A gateway is a tree of three processes: the      *)
(* supervisor, the control plane that holds the UI port and the MCP server  *)
(* that holds the MCP port.  Several shells run start, stop and restart;    *)
(* the login service starts trees of its own and leaves no PID file.        *)
EXTENDS Integers, FiniteSets

CONSTANTS Gens,         \* gateway trees; a tree that is gone is used again
          Shells,
          Commands,     \* the commands the shells give
          MaxCommands, MaxFallen, \* bounds: commands given, processes that crash
          Slow,         \* a start may need more than waitForListening() allows
          NoTree

LauncherAssumption ==
    /\ NoTree \notin Gens /\ {MaxCommands, MaxFallen} \subseteq Nat /\ Slow \in BOOLEAN
    /\ Commands \subseteq {"start", "detach", "stop", "restart", "install", "uninstall"}

VARIABLES top,          \* the supervisor of each tree
          child,        \* its two children
          signalled,    \* SIGTERMs sent and not yet taken, <<tree, process>>
          port,         \* who listens
          stranded,     \* history: trees whose supervisor alone was killed
          pidFile,      \* gateway.pid
          service,      \* the login service: none, enabled (from the next
                        \* login) or active
          managed,      \* the tree the login service runs
          shell,        \* the command each shell runs and where it is
          told,         \* what its last command said, of which tree
          crowded,      \* a command was given while another one was under way,
                        \* or a start was only slow (history)
          commands, fallen

tree == <<top, child, signalled, port, stranded>>
login == <<service, managed>>
launchCounters == <<commands, fallen>>
launchVars == <<tree, pidFile, login, shell, told, crowded, launchCounters>>

Roles == {"ui", "mcp"}
Waiting == [cmd |-> "none", at |-> "idle", gen |-> NoTree]
Said(what, g) == [what |-> what, gen |-> g]

LaunchInit == /\ top = [g \in Gens |-> "dead"]
              /\ child = [g \in Gens |-> [r \in Roles |-> "dead"]]
              /\ signalled = {} /\ port = [r \in Roles |-> NoTree] /\ stranded = {}
              /\ pidFile = NoTree /\ service = "none" /\ managed = NoTree
              /\ shell = [s \in Shells |-> Waiting]
              /\ told = [s \in Shells |-> Said("nothing", NoTree)]
              /\ crowded = FALSE /\ commands = 0 /\ fallen = 0

-----------------------------------------------------------------------------
(* One tree                                                                 *)

Alive(g) == top[g] = "up"
Gone(g) == ~Alive(g) /\ \A r \in Roles : child[g][r] = "dead"
Attached == {shell[s].gen : s \in Shells}
Free == {g \in Gens : Gone(g) /\ g \notin {pidFile, managed} \union Attached}

(* server.js spawns both children                                           *)
Launch(g) == /\ top' = [top EXCEPT ![g] = "up"]
             /\ child' = [child EXCEPT ![g] = [r \in Roles |-> "booting"]]
             /\ signalled' = {x \in signalled : x[1] # g}
             /\ stranded' = stranded \ {g} /\ UNCHANGED port

PortsWithout(g) == [r \in Roles |-> IF port[r] = g THEN NoTree ELSE port[r]]
KillTree(g) == /\ top' = [top EXCEPT ![g] = "dead"]
               /\ child' = [child EXCEPT ![g] = [r \in Roles |-> "dead"]]
               /\ signalled' = {x \in signalled : x[1] # g}
               /\ port' = PortsWithout(g) /\ stranded' = stranded \ {g}

(* The supervisor is killed and its children do not notice                  *)
KillTop(g) == /\ top' = [top EXCEPT ![g] = "dead"]
              /\ signalled' = signalled \ {<<g, "top">>}
              /\ stranded' = stranded \union {g} /\ UNCHANGED <<child, port>>

(* kickstart -k, systemctl restart                                          *)
Relaunch(g) == /\ child' = [child EXCEPT ![g] = [r \in Roles |-> "booting"]]
               /\ signalled' = {x \in signalled : x[1] # g}
               /\ port' = PortsWithout(g) /\ UNCHANGED <<top, stranded>>

ChildEnds(g, r) == /\ child' = [child EXCEPT ![g][r] = "dead"]
                   /\ port' = IF port[r] = g THEN [port EXCEPT ![r] = NoTree] ELSE port
Processes == UNCHANGED <<stranded, pidFile, login, shell, told, crowded, commands>>

(* listen(): EADDRINUSE ends the child                                      *)
Listens(g, r) ==
    /\ child[g][r] = "booting"
    /\ IF port[r] = NoTree
       THEN /\ port' = [port EXCEPT ![r] = g]
            /\ child' = [child EXCEPT ![g][r] = "up"]
       ELSE ChildEnds(g, r)
    /\ UNCHANGED <<top, signalled, fallen>> /\ Processes

(* As if the supervisor left without telling the other child                *)
ChildExitsQuietly(g) ==
    /\ Alive(g) /\ \E r \in Roles : child[g][r] = "dead"
    /\ top' = [top EXCEPT ![g] = "dead"]
    /\ UNCHANGED <<child, signalled, port, fallen>> /\ Processes
(* As if a child's exit were only logged                                    *)
ChildExitIgnored(g) == FALSE
(* One child is gone: the other one gets SIGTERM, the supervisor exits      *)
ChildExits(g) ==
    /\ Alive(g) /\ \E r \in Roles : child[g][r] = "dead"
    /\ signalled' = signalled \union {<<g, r>> : r \in {q \in Roles : child[g][q] # "dead"}}
    /\ top' = [top EXCEPT ![g] = "dead"]
    /\ UNCHANGED <<child, port, fallen>> /\ Processes

(* The supervisor takes SIGTERM and forwards it                             *)
Forwards(g) ==
    /\ Alive(g) /\ <<g, "top">> \in signalled
    /\ signalled' = (signalled \ {<<g, "top">>}) \union {<<g, r>> : r \in Roles}
    /\ UNCHANGED <<top, child, port, fallen>> /\ Processes

(* A child takes SIGTERM.  The MCP server goes on listening while it stops  *)
(* its integrations                                                         *)
Takes(g, r) ==
    /\ <<g, r>> \in signalled
    /\ signalled' = signalled \ {<<g, r>>}
    /\ IF r = "mcp" /\ child[g][r] \in {"up", "closing"}
       THEN child' = [child EXCEPT ![g][r] = "closing"] /\ UNCHANGED port
       ELSE ChildEnds(g, r)
    /\ UNCHANGED <<top, fallen>> /\ Processes

(* integrationManager.shutdown() is done                                    *)
Closes(g) == /\ child[g].mcp = "closing" /\ ChildEnds(g, "mcp")
             /\ UNCHANGED <<top, signalled, fallen>> /\ Processes

ChildCrash(g, r) == /\ child[g][r] = "up" /\ fallen < MaxFallen
                    /\ fallen' = fallen + 1 /\ ChildEnds(g, r)
                    /\ UNCHANGED <<top, signalled>> /\ Processes

(* SIGKILL, out of memory, an uncaught exception.  launchd and systemd take *)
(* the rest of a job of theirs; nobody else does                            *)
SupervisorDies(g) == /\ Alive(g) /\ fallen < MaxFallen
                     /\ fallen' = fallen + 1
                     /\ IF g = managed THEN KillTree(g) ELSE KillTop(g)
                     /\ UNCHANGED <<pidFile, login, shell, told, crowded, commands>>

-----------------------------------------------------------------------------
(* The commands                                                             *)

ShellGoes(s, cmd, at, g) ==
    shell' = [shell EXCEPT ![s] = [cmd |-> cmd, at |-> at, gen |-> g]]
Busy(s) == shell[s].at \notin {"idle", "attached"}
Says(s, what, g) == /\ told' = [told EXCEPT ![s] = Said(what, g)]
                    /\ shell' = [shell EXCEPT ![s] = Waiting]
Given(s, cmd) == /\ shell[s] = Waiting /\ cmd \in Commands
                 /\ commands < MaxCommands /\ commands' = commands + 1
                 /\ crowded' = (crowded \/ \E t \in Shells : Busy(t))
(* Also after uninstall, which leaves the job running                       *)
ServiceRunning == managed # NoTree /\ Alive(managed)
PidAlive == pidFile # NoTree /\ Alive(pidFile)
Untouched == UNCHANGED <<tree, login, fallen>>

(* start: the PID file; a stale one is removed                              *)
StartBegins(s, cmd) ==
    IF PidAlive THEN Says(s, "already running", pidFile) /\ UNCHANGED pidFile
    ELSE ShellGoes(s, cmd, "probe ui", NoTree) /\ pidFile' = NoTree /\ UNCHANGED told
Start(s, cmd) == /\ Given(s, cmd) /\ cmd \in {"start", "detach"}
                 /\ StartBegins(s, cmd) /\ Untouched

(* isPortListening(): first the UI's port, then that of MCP                 *)
ProbeUi(s) ==
    /\ shell[s].at = "probe ui"
    /\ IF port.ui # NoTree THEN Says(s, "in use", NoTree)
       ELSE ShellGoes(s, shell[s].cmd, "probe mcp", NoTree) /\ UNCHANGED told
    /\ UNCHANGED <<pidFile, crowded, commands>> /\ Untouched

ProbeMcp(s) ==
    /\ shell[s].at = "probe mcp"
    /\ IF port.mcp # NoTree
       THEN Says(s, "in use", NoTree) /\ UNCHANGED <<tree, pidFile>>
       ELSE \E g \in Free :
              /\ Launch(g)
              /\ ShellGoes(s, shell[s].cmd,
                      IF shell[s].cmd = "start" THEN "attached" ELSE "await", g)
              /\ pidFile' = IF shell[s].cmd = "start" THEN pidFile ELSE g
              /\ UNCHANGED told
    /\ UNCHANGED <<login, crowded, launchCounters>>

(* waitForListening() asks the port, whoever listens there                  *)
Serves(s) == /\ shell[s].at = "await" /\ port.ui # NoTree
             /\ Says(s, "started", shell[s].gen)
             /\ UNCHANGED <<pidFile, crowded, commands>> /\ Untouched
NotServing(s) == /\ shell[s].at = "await" /\ port.ui = NoTree
                 /\ Slow \/ (~Alive(shell[s].gen) /\ child[shell[s].gen].ui = "dead")
                 /\ Says(s, "failed", shell[s].gen) /\ pidFile' = NoTree
                 /\ crowded' = (crowded \/ Alive(shell[s].gen))
                 /\ UNCHANGED commands /\ Untouched

(* In the foreground: Ctrl+C is forwarded, the command ends with its child  *)
Interrupt(s) == /\ shell[s].at = "attached" /\ Alive(shell[s].gen)
                /\ signalled' = signalled \union {<<shell[s].gen, "top">>}
                /\ UNCHANGED <<top, child, port, fallen>> /\ Processes
Detached(s) == /\ shell[s].at = "attached" /\ ~Alive(shell[s].gen)
               /\ Says(s, "ended", shell[s].gen)
               /\ UNCHANGED <<pidFile, crowded, commands>> /\ Untouched

(* stop: by the PID file only                                               *)
StopBegins(s, cmd) ==
    IF PidAlive
    THEN /\ signalled' = signalled \union {<<pidFile, "top">>}
         /\ ShellGoes(s, cmd, "stopping", pidFile) /\ UNCHANGED <<told, pidFile>>
    ELSE /\ Says(s, IF pidFile # NoTree THEN "stale"
                    ELSE IF ServiceRunning THEN "under the service" ELSE "not running", NoTree)
         /\ pidFile' = NoTree /\ UNCHANGED signalled
Stop(s) == /\ Given(s, "stop") /\ StopBegins(s, "stop")
           /\ UNCHANGED <<top, child, port, stranded, login, fallen>>

Stopped(s) == IF shell[s].cmd = "restart"
              THEN ShellGoes(s, "restart", "again", NoTree) /\ UNCHANGED told
              ELSE Says(s, "stopped", shell[s].gen)
(* The supervisor is gone within 5 s, or the whole group is killed; where   *)
(* that is not permitted, the supervisor                                    *)
StopEnds(s) == /\ shell[s].at = "stopping" /\ ~Alive(shell[s].gen)
               /\ Stopped(s) /\ pidFile' = NoTree
               /\ UNCHANGED <<crowded, commands>> /\ Untouched
StopKills(s) == /\ shell[s].at = "stopping" /\ Alive(shell[s].gen)
                /\ KillTree(shell[s].gen) \/ KillTop(shell[s].gen)
                /\ Stopped(s) /\ pidFile' = NoTree
                /\ UNCHANGED <<login, crowded, launchCounters>>

(* restart: the login service's way if it runs, else stop and start again   *)
Restart(s) ==
    /\ Given(s, "restart") /\ UNCHANGED <<login, fallen>>
    /\ IF ServiceRunning
       THEN /\ Relaunch(managed) \/ (service = "none" /\ UNCHANGED tree)
            /\ Says(s, "restarted", managed) /\ UNCHANGED pidFile
       ELSE /\ UNCHANGED <<top, child, port, stranded>>
            /\ IF PidAlive THEN StopBegins(s, "restart")
               ELSE StartBegins(s, "restart") /\ UNCHANGED signalled
StartAgain(s) == /\ shell[s].at = "again" /\ StartBegins(s, "restart")
                 /\ UNCHANGED <<crowded, commands>> /\ Untouched

-----------------------------------------------------------------------------
(* The login service                                                        *)

(* service install: registered, and loaded at once when the PID file names  *)
(* nothing alive (macOS; elsewhere it waits for the login)                  *)
Install(s) ==
    /\ Given(s, "install") /\ service = "none"
    /\ \/ service' = "enabled" /\ UNCHANGED pidFile
       \/ /\ ~PidAlive /\ service' = "active" /\ pidFile' = NoTree
    /\ Says(s, "installed", NoTree) /\ UNCHANGED <<tree, managed, fallen>>
Uninstall(s) ==
    /\ Given(s, "uninstall") /\ service # "none" /\ service' = "none"
    /\ Says(s, "removed", NoTree) /\ UNCHANGED <<tree, managed, pidFile, fallen>>

(* RunAtLoad, KeepAlive                                                     *)
ServiceLaunches ==
    /\ service = "active" /\ (managed # NoTree => ~Alive(managed))
    /\ \E g \in Free : Launch(g) /\ managed' = g
    /\ UNCHANGED <<pidFile, service, shell, told, crowded, launchCounters>>

(* A reboot, and the login after it                                         *)
Reboot ==
    /\ fallen < MaxFallen /\ fallen' = fallen + 1
    /\ top' = [g \in Gens |-> "dead"] /\ signalled' = {}
    /\ child' = [g \in Gens |-> [r \in Roles |-> "dead"]]
    /\ port' = [r \in Roles |-> NoTree] /\ stranded' = {} /\ managed' = NoTree
    /\ service' = IF service = "enabled" THEN "active" ELSE service
    /\ shell' = [s \in Shells |-> Waiting]
    /\ told' = [s \in Shells |-> Said("nothing", NoTree)]
    /\ UNCHANGED <<pidFile, crowded, commands>>

Runs(g) == \/ \E r \in Roles : Listens(g, r) \/ Takes(g, r)
           \/ ChildExits(g) \/ Forwards(g)
Shuts(g) == Closes(g)
Falls(g) == SupervisorDies(g) \/ \E r \in Roles : ChildCrash(g, r)
Steps(s) == \/ ProbeUi(s) \/ ProbeMcp(s) \/ Serves(s) \/ NotServing(s) \/ Detached(s)
            \/ StopEnds(s) \/ StartAgain(s)
Command(s) == \/ \E cmd \in Commands : Start(s, cmd)
              \/ Stop(s) \/ Restart(s) \/ Install(s) \/ Uninstall(s)

LaunchNext == \/ \E g \in Gens : Runs(g) \/ Shuts(g) \/ Falls(g)
              \/ \E s \in Shells : Steps(s) \/ Command(s) \/ Interrupt(s) \/ StopKills(s)
              \/ ServiceLaunches \/ Reboot
LaunchSpec == LaunchInit /\ [][LaunchNext]_launchVars

(* Processes and commands run, the service manager keeps its job alive      *)
Runnable == /\ \A g \in Gens : WF_launchVars(Runs(g))
            /\ \A s \in Shells : WF_launchVars(Steps(s))
            /\ WF_launchVars(ServiceLaunches)
HangingSpec == LaunchSpec /\ Runnable
(* ... and every shutdown of the integrations ends                          *)
LaunchFairSpec == HangingSpec /\ \A g \in Gens : WF_launchVars(Shuts(g))

-----------------------------------------------------------------------------
(* The state each variable ranges over, and who may hold a port.            *)
LaunchTypeOK ==
    /\ top \in [Gens -> {"up", "dead"}]
    /\ child \in [Gens -> [Roles -> {"dead", "booting", "up", "closing"}]]
    /\ \A g \in Gens : child[g].ui # "closing"
    /\ signalled \subseteq Gens \X {"top", "ui", "mcp"}
    /\ port \in [Roles -> Gens \union {NoTree}] /\ stranded \subseteq Gens
    /\ \A g \in Gens, r \in Roles : (port[r] = g) = (child[g][r] \in {"up", "closing"})
    /\ pidFile \in Gens \union {NoTree} /\ managed \in Gens \union {NoTree}
    /\ service \in {"none", "enabled", "active"}
    /\ shell \in [Shells -> [cmd : {"none", "start", "detach", "stop", "restart"},
                             at : {"idle", "probe ui", "probe mcp", "attached", "await",
                                   "stopping", "again"},
                             gen : Gens \union {NoTree}]]
    /\ \A s \in Shells : shell[s].at \in {"attached", "await", "stopping"} => shell[s].gen # NoTree
    /\ crowded \in BOOLEAN

(* No child is left behind unasked by what ends a supervisor through its    *)
(* own code (a child that exits, a SIGTERM) or with its group (stop, the    *)
(* login service, a reboot): each is gone, stopping or has its SIGTERM to   *)
(* take.  A supervisor that alone is killed asks nobody.                    *)
ChildrenFollow ==
    \A g \in Gens \ stranded, r \in Roles :
        ~Alive(g) => child[g][r] \in {"dead", "closing"} \/ <<g, r>> \in signalled

(* A tree that a command started in the background and that runs is named   *)
(* by the PID file, whatever died, was stopped or restarted before, unless  *)
(* a command was given in the middle of another one or gave up on a start   *)
(* that was only slow.                                                      *)
Found == ~crowded /\ (\A s \in Shells : ~Busy(s)) =>
           \A g \in Gens : Alive(g) /\ g # managed /\ g \notin Attached => pidFile = g

(* Nothing that runs is out of reach of the user's commands: no child       *)
(* outlives its tree, unless the supervisor alone was killed, and no tree   *)
(* its PID file.                                                            *)
NobodyLeftBehind == LaunchTypeOK /\ ChildrenFollow /\ Found

(* Two trees that start against each other do not stay half up: the ports   *)
(* end up with one tree or with none, unless children without a supervisor  *)
(* hold one.                                                                *)
SplitResolves ==
    (NoTree \notin {port.ui, port.mcp} /\ port.ui # port.mcp)
        ~> \/ port.ui = port.mcp
           \/ \E r \in Roles : port[r] \in {NoTree} \union stranded

(* Once the supervisor is gone the whole tree goes, unless it alone was     *)
(* killed.                                                                  *)
TreeUnwinds == \A g \in Gens : ~Alive(g) ~> (Gone(g) \/ Alive(g) \/ g \in stranded)

(* A gateway the login service keeps is there again after every crash,      *)
(* unless it is removed or somebody else has a port.                        *)
ServiceComesBack ==
    service = "active" ~> \/ service # "active"
                          \/ managed # NoTree /\ port = [r \in Roles |-> managed]
                          \/ \E r \in Roles : port[r] \notin {NoTree, managed}

(* "started" is said of a tree that serves (start(): '"started" must mean   *)
(* SERVING').                                                               *)
StartedServes ==
    [][\A s \in Shells : told'[s] # told[s] /\ told'[s].what = "started"
         => Alive(told'[s].gen)]_launchVars

(* restart ends with a gateway running (help: "Stop, then start --detach"), *)
(* when nothing but this one command touches the gateway.                   *)
RestartRuns ==
    [][\A s \in Shells : shell[s].cmd = "restart" /\ shell'[s] = Waiting
         => told'[s].what \in {"started", "restarted"}]_launchVars

(* After stop the tree is gone (stop(): "on POSIX the tree unwinds itself", *)
(* "-pid reaches all of them in one shot").                                 *)
StopEndsTheTree ==
    \A s \in Shells : \A g \in Gens :
        told[s] = Said("stopped", g) ~> Gone(g) \/ told[s] # Said("stopped", g)

(* stop says "not running" only when nothing runs (stop(): "Reporting 'not  *)
(* running' while it serves requests is the most misleading thing this CLI  *)
(* can say").                                                               *)
NotRunningIsTrue ==
    [][\A s \in Shells : told'[s] # told[s] /\ told'[s].what = "not running"
         => port.ui = NoTree]_launchVars

(* The service is loaded at once only when nothing serves (service install: *)
(* "Bootstrap NOW only when nothing is already serving").                   *)
InstallDoesNotCompete ==
    [][service = "none" /\ service' = "active" => port.ui = NoTree]_launchVars
=============================================================================
