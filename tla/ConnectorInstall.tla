-------------------------- MODULE ConnectorInstall --------------------------
(* Bringing connectors into the one npm prefix all integrations share       *)
(* (ensureInstalled() of integration-manager.ts): the fast path, the        *)
(* process-wide install lock, npm and what it may leave behind, and a       *)
(* gateway that dies in the middle of an install.                           *)
EXTENDS Integers, SequencesExt

CONSTANTS Integrations, Packages,
          PackageOf,    \* [Integrations -> Packages]
          PinOf,        \* the version the manifest pins, or NoPin
          MaxNpmFailures,  \* bound: npm runs that do not land what was asked for
          MaxDeaths, MaxStops  \* bounds: crashes, stops of a connector

Versions == {"old", "pinned"}
NoPin == "no pin"

InstallAssumption ==
    /\ PackageOf \in [Integrations -> Packages]
    /\ PinOf \in [Integrations -> {"pinned", NoPin}]
    /\ {MaxNpmFailures, MaxDeaths, MaxStops} \subseteq Nat

VARIABLES offline,      \* SUVEREN_OFFLINE
          installed,         \* per package: a version, "broken" or "absent"
          stage,           \* per integration
          lock,         \* the tail of installLock: who waits, in order
          npm,          \* the integrations npm is running for
          orphans,      \* those whose npm has outlived its gateway
          alone,        \* history: ready, and no npm was at their package then
          npmFailures, deaths, stops

installCounters == <<npmFailures, deaths, stops>>
installVars == <<offline, installed, stage, lock, npm, orphans, alone, installCounters>>

InstallInit == /\ offline \in BOOLEAN
               /\ installed \in [Packages -> Versions \union {"broken", "absent"}]
               /\ stage = [i \in Integrations |-> "stopped"]
               /\ lock = <<>> /\ npm = {} /\ orphans = {} /\ alone = {}
               /\ npmFailures = 0 /\ deaths = 0 /\ stops = 0

Usable(p) == installed[p] \in Versions
Installed(i) == LET p == PackageOf[i]
                IN  Usable(p) /\ (PinOf[i] # NoPin => installed[p] = PinOf[i])
Reaches(i, to) == stage' = [stage EXCEPT ![i] = to]
(* npm may be rewriting this package                                        *)
AtWork(p) == \E j \in npm \union orphans : PackageOf[j] = p
(* Found as it should be, by itself or while npm is at it                   *)
Finds(i) == /\ Reaches(i, "ready")
            /\ alone' = IF AtWork(PackageOf[i])' THEN alone ELSE alone \union {i}

(* As if any usable install were good enough for the fast path              *)
EnsureUsable(i) == /\ stage[i] = "stopped" /\ Usable(PackageOf[i])
                   /\ UNCHANGED <<offline, installed, lock, npm, orphans, installCounters>>
                   /\ Finds(i)

(* ensureInstalled(): the fast path is outside the lock; offline there is   *)
(* no other                                                                 *)
Ensure(i) == /\ stage[i] = "stopped"
             /\ UNCHANGED <<offline, installed, npm, orphans, installCounters>>
             /\ IF Installed(i) THEN Finds(i) /\ UNCHANGED lock
                ELSE /\ UNCHANGED alone
                     /\ IF offline THEN Reaches(i, "refused") /\ UNCHANGED lock
                        ELSE Reaches(i, "waiting") /\ lock' = Append(lock, i)

(* The lock is ours: look again, else clean what is unusable and run npm    *)
Enter(i) == /\ lock # <<>> /\ Head(lock) = i /\ stage[i] = "waiting"
            /\ UNCHANGED <<offline, orphans, installCounters>>
            /\ IF Installed(i)
               THEN /\ lock' = Tail(lock) /\ UNCHANGED <<installed, npm>>
                    /\ Finds(i)
               ELSE /\ Reaches(i, "installing") /\ npm' = npm \union {i}
                    /\ installed' = [installed EXCEPT ![PackageOf[i]] =
                                       IF Usable(PackageOf[i]) THEN @ ELSE "absent"]
                    /\ UNCHANGED <<lock, alone>>

Target(i) == IF PinOf[i] = NoPin THEN Versions ELSE {PinOf[i]}

(* While npm runs its package passes through half-written states, and may   *)
(* look finished before npm is                                              *)
NpmWrites(i) == /\ i \in npm \union orphans
                /\ \E to \in {"broken"} \union Target(i) :
                     installed' = [installed EXCEPT ![PackageOf[i]] = to]
                /\ installed' # installed
                /\ UNCHANGED <<offline, stage, lock, npm, orphans, alone, installCounters>>

(* As if a failed install wedged the lock                                   *)
LandedLocked(i, result, ok) ==
    /\ i \in npm /\ npm' = npm \ {i}
    /\ installed' = [installed EXCEPT ![PackageOf[i]] = result]
    /\ UNCHANGED <<offline, orphans, deaths, stops>>
    /\ IF ok /\ result \in Target(i) THEN Finds(i) /\ lock' = Tail(lock)
       ELSE Reaches(i, "refused") /\ UNCHANGED <<lock, alone>>

(* npm is done; its exit and what landed are checked before the lock is     *)
(* released                                                                 *)
Landed(i, result, ok) ==
    /\ i \in npm /\ npm' = npm \ {i} /\ lock' = Tail(lock)
    /\ installed' = [installed EXCEPT ![PackageOf[i]] = result]
    /\ UNCHANGED <<offline, orphans, deaths, stops>>
    /\ IF ok /\ result \in Target(i) THEN Finds(i)
       ELSE Reaches(i, "refused") /\ UNCHANGED alone

NpmSucceeds(i) == /\ \E result \in Target(i) : Landed(i, result, TRUE)
                  /\ UNCHANGED npmFailures
(* It fails, whatever is there by then, or lands what nobody asked for      *)
NpmFails(i) == /\ npmFailures < MaxNpmFailures /\ npmFailures' = npmFailures + 1
               /\ \E result \in {installed[PackageOf[i]], "broken", "old"} \union Target(i) :
                    Landed(i, result, FALSE) \/ (result \notin Target(i) /\ Landed(i, result, TRUE))

(* The credentials of a remote connector are tried first; then the child is *)
(* spawned through the shim in node_modules/.bin, whatever it leads to      *)
SpawnIt(i) == /\ stage[i] = "ready" /\ Reaches(i, "running") /\ alone' = alone \ {i}
              /\ UNCHANGED <<offline, installed, lock, npm, orphans, installCounters>>

(* A connector is stopped, or a refused start is asked for again            *)
StopIt(i) == /\ stage[i] \in {"running", "refused"} /\ stops < MaxStops
             /\ stops' = stops + 1 /\ Reaches(i, "stopped")
             /\ UNCHANGED <<offline, installed, lock, npm, orphans, alone, npmFailures, deaths>>

(* The gateway dies: its npm may die with it or go on without it            *)
GatewayDies == /\ deaths < MaxDeaths /\ deaths' = deaths + 1
               /\ stage' = [i \in Integrations |-> "stopped"] /\ lock' = <<>> /\ npm' = {}
               /\ orphans' \in {orphans, orphans \union npm} /\ alone' = {}
               /\ UNCHANGED <<offline, installed, npmFailures, stops>>

OrphanEnds(i) == /\ i \in orphans /\ orphans' = orphans \ {i}
                 /\ \/ UNCHANGED installed
                    \/ \E result \in {"broken"} \union Target(i) :
                         installed' = [installed EXCEPT ![PackageOf[i]] = result]
                 /\ UNCHANGED <<offline, stage, lock, npm, alone, installCounters>>

InstallNext == \/ \E i \in Integrations :
                    \/ Ensure(i) \/ Enter(i) \/ NpmWrites(i) \/ NpmSucceeds(i)
                    \/ NpmFails(i) \/ SpawnIt(i) \/ StopIt(i) \/ OrphanEnds(i)
               \/ GatewayDies

InstallSpec == InstallInit /\ [][InstallNext]_installVars

(* Boot and the user start what is saved; npm runs without a timeout and is *)
(* assumed to end.  Stopping and asking again is nobody's duty.             *)
InstallFairSpec == /\ InstallSpec
                   /\ \A i \in Integrations :
                        /\ WF_installVars(Ensure(i)) /\ WF_installVars(Enter(i))
                        /\ WF_installVars(SpawnIt(i))
                        /\ WF_installVars(NpmSucceeds(i) \/ NpmFails(i))
                        /\ WF_installVars(OrphanEnds(i))

-----------------------------------------------------------------------------
(* The state each variable ranges over.                                     *)
InstallTypeOK ==
    /\ offline \in BOOLEAN
    /\ installed \in [Packages -> Versions \union {"broken", "absent"}]
    /\ stage \in [Integrations -> {"stopped", "waiting", "installing", "ready",
                                   "refused", "running"}]
    /\ lock \in Seq(Integrations) /\ IsInjective(lock)
    /\ npm \subseteq Integrations /\ orphans \subseteq Integrations
    /\ \A i \in alone : i \in Integrations /\ stage[i] = "ready"
    /\ \A i \in Integrations : stage[i] \in {"waiting", "installing"} <=> i \in Range(lock)

(* Two installs of this gateway never run in the prefix at once, although   *)
(* starts of different integrations overlap freely: whoever npm runs for is *)
(* at the head of the lock.                                                 *)
OneInstall == \A i \in npm : lock # <<>> /\ Head(lock) = i

(* A start gets as far as spawning only if its connector was found at its   *)
(* pin; and it spawns that, if no npm was at the package when it was found, *)
(* whoever else waits for the package or installs it.                       *)
TakesThePin ==
    /\ \A i \in Integrations : stage[i] # "ready" /\ stage'[i] = "ready" => Installed(i)'
    /\ \A i \in alone : stage'[i] = "running" /\ PinOf[i] # NoPin => Installed(i)
    /\ offline => npm' = {}
(* The gateway itself never removes a connector that works: a failed update *)
(* leaves what was there, as far as npm does.                               *)
KeepsWorking == \A p \in Packages : Usable(p) => installed'[p] # "absent"
(* However often the gateway dies or npm fails, a pinned connector is only  *)
(* made ready when it is found at its pin, and what is spawned then is that *)
(* version, unless an npm was at the package as it was found: that of an    *)
(* install in front of the fast path, or one that has outlived its gateway. *)
(* Offline nothing is ever installed; one install runs at a time, and none  *)
(* removes what works.                                                      *)
OnlyThePin ==
    [][InstallTypeOK' /\ OneInstall' /\ TakesThePin /\ KeepsWorking]_installVars

(* A half-finished install is repaired by the next start: every integration *)
(* ends up running or refused, and refused only after a failure, or offline.*)
StartsSettle ==
    \A i \in Integrations :
        stage[i] # "running"
            ~> \/ stage[i] = "running"
               \/ stage[i] = "refused" /\ (npmFailures > 0 \/ offline)

(* A version that is not the pinned one is never started (ensureInstalled():*)
(* "It still won't be STARTED", the version check sees it).                 *)
RunsThePin ==
    [][\A i \in Integrations :
         PinOf[i] # NoPin /\ stage[i] = "ready" /\ stage'[i] = "running"
           => Installed(i)]_installVars

(* No connector is spawned while npm rewrites the tree it is spawned from   *)
(* (integration-manager.ts: "one can prune or relink the other's files      *)
(* while that other package is being spawned").                             *)
SpawnIsUndisturbed ==
    [][\A i \in Integrations :
         stage[i] = "ready" /\ stage'[i] = "running" => npm \union orphans = {}]_installVars
=============================================================================
