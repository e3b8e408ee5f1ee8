--------------------------- MODULE MCHostProgress ---------------------------
(***************************************************************************)
(* What must happen in the end to the processes on a host, on a small      *)
(* instance each: one connector, two gateways on one data directory, one   *)
(* shell against the login service.  The parts share nothing; a behaviour  *)
(* moves one of them and the others rest as they began.                    *)
(***************************************************************************)
EXTENDS Integers, TLC

CONSTANTS dev, npx, q1, Nobody

VARIABLES
  part,
  required, creds, registry, saved, running, live, queue, work, pc, timers, gaveUp,
  abandoned, halted, started, respawned, requests, crashes, failures,
  lockFile, journal, asStatus, state, seen, held, ticking, list, asked, run, calls,
  raced, overlapped,
  top, child, signalled, port, stranded, pidFile, service, managed, shell, told, crowded,
  commands, fallen

lifeVars == <<required, creds, registry, saved, running, live, queue, work, pc,
              timers, gaveUp, abandoned, halted, started, respawned,
              requests, crashes, failures>>
dirVars == <<lockFile, journal, asStatus, state, seen, held, ticking, list, asked,
             run, calls, raced, overlapped>>
launchVars == <<top, child, signalled, port, stranded, pidFile, service, managed, shell,
                told, crowded, commands, fallen>>

Life == INSTANCE IntegrationLifecycle WITH
  Children <- {1, 2, 3}, Values <- {1, 2}, Ages <- {7, 30},
  MaxRespawns <- 2, MaxRequests <- 2, MaxCrashes <- 2, MaxFailures <- 2

Dir == INSTANCE SharedDataDir WITH
  Process <- {dev, npx}, NoProcess <- Nobody, Proposal <- {q1}, NoProposal <- Nobody

Launch == INSTANCE Launcher WITH
  NoTree <- Nobody, Gens <- 1 .. 3, Shells <- {"a"},
  Commands <- {"detach", "stop", "install"}, MaxCommands <- 2, MaxFallen <- 1, Slow <- FALSE

ASSUME Assumptions ==
  /\ Life!LifecycleAssumption
  /\ Dir!NoProcessAssumption /\ Dir!NoProposalAssumption
  /\ Launch!LauncherAssumption

\* One initial state to rest in, where a part has several.
LifeRests == Life!LifeInit /\ ~required /\ registry = "none" /\ saved = 7

Init ==
  \/ /\ part = "life" /\ Life!LifeInit
     /\ Dir!Init /\ Launch!LaunchInit
  \/ /\ part = "dir" /\ Dir!Init
     /\ LifeRests /\ Launch!LaunchInit
  \/ /\ part = "launch" /\ Launch!LaunchInit
     /\ LifeRests /\ Dir!Init

\* Trees are interchangeable: the one that is launched is the first of those that
\* are free.
FirstFree ==
  \A g \in 1 .. 3 :
    (top[g] = "dead" /\ top'[g] = "up") => \A h \in 1 .. g - 1 : h \notin Launch!Free

Next ==
  \/ part = "life" /\ Life!LifeNext /\ UNCHANGED <<part, dirVars, launchVars>>
  \/ part = "dir" /\ Dir!Next /\ UNCHANGED <<part, lifeVars, launchVars>>
  \/ part = "launch" /\ Launch!LaunchNext /\ FirstFree /\ UNCHANGED <<part, lifeVars, dirVars>>

vars == <<part, lifeVars, dirVars, launchVars>>

Spec == Init /\ [][Next]_vars

\* The fairness each module states for its FairSpec, of the part that moves.
Fairness ==
  /\ WF_lifeVars(part = "life" /\ Life!Proceed)
  /\ WF_lifeVars(part = "life" /\ Life!Respawn)
  /\ \A i \in {dev, npx} :
       /\ WF_dirVars(part = "dir" /\ Dir!AcquireWrites(i))
       /\ WF_dirVars(part = "dir" /\ Dir!Tick(i))
       /\ WF_dirVars(part = "dir" /\ Dir!Fetched(i))
       /\ WF_dirVars(part = "dir" /\ Dir!RunStep(i))
  /\ \A g \in 1 .. 3 :
       /\ WF_launchVars(part = "launch" /\ Launch!Runs(g))
       /\ WF_launchVars(part = "launch" /\ Launch!Shuts(g))
  /\ WF_launchVars(part = "launch" /\ Launch!Steps("a"))
  /\ WF_launchVars(part = "launch" /\ Launch!ServiceLaunches)

FairSpec == Spec /\ Fairness

-----------------------------------------------------------------------------
(* What is checked of each part: see the definition of the same name there. *)

\* IntegrationLifecycle: every job that is asked for is done, and after a
\* crash the child runs again or the gateway has given up.
ConnectorSettles == part = "life" => Life!EveryJobEnds /\ Life!CrashIsAnswered
\* SharedDataDir: while a process holds the lock an approved proposal is
\* executed.
HolderExecutes == part = "dir" => Dir!HolderExecutes
\* Launcher: two trees that each got a port do not stay half up, once the
\* supervisor is gone the whole tree goes, both unless a supervisor alone was
\* killed, and a gateway the login service keeps is there again after every
\* crash.
TreesSettle ==
  part = "launch" =>
    Launch!SplitResolves /\ Launch!TreeUnwinds /\ Launch!ServiceComesBack
=============================================================================
