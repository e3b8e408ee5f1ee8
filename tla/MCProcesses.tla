----------------------------- MODULE MCProcesses ----------------------------
(***************************************************************************)
(* The processes on a host, on a small instance each: two gateways on one  *)
(* data directory; the life of one connector; three installs; the launcher *)
(* with two shells and every command.  The parts share nothing; a          *)
(* behaviour moves one of them and the others rest as they began.          *)
(***************************************************************************)
EXTENDS SharedDataDir, IntegrationLifecycle, Launcher, ConnectorInstall, TLC

CONSTANTS x1, x2, y1, y2, Nobody

VARIABLE part

\* Two of the three integrations share a package; one of them was re-pointed
\* by hand and has no pin.
Packaged == [i \in {"crm", "crm2", "erp"} |-> IF i = "erp" THEN "erp-mcp" ELSE "crm-mcp"]
Pins == [i \in {"crm", "crm2", "erp"} |-> IF i = "crm2" THEN NoPin ELSE "pinned"]

ASSUME HostAssumptions ==
  /\ NoProcessAssumption /\ NoProposalAssumption /\ LifecycleAssumption
  /\ LauncherAssumption /\ InstallAssumption

\* One initial state to rest in, where a part has several.
LifeRests == LifeInit /\ ~required /\ registry = None
InstallRests ==
  InstallInit /\ offline /\ \A p \in Packages : installed[p] = "absent"

HostInit ==
  /\ Init /\ LaunchInit
  /\ \/ part \in {"dir", "shells", "turns"} /\ LifeRests /\ InstallRests
     \/ part = "life" /\ LifeInit /\ InstallRests
     \/ part = "install" /\ InstallInit /\ LifeRests

\* Once the journal was overwritten nothing is promised of it any more, and the
\* lock does not depend on it.  The launcher moves twice: any two
\* commands, however they interleave, and three of one shell, none given up on
\* early.
HostNext ==
  \/ /\ part = "dir" /\ Next /\ ~overlapped
     /\ UNCHANGED <<part, lifeVars, installVars, launchVars>>
  \/ part = "life" /\ LifeNext /\ UNCHANGED <<part, vars, installVars, launchVars>>
  \/ part = "install" /\ InstallNext /\ UNCHANGED <<part, vars, lifeVars, launchVars>>
  \/ /\ part = "shells" /\ LaunchNext /\ commands' <= 2
     /\ UNCHANGED <<part, vars, lifeVars, installVars>>
  \/ /\ part = "turns" /\ LaunchNext /\ ~crowded'
     /\ \E s \in Shells : \A t \in Shells \ {s} :
          shell'[t] = Waiting /\ told'[t].what = "nothing"
     /\ UNCHANGED <<part, vars, lifeVars, installVars>>

hostVars == <<part, vars, lifeVars, installVars, launchVars>>

HostSpec == HostInit /\ [][HostNext]_hostVars

\* Gateways, trees, proposals and shells are interchangeable.
Symmetry == Permutations({x1, x2}) \cup Permutations({y1, y2})
=============================================================================
