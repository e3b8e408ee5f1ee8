----------------------------- MODULE MCProgress -----------------------------
(***************************************************************************)
(* What must happen in the end, on a small instance of each part: one      *)
(* automatic call, one tab, one outcome, three installs.  The parts share  *)
(* nothing; a behaviour moves one of them and the others rest as they      *)
(* began.                                                                  *)
(***************************************************************************)
EXTENDS Integers, TLC

CONSTANTS c1, a1, a2, none, t1, cp1, m1, own1, foreign, p1

VARIABLES
  part,
  validity, issued, proposed, wire, journal, archive, cache, flagged, at, runs,
  refused, faults,
  sessions, ended, expired, login, key, cookie, expires, owner, mcp, told, calls,
  toMcp, toCp, abandoned, mismatches, lockFaults,
  now, decided, box, disk, session, admitted, reply, learned, lost, restarts, losses,
  offline, installed, stage, lock, npm, orphans, alone, npmFailures, deaths, stops

autoVars == <<validity, issued, proposed, wire, journal, archive, cache, flagged, at,
              runs, refused, faults>>
lockVars == <<sessions, ended, expired, login, key, cookie, expires, owner, mcp, told,
              calls, toMcp, toCp, abandoned, mismatches, lockFaults>>
boxVars == <<now, decided, box, disk, session, admitted, reply, learned, lost,
             restarts, losses>>
installVars == <<offline, installed, stage, lock, npm, orphans, alone, npmFailures,
                 deaths, stops>>

\* 1 is an exception narrower than 2; both run by themselves.
TwoIds == [m \in 1 .. 2 |-> m]
PairScopes == [m \in 1 .. 2 |-> [k \in {"x"} |-> IF m = 1 THEN {"a"} ELSE {"a", "b"}]]
PairModes == [m \in 1 .. 2 |-> IF m = 1 THEN "automatic" ELSE "review_above_cap"]
PairCaps == [m \in 1 .. 2 |-> 1]
Auto == INSTANCE AutomaticExecution WITH
  Call <- {c1}, Mandate <- {1, 2}, NoMandate <- 0, Key <- {"x"}, Value <- {"a", "b"},
  Rank <- TwoIds, ScopeOf <- PairScopes, Mode <- PairModes, Unrouted <- {},
  Cap <- PairCaps, MaxAttempts <- 3, MaxFaults <- 3

Lock == INSTANCE SessionLock WITH
  faults <- lockFaults, Account <- {a1, a2}, NoAccount <- none, Tab <- {t1}, CpCall <- {cp1},
  McpCall <- {m1}, InOrder <- TRUE, MaxLogins <- 2, MaxMismatches <- 0, MaxFaults <- 2

Outbox == INSTANCE OutcomeOutbox WITH
  told <- learned, Servers <- {p1}, Proposals <- {own1, foreign}, Here <- {own1}, MaxAge <- 2,
  MaxNow <- 3, MaxRestarts <- 1, MaxLost <- 1

\* Two of the three share a package; one of them was re-pointed by hand and
\* has no pin.
Packaged == [i \in {"crm", "crm2", "erp"} |-> IF i = "erp" THEN "erp-mcp" ELSE "crm-mcp"]
Pins == [i \in {"crm", "crm2", "erp"} |-> IF i = "crm2" THEN "no pin" ELSE "pinned"]
Install == INSTANCE ConnectorInstall WITH
  Integrations <- {"crm", "crm2", "erp"}, Packages <- {"crm-mcp", "erp-mcp"},
  PackageOf <- Packaged, PinOf <- Pins, MaxNpmFailures <- 1, MaxDeaths <- 1, MaxStops <- 1

ASSUME Assumptions ==
  /\ Auto!RankAssumption /\ Auto!MandateAssumption /\ Auto!AttemptsAssumption
  /\ Lock!SessionAssumption
  /\ Outbox!OutboxAssumption
  /\ Install!InstallAssumption

\* One initial state to rest in, where a part has several.
LockRests == Lock!Init /\ owner = none
InstallRests == Install!InstallInit /\ offline /\ \A p \in DOMAIN installed : installed[p] = "absent"

Init ==
  \/ /\ part = "auto" /\ Auto!Init
     /\ LockRests /\ Outbox!OutboxInit /\ InstallRests
  \/ /\ part = "lock" /\ Lock!Init
     /\ Auto!Init /\ Outbox!OutboxInit /\ InstallRests
  \/ /\ part = "outbox" /\ Outbox!OutboxInit
     /\ Auto!Init /\ LockRests /\ InstallRests
  \/ /\ part = "install" /\ Install!InstallInit
     /\ Auto!Init /\ LockRests /\ Outbox!OutboxInit

Next ==
  \/ part = "auto" /\ Auto!Next /\ UNCHANGED <<part, lockVars, boxVars, installVars>>
  \/ part = "lock" /\ Lock!Next /\ UNCHANGED <<part, autoVars, boxVars, installVars>>
  \/ part = "outbox" /\ Outbox!OutboxNext /\ UNCHANGED <<part, autoVars, lockVars, installVars>>
  \/ part = "install" /\ Install!InstallNext /\ UNCHANGED <<part, autoVars, lockVars, boxVars>>

vars == <<part, autoVars, lockVars, boxVars, installVars>>

Spec == Init /\ [][Next]_vars

\* The fairness each module states for its FairSpec, of the part that moves.
Fairness ==
  /\ WF_autoVars(part = "auto" /\ Auto!Step(c1))
  /\ WF_autoVars(part = "auto" /\ Auto!AttemptFails(c1))
  /\ \A m \in {1, 2} : WF_autoVars(part = "auto" /\ Auto!AsAnswers(<<c1, m>>))
  /\ \A s \in 1 .. 2 : WF_lockVars(part = "lock" /\ Lock!Expire(s))
  /\ WF_lockVars(part = "lock" /\ Lock!Delivery)
  /\ WF_lockVars(part = "lock" /\ Lock!ScheduledLock)
  /\ WF_lockVars(part = "lock" /\ Lock!McpSends(m1))
  /\ WF_lockVars(part = "lock" /\ (Lock!McpRefused(m1) \/ Lock!Accepted(m1)))
  /\ WF_lockVars(part = "lock" /\ Lock!LoginWiped(t1))
  /\ WF_boxVars(part = "outbox" /\ ~session[p1] /\ Outbox!Configure(p1))
  /\ WF_boxVars(part = "outbox" /\ Outbox!ReplyCarries(p1))
  /\ WF_boxVars(part = "outbox" /\ Outbox!ReplyArrives(p1))
  /\ \A x \in {own1, foreign} :
       /\ SF_boxVars(part = "outbox" /\ Outbox!PollAdmits(p1, x) /\ x \notin admitted[p1])
       /\ WF_boxVars(part = "outbox" /\ Outbox!PollRecords(p1, x))
  /\ \A i \in {"crm", "crm2", "erp"} :
       /\ WF_installVars(part = "install" /\ Install!Ensure(i))
       /\ WF_installVars(part = "install" /\ Install!Enter(i))
       /\ WF_installVars(part = "install" /\ Install!SpawnIt(i))
       /\ WF_installVars(part = "install" /\ (Install!NpmSucceeds(i) \/ Install!NpmFails(i)))
       /\ WF_installVars(part = "install" /\ Install!OrphanEnds(i))

FairSpec == Spec /\ Fairness

-----------------------------------------------------------------------------
(* What is checked of each part: see the definition of the same name there. *)

\* AutomaticExecution: every call is answered unless the process dies under
\* it.
CallsAreAnswered == part = "auto" => Auto!CallsAreAnswered
\* SessionLock: a session that has ended is in the end held by neither
\* process.
EndedSessionIsDropped == part = "lock" => Lock!EndedSessionIsDropped
\* OutcomeOutbox: an outcome reaches the agent, unless its reply is lost or
\* it lapses.
OutcomeIsLearned == part = "outbox" => Outbox!OutcomeIsLearned
\* ConnectorInstall: every start ends running, or refused for a reason.
StartsSettle == part = "install" => Install!StartsSettle
=============================================================================
