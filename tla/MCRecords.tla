------------------------------ MODULE MCRecords -----------------------------
(***************************************************************************)
(* What the MCP server keeps and how it is used, on a small instance each: *)
(* the mandates in memory (under failures, and exactly after a resync),    *)
(* the choice among them (by itself, and with a call under way), an        *)
(* encrypted store under two accounts, the report, and the outcomes for    *)
(* the agent.  The parts share nothing; a behaviour moves one of them and  *)
(* leaves the others as they began, so that their states add up.           *)
(***************************************************************************)
EXTENDS MandateCache, AutomaticExecution, SelectionFallback, EncryptedStores,
        ReportStore, OutcomeOutbox, TLC

CONSTANTS x1, x2

VARIABLE part

\* Constants of the modules, set by the configuration.  One mandate in memory
\* belongs to the team, the other to the person.
Homes == [m \in {1, 2} |-> IF m = 1 THEN "team" ELSE "personal"]

\* Ids sort as the numbers do; 1 is narrower than 2 and 4, which are signed
\* for review; 3 overlaps 2.
FourIds == [m \in 1 .. 4 |-> m]
MixedScopes == [m \in 1 .. 4 |-> [k \in {"x", "y"} |->
  IF m = 1 THEN {"u"}
  ELSE IF m = 3 THEN (IF k = "y" THEN {"v"} ELSE {})
  ELSE IF k = "x" THEN {"u"} ELSE {}]]
MixedModes == [m \in 1 .. 4 |-> IF m \in {2, 4} THEN "review" ELSE "automatic"]
MixedCaps == [m \in 1 .. 4 |-> 1]
LegacyRows == {{}, {CHOOSE r \in Rows : TRUE}}

ASSUME Assumptions ==
  /\ HomeAssumption /\ RankAssumption /\ OtherAssumption
  /\ MandateAssumption /\ AttemptsAssumption
  /\ StoreAssumption /\ ReportAssumption /\ OutboxAssumption

-----------------------------------------------------------------------------
CacheRests ==
  CacheInit /\ workspace = "personal" /\ record = [m \in Authorization |-> "absent"]
ChoiceRests ==
  /\ passedChecks = {1} /\ signedReview = {} /\ candidates = {1}
  /\ signedScope = [m \in Mandate |-> [k \in Key |-> {}]]
StoreRests == StoreInit /\ policy = "keep" /\ plain = Absent

\* By itself the choice is among three, with every assignment of scopes.
ChoiceInit == SelectionInit /\ 4 \notin passedChecks

\* Of the mandates in memory one is followed under failures, two without.
CacheParts ==
  \/ part = "cache" /\ record[2] = "absent"
  \/ part = "resync" /\ changes < MaxChanges /\ troubles = 0

RecordsInit ==
  \/ /\ part \in {"cache", "resync"} /\ CacheInit /\ CacheParts
     /\ Init /\ ChoiceRests /\ StoreRests /\ ReportInit /\ OutboxInit
  \/ /\ part \in {"among", "report", "outbox"}
     /\ CacheRests /\ Init /\ ChoiceRests /\ StoreRests /\ ReportInit /\ OutboxInit
  \/ /\ part = "choice" /\ ChoiceInit
     /\ CacheRests /\ Init /\ StoreRests /\ ReportInit /\ OutboxInit
  \/ /\ part = "store" /\ StoreInit
     /\ CacheRests /\ Init /\ ChoiceRests /\ ReportInit /\ OutboxInit

RecordsNext ==
  \/ /\ part \in {"cache", "resync"} /\ part' = part /\ CacheNext /\ CacheParts'
     /\ UNCHANGED <<vars, selectionVars, storeVars, reportVars, outboxVars>>
  \/ /\ part = "among" /\ Next
     /\ UNCHANGED <<part, cacheVars, selectionVars, storeVars, reportVars, outboxVars>>
  \/ /\ part = "choice" /\ SelectionNext
     /\ UNCHANGED <<part, cacheVars, vars, storeVars, reportVars, outboxVars>>
  \/ /\ part = "store" /\ StoreNext
     /\ UNCHANGED <<part, cacheVars, vars, selectionVars, reportVars, outboxVars>>
  \/ /\ part = "report" /\ ReportNext
     /\ UNCHANGED <<part, cacheVars, vars, selectionVars, storeVars, outboxVars>>
  \/ /\ part = "outbox" /\ OutboxNext
     /\ UNCHANGED <<part, cacheVars, vars, selectionVars, storeVars, reportVars>>

recordsVars == <<part, cacheVars, vars, selectionVars, storeVars, reportVars, outboxVars>>

RecordsSpec == RecordsInit /\ [][RecordsNext]_recordsVars

\* Requests served at once are interchangeable.
Symmetry == Permutations({x1, x2})
==============================================================================
