--------------------------- MODULE ApprovalQueue ---------------------------
(***************************************************************************)
(* The approvals that wait for this person, as a tab of the UI holds them  *)
(* (ApprovalQueueContext.tsx, lib/approval-queue.ts).  Two lists are read  *)
(* from the Authority Server (AS), each on its own, on events, by a poll   *)
(* and after every decision; answers may overtake one another.  What the   *)
(* gateway has answered a decision for is hidden until neither list has    *)
(* it.  Team and user stay the same; ApprovalPanel shows the queue.        *)
(***************************************************************************)
EXTENDS Integers, Sequences, SequencesExt

CONSTANTS
  Proposal,       \* proposals of this workspace
  Named,          \* those that wait for named approvers; this person is one
  MaxReads        \* bound: requests under way for one list

QueueAssumption == Named \subseteq Proposal /\ MaxReads \in Nat

Lists == {"mine", "approver"}

VARIABLES
  unborn, undecided,  \* AS: proposals to come, and without an answer
  acted,              \* AS: those this person has decided on
  list,               \* each list as it was answered last
  reads,              \* requests under way, in the order the AS served them
  decided,            \* ids hidden since the gateway answered their decision
  deciding,           \* the ids for which a card has its request out
  answered,           \* history: decisions the gateway has answered
  overtook            \* history: a list took an answer older than its last

queueAs == <<unborn, undecided, acted>>
queueVars == <<queueAs, list, reads, decided, deciding, answered, overtook>>

QueueTypeOK ==
  /\ unborn \subseteq Proposal /\ undecided \subseteq Proposal /\ acted \subseteq Proposal
  /\ list \in [Lists -> SUBSET Proposal]
  /\ reads \in [Lists -> Seq([saw : SUBSET Proposal, overtaken : BOOLEAN])]
  /\ decided \subseteq Proposal /\ deciding \subseteq Proposal
  /\ answered \subseteq Proposal /\ overtook \in BOOLEAN

QueueInit ==
  /\ unborn = Proposal /\ undecided = {} /\ acted = {}
  /\ list = [l \in Lists |-> {}]
  /\ reads = [l \in Lists |-> <<>>]
  /\ decided = {} /\ deciding = {}
  /\ answered = {} /\ overtook = FALSE

\* buildMyQueue(): without what waits for named approvers in the workspace's
\* list.
queued == ((list["mine"] \ Named) \cup list["approver"]) \ decided

\* A mistake this code could have: only the workspace's own list is looked at.
PruneByMine(hidden, lists) == hidden \cap lists["mine"]

\* pruneDecided(): an id neither list has any more.
Prune(hidden, lists) == hidden \cap (lists["mine"] \cup lists["approver"])

-----------------------------------------------------------------------------
(* The Authority Server.                                                    *)

Submitted(p) ==
  /\ p \in unborn
  /\ unborn' = unborn \ {p} /\ undecided' = undecided \cup {p}
  /\ UNCHANGED <<acted, list, reads, decided, deciding, answered, overtook>>

\* By someone else, or by this person in another tab or on the page's "All".
DecidedElsewhere(p) ==
  /\ p \in undecided
  /\ undecided' = undecided \ {p}
  /\ UNCHANGED <<unborn, acted, list, reads, decided, deciding, answered, overtook>>

-----------------------------------------------------------------------------
(* The lists.                                                               *)

\* What the AS serves: the undecided ones of the workspace, and those this
\* person still has to act on.
Serves(l) == IF l = "mine" THEN undecided ELSE (undecided \cap Named) \ acted

Fetch(l) ==
  /\ Len(reads[l]) < MaxReads
  /\ reads' = [reads EXCEPT ![l] = Append(@, [saw |-> Serves(l), overtaken |-> FALSE])]
  /\ UNCHANGED <<queueAs, list, decided, deciding, answered, overtook>>

\* The answers before the one taken are overtaken by it.
Overtaken(s, i) ==
  [j \in DOMAIN s |-> [saw |-> s[j].saw, overtaken |-> s[j].overtaken \/ j < i]]

Listed(l, i) ==
  /\ i \in DOMAIN reads[l]
  /\ reads' = [reads EXCEPT ![l] = RemoveAt(Overtaken(@, i), i)]
  /\ overtook' = (overtook \/ reads[l][i].overtaken)
  /\ list' = [list EXCEPT ![l] = reads[l][i].saw]
  /\ decided' = Prune(decided, list')
  /\ UNCHANGED <<queueAs, deciding, answered>>

\* "keep previous on a background refresh".
ListFails(l, i) ==
  /\ i \in DOMAIN reads[l]
  /\ reads' = [reads EXCEPT ![l] = RemoveAt(@, i)]
  /\ UNCHANGED <<queueAs, list, decided, deciding, answered, overtook>>

-----------------------------------------------------------------------------
(* The person, on the card of an approval.                                  *)

\* The AS takes the decision, where one of several named approvers may leave
\* the proposal undecided; or somebody was faster, or the request is lost.  The
\* request of another card may still be out, or of an earlier card of this one:
\* the panel may show something else by the time it is answered.
CardDecides(p) ==
  /\ p \in queued
  /\ deciding' = deciding \cup {p}
  /\ \/ /\ p \in undecided \ acted
        /\ acted' = acted \cup {p}
        /\ undecided' \in {undecided \ {p}} \cup (IF p \in Named THEN {undecided} ELSE {})
     \/ UNCHANGED <<acted, undecided>>
  /\ UNCHANGED <<unborn, list, reads, decided, answered, overtook>>

\* The answer to the request of one card; another card of this approval may
\* have its own out.
CardAnswered(p) == p \in deciding /\ deciding' \in {deciding, deciding \ {p}}

\* handleDecided() and markDecided(), with the entries as they were when the
\* card was used, so that its entry is found whatever waits by now.  Both lists
\* are read again (Fetch).
CardDecided(p) ==
  /\ CardAnswered(p) /\ p \in acted
  /\ answered' = answered \cup {p}
  /\ decided' = decided \cup {p}
  /\ UNCHANGED <<queueAs, list, reads, overtook>>

\* The AS refused, or its answer is lost; the card says so.
CardFails(p) ==
  /\ CardAnswered(p)
  /\ UNCHANGED <<queueAs, list, reads, decided, answered, overtook>>

QueueNext ==
  \/ \E p \in Proposal :
       \/ Submitted(p) \/ DecidedElsewhere(p)
       \/ CardDecides(p) \/ CardDecided(p) \/ CardFails(p)
  \/ \E l \in Lists :
       Fetch(l) \/ \E i \in 1 .. MaxReads : Listed(l, i) \/ ListFails(l, i)

QueueSpec == QueueInit /\ [][QueueNext]_queueVars

-----------------------------------------------------------------------------
\* approval-queue.ts: "ids the gateway has already answered a decision for -
\* they leave the queue at once".  They do not come back either, although two
\* lists are read independently, as long as the answers for a list come in the
\* order in which the AS served them.
DecidedStaysAway == queued \cap answered # {} => overtook

\* "the approvals waiting for THIS person": when both lists are as the AS has
\* them, the queue is what this person can still decide, whatever was hidden.
Waiting == (undecided \ Named) \cup ((undecided \cap Named) \ acted)
QueueIsExact == (\A l \in Lists : list[l] = Serves(l)) => queued = Waiting

\* Decided approvals stay away, and what waits is what can still be decided.
QueueIsTrue == DecidedStaysAway /\ QueueIsExact
=============================================================================
