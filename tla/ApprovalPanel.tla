--------------------------- MODULE ApprovalPanel ---------------------------
(***************************************************************************)
(* The panel that opens by itself when an approval waits for this person   *)
(* (ApprovalPanelHost.tsx, lib/approval-panel.ts).  What waits comes from  *)
(* ApprovalQueue, in which ids come and go as the lists are read.          *)
(*                                                                         *)
(* React runs its effects after the change they depend on and before the   *)
(* next event, so an action ends with them.                                *)
(***************************************************************************)
EXTENDS Naturals

CONSTANTS
  Approval,
  Decision,      \* bound: decisions asked for, or shown as a result, at a time
  NoOne,        \* no approval, and no decision
  MaxFlips      \* bound: times the setting is not read, or changed

PanelAssumption == MaxFlips \in Nat /\ NoOne \notin Approval \cup Decision

VARIABLES
  ids,                \* what waits for this person
  loaded,             \* both lists and the setting have answered
  autoOpen,           \* the tab knows the setting to be on
  typing,             \* the person is in a form or dialog
  onApprovalsPage,
  panel,              \* PanelState
  settling,           \* the approval whose result the panel holds
  decision,           \* the decisions asked for, and the timers of their results
  onScreen,           \* the decision of the card on screen, as long as it is busy
  flips,
  due,                \* history: arrivals the person has not been shown
  sentAway,           \* history: what waited when the person sent the panel away
  overlap             \* history: of the results now shown one came over another

inputs == <<ids, loaded, autoOpen, typing, onApprovalsPage>>
cards == <<decision, onScreen, overlap>>
panelVars == <<inputs, panel, settling, cards, flips, due, sentAway>>

PanelClosed == [open |-> FALSE, known |-> {}, owed |-> FALSE]
Free == [at |-> "none", id |-> NoOne]
Stages == {"none", "out", "shown", "last", "sliding"}

PanelTypeOK ==
  /\ ids \subseteq Approval
  /\ loaded \in BOOLEAN
  /\ autoOpen \in BOOLEAN
  /\ typing \in BOOLEAN /\ onApprovalsPage \in BOOLEAN
  /\ panel \in [open : BOOLEAN, known : SUBSET Approval, owed : BOOLEAN]
  /\ settling \in Approval \cup {NoOne}
  /\ decision \in [Decision -> [at : Stages, id : Approval \cup {NoOne}]]
  /\ onScreen \in Decision \cup {NoOne}
  /\ flips \in 0 .. MaxFlips /\ overlap \in BOOLEAN
  /\ due \subseteq Approval /\ sentAway \subseteq Approval

PanelInit ==
  /\ ids = {} /\ loaded = FALSE /\ autoOpen = FALSE
  /\ typing \in BOOLEAN /\ onApprovalsPage \in BOOLEAN
  /\ panel = PanelClosed /\ settling = NoOne
  /\ decision = [n \in Decision |-> Free] /\ onScreen = NoOne
  /\ flips = 0 /\ due = {} /\ sentAway = {} /\ overlap = FALSE

-----------------------------------------------------------------------------
\* A mistake this code could have: the debt is forgotten when the queue changes.
ReconcileForgets(prev, waiting, auto, busy, page, hold) ==
  LET wanted == auto /\ ~(waiting \subseteq prev.known)
  IN  IF waiting = {} /\ ~hold THEN PanelClosed
      ELSE IF page \/ waiting = {} THEN [prev EXCEPT !.known = waiting, !.owed = FALSE]
      ELSE [open |-> prev.open \/ (wanted /\ ~busy), known |-> waiting, owed |-> wanted /\ busy]

\* reconcilePanel().
Reconcile(prev, waiting, auto, busy, page, hold) ==
  LET wanted == auto /\ (~(waiting \subseteq prev.known) \/ prev.owed)
  IN  IF waiting = {} /\ ~hold THEN PanelClosed
      ELSE IF page \/ waiting = {} THEN [prev EXCEPT !.known = waiting, !.owed = FALSE]
      ELSE [open |-> prev.open \/ (wanted /\ ~busy), known |-> waiting, owed |-> wanted /\ busy]

Holding == settling # NoOne

\* The card on screen is the one of the result held, else one of the queue: a
\* busy card stays while its approval is shown, and another may be shown (the
\* first, the one of a row that is clicked, the next) while its approval waits.
CardFollows ==
  \/ onScreen' = NoOne /\ (Holding' /\ onScreen # NoOne => decision'[onScreen].id # settling')
  \/ onScreen # NoOne /\ onScreen' = onScreen
     /\ decision'[onScreen].id \in IF Holding' THEN {settling'} ELSE ids'

\* The timers of this result are, or will be, running.
Pending(n) == decision[n].at \in {"shown", "last", "sliding"}

\* The effect at the end of an action.  An arrival is due until the panel has
\* shown it, or the person has it listed or sends it away, or the setting is not
\* on; what comes while a result is on screen is not.
Effects ==
  /\ panel' = IF loaded'
              THEN Reconcile(panel, ids', autoOpen', typing', onApprovalsPage', Holding')
              ELSE panel
  /\ LET arrivals == IF loaded' /\ ~Holding' THEN ids' \ panel.known ELSE {}
     IN  due' = IF ~autoOpen' \/ onApprovalsPage' \/ (panel'.open /\ ~Holding') THEN {}
                ELSE (due \cup arrivals) \cap ids'
  /\ sentAway' = ids' \cap sentAway

-----------------------------------------------------------------------------
(* What the gateway answers.                                                *)

Loads ==
  /\ ~loaded
  /\ loaded' = TRUE
  /\ autoOpen' \in BOOLEAN
  /\ UNCHANGED <<ids, typing, onApprovalsPage, settling, cards, flips>>
  /\ Effects

\* A list has been read, or an id has been decided elsewhere.
QueueChanges ==
  /\ ids' \in SUBSET Approval \ {ids}
  /\ UNCHANGED <<loaded, autoOpen, typing, onApprovalsPage, settling, decision, overlap, flips>>
  /\ CardFollows
  /\ Effects

\* It is read again, or could not be, or was changed, here or elsewhere; "Don't
\* open automatically" sends the panel away first (GoesLater).
SettingChanges ==
  /\ loaded /\ flips < MaxFlips
  /\ flips' = flips + 1
  /\ autoOpen' = ~autoOpen
  /\ UNCHANGED <<ids, loaded, typing, onApprovalsPage, settling, cards>>
  /\ Effects

-----------------------------------------------------------------------------
(* What the person does.                                                    *)

\* useFormInProgress() notices that a form is entered or left.
Types ==
  /\ typing' = ~typing
  /\ UNCHANGED <<ids, loaded, autoOpen, onApprovalsPage, settling, cards, flips>>
  /\ Effects

\* Another page: the rules see it first, then the panel is sent away.  Whether
\* there is a form on it is noticed after that.
Navigates ==
  /\ onApprovalsPage' \in BOOLEAN
  /\ panel' = [IF loaded /\ onApprovalsPage' # onApprovalsPage
               THEN Reconcile(panel, ids, autoOpen, typing, onApprovalsPage', Holding)
               ELSE panel EXCEPT !.open = FALSE]
  /\ due' = IF panel.open \/ onApprovalsPage' THEN {} ELSE due
  /\ sentAway' = IF panel.open /\ loaded THEN ids ELSE sentAway
  /\ UNCHANGED <<ids, loaded, autoOpen, typing, settling, cards, flips>>

\* Later, and Escape.
GoesLater ==
  /\ panel.open
  /\ panel' = [panel EXCEPT !.open = FALSE]
  /\ due' = {} /\ sentAway' = IF loaded THEN ids ELSE {}
  /\ UNCHANGED <<ids, loaded, autoOpen, typing, onApprovalsPage, settling, cards, flips>>

\* The strip, the bar, or a row of the Approvals page or the dashboard.
Opens ==
  /\ ids # {}
  /\ panel' = [panel EXCEPT !.open = TRUE, !.owed = FALSE]
  /\ due' = IF Holding THEN due ELSE {}
  /\ UNCHANGED <<inputs, settling, decision, overlap, flips, sentAway>>
  /\ CardFollows

\* The content of a closed panel stays for as long as the slide takes.
CardUnmounts ==
  /\ ~panel.open /\ onScreen # NoOne
  /\ onScreen' = NoOne
  /\ UNCHANGED <<inputs, panel, settling, decision, overlap, flips, due, sentAway>>

\* A button of a card that is not busy; the request of another card, or of an
\* earlier one of this approval, may still be out.  A card that is shown with a
\* result and whose approval does not wait any more asks in vain: the host then
\* finds no entry (handleDecided()).
Decides(n, p) ==
  /\ panel.open /\ onScreen = NoOne /\ decision[n] = Free
  /\ p \in ids /\ (Holding => p = settling)
  /\ decision' = [decision EXCEPT ![n] = [at |-> "out", id |-> p]]
  /\ onScreen' = n
  /\ UNCHANGED <<inputs, panel, settling, overlap, flips, due, sentAway>>

\* handleDecided(), with the entries as they were at the click: whatever waits
\* by now, and whether the panel is open or not, the result is held, and its
\* timer will find that it was the last of what waits as it arrives, or not.
ResultArrives(n) ==
  /\ decision[n].at = "out"
  /\ LET p == decision[n].id IN
     /\ settling' = p /\ ids' = ids \ {p}
     /\ decision' = [decision EXCEPT ![n].at = IF ids \subseteq {p} THEN "last" ELSE "shown"]
  /\ overlap' = (overlap \/ \E m \in Decision : Pending(m))
  /\ UNCHANGED <<loaded, autoOpen, typing, onApprovalsPage, flips>>
  /\ CardFollows
  /\ Effects

DecisionFails(n) ==
  /\ decision[n].at = "out"
  /\ decision' = [decision EXCEPT ![n] = Free]
  /\ onScreen' = IF onScreen = n THEN NoOne ELSE onScreen
  /\ UNCHANGED <<inputs, panel, settling, overlap, flips, due, sentAway>>

\* The last timer of a result: nothing is held any more, whoever's result it is.
Released(n) ==
  /\ settling' = NoOne
  /\ decision' = [decision EXCEPT ![n] = Free]
  /\ overlap' = (overlap /\ \E m \in Decision \ {n} : Pending(m))
  /\ UNCHANGED <<inputs, flips>>
  /\ CardFollows
  /\ Effects

\* After the result has been shown: the next card, or out with the panel, which
\* after an overlap may be open for something else by now...
ResultShown(n) ==
  \/ decision[n].at = "shown" /\ Released(n)
  \/ /\ decision[n].at = "last"
     /\ decision' = [decision EXCEPT ![n].at = "sliding"]
     /\ panel' = [panel EXCEPT !.open = FALSE]
     /\ due' = IF overlap THEN {} ELSE due
     /\ UNCHANGED <<inputs, settling, onScreen, overlap, flips, sentAway>>

\* ... whose content stays until it is gone.
SlidOut(n) == decision[n].at = "sliding" /\ Released(n)

PanelNext ==
  \/ Loads \/ QueueChanges \/ SettingChanges
  \/ Types \/ Navigates \/ GoesLater \/ Opens
  \/ \E n \in Decision :
       \/ ResultArrives(n) \/ DecisionFails(n) \/ ResultShown(n) \/ SlidOut(n)
       \/ \E p \in Approval : Decides(n, p)
  \/ CardUnmounts

PanelSpec == PanelInit /\ [][PanelNext]_panelVars

-----------------------------------------------------------------------------
\* approval-panel.ts: "An approval arrived while the person was typing; the
\* panel opens the moment they are done".  An approval that has arrived while
\* no result was on screen is shown, or owed to a person who is typing.
ArrivalsOpen == due # {} => panel.open \/ (panel.owed /\ typing)

\* approval-panel.test.ts:22: "after "Later" the same approvals do not open it
\* again; a new arrival does": of what was sent away nothing opens the panel by
\* itself, except a debt that was raised while the panel was open over a form.
ByItself ==
  /\ ~panel.open /\ panel'.open
  /\ inputs' # inputs
LaterIsLater == ByItself => panel.owed \/ ~(ids' \subseteq sentAway)

\* What arrives is shown, or owed to a person who is typing; what was sent away
\* does not come back by itself.
PanelFollows == [][ArrivalsOpen' /\ LaterIsLater]_panelVars
=============================================================================
