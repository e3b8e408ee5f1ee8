----------------------- MODULE NotificationDispatcher -----------------------
(* The doorbell of the control plane (notification-dispatcher.ts): events   *)
(* on the bus are collected and announced as one desktop notification, at   *)
(* most one per quiet period.  Timers that are due fire before time goes    *)
(* on; the numbers are units of time.                                       *)
EXTENDS Integers, FiniteSets

CONSTANTS Debounce, Cooldown,     \* DEBOUNCE_MS, COOLDOWN_MS
          Flood,                  \* FLOOD_THRESHOLD
          MaxTime, MaxEvents       \* bounds: the clock, the events of one window

BellAssumption ==
    /\ Debounce \in Nat \ {0} /\ Cooldown \in Nat /\ Debounce =< Cooldown
    /\ Flood \in Nat \ {0} /\ MaxTime \in Nat /\ MaxEvents \in Nat

VARIABLES time,                   \* Date.now()
          debounce, cooldown,     \* what is left of the two timers
          pending,                \* pendingWhileCoolingDown
          seen,                   \* reviewSeenInWindow, failureSeenInWindow
          observed,               \* observedInWindow
          enabled,                \* the setting desktopNotifications
          shown,                  \* what was shown last
          waiting,                \* the events since the bell rang (history)
          rang                    \* when it rang last (history)

bellVars == <<time, debounce, cooldown, pending, seen, observed, enabled, shown,
              waiting, rang>>

Off == -1
EventKind == {"review", "failure"}      \* REVIEW_EVENTS, FAILURE_EVENTS

BellInit ==
    /\ time = 0 /\ debounce = Off /\ cooldown = Off
    /\ pending = FALSE /\ seen = {} /\ observed = 0
    /\ enabled \in BOOLEAN
    /\ shown = "none" /\ waiting = {} /\ rang = -Cooldown

Counts(k) ==
    /\ observed < MaxEvents
    /\ observed' = observed + 1
    /\ seen' = seen \cup {k}
    /\ waiting' = waiting \cup {[kind |-> k, at |-> time, nth |-> observed]}
    /\ UNCHANGED <<time, cooldown, enabled, shown, rang>>

ForgetfulTrigger(k) ==      \* a mistake: the quiet period is over before it is
    /\ Counts(k)
    /\ debounce' = IF debounce # Off THEN debounce ELSE Debounce
    /\ UNCHANGED pending

OnTrigger(k) ==
    /\ Counts(k)
    /\ IF cooldown # Off THEN pending' = TRUE /\ UNCHANGED debounce
       ELSE /\ debounce' = IF debounce # Off THEN debounce ELSE Debounce
            /\ UNCHANGED pending

Announcement == IF observed >= Flood THEN "flood"
                ELSE IF seen = EventKind THEN "mixed"
                ELSE IF "failure" \in seen THEN "failure" ELSE "review"

(* fire(): the setting is read now, and the quiet period begins whether or  *)
(* not anything is shown.                                                   *)
Fire == /\ shown' = IF enabled THEN Announcement ELSE shown
        /\ observed' = 0 /\ seen' = {} /\ waiting' = {}
        /\ cooldown' = Cooldown
        /\ rang' = time
        /\ UNCHANGED <<time, enabled>>

DebounceEnds == /\ debounce = 0
                /\ debounce' = Off
                /\ Fire /\ UNCHANGED pending

CooldownEnds == /\ cooldown = 0
                /\ \/ /\ pending
                      /\ pending' = FALSE
                      /\ Fire /\ UNCHANGED debounce
                   \/ /\ ~pending
                      /\ cooldown' = Off
                      /\ UNCHANGED <<time, debounce, pending, seen, observed, enabled,
                                     shown, waiting, rang>>

Toggle == /\ enabled' = ~enabled
          /\ UNCHANGED <<time, debounce, cooldown, pending, seen, observed, shown,
                         waiting, rang>>

OneLess(n) == IF n = Off THEN Off ELSE n - 1

BellTick ==
    /\ time < MaxTime /\ debounce # 0 /\ cooldown # 0
    /\ time' = time + 1
    /\ debounce' = OneLess(debounce) /\ cooldown' = OneLess(cooldown)
    /\ UNCHANGED <<pending, seen, observed, enabled, shown, waiting, rang>>

BellNext == \/ \E k \in EventKind : OnTrigger(k)
            \/ DebounceEnds \/ CooldownEnds \/ Toggle \/ BellTick

BellSpec == BellInit /\ [][BellNext]_bellVars

----------------------------------------------------------------------------
BellTypeOK ==
    /\ time \in 0..MaxTime /\ rang \in -Cooldown..MaxTime
    /\ debounce \in Off..Debounce /\ cooldown \in Off..Cooldown
    /\ pending \in BOOLEAN /\ seen \subseteq EventKind /\ enabled \in BOOLEAN
    /\ observed \in 0..MaxEvents
    /\ shown \in EventKind \cup {"none", "mixed", "flood"}
    /\ waiting \subseteq [kind : EventKind, at : 0..MaxTime, nth : 0..MaxEvents]

(* The bell never rings twice within a quiet period, whatever is switched   *)
(* on and off in between.                                                   *)
KeepsQuiet == rang' # rang => rang' - rang >= Cooldown

(* No event waits longer than a quiet period: the batching delays, it never *)
(* drops.                                                                   *)
TellsSoon == \A e \in waiting : time - e.at =< Cooldown

(* What is shown is about the events since the bell rang last: a failure is *)
(* told of unless it drowns in a flood, none is told of that did not        *)
(* happen, and a flood happened within one quiet period.                    *)
Recent == {e \in waiting : time - e.at =< Cooldown}
TellsTheTruth ==
    (rang' # rang /\ enabled) =>
      /\ shown' = "flood" <=> Cardinality(Recent) >= Flood
      /\ shown' = "failure" <=> shown' # "flood" /\ {e.kind : e \in waiting} = {"failure"}
      /\ shown' = "review" <=> shown' # "flood" /\ {e.kind : e \in waiting} = {"review"}

(* Doorbell, not record: each ring keeps its distance, comes soon enough    *)
(* and says what happened.                                                  *)
BellIsKept == [][KeepsQuiet /\ TellsSoon /\ TellsTheTruth]_bellVars
=============================================================================
