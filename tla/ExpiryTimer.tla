---------------------------- MODULE ExpiryTimer ----------------------------
(* The expiry watchdog of the control plane (session-expiry-scheduler.ts):  *)
(* a precise timer, chained in chunks because setTimeout() counts 31 bits,  *)
(* and a coarse interval that asks again after the machine has slept.       *)
(* Timers count the time the machine is awake; now is the wall clock, which *)
(* runs on while it sleeps and can be set back by the system.               *)
EXTENDS Integers

CONSTANTS MaxDelay,     \* MAX_TIMEOUT_MS
          Coarse,       \* coarseIntervalMs
          Lifetimes,    \* how far away the end of a new session can be
          MaxNow,       \* bound: the wall clock
          MaxSleeps, MaxSetBacks, MaxSessions   \* bounds: what happens how often

TimesAssumption ==
    /\ MaxDelay \in Nat \ {0} /\ Coarse \in Nat \ {0} /\ MaxNow \in Nat
    /\ Lifetimes \subseteq Nat
    /\ MaxSleeps \in Nat /\ MaxSetBacks \in Nat /\ MaxSessions \in Nat

VARIABLES now,       \* Date.now()
          expiresAt, \* vault.getSessionExpiresAt()
          precise,   \* preciseTimer: what is left and what it does
          coarse,    \* what is left of the coarse interval
          overdue,   \* awake time a session has outlived its end (history)
          sleeps, setBacks, logins

timerVars == <<now, expiresAt, precise, coarse, overdue, sleeps, setBacks, logins>>

NoTime == -1    \* no session, no timer
NoTimer == [left |-> NoTime, does |-> "check"]

TimerInit ==
    /\ now = 0 /\ expiresAt = NoTime
    /\ precise = NoTimer /\ coarse = Coarse     \* start()
    /\ overdue = 0 /\ sleeps = 0 /\ setBacks = 0 /\ logins = 0

(* reschedule(): the timer for a session that ends at exp.  A timer that is *)
(* replaced is cancelled, one whose callback ran is gone.                   *)
UnchainedTimer(exp) ==      \* setTimeout() fires at once when it overflows
    IF exp = NoTime THEN NoTimer
    ELSE LET delay == IF exp > now THEN exp - now ELSE 0
         IN  [left |-> IF delay > MaxDelay THEN 0 ELSE delay, does |-> "check"]

TimerFor(exp) ==
    IF exp = NoTime THEN NoTimer
    ELSE LET delay == IF exp > now THEN exp - now ELSE 0
         IN  IF delay > MaxDelay
             THEN [left |-> MaxDelay, does |-> "reschedule"]
             ELSE [left |-> delay, does |-> "check"]

(* check(): onExpired() is lockExpiredSession(), which clears the vault and *)
(* does not reschedule.                                                     *)
Reached == expiresAt # NoTime /\ now >= expiresAt
Check == IF Reached THEN expiresAt' = NoTime /\ overdue' = 0
                    ELSE UNCHANGED <<expiresAt, overdue>>

PreciseFires ==
    /\ precise.left = 0
    /\ \/ /\ precise.does = "reschedule"
          /\ precise' = TimerFor(expiresAt)
          /\ UNCHANGED <<expiresAt, overdue>>
       \/ precise.does = "check" /\ Check /\ precise' = NoTimer
    /\ UNCHANGED <<now, coarse, sleeps, setBacks, logins>>

CoarseFires ==
    /\ coarse = 0
    /\ Check
    /\ coarse' = Coarse
    /\ UNCHANGED <<now, precise, sleeps, setBacks, logins>>

(* A login, also over a session that is still open: setSession(), then      *)
(* onSessionEstablished().                                                  *)
Login ==
    /\ logins < MaxSessions
    /\ \E life \in Lifetimes :
          /\ now + life =< MaxNow
          /\ expiresAt' = now + life
          /\ precise' = TimerFor(now + life)
    /\ overdue' = 0
    /\ logins' = logins + 1
    /\ UNCHANGED <<now, coarse, sleeps, setBacks>>

LockedElsewhere ==      \* a 401, a mismatch, a logout: the timers stay armed
    /\ expiresAt # NoTime
    /\ expiresAt' = NoTime /\ overdue' = 0
    /\ UNCHANGED <<now, precise, coarse, sleeps, setBacks, logins>>

LeftAfter(n) == IF n = NoTime THEN NoTime ELSE n - 1

TimerTick ==    \* a timer that is due fires before time goes on
    /\ now < MaxNow + Coarse
    /\ precise.left # 0 /\ coarse # 0
    /\ now' = now + 1
    /\ precise' = [precise EXCEPT !.left = LeftAfter(@)]
    /\ coarse' = LeftAfter(coarse)
    /\ overdue' = IF Reached THEN overdue + 1 ELSE 0
    /\ UNCHANGED <<expiresAt, sleeps, setBacks, logins>>

Sleep ==    \* the machine sleeps: the wall clock goes on, the timers do not
    /\ sleeps < MaxSleeps
    /\ \E d \in 1..(MaxNow - now) : now' = now + d
    /\ sleeps' = sleeps + 1
    /\ UNCHANGED <<expiresAt, precise, coarse, overdue, setBacks, logins>>

SetBack ==  \* the system corrects its clock (or a timer fires a trifle early)
    /\ setBacks < MaxSetBacks /\ now > 0
    /\ now' = now - 1
    /\ setBacks' = setBacks + 1
    /\ UNCHANGED <<expiresAt, precise, coarse, sleeps, logins>>
    /\ overdue' = IF Reached' THEN overdue ELSE 0

TimerNext == \/ PreciseFires \/ CoarseFires \/ Login \/ LockedElsewhere
             \/ TimerTick \/ Sleep \/ SetBack

TimerSpec == TimerInit /\ [][TimerNext]_timerVars

----------------------------------------------------------------------------
Times == 0..(MaxNow + Coarse)

TimerTypeOK ==
    /\ now \in Times /\ expiresAt \in Times \cup {NoTime}
    /\ precise \in [left : NoTime..MaxDelay, does : {"check", "reschedule"}]
    /\ coarse \in 0..Coarse /\ overdue \in Nat
    /\ sleeps \in 0..MaxSleeps /\ setBacks \in 0..MaxSetBacks
    /\ logins \in 0..MaxSessions

(* While the machine stays awake and its clock is not touched, a session is *)
(* never open beyond its end: through every chunk of a far expiry and every *)
(* login over an older session, the precise timer is the right one.         *)
OnTime == (sleeps = 0 /\ setBacks = 0 /\ expiresAt # NoTime) => now =< expiresAt

(* Whatever sleep and clock did to the precise timer, a session that has    *)
(* ended is locked within one coarse interval of time awake.                *)
CaughtByTheCoarseCheck == overdue =< Coarse

(* Both: on time as long as the timers can be, else one interval late.      *)
ExpiryIsKept == OnTime /\ CaughtByTheCoarseCheck
=============================================================================
