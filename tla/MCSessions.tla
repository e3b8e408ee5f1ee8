----------------------------- MODULE MCSessions -----------------------------
(***************************************************************************)
(* What the control plane watches over, on a small instance each: the      *)
(* session of the Authority Server, held by it and the MCP server, with    *)
(* two tabs and two accounts; the timer of the session's end on a clock of *)
(* twelve units; the doorbell on a clock of seven; and what a tab shows,   *)
(* the queue of approvals with two proposals.  The parts share nothing; a  *)
(* behaviour moves one and leaves the others as they began.                *)
(***************************************************************************)
EXTENDS SessionLock, ExpiryTimer, NotificationDispatcher, ApprovalQueue, TLC

VARIABLE part

ASSUME Assumptions ==
  SessionAssumption /\ TimesAssumption /\ BellAssumption /\ QueueAssumption

\* A part that rests has one initial state: the vault is empty, the doorbell on.
WatchInit ==
  /\ part \in {"lock", "timer", "bell", "queue"}
  /\ Init /\ TimerInit /\ BellInit /\ QueueInit
  /\ part = "lock" \/ owner = NoAccount
  /\ part = "bell" \/ enabled

\* Three logins, or two and a mismatch.
LoginsOrMismatch == mismatches' = 0 \/ sessions' <= 2

WatchNext ==
  /\ UNCHANGED part
  /\ \/ part = "lock" /\ Next /\ LoginsOrMismatch /\ UNCHANGED <<timerVars, bellVars, queueVars>>
     \/ part = "timer" /\ TimerNext /\ UNCHANGED <<vars, bellVars, queueVars>>
     \/ part = "bell" /\ BellNext /\ UNCHANGED <<vars, timerVars, queueVars>>
     \/ part = "queue" /\ QueueNext /\ UNCHANGED <<vars, timerVars, bellVars>>

watched == <<part, vars, timerVars, bellVars, queueVars>>

WatchSpec == WatchInit /\ [][WatchNext]_watched

\* Tabs and accounts are interchangeable.
Symmetry == Permutations(Account) \cup Permutations(Tab)
=============================================================================
