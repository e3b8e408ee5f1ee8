---------------------------- MODULE MCSessionLock ----------------------------
(***************************************************************************)
(* Small instances of SessionLock: tabs, accounts and requests of one      *)
(* process are interchangeable.                                            *)
(***************************************************************************)
EXTENDS SessionLock, TLC

Symmetry ==
  Permutations(Account) \cup Permutations(Tab) \cup Permutations(CpCall) \cup Permutations(McpCall)
=============================================================================
