--------------------------- MODULE ScopeSelection ---------------------------
(***************************************************************************)
(* Which mandate covers a call, when several do                            *)
(* (apps/mcp-server/src/lib/scope-specificity.ts).                         *)
(*                                                                         *)
(* A scope gives every key of the profile a set of allowed values (the     *)
(* token set of its comma separated text); the empty set allows all.  The  *)
(* module holds no state.                                                  *)
(***************************************************************************)
EXTENDS FiniteSets, Integers

CONSTANTS
  Mandate,
  Key,            \* scopeSchema.keyOrder of the profile
  Value,          \* the tokens
  Rank            \* Rank[m]: the place of m's id in the order of localeCompare

RankAssumption ==
  /\ Rank \in [Mandate -> Nat]
  /\ \A m, n \in Mandate : Rank[m] = Rank[n] => m = n

Scope == [Key -> SUBSET Value]

-----------------------------------------------------------------------------
(* Mistakes this file could have.                                           *)

\* The tie-break does not look for approvals.
OldestFirst(P, scope, review) == {m \in P : \A n \in P : Rank[m] <= Rank[n]}

-----------------------------------------------------------------------------
SubsetOrEqual(a, b) == b = {} \/ (a # {} /\ a \subseteq b)

AtLeastAsSpecific(a, b) == \A k \in Key : SubsetOrEqual(a[k], b[k])

StrictlyMoreSpecific(a, b) == AtLeastAsSpecific(a, b) /\ ~ AtLeastAsSpecific(b, a)

\* The candidates that are strictly more specific than every other one.
Dominators(P, scope) ==
  {m \in P : \A n \in P \ {m} : StrictlyMoreSpecific(scope[m], scope[n])}

\* Without a dominator: of those that require approval, else of all, the one
\* whose id comes first.
FailSafe(P, scope, review) ==
  LET approvers == P \cap review
      from == IF approvers # {} THEN approvers ELSE P
  IN  {m \in from : \A n \in from : Rank[m] <= Rank[n]}

\* selectAuthorization(): P is not empty; review is the set of the mandates
\* that require approval.
Select(P, scope, review) ==
  CHOOSE m \in P : m \in IF Dominators(P, scope) # {} THEN Dominators(P, scope)
                                                      ELSE FailSafe(P, scope, review)
=============================================================================
