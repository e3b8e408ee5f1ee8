-------------------------- MODULE SelectionFallback --------------------------
(***************************************************************************)
(* ScopeSelection over every assignment of scopes to a few mandates, with  *)
(* the pool shrinking as attemptWithCandidates() (tool-proxy.ts) shrinks   *)
(* it: a mandate the Authority Server calls stale is dropped and the       *)
(* selection is made again among the rest.                                 *)
(***************************************************************************)
EXTENDS ScopeSelection

VARIABLES
  signedScope,    \* the scope of every mandate
  signedReview,   \* the mandates that require approval
  passedChecks,   \* the mandates that passed the checks of this call
  candidates      \* those of them that are left

selectionVars == <<signedScope, signedReview, passedChecks, candidates>>

SelectionInit ==
  /\ passedChecks \in (SUBSET Mandate) \ {{}}
  /\ signedReview \in SUBSET passedChecks
  /\ signedScope \in [Mandate -> Scope]
  /\ \A m \in Mandate \ passedChecks : signedScope[m] = [k \in Key |-> {}]   \* plays no part
  /\ candidates = passedChecks

Chosen == Select(candidates, signedScope, signedReview)

\* A mandate under review becomes a proposal and never comes back here.
SelectionFallsBack ==
  /\ Chosen \notin signedReview
  /\ candidates' = candidates \ {Chosen}
  /\ candidates' # {}
  /\ UNCHANGED <<signedScope, signedReview, passedChecks>>

SelectionNext == SelectionFallsBack

SelectionSpec == SelectionInit /\ [][SelectionNext]_selectionVars

-----------------------------------------------------------------------------
\* What a scope means: the calls it covers.  A call carries one value per
\* key, possibly one that no mandate names.
Covered(s) ==
  {e \in [Key -> Value \cup {"other"}] : \A k \in Key : s[k] = {} \/ e[k] \in s[k]}

OtherAssumption == "other" \notin Value

\* strictlyMoreSpecific(), computed key by key over token sets, is what it is
\* meant to be: the first scope covers fewer calls and none that the second
\* does not cover.
SpecificMeansFewer ==
  \A m \in passedChecks : \A n \in passedChecks \ {m} :
    StrictlyMoreSpecific(signedScope[m], signedScope[n]) <=>
      /\ Covered(signedScope[m]) \subseteq Covered(signedScope[n])
      /\ Covered(signedScope[m]) # Covered(signedScope[n])

\* "Ambiguity must never silently weaken": a mandate that runs without
\* approval is chosen, also after any number of fallbacks, only if every
\* mandate that would have asked for approval covers strictly more calls.
NeverWeakened ==
  Chosen \notin signedReview =>
    \A m \in signedReview \cap passedChecks :
      /\ Covered(signedScope[Chosen]) \subseteq Covered(signedScope[m])
      /\ Covered(signedScope[Chosen]) # Covered(signedScope[m])

\* The deliberate exception is honoured: a mandate narrower than all other
\* candidates is the one that is used.
ExceptionWins ==
  \A m \in candidates :
    (\A n \in candidates \ {m} : /\ Covered(signedScope[m]) \subseteq Covered(signedScope[n])
                                 /\ Covered(signedScope[m]) # Covered(signedScope[n]))
      => Chosen = m

\* The three together: the selection can be relied upon.
SelectionIsSound == SpecificMeansFewer /\ NeverWeakened /\ ExceptionWins
=============================================================================
