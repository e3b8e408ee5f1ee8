---------------------------- MODULE OneExecution ----------------------------
(***************************************************************************)
(* What the review path promises, without saying how: an approved request  *)
(* is claimed before anything is done about it, is acted on at most once,  *)
(* only while it is claimed, and once it is closed it stays closed.  A     *)
(* claim may also stay open for ever: the honest record of a process that  *)
(* died, "started, outcome unknown".                                       *)
(***************************************************************************)
EXTENDS Naturals

CONSTANT Request

VARIABLES claim,    \* claim[r]: "open", "claimed", "done" or "failed"
          acts      \* acts[r]: downstream calls made for r

vars == <<claim, acts>>

TypeOK == /\ claim \in [Request -> {"open", "claimed", "done", "failed"}]
          /\ acts \in [Request -> Nat]

Init == /\ claim = [r \in Request |-> "open"]
        /\ acts = [r \in Request |-> 0]

\* Take the request; nobody took it before.
Claim(r) == /\ claim[r] = "open"
            /\ claim' = [claim EXCEPT ![r] = "claimed"]
            /\ UNCHANGED acts

\* Call the downstream tool, once, under the claim.
Act(r) == /\ claim[r] = "claimed"
          /\ acts[r] = 0
          /\ acts' = [acts EXCEPT ![r] = 1]
          /\ UNCHANGED claim

\* Close the claim; success is only recorded for a call that was made.
Close(r) == /\ claim[r] = "claimed"
            /\ \/ claim' = [claim EXCEPT ![r] = "failed"]
               \/ acts[r] > 0 /\ claim' = [claim EXCEPT ![r] = "done"]
            /\ UNCHANGED acts

\* The request is refused before it was taken: it is closed without a claim.
Refuse(r) == /\ claim[r] = "open"
             /\ claim' = [claim EXCEPT ![r] = "failed"]
             /\ UNCHANGED acts

Next == \E r \in Request : Claim(r) \/ Act(r) \/ Close(r) \/ Refuse(r)

Spec == Init /\ [][Next]_vars
=============================================================================
