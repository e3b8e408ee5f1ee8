------------------------- MODULE MCReviewExecution --------------------------
(***************************************************************************)
(* Small instances of ReviewExecution: the proposals are interchangeable.  *)
(***************************************************************************)
EXTENDS ReviewExecution, TLC

Symmetry == Permutations(Proposal)
=============================================================================
