--------------------------- MODULE MCSharedDataDir ---------------------------
(* SharedDataDir on small sets of interchangeable processes and proposals.  *)
EXTENDS SharedDataDir, TLC

Symmetry == Permutations(Process) \cup Permutations(Proposal)
=============================================================================
