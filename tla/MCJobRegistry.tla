---------------------------- MODULE MCJobRegistry ----------------------------
(* JobRegistry on small instances.                                         *)
EXTENDS JobRegistry, TLC

(* Ids are random and never compared; any thread serves any poll.          *)
Symmetry ==
    Permutations(Scheduled) \cup Permutations(Jobs \ Scheduled) \cup Permutations(Polls)
==============================================================================
