---------------------------- MODULE MCJobRunner ----------------------------
(* Small instances of JobRunner for TLC. *)
EXTENDS JobRefinement, TLC

CONSTANTS j1, j2, j3, p1, p2, g1, g2, k1

MCTypes == {"sync", "send"}
MCRecovery == [t \in MCTypes |-> IF t = "sync" THEN "safe_replay" ELSE "manual_review"]
MCConcurrency == [t \in MCTypes |-> IF t = "sync" THEN 2 ELSE 1]
MCSymmetry == Permutations(Jobs) \union Permutations(Procs) \union Permutations(Lanes)
MCRequests == {[type |-> "sync", key |-> k1], [type |-> "send", key |-> NoKey]}
=============================================================================
