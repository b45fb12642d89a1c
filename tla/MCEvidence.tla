----------------------------- MODULE MCEvidence -----------------------------
(* A small instance of Evidence for TLC: one branch. *)
EXTENDS Evidence, TLC

CONSTANTS branch, project, key

MCKind == branch :> "branch"
MCProjectOf == branch :> project
MCNoPipeline == <<>>
MCBudgets == {[changes |-> 0, runs |-> 3, decisions |-> 2]}
=============================================================================
