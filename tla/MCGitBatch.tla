----------------------------- MODULE MCGitBatch -----------------------------
(* Small instances of GitBatch for TLC. *)
EXTENDS GitBatch

Clean == [main |-> "base", topic |-> None, on |-> "main", upstream |-> TRUE,
          tracking |-> "base", remote |-> "base", staged |-> 0, dirty |-> FALSE,
          conflict |-> FALSE, same |-> TRUE, listed |-> TRUE]
Staged == [Clean EXCEPT !.dirty = TRUE, !.staged = 1]
Ahead == [Clean EXCEPT !.main = "ours", !.upstream = FALSE]
Behind == [Clean EXCEPT !.tracking = "theirs", !.remote = "theirs"]
\* The branch was deleted at the remote, the tracking branch has not followed.
Gone == [Clean EXCEPT !.remote = None]

MCWorlds == {<<Ahead, Staged>>, <<Behind, Gone>>}
MCSingle == {<<[Staged EXCEPT !.topic = "base"]>>}
=============================================================================
