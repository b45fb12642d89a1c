---------------------------- MODULE MCQuarterly ----------------------------
(* Small instances of Quarterly for TLC. *)
EXTENDS Quarterly

=============================================================================
