---------------------------- MODULE MCReminders ----------------------------
(* Small instances of Reminders for TLC. *)
EXTENDS Reminders

MCOne == [k \in {"confirmation"} |-> 1]
=============================================================================
