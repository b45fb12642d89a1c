----------------------------- MODULE MCDelivery -----------------------------
(* Small instance of Delivery for TLC. *)
EXTENDS Delivery

CONSTANT c1
=============================================================================
