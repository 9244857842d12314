----------------------------- MODULE MCDelivery -----------------------------
(* Instances of Delivery for TLC.                                           *)
EXTENDS Delivery, TLC

CONSTANTS v1, v2, d1, publisher
=============================================================================
