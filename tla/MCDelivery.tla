----------------------------- MODULE MCDelivery -----------------------------
(* Delivery on small instances: one window, spools of two batches.          *)
EXTENDS Delivery

CONSTANT w1
OneWindow == {w1}
=============================================================================
