----------------------------- MODULE MCDelivery -----------------------------
(* One row, two relays that share the default identity, two workers.       *)
EXTENDS Delivery, TLC

CONSTANTS m1, r1, r2, w1, w2

SharedID == r1 :> "relay-1" @@ r2 :> "relay-1"
OneTopic == m1 :> "review.run.acknowledged"
=============================================================================
