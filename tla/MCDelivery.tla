----------------------------- MODULE MCDelivery -----------------------------
(* A small instance of the webhooks of one logistics order for TLC: two,   *)
(* which fill a prefetch window of one.                                    *)
EXTENDS Delivery

CONSTANTS e1, e2

MCEvents == {e1, e2}
=============================================================================
