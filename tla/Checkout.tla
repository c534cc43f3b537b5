------------------------------- MODULE Checkout -------------------------------
(* What an online checkout promises: it ends once, placed when the gateway *)
(* has captured its amount or voided, and the wallet part comes back only  *)
(* to a voided one.                                                        *)
VARIABLES stage,    \* awaiting, placed or voided
          captured, \* has the gateway taken this amount, here or elsewhere?
          returned  \* did the wallet part come back, booked or not?

Init == stage = "awaiting" /\ captured = FALSE /\ returned = FALSE

Capture == ~captured /\ captured' = TRUE /\ UNCHANGED <<stage, returned>>
Place == stage = "awaiting" /\ captured /\ stage' = "placed" /\ UNCHANGED <<captured, returned>>
Void == stage = "awaiting" /\ stage' = "voided" /\ UNCHANGED <<captured, returned>>
Return == stage = "voided" /\ ~returned /\ returned' = TRUE /\ UNCHANGED <<stage, captured>>

Next == Capture \/ Place \/ Void \/ Return

Spec == Init /\ [][Next]_<<stage, captured, returned>>
=============================================================================
