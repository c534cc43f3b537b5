---------------------------- MODULE Disbursement ----------------------------
(* What a vendor payment promises: it is opened once over some invoices,   *)
(* each of them is taken through the steps of the workflow one at a time,  *)
(* the payment is done with the last step of the last invoice, and once it *)
(* is done or called off nothing about it changes any more.                *)
EXTENDS Naturals

CONSTANTS Payments, Invoices, Steps

VARIABLES stage,  \* of each payment
          over,   \* the invoices it pays
          taken   \* how many steps each of them has behind it

Init == /\ stage = [p \in Payments |-> "unopened"]
        /\ over = [p \in Payments |-> {}]
        /\ taken = [p \in Payments |-> [i \in Invoices |-> 0]]

Open(p) == /\ stage[p] = "unopened" /\ over'[p] \in (SUBSET Invoices) \ {{}}
           /\ over' = [over EXCEPT ![p] = over'[p]]
           /\ stage' = [stage EXCEPT ![p] = "open"]
           /\ UNCHANGED taken

Step(p, i) == /\ stage[p] = "open" /\ i \in over[p] /\ taken[p][i] < Steps
              /\ taken' = [taken EXCEPT ![p][i] = @ + 1]
              /\ stage' = [stage EXCEPT ![p] = IF \A k \in over[p] : taken'[p][k] = Steps
                                                 THEN "done" ELSE @]
              /\ UNCHANGED over

CallOff(p) == /\ stage[p] = "open"
              /\ stage' = [stage EXCEPT ![p] = "called off"]
              /\ UNCHANGED <<over, taken>>

Next == \E p \in Payments : Open(p) \/ CallOff(p) \/ \E i \in Invoices : Step(p, i)

Spec == Init /\ [][Next]_<<stage, over, taken>>
=============================================================================
