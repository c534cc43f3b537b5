------------------------------- MODULE Account -------------------------------
(* What a wallet promises its customer: an order is paid for once, out of   *)
(* money that is there, in one step.                                        *)
EXTENDS Integers

CONSTANTS Orders, Amounts, Opening

VARIABLES funds,  \* what the customer can still spend
          paid    \* the orders paid from it

Init == funds = Opening /\ paid = {}

Pay(o, a) == /\ o \notin paid
             /\ a <= funds
             /\ funds' = funds - a
             /\ paid' = paid \cup {o}

Next == \E o \in Orders, a \in Amounts : Pay(o, a)

Spec == Init /\ [][Next]_<<funds, paid>>
=============================================================================
