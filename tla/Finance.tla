------------------------------ MODULE Finance ------------------------------
(* The two ways money leaves the company, side by side in one process: the  *)
(* vendor payments and a picker's withdrawals.  They share no document, so  *)
(* a step of one leaves the other as it was.                               *)
EXTENDS VendorPayments, PayoutMoney

FinanceNext == \/ Next /\ UNCHANGED payoutVars
               \/ PayoutNext /\ UNCHANGED vars
FinanceSpec == Init /\ PayoutInit /\ [][FinanceNext]_<<vars, payoutVars>>

(* Types of both. *)
TypesOK == TypeOK /\ PayoutTypeOK
=============================================================================
