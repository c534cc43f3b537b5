---------------------------- MODULE PayoutMoney ----------------------------
(* The money of a picker: what was earned against the wallet, the requests  *)
(* and the debits.                                                         *)
EXTENDS Withdrawals, Functions

(* "Lock amount on request; deduct only on Mark Paid": as long as handlers *)
(* do not overlap or fail, what was earned is available, locked for an     *)
(* open request, or paid out with exactly one debit.                       *)
Sum(these) == SumFunctionOnSet([r \in these |-> request[r].amount], these)
InStatus(statuses) == {r \in Requests : request[r].status \in statuses}
BooksBalanceAtRest ==
  ~disturbed /\ (\A h \in Handlers : In(h, "idle")) =>
    /\ wallet.reserved = Sum(InStatus({"PENDING", "APPROVED"}))
    /\ wallet.available + wallet.reserved + Sum(InStatus({"PAID"})) = credits * Earnings
    /\ \A r \in Requests : debits[r] = IF request[r].status = "PAID" THEN 1 ELSE 0
=============================================================================
