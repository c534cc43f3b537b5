----------------------------- MODULE WalletMoney -----------------------------
(* What the wallet promises about money: the stored balance against the     *)
(* ledger, and the account that a wallet nobody credits implements.         *)
EXTENDS Wallet, Functions

DebitRows == {row \in ledger : row.src = "order_payment"}
CreditRows == ledger \ DebitRows
Amount(rows) == SumFunctionOnSet([row \in rows |-> row.amt], rows)

(* What the ledger says the customer has. *)
Funds == InitBalance + Amount(CreditRows) - Amount(DebitRows)

(* Debits taken from the balance whose row is not written and not undone.  *)
Taken == {r \in Requests : pc[r] \in {"bookDebit", "undoDuplicate", "undoFailed"}}
InTransit == SumFunctionOnSet(due, Taken)

(* "prevents overdraft under concurrent checkouts", read off the ledger:   *)
(* once every handler has answered, none of them with an error, the orders *)
(* paid from the wallet cost no more than the money that was put into it.  *)
NoOverspend ==
  (\A r \in Requests : pc[r] \in {"idle", "done"} /\ reply[r] # "error") => Funds >= 0

(* Debits and checkouts alone keep the balance equal to the ledger, but    *)
(* for the debits between their $inc and their row; a crash there loses    *)
(* the customer money, it never gives any.                                 *)
BooksBalance ==
  /\ balance + InTransit <= Funds
  /\ (\A r \in Requests : pc[r] # "lost") => balance + InTransit = Funds

(* Debits and checkouts alone implement the account: each ledger row is    *)
(* one payment of an unpaid order out of money that is there.              *)
Acct == INSTANCE Account WITH
          Orders <- Refs, Amounts <- 0..InitBalance, Opening <- InitBalance,
          funds <- Funds, paid <- {row.ref : row \in DebitRows}
PaysLikeAnAccount == Acct!Spec
=============================================================================
