----------------------------- MODULE OrderOutcome -----------------------------
(* What the handlers of OrderPayment together promise about the order.     *)
EXTENDS OrderPayment

(* The gateway took this amount, for this order or for another one.        *)
Captured == "success" \in elsewhere \/ \E t \in DOMAIN emitted : "success" \in emitted[t]
Quiet == \A s \in Slots : At(s, "idle")
Over == order.released \/ order.status = "cancelled"

Statuses == Terminal \cup {"created", "pending", "unknown"}
RowType == [txn : 1..MaxSessions, platform : Platforms, status : Statuses,
            hashed : BOOLEAN, verified : BOOLEAN, age : 0..3]
OrderType == [status : {"pending", "cancelled"}, pay : {"pending", "paid", "failed"},
              released : BOOLEAN, refunded : BOOLEAN, restored : BOOLEAN]

(* Types; every attempt has a session, and no two attempts share one (the  *)
(* unique index on txnId never fires), however createSession races.        *)
TypeOK ==
  /\ order \in OrderType
  /\ DOMAIN rows \subseteq 1..MaxSessions /\ \A a \in DOMAIN rows : rows[a] \in RowType
  /\ DOMAIN emitted \subseteq 1..MaxSessions
  /\ \A t \in DOMAIN emitted : emitted[t] \subseteq Codes
  /\ elsewhere \subseteq OtherCodes
  /\ \A a \in DOMAIN rows : rows[a].txn \in DOMAIN emitted
  /\ \A a, b \in DOMAIN rows : rows[a].txn = rows[b].txn => a = b
  /\ walletBack \subseteq {"void", "cancel", "unbooked"} /\ refundReqs \in 0..2
  /\ \A s \in Slots : h[s].job \in Jobs \cup {"none"} /\ h[s].o \in OrderType

(* "SUCCESS is only ever trusted with a verified hash + matching amount":  *)
(* an order is paid, released, in the darkstore or refunded only if the    *)
(* gateway captured that amount - in a transaction of this order or, since *)
(* nobody compares the transaction, of another one.                        *)
PaidIsCaptured ==
  order.pay = "paid" \/ order.released \/ shop \/ refundReqs > 0 => Captured

(* Whoever books the wallet part as given back also cancels the order,     *)
(* unless the process dies between the two.  (A cancel whose ledger row    *)
(* fails leaves the sum on the balance and the order as it was: what is    *)
(* unbooked is not part of this.)                                          *)
Booked == walletBack \cap {"void", "cancel"} # {}
WalletBackIfCancelled ==
  Quiet /\ crashes = 0 /\ Booked => order.status = "cancelled"

(* A void that ran to its end left nothing behind: the lines are back in   *)
(* the cart - no release cleared it since - and a claimed wallet refund    *)
(* was credited.                                                           *)
VoidIsComplete ==
  Quiet /\ crashes = 0 /\ order.status = "cancelled" =>
    cart /\ (order.refunded => "void" \in walletBack)

(* "a real gateway result that already landed wins": five writers settle   *)
(* an attempt, and only a new session changes one that is settled.         *)
VerdictStands ==
  [][\A a \in DOMAIN rows :
       rows[a].status \in Terminal => rows'[a].status \in {rows[a].status, "created"}]_rows

(* The gateway's handlers implement the abstract checkout.                 *)
Outcome == INSTANCE Checkout WITH
  stage <- IF order.released THEN "placed"
           ELSE IF order.status = "cancelled" THEN "voided" ELSE "awaiting",
  captured <- Captured, returned <- walletBack # {}
PlacedOrVoided == Outcome!Spec

(* No order keeps "awaiting payment" forever: whatever callbacks, aborts   *)
(* and crashes do, reading the order settles it in the end.                *)
Settles == <>Over

(* "Never downgrade an order that was already paid (e.g. duplicate/stale   *)
(* callback for an older attempt after a successful retry)": only the      *)
(* customer's cancel makes a paid order unpaid.                            *)
PaidStaysPaid ==
  [][order.pay = "paid" /\ order'.pay # "paid" =>
       \E s \in Slots : At(s, "cancelSave") /\ ~At(s, "cancelSave")']_vars

(* "A verified gateway success that races this abort keeps its [...]       *)
(* (ops/refund attention)": a callback that brings one lets go of it only  *)
(* when the order is paid or the attention is raised.                      *)
Brings(s) == h[s].job = "callback" /\ h[s].arg = "success" /\ h[s].ok
SuccessIsHeard ==
  [][\A s \in Slots : Brings(s) /\ ~Brings(s)' /\ crashes' = crashes =>
       order'.pay = "paid" \/ flagged']_vars
=============================================================================
