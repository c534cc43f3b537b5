------------------------------- MODULE Wallet -------------------------------
(***************************************************************************)
(* The wallet of ONE customer: the CustomerWallet document (balance,       *)
(* isActive), its WalletTransaction ledger, and the request handlers that  *)
(* read and write them.  A handler is asynchronous JavaScript on MongoDB:  *)
(* it runs alone between two awaits and anything may run at an await, so   *)
(* every database call is one step here.  Amounts are whole paise, the     *)
(* unit roundInr rounds to.                                                *)
(***************************************************************************)
EXTENDS Integers

CONSTANTS Requests,    \* handler invocations, each serves one call
          Calls,       \* the calls they may serve: [op, ref, amt]
          Refs,        \* order ids, gateway transaction ids, refund ids
          InitBalance, \* the balance before the first of them
          MaxTopUp,    \* MAX_TOP_UP_AMOUNT
          MinOnline    \* WORLDLINE_MIN_AMOUNT_INR

(* checkout: createOrder.  debit: the legacy POST /wallet/debit.           *)
(* topup, void: walletService.creditWallet.  auto: the creditWallet of     *)
(* autoRefundService.  goodwill: the admin's creditCustomerWallet.         *)
Ops == {"checkout", "debit", "topup", "void", "auto", "goodwill"}

ASSUME CallsAssumption == Calls \subseteq [op : Ops, ref : Refs, amt : Nat \ {0}]
ASSUME AmountsAssumption == InitBalance \in Nat /\ MaxTopUp \in Nat /\ MinOnline \in Nat

NoCall == [op |-> "none"]

VARIABLES balance,  \* CustomerWallet.balance
          active,   \* CustomerWallet.isActive
          ledger,   \* WalletTransaction rows [by, src, ref, amt]
          pc,       \* where each handler is
          call,     \* the call it serves
          due,      \* the amount it moves
          doc,      \* the balance of the wallet document it loaded
          reply     \* its answer

vars == <<balance, active, ledger, pc, call, due, doc, reply>>

(* wallet-void:{orderId}, which is no order's, payment's or refund's id.   *)
voidRefundReferenceId(o) == <<"wallet-void", o>>
ASSUME RefsAssumption == \A o \in Refs : voidRefundReferenceId(o) \notin Refs

(* The (source, referenceId) under which a call books its ledger row. *)
Source(c) == IF c.op \in {"checkout", "debit"} THEN "order_payment"
             ELSE IF c.op = "topup" THEN "payment_topup"
             ELSE IF c.op = "goodwill" THEN "goodwill" ELSE "refund"
Reference(c) == IF c.op = "void" THEN voidRefundReferenceId(c.ref) ELSE c.ref

Booked(src, ref) == \E row \in ledger : row.src = src /\ row.ref = ref
Row(r) == [by |-> r, src |-> Source(call[r]), ref |-> Reference(call[r]), amt |-> due[r]]

(* wallet_ledger_idempotency_v2 refuses a second row of the same key. *)
IndexedSources == {"payment_topup", "order_payment", "refund"}
AnyRow(c) == TRUE
Insertable(c) == Source(c) \in IndexedSources => ~Booked(Source(c), Reference(c))

Answer(r, a) == /\ reply' = [reply EXCEPT ![r] = a]
                /\ pc' = [pc EXCEPT ![r] = "done"]
Goto(r, label) == pc' = [pc EXCEPT ![r] = label] /\ UNCHANGED reply

Init == /\ balance = InitBalance
        /\ active \in BOOLEAN
        /\ ledger = {}
        /\ pc = [r \in Requests |-> "idle"]
        /\ call = [r \in Requests |-> NoCall]
        /\ due = [r \in Requests |-> 0]
        /\ doc = [r \in Requests |-> 0]
        /\ reply = [r \in Requests |-> "none"]

-----------------------------------------------------------------------------
(* A top-up is credited under the claim WorldlinePayment.walletCredited and *)
(* a void refund under Order.walletRefundedAt.  Both are set before the     *)
(* call and cleared only when it answers with an error.                     *)
Unclaimed(c) == TRUE
ClaimFree(c) ==
  c.op \in {"topup", "void"} =>
    \A q \in Requests :
      call[q] # NoCall /\ call[q].op = c.op /\ call[q].ref = c.ref => reply[q] = "error"

(* A checkout's order id is new; the legacy debit finds its order.         *)
OrderKnown(c) ==
  \A q \in Requests : call[q] # NoCall /\ call[q].ref = c.ref =>
    /\ c.op # "checkout"
    /\ c.op = "debit" /\ call[q].op = "checkout" => reply[q] = "ok"

FirstStep(c) == IF c.op = "checkout" THEN "price"
                ELSE IF c.op \in {"debit", "topup"} THEN "lookup"
                ELSE IF c.op = "void" THEN "lookupDebit" ELSE "read"

Begin(r) ==
  /\ pc[r] = "idle"
  /\ \E c \in Calls :
       /\ ClaimFree(c) /\ OrderKnown(c)
       /\ call' = [call EXCEPT ![r] = c]
       /\ due' = [due EXCEPT ![r] = c.amt]
       /\ IF c.op = "topup" /\ c.amt > MaxTopUp
            THEN Answer(r, "error")
            ELSE Goto(r, FirstStep(c))
  /\ UNCHANGED <<balance, active, ledger, doc>>

(* An empty wallet is not refused here. *)
PriceAnyBalance(r) ==
  /\ pc[r] = "price"
  /\ due' = [due EXCEPT ![r] = IF balance < @ THEN balance ELSE @]
  /\ Goto(r, "commit")
  /\ UNCHANGED <<balance, active, ledger, call, doc>>

(* createOrder reads the wallet outside its transaction and fixes the      *)
(* deduction: the whole bill, or the balance with the rest paid online.    *)
PriceCheckout(r) ==
  /\ pc[r] = "price"
  /\ LET bill == call[r].amt
         deduction == IF balance < bill THEN balance ELSE bill
         online == bill - deduction
     IN  IF active /\ deduction > 0 /\ (online = 0 \/ online >= MinOnline)
           THEN due' = [due EXCEPT ![r] = deduction] /\ Goto(r, "commit")
           ELSE Answer(r, "error") /\ UNCHANGED due
  /\ UNCHANGED <<balance, active, ledger, call, doc>>

(* debitWalletForOrder's conditional update {isActive, balance >= amount}. *)
Unchecked(r) == active
Funded(r) == active /\ balance >= due[r]

(* createOrder's transaction: the debit, its ledger row and the order      *)
(* commit together, or the transaction aborts and nothing is written.      *)
CommitCheckout(r) ==
  /\ pc[r] = "commit"
  /\ \/ /\ ~Booked("order_payment", call[r].ref) /\ Funded(r)
        /\ balance' = balance - due[r]
        /\ ledger' = ledger \cup {Row(r)}
        /\ Answer(r, "ok")
     \/ Answer(r, "error") /\ UNCHANGED <<balance, ledger>>
  /\ UNCHANGED <<active, call, due, doc>>

-----------------------------------------------------------------------------
(* The lookup of an earlier row of the same key, which makes a call        *)
(* idempotent when it finds one.                                           *)
Lookup(r) ==
  /\ pc[r] = "lookup"
  /\ IF Booked(Source(call[r]), Reference(call[r]))
       THEN Answer(r, "already")
       ELSE Goto(r, IF call[r].op = "debit" THEN "debit" ELSE "read")
  /\ UNCHANGED <<balance, active, ledger, call, due, doc>>

(* refundWalletForFailedOrderPayment: only a debited order is refunded,    *)
(* and never more than its debit.                                          *)
LookupNothing(r) ==
  /\ pc[r] = "lookupDebit"
  /\ Goto(r, "lookup")
  /\ UNCHANGED <<balance, active, ledger, call, due, doc>>

LookupDebit(r) ==
  /\ pc[r] = "lookupDebit"
  /\ \/ /\ ~Booked("order_payment", call[r].ref)
        /\ Answer(r, "skipped") /\ UNCHANGED due
     \/ \E row \in ledger :
          /\ row.src = "order_payment" /\ row.ref = call[r].ref
          /\ due' = [due EXCEPT ![r] = IF row.amt < @ THEN row.amt ELSE @]
          /\ Goto(r, "lookup")
  /\ UNCHANGED <<balance, active, ledger, call, doc>>

Debit(r) ==
  /\ pc[r] = "debit"
  /\ IF Funded(r)
       THEN balance' = balance - due[r] /\ Goto(r, "bookDebit")
       ELSE Answer(r, "error") /\ UNCHANGED balance
  /\ UNCHANGED <<active, ledger, call, due, doc>>

(* The debit's ledger row, which the index or a failing write may refuse.  *)
BookDebit(r) ==
  /\ pc[r] = "bookDebit"
  /\ \/ Insertable(call[r]) /\ ledger' = ledger \cup {Row(r)} /\ Answer(r, "ok")
     \/ ~Insertable(call[r]) /\ Goto(r, "undoDuplicate") /\ UNCHANGED ledger
     \/ Goto(r, "undoFailed") /\ UNCHANGED ledger
  /\ UNCHANGED <<balance, active, call, due, doc>>

-----------------------------------------------------------------------------
(* A credit loads the wallet document, ...                                 *)
CreditRead(r) ==
  /\ pc[r] = "read"
  /\ IF ~active /\ call[r].op \in {"topup", "void"}
       THEN Answer(r, "error") /\ UNCHANGED doc
       ELSE doc' = [doc EXCEPT ![r] = balance] /\ Goto(r, "save")
  /\ UNCHANGED <<balance, active, ledger, call, due>>

(* ... adds to it in memory and saves the sum: an absolute $set that       *)
(* overwrites whatever was written since the document was loaded.          *)
CreditSave(r) ==
  /\ pc[r] = "save"
  /\ doc' = [doc EXCEPT ![r] = @ + due[r]]
  /\ balance' = doc[r] + due[r]
  /\ Goto(r, "bookCredit")
  /\ UNCHANGED <<active, ledger, call, due>>

(* The credit's ledger row.  walletService reverses a duplicate; the other *)
(* two credits throw and leave the balance raised.                         *)
BookCredit(r) ==
  /\ pc[r] = "bookCredit"
  /\ \/ Insertable(call[r]) /\ ledger' = ledger \cup {Row(r)} /\ Answer(r, "ok")
     \/ /\ ~Insertable(call[r]) => call[r].op \in {"auto", "goodwill"}
        /\ Answer(r, "error") /\ UNCHANGED ledger
     \/ /\ ~Insertable(call[r]) /\ call[r].op \in {"topup", "void"}
        /\ Goto(r, "undoCredit") /\ UNCHANGED ledger
  /\ UNCHANGED <<balance, active, call, due, doc>>

(* The balance change whose row was refused is taken back: a debit by      *)
(* $inc +amount, a credit by saving Math.max(0, balance - parsed).         *)
UndoNothing(r) ==
  /\ pc[r] \in {"undoDuplicate", "undoFailed", "undoCredit"}
  /\ Answer(r, IF pc[r] = "undoFailed" THEN "error" ELSE "already")
  /\ UNCHANGED <<balance, active, ledger, call, due, doc>>

Undo(r) ==
  /\ pc[r] \in {"undoDuplicate", "undoFailed", "undoCredit"}
  /\ balance' = IF pc[r] # "undoCredit" THEN balance + due[r]
                ELSE IF doc[r] < due[r] THEN 0 ELSE doc[r] - due[r]
  /\ Answer(r, IF pc[r] = "undoFailed" THEN "error" ELSE "already")
  /\ UNCHANGED <<active, ledger, call, due, doc>>

(* The process exits (uncaughtException, memory limit, deploy): every      *)
(* handler in flight is gone, what it wrote stays.                         *)
InFlight == {r \in Requests : pc[r] \notin {"idle", "done", "lost"}}

Crash ==
  /\ InFlight # {}
  /\ pc' = [r \in Requests |-> IF r \in InFlight THEN "lost" ELSE pc[r]]
  /\ UNCHANGED <<balance, active, ledger, call, due, doc, reply>>

Step(r) ==
  \/ Begin(r)
  \/ PriceCheckout(r) \/ CommitCheckout(r)
  \/ Lookup(r) \/ LookupDebit(r) \/ Debit(r) \/ BookDebit(r)
  \/ CreditRead(r) \/ CreditSave(r) \/ BookCredit(r)
  \/ Undo(r)

Next == Crash \/ \E r \in Requests : Step(r)

Spec == Init /\ [][Next]_vars

-----------------------------------------------------------------------------
Labels == {"idle", "price", "commit", "lookup", "lookupDebit", "debit", "bookDebit",
           "read", "save", "bookCredit", "undoDuplicate", "undoFailed", "undoCredit",
           "done", "lost"}
Replies == {"none", "ok", "already", "skipped", "error"}

(* Types: the document, its rows and the handlers' locals.  Nobody moves   *)
(* an amount of zero: "Invalid amount", "Invalid wallet debit amount".    *)
TypeOK ==
  /\ balance \in Int
  /\ active \in BOOLEAN
  /\ \A row \in ledger : row.by \in Requests /\ row.amt \in Nat \ {0}
  /\ pc \in [Requests -> Labels]
  /\ call \in [Requests -> Calls \cup {NoCall}]
  /\ \A r \in Requests : pc[r] # "idle" => call[r] \in Calls /\ due[r] > 0
  /\ due \in [Requests -> Nat]
  /\ doc \in [Requests -> Int]
  /\ reply \in [Requests -> Replies]

(* "Atomic conditional debit - prevents overdraft under concurrent         *)
(* checkouts": however debits, credits with stale documents and reversals  *)
(* interleave, and wherever the process dies, the stored balance is never  *)
(* negative.                                                               *)
NoOverdraft == balance >= 0

(* Every answer is true of the ledger: "ok" and "already" mean the row is  *)
(* there, and no two handlers both moved money for one indexed key, though *)
(* both may have seen no row in their lookup.                              *)
ExactlyOnce ==
  /\ \A r \in Requests :
       reply[r] \in {"ok", "already"} => Booked(Source(call[r]), Reference(call[r]))
  /\ \A r, q \in Requests :
       /\ r # q /\ reply[r] = "ok" /\ reply[q] = "ok"
       /\ Source(call[r]) = Source(call[q]) /\ Reference(call[r]) = Reference(call[q])
       => Source(call[r]) \notin IndexedSources

(* A void refund gives back money the order really took from the wallet,   *)
(* and no more than it took.                                               *)
RefundBacked ==
  \A row \in ledger : \A o \in Refs :
    row.src = "refund" /\ row.ref = voidRefundReferenceId(o) =>
      \E debit \in ledger : /\ debit.src = "order_payment" /\ debit.ref = o
                            /\ row.amt <= debit.amt

(* The callers' claims keep creditWallet out of its "Lost a race" branch,  *)
(* whose absolute save of a stale document would erase the credit of the   *)
(* handler that won: while a top-up or a void refund is between its lookup *)
(* and its row, nobody else books that key.                                *)
NoRaceForACredit ==
  \A r \in Requests :
    call[r] # NoCall /\ call[r].op \in {"topup", "void"}
      /\ pc[r] \in {"read", "save", "bookCredit", "undoCredit"}
    => Insertable(call[r])
=============================================================================
