----------------------------- MODULE OrderPayment -----------------------------
(* ONE order paid online through the Worldline gateway: the CustomerOrder  *)
(* document, its WorldlinePayment attempts, and every handler that settles *)
(* them - callbacks, the app's abort, read-path reconciliation, the cron,  *)
(* the customer's cancel and new sessions - with one step per database     *)
(* call, since anything may run between two awaits.  Notifications, the    *)
(* coupon and the payment instrument are left out.                         *)
EXTENDS Integers, FiniteSets

CONSTANTS Slots,       \* concurrent handler invocations
          Serves,      \* the jobs each slot may run
          Platforms,   \* android, ios, web
          Codes,       \* what the gateway may answer
          MaxAge,      \* how far time goes: 1 ends a session, 2 is 24 hours
          Deduct,      \* did checkout take a part from the wallet?
          MaxSessions, \* bound on gateway sessions (txnIds)
          OtherCodes,  \* what the gateway may answer to other orders of this amount
          MaxCrashes   \* bound on process exits

Jobs == {"callback", "abort", "poll", "status", "cron", "cancel", "session"}
ASSUME ServesAssumption == Serves \in [Slots -> SUBSET Jobs]
ASSUME PlatformsAssumption == Platforms # {}
ASSUME BoundsAssumption ==
  /\ Deduct \in BOOLEAN /\ MaxSessions \in Nat \ {0} /\ MaxCrashes \in Nat
  /\ MaxAge \in 0..2 /\ Codes \subseteq {"success", "failed", "cancelled", "pending"}
  /\ OtherCodes \subseteq Codes

VARIABLES order,      \* [status, pay, released, refunded, restored]
          rows,       \* attemptNo -> WorldlinePayment
          emitted,    \* txnId -> the answers the gateway has given for it
          elsewhere,  \* the answers it has given to other orders of the same amount
          shop,       \* is there a darkstore order?
          cart,       \* does the customer's cart hold the order's lines?
          walletBack, \* how the wallet part came back: the keys of ledger rows, or
                      \* "unbooked", on a balance saved before its row failed
          refundReqs, \* refund requests of this order, counted up to 2
          flagged,    \* "refund attention needed" was logged
          h,          \* the handlers
          crashes

goods == <<shop, cart, walletBack, refundReqs>>
db == <<order, rows, goods, flagged>>
env == <<emitted, elsewhere, crashes>>
vars == <<db, env, h>>

Terminal == {"success", "failed", "cancelled"}
NewRow == [txn |-> 1, platform |-> CHOOSE p \in Platforms : TRUE, status |-> "created",
           hashed |-> FALSE, verified |-> TRUE, age |-> 0]
NewOrder == [status |-> "pending", pay |-> "pending", released |-> FALSE,
             refunded |-> FALSE, restored |-> FALSE]

(* A handler: its job, where it is, its attempt, what it carries (a code,  *)
(* a platform, a status to write), whether that is verified or reused, and *)
(* the row and the order as it last loaded them.                           *)
Idle == [job |-> "none", pc |-> "idle", a |-> 0, arg |-> "none", ok |-> FALSE,
         row |-> NewRow, o |-> NewOrder]

At(s, label) == h[s].pc = label
Goto(s, label) == h' = [h EXCEPT ![s].pc = label]
Enter(s, label) == h' = [h EXCEPT ![s] = [Idle EXCEPT !.job = h[s].job, !.pc = label]]
End(s) == h' = [h EXCEPT ![s] = Idle]
Start(s, job, label, a, arg, ok, row) ==
  /\ At(s, "idle") /\ job \in Serves[s]
  /\ h' = [h EXCEPT ![s] = [Idle EXCEPT !.job = job, !.pc = label, !.a = a, !.arg = arg,
                                        !.ok = ok, !.row = row]]

Latest == CHOOSE a \in DOMAIN rows : \A b \in DOMAIN rows : b <= a
Unpaid(o) == o.pay # "paid" /\ ~o.released
Verified(row) == row.status = "success" /\ row.verified

Init == /\ order = NewOrder
        /\ \/ rows = <<>> /\ emitted = <<>>
           \/ rows = <<NewRow>> /\ emitted = << {} >>
        /\ elsewhere = {} /\ shop = FALSE /\ cart = TRUE /\ walletBack = {} /\ refundReqs = 0
        /\ flagged = FALSE /\ crashes = 0
        /\ h = [s \in Slots |-> Idle]

-----------------------------------------------------------------------------
(* The gateway and the clock. *)
GatewayAnswers ==
  /\ \/ /\ \E t \in DOMAIN emitted, code \in Codes :
             /\ emitted[t] \cap Terminal = {} /\ code \notin emitted[t]
             /\ emitted' = [emitted EXCEPT ![t] = @ \cup {code}]
        /\ UNCHANGED elsewhere
     \/ /\ \E code \in OtherCodes \ elsewhere : elsewhere' = elsewhere \cup {code}
        /\ UNCHANGED emitted
  /\ UNCHANGED <<order, rows, shop, cart, walletBack, refundReqs, flagged, h, crashes>>

(* Thirty minutes end a session, 24 hours make an attempt extremely stale; *)
(* a new session renews the first clock (sessionExpiresAt), but not the    *)
(* second (createdAt): age 3.                                              *)
Expired(row) == row.age \in {1, 2}
Renewed(age) == IF age < 2 THEN 0 ELSE 3
TimePasses ==
  /\ \E a \in DOMAIN rows :
       /\ rows[a].age # 2 /\ rows[a].age # MaxAge
       /\ rows' = [rows EXCEPT ![a].age = IF @ = 3 THEN 2 ELSE @ + 1]
  /\ UNCHANGED <<order, goods, flagged, env, h>>

Crash ==
  /\ crashes < MaxCrashes /\ \E s \in Slots : ~At(s, "idle")
  /\ h' = [s \in Slots |-> Idle] /\ crashes' = crashes + 1
  /\ UNCHANGED <<db, emitted, elsewhere>>

-----------------------------------------------------------------------------
(* releaseOrderFulfillment: read and check the order, ... *)
Release(s) ==
  /\ At(s, "release")
  /\ IF order.released \/ order.status = "cancelled" \/ order.pay # "paid"
       THEN End(s) ELSE Goto(s, "clear")
  /\ UNCHANGED <<db, env>>

(* ... clear the cart in a transaction, ... *)
ClearCart(s) ==
  /\ At(s, "clear")
  /\ cart' = FALSE /\ Goto(s, "dispatch")
  /\ UNCHANGED <<order, rows, shop, walletBack, refundReqs, flagged, env>>

(* ... hand the order to the darkstore (order_id is unique there), ... *)
Dispatch(s) ==
  /\ At(s, "dispatch")
  /\ shop' = TRUE /\ Goto(s, "claim")
  /\ UNCHANGED <<order, rows, cart, walletBack, refundReqs, flagged, env>>

(* ... and claim the release, unless the order was cancelled meanwhile.    *)
ClaimRelease(s) ==
  /\ At(s, "claim")
  /\ order' = IF order.status = "cancelled" THEN order ELSE [order EXCEPT !.released = TRUE]
  /\ End(s)
  /\ UNCHANGED <<rows, goods, flagged, env>>

-----------------------------------------------------------------------------
(* voidUnpaidOnlineOrder: read the order, claim the cancelled transition, ... *)
Void(s) ==
  /\ At(s, "void")
  /\ IF order.released THEN End(s) ELSE Goto(s, "voidClaim")
  /\ UNCHANGED <<db, env>>

VoidUnguarded == order.status # "cancelled"
Voidable == order.status # "cancelled" /\ Unpaid(order)
ClaimVoid(s) ==
  /\ At(s, "voidClaim")
  /\ IF Voidable
       THEN /\ order' = [order EXCEPT !.status = "cancelled", !.pay = "failed"]
            /\ Goto(s, "walletClaim")
       ELSE End(s) /\ UNCHANGED order
  /\ UNCHANGED <<rows, goods, flagged, env>>

(* ... give the wallet part back under a claim (refundWalletDeductionOnVoid, *)
(* and the same lines in executeCancellation), ... *)
CartNext(s) == "cartClaim"
AfterWallet(s) == IF h[s].job = "cancel" THEN "cancelSave" ELSE "cartClaim"
ClaimWallet(s) ==
  /\ At(s, "walletClaim")
  /\ IF Deduct /\ ~order.refunded
       THEN order' = [order EXCEPT !.refunded = TRUE] /\ Goto(s, "walletCredit")
       ELSE Goto(s, AfterWallet(s)) /\ UNCHANGED order
  /\ UNCHANGED <<rows, goods, flagged, env>>

(* refundWalletForFailedOrderPayment credits, answers with an error, or    *)
(* throws with the balance saved or not; the claim is taken back after     *)
(* both, but by executeCancellation after an error only.                   *)
AfterThrow(s) == IF h[s].job = "cancel" THEN "cancelSave" ELSE "walletUnclaim"
Unbooked == {walletBack, walletBack \cup {"unbooked"}}
CreditWallet(s) ==
  /\ At(s, "walletCredit")
  /\ \/ walletBack' = walletBack \cup {"void"} /\ Goto(s, AfterWallet(s))
     \/ Goto(s, "walletUnclaim") /\ UNCHANGED walletBack
     \/ walletBack' \in Unbooked /\ Goto(s, AfterThrow(s))
  /\ UNCHANGED <<order, rows, shop, cart, refundReqs, flagged, env>>

UnclaimWallet(s) ==
  /\ At(s, "walletUnclaim")
  /\ order' = [order EXCEPT !.refunded = FALSE] /\ Goto(s, AfterWallet(s))
  /\ UNCHANGED <<rows, goods, flagged, env>>

(* ... and put the lines back into the cart, once (restoreCartFromOrder).  *)
ClaimCart(s) ==
  /\ At(s, "cartClaim")
  /\ IF order.restored THEN End(s) /\ UNCHANGED order
     ELSE order' = [order EXCEPT !.restored = TRUE] /\ Goto(s, "cartRestore")
  /\ UNCHANGED <<rows, goods, flagged, env>>

RestoreCart(s) ==
  /\ At(s, "cartRestore")
  /\ cart' = TRUE /\ End(s)
  /\ UNCHANGED <<order, rows, shop, walletBack, refundReqs, flagged, env>>

-----------------------------------------------------------------------------
(* verifyGatewayResponse computes the hash over the answer's own fields    *)
(* and compares the amount: what the gateway signed for any transaction of *)
(* this amount verifies.                                                   *)
VerifiesAll(code) == TRUE
Verifies(code) == code \in elsewhere \/ \E t \in DOMAIN emitted : code \in emitted[t]

(* completePayment and processGatewayReturn: an answer arrives, perhaps    *)
(* again; one that does not verify may say anything.  The first takes it   *)
(* for the attempt its caller names, the second looks up the attempt by    *)
(* the transaction in the answer, a case of the first.  A row settled by   *)
(* an earlier answer is only released, if it succeeded.                    *)
Receive(s) ==
  /\ \E a \in DOMAIN rows, code \in Codes, ok \in BOOLEAN :
       /\ ok => Verifies(code)
       /\ IF rows[a].status \in Terminal /\ rows[a].hashed
            THEN /\ Verified(rows[a])
                 /\ Start(s, "callback", "release", 0, "none", FALSE, NewRow)
            ELSE Start(s, "callback", "order", a, code, ok, NewRow)
  /\ UNCHANGED <<db, env>>

LoadOrder(s) ==
  /\ At(s, "order")
  /\ h' = [h EXCEPT ![s].o = order, ![s].pc = "settle"]
  /\ UNCHANGED <<db, env>>

(* "SUCCESS is only ever trusted with a verified hash"; a failure always.  *)
StatusOf(code, ok) == IF ok \/ code \in {"failed", "cancelled"} THEN code ELSE "unknown"

(* What the handler does with the row it ends up with. *)
Follow(s, row) ==
  LET o == h[s].o IN
  IF Verified(row)
    THEN IF o.status = "cancelled"
           THEN flagged' = TRUE /\ End(s)
           ELSE Goto(s, "savePaid") /\ UNCHANGED flagged
    ELSE /\ IF row.status \in {"failed", "cancelled"} /\ Unpaid(o)
              THEN Goto(s, "saveFailed") ELSE End(s)
         /\ UNCHANGED flagged

(* The update that a terminal status blocks; then the row is read again.   *)
Settleable(row) == row.status \notin Terminal
Settle(s) ==
  /\ At(s, "settle")
  /\ LET a == h[s].a IN
     \/ /\ Settleable(rows[a])
        /\ \E hashed \in BOOLEAN :
             /\ h[s].ok => hashed
             /\ rows' = [rows EXCEPT ![a].status = StatusOf(h[s].arg, h[s].ok),
                                     ![a].hashed = hashed, ![a].verified = h[s].ok]
        /\ Follow(s, rows'[a])
     \/ ~Settleable(rows[a]) /\ Goto(s, "reread") /\ UNCHANGED <<rows, flagged>>
  /\ UNCHANGED <<order, goods, env>>

Reread(s) ==
  /\ At(s, "reread") /\ Follow(s, rows[h[s].a])
  /\ UNCHANGED <<order, rows, goods, env>>

(* order.save() writes paymentStatus if it differs from what was loaded.   *)
SavePay(s, label, pay, next) ==
  /\ At(s, label)
  /\ order' = IF h[s].o.pay = pay THEN order ELSE [order EXCEPT !.pay = pay]
  /\ Enter(s, next)
  /\ UNCHANGED <<rows, goods, flagged, env>>
SavePaid(s) == SavePay(s, "savePaid", "paid", "release")
SaveFailed(s) == SavePay(s, "saveFailed", "failed", "void")

-----------------------------------------------------------------------------
(* abortPayment: the customer left the gateway without an answer. *)
Abort(s) ==
  /\ \E a \in DOMAIN rows : Start(s, "abort", "abortClaim", a, "none", FALSE, NewRow)
  /\ UNCHANGED <<db, env>>

ClaimAbort(s) ==
  /\ At(s, "abortClaim")
  /\ LET a == h[s].a IN
     IF Settleable(rows[a])
       THEN rows' = [rows EXCEPT ![a].status = "cancelled"] /\ Goto(s, "abortOrder")
       ELSE Goto(s, "abortReread") /\ UNCHANGED rows
  /\ UNCHANGED <<order, goods, flagged, env>>

RereadAborted(s) ==
  /\ At(s, "abortReread")
  /\ IF rows[h[s].a].status \in {"failed", "cancelled"} THEN Goto(s, "abortOrder") ELSE End(s)
  /\ UNCHANGED <<db, env>>

AbortOrder(s) ==
  /\ At(s, "abortOrder")
  /\ IF Unpaid(order) THEN Enter(s, "void") ELSE End(s)
  /\ UNCHANGED <<db, env>>

-----------------------------------------------------------------------------
(* Abandoned before the gateway answered, or extremely stale.  *)
AbandonedOnly(row, stale) == row.status = "created" /\ Expired(row)
TimedOut(row, stale) == stale \/ (row.status = "created" /\ Expired(row))

(* reconcileOrderWithLatestWorldlinePayment, on every read of the order:   *)
(* load the latest attempt - without one, an order past its time is void - *)
Poll(s) ==
  /\ IF rows = <<>>
       THEN order.status = "pending" /\ Unpaid(order) /\ Start(s, "poll", "void", 0, "none", FALSE, NewRow)
       ELSE Start(s, "poll", "pollOrder", Latest, "none", FALSE, rows[Latest])
  /\ UNCHANGED <<db, env>>

(* then the order, and do what the attempt says.  *)
PollOrder(s) ==
  /\ At(s, "pollOrder")
  /\ LET row == h[s].row
         open == order.status = "pending" /\ Unpaid(order)
     IN \/ /\ Verified(row)
           /\ IF order.status = "cancelled" THEN flagged' = TRUE /\ End(s)
              ELSE /\ IF order.pay = "paid" THEN Enter(s, "release")
                      ELSE h' = [h EXCEPT ![s] = [Idle EXCEPT !.job = "poll", !.pc = "savePaid",
                                                              !.o = order]]
                   /\ UNCHANGED flagged
        \/ /\ row.status \in {"failed", "cancelled"}
           /\ IF open \/ (row.verified /\ ~order.released) THEN Enter(s, "void") ELSE End(s)
           /\ UNCHANGED flagged
        \/ /\ row.status \notin Terminal
           /\ IF open /\ TimedOut(row, row.age >= 2)
                THEN h' = [h EXCEPT ![s].pc = "expire", ![s].arg = "failed"]
                ELSE End(s)
           /\ UNCHANGED flagged
  /\ UNCHANGED <<order, rows, goods, env>>

(* The update that only an unchanged status admits; what follows does not  *)
(* ask whether it took place.                                              *)
StaleSettles(row, seen) == TRUE
StillAt(row, seen) == row.status = seen
ExpireRow(s) ==
  /\ At(s, "expire")
  /\ LET a == h[s].a IN
     rows' = IF StillAt(rows[a], h[s].row.status) THEN [rows EXCEPT ![a].status = h[s].arg] ELSE rows
  /\ IF h[s].job = "poll" THEN Enter(s, "void") ELSE Goto(s, "cronLatest")
  /\ UNCHANGED <<order, goods, flagged, env>>

(* worldlineReconciliationJob takes a stale attempt. *)
Cron(s) ==
  /\ \E a \in DOMAIN rows : \E stale \in {FALSE, rows[a].age = 2} :
       /\ rows[a].status \notin Terminal
       /\ Start(s, "cron", "expire", a,
                IF TimedOut(rows[a], stale) THEN "failed" ELSE "unknown", FALSE, rows[a])
  /\ UNCHANGED <<db, env>>

CronLatest(s) ==
  /\ At(s, "cronLatest")
  /\ IF h[s].a = Latest THEN Goto(s, "cronOrder") ELSE End(s)
  /\ UNCHANGED <<db, env>>

CronOrder(s) ==
  /\ At(s, "cronOrder")
  /\ \/ /\ h[s].arg = "unknown"
        /\ order' = IF order.pay = "paid" THEN order ELSE [order EXCEPT !.pay = "pending"]
        /\ End(s)
     \/ /\ h[s].arg = "failed" /\ UNCHANGED order
        /\ IF Unpaid(order) THEN Enter(s, "void")
           ELSE IF order.pay # "paid" THEN Goto(s, "cronFail") ELSE End(s)
  /\ UNCHANGED <<rows, goods, flagged, env>>

CronFail(s) ==
  /\ At(s, "cronFail")
  /\ order' = [order EXCEPT !.pay = "failed"] /\ End(s)
  /\ UNCHANGED <<rows, goods, flagged, env>>

(* getStatus heals a paid order whose release was interrupted. *)
GetStatus(s) ==
  /\ order.pay = "paid" /\ ~order.released
  /\ Start(s, "status", "statusLatest", 0, "none", FALSE, NewRow)
  /\ UNCHANGED <<db, env>>

StatusLatest(s) ==
  /\ At(s, "statusLatest")
  /\ IF rows # <<>> /\ Verified(rows[Latest]) THEN Enter(s, "release") ELSE End(s)
  /\ UNCHANGED <<db, env>>

-----------------------------------------------------------------------------
(* executeCancellation: canCustomerCancel reads the order, which is then   *)
(* loaded again without asking for its status.                             *)
Cancel(s) ==
  /\ order.status = "pending" /\ Start(s, "cancel", "cancelLoad", 0, "none", FALSE, NewRow)
  /\ UNCHANGED <<db, env>>

CancelLoad(s) ==
  /\ At(s, "cancelLoad")
  /\ h' = [h EXCEPT ![s].o = order, ![s].pc =
             IF ~order.released
               THEN IF Deduct /\ ~order.refunded THEN "walletClaim" ELSE "cancelSave"
             ELSE IF order.pay # "paid" THEN "cancelSave"
             ELSE IF Deduct THEN "cancelCredit" ELSE "refundLookup"]
  /\ UNCHANGED <<db, env>>

(* A released, paid order is refunded: its wallet part at once; a failure, *)
(* or a row under this key already there, throws with the balance saved or *)
(* not, and nothing is cancelled, ...                                      *)
CancelCredit(s) ==
  /\ At(s, "cancelCredit")
  /\ \/ /\ "cancel" \notin walletBack
        /\ walletBack' = walletBack \cup {"cancel"} /\ Goto(s, "refundLookup")
     \/ walletBack' \in Unbooked /\ End(s)
  /\ UNCHANGED <<order, rows, shop, cart, refundReqs, flagged, env>>

(* ... the rest by a refund request, unless one is found (or it fails).    *)
LookupRefund(s) ==
  /\ At(s, "refundLookup")
  /\ Goto(s, IF refundReqs > 0 THEN "cancelSave" ELSE "refundCreate")
  /\ UNCHANGED <<db, env>>

CreateRefund(s) ==
  /\ At(s, "refundCreate") /\ Goto(s, "cancelSave")
  /\ refundReqs' \in {refundReqs, IF refundReqs < 2 THEN refundReqs + 1 ELSE 2}
  /\ UNCHANGED <<order, rows, shop, cart, walletBack, flagged, env>>

(* order.save(): cancelled, and failed if it was loaded unreleased.        *)
SaveCancel(s) ==
  /\ At(s, "cancelSave")
  /\ LET o == h[s].o
         pay == IF ~o.released /\ o.pay # "failed" THEN "failed" ELSE order.pay
     IN /\ order' = [order EXCEPT !.status = "cancelled", !.pay = pay]
        /\ IF o.released THEN End(s) ELSE Enter(s, "cartClaim")
  /\ UNCHANGED <<rows, goods, flagged, env>>

-----------------------------------------------------------------------------
(* createSession: refused for a cancelled or paid order; otherwise the     *)
(* platform's latest attempt is reused while it is open and unexpired, and *)
(* the next one is made if not.                                            *)
Opening == {s \in Slots : At(s, "latest") \/ (At(s, "upsert") /\ ~h[s].ok)}
CreateSession(s) ==
  /\ order.status # "cancelled" /\ order.pay # "paid"
  /\ Cardinality(DOMAIN emitted) + Cardinality(Opening) < MaxSessions
  /\ \E p \in Platforms : Start(s, "session", "latest", 0, p, FALSE, NewRow)
  /\ UNCHANGED <<db, env>>

LatestAttempt(s) ==
  /\ At(s, "latest")
  /\ LET mine == {a \in DOMAIN rows : rows[a].platform = h[s].arg}
         last == CHOOSE a \in mine : \A b \in mine : b <= a
         reuse == mine # {} /\ rows[last].status \notin Terminal /\ ~Expired(rows[last])
     IN h' = [h EXCEPT ![s].pc = "upsert", ![s].ok = reuse,
                       ![s].a = IF mine = {} THEN 1 ELSE IF reuse THEN last ELSE last + 1,
                       ![s].row = IF mine = {} THEN NewRow ELSE rows[last]]
  /\ UNCHANGED <<db, env>>

LastTxn(s) == h[s].row.txn
Txn(s) == IF h[s].ok THEN h[s].row.txn ELSE Cardinality(DOMAIN emitted) + 1

(* The upsert by {orderId, attemptNo}: another platform's attempt of that  *)
(* number is given this session's txnId, whatever its status.              *)
Upsert(s) ==
  /\ At(s, "upsert")
  /\ LET a == h[s].a
         txn == Txn(s)
         base == IF a \in DOMAIN rows THEN rows[a] ELSE [NewRow EXCEPT !.platform = h[s].arg]
     IN /\ rows' = [b \in DOMAIN rows \cup {a} |->
                      IF b = a THEN [base EXCEPT !.txn = txn, !.status = "created",
                                                 !.age = Renewed(@)]
                               ELSE rows[b]]
        /\ emitted' = [t \in DOMAIN emitted \cup {txn} |->
                         IF t \in DOMAIN emitted THEN emitted[t] ELSE {}]
  /\ End(s)
  /\ UNCHANGED <<order, goods, flagged, elsewhere, crashes>>

-----------------------------------------------------------------------------
Fulfil(s) == Release(s) \/ ClearCart(s) \/ Dispatch(s) \/ ClaimRelease(s)
Undo(s) == \/ Void(s) \/ ClaimVoid(s) \/ ClaimWallet(s) \/ CreditWallet(s)
           \/ UnclaimWallet(s) \/ ClaimCart(s) \/ RestoreCart(s)
Callback(s) == \/ LoadOrder(s) \/ Settle(s) \/ Reread(s) \/ SavePaid(s) \/ SaveFailed(s)
Aborting(s) == ClaimAbort(s) \/ RereadAborted(s) \/ AbortOrder(s)
Reconcile(s) == \/ PollOrder(s) \/ ExpireRow(s) \/ StatusLatest(s)
                \/ CronLatest(s) \/ CronOrder(s) \/ CronFail(s)
Cancelling(s) == \/ CancelLoad(s) \/ CancelCredit(s) \/ LookupRefund(s)
                 \/ CreateRefund(s) \/ SaveCancel(s)
Begin(s) == \/ Receive(s) \/ Abort(s) \/ Poll(s) \/ GetStatus(s)
            \/ Cron(s) \/ Cancel(s) \/ CreateSession(s)

(* A handler goes on by itself. *)
Continue(s) == \/ Fulfil(s) \/ Undo(s) \/ Callback(s) \/ Aborting(s)
               \/ Reconcile(s) \/ Cancelling(s) \/ LatestAttempt(s) \/ Upsert(s)

Next == \/ GatewayAnswers \/ TimePasses \/ Crash
        \/ \E s \in Slots : Begin(s) \/ Continue(s)

Spec == Init /\ [][Next]_vars

(* A live server finishes what it started, time goes on, and the customer  *)
(* opens the order again and again (every read of it reconciles).          *)
LiveSpec == /\ Spec
            /\ \A s \in Slots : WF_vars(Continue(s))
            /\ \A s \in Slots : WF_vars(Poll(s))
            /\ WF_vars(TimePasses)
=============================================================================
