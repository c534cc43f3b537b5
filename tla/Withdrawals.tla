---------------------------- MODULE Withdrawals ----------------------------
(* The wallet of ONE picker and its withdrawal requests.  Completing an    *)
(* order credits the wallet, the picker asks for a withdrawal, finance     *)
(* approves, rejects or pays it.  The wallet document is loaded, changed   *)
(* and saved with absolute values and no version check; every await is a   *)
(* point where another handler may run or this one may fail.               *)
EXTENDS Integers, FiniteSets

CONSTANTS Requests, Keys, NoKey, Handlers,
          Amounts,    \* what is asked for
          Earnings,   \* EARNINGS_PER_ORDER
          MaxCredits  \* bound on the orders completed

ASSUME AmountAssumption == Amounts \subseteq Nat \ {0} /\ Earnings \in Nat \ {0} /\ MaxCredits \in Nat
ASSUME KeysAssumption == NoKey \notin Keys

VARIABLES wallet,   \* [available, reserved]
          request,  \* WithdrawalRequest: [status, amount, key]
          credits,  \* credit Transactions, one for each completed order
          debits,   \* debit Transactions of each request
          handler,  \* [at, for, amount, key, doc]: where, on which request
          disturbed \* has a handler ever overlapped another, or failed?

payoutVars == <<wallet, request, credits, debits, handler, disturbed>>

Empty == [available |-> 0, reserved |-> 0]
None == [status |-> "none", amount |-> 0, key |-> NoKey]
Resting == [at |-> "idle", for |-> {}, amount |-> 0, key |-> NoKey, doc |-> Empty]

PayoutInit == /\ wallet = Empty /\ credits = 0 /\ disturbed = FALSE
              /\ request = [r \in Requests |-> None]
              /\ debits = [r \in Requests |-> 0]
              /\ handler = [h \in Handlers |-> Resting]

In(h, label) == handler[h].at = label
Move(h, label) == handler' = [handler EXCEPT ![h].at = label] /\ UNCHANGED disturbed
Done(h) == handler' = [handler EXCEPT ![h] = Resting] /\ UNCHANGED disturbed
Start(h, how) == /\ In(h, "idle") /\ handler' = [handler EXCEPT ![h] = how]
                 /\ disturbed' = (disturbed \/ \E g \in Handlers : ~In(g, "idle"))
LoadWallet(h, label) == /\ handler' = [handler EXCEPT ![h].at = label, ![h].doc = wallet]
                        /\ UNCHANGED <<wallet, request, credits, debits, disturbed>>

(* wallet.save() writes the fields whose value has changed since the load. *)
Written(old, new, now) == IF new = old THEN now ELSE new
SaveWallet(h, available, reserved) ==
  LET doc == handler[h].doc
  IN wallet' = [available |-> Written(doc.available, available, wallet.available),
                reserved |-> Written(doc.reserved, reserved, wallet.reserved)]
LessUnbounded(a, b) == a - b
Less(a, b) == IF a < b THEN 0 ELSE a - b  \* Math.max(0, a - b)

-----------------------------------------------------------------------------
(* creditForOrder: load the wallet, book the transaction, save the wallet. *)
CreditStart(h) == /\ Start(h, [Resting EXCEPT !.at = "creditBook", !.doc = wallet])
                  /\ UNCHANGED <<wallet, request, credits, debits>>
CreditBook(h) == /\ In(h, "creditBook") /\ credits < MaxCredits
                 /\ credits' = credits + 1 /\ Move(h, "creditSave")
                 /\ UNCHANGED <<wallet, request, debits>>
CreditSave(h) == /\ In(h, "creditSave")
                 /\ SaveWallet(h, handler[h].doc.available + Earnings, handler[h].doc.reserved)
                 /\ Done(h) /\ UNCHANGED <<request, credits, debits>>

(* createRequest: a known key is answered, a balance too small refused; a  *)
(* key that is no longer new is refused by the unique index.               *)
Known(k) == k # NoKey /\ \E r \in Requests : request[r].status # "none" /\ request[r].key = k
CreateStart(h, a, k) ==
  /\ ~Known(k) /\ Start(h, [Resting EXCEPT !.at = "createWallet", !.amount = a, !.key = k])
  /\ UNCHANGED <<wallet, request, credits, debits>>
CreateWallet(h) ==
  /\ In(h, "createWallet")
  /\ IF wallet.available < handler[h].amount
     THEN Done(h) /\ UNCHANGED <<wallet, request, credits, debits>>
     ELSE LoadWallet(h, "createInsert")
InsertTwice(h, r) ==
  /\ In(h, "createInsert") /\ request[r].status = "none"
  /\ request' = [request EXCEPT ![r] = [status |-> "PENDING", amount |-> handler[h].amount,
                                        key |-> handler[h].key]]
  /\ Move(h, "createLock") /\ UNCHANGED <<wallet, credits, debits>>
InsertRequest(h, r) ==
  /\ In(h, "createInsert") /\ request[r].status = "none"
  /\ IF Known(handler[h].key) THEN Done(h) /\ UNCHANGED request
     ELSE /\ request' = [request EXCEPT ![r] = [status |-> "PENDING", amount |-> handler[h].amount,
                                                key |-> handler[h].key]]
          /\ Move(h, "createLock")
  /\ UNCHANGED <<wallet, credits, debits>>
CreateLock(h) ==
  /\ In(h, "createLock")
  /\ LET doc == handler[h].doc a == handler[h].amount
     IN SaveWallet(h, doc.available - a, doc.reserved + a)
  /\ Done(h) /\ UNCHANGED <<request, credits, debits>>

-----------------------------------------------------------------------------
(* approve, reject and markPaid load the request, look at its status, and  *)
(* save the new status last.                                               *)
Decide(h, r, statuses, label) ==
  /\ request[r].status \in statuses
  /\ Start(h, [Resting EXCEPT !.at = label, !.for = {r}, !.amount = request[r].amount])
  /\ UNCHANGED <<wallet, request, credits, debits>>
Conclude(h, label, status) ==
  /\ In(h, label)
  /\ request' = [r \in Requests |-> IF r \in handler[h].for
                                    THEN [request[r] EXCEPT !.status = status] ELSE request[r]]
  /\ Done(h) /\ UNCHANGED <<wallet, credits, debits>>

Approve(h, r) == Decide(h, r, {"PENDING"}, "approveSave")
ApproveSave(h) == Conclude(h, "approveSave", "APPROVED")

Reject(h, r) == Decide(h, r, {"PENDING", "APPROVED"}, "rejectWallet")
RejectWallet(h) == In(h, "rejectWallet") /\ LoadWallet(h, "rejectUnlock")
RejectKeeps(h) ==
  /\ In(h, "rejectUnlock")
  /\ SaveWallet(h, handler[h].doc.available, Less(handler[h].doc.reserved, handler[h].amount))
  /\ Move(h, "rejectSave") /\ UNCHANGED <<request, credits, debits>>
RejectUnlock(h) ==
  /\ In(h, "rejectUnlock")
  /\ LET doc == handler[h].doc a == handler[h].amount
     IN SaveWallet(h, doc.available + a, Less(doc.reserved, a))
  /\ Move(h, "rejectSave") /\ UNCHANGED <<request, credits, debits>>
RejectSave(h) == Conclude(h, "rejectSave", "REJECTED")

MarkPaid(h, r) == Decide(h, r, {"APPROVED"}, "payWallet")
PayWallet(h) == In(h, "payWallet") /\ LoadWallet(h, "payUnlock")
PayUnlockUnbooked(h) ==
  /\ In(h, "payUnlock")
  /\ SaveWallet(h, handler[h].doc.available, Less(handler[h].doc.reserved, handler[h].amount))
  /\ Move(h, "paySave") /\ UNCHANGED <<request, credits, debits>>
PayUnlock(h) ==
  /\ In(h, "payUnlock")
  /\ SaveWallet(h, handler[h].doc.available, Less(handler[h].doc.reserved, handler[h].amount))
  /\ Move(h, "payBook") /\ UNCHANGED <<request, credits, debits>>
PayBook(h) ==
  /\ In(h, "payBook")
  /\ debits' = [r \in Requests |-> IF r \in handler[h].for THEN debits[r] + 1 ELSE debits[r]]
  /\ Move(h, "paySave") /\ UNCHANGED <<wallet, request, credits>>
PaySave(h) == Conclude(h, "paySave", "PAID")

(* A database error or a restart ends the handler where it is. *)
Break(h) == /\ ~In(h, "idle") /\ handler' = [handler EXCEPT ![h] = Resting]
            /\ disturbed' = TRUE /\ UNCHANGED <<wallet, request, credits, debits>>

-----------------------------------------------------------------------------
PayoutNext ==
  \E h \in Handlers :
    \/ CreditStart(h) \/ CreditBook(h) \/ CreditSave(h)
    \/ \E a \in Amounts, k \in Keys \cup {NoKey} : CreateStart(h, a, k)
    \/ CreateWallet(h) \/ CreateLock(h)
    \/ \E r \in Requests : InsertRequest(h, r) \/ Approve(h, r) \/ Reject(h, r) \/ MarkPaid(h, r)
    \/ ApproveSave(h)
    \/ RejectWallet(h) \/ RejectUnlock(h) \/ RejectSave(h)
    \/ PayWallet(h) \/ PayUnlock(h) \/ PayBook(h) \/ PaySave(h)
    \/ Break(h)
PayoutSpec == PayoutInit /\ [][PayoutNext]_payoutVars

-----------------------------------------------------------------------------
PayoutLabels == {"idle", "creditBook", "creditSave", "createWallet", "createInsert", "createLock",
           "approveSave", "rejectWallet", "rejectUnlock", "rejectSave",
           "payWallet", "payUnlock", "payBook", "paySave"}
PayoutTypeOK ==
  /\ wallet \in [available : Int, reserved : Int]
  /\ request \in [Requests -> [status : {"none", "PENDING", "APPROVED", "REJECTED", "PAID"},
                               amount : Nat, key : Keys \cup {NoKey}]]
  /\ credits \in Nat /\ debits \in [Requests -> Nat] /\ disturbed \in BOOLEAN
  /\ handler \in [Handlers -> [at : PayoutLabels, for : SUBSET Requests, amount : Nat,
                               key : Keys \cup {NoKey}, doc : [available : Int, reserved : Int]]]

(* However the handlers overlap or fail, neither balance of the wallet is  *)
(* ever negative: what createRequest locks was there when it looked.       *)
NeverOverdrawn == wallet.available >= 0 /\ wallet.reserved >= 0

(* A request that says PAID has its debit among the transactions, even if  *)
(* it was also rejected or paid by a second call.                          *)
PaidIsDebited == \A r \in Requests : request[r].status = "PAID" => debits[r] > 0

(* A retry with the same idempotencyKey never makes a second request.      *)
OneRequestPerKey ==
  \A r, s \in Requests : r # s /\ request[r].status # "none" /\ request[s].status # "none"
                         => request[r].key = NoKey \/ request[r].key # request[s].key
=============================================================================
