# A formal model of the Selorg backend

`src/` is the backend of a grocery delivery company: a customer app with
checkout, wallet and online payment, and the back offices that pick, deliver
and account for the orders. It is one Node.js process on MongoDB. A request
handler runs alone between two `await`s; at an `await` any other handler, job
or gateway callback may run, and the process may exit. Multi-document
transactions are rare, so what keeps the data right is the order of single
document updates and the conditions ("claims") in them. That is what these
modules model: **one step per database call**.

## 1. Inventory

| Component (source) | State | Operations | What is hard | What makes it correct |
|---|---|---|---|---|
| Customer wallet (`customer-backend/services/walletService.js`, `autoRefundService.js`, models `CustomerWallet`, `WalletTransaction`) | balance, active flag, ledger rows with a partial unique index | top-up, admin credit, debit at checkout, legacy debit, refund of a void order, refund credit | conditional `$inc` debits beside credits that save a balance read earlier; retries; a row refused after the balance moved | no overdraft, money moved once per key, refunds backed by debits, orders cost no more than the money put in |
| Checkout and online payment (`worldlinePaymentsService.js`, `orderService.js`, `cartService.js`) | order (status, paymentStatus, fulfillmentReleased, walletRefundedAt), payment attempts, cart, darkstore order | createSession, completePayment and processGatewayReturn (app, return URL, webhook), abort, getStatus, lazy reconciliation on read, release, void | the same outcome is reported by several paths at once; stale `order.save()`; sessions of two platforms; crashes | paid only if the amount was captured, placed or voided but not both, the wallet part back once, every order decided |
| Reconciliation job (`jobs/worldlineReconciliationJob.js`) | nothing of its own; status and updatedAt of the attempts | runOnce every 5 minutes, at most 100 attempts | it finds, then updates; its own writes renew updatedAt | nobody starves, a verdict stands and decides its order |
| Cancellation and refunds (`cancellationService.js`, `autoRefundService.js`, `finance/services/refundsService.js`) | order, refund requests | customer cancel, refund request, approve, reject, complete, missing-items refund | read-check-write on both sides, two cancels | a refund at most once, and only of money taken |
| Order life cycle (`orderService.js`, `rider_v2_backend/.../orders/order.service.js`) | customer order (status, payment, timeline), rider's trip, rider's delivery count | updateCustomerOrderStatus from darkstore, rider and admin, customer's cancel; assign, accept, reject, pick, deliver on the trip | several back offices walk one status chain, each from the copy it loaded | no stage skipped, paid exactly on delivery, nothing shown that did not happen, a delivery reaches the customer |
| Picker wallet and withdrawals (`picker/services/wallet.service.js`, `withdrawalRequest.service.js`) | available and reserved balance, requests, transactions | order credit, request, approve, reject, mark paid | absolute saves, a status tested before several awaits, key looked up before it is inserted | no balance negative, what is PAID is debited, one request per key, the reserve covers the open requests |
| Vendor payments (`finance/services/vendorPaymentsService.js`) | invoices, payments with a workflow and history per line | upload, approve, reject, bulk approve, mark paid, create payment, advance, cancel | invoice and payment are separate documents, two people on one payment | a payment runs its workflow once and stays ended, an invoice is in one payment at a time |
| Logistics (`logistics/`) | delivery order, status history, webhook events, queue, claims in Redis | create with failover, cancel, webhook stored, published, consumed, retried, dead-lettered | claim before processing, status read before an await, at-least-once delivery, prefetch | no event lost or stuck, outcomes true |
| Rider dispatch (`rider/services/dispatchService.js`, `warehouse/services/warehouseService.js`) | load of riders, warehouse orders, clusters | manual, batch, automatic, cluster and warehouse assignment, cluster edits | two dispatchers at once, either of two saves failing | loads cover the assigned orders, a cluster assigned is assigned whole |
| Darkstore assignment (`darkstore/services/orderAssign*.js`) | active order of pickers | assign on arrival, reassign | a picker chosen as free by a read, assigned by a save | one picker per order, one order per picker |
| Rest of rider API v2 (compiled), HHD, workforce, darkstore inventory, warehouse, production, merchandising, vendor, admin, support, staff, platform | documents | forms, lists, single-document writes | little beyond lost updates | validation |
| Core and middleware (`core/`, `middleware/`) | token blocklist, login lockout, idempotency cache | add, has, recordFailure, cache a response | the idempotency cache is filled after the work is done | one run per key |
| Notifications, campaigns, coupons, catalogue, CMS, import, search | documents, queues | dispatch, activate, import | a claimed campaign lost in a crash | each sent once |

How they interact: checkout debits the wallet in its own transaction and then
opens a gateway session; gateway callbacks, the app, polls and the job settle
the attempt and then release the order (cart cleared, darkstore order created)
or void it (wallet part returned, cart restored); darkstore and rider services
push status changes back into the customer's order; dispatch decides which
rider's trip that is; finance completes refunds by crediting the wallet, pays
vendors' invoices and pickers' withdrawals; logistics providers answer with
webhooks. `PROJECT.json` lists the hazards of all of these at
their lines.

## 2. Modules

| Module | Role |
|---|---|
| `Wallet` | one wallet and the concurrent handlers on it |
| `WalletMoney` | the money: balance against ledger, and the refinement of `Account` |
| `Account` | abstract: an order is paid once, out of money that is there, in one step |
| `OrderPayment` | one online order, its attempts and all handlers that settle it |
| `OrderOutcome` | its properties, and the refinement of `Checkout` |
| `Checkout` | abstract: placed for captured money or voided, once |
| `Reconciliation` | the job against the clock, over many attempts |
| `VendorPayments` | invoices, payments and overlapping calls of finance staff |
| `Disbursement` | abstract: a payment is opened, advanced line by line, done or called off for good |
| `Withdrawals` | a picker's wallet and requests under overlapping handlers |
| `PayoutMoney` | the money of `Withdrawals`: earned, available, locked, paid |
| `Journey` | customer order, rider's trip and the propagation between them |
| `Dispatch` | orders, rider loads and a cluster under overlapping dispatchers |
| `Delivery` | one logistics order, its webhooks, queue, claims and restarts |
| `Finance` | `VendorPayments` and `PayoutMoney` side by side |
| `WalletProofs`, `OrderProofs`, `ReconciliationProofs`, `FinanceProofs`, `JourneyProofs`, `DispatchProofs`, `DeliveryProofs` | theorems about the component each is named for |
| `Sums` | lemmas about sums over finite sets, for the books of the two wallets |
| `MCWallet`, `MCOrderPayment`, `MCReconciliation`, `MCFinance`, `MCJourney`, `MCDelivery` | small instances for TLC |

### Wallet

`Wallet` is the wallet of one customer. A handler (`Requests`) serves one call
and moves through labels `pc`, one per database call. `call` is the request,
`due` the amount it moves, `doc` the balance of the document it has loaded and
`reply` its answer. `checkout` is the wallet part of `createOrder`: the balance
is read outside the transaction (`PriceCheckout`), the debit, its row and the
order commit together (`CommitCheckout`). `debit` is the legacy endpoint, which
debits, books and undoes in separate calls. `topup` and `void` are
`walletService.creditWallet`, `auto` and `goodwill` the credits of the refund
service and of the admin. Debits are conditional `$inc`s; credits load a
document and save the sum, and the model keeps that difference. Claims of the
callers (`walletCredited`, `walletRefundedAt`) are the guard `ClaimFree`. The
unique index on (source, reference) is `Insertable`. Any ledger insert may fail.
`Crash` ends every handler in flight. Amounts are whole paise.

### Order payment

`OrderPayment` is one order and its `WorldlinePayment` rows (a function from
attempt number to row). `h[s]` is the handler in slot `s`: its job, label, what
it carries, and the row and order it loaded. `emitted` is external: what the
gateway has answered for each transaction of this order, at most one final answer
each; `elsewhere` is what it has answered to other orders of the same amount. An
answer is delivered any number of times, or not at all, and unverified ones
claim anything. `Verifies` is what `verifyGatewayResponse` tests: the hash over the
answer's own fields, and the amount. Neither it nor `completePayment` compares the
transaction in the answer with the attempt's, so an answer from `elsewhere` verifies
too, and "captured" below means that the gateway took this amount, here or elsewhere.
Jobs: `callback` (`completePayment`, `processGatewayReturn`), `abort`, `poll`
(reconciliation on read), `status` (the self-heal of getStatus), `cron`, `cancel`,
`session`. `Release` and `Void` are shared tails. `order.save()` is modelled as
Mongoose does it: it writes paymentStatus only when it differs from what that handler
loaded.

Giving the wallet part back has three ways to fail: an error answer leaves nothing; an
exception may come before or after the balance was saved (`autoRefundService.creditWallet`
saves it and then inserts the row). `walletBack` keeps the keys of the rows and
`"unbooked"` for a balance without one. A void takes its claim back after each of them, a
cancel of an unreleased order only after an error answer (`AfterThrow`), and a cancel of a
released order ends at the exception before it has saved anything. As the code
behaves, the last leaves wallet money back on the balance of an order that is not
cancelled, so `WalletBackIfCancelled` speaks of booked returns (`Booked`).

Abstractions: `initiated` is never written by the code, `created` stands for
both; a row's `age` counts thirty minutes, then 24 hours, and 3 marks a row
whose session was renewed after a day had not yet passed; the age of the order
that voids it when it has no session is left open; the job's 24 hours count
from `updatedAt`, which the model lets it take or not once the row is that old (`Reconciliation` has the
exact clocks). The cancel policy is the default one (automatic refund to the
original payment), and `Deduct` says whether checkout took a part from the
wallet. Left out: notifications, coupon redemption, saved instruments, finance
rows, cash and pure wallet orders.

### Reconciliation

`Reconciliation` runs the job over many attempts with clocks: `age` since the
session was opened, `quiet` since `updatedAt`. One unit is the job's interval.
Everything is a step per database call. `Find` takes the stale attempts, least
recently updated first, at most `Batch`, and keeps what it loaded of them in `seen`;
the clocks go on meanwhile, so that `seen` ages with them. `Handle` judges the copy
(`AbandonedBeforeGateway`, `ExtremelyStale`), updates the row if its status is still the
copy's (which renews `updatedAt`) and, if it judged it timed out, goes on to
`VoidOrder`, whether or not the update matched. `CreateSession` reads and `Upsert`
writes "created" later, whatever has happened to the row. A callback (`call`)
loads the order, updates the row unless it is settled (`Settle`), reads it again
if it is (`Reread`), and then saves the order paid (`Pay`) or voids it (`Void`). Any of
these may fall between two others; any write may fail, and `broken` remembers the
attempts whose handler ended half way. An attempt has one session request and one
callback under way at a time; two at once are in `OrderPayment`. Each attempt is the
latest of its own order; the test for that is in `OrderPayment` too (`CronLatest`).

As the code behaves: a session renewed between find and update is timed out all the
same, since its status is "created" before and after; and a session upserted over a verdict makes
it "created" again. No sentence of the repository says otherwise.

### Vendor payments

`VendorPayments` has the invoices and payments of one hub and the calls in
flight (`call`: its label, its payment, the invoices it is on and the payment
document it loaded). A payment is `createPayment`'s three calls: look for active
payments of the invoices, read the invoices, insert; then the invoices are
scheduled. `AdvanceLoad`/`AdvanceSave` and `CancelLoad`/`CancelSave` work on
a loaded copy. Mongoose compares and bumps the version whenever a save pushes
into a line's history, which is an array inside an array; this is the one thing
between two people and a lost step, so the model keeps `version`. Any call may
end wherever it is (`Fail`): invoices and payment are separate documents and
nothing joins them again.

`Disbursement` is what a payment promises. The mapping reads the stage from the
payment's status and a line's progress from its history.

As the code behaves, and no property forbids: `cancelPayment` sets even an
invoice with all its steps behind it back to "approved"; `approveInvoice` takes an
invoice whatever it is, so a scheduled one can be approved and then paid by hand;
two overlapping `createPayment` calls can take one invoice (`crowded`).

### Withdrawals

`Withdrawals` is one picker's wallet. Each handler loads a wallet document and
later saves absolute balances; only fields that changed are written. `credits`
and `debits` are the transactions. `PayoutMoney` adds what the money should be.
As the code behaves: a failure in `createRequest` between its insert and its
lock leaves a PENDING request that locked nothing, and `markPaid` racing `reject` pays a
request and returns its money. Both need overlap or failure (`disturbed`), and
`BooksBalanceAtRest` is stated without it. Bank accounts and listings are left out.

### Journey

`Journey` is a cash order on its way. `order` is the customer's document, `trip`
the rider app's, `drops` the deliveries booked on riders, `missing` the riders for
whom `markOrderDelivered` found no document: it then saves the trip without booking anything
(`NoRiderFound`), and `DeliveryIsBooked` allows exactly that. `update[u]` is one run
of `updateCustomerOrderStatus`, or of the rider app's walk along the chain of
customer statuses (`path`): it loads and checks a copy, then saves over whatever
came in between. `call[c]` is a rider's request. `DarkstorePropagates`, the admin's
`UpdateStatus` (`byHand`) and the customer's cancel start updates of their own. An
assignment writes the trip and looks at the customer's order several awaits later
(`LinkOrder`). `met`
says that an update has run into another one or failed. With it, two walkers can leave
a delivered order short of `delivered` and its cash unpaid, and a stale save can
write over `cancelled`; `DeliveryReachesCustomer` is stated without it, the other properties with it.
OTP and photo are abstracted to a request that passed them; `OrderStatusHistory`, loyalty,
notifications and sockets are left out; a trip's timeline starts at the darkstore.

### Dispatch

`Dispatch` has the warehouse orders, rider loads and one cluster. `desk[d]` is a
dispatcher's call: what it loaded, which saves of its `Promise.all` are still out.
An `order.save()` is refused if another came first (`stale`), since it rewrites
the sorted timeline; a rider's load is an absolute save; the warehouse's update
goes past Mongoose. `AlertOrder` and `SaveAlert` are the warehouse's `alertOrder`;
`OthersMove` is what the darkstore's handlers write, the status alone. `Assignable` is one set for both
ways of assigning: the warehouse's list also names statuses that no schema of this
collection has. As the code behaves: nothing lowers a load on delivery, the
batch checks neither status nor capacity again after its find, either save may
fail alone, a manual order whose rider is refused keeps the rider's id. Abstractions: a
write landing after its twin failed is taken to land before; refusals for offline riders and late
orders are left open; maps, scores and zones choose any rider.

### Delivery

`Delivery` is one order of a logistics provider. `maker` and `canceller` are the
two API calls, `event` the stored webhooks, `message` where each is (unsent,
queued, held by the consumer, acknowledged, dead), `claimed` the keys in Redis and
`work[e]` what the consumer does with it. RabbitMQ, Redis and the provider
are external: the queue hands out at most `Prefetch` unacknowledged messages. The
provider's answer to a new order is taken as it comes (`Replies`), and a webhook may
lack an order id or a status (`Missing`). The history rows, provider rows and published events
are steps that may fail and nothing more.

`attached` says whether the consumer sits on an open channel. `ConnectionLost` closes it:
RabbitMQ queues again what was held, the work already begun goes on beside it, and its
`ack` throws and counts as a failed attempt. Nothing attaches a consumer again but a start
of the server (`startConsumers`), which may find RabbitMQ out of reach (`Crash(reached)`).

As the code behaves: a claim followed by a crash makes the second
delivery acknowledge an event nobody processed; a webhook that overtakes the saving of the provider's id is
"Unknown provider order id"; a retry after the save of the order finds its status
already there and skips the history. `NothingDropped` is therefore stated until the first crash.

## 3. Runs

Passing:

| Run | Question | Properties | Instance |
|---|---|---|---|
| `wallet_calls` | Is the wallet safe when every kind of call interleaves and the process dies anywhere? | `TypeOK`, `NoOverdraft`, `ExactlyOnce`, `RefundBacked`, `NoRaceForACredit` | 3 handlers, 9 calls, balance 3 |
| `wallet_debits` | Do debits and checkouts alone behave like an account? | `BooksBalance`, `PaysLikeAnAccount` | 3 handlers, 5 calls |
| `order_gateway` | Do callbacks, aborts, polls, the status self-heal and the job decide one session, once, and always in the end? | `VoidIsComplete`, `VerdictStands`, `PlacedOrVoided`, `Settles` | a slot for everything and a polling customer, answers to another order, one crash |
| `order_calls` | Is the order right when customers cancel and open sessions on two platforms against callbacks and the job? | `TypeOK`, `PaidIsCaptured`, `WalletBackIfCancelled` | 2 slots that both serve sessions, 2 sessions, answers to another order |
| `cron` | Does the job reach everybody, and do verdicts stand and decide, though job, sessions and callbacks work from old copies? | `TypeOK`, `NobodyStarves`, `VerdictDecides`, `VerdictStands` | 3 attempts, one of them renewed and answered for, a batch of 1, one restart or failed run |
| `payouts` | Do vendor payments and withdrawals survive overlapping staff, stale copies and failures half way? | `TypesOK`, `LinesInOrder`, `ScheduledByItsPayment`, `OnePaymentAtATime`, `Disburses`, `NeverOverdrawn`, `PaidIsDebited`, `OneRequestPerKey`, `BooksBalanceAtRest` | 2 payments, 2 invoices, 2 calls, 2 steps; 2 requests, 2 handlers, 1 key |
| `journey` | Is the customer told the truth, in order, and are riders' loads and clusters right, while everybody writes at once? | `TypeOK`, `DispatchTypeOK`, `NoStageSkipped`, `PaidExactlyOnDelivery`, `CustomerSeesWhatHappened`, `DeliveryIsBooked`, `DeliveryReachesCustomer`, `LoadCoversOrders`, `GroupIsAssigned` | 1 order, 1 rider, 2 requests, 2 updates; 2 orders, 2 riders, 2 dispatchers |
| `delivery` | Are webhooks neither lost nor stuck, and their outcomes true, with retries, a lost connection and a restart? | `DeliveryTypeOK`, `NothingDropped`, `OutcomeIsTrue`, `MessagesSettle` | 2 webhooks, 2 attempts, prefetch 1, one crash |

Each expected violation checks one sentence of the repository and fails:

| Run | Property | The sentence | What happens |
|---|---|---|---|
| `wallet_overspend` | `NoOverspend` | "prevents overdraft under concurrent checkouts" (`walletService.js:156`) | a credit saves a balance read before a debit: the money is there again |
| `order_stale_callback` | `PaidStaysPaid` | "Never downgrade an order that was already paid" (`worldlinePaymentsService.js:1746`) | two callbacks load the unpaid order; the one that succeeded saves first, the other overwrites it with `failed` |
| `order_abort` | `SuccessIsHeard` | a success that races the abort keeps its "ops/refund attention" (`:2076`) | the abort made the row terminal, so the success returns before that handling |
| `cron_forever` | `AbandonedIsVoided` | "so the order is voided instead of sitting in awaiting payment forever" (`worldlineReconciliationJob.js:32`) | an attempt found stale while its session lives becomes `unknown`, and each run renews it |

`PROJECT.json` "findings" has the details. `NoOverspend` and `BooksBalance` are
two sides of one thing: without credits the books balance; with them they do not.

### Bounds

- *Wallet.* Two handlers race and a third one retries or reads what they left.
  A balance of 3 lets each debit through once but not with every other one, and
  the calls meet each key under the index from two operations. Handlers are
  symmetric; `wallet_debits` has no symmetry because it checks a temporal
  formula.
- *Order.* Each known race needs two handlers. `order_gateway` has one session
  and one crash, so that there is something left to be settled after it;
  in `order_calls` both slots open sessions, so that two calls read the same latest attempt
  and reuse or number it at once, on one platform or two, where attempt numbers meet; it has only successes, because the properties are about captured money and cancels.
  `FewRuns` follows the job there beside cancels and callbacks of one session.
  `MaxAge` 2 lets the 24-hour rules apply.
- *Job.* Three attempts and batches of one make a queue in which one attempt can
  be overtaken; `Stale` 2 < `Session` 3 < `Day` 6 keep the order of the real times (3, 6, 288
  units). One attempt (`Active`) is renewed and answered for while the others are left to the
  job; attempts belong to different orders, so their callbacks do not meet.
  `cron_forever` has the real ratio of stale time to session time.
- *Payouts.* Every race of this code is between two people on one payment or
  request, so two of each. `Few` keeps three vendor documents (two payments of
  one invoice, or one payment of two, whose lines end at different times) and
  does not follow an invoice rejected under a payment's lines, a second debit
  of a request, more than 2 in the wallet, or a rejected request to another one once
  handlers have overlapped. Two of the four steps are enough for a first one,
  which leaves the payment open, and a last one, which may complete it; the theorems have any number.
- *Journey.* Two requests and updates under way make every collision of two
  writers; `FewSteps` lets a rider deliver once, gives a trip back or has it assigned again only before
  it is picked, follows what was set by hand up to a collision and past a
  collision only the way to the door. `Asked` has one status an admin may ask for.
- *Dispatch.* A load of 2 at most with 2 orders lets the capacity refuse.
  `FewOrders` follows everything while calls do not overlap; when they do, a cluster of one
  order under assignment and the assignments that compete for it; overlapping
  calls on the cluster are cut, because `GroupIsAssigned` says nothing of them. One order at a
  time is alerted, beside calls that assign it alone or in a cluster.
- *Delivery.* Two webhooks fill a prefetch window of one, so that the second waits
  for the first; after a lost connection the work of the first still goes on when the second is
  handed out. They share one status, so one can find done what the other did; the provider's answer
  may be what makes it legal, or FAILED. 2 of the 3 attempts have one that is retried and
  a last one. Consumers of a window of several messages overlap only in the proofs, which
  hold for any `Prefetch`.

`MCFinance` and `MCJourney` each hold two components that share no document; a
variable (`office`, `side`) fixed at the start says which one a behaviour runs, and one
permutation serves as symmetry of both.

Deadlock is not checked in the wallet, order and delivery runs because a finite
number of calls or webhooks ends and an order that is decided stays so; the job,
finance, the journey and dispatch never stop and are checked for deadlock.

### Fairness

`OrderPayment!LiveSpec` assumes that a handler that is running goes on (Node
runs ready callbacks), that time passes and that the customer looks at the
order again and again, each read of which reconciles it. It assumes nothing of
the gateway, the callbacks, the app's abort or the job. `Reconciliation!LiveSpec`
assumes that time passes, that the timer's run finds and handles, and that session requests and
callbacks under way go on; nothing of customers or the gateway. `Delivery!DeliverySpec` assumes weak fairness of
`Consume(e)` only: RabbitMQ hands out a queued message when a consumer is attached and there is
room in the prefetch window, and a consumer that holds one goes on; nothing of the provider,
the publisher, or a failing attempt, which is not part of `Consume`. It does not assume that
a consumer is attached: after a lost connection only a restart brings one back, and the code
does nothing to bring a restart about. `MessagesSettle` has that as its premise
(`<>[]attached`), so it says what becomes of messages once the server keeps its consumer, and nothing of
a server whose connection stays lost. The other
modules state no liveness.

## 4. Proofs

TLC checks one instance; the theorems hold for every set of requests, attempts,
amounts and times that satisfies the modules' assumptions.

- `WalletProofs`. The inductive invariant adds what the ledger and the handlers
  know of each other: a row of an indexed key belongs to a handler that answered
  `ok` (`RowsAnswered`), a handler told that its key was taken can point to the
  row (`RefusedBooked`), one unanswered handler holds each claim (`ClaimHeld`),
  a void refund past its lookup is covered by a debit (`VoidCovered`), and no loaded
  balance is negative (`NonNegative`). From it: `TypeCorrect`,
  `NeverOverdrawn`, `MovedOnce`, `RefundsBacked`, `ClaimsPreventTheRace`. The money
  has a second invariant, for wallets that only checkouts and debits touch
  (`DebitsOnly`, as in `wallet_debits`; with credits the books do not balance, as
  `wallet_overspend` shows): no handler is on the way of a credit (`NoCredits`),
  finitely many rows and debits are under way (`Countable`), and every step moves between
  the balance, the debits in transit and the ledger what it takes from one of
  them. From it: `BooksStayBalanced` and `ImplementsAccount`, where each new row is one
  payment of the account.
- `OrderProofs`. `PaidIsCaptured` is not inductive: a handler carries what it
  read past the state it read it in. `Safe` says that until the gateway captures
  this amount, for this order or another, the order is unmoved (`Unmoved`), no attempt is a verified success
  (`NoneVerified`), and no handler is at a label that pays, releases or refunds
  or holds a row, an order or an answer that would take it there (`Benign`).
  `Typed` keeps the attempts numbered without a gap (`RowsOK`), which `Latest`
  needs, and what a label expects of its handler (`Fits`). From it:
  `PaidOnlyIfCaptured`, and `LandedResultWins`, which needs that a handler about
  to expire an attempt has seen it open.
  `WalletBackCancels`: until the first crash, whoever may have booked the wallet part as given back has cancelled
  the order or is about to (`Back`). `TypeCorrect` needs that sessions are numbered without a gap, with room for
  every request under way, and that an attempt, and every request that reuses one, owns the
  session it carries (`Sessions`). `VoidsAreComplete` and `ImplementsCheckout` are about the gateway's
  own handlers (`GatewayOnly`: no slot serves a cancel or a new session, as in
  `order_gateway`), since a customer's cancel ends an order in ways neither
  property describes. There one attempt decides: a verdict is final (`Won`, `Lost`),
  whoever writes paid, releases or undoes has its reason in it (`Justified`),
  and what has been done to order, cart and wallet agrees with it (`Final`). Every step
  then maps to a step of `Checkout` or to none.
- `FinanceProofs`. *Vendor payments.* What a call knows is the invariant (`Fits`): the copy it
  is about to save is the payment as it stands or of an earlier version, so the
  version check refuses exactly the stale ones. With it every save is an
  advance or a cancel of the payment as it stands, which gives `HistoriesInOrder`,
  `ScheduledAreOnLines`, `InOnePayment` (where `OneCreates` says that without
  `crowded` one call at a time is creating) and `Implements`: the whole
  refinement of `Disbursement`, step by step, for a workflow of any length.
  *Withdrawals.* A handler about to lock an amount has seen it in its copy, and
  one about to say PAID has booked the debit. From it:
  `NeitherBalanceNegative`, `PaidAreDebited`, `KeysAreUnique`. *Their books.* At rest
  the reserved amount is the sum of the open requests, and both balances and
  the payouts add up to the earnings. In between, `Accounts` says at each label
  what the one handler has already written: its copy is the wallet (`Current`),
  how much is not locked yet (`Unlocked`) or still owed (`Owed`), and which debit has
  been booked before its request says PAID (`Debited`). `EarningsAccountedFor` is
  its value at rest. `TypesCorrect` puts both sides into one process.
- `JourneyProofs`. Each update carries two promises: what it may save follows a
  stage already shown, and all it will write has happened on the trip. They make
  stale saves harmless for `StagesInOrder`, `PaidOnDelivery`,
  `CustomerToldTheTruth` and, with what rider requests have found,
  `BookedBeforeDelivered`. `DeliveriesArrive` has a second invariant: until updates
  meet, none saves over an ended order (`SaversFresh`), and once a delivered trip is shown some
  update still carries it along exactly the rest of the chain (`Reaching`).
- `DispatchProofs`. An order is saved from a copy and could forget the rider it
  was given to. `Remembered` says which riders each copy that may still be saved must
  know of; an `order.save()` makes all others stale. `Progress` says this of the orders a
  cluster call has behind it, `Kept` of an assigned cluster, `Alone` that a call crossing
  no other sees the cluster as it is. From it: `GroupsAreAssigned`. `LoadsCover` has an
  invariant of its own (`Accounts`): without overlap one call is at work, loads and documents
  are as it read them (`Read`), and, whichever of its saves have landed, the loads
  of the rider it takes the order from and of the one it gives it to cover
  their other orders and their share of this one (`Books`).
- `DeliveryProofs`. `Placed` says who has a message that is worked on: the consumer while it
  is attached, the queue after the connection was lost. `ClaimsFresh` says that until the server restarts a
  message waiting for its claim has none, and so has a queued one while the consumer is
  attached; `AttemptsLeft` that a message under way has not used up its
  attempts, `Witnessed` that a consumer past its save has seen its status shown, `Ready` that
  only what is processed is acknowledged. From it: `NoneDropped`, `OutcomesAreTrue`.
- `ReconciliationProofs`. The invariant says that a candidate was open when it
  was found (`PassOpen`), that an order loaded as decided is decided (`Loaded`), and that
  whoever settled the attempt of an undecided order - callback or job - is still on the way to
  that order (`VerdictsUnderWay`), however the writes of job, sessions and callbacks fall
  between each other. From it: `TypeCorrect`, `VerdictsDecide`, `VerdictsStand`. `NoneStarves` counts:
  if an attempt has been passed over by `j` runs since it was stale, each of them
  filled its batch with attempts quiet for as long, whose next write made them
  quiet for 0; so beside all attempts as old as this one there is room for `j`
  batches more (`Waited`), and while a run is under way, beside those it has
  not picked, for one more again (`Passed`). A candidate that changed since it was found
  was written just now (`JustWritten`), so an update that matches nothing does not leave it old. A
  mishap costs one run. Without the job's order by `updatedAt` a
  batch need not be as old, and without the write an attempt could be picked twice.
- `Sums`. The library's induction theorems take an operator as a parameter, so
  sums are reasoned about without them: a counterexample would have a smallest
  set (`HasSmallest`), and there is none. That gives the sum's existence and its one step
  (`Unfold`), that it does not depend on which element comes first
  (`AnyFirst`), and from these adding, removing and changing one element.

The assumptions are those of the constants: calls have positive amounts, void
references are distinct from other references, the gateway's codes are the four
the code knows, the batch is positive, the attempts and the warehouse's orders are finitely many,
the job's times are natural numbers and `Stale` is not zero, there is a platform, amounts and earnings are positive, workflow, prefetch,
attempts and capacity are at least one, and absent values lie outside the sets
they stand beside.

Only model-checked: the liveness properties `Settles` and `MessagesSettle`, which are beyond
the prover. Proved under a condition on the calls that the run has too: `BooksBalance` and
`PaysLikeAnAccount` (`DebitsOnly`), `VoidIsComplete` and `PlacedOrVoided` (`GatewayOnly`).
Every other property of a passing run is a theorem of its module's specification.

## 5. Plan

Done: wallet, order payment, reconciliation, vendor payments, withdrawals,
journey, dispatch, delivery, and the proofs above. Left, in order:

1. *RefundRequests*: cancel, finance and missing-items refunds composed with
   the wallet's ledger keys.
2. *Darkstore assignment* of pickers and its mirror on handhelds.
3. *Idempotency middleware*: the cache filled after the work is done.
4. *Credits in the books*: what is left of `BooksBalance` when credits and debits
   do not overlap, in the way `Withdrawals` states it with `disturbed`.

Runs are merged where two questions share an instance.

## 6. Not modelled

Of the components named above, the parts their module's section leaves out.
Refund requests, picker assignment and the idempotency cache have hazards in
`PROJECT.json` and a place in the plan.

Everything marked `not_modelled` in `PROJECT.json`, with its reason there:
mostly single-document forms, queries and reports; thin wrappers of libraries
(cache, queues, sockets); and catalogue, import and search, which have no
protocol. Several processes of the server, and MongoDB's own replication, are
not modelled: the deployment runs one instance, and single-document updates are
taken as atomic.
