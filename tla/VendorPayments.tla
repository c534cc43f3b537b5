--------------------------- MODULE VendorPayments ---------------------------
(* The vendor payments of one hub: VendorInvoice documents, the            *)
(* VendorPayment documents that pay batches of them through a workflow,    *)
(* and the calls of finance staff that read and write both.  Two people    *)
(* may work on one payment; a call ends wherever the server or the         *)
(* database fails.  Mongoose checks and bumps a document's version when a  *)
(* save pushes into an array inside an array, here a line's history.       *)
EXTENDS Naturals, Sequences

CONSTANTS Payments, Invoices, Calls,
          Steps,     \* the length of WORKFLOW_STEPS, 4 in the code
          NoPayment, \* an invoice's paymentId when it has none
          ByHand     \* a paymentId made by markInvoicePaid, of no payment

ASSUME StepsAssumption == Steps \in Nat \ {0}
ASSUME IdsAssumption == NoPayment \notin Payments /\ ByHand \notin Payments

VARIABLES invoice, \* [status, paymentId]
          payment, \* [status, lines, version], lines over all invoices
          call,    \* where each call is and what it has read
          crowded  \* have two createPayment calls ever overlapped?

vars == <<invoice, payment, call, crowded>>

Absent == [status |-> "absent", step |-> 1, history |-> <<>>]
Fresh == [status |-> "in_progress", step |-> 1, history |-> <<>>]
NoDoc == [status |-> "none", lines |-> [i \in Invoices |-> Absent], version |-> 0]
Idle == [at |-> "idle", payment |-> NoPayment, on |-> {}, doc |-> NoDoc]

InvoiceStatuses == {"none", "pending_approval", "approved", "scheduled", "paid", "overdue", "rejected"}
Lines(p) == {i \in Invoices : payment[p].lines[i].status # "absent"}
Active(p, i) == payment[p].status = "in_progress" /\ i \in Lines(p)

Init == /\ invoice = [i \in Invoices |-> [status |-> "none", paymentId |-> NoPayment]]
        /\ payment = [p \in Payments |-> NoDoc]
        /\ call = [c \in Calls |-> Idle]
        /\ crowded = FALSE

At(c, label) == call[c].at = label
Goto(c, label) == call' = [call EXCEPT ![c].at = label]
End(c) == call' = [call EXCEPT ![c] = Idle]
SetStatus(these, s) ==
  invoice' = [i \in Invoices |-> IF i \in these THEN [invoice[i] EXCEPT !.status = s] ELSE invoice[i]]

-----------------------------------------------------------------------------
(* The calls on invoices alone.  bulkApproveInvoices filters by status,    *)
(* approveInvoice and rejectInvoice take the invoice whatever it is.       *)
UploadInvoice(i) == /\ invoice[i].status = "none"
                    /\ SetStatus({i}, "pending_approval") /\ UNCHANGED <<payment, call, crowded>>
ApproveInvoice(i) == /\ invoice[i].status # "none"
                     /\ SetStatus({i}, "approved") /\ UNCHANGED <<payment, call, crowded>>
BulkApproveInvoices(these) ==
  /\ SetStatus({i \in these : invoice[i].status = "pending_approval"}, "approved")
  /\ UNCHANGED <<payment, call, crowded>>
RejectInvoice(i) == /\ invoice[i].status # "none"
                    /\ SetStatus({i}, "rejected") /\ UNCHANGED <<payment, call, crowded>>

(* markInvoicePaid: read the invoice, look for its active payment if it is *)
(* scheduled, write.                                                       *)
MarkPaidRead(c, i) ==
  /\ At(c, "idle") /\ invoice[i].status # "none"
  /\ call' = [call EXCEPT ![c] = [Idle EXCEPT !.on = {i}, !.payment = invoice[i].paymentId,
                !.at = IF invoice[i].status = "scheduled" THEN "markCheck" ELSE "markWrite"]]
  /\ UNCHANGED <<invoice, payment, crowded>>
MarkPaidCheck(c) ==
  /\ At(c, "markCheck")
  /\ LET p == call[c].payment IN
       IF p \in Payments /\ payment[p].status = "in_progress" THEN End(c) ELSE Goto(c, "markWrite")
  /\ UNCHANGED <<invoice, payment, crowded>>
MarkPaidWrite(c) ==
  /\ At(c, "markWrite")
  /\ invoice' = [i \in Invoices |-> IF i \in call[c].on
                   THEN [status |-> "paid", paymentId |-> ByHand] ELSE invoice[i]]
  /\ End(c) /\ UNCHANGED <<payment, crowded>>

-----------------------------------------------------------------------------
(* createPayment: no invoice is in an in-progress payment, all of them are *)
(* approved or overdue, the document is inserted, the invoices scheduled.  *)
Creating(c) == call[c].at \in {"createFind", "createInsert", "createSchedule"}
NoneScheduled(these) == \A i \in these : invoice[i].status # "scheduled"
Untied(these) == \A p \in Payments, i \in these : ~Active(p, i)
CreateCheck(c, these) ==
  /\ At(c, "idle") /\ these # {} /\ Untied(these)
  /\ call' = [call EXCEPT ![c] = [Idle EXCEPT !.at = "createFind", !.on = these]]
  /\ crowded' = (crowded \/ \E b \in Calls : Creating(b))
  /\ UNCHANGED <<invoice, payment>>
Payable(i) == invoice[i].status \in {"approved", "overdue"}
CreateFind(c) ==
  /\ At(c, "createFind")
  /\ IF \A i \in call[c].on : Payable(i) THEN Goto(c, "createInsert") ELSE End(c)
  /\ UNCHANGED <<invoice, payment, crowded>>
CreateInsert(c, p) ==
  /\ At(c, "createInsert") /\ payment[p].status = "none"
  /\ payment' = [payment EXCEPT ![p] =
       [status |-> "in_progress", version |-> 0,
        lines |-> [i \in Invoices |-> IF i \in call[c].on THEN Fresh ELSE Absent]]]
  /\ call' = [call EXCEPT ![c].at = "createSchedule", ![c].payment = p]
  /\ UNCHANGED <<invoice, crowded>>
ScheduleWithoutId(c) ==
  /\ At(c, "createSchedule") /\ SetStatus(call[c].on, "scheduled")
  /\ End(c) /\ UNCHANGED <<payment, crowded>>
CreateSchedule(c) ==
  /\ At(c, "createSchedule")
  /\ invoice' = [i \in Invoices |-> IF i \in call[c].on
                   THEN [status |-> "scheduled", paymentId |-> call[c].payment] ELSE invoice[i]]
  /\ End(c) /\ UNCHANGED <<payment, crowded>>

-----------------------------------------------------------------------------
(* A call loads the payment, changes its copy, and saves the copy.         *)
Load(c, p, label, these) ==
  /\ At(c, "idle") /\ payment[p].status = "in_progress"
  /\ call' = [call EXCEPT ![c] = [at |-> label, payment |-> p, on |-> these, doc |-> payment[p]]]
  /\ UNCHANGED <<invoice, payment, crowded>>
AnyVersion(c) == payment[call[c].payment].status # "none"
Unmodified(c) == payment[call[c].payment].version = call[c].doc.version
Save(c, doc) == payment' = [payment EXCEPT ![call[c].payment] = [doc EXCEPT !.version = @ + 1]]

(* advanceInvoiceWorkflowStep; after the last step it marks the invoice    *)
(* paid before it saves.                                                   *)
AdvancedLate(line) ==
  LET next == IF line.step < Steps THEN line.step + 1 ELSE line.step
  IN [status |-> IF line.step < Steps THEN "in_progress" ELSE "completed", step |-> next,
      history |-> Append(line.history, [step |-> next, status |-> "completed"])]
AdvancedTooFar(line) ==
  [status  |-> IF line.step <= Steps THEN "in_progress" ELSE "completed",
   step    |-> line.step + 1,
   history |-> Append(line.history, [step |-> line.step, status |-> "completed"])]
Advanced(line) ==
  LET more == line.step < Steps
  IN [status  |-> IF more THEN "in_progress" ELSE "completed",
      step    |-> IF more THEN line.step + 1 ELSE line.step,
      history |-> Append(line.history, [step |-> line.step, status |-> "completed"])]
WithStep(doc, i) ==
  LET lines == [doc.lines EXCEPT ![i] = Advanced(@)]
      allDone == \A k \in Invoices : lines[k].status \in {"absent", "completed"}
  IN [doc EXCEPT !.lines = lines, !.status = IF allDone THEN "completed" ELSE @]
AdvanceLoad(c, p, i) ==
  LET line == payment[p].lines[i]
  IN /\ line.status = "in_progress"
     /\ Load(c, p, IF line.step < Steps THEN "advanceSave" ELSE "advancePay", {i})
AdvancePay(c) ==
  /\ At(c, "advancePay") /\ SetStatus(call[c].on, "paid") /\ Goto(c, "advanceSave")
  /\ UNCHANGED <<payment, crowded>>
AdvanceSave(c, i) ==
  /\ At(c, "advanceSave") /\ call[c].on = {i}
  /\ IF Unmodified(c) THEN Save(c, WithStep(call[c].doc, i)) ELSE UNCHANGED payment
  /\ End(c) /\ UNCHANGED <<invoice, crowded>>

(* cancelPayment; the invoices still tied to it can be paid again.         *)
Rejected(line) ==
  IF line.status # "in_progress" THEN line
  ELSE [line EXCEPT !.status = "rejected",
                    !.history = Append(@, [step |-> line.step, status |-> "rejected"])]
Cancelled(doc) == [doc EXCEPT !.status = "cancelled",
                              !.lines = [i \in Invoices |-> Rejected(doc.lines[i])]]
CancelLoad(c, p) == Load(c, p, "cancelSave", Lines(p))
CancelSave(c) ==
  /\ At(c, "cancelSave")
  /\ IF Unmodified(c) THEN Save(c, Cancelled(call[c].doc)) /\ Goto(c, "cancelRelease")
                      ELSE UNCHANGED payment /\ End(c)
  /\ UNCHANGED <<invoice, crowded>>
CancelRelease(c) ==
  /\ At(c, "cancelRelease")
  /\ invoice' = [i \in Invoices |-> IF i \in call[c].on /\ invoice[i].paymentId = call[c].payment
                   THEN [status |-> "approved", paymentId |-> NoPayment] ELSE invoice[i]]
  /\ End(c) /\ UNCHANGED <<payment, crowded>>

(* The server restarts or the database refuses: the call ends where it is. *)
Fail(c) == ~At(c, "idle") /\ End(c) /\ UNCHANGED <<invoice, payment, crowded>>

-----------------------------------------------------------------------------
InvoiceCall(i) == UploadInvoice(i) \/ ApproveInvoice(i) \/ RejectInvoice(i)
CallStep(c) ==
  \/ \E i \in Invoices : MarkPaidRead(c, i) \/ AdvanceSave(c, i)
  \/ MarkPaidCheck(c) \/ MarkPaidWrite(c)
  \/ \E these \in SUBSET Invoices : CreateCheck(c, these)
  \/ CreateFind(c) \/ CreateSchedule(c)
  \/ \E p \in Payments : CreateInsert(c, p) \/ CancelLoad(c, p)
  \/ \E p \in Payments, i \in Invoices : AdvanceLoad(c, p, i)
  \/ AdvancePay(c) \/ CancelSave(c) \/ CancelRelease(c) \/ Fail(c)
Next == \/ \E i \in Invoices : InvoiceCall(i)
        \/ \E these \in SUBSET Invoices : BulkApproveInvoices(these)
        \/ \E c \in Calls : CallStep(c)
Spec == Init /\ [][Next]_vars

-----------------------------------------------------------------------------
Line == [status : {"absent", "in_progress", "completed", "rejected"}, step : 1..Steps,
         history : Seq([step : 1..Steps, status : {"completed", "rejected"}])]
Document == [status : {"none", "in_progress", "completed", "cancelled"},
             lines : [Invoices -> Line], version : Nat]
Labels == {"idle", "markCheck", "markWrite", "createFind", "createInsert", "createSchedule",
           "advancePay", "advanceSave", "cancelSave", "cancelRelease"}
PaymentIds == Payments \cup {NoPayment, ByHand}
TypeOK ==
  /\ invoice \in [Invoices -> [status : InvoiceStatuses, paymentId : PaymentIds]]
  /\ payment \in [Payments -> Document]
  /\ call \in [Calls -> [at : Labels, payment : PaymentIds, on : SUBSET Invoices, doc : Document]]
  /\ crowded \in BOOLEAN

(* The history of a line is the workflow in order: each step behind it     *)
(* completed once, none skipped, and a rejected step only at its end; and  *)
(* it agrees with the line's step and status.                              *)
Behind(line) == CASE line.status \in {"in_progress", "rejected"} -> line.step - 1
                  [] line.status = "completed" -> Steps
                  [] OTHER -> 0
InOrder(line) ==
  /\ Len(line.history) = Behind(line) + (IF line.status = "rejected" THEN 1 ELSE 0)
  /\ \A n \in 1..Len(line.history) :
       line.history[n] = [step |-> n, status |-> IF n <= Behind(line) THEN "completed" ELSE "rejected"]
  /\ line.status = "completed" => line.step = Steps
LinesInOrder == \A p \in Payments, i \in Invoices : InOrder(payment[p].lines[i])

(* A scheduled invoice names a payment that has it among its lines,        *)
(* wherever the calls that wrote the two documents were cut short.         *)
ScheduledByItsPayment ==
  \A i \in Invoices : invoice[i].status = "scheduled" =>
    invoice[i].paymentId \in Payments /\ i \in Lines(invoice[i].paymentId)

(* assertInvoicesNotInActivePayment keeps an invoice out of a second       *)
(* payment in progress, if the calls that create payments do not overlap,  *)
(* and whatever is advanced, cancelled or cut short meanwhile.             *)
OnePaymentAtATime ==
  ~crowded => \A p, q \in Payments, i \in Invoices : Active(p, i) /\ Active(q, i) => p = q

(* However calls on one payment overlap, it is disbursed as promised: the  *)
(* version check lets no stale copy reopen, repeat or undo anything.       *)
StageOf(doc) == CASE doc.status = "in_progress" -> "open" [] doc.status = "completed" -> "done"
                  [] doc.status = "cancelled" -> "called off" [] OTHER -> "unopened"
D == INSTANCE Disbursement WITH
       stage <- [p \in Payments |-> StageOf(payment[p])],
       over <- [p \in Payments |-> Lines(p)],
       taken <- [p \in Payments |-> [i \in Invoices |-> Behind(payment[p].lines[i])]]
Disburses == D!Spec
=============================================================================
