---------------------------- MODULE FinanceProofs ----------------------------
(* The safety of the two ways money leaves the company.  First the vendor  *)
(* payments, for any number of payments, invoices and overlapping calls    *)
(* and a workflow of any length, and that they disburse as Disbursement    *)
(* promises; then a picker's wallet and requests, for any number of        *)
(* handlers, requests and keys, any amounts and any earnings.              *)
EXTENDS Finance, Sums, SequenceTheorems

Entry == [step : 1..Steps, status : {"completed", "rejected"}]
Invoice == [status : InvoiceStatuses, paymentId : PaymentIds]
Call == [at : Labels, payment : PaymentIds, on : SUBSET Invoices, doc : Document]
Saving == {"advancePay", "advanceSave", "cancelSave"}

(* A call that is going to save a payment has a copy that is either the    *)
(* payment as it stands or of an earlier version; one that is going to     *)
(* schedule invoices has put them on the payment; and invoices no payment  *)
(* in progress had are still free if no two calls create payments at once. *)
Fits(y) ==
  /\ y.at \in Saving => /\ y.payment \in Payments /\ payment[y.payment].status # "none"
                        /\ y.doc.status = "in_progress"
                        /\ y.doc.version <= payment[y.payment].version
                        /\ y.doc.version = payment[y.payment].version => y.doc = payment[y.payment]
  /\ y.at \in {"advancePay", "advanceSave"} => \A i \in y.on : y.doc.lines[i].status = "in_progress"
  /\ y.at = "createSchedule" => y.payment \in Payments /\ y.on \subseteq Lines(y.payment)
  /\ y.at \in {"createFind", "createInsert"} => y.on # {} /\ (~crowded => Untied(y.on))

Typed == /\ invoice \in [Invoices -> Invoice] /\ payment \in [Payments -> Document]
         /\ call \in [Calls -> Call] /\ crowded \in BOOLEAN
AllFit == \A c \in Calls : Fits(call[c])
OneCreates == ~crowded => \A b, c \in Calls : Creating(b) /\ Creating(c) => b = c
NoneHasLines == \A p \in Payments : payment[p].status = "none" => Lines(p) = {}
IInv == /\ Typed /\ AllFit /\ OneCreates /\ NoneHasLines
        /\ LinesInOrder /\ ScheduledByItsPayment /\ OnePaymentAtATime

-----------------------------------------------------------------------------
(* How many steps a line has behind it. *)
LEMMA BehindIs ==
  ASSUME NEW line
  PROVE  /\ line.status = "in_progress" => Behind(line) = line.step - 1
         /\ line.status = "rejected" => Behind(line) = line.step - 1
         /\ line.status = "completed" => Behind(line) = Steps
         /\ line.status = "absent" => Behind(line) = 0
BY DEF Behind

(* Lines and documents before anything happened to them. *)
LEMMA Blank ==
  /\ Absent \in Line /\ Absent.status = "absent" /\ InOrder(Absent)
  /\ Fresh \in Line /\ Fresh.status = "in_progress" /\ Fresh.step = 1 /\ InOrder(Fresh)
  /\ NoDoc \in Document /\ NoDoc.status = "none" /\ NoDoc.version = 0
  /\ \A i \in Invoices : NoDoc.lines[i] = Absent
  /\ Idle \in Call /\ Idle.at = "idle"
<1>1. <<>> \in Seq(Entry) /\ Len(<<>>) = 0 /\ 1 \in 1..Steps
  BY StepsAssumption
<1>2. Absent \in Line /\ Absent.status = "absent" /\ Absent.history = <<>> /\ Absent.step = 1
  BY <1>1 DEF Absent, Line, Entry
<1>3. Fresh \in Line /\ Fresh.status = "in_progress" /\ Fresh.history = <<>> /\ Fresh.step = 1
  BY <1>1 DEF Fresh, Line, Entry
<1>4. InOrder(Absent)
  <2>1. Behind(Absent) = 0
    BY <1>2, BehindIs
  <2> QED BY <1>1, <1>2, <2>1 DEF InOrder
<1>5. InOrder(Fresh)
  <2>1. Behind(Fresh) = 0
    BY <1>3, BehindIs
  <2> QED BY <1>1, <1>3, <2>1 DEF InOrder
<1>6. /\ NoDoc \in Document /\ NoDoc.status = "none" /\ NoDoc.version = 0
      /\ \A i \in Invoices : NoDoc.lines[i] = Absent
  BY <1>2 DEF NoDoc, Document
<1>7. Idle \in Call /\ Idle.at = "idle"
  BY <1>6 DEF Idle, Call, Labels, PaymentIds
<1> QED BY <1>2, <1>3, <1>4, <1>5, <1>6, <1>7

(* A line in order that is in progress stays in order when it is advanced, *)
(* with one step more behind it, or when it is rejected, with none more.   *)
LEMMA Appended ==
  ASSUME NEW line \in Line, NEW e \in Entry
  PROVE  /\ Append(line.history, e) \in Seq(Entry)
         /\ Len(Append(line.history, e)) = Len(line.history) + 1
         /\ \A n \in 1..Len(line.history) : Append(line.history, e)[n] = line.history[n]
         /\ Append(line.history, e)[Len(line.history) + 1] = e
<1>1. line.history \in Seq(Entry)
  BY DEF Line, Entry
<1> QED BY <1>1, AppendProperties

(* An advanced line has one step more behind it, in order. *)
LEMMA AdvancedInOrder ==
  ASSUME NEW line \in Line, line.status = "in_progress", InOrder(line)
  PROVE  /\ Advanced(line) \in Line /\ InOrder(Advanced(line))
         /\ Behind(Advanced(line)) = Behind(line) + 1
         /\ Behind(line) < Steps
         /\ Advanced(line).status # "absent"
         /\ Advanced(line).status = "completed" <=> Behind(line) + 1 = Steps
<1> DEFINE e == [step |-> line.step, status |-> "completed"]
           new == Advanced(line)
<1>1. /\ line.step \in 1..Steps /\ Behind(line) = line.step - 1 /\ Len(line.history) = line.step - 1
      /\ \A n \in 1..Len(line.history) : line.history[n] = [step |-> n, status |-> "completed"]
  <2>1. line.step \in 1..Steps /\ Behind(line) = line.step - 1
    BY BehindIs DEF Line
  <2>2. Len(line.history) = line.step - 1
    BY <2>1 DEF InOrder
  <2>3. ASSUME NEW n \in 1..Len(line.history)
        PROVE  line.history[n] = [step |-> n, status |-> "completed"]
    <3>1. n <= Behind(line)
      BY <2>1, <2>2
    <3> QED BY <3>1 DEF InOrder
  <2> QED BY <2>1, <2>2, <2>3
<1>2. e \in Entry
  BY <1>1 DEF Entry
<1>3. /\ new.history = Append(line.history, e)
      /\ new.status = IF line.step < Steps THEN "in_progress" ELSE "completed"
      /\ new.step = IF line.step < Steps THEN line.step + 1 ELSE line.step
  BY DEF Advanced
<1>4. new \in Line
  <2>1. new.history \in Seq(Entry)
    BY <1>2, <1>3, Appended
  <2>2. new.step \in 1..Steps
    BY <1>1, <1>3, StepsAssumption
  <2> QED BY <1>3, <2>1, <2>2 DEF Line, Entry, Advanced
<1>5. Behind(new) = line.step
  <2>1. CASE line.step < Steps
    <3>1. Behind(new) = new.step - 1
      BY <1>3, <2>1, BehindIs
    <3> QED BY <1>1, <1>3, <2>1, <3>1
  <2>2. CASE ~(line.step < Steps)
    <3>1. Behind(new) = Steps
      BY <1>3, <2>2, BehindIs
    <3> QED BY <1>1, <2>2, <3>1, StepsAssumption
  <2> QED BY <2>1, <2>2
<1>6. Len(new.history) = line.step
  BY <1>1, <1>2, <1>3, Appended
<1>7. ASSUME NEW n \in 1..Len(new.history)
      PROVE  new.history[n] = [step |-> n, status |-> "completed"]
  <2>1. CASE n = line.step
    <3>1. new.history[n] = e
      BY <1>1, <1>2, <1>3, <2>1, Appended
    <3> QED BY <2>1, <3>1
  <2>2. CASE n # line.step
    <3>1. n \in 1..Len(line.history)
      BY <1>1, <1>6, <2>2
    <3> QED BY <1>1, <1>2, <1>3, <3>1, Appended
  <2> QED BY <2>1, <2>2
<1>8. InOrder(new)
  <2>1. new.status # "rejected" /\ (new.status = "completed" => new.step = Steps)
    BY <1>1, <1>3, StepsAssumption
  <2>2. Len(new.history) = Behind(new) + 0
    BY <1>1, <1>5, <1>6
  <2>3. ASSUME NEW n \in 1..Len(new.history) PROVE n <= Behind(new)
    BY <1>1, <1>5, <1>6
  <2> HIDE DEF new
  <2> QED BY <1>7, <2>1, <2>2, <2>3 DEF InOrder
<1>9. new.status = "completed" <=> Behind(line) + 1 = Steps
  BY <1>1, <1>3, StepsAssumption
<1>10. Behind(line) < Steps /\ Behind(new) = Behind(line) + 1
  BY <1>1, <1>5, StepsAssumption
<1> QED BY <1>3, <1>4, <1>8, <1>9, <1>10

(* A rejected line keeps its history. *)
LEMMA RejectedInOrder ==
  ASSUME NEW line \in Line, InOrder(line)
  PROVE  /\ Rejected(line) \in Line /\ InOrder(Rejected(line))
         /\ Behind(Rejected(line)) = Behind(line)
         /\ Rejected(line).status = "absent" <=> line.status = "absent"
<1> DEFINE e == [step |-> line.step, status |-> "rejected"]
           new == Rejected(line)
<1>1. CASE line.status # "in_progress"
  BY <1>1 DEF Rejected
<1>2. CASE line.status = "in_progress"
  <2>1. /\ line.step \in 1..Steps /\ Behind(line) = line.step - 1 /\ Len(line.history) = line.step - 1
    <3>1. line.step \in 1..Steps /\ Behind(line) = line.step - 1
      BY <1>2, BehindIs DEF Line
    <3> QED BY <1>2, <3>1 DEF InOrder
  <2>2. e \in Entry
    BY <2>1 DEF Entry
  <2>3. new.history = Append(line.history, e) /\ new.status = "rejected" /\ new.step = line.step
    BY <1>2 DEF Rejected, Line
  <2>4. new \in Line
    <3>1. new.history \in Seq(Entry)
      BY <2>2, <2>3, Appended
    <3> QED BY <1>2, <2>1, <2>3, <3>1 DEF Line, Entry, Rejected
  <2>5. Behind(new) = line.step - 1
    BY <2>3, BehindIs
  <2>6. Len(new.history) = line.step
    BY <2>1, <2>2, <2>3, Appended
  <2>7. ASSUME NEW n \in 1..Len(new.history)
        PROVE  new.history[n] = [step |-> n, status |-> IF n <= Behind(new) THEN "completed" ELSE "rejected"]
    <3>1. CASE n = line.step
      <4>1. new.history[n] = e
        BY <2>1, <2>2, <2>3, <3>1, Appended
      <4>2. ~(n <= Behind(new))
        BY <2>1, <2>5, <3>1
      <4> QED BY <3>1, <4>1, <4>2
    <3>2. CASE n # line.step
      <4>1. n \in 1..Len(line.history) /\ n <= Behind(line) /\ Behind(new) = Behind(line)
        BY <2>1, <2>5, <2>6, <3>2
      <4>2. new.history[n] = line.history[n]
        BY <2>2, <2>3, <4>1, Appended
      <4> QED BY <4>1, <4>2 DEF InOrder
    <3> QED BY <3>1, <3>2
  <2>8. InOrder(new)
    <3>1. Len(new.history) = Behind(new) + 1
      BY <2>1, <2>5, <2>6
    <3> HIDE DEF new
    <3> QED BY <2>3, <2>7, <3>1 DEF InOrder
  <2> QED BY <1>2, <2>1, <2>3, <2>4, <2>5, <2>8
<1> QED BY <1>1, <1>2

(* A document has the fields it is made of. *)
LEMMA DocumentMade ==
  ASSUME NEW st \in {"none", "in_progress", "completed", "cancelled"},
         NEW ls \in [Invoices -> Line], NEW v \in Nat, NEW d,
         d = [status |-> st, lines |-> ls, version |-> v]
  PROVE  d \in Document /\ d.status = st /\ d.lines = ls /\ d.version = v
<1>1. d \in Document
  BY DEF Document
<1> QED BY <1>1

(* A saved document has the next version. *)
LEMMA NextVersion ==
  ASSUME NEW w \in Document
  PROVE  /\ [w EXCEPT !.version = @ + 1] \in Document
         /\ [w EXCEPT !.version = @ + 1].version = w.version + 1
         /\ [w EXCEPT !.version = @ + 1].status = w.status
         /\ [w EXCEPT !.version = @ + 1].lines = w.lines
<1>1. w.version \in Nat
  BY DEF Document
<1>2. PICK v \in Nat : v = w.version + 1
  BY <1>1
<1>3. /\ [w EXCEPT !.version = v] \in Document /\ [w EXCEPT !.version = v].version = v
      /\ [w EXCEPT !.version = v].status = w.status /\ [w EXCEPT !.version = v].lines = w.lines
  BY DEF Document
<1> QED BY <1>2, <1>3

(* What a call that advances a line, and one that cancels, make of their   *)
(* copies.                                                                 *)
LEMMA StepSaved ==
  ASSUME NEW doc \in Document, NEW i \in Invoices, doc.status = "in_progress",
         doc.lines[i].status = "in_progress", \A k \in Invoices : InOrder(doc.lines[k]),
         NEW new, new = WithStep(doc, i)
  PROVE  /\ new \in Document /\ new.version = doc.version
         /\ new.lines[i] = Advanced(doc.lines[i])
         /\ \A k \in Invoices \ {i} : new.lines[k] = doc.lines[k]
         /\ new.status = IF \A k \in Invoices : new.lines[k].status \in {"absent", "completed"}
                         THEN "completed" ELSE "in_progress"
         /\ \A k \in Invoices : InOrder(new.lines[k])
         /\ \A k \in Invoices : new.lines[k].status = "absent" <=> doc.lines[k].status = "absent"
<1>1. PICK ls : ls = [doc.lines EXCEPT ![i] = Advanced(@)]
  OBVIOUS
<1>2. doc.lines \in [Invoices -> Line] /\ doc.version \in Nat
  BY DEF Document
<1>3. /\ Advanced(doc.lines[i]) \in Line /\ InOrder(Advanced(doc.lines[i]))
      /\ Advanced(doc.lines[i]).status # "absent"
  BY <1>2, AdvancedInOrder
<1>4. /\ ls \in [Invoices -> Line] /\ ls[i] = Advanced(doc.lines[i])
      /\ \A k \in Invoices \ {i} : ls[k] = doc.lines[k]
  BY <1>1, <1>2, <1>3
<1>5. PICK st \in {"completed", "in_progress"} :
        st = IF \A k \in Invoices : ls[k].status \in {"absent", "completed"} THEN "completed" ELSE "in_progress"
  OBVIOUS
<1>6. new = [status |-> st, lines |-> ls, version |-> doc.version]
  BY <1>1, <1>5 DEF WithStep, Document
<1>7. new \in Document /\ new.version = doc.version /\ new.lines = ls /\ new.status = st
  BY <1>2, <1>4, <1>6, DocumentMade
<1> QED BY <1>3, <1>4, <1>5, <1>7

(* A cancelled payment has all its lines rejected. *)
LEMMA CancelSaved ==
  ASSUME NEW doc \in Document, \A k \in Invoices : InOrder(doc.lines[k]),
         NEW new, new = Cancelled(doc)
  PROVE  /\ new \in Document /\ new.version = doc.version /\ new.status = "cancelled"
         /\ \A k \in Invoices : new.lines[k] = Rejected(doc.lines[k])
         /\ \A k \in Invoices : InOrder(new.lines[k])
         /\ \A k \in Invoices : new.lines[k].status = "absent" <=> doc.lines[k].status = "absent"
<1>1. doc.lines \in [Invoices -> Line] /\ doc.version \in Nat
  BY DEF Document
<1>2. \A k \in Invoices : /\ Rejected(doc.lines[k]) \in Line /\ InOrder(Rejected(doc.lines[k]))
                          /\ Rejected(doc.lines[k]).status = "absent" <=> doc.lines[k].status = "absent"
  BY <1>1, RejectedInOrder
<1>3. PICK ls : ls = [k \in Invoices |-> Rejected(doc.lines[k])]
  OBVIOUS
<1>4. new = [status |-> "cancelled", lines |-> ls, version |-> doc.version]
  BY <1>3 DEF Cancelled, Document
<1>5. ls \in [Invoices -> Line] /\ \A k \in Invoices : ls[k] = Rejected(doc.lines[k])
  BY <1>2, <1>3
<1>6. new \in Document /\ new.version = doc.version /\ new.status = "cancelled" /\ new.lines = ls
  BY <1>1, <1>4, <1>5, DocumentMade
<1> QED BY <1>2, <1>5, <1>6

-----------------------------------------------------------------------------
(* No payments. *)
LEMMA InitIInv == Init => IInv
<1> SUFFICES ASSUME Init PROVE IInv
  OBVIOUS
<1>1. Typed
  <2>1. \A i \in Invoices : invoice[i] \in Invoice
    BY DEF Init, Invoice, InvoiceStatuses, PaymentIds
  <2>2. invoice \in [Invoices -> Invoice]
    BY <2>1 DEF Init
  <2> QED BY <2>2, Blank DEF Init, Typed
<1>2. AllFit /\ OneCreates
  BY Blank DEF Init, AllFit, Fits, OneCreates, Creating, Saving
<1>3. NoneHasLines /\ LinesInOrder
  BY Blank DEF Init, NoneHasLines, LinesInOrder, Lines
<1>4. ScheduledByItsPayment /\ OnePaymentAtATime
  BY Blank DEF Init, ScheduledByItsPayment, OnePaymentAtATime, Active
<1> QED BY <1>1, <1>2, <1>3, <1>4 DEF IInv

(* Payments keep their lines, and change with their version only: then a   *)
(* call that does not move still fits, if what it may create is still free.*)
Onwards ==
  /\ \A p \in Payments : /\ payment[p].status # "none" => /\ payment'[p].status # "none"
                                                         /\ payment[p].version <= payment'[p].version
                         /\ payment[p].status # "none" /\ payment'[p].version = payment[p].version
                              => payment'[p] = payment[p]
                         /\ Lines(p) \subseteq Lines(p)'
  /\ payment' \in [Payments -> Document]
  /\ crowded => crowded'

(* What a call knows survives the steps of others. *)
LEMMA StillFits ==
  ASSUME IInv, Onwards, NEW y \in Call, Fits(y),
         y.at \in {"createFind", "createInsert"} /\ ~crowded' => Untied(y.on)'
  PROVE  Fits(y)'
<1>1. CASE y.at \in Saving
  <2>1. /\ y.payment \in Payments /\ payment[y.payment].status # "none"
        /\ y.doc.status = "in_progress" /\ y.doc.version <= payment[y.payment].version
        /\ y.doc.version = payment[y.payment].version => y.doc = payment[y.payment]
    BY <1>1 DEF Fits
  <2>2. y.doc.version \in Nat /\ payment[y.payment].version \in Nat /\ payment'[y.payment].version \in Nat
    BY <2>1 DEF Call, Document, IInv, Typed, Onwards
  <2>3. /\ payment'[y.payment].status # "none"
        /\ payment[y.payment].version <= payment'[y.payment].version
        /\ payment'[y.payment].version = payment[y.payment].version => payment'[y.payment] = payment[y.payment]
    BY <2>1 DEF Onwards
  <2>4. y.doc.version <= payment'[y.payment].version
    BY <2>1, <2>2, <2>3
  <2>5. y.doc.version = payment'[y.payment].version => y.doc = payment'[y.payment]
    BY <2>1, <2>2, <2>3
  <2> QED BY <1>1, <2>1, <2>3, <2>4, <2>5 DEF Fits, Saving
<1>2. CASE y.at \notin Saving
  <2>1. y.at = "createSchedule" => y.payment \in Payments /\ y.on \subseteq Lines(y.payment)'
    BY DEF Fits, Onwards
  <2> QED BY <1>2, <2>1 DEF Fits, Onwards, Saving
<1> QED BY <1>1, <1>2

(* One call moves. *)
LEMMA OneMoves ==
  ASSUME IInv, Onwards, NEW c \in Calls, NEW y \in Call, Fits(y)', call' = [call EXCEPT ![c] = y],
         \A d \in Calls \ {c} :
           call[d].at \in {"createFind", "createInsert"} /\ ~crowded' => Untied(call[d].on)'
  PROVE  AllFit' /\ call' \in [Calls -> Call]
<1>1. call' \in [Calls -> Call]
  BY DEF IInv, Typed
<1>2. ASSUME NEW d \in Calls PROVE Fits(call[d])'
  <2>1. CASE d = c
    BY <2>1 DEF IInv, Typed
  <2>2. CASE d # c
    <3>1. PICK z \in Call : z = call[d]
      BY DEF IInv, Typed
    <3>2. Fits(z)
      BY <3>1 DEF IInv, AllFit
    <3>3. z.at \in {"createFind", "createInsert"} /\ ~crowded' => Untied(z.on)'
      <4>1. z.at \in {"createFind", "createInsert"} /\ ~crowded' => Untied(call[d].on)'
        BY <2>2, <3>1
      <4>2. call'[d].on = z.on
        BY <2>2, <3>1 DEF IInv, Typed
      <4> QED BY <3>1, <4>1, <4>2 DEF Untied
    <3>4. Fits(z)'
      BY <3>2, <3>3, StillFits
    <3>5. call'[d] = z
      BY <2>2, <3>1 DEF IInv, Typed
    <3> QED BY <3>4, <3>5
  <2> QED BY <2>1, <2>2
<1> QED BY <1>1, <1>2 DEF AllFit

(* What a call holds, and a call at another label. *)
LEMMA CallFields ==
  ASSUME IInv, NEW c \in Calls
  PROVE  /\ call[c] \in Call /\ Fits(call[c]) /\ call[c].on \subseteq Invoices
         /\ call[c].payment \in PaymentIds /\ call[c].doc \in Document
BY DEF IInv, Typed, AllFit, Call

(* Going to a label changes nothing else. *)
LEMMA AtLabel ==
  ASSUME NEW x \in Call, NEW label \in Labels
  PROVE  /\ [x EXCEPT !.at = label] \in Call /\ [x EXCEPT !.at = label].at = label
         /\ [x EXCEPT !.at = label].on = x.on /\ [x EXCEPT !.at = label].payment = x.payment
         /\ [x EXCEPT !.at = label].doc = x.doc
BY DEF Call
LEMMA IdleFits == Fits(Idle) /\ Fits(Idle)'
BY Blank DEF Fits, Saving

(* Invoices that are not newly scheduled, or on a line of the payment they *)
(* name.                                                                   *)
LEMMA StillScheduled ==
  ASSUME IInv, \A p \in Payments : Lines(p) \subseteq Lines(p)',
         \A i \in Invoices : \/ invoice'[i] = invoice[i] \/ invoice'[i].status # "scheduled"
                             \/ invoice'[i].paymentId \in Payments /\ i \in Lines(invoice[i].paymentId)'
  PROVE  ScheduledByItsPayment'
<1> SUFFICES ASSUME NEW i \in Invoices, invoice'[i].status = "scheduled"
             PROVE  invoice'[i].paymentId \in Payments /\ i \in Lines(invoice[i].paymentId)'
  BY DEF ScheduledByItsPayment
<1>1. CASE invoice'[i] = invoice[i]
  <2>1. invoice[i].paymentId \in Payments /\ i \in Lines(invoice[i].paymentId)
    BY <1>1 DEF IInv, ScheduledByItsPayment
  <2>2. PICK p \in Payments : p = invoice[i].paymentId
    BY <2>1
  <2>3. i \in Lines(p)'
    BY <2>1, <2>2
  <2>4. p = invoice'[i].paymentId
    BY <1>1, <2>2
  <2> QED BY <2>2, <2>3, <2>4 DEF Lines
<1> QED BY <1>1

(* Steps of one call that leave the payments alone. *)
LEMMA PlainStep ==
  ASSUME IInv, NEW c \in Calls, NEW y \in Call, Fits(y), call' = [call EXCEPT ![c] = y],
         y.at \in {"createFind", "createInsert", "createSchedule"} => Creating(c),
         UNCHANGED <<payment, crowded>>, invoice' \in [Invoices -> Invoice], ScheduledByItsPayment'
  PROVE  IInv'
<1>1. Onwards
  BY DEF Onwards, Lines, IInv, Typed, Document
<1>2. Fits(y)'
  BY DEF Fits, Untied, Active, Lines
<1>3. ASSUME NEW d \in Calls \ {c}, call[d].at \in {"createFind", "createInsert"}, ~crowded'
      PROVE  Untied(call[d].on)'
  <2>1. Untied(call[d].on)
    BY <1>3 DEF IInv, AllFit, Fits
  <2>2. call'[d] = call[d]
    BY <1>3 DEF IInv, Typed
  <2> QED BY <2>1, <2>2 DEF Untied, Active, Lines
<1>4. AllFit' /\ call' \in [Calls -> Call]
  BY <1>1, <1>2, <1>3, OneMoves
<1>5. OneCreates'
  BY DEF IInv, Typed, OneCreates, Creating
<1>6. Typed'
  BY <1>4 DEF IInv, Typed
<1>7. NoneHasLines' /\ LinesInOrder' /\ OnePaymentAtATime'
  BY DEF IInv, NoneHasLines, LinesInOrder, OnePaymentAtATime, Active, Lines
<1> QED BY <1>4, <1>5, <1>6, <1>7 DEF IInv

(* A step of a call that writes no document. *)
LEMMA QuietStep ==
  ASSUME IInv, NEW c \in Calls, NEW y \in Call, Fits(y), call' = [call EXCEPT ![c] = y],
         y.at \in {"createFind", "createInsert", "createSchedule"} => Creating(c),
         UNCHANGED <<invoice, payment, crowded>>
  PROVE  IInv'
<1>1. invoice' \in [Invoices -> Invoice] /\ ScheduledByItsPayment'
  BY DEF IInv, Typed, ScheduledByItsPayment, Lines
<1> QED BY <1>1, PlainStep

(* A call answers. *)
LEMMA EndStep ==
  ASSUME IInv, NEW c \in Calls, End(c), UNCHANGED <<invoice, payment, crowded>> PROVE IInv'
BY Blank, IdleFits, QuietStep DEF End

(* Steps on invoices alone. *)
LEMMA NewStatus ==
  ASSUME IInv, NEW these, NEW st \in InvoiceStatuses \ {"scheduled"}, SetStatus(these, st), UNCHANGED payment
  PROVE  invoice' \in [Invoices -> Invoice] /\ ScheduledByItsPayment'
<1>1. \A i \in Invoices : [invoice[i] EXCEPT !.status = st] \in Invoice
                          /\ [invoice[i] EXCEPT !.status = st].status = st
  BY DEF IInv, Typed, Invoice
<1>2. /\ invoice' \in [Invoices -> Invoice]
      /\ \A i \in Invoices : invoice'[i] = invoice[i] \/ invoice'[i].status = st
  BY <1>1 DEF SetStatus, IInv, Typed
<1>3. \A p \in Payments : Lines(p) \subseteq Lines(p)'
  BY DEF Lines
<1> QED BY <1>2, <1>3, StillScheduled

(* A step that sets invoices, but schedules none. *)
LEMMA InvoicesStep ==
  ASSUME IInv, UNCHANGED <<payment, call, crowded>>,
         NEW these, NEW st \in InvoiceStatuses \ {"scheduled"}, SetStatus(these, st)
  PROVE  IInv'
<1>1. invoice' \in [Invoices -> Invoice] /\ ScheduledByItsPayment'
  BY NewStatus
<1>2. Typed' /\ OneCreates'
  BY <1>1 DEF IInv, Typed, OneCreates, Creating
<1>3. AllFit'
  BY DEF IInv, AllFit, Fits, Untied, Active, Lines
<1>4. NoneHasLines' /\ LinesInOrder' /\ OnePaymentAtATime'
  BY DEF IInv, NoneHasLines, LinesInOrder, OnePaymentAtATime, Active, Lines
<1> QED BY <1>1, <1>2, <1>3, <1>4 DEF IInv

-----------------------------------------------------------------------------
(* markInvoicePaid. *)
LEMMA MarkPaidReadStep == ASSUME IInv, NEW c \in Calls, NEW i \in Invoices, MarkPaidRead(c, i) PROVE IInv'
<1>1. PICK label \in {"markCheck", "markWrite"} :
        label = IF invoice[i].status = "scheduled" THEN "markCheck" ELSE "markWrite"
  OBVIOUS
<1>2. PICK y \in Call : y = [Idle EXCEPT !.on = {i}, !.payment = invoice[i].paymentId, !.at = label]
  BY Blank DEF Call, Labels, IInv, Typed, Invoice
<1>3. y.at = label
  BY <1>2, Blank DEF Call
<1>4. Fits(y)
  BY <1>3 DEF Fits, Saving
<1> QED BY <1>1, <1>2, <1>3, <1>4, QuietStep DEF MarkPaidRead

(* A call goes on. *)
LEMMA GotoStep ==
  ASSUME IInv, NEW c \in Calls, NEW label \in {"markWrite", "createInsert"}, Goto(c, label),
         label = "createInsert" => At(c, "createFind"), UNCHANGED <<invoice, payment, crowded>>
  PROVE  IInv'
<1>1. PICK y \in Call : y = [call[c] EXCEPT !.at = label]
  BY CallFields, AtLabel DEF Labels
<1>2. y.at = label /\ y.on = call[c].on /\ call' = [call EXCEPT ![c] = y]
  BY <1>1, CallFields, AtLabel DEF Goto, Labels, IInv, Typed
<1>3. Fits(y)
  BY <1>2, CallFields DEF Fits, Saving, At
<1> QED BY <1>2, <1>3, QuietStep DEF Creating, At
LEMMA MarkPaidWriteStep == ASSUME IInv, NEW c \in Calls, MarkPaidWrite(c) PROVE IInv'
<1>1. \A i \in Invoices : invoice'[i] = invoice[i] \/ invoice'[i] = [status |-> "paid", paymentId |-> ByHand]
  BY DEF MarkPaidWrite
<1>2. [status |-> "paid", paymentId |-> ByHand] \in Invoice
  BY DEF Invoice, InvoiceStatuses, PaymentIds
<1>3. invoice' \in [Invoices -> Invoice]
  BY <1>2 DEF MarkPaidWrite, IInv, Typed
<1>4. \A p \in Payments : Lines(p) \subseteq Lines(p)'
  BY DEF MarkPaidWrite, Lines
<1>5. ScheduledByItsPayment'
  BY <1>1, <1>4, StillScheduled
<1> QED BY <1>3, <1>5, Blank, IdleFits, PlainStep DEF MarkPaidWrite, End

(* createPayment. *)
LEMMA CreateCheckStep ==
  ASSUME IInv, NEW c \in Calls, NEW these \in SUBSET Invoices, CreateCheck(c, these) PROVE IInv'
<1>1. PICK y \in Call : y = [Idle EXCEPT !.at = "createFind", !.on = these]
  BY Blank DEF Call, Labels
<1>2. y.at = "createFind" /\ y.on = these
  BY <1>1, Blank DEF Call
<1>3. /\ UNCHANGED <<invoice, payment>> /\ call' = [call EXCEPT ![c] = y] /\ crowded' \in BOOLEAN
      /\ crowded => crowded'
      /\ \A b \in Calls : Creating(b) => crowded'
  BY <1>1 DEF CreateCheck, IInv, Typed
<1>4. Onwards
  BY <1>3 DEF Onwards, Lines, IInv, Typed, Document
<1>5. Fits(y)'
  BY <1>2, <1>3 DEF CreateCheck, Fits, Saving, Untied, Active, Lines
<1>6. ASSUME NEW d \in Calls \ {c}, call[d].at \in {"createFind", "createInsert"}, ~crowded'
      PROVE  Untied(call[d].on)'
  BY <1>3, <1>6 DEF Creating
<1>7. AllFit' /\ call' \in [Calls -> Call]
  BY <1>3, <1>4, <1>5, <1>6, OneMoves
<1>8. OneCreates'
  BY <1>3 DEF IInv, Typed, OneCreates, Creating
<1>9. Typed'
  BY <1>3, <1>7 DEF IInv, Typed
<1>10. NoneHasLines' /\ LinesInOrder' /\ OnePaymentAtATime' /\ ScheduledByItsPayment'
  BY <1>3 DEF IInv, NoneHasLines, LinesInOrder, OnePaymentAtATime, Active, Lines, ScheduledByItsPayment
<1> QED BY <1>7, <1>8, <1>9, <1>10 DEF IInv
LEMMA CreateFindStep == ASSUME IInv, NEW c \in Calls, CreateFind(c) PROVE IInv'
BY EndStep, GotoStep DEF CreateFind
LEMMA CreateScheduleStep == ASSUME IInv, NEW c \in Calls, CreateSchedule(c) PROVE IInv'
<1>1. call[c].payment \in Payments /\ call[c].on \subseteq Lines(call[c].payment)
  BY CallFields DEF CreateSchedule, At, Fits
<1>2. PICK p \in Payments : p = call[c].payment
  BY <1>1
<1>3. [status |-> "scheduled", paymentId |-> p] \in Invoice
  BY DEF Invoice, InvoiceStatuses, PaymentIds
<1>4. invoice' \in [Invoices -> Invoice]
  BY <1>2, <1>3 DEF CreateSchedule, IInv, Typed
<1>5. \A q \in Payments : Lines(q) = Lines(q)'
  BY DEF CreateSchedule, Lines
<1>6. ASSUME NEW i \in Invoices, invoice'[i] # invoice[i]
      PROVE  invoice'[i].paymentId \in Payments /\ i \in Lines(invoice[i].paymentId)'
  <2>1. i \in call[c].on /\ invoice'[i].paymentId = p
    BY <1>2, <1>6 DEF CreateSchedule
  <2>2. i \in Lines(p)
    BY <1>1, <1>2, <2>1
  <2> QED BY <2>1, <2>2 DEF Lines, CreateSchedule
<1>7. ScheduledByItsPayment'
  BY <1>5, <1>6, StillScheduled
<1> QED BY <1>4, <1>7, Blank, IdleFits, PlainStep DEF CreateSchedule, End

LEMMA CreateInsertStep ==
  ASSUME IInv, NEW c \in Calls, NEW p \in Payments, CreateInsert(c, p) PROVE IInv'
<1>1. /\ call[c].at = "createInsert" /\ payment[p].status = "none" /\ call[c].on \subseteq Invoices
      /\ ~crowded => Untied(call[c].on)
      /\ UNCHANGED <<invoice, crowded>>
  BY CallFields DEF CreateInsert, At, Fits
<1>2. PICK ls \in [Invoices -> Line] : ls = [i \in Invoices |-> IF i \in call[c].on THEN Fresh ELSE Absent]
  BY Blank
<1>3. PICK d : d = [status |-> "in_progress", lines |-> ls, version |-> 0]
  OBVIOUS
<1>4. d \in Document /\ d.status = "in_progress" /\ d.lines = ls /\ d.version = 0
  BY <1>3, DocumentMade
<1>5. payment' = [payment EXCEPT ![p] = [status |-> "in_progress", version |-> 0, lines |-> ls]]
  BY <1>2 DEF CreateInsert
<1>6. payment' = [payment EXCEPT ![p] = d]
  BY <1>3, <1>5
<1>7. payment'[p] = d /\ \A q \in Payments : q # p => payment'[q] = payment[q]
  BY <1>6 DEF IInv, Typed
<1>8. Lines(p) = {} /\ Lines(p)' = call[c].on /\ \A q \in Payments \ {p} : Lines(q)' = Lines(q)
  <2>1. Lines(p)' = call[c].on
    BY <1>1, <1>2, <1>4, <1>7, Blank DEF Lines
  <2>2. Lines(p) = {}
    BY <1>1 DEF IInv, NoneHasLines
  <2>3. \A q \in Payments \ {p} : Lines(q)' = Lines(q)
    BY <1>7 DEF Lines
  <2> QED BY <2>1, <2>2, <2>3
<1>9. payment' \in [Payments -> Document]
  BY <1>4, <1>6 DEF IInv, Typed
<1>10. Onwards
  <2> SUFFICES ASSUME NEW q \in Payments
               PROVE  /\ payment[q].status # "none" => /\ payment'[q].status # "none"
                                                       /\ payment[q].version <= payment'[q].version
                      /\ payment[q].status # "none" /\ payment'[q].version = payment[q].version
                           => payment'[q] = payment[q]
                      /\ Lines(q) \subseteq Lines(q)'
    BY <1>1, <1>9 DEF Onwards
  <2>1. CASE q = p
    BY <1>1, <1>8, <2>1
  <2>2. CASE q # p
    <3>1. payment'[q] = payment[q] /\ payment[q].version \in Nat /\ Lines(q)' = Lines(q)
      BY <1>7, <1>8, <2>2 DEF IInv, Typed, Document
    <3> QED BY <3>1
  <2> QED BY <2>1, <2>2
<1>11. PICK y \in Call : y = [[call[c] EXCEPT !.at = "createSchedule"] EXCEPT !.payment = p]
  <2>1. PICK z \in Call : z = [call[c] EXCEPT !.at = "createSchedule"]
    BY CallFields, AtLabel DEF Labels
  <2>2. [z EXCEPT !.payment = p] \in Call
    BY DEF Call, PaymentIds
  <2> QED BY <2>1, <2>2
<1>12. y.at = "createSchedule" /\ y.on = call[c].on /\ y.payment = p
  BY <1>11, CallFields DEF Call
<1>13. call' = [call EXCEPT ![c] = y]
  BY <1>11 DEF CreateInsert, IInv, Typed
<1>14. Fits(y)'
  <2>1. y.on \subseteq Lines(p)'
    BY <1>8, <1>12
  <2>2. y.on \subseteq Lines(y.payment)'
    BY <1>12, <2>1
  <2> QED BY <1>12, <2>2 DEF Fits, Saving
<1>15. ASSUME NEW e \in Calls \ {c}, call[e].at \in {"createFind", "createInsert"}, ~crowded'
       PROVE  Untied(call[e].on)'
  BY <1>1, <1>15 DEF IInv, OneCreates, Creating
<1>16. AllFit' /\ call' \in [Calls -> Call]
  BY <1>10, <1>13, <1>14, <1>15, OneMoves
<1>17. OneCreates'
  BY <1>1, <1>12, <1>13 DEF IInv, Typed, OneCreates, Creating
<1>18. ScheduledByItsPayment'
  BY <1>1, <1>10, StillScheduled DEF Onwards
<1>19. NoneHasLines'
  BY <1>4, <1>7, <1>8 DEF IInv, NoneHasLines
<1>20. LinesInOrder'
  <2> SUFFICES ASSUME NEW q \in Payments, NEW i \in Invoices PROVE InOrder(payment'[q].lines[i])
    BY DEF LinesInOrder, InOrder, Behind
  <2>1. CASE q = p
    BY <1>2, <1>4, <1>7, <2>1, Blank
  <2>2. CASE q # p
    BY <1>7, <2>2 DEF IInv, LinesInOrder
  <2> QED BY <2>1, <2>2
<1>21. OnePaymentAtATime'
  <2> SUFFICES ASSUME ~crowded, NEW q \in Payments, NEW r \in Payments, NEW i \in Invoices,
                      Active(q, i)', Active(r, i)'
               PROVE  q = r
    BY <1>1 DEF OnePaymentAtATime
  <2>1. \A t \in Payments \ {p} : Active(t, i)' => Active(t, i)
    BY <1>7, <1>8 DEF Active
  <2>2. Active(p, i)' => i \in call[c].on
    BY <1>8 DEF Active
  <2>3. \A t \in Payments : i \in call[c].on => ~Active(t, i)
    BY <1>1 DEF Untied
  <2> QED BY <2>1, <2>2, <2>3 DEF IInv, OnePaymentAtATime
<1>22. Typed'
  BY <1>1, <1>9, <1>16 DEF IInv, Typed
<1> QED BY <1>16, <1>17, <1>18, <1>19, <1>20, <1>21, <1>22 DEF IInv

-----------------------------------------------------------------------------
(* A call has loaded a payment in progress. *)
LEMMA LoadStep ==
  ASSUME IInv, NEW c \in Calls, NEW p \in Payments, NEW label \in Saving, NEW these \in SUBSET Invoices,
         Load(c, p, label, these),
         label # "cancelSave" => \A i \in these : payment[p].lines[i].status = "in_progress"
  PROVE  IInv'
<1>1. PICK d \in Document : d = payment[p]
  BY DEF IInv, Typed
<1>2. PICK y \in Call : y = [at |-> label, payment |-> p, on |-> these, doc |-> d]
  BY DEF Call, Labels, Saving, PaymentIds
<1>3. y.at = label /\ y.payment = p /\ y.on = these /\ y.doc = payment[p]
  BY <1>1, <1>2
<1>4. payment[p].version \in Nat /\ payment[p].status = "in_progress"
  BY <1>1 DEF Load, Document
<1>5. Fits(y)
  <2>1. payment[p].version <= payment[p].version
    BY <1>4
  <2> QED BY <1>3, <1>4, <2>1 DEF Fits, Saving
<1>6. call' = [call EXCEPT ![c] = y] /\ UNCHANGED <<invoice, payment, crowded>>
  BY <1>1, <1>2 DEF Load
<1> QED BY <1>3, <1>5, <1>6, QuietStep DEF Saving
LEMMA AdvanceLoadStep ==
  ASSUME IInv, NEW c \in Calls, NEW p \in Payments, NEW i \in Invoices, AdvanceLoad(c, p, i) PROVE IInv'
<1>1. PICK label \in {"advanceSave", "advancePay"} :
        label = IF payment[p].lines[i].step < Steps THEN "advanceSave" ELSE "advancePay"
  OBVIOUS
<1>2. payment[p].lines[i].status = "in_progress" /\ Load(c, p, label, {i})
  BY <1>1 DEF AdvanceLoad
<1> QED BY <1>2, LoadStep DEF Saving
LEMMA CancelLoadStep == ASSUME IInv, NEW c \in Calls, NEW p \in Payments, CancelLoad(c, p) PROVE IInv'
BY LoadStep DEF CancelLoad, Saving, Lines
LEMMA AdvancePayStep == ASSUME IInv, NEW c \in Calls, AdvancePay(c) PROVE IInv'
<1>1. invoice' \in [Invoices -> Invoice] /\ ScheduledByItsPayment'
  BY NewStatus DEF AdvancePay, InvoiceStatuses
<1>2. PICK y \in Call : y = [call[c] EXCEPT !.at = "advanceSave"]
  BY CallFields, AtLabel DEF Labels
<1>3. /\ y.at = "advanceSave" /\ y.on = call[c].on /\ y.payment = call[c].payment /\ y.doc = call[c].doc
      /\ call' = [call EXCEPT ![c] = y]
  BY <1>2, CallFields, AtLabel DEF Goto, AdvancePay, Labels, IInv, Typed
<1>4. Fits(y)
  BY <1>3, CallFields DEF AdvancePay, At, Fits, Saving
<1> QED BY <1>1, <1>3, <1>4, PlainStep DEF AdvancePay

(* A call saves the payment it has loaded, if nobody has since. *)
LEMMA SaveStep ==
  ASSUME IInv, NEW c \in Calls, call[c].at \in Saving, Unmodified(c),
         NEW p \in Payments, p = call[c].payment, NEW d \in Document,
         payment' = [payment EXCEPT ![p] = d], d.version = call[c].doc.version + 1, d.status # "none",
         \A i \in Invoices : InOrder(d.lines[i]),
         \A i \in Invoices : d.lines[i].status = "absent" <=> call[c].doc.lines[i].status = "absent",
         NEW y \in Call, y.at \in {"idle", "cancelRelease"}, call' = [call EXCEPT ![c] = y],
         UNCHANGED <<invoice, crowded>>
  PROVE  IInv'
<1>1. /\ call[c].doc = payment[p] /\ payment[p].status = "in_progress"
      /\ payment[p].version \in Nat /\ d.version = payment[p].version + 1
  <2>1. call[c].doc = payment[p] /\ call[c].doc.status = "in_progress" /\ payment[p] \in Document
    BY CallFields DEF Unmodified, Fits, IInv, Typed
  <2> QED BY <2>1 DEF Document
<1>2. payment'[p] = d /\ \A q \in Payments : q # p => payment'[q] = payment[q]
  BY DEF IInv, Typed
<1>3. \A q \in Payments : Lines(q)' = Lines(q)
  <2>1. Lines(p)' = Lines(p)
    BY <1>1, <1>2 DEF Lines
  <2>2. \A q \in Payments \ {p} : Lines(q)' = Lines(q)
    BY <1>2 DEF Lines
  <2> QED BY <2>1, <2>2
<1>4. payment' \in [Payments -> Document]
  BY DEF IInv, Typed
<1>5. Onwards
  <2> SUFFICES ASSUME NEW q \in Payments
               PROVE  /\ payment[q].status # "none" => /\ payment'[q].status # "none"
                                                       /\ payment[q].version <= payment'[q].version
                      /\ payment[q].status # "none" /\ payment'[q].version = payment[q].version
                           => payment'[q] = payment[q]
                      /\ Lines(q) \subseteq Lines(q)'
    BY <1>4 DEF Onwards
  <2>1. CASE q = p
    BY <1>1, <1>2, <1>3, <2>1
  <2>2. CASE q # p
    <3>1. payment'[q] = payment[q] /\ payment[q].version \in Nat /\ Lines(q)' = Lines(q)
      BY <1>2, <1>3, <2>2 DEF IInv, Typed, Document
    <3> QED BY <3>1
  <2> QED BY <2>1, <2>2
<1>6. \A q \in Payments, i \in Invoices : Active(q, i)' => Active(q, i)
  BY <1>1, <1>2, <1>3 DEF Active
<1>7. Fits(y)'
  BY DEF Fits, Saving
<1>8. ASSUME NEW e \in Calls \ {c}, call[e].at \in {"createFind", "createInsert"}, ~crowded'
      PROVE  Untied(call[e].on)'
  <2>1. Untied(call[e].on) /\ call[e].on \subseteq Invoices
    BY <1>8, CallFields DEF Fits
  <2>2. call'[e] = call[e]
    BY <1>8 DEF IInv, Typed
  <2>3. ASSUME NEW q \in Payments, NEW i \in call[e].on PROVE ~Active(q, i)'
    <3>1. i \in Invoices /\ ~Active(q, i)
      BY <2>1, <2>3 DEF Untied
    <3> QED BY <1>6, <3>1
  <2> QED BY <2>2, <2>3 DEF Untied
<1>9. AllFit' /\ call' \in [Calls -> Call]
  BY <1>5, <1>7, <1>8, OneMoves
<1>10. OneCreates'
  BY DEF IInv, Typed, OneCreates, Creating
<1>11. ScheduledByItsPayment'
  BY <1>3, StillScheduled
<1>12. NoneHasLines'
  BY <1>2, <1>3 DEF IInv, NoneHasLines
<1>13. LinesInOrder'
  <2> SUFFICES ASSUME NEW q \in Payments, NEW i \in Invoices PROVE InOrder(payment'[q].lines[i])
    BY DEF LinesInOrder, InOrder, Behind
  <2> QED BY <1>2 DEF IInv, LinesInOrder
<1>14. OnePaymentAtATime'
  BY <1>6 DEF IInv, OnePaymentAtATime
<1>15. Typed'
  BY <1>4, <1>9 DEF IInv, Typed
<1> QED BY <1>9, <1>10, <1>11, <1>12, <1>13, <1>14, <1>15 DEF IInv

(* What a save by a call finds. *)
LEMMA Loaded ==
  ASSUME IInv, NEW c \in Calls, call[c].at \in Saving, Unmodified(c)
  PROVE  /\ call[c].payment \in Payments /\ call[c].doc = payment[call[c].payment]
         /\ call[c].doc \in Document /\ call[c].doc.status = "in_progress"
         /\ \A i \in Invoices : InOrder(call[c].doc.lines[i])
<1>1. /\ call[c].payment \in Payments /\ call[c].doc = payment[call[c].payment]
      /\ call[c].doc \in Document /\ call[c].doc.status = "in_progress"
  BY CallFields DEF Unmodified, Fits
<1>2. PICK p \in Payments : p = call[c].payment
  BY <1>1
<1>3. \A i \in Invoices : InOrder(payment[p].lines[i])
  BY DEF IInv, LinesInOrder
<1> QED BY <1>1, <1>2, <1>3

(* The saves, with what they change for the refinement. *)
Advances(c, i, p, d) ==
  /\ p = call[c].payment /\ d \in Document /\ payment' = [payment EXCEPT ![p] = d]
  /\ d.version = call[c].doc.version + 1
  /\ payment[p] = call[c].doc /\ payment[p].status = "in_progress"
  /\ payment[p].lines[i].status = "in_progress"
  /\ d.lines[i] = Advanced(payment[p].lines[i])
  /\ \A k \in Invoices \ {i} : d.lines[k] = payment[p].lines[k]
  /\ d.status = IF \A k \in Invoices : d.lines[k].status \in {"absent", "completed"}
                THEN "completed" ELSE "in_progress"
  /\ \A k \in Invoices : InOrder(d.lines[k])
  /\ \A k \in Invoices : d.lines[k].status = "absent" <=> payment[p].lines[k].status = "absent"
Cancels(c, p, d) ==
  /\ p = call[c].payment /\ d \in Document /\ payment' = [payment EXCEPT ![p] = d]
  /\ d.version = call[c].doc.version + 1
  /\ payment[p] = call[c].doc /\ payment[p].status = "in_progress" /\ d.status = "cancelled"
  /\ \A k \in Invoices : d.lines[k] = Rejected(payment[p].lines[k])
  /\ \A k \in Invoices : InOrder(d.lines[k])
  /\ \A k \in Invoices : d.lines[k].status = "absent" <=> payment[p].lines[k].status = "absent"

(* A save that is not refused advances the payment as it stands. *)
LEMMA AdvanceSaved ==
  ASSUME IInv, NEW c \in Calls, NEW i \in Invoices, AdvanceSave(c, i), Unmodified(c)
  PROVE  \E p \in Payments, d \in Document : Advances(c, i, p, d)
<1>1. call[c].at = "advanceSave" /\ call[c].on = {i}
  BY DEF AdvanceSave, At
<1>2. call[c].doc.lines[i].status = "in_progress"
  BY <1>1, CallFields DEF Fits
<1>3. PICK p \in Payments, old \in Document :
        /\ p = call[c].payment /\ old = call[c].doc /\ old = payment[p] /\ old.status = "in_progress"
        /\ \A k \in Invoices : InOrder(old.lines[k])
  BY <1>1, Loaded DEF Saving
<1>4. PICK w : w = WithStep(old, i)
  OBVIOUS
<1>5. /\ w \in Document /\ w.version = old.version /\ w.lines[i] = Advanced(old.lines[i])
      /\ \A k \in Invoices \ {i} : w.lines[k] = old.lines[k]
      /\ w.status = IF \A k \in Invoices : w.lines[k].status \in {"absent", "completed"}
                    THEN "completed" ELSE "in_progress"
      /\ \A k \in Invoices : InOrder(w.lines[k])
      /\ \A k \in Invoices : w.lines[k].status = "absent" <=> old.lines[k].status = "absent"
  BY <1>2, <1>3, <1>4, StepSaved
<1>6. PICK d \in Document : d = [w EXCEPT !.version = @ + 1]
  BY <1>5, NextVersion
<1>7. d.version = w.version + 1 /\ d.status = w.status /\ d.lines = w.lines
  BY <1>5, <1>6, NextVersion
<1>8. payment' = [payment EXCEPT ![p] = d]
  BY <1>3, <1>4, <1>6 DEF AdvanceSave, Save
<1>9. Advances(c, i, p, d)
  BY <1>2, <1>3, <1>5, <1>7, <1>8 DEF Advances
<1> QED BY <1>9

(* A cancel that is not refused cancels the payment as it stands. *)
LEMMA CancelSavedIt ==
  ASSUME IInv, NEW c \in Calls, CancelSave(c), Unmodified(c)
  PROVE  \E p \in Payments, d \in Document : Cancels(c, p, d)
<1>1. call[c].at = "cancelSave"
  BY DEF CancelSave, At
<1>2. PICK p \in Payments, old \in Document :
        /\ p = call[c].payment /\ old = call[c].doc /\ old = payment[p] /\ old.status = "in_progress"
        /\ \A k \in Invoices : InOrder(old.lines[k])
  BY <1>1, Loaded DEF Saving
<1>3. PICK w : w = Cancelled(old)
  OBVIOUS
<1>4. /\ w \in Document /\ w.version = old.version /\ w.status = "cancelled"
      /\ \A k \in Invoices : w.lines[k] = Rejected(old.lines[k])
      /\ \A k \in Invoices : InOrder(w.lines[k])
      /\ \A k \in Invoices : w.lines[k].status = "absent" <=> old.lines[k].status = "absent"
  BY <1>2, <1>3, CancelSaved
<1>5. PICK d \in Document : d = [w EXCEPT !.version = @ + 1]
  BY <1>4, NextVersion
<1>6. d.version = w.version + 1 /\ d.status = w.status /\ d.lines = w.lines
  BY <1>4, <1>5, NextVersion
<1>7. payment' = [payment EXCEPT ![p] = d]
  BY <1>2, <1>3, <1>5 DEF CancelSave, Save
<1>8. Cancels(c, p, d)
  BY <1>2, <1>4, <1>6, <1>7 DEF Cancels
<1> QED BY <1>8
LEMMA AdvanceSaveStep ==
  ASSUME IInv, NEW c \in Calls, NEW i \in Invoices, AdvanceSave(c, i) PROVE IInv'
<1>1. CASE ~Unmodified(c)
  BY <1>1, EndStep DEF AdvanceSave
<1>2. CASE Unmodified(c)
  <2>1. PICK p \in Payments, d \in Document : Advances(c, i, p, d)
    BY <1>2, AdvanceSaved
  <2>2. d.status # "none" /\ call[c].at \in Saving /\ call' = [call EXCEPT ![c] = Idle]
        /\ UNCHANGED <<invoice, crowded>>
    BY <2>1 DEF Advances, AdvanceSave, At, Saving, End
  <2>3. /\ p = call[c].payment /\ payment' = [payment EXCEPT ![p] = d]
        /\ d.version = call[c].doc.version + 1 /\ d.status # "none"
        /\ \A k \in Invoices : InOrder(d.lines[k])
    BY <2>1 DEF Advances
  <2>4. \A k \in Invoices : d.lines[k].status = "absent" <=> call[c].doc.lines[k].status = "absent"
    BY <2>1 DEF Advances
  <2> QED BY <1>2, <2>2, <2>3, <2>4, Blank, SaveStep
<1> QED BY <1>1, <1>2
LEMMA CancelSaveStep == ASSUME IInv, NEW c \in Calls, CancelSave(c) PROVE IInv'
<1>1. CASE ~Unmodified(c)
  BY <1>1, EndStep DEF CancelSave
<1>2. CASE Unmodified(c)
  <2>1. PICK p \in Payments, d \in Document : Cancels(c, p, d)
    BY <1>2, CancelSavedIt
  <2>2. PICK y \in Call : y = [call[c] EXCEPT !.at = "cancelRelease"] /\ y.at = "cancelRelease"
    BY CallFields, AtLabel DEF Labels
  <2>3. call[c].at \in Saving /\ call' = [call EXCEPT ![c] = y] /\ UNCHANGED <<invoice, crowded>>
    BY <1>2, <2>2 DEF CancelSave, At, Saving, Goto, IInv, Typed
  <2>4. /\ p = call[c].payment /\ payment' = [payment EXCEPT ![p] = d]
        /\ d.version = call[c].doc.version + 1 /\ d.status # "none"
        /\ \A k \in Invoices : InOrder(d.lines[k])
    BY <2>1 DEF Cancels
  <2>5. \A k \in Invoices : d.lines[k].status = "absent" <=> call[c].doc.lines[k].status = "absent"
    BY <2>1 DEF Cancels
  <2> QED BY <1>2, <2>2, <2>3, <2>4, <2>5, SaveStep
<1> QED BY <1>1, <1>2
LEMMA CancelReleaseStep == ASSUME IInv, NEW c \in Calls, CancelRelease(c) PROVE IInv'
<1>1. \A i \in Invoices : invoice'[i] = invoice[i] \/ invoice'[i] = [status |-> "approved", paymentId |-> NoPayment]
  BY DEF CancelRelease
<1>2. [status |-> "approved", paymentId |-> NoPayment] \in Invoice
  BY DEF Invoice, InvoiceStatuses, PaymentIds
<1>3. invoice' \in [Invoices -> Invoice]
  BY <1>2 DEF CancelRelease, IInv, Typed
<1>4. \A p \in Payments : Lines(p) \subseteq Lines(p)'
  BY DEF CancelRelease, Lines
<1>5. ScheduledByItsPayment'
  BY <1>1, <1>4, StillScheduled
<1> QED BY <1>3, <1>5, Blank, IdleFits, PlainStep DEF CancelRelease, End

-----------------------------------------------------------------------------
(* Every step keeps the invariant. *)
LEMMA StepIInv == IInv /\ [Next]_vars => IInv'
<1> SUFFICES ASSUME IInv, [Next]_vars PROVE IInv'
  OBVIOUS
<1>1. CASE UNCHANGED vars
  <2>1. Typed' /\ OneCreates' /\ AllFit'
    BY <1>1 DEF vars, IInv, Typed, OneCreates, Creating, AllFit, Fits, Untied, Active, Lines
  <2>2. NoneHasLines' /\ LinesInOrder' /\ OnePaymentAtATime' /\ ScheduledByItsPayment'
    BY <1>1 DEF vars, IInv, NoneHasLines, LinesInOrder, OnePaymentAtATime, Active, Lines,
                ScheduledByItsPayment
  <2> QED BY <2>1, <2>2 DEF IInv
<1>2. ASSUME NEW i \in Invoices, InvoiceCall(i) PROVE IInv'
  <2>1. PICK st \in {"pending_approval", "approved", "rejected"} :
          SetStatus({i}, st) /\ UNCHANGED <<payment, call, crowded>>
    BY <1>2 DEF InvoiceCall, UploadInvoice, ApproveInvoice, RejectInvoice
  <2> QED BY <2>1, InvoicesStep DEF InvoiceStatuses
<1>3. ASSUME NEW these \in SUBSET Invoices, BulkApproveInvoices(these) PROVE IInv'
  BY <1>3, InvoicesStep DEF BulkApproveInvoices, InvoiceStatuses
<1>4. ASSUME NEW c \in Calls, CallStep(c) PROVE IInv'
  <2>1. CASE MarkPaidCheck(c)
    <3>1. End(c) \/ Goto(c, "markWrite")
      BY <2>1 DEF MarkPaidCheck
    <3> QED BY <2>1, <3>1, EndStep, GotoStep DEF MarkPaidCheck
  <2>2. CASE Fail(c)
    BY <2>2, EndStep DEF Fail
  <2> QED BY <1>4, <2>1, <2>2, MarkPaidReadStep, AdvanceSaveStep, MarkPaidWriteStep, CreateCheckStep,
             CreateFindStep, CreateScheduleStep, CreateInsertStep, CancelLoadStep, AdvanceLoadStep,
             AdvancePayStep, CancelSaveStep, CancelReleaseStep DEF CallStep
<1> QED BY <1>1, <1>2, <1>3, <1>4 DEF Next

(* The invariant that carries the others.                                  *)
THEOREM Inductive == Spec => []IInv
<1> QED BY InitIInv, StepIInv, PTL DEF Spec

(* Invoices, payments and what calls have read keep their types.           *)
THEOREM TypeCorrect == Spec => []TypeOK
<1>1. IInv => TypeOK
  BY DEF IInv, Typed, TypeOK, Invoice, Call
<1> QED BY <1>1, Inductive, PTL

(* A line's history is the workflow in order, whatever calls overlap.      *)
THEOREM HistoriesInOrder == Spec => []LinesInOrder
<1>1. IInv => LinesInOrder
  BY DEF IInv
<1> QED BY <1>1, Inductive, PTL

(* A scheduled invoice is on a line of the payment it names.               *)
THEOREM ScheduledAreOnLines == Spec => []ScheduledByItsPayment
<1>1. IInv => ScheduledByItsPayment
  BY DEF IInv
<1> QED BY <1>1, Inductive, PTL

(* No invoice is in two payments in progress unless two calls have created *)
(* payments at the same time.                                              *)
THEOREM InOnePayment == Spec => []OnePaymentAtATime
<1>1. IInv => OnePaymentAtATime
  BY DEF IInv
<1> QED BY <1>1, Inductive, PTL

-----------------------------------------------------------------------------
(* How payments look to Disbursement. *)
Stage == [p \in Payments |-> StageOf(payment[p])]
Over == [p \in Payments |-> Lines(p)]
Taken == [p \in Payments |-> [i \in Invoices |-> Behind(payment[p].lines[i])]]
BehindAll(d) == [i \in Invoices |-> Behind(d.lines[i])]
LinesOf(d) == {i \in Invoices : d.lines[i].status # "absent"}

(* The stages by their statuses. *)
LEMMA StageIs ==
  ASSUME NEW d
  PROVE  /\ d.status = "none" => StageOf(d) = "unopened"
         /\ d.status = "in_progress" => StageOf(d) = "open"
         /\ d.status = "completed" => StageOf(d) = "done"
         /\ d.status = "cancelled" => StageOf(d) = "called off"
BY DEF StageOf

(* Nothing has been opened. *)
LEMMA InitDisburses == Init => D!Init
<1> SUFFICES ASSUME Init PROVE D!Init
  OBVIOUS
<1>1. \A p \in Payments : payment[p] = NoDoc
  BY DEF Init
<1>2. Stage = [p \in Payments |-> "unopened"]
  BY <1>1, Blank, StageIs DEF Stage
<1>3. Over = [p \in Payments |-> {}]
  BY <1>1, Blank DEF Over, Lines
<1>4. Taken = [p \in Payments |-> [i \in Invoices |-> 0]]
  BY <1>1, Blank, BehindIs DEF Taken
<1> QED BY <1>2, <1>3, <1>4 DEF D!Init, Stage, Over, Taken

(* The three of them, before and after a step. *)
Stages == {"unopened", "open", "done", "called off"}

(* What the mapping shows of the payments, now ... *)
LEMMA View ==
  ASSUME payment \in [Payments -> Document]
  PROVE  /\ Stage \in [Payments -> Stages] /\ Over \in [Payments -> SUBSET Invoices]
         /\ Taken \in [Payments -> [Invoices -> Int]]
         /\ \A p \in Payments : /\ Stage[p] = StageOf(payment[p]) /\ Over[p] = Lines(p)
                                /\ Taken[p] = BehindAll(payment[p])
<1>1. \A p \in Payments : StageOf(payment[p]) \in Stages
  BY StageIs DEF Document, Stages
<1>2. \A p \in Payments, i \in Invoices : Behind(payment[p].lines[i]) \in Int
  <2>1. \A p \in Payments, i \in Invoices : payment[p].lines[i] \in Line
    BY DEF Document
  <2>2. \A line \in Line : Behind(line) \in Int
    BY BehindIs, StepsAssumption DEF Line
  <2> QED BY <2>1, <2>2
<1>3. \A p \in Payments : Lines(p) \in SUBSET Invoices
  BY DEF Lines
<1> QED BY <1>1, <1>2, <1>3 DEF Stage, Over, Taken, BehindAll

(* ... and after a step. *)
LEMMA ViewAfter ==
  ASSUME payment' \in [Payments -> Document]
  PROVE  /\ Stage' \in [Payments -> Stages] /\ Over' \in [Payments -> SUBSET Invoices]
         /\ Taken' \in [Payments -> [Invoices -> Int]]
         /\ \A p \in Payments : /\ Stage'[p] = StageOf(payment'[p]) /\ Over'[p] = Lines(p)'
                                /\ Taken'[p] = BehindAll(payment'[p])
<1>1. \A p \in Payments : StageOf(payment'[p]) \in Stages
  BY StageIs DEF Document, Stages
<1>2. \A p \in Payments, i \in Invoices : Behind(payment'[p].lines[i]) \in Int
  <2>1. \A p \in Payments, i \in Invoices : payment'[p].lines[i] \in Line
    BY DEF Document
  <2>2. \A line \in Line : Behind(line) \in Int
    BY BehindIs, StepsAssumption DEF Line
  <2> QED BY <2>1, <2>2
<1>3. \A p \in Payments : Lines(p)' \in SUBSET Invoices
  BY DEF Lines
<1> QED BY <1>1, <1>2, <1>3 DEF Stage, Over, Taken, BehindAll, StageOf, Behind

(* One payment changes. *)
LEMMA OneChanges ==
  ASSUME IInv, NEW p \in Payments, NEW d \in Document, payment' = [payment EXCEPT ![p] = d]
  PROVE  /\ Stage' = [Stage EXCEPT ![p] = StageOf(d)]
         /\ Over' = [Over EXCEPT ![p] = LinesOf(d)]
         /\ Taken' = [Taken EXCEPT ![p] = BehindAll(d)]
         /\ Over'[p] = LinesOf(d)
         /\ Taken'[p] = BehindAll(d)
         /\ Over \in [Payments -> SUBSET Invoices] /\ Over' \in [Payments -> SUBSET Invoices]
         /\ Taken \in [Payments -> [Invoices -> Int]] /\ Taken' \in [Payments -> [Invoices -> Int]]
         /\ Stage[p] = StageOf(payment[p]) /\ Over[p] = Lines(p)
         /\ Taken[p] = BehindAll(payment[p])
<1>1. /\ payment'[p] = d /\ \A q \in Payments : q # p => payment'[q] = payment[q]
      /\ payment \in [Payments -> Document] /\ payment' \in [Payments -> Document]
  BY DEF IInv, Typed
<1>2. Lines(p)' = LinesOf(d)
      /\ \A q \in Payments : q # p => Lines(q)' = Lines(q)
  BY <1>1 DEF Lines, LinesOf
<1>3. Stage' = [Stage EXCEPT ![p] = StageOf(d)]
  <2>1. Stage \in [Payments -> Stages] /\ Stage' \in [Payments -> Stages]
    BY <1>1, View, ViewAfter
  <2>2. Stage'[p] = StageOf(d) /\ \A q \in Payments : q # p => Stage'[q] = Stage[q]
    BY <1>1, View, ViewAfter
  <2> QED BY <2>1, <2>2
<1>4. Over' = [Over EXCEPT ![p] = LinesOf(d)]
  <2>1. Over \in [Payments -> SUBSET Invoices] /\ Over' \in [Payments -> SUBSET Invoices]
    BY <1>1, View, ViewAfter
  <2>2. /\ Over'[p] = LinesOf(d)
        /\ \A q \in Payments : q # p => Over'[q] = Over[q]
    BY <1>1, <1>2, View, ViewAfter
  <2> QED BY <2>1, <2>2
<1>5. Taken' = [Taken EXCEPT ![p] = BehindAll(d)]
  <2>1. Taken \in [Payments -> [Invoices -> Int]] /\ Taken' \in [Payments -> [Invoices -> Int]]
    BY <1>1, View, ViewAfter
  <2>2. /\ Taken'[p] = BehindAll(d)
        /\ \A q \in Payments : q # p => Taken'[q] = Taken[q]
    <3>1. Taken'[p] = BehindAll(d)
      BY <1>1, ViewAfter
    <3>2. ASSUME NEW q \in Payments, q # p PROVE Taken'[q] = Taken[q]
      <4>1. Taken'[q] = BehindAll(payment'[q])
        BY <1>1, ViewAfter
      <4>2. Taken[q] = BehindAll(payment[q])
        BY <1>1, View
      <4>3. payment'[q] = payment[q]
        BY <1>1, <3>2
      <4> QED BY <4>1, <4>2, <4>3
    <3> QED BY <3>1, <3>2
  <2> QED BY <2>1, <2>2
<1> QED BY <1>1, <1>2, <1>3, <1>4, <1>5, View, ViewAfter

(* A payment whose view stays the same leaves all of it the same. *)
LEMMA SameValue ==
  ASSUME NEW S, NEW T, NEW f \in [S -> T], NEW p \in S PROVE [f EXCEPT ![p] = f[p]] = f
OBVIOUS

(* An insert opens, a save advances one line or calls off. *)
LEMMA InsertOpens ==
  ASSUME IInv, NEW c \in Calls, NEW p \in Payments, CreateInsert(c, p) PROVE D!Open(p)
<1>1. /\ payment[p].status = "none" /\ call[c].on \subseteq Invoices /\ call[c].on # {}
  BY CallFields DEF CreateInsert, At, Fits
<1>2. PICK ls \in [Invoices -> Line] : ls = [i \in Invoices |-> IF i \in call[c].on THEN Fresh ELSE Absent]
  BY Blank
<1>3. PICK d : d = [status |-> "in_progress", lines |-> ls, version |-> 0]
  OBVIOUS
<1>4. d \in Document /\ d.status = "in_progress" /\ d.lines = ls
  BY <1>3, DocumentMade
<1>5. payment' = [payment EXCEPT ![p] = d]
  BY <1>2, <1>3 DEF CreateInsert
<1>6. Stage[p] = "unopened" /\ Stage' = [Stage EXCEPT ![p] = "open"]
  <2>1. Stage[p] = StageOf(payment[p]) /\ Stage' = [Stage EXCEPT ![p] = StageOf(d)]
    BY <1>4, <1>5, OneChanges
  <2>2. StageOf(payment[p]) = "unopened" /\ StageOf(d) = "open"
    BY <1>1, <1>4, StageIs
  <2> QED BY <2>1, <2>2
<1>7. Over' = [Over EXCEPT ![p] = call[c].on]
  <2>1. LinesOf(d) = call[c].on
    BY <1>1, <1>2, <1>4, Blank DEF LinesOf
  <2>2. Over' = [Over EXCEPT ![p] = LinesOf(d)]
    BY <1>4, <1>5, OneChanges
  <2> QED BY <2>1, <2>2
<1>8. UNCHANGED Taken
  <2>1. \A i \in Invoices : payment[p].lines[i].status = "absent"
    BY <1>1 DEF IInv, NoneHasLines, Lines
  <2>2. \A i \in Invoices : Behind(payment[p].lines[i]) = 0
    BY <2>1, BehindIs
  <2>3. \A i \in Invoices : Behind(d.lines[i]) = 0
    <3>1. Behind(Fresh) = 0 /\ Behind(Absent) = 0
      BY Blank, BehindIs
    <3> QED BY <1>2, <1>4, <3>1
  <2>4. BehindAll(d) = Taken[p]
    BY <2>2, <2>3 DEF Taken, BehindAll
  <2>5. Taken' = [Taken EXCEPT ![p] = Taken[p]]
    <3>1. Taken' = [Taken EXCEPT ![p] = BehindAll(d)]
      BY <1>4, <1>5, OneChanges
    <3> QED BY <2>4, <3>1
  <2>6. Taken \in [Payments -> [Invoices -> Int]]
    BY <1>4, <1>5, OneChanges
  <2> QED BY <2>5, <2>6, SameValue
<1>9. Over'[p] = call[c].on
  <2>1. Over \in [Payments -> SUBSET Invoices]
    BY <1>4, <1>5, OneChanges
  <2> QED BY <1>7, <2>1
<1>10. Over' = [Over EXCEPT ![p] = Over'[p]] /\ Over'[p] \in (SUBSET Invoices) \ {{}}
  BY <1>1, <1>7, <1>9
<1> QED BY <1>6, <1>8, <1>10 DEF D!Open, Stage, Over, Taken

(* An advance is a step of Disbursement, or none. *)
LEMMA AdvanceSteps ==
  ASSUME IInv, NEW c \in Calls, NEW i \in Invoices, NEW p \in Payments, NEW d \in Document,
         Advances(c, i, p, d)
  PROVE  D!Step(p, i)
<1>1. PICK old \in Document :
        /\ old = payment[p] /\ old.status = "in_progress" /\ old.lines[i].status = "in_progress"
        /\ d.lines[i] = Advanced(old.lines[i]) /\ \A k \in Invoices \ {i} : d.lines[k] = old.lines[k]
        /\ \A k \in Invoices : d.lines[k].status = "absent" <=> old.lines[k].status = "absent"
        /\ \A k \in Invoices : InOrder(old.lines[k])
  BY DEF Advances, IInv, Typed, LinesInOrder
<1>2. /\ d.lines \in [Invoices -> Line] /\ old.lines \in [Invoices -> Line]
      /\ d.status = IF \A k \in Invoices : d.lines[k].status \in {"absent", "completed"}
                    THEN "completed" ELSE "in_progress"
      /\ payment' = [payment EXCEPT ![p] = d]
  BY DEF Advances, Document
<1>3. /\ Behind(d.lines[i]) = Behind(old.lines[i]) + 1 /\ Behind(old.lines[i]) < Steps
  BY <1>1, <1>2, AdvancedInOrder
<1>4. Stage[p] = "open"
  BY <1>1, StageIs DEF Stage
<1>5. Over[p] = LinesOf(d) /\ i \in Over[p]
  BY <1>1 DEF Over, Lines, LinesOf
<1>6. UNCHANGED Over
  <2>1. Over' = [Over EXCEPT ![p] = Over[p]]
    <3>1. Over' = [Over EXCEPT ![p] = LinesOf(d)]
      BY <1>2, OneChanges
    <3> QED BY <1>5, <3>1
  <2>2. Over \in [Payments -> SUBSET Invoices]
    BY <1>2, OneChanges
  <2> QED BY <2>1, <2>2, SameValue
<1>7. Taken' = [Taken EXCEPT ![p][i] = @ + 1]
  <2>1. Taken' = [Taken EXCEPT ![p] = BehindAll(d)]
    BY <1>2, OneChanges
  <2>2. Taken[p] = BehindAll(old)
    BY <1>1 DEF Taken, BehindAll
  <2>3. BehindAll(d) = [Taken[p] EXCEPT ![i] = Taken[p][i] + 1]
    <3>1. \A k \in Invoices \ {i} : Behind(d.lines[k]) = Behind(old.lines[k])
      BY <1>1
    <3>2. Taken[p][i] + 1 = Behind(d.lines[i])
      BY <1>3, <2>2 DEF BehindAll
    <3> QED BY <2>2, <3>1, <3>2 DEF BehindAll
  <2> QED BY <2>1, <2>3
<1>8. Taken[p][i] < Steps
  BY <1>1, <1>3 DEF Taken, BehindAll
<1>9. /\ Taken'[p] = BehindAll(d)
      /\ Stage' = [Stage EXCEPT ![p] = StageOf(d)]
  BY <1>2, OneChanges
<1>10. StageOf(d) = IF \A k \in Over[p] : Taken'[p][k] = Steps THEN "done" ELSE Stage[p]
  <2>1. \A k \in Over[p] : Taken'[p][k] = Steps <=> d.lines[k].status = "completed"
    <3> SUFFICES ASSUME NEW k \in Over[p] PROVE Taken'[p][k] = Steps <=> d.lines[k].status = "completed"
      OBVIOUS
    <3>1. k \in Invoices /\ d.lines[k].status # "absent" /\ d.lines[k] \in Line
      BY <1>2, <1>5 DEF LinesOf
    <3>2. Taken'[p][k] = Behind(d.lines[k])
      BY <1>9, <3>1 DEF BehindAll
    <3>3. CASE d.lines[k].status = "completed"
      BY <3>2, <3>3, BehindIs
    <3>4. CASE d.lines[k].status \in {"in_progress", "rejected"}
      <4>1. Behind(d.lines[k]) = d.lines[k].step - 1 /\ d.lines[k].step \in 1..Steps
        BY <3>1, <3>4, BehindIs DEF Line
      <4>2. Behind(d.lines[k]) # Steps
        BY <4>1, StepsAssumption
      <4> QED BY <3>2, <3>4, <4>2
    <3>5. d.lines[k].status \in {"completed", "in_progress", "rejected"}
      BY <3>1 DEF Line
    <3> QED BY <3>3, <3>4, <3>5
  <2>2. (\A k \in Over[p] : Taken'[p][k] = Steps)
          <=> \A k \in Invoices : d.lines[k].status \in {"absent", "completed"}
    BY <1>5, <2>1 DEF LinesOf
  <2>3. CASE \A k \in Over[p] : Taken'[p][k] = Steps
    BY <1>2, <2>2, <2>3, StageIs
  <2>4. CASE ~\A k \in Over[p] : Taken'[p][k] = Steps
    BY <1>2, <1>4, <2>2, <2>4, StageIs
  <2> QED BY <2>3, <2>4
<1>11. Stage' = [Stage EXCEPT ![p] = IF \A k \in Over[p] : Taken'[p][k] = Steps THEN "done" ELSE @]
  BY <1>9, <1>10
<1> QED BY <1>4, <1>5, <1>6, <1>7, <1>8, <1>11 DEF D!Step, Stage, Over, Taken

(* A cancel calls the payment off. *)
LEMMA CancelCallsOff ==
  ASSUME IInv, NEW c \in Calls, NEW p \in Payments, NEW d \in Document, Cancels(c, p, d)
  PROVE  D!CallOff(p)
<1>1. PICK old \in Document :
        /\ old = payment[p] /\ old.status = "in_progress"
        /\ \A k \in Invoices : d.lines[k] = Rejected(old.lines[k])
        /\ \A k \in Invoices : d.lines[k].status = "absent" <=> old.lines[k].status = "absent"
        /\ \A k \in Invoices : InOrder(old.lines[k])
  BY DEF Cancels, IInv, Typed, LinesInOrder
<1>2. d.status = "cancelled" /\ payment' = [payment EXCEPT ![p] = d]
  BY DEF Cancels
<1>3. Stage[p] = "open" /\ Stage' = [Stage EXCEPT ![p] = "called off"]
  <2>1. Stage[p] = StageOf(payment[p]) /\ Stage' = [Stage EXCEPT ![p] = StageOf(d)]
    BY <1>2, OneChanges
  <2>2. StageOf(payment[p]) = "open" /\ StageOf(d) = "called off"
    BY <1>1, <1>2, StageIs
  <2> QED BY <2>1, <2>2
<1>4. UNCHANGED Over
  <2>1. Over[p] = LinesOf(d)
    BY <1>1 DEF Over, Lines, LinesOf
  <2>2. Over' = [Over EXCEPT ![p] = Over[p]]
    <3>1. Over' = [Over EXCEPT ![p] = LinesOf(d)]
      BY <1>2, OneChanges
    <3> QED BY <2>1, <3>1
  <2>3. Over \in [Payments -> SUBSET Invoices]
    BY <1>2, OneChanges
  <2> QED BY <2>2, <2>3, SameValue
<1>5. UNCHANGED Taken
  <2>1. old.lines \in [Invoices -> Line]
    BY DEF Document
  <2>2. \A k \in Invoices : Behind(d.lines[k]) = Behind(old.lines[k])
    BY <1>1, <2>1, RejectedInOrder
  <2>3. BehindAll(d) = Taken[p]
    BY <1>1, <2>2 DEF Taken, BehindAll
  <2>4. Taken' = [Taken EXCEPT ![p] = Taken[p]]
    <3>1. Taken' = [Taken EXCEPT ![p] = BehindAll(d)]
      BY <1>2, OneChanges
    <3> QED BY <2>3, <3>1
  <2>5. Taken \in [Payments -> [Invoices -> Int]]
    BY <1>2, OneChanges
  <2> QED BY <2>4, <2>5, SameValue
<1> QED BY <1>3, <1>4, <1>5 DEF D!CallOff, Stage, Over, Taken

(* Every step is one of Disbursement's or leaves payments as they are.     *)
LEMMA StepDisburses == IInv /\ [Next]_vars => [D!Next]_<<Stage, Over, Taken>>
<1> SUFFICES ASSUME IInv, [Next]_vars PROVE [D!Next]_<<Stage, Over, Taken>>
  OBVIOUS
<1>1. CASE UNCHANGED payment
  BY <1>1 DEF Stage, Over, Taken, Lines, StageOf, Behind
<1>2. ASSUME NEW c \in Calls, NEW p \in Payments, CreateInsert(c, p) PROVE D!Next
  BY <1>2, InsertOpens DEF D!Next
<1>3. ASSUME NEW c \in Calls, NEW i \in Invoices, AdvanceSave(c, i), ~UNCHANGED payment PROVE D!Next
  <2>1. Unmodified(c)
    BY <1>3 DEF AdvanceSave
  <2>2. PICK p \in Payments, d \in Document : Advances(c, i, p, d)
    BY <1>3, <2>1, AdvanceSaved
  <2>3. D!Step(p, i)
    BY <2>2, AdvanceSteps
  <2> QED BY <2>3 DEF D!Next
<1>4. ASSUME NEW c \in Calls, CancelSave(c), ~UNCHANGED payment PROVE D!Next
  <2>1. Unmodified(c)
    BY <1>4 DEF CancelSave
  <2>2. PICK p \in Payments, d \in Document : Cancels(c, p, d)
    BY <1>4, <2>1, CancelSavedIt
  <2>3. D!CallOff(p)
    BY <2>2, CancelCallsOff
  <2> QED BY <2>3 DEF D!Next
<1>5. ASSUME NEW c \in Calls, CallStep(c), ~UNCHANGED payment
      PROVE  \/ \E p \in Payments : CreateInsert(c, p)
             \/ \E i \in Invoices : AdvanceSave(c, i)
             \/ CancelSave(c)
  BY <1>5 DEF CallStep, MarkPaidRead, MarkPaidCheck, MarkPaidWrite, CreateCheck, CreateFind, CreateSchedule,
              CancelLoad, AdvanceLoad, Load, AdvancePay, CancelRelease, Fail
<1>6. UNCHANGED payment \/ \E c \in Calls : CallStep(c)
  BY DEF vars, Next, InvoiceCall, UploadInvoice, ApproveInvoice, RejectInvoice, BulkApproveInvoices
<1> QED BY <1>1, <1>2, <1>3, <1>4, <1>5, <1>6

(* Vendor payments disburse as promised, however the calls on them overlap *)
(* or are cut short: the version check lets no stale copy undo anything.   *)
THEOREM Implements == Spec => Disburses
<1>1. IInv /\ [Next]_vars => [D!Next]_<<[p \in Payments |-> StageOf(payment[p])],
                                        [p \in Payments |-> Lines(p)],
                                        [p \in Payments |-> [i \in Invoices |-> Behind(payment[p].lines[i])]]>>
  BY StepDisburses DEF Stage, Over, Taken
<1> QED BY <1>1, InitDisburses, Inductive, PTL DEF Spec, Disburses, D!Spec

-----------------------------------------------------------------------------
(* The picker's side. *)
Balances == [available : Nat, reserved : Nat]
Handler == [at : PayoutLabels, for : SUBSET Requests, amount : Nat,
            key : Keys \cup {NoKey}, doc : Balances]
Request == [status : {"none", "PENDING", "APPROVED", "REJECTED", "PAID"},
            amount : Nat, key : Keys \cup {NoKey}]

(* The handlers' documents are copies of wallets, which were not negative. *)
PayoutTyped == /\ wallet \in Balances /\ request \in [Requests -> Request]
         /\ credits \in Nat /\ debits \in [Requests -> Nat] /\ disturbed \in BOOLEAN
         /\ handler \in [Handlers -> Handler]

(* A handler that is going to lock an amount has seen it; one that decides *)
(* on a request, or says it is paid, knows of the request, or its debit.   *)
HandlerFits(x) == /\ x.at \in {"createInsert", "createLock"} => x.doc.available >= x.amount
                  /\ \A r \in x.for : /\ request[r].status # "none"
                                      /\ x.at = "paySave" => debits[r] > 0
AllHandlersFit == \A h \in Handlers : HandlerFits(handler[h])

PayoutIInv == PayoutTyped /\ AllHandlersFit /\ PaidIsDebited /\ OneRequestPerKey

-----------------------------------------------------------------------------
(* A handler at rest. *)
LEMMA Rests == /\ Empty \in Balances /\ Resting \in Handler /\ Resting.for = {} /\ Resting.at = "idle"
<1>1. Empty \in Balances
  BY DEF Empty, Balances
<1> QED BY <1>1 DEF Resting, Handler, PayoutLabels

(* No money, no requests. *)
LEMMA PayoutInitIInv == PayoutInit => PayoutIInv
<1> SUFFICES ASSUME PayoutInit PROVE PayoutIInv
  OBVIOUS
<1>1. None \in Request /\ None.status = "none"
  BY DEF None, Request
<1>2. PayoutTyped
  BY <1>1, Rests DEF PayoutInit, PayoutTyped
<1>3. AllHandlersFit
  BY Rests DEF PayoutInit, AllHandlersFit, HandlerFits
<1>4. PaidIsDebited /\ OneRequestPerKey
  BY <1>1 DEF PayoutInit, PaidIsDebited, OneRequestPerKey
<1> QED BY <1>2, <1>3, <1>4 DEF PayoutIInv

(* Requests stay requests and debits stay booked: then the handlers that   *)
(* do not move still fit.                                                  *)
PayoutsOnwards == /\ \A r \in Requests : request[r].status # "none" => request'[r].status # "none"
           /\ \A r \in Requests : debits'[r] >= debits[r]

(* Writing one handler leaves what the others know. *)
LEMMA Frame ==
  ASSUME PayoutIInv, PayoutsOnwards, NEW h \in Handlers, NEW x \in Handler, HandlerFits(x)',
         handler' = [handler EXCEPT ![h] = x], debits' \in [Requests -> Nat]
  PROVE  AllHandlersFit' /\ handler' \in [Handlers -> Handler]
<1>1. handler' \in [Handlers -> Handler]
  BY DEF PayoutIInv, PayoutTyped
<1>2. ASSUME NEW g \in Handlers, g # h PROVE HandlerFits(handler[g])'
  <2>1. handler'[g] = handler[g] /\ handler[g].for \subseteq Requests /\ HandlerFits(handler[g])
    BY <1>2 DEF PayoutIInv, PayoutTyped, AllHandlersFit, Handler
  <2> QED BY <2>1 DEF HandlerFits, PayoutsOnwards, PayoutIInv, PayoutTyped
<1>3. HandlerFits(handler[h])'
  BY DEF PayoutIInv, PayoutTyped
<1> QED BY <1>1, <1>2, <1>3 DEF AllHandlersFit

(* A handler only moves on, or comes to rest, while what the properties    *)
(* speak of is changed as the step says.                                   *)
LEMMA HandlerMoves ==
  ASSUME PayoutIInv, PayoutsOnwards, NEW h \in Handlers, NEW x \in Handler, HandlerFits(x)',
         handler' = [handler EXCEPT ![h] = x], wallet' \in Balances,
         request' \in [Requests -> Request], credits' \in Nat, debits' \in [Requests -> Nat],
         disturbed' \in BOOLEAN, PaidIsDebited', OneRequestPerKey'
  PROVE  PayoutIInv'
BY Frame DEF PayoutIInv, PayoutTyped

(* The same for steps that write neither requests nor debits. *)
LEMMA PlainSteps ==
  ASSUME PayoutIInv, NEW h \in Handlers, NEW x \in Handler, HandlerFits(x), UNCHANGED <<request, debits>>,
         handler' = [handler EXCEPT ![h] = x], wallet' \in Balances, credits' \in Nat,
         disturbed' \in BOOLEAN
  PROVE  PayoutIInv'
<1>1. PayoutsOnwards
  BY DEF PayoutsOnwards, PayoutIInv, PayoutTyped
<1>2. HandlerFits(x)'
  BY DEF HandlerFits
<1>3. PaidIsDebited' /\ OneRequestPerKey'
  BY DEF PayoutIInv, PaidIsDebited, OneRequestPerKey
<1> QED BY <1>1, <1>2, <1>3, HandlerMoves DEF PayoutIInv, PayoutTyped

(* What a save may leave in the wallet. *)
LEMMA SaveTyped ==
  ASSUME PayoutIInv, NEW h \in Handlers, NEW a \in Nat, NEW b \in Nat, SaveWallet(h, a, b)
  PROVE  wallet' \in Balances
BY DEF PayoutIInv, PayoutTyped, SaveWallet, Written, Balances

(* A balance is never saved below zero. *)
LEMMA LessTyped == \A a, b \in Nat : Less(a, b) \in Nat
BY DEF Less

(* The fields of a handler, and a handler at another label. *)
LEMMA Fields ==
  ASSUME PayoutIInv, NEW h \in Handlers
  PROVE  /\ handler[h] \in Handler /\ HandlerFits(handler[h])
         /\ handler[h].doc.available \in Nat /\ handler[h].doc.reserved \in Nat
         /\ handler[h].amount \in Nat /\ handler[h].for \subseteq Requests
         /\ handler[h].key \in Keys \cup {NoKey}
BY DEF PayoutIInv, PayoutTyped, AllHandlersFit, Handler, Balances
LEMMA HandlerAt ==
  ASSUME NEW x \in Handler, NEW label \in PayoutLabels, NEW doc \in Balances
  PROVE  /\ [x EXCEPT !.at = label] \in Handler
         /\ [x EXCEPT !.at = label, !.doc = doc] \in Handler
BY DEF Handler

-----------------------------------------------------------------------------
(* A handler that ends with no effect, or is cut short. *)
LEMMA HandlerEnds ==
  ASSUME PayoutIInv, NEW h \in Handlers, handler' = [handler EXCEPT ![h] = Resting],
         disturbed' \in BOOLEAN, UNCHANGED <<wallet, request, credits, debits>>
  PROVE  PayoutIInv'
<1>1. HandlerFits(Resting)
  BY Rests DEF HandlerFits
<1> QED BY <1>1, Rests, PlainSteps DEF PayoutIInv, PayoutTyped

(* The starts. *)
LEMMA CreditStartStep == ASSUME PayoutIInv, NEW h \in Handlers, CreditStart(h) PROVE PayoutIInv'
<1> DEFINE x == [Resting EXCEPT !.at = "creditBook", !.doc = wallet]
<1>1. x \in Handler /\ x.at = "creditBook" /\ x.for = {}
  <2>1. wallet \in Balances
    BY DEF PayoutIInv, PayoutTyped
  <2> QED BY <2>1, Rests DEF PayoutLabels, Handler
<1>2. handler' = [handler EXCEPT ![h] = x] /\ disturbed' \in BOOLEAN
      /\ UNCHANGED <<wallet, request, credits, debits>>
  BY DEF CreditStart, Start, PayoutIInv, PayoutTyped
<1>3. HandlerFits(x)
  BY <1>1 DEF HandlerFits
<1> HIDE DEF x
<1> QED BY <1>1, <1>2, <1>3, PlainSteps DEF PayoutIInv, PayoutTyped
LEMMA CreateStartStep ==
  ASSUME PayoutIInv, NEW h \in Handlers, NEW a \in Amounts, NEW k \in Keys \cup {NoKey}, CreateStart(h, a, k)
  PROVE  PayoutIInv'
<1> DEFINE x == [Resting EXCEPT !.at = "createWallet", !.amount = a, !.key = k]
<1>1. x \in Handler /\ x.at = "createWallet" /\ x.for = {}
  BY Rests, AmountAssumption DEF PayoutLabels, Handler
<1>2. handler' = [handler EXCEPT ![h] = x] /\ disturbed' \in BOOLEAN
      /\ UNCHANGED <<wallet, request, credits, debits>>
  BY DEF CreateStart, Start, PayoutIInv, PayoutTyped
<1>3. HandlerFits(x)
  BY <1>1 DEF HandlerFits
<1> HIDE DEF x
<1> QED BY <1>1, <1>2, <1>3, PlainSteps DEF PayoutIInv, PayoutTyped
LEMMA DecideStep ==
  ASSUME PayoutIInv, NEW h \in Handlers, NEW r \in Requests, Approve(h, r) \/ Reject(h, r) \/ MarkPaid(h, r)
  PROVE  PayoutIInv'
<1>1. PICK label \in {"approveSave", "rejectWallet", "payWallet"} :
        /\ request[r].status # "none"
        /\ Start(h, [Resting EXCEPT !.at = label, !.for = {r}, !.amount = request[r].amount])
        /\ UNCHANGED <<wallet, request, credits, debits>>
  BY DEF Approve, Reject, MarkPaid, Decide
<1> DEFINE x == [Resting EXCEPT !.at = label, !.for = {r}, !.amount = request[r].amount]
<1>2. request[r].amount \in Nat
  BY DEF PayoutIInv, PayoutTyped, Request
<1>3. x \in Handler /\ x.at = label /\ x.for = {r}
  BY <1>2, Rests DEF PayoutLabels, Handler
<1>4. handler' = [handler EXCEPT ![h] = x] /\ disturbed' \in BOOLEAN
  BY <1>1 DEF Start, PayoutIInv, PayoutTyped
<1>5. HandlerFits(x)
  BY <1>1, <1>3 DEF HandlerFits
<1> HIDE DEF x
<1> QED BY <1>1, <1>3, <1>4, <1>5, PlainSteps DEF PayoutIInv, PayoutTyped

-----------------------------------------------------------------------------
(* A handler that loads the wallet. *)
LEMMA WalletLoads ==
  ASSUME PayoutIInv, NEW h \in Handlers, CreateWallet(h) \/ RejectWallet(h) \/ PayWallet(h)
  PROVE  PayoutIInv'
<1>1. CASE CreateWallet(h) /\ wallet.available < handler[h].amount
  BY <1>1, HandlerEnds DEF CreateWallet, Done, PayoutIInv, PayoutTyped
<1>2. ASSUME ~(CreateWallet(h) /\ wallet.available < handler[h].amount)
      PROVE PayoutIInv'
  <2>1. PICK label \in {"createInsert", "rejectUnlock", "payUnlock"} :
          /\ LoadWallet(h, label)
          /\ label = "createInsert" => wallet.available >= handler[h].amount
    BY <1>2, Fields DEF CreateWallet, RejectWallet, PayWallet, PayoutIInv, PayoutTyped, Balances
  <2> DEFINE x == [handler[h] EXCEPT !.at = label, !.doc = wallet]
  <2>2. x \in Handler
    BY Fields, HandlerAt DEF PayoutIInv, PayoutTyped, PayoutLabels
  <2>3. /\ handler' = [handler EXCEPT ![h] = x] /\ disturbed' \in BOOLEAN
        /\ UNCHANGED <<wallet, request, credits, debits>>
    BY <2>1 DEF LoadWallet, PayoutIInv, PayoutTyped
  <2>4. HandlerFits(x)
    BY <2>1, Fields DEF HandlerFits, Handler
  <2> HIDE DEF x
  <2> QED BY <2>2, <2>3, <2>4, PlainSteps DEF PayoutIInv, PayoutTyped
<1> QED BY <1>1, <1>2

(* A handler that saves the wallet. *)
LEMMA CreditSaveStep == ASSUME PayoutIInv, NEW h \in Handlers, CreditSave(h) PROVE PayoutIInv'
<1>1. wallet' \in Balances
  <2>1. handler[h].doc.available + Earnings \in Nat
    BY Fields, AmountAssumption
  <2> QED BY <2>1, Fields, SaveTyped DEF CreditSave
<1>2. HandlerFits(Resting)
  BY Rests DEF HandlerFits
<1> QED BY <1>1, <1>2, Rests, PlainSteps DEF CreditSave, Done, PayoutIInv, PayoutTyped
LEMMA CreateLockStep == ASSUME PayoutIInv, NEW h \in Handlers, CreateLock(h) PROVE PayoutIInv'
<1>1. handler[h].doc.available >= handler[h].amount
  BY Fields DEF CreateLock, In, HandlerFits
<1>2. wallet' \in Balances
  <2>1. /\ handler[h].doc.available - handler[h].amount \in Nat
        /\ handler[h].doc.reserved + handler[h].amount \in Nat
    BY <1>1, Fields
  <2> QED BY <2>1, SaveTyped DEF CreateLock
<1>3. HandlerFits(Resting)
  BY Rests DEF HandlerFits
<1> QED BY <1>2, <1>3, Rests, PlainSteps DEF CreateLock, Done, PayoutIInv, PayoutTyped
LEMMA UnlockStep == ASSUME PayoutIInv, NEW h \in Handlers, RejectUnlock(h) \/ PayUnlock(h) PROVE PayoutIInv'
<1>1. wallet' \in Balances
  <2>1. /\ handler[h].doc.available \in Nat
        /\ handler[h].doc.available + handler[h].amount \in Nat
        /\ Less(handler[h].doc.reserved, handler[h].amount) \in Nat
    <3>1. handler[h].doc.available \in Nat /\ handler[h].doc.reserved \in Nat /\ handler[h].amount \in Nat
      BY Fields
    <3>2. Less(handler[h].doc.reserved, handler[h].amount) \in Nat
      BY <3>1, LessTyped
    <3> QED BY <3>1, <3>2
  <2>2. CASE RejectUnlock(h)
    BY <2>1, <2>2, SaveTyped DEF RejectUnlock
  <2>3. CASE PayUnlock(h)
    BY <2>1, <2>3, SaveTyped DEF PayUnlock
  <2> QED BY <2>2, <2>3
<1>2. PICK label \in {"rejectSave", "payBook"} :
        Move(h, label) /\ UNCHANGED <<request, credits, debits>>
  BY DEF RejectUnlock, PayUnlock
<1> DEFINE x == [handler[h] EXCEPT !.at = label]
<1>3. x \in Handler
  BY Fields, HandlerAt, Rests DEF PayoutLabels
<1>4. HandlerFits(x)
  BY Fields DEF HandlerFits, Handler
<1>5. handler' = [handler EXCEPT ![h] = x] /\ UNCHANGED disturbed
  BY <1>2 DEF Move, PayoutIInv, PayoutTyped
<1> HIDE DEF x
<1> QED BY <1>1, <1>2, <1>3, <1>4, <1>5, PlainSteps DEF PayoutIInv, PayoutTyped

(* A credit is booked. *)
LEMMA CreditBookStep == ASSUME PayoutIInv, NEW h \in Handlers, CreditBook(h) PROVE PayoutIInv'
<1> DEFINE x == [handler[h] EXCEPT !.at = "creditSave"]
<1>1. x \in Handler
  BY Fields, HandlerAt, Rests DEF PayoutLabels
<1>2. HandlerFits(x)
  BY Fields DEF HandlerFits, Handler
<1>3. /\ handler' = [handler EXCEPT ![h] = x] /\ UNCHANGED <<wallet, request, debits, disturbed>>
      /\ credits' \in Nat
  BY DEF CreditBook, Move, PayoutIInv, PayoutTyped
<1> HIDE DEF x
<1> QED BY <1>1, <1>2, <1>3, PlainSteps DEF PayoutIInv, PayoutTyped

-----------------------------------------------------------------------------
(* A request is made, unless its key is no longer new. *)
LEMMA InsertStep ==
  ASSUME PayoutIInv, NEW h \in Handlers, NEW r \in Requests, InsertRequest(h, r) PROVE PayoutIInv'
<1>1. CASE Known(handler[h].key)
  BY <1>1, HandlerEnds DEF InsertRequest, Done, PayoutIInv, PayoutTyped
<1>2. CASE ~Known(handler[h].key)
  <2>3. PICK x \in Handler : x = [handler[h] EXCEPT !.at = "createLock"]
    BY Fields, HandlerAt, Rests DEF PayoutLabels
  <2> DEFINE new == [status |-> "PENDING", amount |-> handler[h].amount, key |-> handler[h].key]
  <2>1. /\ request[r].status = "none" /\ handler[h].at = "createInsert"
        /\ request' = [request EXCEPT ![r] = new] /\ handler' = [handler EXCEPT ![h] = x]
        /\ UNCHANGED <<wallet, credits, debits, disturbed>>
    BY <1>2, <2>3 DEF InsertRequest, Move, In, PayoutIInv, PayoutTyped
  <2>2. new \in Request /\ new.status = "PENDING" /\ new.key = handler[h].key
    BY Fields DEF Request
  <2>4. x.for = handler[h].for /\ x.at = "createLock" /\ x.doc = handler[h].doc /\ x.amount = handler[h].amount
    BY <2>3, Fields DEF Handler
  <2> HIDE DEF new
  <2>5. request' \in [Requests -> Request]
    BY <2>1, <2>2 DEF PayoutIInv, PayoutTyped
  <2>6. PayoutsOnwards
    BY <2>1, <2>2 DEF PayoutsOnwards, PayoutIInv, PayoutTyped
  <2>7. HandlerFits(x)'
    <3>1. \A q \in handler[h].for : request'[q].status # "none"
      BY <2>6, Fields DEF HandlerFits, PayoutsOnwards
    <3>2. x.doc.available >= x.amount
      BY <2>1, <2>4, Fields DEF HandlerFits
    <3> QED BY <2>4, <3>1, <3>2 DEF HandlerFits
  <2>8. PaidIsDebited'
    BY <2>1, <2>2 DEF PayoutIInv, PayoutTyped, PaidIsDebited
  <2>9. OneRequestPerKey'
    <3> SUFFICES ASSUME NEW p \in Requests, NEW q \in Requests, p # q, request'[p].status # "none",
                        request'[q].status # "none"
                 PROVE  request'[p].key = NoKey \/ request'[p].key # request'[q].key
      BY DEF OneRequestPerKey
    <3>1. \A g \in Requests : request'[g] = IF g = r THEN new ELSE request[g]
      BY <2>1 DEF PayoutIInv, PayoutTyped
    <3>2. \/ handler[h].key = NoKey
          \/ \A g \in Requests : request[g].status # "none" => request[g].key # handler[h].key
      BY <1>2 DEF Known
    <3>3. CASE p # r /\ q # r
      BY <3>1, <3>3 DEF PayoutIInv, OneRequestPerKey
    <3>4. CASE p = r \/ q = r
      BY <2>2, <3>1, <3>2, <3>4
    <3> QED BY <3>3, <3>4
  <2> QED BY <2>1, <2>5, <2>6, <2>7, <2>8, <2>9, HandlerMoves DEF PayoutIInv, PayoutTyped
<1> QED BY <1>1, <1>2

(* A debit is booked. *)
LEMMA PayBookStep == ASSUME PayoutIInv, NEW h \in Handlers, PayBook(h) PROVE PayoutIInv'
<1>2. PICK x \in Handler : x = [handler[h] EXCEPT !.at = "paySave"]
  BY Fields, HandlerAt, Rests DEF PayoutLabels
<1>1. /\ handler[h].at = "payBook" /\ handler' = [handler EXCEPT ![h] = x]
      /\ debits' = [r \in Requests |-> IF r \in handler[h].for THEN debits[r] + 1 ELSE debits[r]]
      /\ UNCHANGED <<wallet, request, credits, disturbed>>
  BY <1>2 DEF PayBook, Move, In, PayoutIInv, PayoutTyped
<1>3. x.for = handler[h].for /\ x.at = "paySave"
  BY <1>2, Fields DEF Handler
<1>4. debits' \in [Requests -> Nat] /\ PayoutsOnwards
  BY <1>1 DEF PayoutIInv, PayoutTyped, PayoutsOnwards
<1>5. HandlerFits(x)'
  <2>1. ASSUME NEW r \in x.for PROVE request'[r].status # "none" /\ debits'[r] > 0
    <3>1. r \in Requests /\ r \in handler[h].for /\ debits[r] \in Nat
      BY <1>3, <2>1, Fields DEF PayoutIInv, PayoutTyped
    <3>2. debits'[r] = debits[r] + 1
      BY <1>1, <3>1
    <3> QED BY <1>1, <3>1, <3>2, Fields DEF HandlerFits
  <2> QED BY <1>3, <2>1 DEF HandlerFits
<1>6. PaidIsDebited'
  <2> SUFFICES ASSUME NEW r \in Requests, request[r].status = "PAID" PROVE debits'[r] > 0
    BY <1>1 DEF PaidIsDebited
  <2>1. debits[r] > 0 /\ debits[r] \in Nat /\ debits'[r] \in {debits[r], debits[r] + 1}
    BY <1>1 DEF PayoutIInv, PayoutTyped, PaidIsDebited
  <2> QED BY <2>1
<1>7. OneRequestPerKey'
  BY <1>1 DEF PayoutIInv, OneRequestPerKey
<1> QED BY <1>1, <1>4, <1>5, <1>6, <1>7, HandlerMoves DEF PayoutIInv, PayoutTyped

(* A request gets its new status. *)
LEMMA ConcludeStep ==
  ASSUME PayoutIInv, NEW h \in Handlers, ApproveSave(h) \/ RejectSave(h) \/ PaySave(h) PROVE PayoutIInv'
<1>1. PICK status \in {"APPROVED", "REJECTED", "PAID"} :
        /\ request' = [r \in Requests |-> IF r \in handler[h].for
                                          THEN [request[r] EXCEPT !.status = status] ELSE request[r]]
        /\ handler' = [handler EXCEPT ![h] = Resting]
        /\ status = "PAID" => handler[h].at = "paySave"
        /\ UNCHANGED <<wallet, credits, debits, disturbed>>
  BY DEF ApproveSave, RejectSave, PaySave, Conclude, Done, In
<1>2. \A r \in Requests : /\ request'[r] \in Request /\ request'[r].key = request[r].key
                          /\ request'[r].status = IF r \in handler[h].for THEN status ELSE request[r].status
  BY <1>1 DEF PayoutIInv, PayoutTyped, Request
<1>3. request' \in [Requests -> Request]
  BY <1>1, <1>2
<1>4. \A r \in Requests : r \in handler[h].for => request[r].status # "none"
                                                  /\ (handler[h].at = "paySave" => debits[r] > 0)
  BY Fields DEF HandlerFits
<1>5. PayoutsOnwards
  BY <1>1, <1>2 DEF PayoutsOnwards, PayoutIInv, PayoutTyped
<1>6. PaidIsDebited'
  BY <1>1, <1>2, <1>4 DEF PayoutIInv, PaidIsDebited
<1>7. OneRequestPerKey'
  BY <1>2, <1>4 DEF PayoutIInv, OneRequestPerKey
<1>8. HandlerFits(Resting)'
  BY Rests DEF HandlerFits
<1> QED BY <1>1, <1>3, <1>5, <1>6, <1>7, <1>8, Rests, HandlerMoves DEF PayoutIInv, PayoutTyped

-----------------------------------------------------------------------------
(* Every step keeps the invariant. *)
LEMMA PayoutStepIInv == PayoutIInv /\ [PayoutNext]_payoutVars => PayoutIInv'
<1> SUFFICES ASSUME PayoutIInv, [PayoutNext]_payoutVars PROVE PayoutIInv'
  OBVIOUS
<1>1. CASE UNCHANGED payoutVars
  BY <1>1 DEF payoutVars, PayoutIInv, PayoutTyped, AllHandlersFit, HandlerFits, PaidIsDebited, OneRequestPerKey
<1>2. ASSUME NEW h \in Handlers, Break(h) PROVE PayoutIInv'
  BY <1>2, HandlerEnds DEF Break
<1> QED BY <1>1, <1>2, CreditStartStep, CreditBookStep, CreditSaveStep, CreateStartStep, WalletLoads,
           CreateLockStep, InsertStep, DecideStep, ConcludeStep, UnlockStep, PayBookStep DEF PayoutNext

(* The invariant that carries the others.                                  *)
THEOREM PayoutInductive == PayoutSpec => []PayoutIInv
<1> QED BY PayoutInitIInv, PayoutStepIInv, PTL DEF PayoutSpec

(* The wallet, the requests and what handlers carry keep their types.      *)
THEOREM PayoutTypeCorrect == PayoutSpec => []PayoutTypeOK
<1>1. PayoutIInv => PayoutTypeOK
  BY DEF PayoutIInv, PayoutTyped, PayoutTypeOK, Balances, Handler, Request
<1> QED BY <1>1, PayoutInductive, PTL

(* Neither balance is ever negative, however handlers overlap or fail.     *)
THEOREM NeitherBalanceNegative == PayoutSpec => []NeverOverdrawn
<1>1. PayoutIInv => NeverOverdrawn
  BY DEF PayoutIInv, PayoutTyped, NeverOverdrawn, Balances
<1> QED BY <1>1, PayoutInductive, PTL

(* A request that says PAID has its debit among the transactions.          *)
THEOREM PaidAreDebited == PayoutSpec => []PaidIsDebited
<1>1. PayoutIInv => PaidIsDebited
  BY DEF PayoutIInv
<1> QED BY <1>1, PayoutInductive, PTL

(* An idempotencyKey belongs to at most one request.                       *)
THEOREM KeysAreUnique == PayoutSpec => []OneRequestPerKey
<1>1. PayoutIInv => OneRequestPerKey
  BY DEF PayoutIInv
<1> QED BY <1>1, PayoutInductive, PTL

-----------------------------------------------------------------------------
(* The books, while one handler runs at a time and none fails.             *)
Open == InStatus({"PENDING", "APPROVED"})
PaidOut == InStatus({"PAID"})
Deciding == {"approveSave", "rejectWallet", "rejectUnlock", "rejectSave",
             "payWallet", "payUnlock", "payBook", "paySave"}

(* What the wallet has not locked of the open requests, and what it still  *)
(* owes to the earnings, while a handler is between its saves.             *)
Unlocked(x) == IF x.at \in {"createLock", "rejectSave", "payBook", "paySave"} THEN x.amount ELSE 0
Owed(x) == IF x.at = "creditSave" THEN Earnings
           ELSE IF x.at \in {"payBook", "paySave"} THEN x.amount ELSE 0

(* A handler about to save has the wallet as it stands, and the request it *)
(* decides on is as it found it.                                           *)
Current(x) ==
  /\ x.at \in {"creditBook", "creditSave", "createInsert", "createLock", "rejectUnlock", "payUnlock"} => x.doc = wallet
  /\ x.at \in Deciding => \E r \in Requests : /\ x.for = {r} /\ request[r].amount = x.amount
                                              /\ r \in Open
                                              /\ x.at = "approveSave" => request[r].status = "PENDING"

Balanced(x) ==
  /\ wallet.reserved = Sum(Open) - Unlocked(x)
  /\ wallet.available + wallet.reserved + Sum(PaidOut) = credits * Earnings - Owed(x)
Debited(x) ==
  \A r \in Requests : debits[r] = IF r \in PaidOut \/ (x.at = "paySave" /\ r \in x.for) THEN 1 ELSE 0
Books(x) == Current(x) /\ Balanced(x) /\ Debited(x)

Idles(h) == handler[h].at = "idle"
Alone(h) == \A g \in Handlers : g # h => Idles(g)
Accounts == ~disturbed => \/ (\A h \in Handlers : Idles(h)) /\ Books(Resting)
                          \/ \E h \in Handlers : ~Idles(h) /\ Alone(h) /\ Books(handler[h])

(* Requests that were made can be counted. *)
Made == {r \in Requests : request[r].status # "none"}
BooksInv == PayoutIInv /\ IsFiniteSet(Made) /\ Accounts

-----------------------------------------------------------------------------
(* A sum over some of the requests made. *)
LEMMA MadeFinite == ASSUME IsFiniteSet(Made)
                    PROVE  /\ IsFiniteSet(Open) /\ IsFiniteSet(PaidOut)
                           /\ Open \subseteq Made /\ PaidOut \subseteq Made
<1>1. Open \subseteq Made /\ PaidOut \subseteq Made
  BY DEF Open, PaidOut, InStatus, Made
<1> QED BY <1>1, FS_Subset

(* A sum of amounts is a number. *)
LEMMA SumTyped ==
  ASSUME PayoutIInv, NEW T \in SUBSET Requests, IsFiniteSet(T)
  PROVE  Sum(T) \in Nat /\ \A r \in T : request[r].amount <= Sum(T)
<1>1. PICK w : w = [r \in T |-> request[r].amount]
  OBVIOUS
<1>2. \A r \in T : w[r] \in Nat
  BY <1>1 DEF PayoutIInv, PayoutTyped, Request
<1>3. SumFunctionOnSet(w, T) \in Nat /\ \A r \in T : w[r] <= SumFunctionOnSet(w, T)
  BY <1>2, SumBounds
<1> QED BY <1>1, <1>3 DEF Sum

(* A request joins a sum ... *)
LEMMA SumJoins ==
  ASSUME PayoutIInv, NEW T \in SUBSET Requests, NEW U, NEW r \in Requests, IsFiniteSet(T), r \notin T, U = T \cup {r},
         \A q \in T : request'[q].amount = request[q].amount, request'[r].amount \in Nat
  PROVE  SumFunctionOnSet([q \in U |-> request'[q].amount], U) = Sum(T) + request'[r].amount
<1>1. PICK w : w = [q \in U |-> request'[q].amount]
  OBVIOUS
<1>2. PICK v : v = [q \in T |-> request[q].amount]
  OBVIOUS
<1>3. \A q \in T : w[q] = v[q] /\ v[q] \in Int
  BY <1>1, <1>2 DEF PayoutIInv, PayoutTyped, Request
<1>4. w[r] = request'[r].amount /\ w[r] \in Int
  BY <1>1
<1>5. SumFunctionOnSet(w, U) = SumFunctionOnSet(v, T) + w[r]
  <2>1. w[r] \in Int
    BY <1>4
  <2>2. IsFiniteSet(T) /\ r \in U /\ T = U \ {r}
    OBVIOUS
  <2> QED BY <1>3, <2>1, <2>2, SumInsert
<1> QED BY <1>1, <1>2, <1>4, <1>5 DEF Sum

(* ... or leaves it. *)
LEMMA SumLeaves ==
  ASSUME PayoutIInv, NEW T \in SUBSET Requests, NEW U, NEW r \in T, IsFiniteSet(T), U = T \ {r},
         \A q \in U : request'[q].amount = request[q].amount
  PROVE  SumFunctionOnSet([q \in U |-> request'[q].amount], U) = Sum(T) - request[r].amount
<1>1. PICK w : w = [q \in U |-> request'[q].amount]
  OBVIOUS
<1>2. PICK v : v = [q \in T |-> request[q].amount]
  OBVIOUS
<1>3. \A q \in T : v[q] \in Int
  BY <1>2 DEF PayoutIInv, PayoutTyped, Request
<1>4. SumFunctionOnSet(v, T) = v[r] + SumFunctionOnSet(v, U)
  BY <1>3, SumWithout
<1>5. \A q \in U : w[q] = v[q] /\ v[q] \in Int
  BY <1>1, <1>2, <1>3
<1>6. IsFiniteSet(U)
  BY FS_Subset
<1>7. SumFunctionOnSet(w, U) = SumFunctionOnSet(v, U)
  BY <1>5, <1>6, SumSame
<1>8. SumFunctionOnSet(v, U) \in Int
  BY <1>5, <1>6, SumWithout
<1>9. v[r] = request[r].amount /\ v[r] \in Int
  BY <1>2, <1>3
<1> QED BY <1>1, <1>2, <1>4, <1>7, <1>8, <1>9 DEF Sum

(* A sum over the same amounts. *)
LEMMA SumStays ==
  ASSUME NEW T, \A q \in T : request'[q].amount = request[q].amount
  PROVE  SumFunctionOnSet([q \in T |-> request'[q].amount], T) = Sum(T)
<1>1. [q \in T |-> request'[q].amount] = [q \in T |-> request[q].amount]
  OBVIOUS
<1> QED BY <1>1 DEF Sum

(* The two sums of the books afterwards. *)
LEMMA SumsThen ==
  ASSUME NEW U, NEW V, U = Open', V = PaidOut'
  PROVE  /\ Sum(Open)' = SumFunctionOnSet([q \in U |-> request'[q].amount], U)
         /\ Sum(PaidOut)' = SumFunctionOnSet([q \in V |-> request'[q].amount], V)
BY DEF Sum

-----------------------------------------------------------------------------
(* Who is at work, and what the books say of it. *)
LEMMA Working ==
  ASSUME BooksInv, ~disturbed, NEW h \in Handlers, ~Idles(h)
  PROVE  Alone(h) /\ Books(handler[h]) /\ handler[h] \in Handler
<1>1. handler[h] \in Handler
  BY DEF BooksInv, PayoutIInv, PayoutTyped
<1>2. PICK g \in Handlers : ~Idles(g) /\ Alone(g) /\ Books(handler[g])
  BY DEF BooksInv, Accounts
<1>3. g = h
  BY <1>2 DEF Alone
<1> QED BY <1>1, <1>2, <1>3

(* A handler begins with the books at rest. *)
LEMMA Begun ==
  ASSUME BooksInv, NEW h \in Handlers, NEW x, Start(h, x), ~disturbed'
  PROVE  Alone(h) /\ Books(Resting) /\ handler' = [handler EXCEPT ![h] = x] /\ Resting \in Handler
<1>1. ~disturbed /\ \A g \in Handlers : Idles(g)
  BY DEF Start, In, Idles, BooksInv, PayoutIInv, PayoutTyped
<1> QED BY <1>1, Rests DEF BooksInv, Accounts, Alone, Start

(* The books after a handler's step. *)
LEMMA Onto ==
  ASSUME BooksInv, NEW h \in Handlers, NEW x \in Handler, handler' = [handler EXCEPT ![h] = x],
         Alone(h), x = Resting \/ x.at # "idle", Books(x)'
  PROVE  Accounts'
<1>1. handler'[h] = x /\ \A g \in Handlers : g # h => handler'[g] = handler[g]
  BY DEF BooksInv, PayoutIInv, PayoutTyped
<1>2. Alone(h)'
  BY <1>1 DEF Alone, Idles
<1>3. CASE x = Resting
  <2>1. \A g \in Handlers : Idles(g)'
    BY <1>1, <1>2, <1>3, Rests DEF Alone, Idles
  <2>2. Books(Resting)'
    BY <1>3
  <2> QED BY <2>1, <2>2 DEF Accounts
<1>4. CASE x.at # "idle"
  <2>1. ~Idles(h)' /\ Books(handler[h])'
    <3>1. ~Idles(h)'
      BY <1>1, <1>4 DEF Idles
    <3>2. Books(handler[h])'
      BY <1>1 DEF Books, Current, Balanced, Debited, Unlocked, Owed
    <3> QED BY <3>1, <3>2
  <2> QED BY <1>2, <2>1 DEF Accounts
<1> QED BY <1>3, <1>4

(* A step that writes nothing. *)
LEMMA QuietBooks ==
  ASSUME BooksInv, NEW h \in Handlers, NEW x \in Handler, NEW y \in Handler,
         handler' = [handler EXCEPT ![h] = x], Alone(h), x = Resting \/ x.at # "idle",
         Books(y), Current(x)', Unlocked(x) = Unlocked(y), Owed(x) = Owed(y),
         x.at # "paySave", y.at # "paySave", UNCHANGED <<wallet, request, credits, debits>>
  PROVE  Accounts'
<1>1. /\ Open' = Open /\ PaidOut' = PaidOut /\ Sum(Open)' = Sum(Open) /\ Sum(PaidOut)' = Sum(PaidOut)
  BY DEF Open, PaidOut, InStatus, Sum
<1>2. Balanced(x)'
  <2>1. Unlocked(x)' = Unlocked(y) /\ Owed(x)' = Owed(y)
    BY DEF Unlocked, Owed
  <2> QED BY <1>1, <2>1 DEF Books, Balanced
<1>3. Debited(x)'
  BY <1>1 DEF Books, Debited
<1> QED BY <1>2, <1>3, Onto DEF Books

-----------------------------------------------------------------------------
(* The starts. *)
LEMMA CreditStartBooks == ASSUME BooksInv, NEW h \in Handlers, CreditStart(h) PROVE Accounts'
<1> SUFFICES ASSUME ~disturbed' PROVE Accounts'
  BY DEF Accounts
<1>1. PICK x \in Handler : x = [Resting EXCEPT !.at = "creditBook", !.doc = wallet]
  <2>1. wallet \in Balances
    BY DEF BooksInv, PayoutIInv, PayoutTyped
  <2> QED BY <2>1, Rests DEF PayoutLabels, Handler
<1>2. /\ Start(h, x) /\ UNCHANGED <<wallet, request, credits, debits>>
      /\ x.at = "creditBook" /\ x.doc = wallet
  BY <1>1, Rests DEF CreditStart, Handler
<1>3. Alone(h) /\ Books(Resting) /\ handler' = [handler EXCEPT ![h] = x] /\ Resting \in Handler
  BY <1>2, Begun
<1>4. Current(x)' /\ Unlocked(x) = Unlocked(Resting) /\ Owed(x) = Owed(Resting)
  BY <1>2, Rests DEF Current, Deciding, Unlocked, Owed
<1> QED BY <1>2, <1>3, <1>4, Rests, QuietBooks

(* The handlers read the wallet. *)
LEMMA CreateStartBooks ==
  ASSUME BooksInv, NEW h \in Handlers, NEW a \in Amounts, NEW k \in Keys \cup {NoKey}, CreateStart(h, a, k)
  PROVE  Accounts'
<1> SUFFICES ASSUME ~disturbed' PROVE Accounts'
  BY DEF Accounts
<1>1. PICK x \in Handler : x = [Resting EXCEPT !.at = "createWallet", !.amount = a, !.key = k]
  BY Rests, AmountAssumption DEF PayoutLabels, Handler
<1>2. /\ Start(h, x) /\ UNCHANGED <<wallet, request, credits, debits>> /\ x.at = "createWallet"
  BY <1>1, Rests DEF CreateStart, Handler
<1>3. Alone(h) /\ Books(Resting) /\ handler' = [handler EXCEPT ![h] = x] /\ Resting \in Handler
  BY <1>2, Begun
<1>4. Current(x)' /\ Unlocked(x) = Unlocked(Resting) /\ Owed(x) = Owed(Resting)
  BY <1>2, Rests DEF Current, Deciding, Unlocked, Owed
<1> QED BY <1>2, <1>3, <1>4, Rests, QuietBooks

LEMMA DecideBooks ==
  ASSUME BooksInv, NEW h \in Handlers, NEW r \in Requests, Approve(h, r) \/ Reject(h, r) \/ MarkPaid(h, r)
  PROVE  Accounts'
<1> SUFFICES ASSUME ~disturbed' PROVE Accounts'
  BY DEF Accounts
<1>1. PICK label \in {"approveSave", "rejectWallet", "payWallet"} :
        /\ request[r].status \in {"PENDING", "APPROVED"}
        /\ label = "approveSave" => request[r].status = "PENDING"
        /\ Start(h, [Resting EXCEPT !.at = label, !.for = {r}, !.amount = request[r].amount])
        /\ UNCHANGED <<wallet, request, credits, debits>>
  BY DEF Approve, Reject, MarkPaid, Decide
<1>2. request[r].amount \in Nat
  BY DEF BooksInv, PayoutIInv, PayoutTyped, Request
<1>3. PICK x \in Handler : x = [Resting EXCEPT !.at = label, !.for = {r}, !.amount = request[r].amount]
  BY <1>2, Rests DEF PayoutLabels, Handler
<1>4. Start(h, x) /\ x.at = label /\ x.for = {r} /\ x.amount = request[r].amount
  BY <1>1, <1>3, Rests DEF Handler
<1>5. Alone(h) /\ Books(Resting) /\ handler' = [handler EXCEPT ![h] = x] /\ Resting \in Handler
  BY <1>4, Begun
<1>6. Current(x)'
  <2>1. r \in Open' /\ request'[r].amount = x.amount /\ (x.at = "approveSave" => request'[r].status = "PENDING")
    BY <1>1, <1>4 DEF Open, InStatus
  <2>2. x.at \notin {"creditBook", "creditSave", "createInsert", "createLock", "rejectUnlock", "payUnlock"}
    BY <1>4
  <2> QED BY <1>4, <2>1, <2>2 DEF Current
<1>7. Unlocked(x) = Unlocked(Resting) /\ Owed(x) = Owed(Resting)
  BY <1>4, Rests DEF Unlocked, Owed
<1> QED BY <1>1, <1>4, <1>5, <1>6, <1>7, Rests, QuietBooks

(* A handler at work that goes on as x. *)
LEMMA GoneOn ==
  ASSUME BooksInv, ~disturbed, NEW h \in Handlers, ~Idles(h), NEW label \in PayoutLabels
  PROVE  \E x \in Handler : /\ x = [handler[h] EXCEPT !.at = label]
                            /\ x.at = label /\ x.for = handler[h].for /\ x.amount = handler[h].amount
                            /\ x.doc = handler[h].doc /\ x.amount \in Nat
<1>1. handler[h] \in Handler
  BY DEF BooksInv, PayoutIInv, PayoutTyped
<1>2. [handler[h] EXCEPT !.at = label] \in Handler
  BY <1>1 DEF Handler
<1> QED BY <1>1, <1>2 DEF Handler

(* A handler that ends without having written anything. *)
LEMMA EndBooks ==
  ASSUME BooksInv, ~disturbed, NEW h \in Handlers, ~Idles(h), handler' = [handler EXCEPT ![h] = Resting],
         handler[h].at \in {"createWallet", "createInsert"}, UNCHANGED <<wallet, request, credits, debits>>
  PROVE  Accounts'
<1>1. Alone(h) /\ Books(handler[h]) /\ handler[h] \in Handler
  BY Working
<1>2. Current(Resting)' /\ Unlocked(Resting) = Unlocked(handler[h]) /\ Owed(Resting) = Owed(handler[h])
  BY Rests DEF Current, Deciding, Unlocked, Owed
<1> QED BY <1>1, <1>2, Rests, QuietBooks

(* The wallet is loaded. *)
LEMMA LoadBooks ==
  ASSUME BooksInv, NEW h \in Handlers, CreateWallet(h) \/ RejectWallet(h) \/ PayWallet(h)
  PROVE  Accounts'
<1> SUFFICES ASSUME ~disturbed' PROVE Accounts'
  BY DEF Accounts
<1>1. /\ ~disturbed /\ ~Idles(h) /\ UNCHANGED <<wallet, request, credits, debits>>
  BY DEF CreateWallet, RejectWallet, PayWallet, Done, LoadWallet, In, Idles
<1>2. Alone(h) /\ Books(handler[h]) /\ handler[h] \in Handler
  BY <1>1, Working
<1>3. CASE CreateWallet(h) /\ wallet.available < handler[h].amount
  BY <1>1, <1>3, EndBooks DEF CreateWallet, Done, In
<1>4. ASSUME ~(CreateWallet(h) /\ wallet.available < handler[h].amount) PROVE Accounts'
  <2>1. PICK label \in {"createInsert", "rejectUnlock", "payUnlock"} :
          /\ LoadWallet(h, label)
          /\ handler[h].at = IF label = "createInsert" THEN "createWallet"
                             ELSE IF label = "rejectUnlock" THEN "rejectWallet" ELSE "payWallet"
    BY <1>4 DEF CreateWallet, RejectWallet, PayWallet, In
  <2>2. PICK x \in Handler : x = [handler[h] EXCEPT !.at = label, !.doc = wallet]
    <3>1. wallet \in Balances /\ label \in PayoutLabels
      BY DEF BooksInv, PayoutIInv, PayoutTyped, PayoutLabels
    <3> QED BY <1>2, <3>1, HandlerAt
  <2>3. /\ x.at = label /\ x.doc = wallet /\ x.for = handler[h].for /\ x.amount = handler[h].amount
    BY <1>2, <2>2 DEF Handler
  <2>4. handler' = [handler EXCEPT ![h] = x]
    BY <2>1, <2>2 DEF LoadWallet, BooksInv, PayoutIInv, PayoutTyped
  <2>5. Current(x)'
    <3>1. x.doc = wallet'
      BY <1>1, <2>3
    <3>2. ASSUME label # "createInsert"
          PROVE  \E r \in Requests : x.for = {r} /\ request'[r].amount = x.amount /\ r \in Open'
      <4>1. PICK r \in Requests : handler[h].for = {r} /\ request[r].amount = handler[h].amount /\ r \in Open
        BY <1>2, <2>1, <3>2 DEF Books, Current, Deciding
      <4>2. r \in Open'
        BY <1>1, <4>1 DEF Open, InStatus
      <4> QED BY <1>1, <2>3, <4>1, <4>2
    <3> QED BY <2>3, <3>1, <3>2 DEF Current, Deciding
  <2>6. Unlocked(x) = Unlocked(handler[h]) /\ Owed(x) = Owed(handler[h])
    BY <2>1, <2>3 DEF Unlocked, Owed
  <2> QED BY <1>1, <1>2, <2>1, <2>3, <2>4, <2>5, <2>6, QuietBooks
<1> QED BY <1>3, <1>4

(* What a save leaves in a wallet that nobody wrote since it was loaded.   *)
LEMMA Saved ==
  ASSUME NEW h \in Handlers, NEW a, NEW b, SaveWallet(h, a, b), handler[h].doc = wallet
  PROVE  wallet'.available = a /\ wallet'.reserved = b
BY DEF SaveWallet, Written

-----------------------------------------------------------------------------
(* An order is credited: its transaction, then the wallet. *)
LEMMA CreditBookBooks == ASSUME BooksInv, NEW h \in Handlers, CreditBook(h) PROVE Accounts'
<1> SUFFICES ASSUME ~disturbed' PROVE Accounts'
  BY DEF Accounts
<1>1. /\ ~disturbed /\ ~Idles(h) /\ handler[h].at = "creditBook" /\ UNCHANGED <<wallet, request, debits>>
      /\ credits' = credits + 1
  BY DEF CreditBook, Move, In, Idles
<1>2. Alone(h) /\ Books(handler[h])
  BY <1>1, Working
<1>3. PICK x \in Handler : x = [handler[h] EXCEPT !.at = "creditSave"] /\ x.at = "creditSave" /\ x.doc = handler[h].doc
  BY <1>1, GoneOn DEF PayoutLabels
<1>4. handler' = [handler EXCEPT ![h] = x]
  BY <1>3 DEF CreditBook, Move, BooksInv, PayoutIInv, PayoutTyped
<1>5. Open' = Open /\ PaidOut' = PaidOut /\ Sum(Open)' = Sum(Open) /\ Sum(PaidOut)' = Sum(PaidOut)
  BY <1>1 DEF Open, PaidOut, InStatus, Sum
<1>6. Current(x)'
  BY <1>1, <1>2, <1>3 DEF Books, Current, Deciding
<1>7. Balanced(x)'
  <2>1. /\ wallet.reserved = Sum(Open) - 0
        /\ wallet.available + wallet.reserved + Sum(PaidOut) = credits * Earnings - 0
    BY <1>1, <1>2 DEF Books, Balanced, Unlocked, Owed
  <2>2. credits \in Nat /\ Earnings \in Nat
    BY AmountAssumption DEF BooksInv, PayoutIInv, PayoutTyped
  <2>3. (credits + 1) * Earnings - Earnings = credits * Earnings /\ credits * Earnings \in Int
    BY <2>2
  <2>4. Unlocked(x)' = 0 /\ Owed(x)' = Earnings
    BY <1>3 DEF Unlocked, Owed
  <2>5. wallet'.reserved = Sum(Open)' - 0
    BY <1>1, <1>5, <2>1
  <2>6. wallet'.available + wallet'.reserved + Sum(PaidOut)' = credits' * Earnings - Earnings
    BY <1>1, <1>5, <2>1, <2>3
  <2> QED BY <2>4, <2>5, <2>6 DEF Balanced
<1>8. Debited(x)'
  BY <1>1, <1>2, <1>3, <1>5 DEF Books, Debited
<1> QED BY <1>2, <1>3, <1>4, <1>6, <1>7, <1>8, Onto DEF Books

(* The earnings arrive in the wallet. *)
LEMMA CreditSaveBooks == ASSUME BooksInv, NEW h \in Handlers, CreditSave(h) PROVE Accounts'
<1> SUFFICES ASSUME ~disturbed' PROVE Accounts'
  BY DEF Accounts
<1>1. /\ ~disturbed /\ ~Idles(h) /\ handler[h].at = "creditSave" /\ UNCHANGED <<request, credits, debits>>
      /\ handler' = [handler EXCEPT ![h] = Resting]
  BY DEF CreditSave, Done, In, Idles
<1>2. Alone(h) /\ Books(handler[h])
  BY <1>1, Working
<1>3. wallet'.available = wallet.available + Earnings /\ wallet'.reserved = wallet.reserved
  <2>1. handler[h].doc = wallet
    BY <1>1, <1>2 DEF Books, Current
  <2> QED BY <2>1, Saved DEF CreditSave
<1>4. Open' = Open /\ PaidOut' = PaidOut /\ Sum(Open)' = Sum(Open) /\ Sum(PaidOut)' = Sum(PaidOut)
  BY <1>1 DEF Open, PaidOut, InStatus, Sum
<1>5. Current(Resting)'
  BY Rests DEF Current, Deciding
<1>6. Balanced(Resting)'
  <2>1. /\ wallet.reserved = Sum(Open) - 0
        /\ wallet.available + wallet.reserved + Sum(PaidOut) = credits * Earnings - Earnings
    BY <1>1, <1>2 DEF Books, Balanced, Unlocked, Owed
  <2>2. credits * Earnings \in Int /\ Earnings \in Nat /\ wallet.available \in Nat /\ wallet.reserved \in Nat
    BY AmountAssumption DEF BooksInv, PayoutIInv, PayoutTyped, Balances
  <2>3. Sum(PaidOut) \in Nat
    BY MadeFinite, SumTyped DEF BooksInv, PaidOut, InStatus
  <2>4. Unlocked(Resting)' = 0 /\ Owed(Resting)' = 0
    BY Rests DEF Unlocked, Owed
  <2>5. PICK c \in Int : c = credits * Earnings
    BY <2>2
  <2>6. wallet'.available + wallet'.reserved + Sum(PaidOut)' = c - 0
    BY <1>3, <1>4, <2>1, <2>2, <2>3, <2>5
  <2> QED BY <1>1, <1>3, <1>4, <2>1, <2>4, <2>5, <2>6 DEF Balanced
<1>7. Debited(Resting)'
  BY <1>1, <1>2, <1>4, Rests DEF Books, Debited
<1> QED BY <1>1, <1>2, <1>5, <1>6, <1>7, Rests, Onto DEF Books

-----------------------------------------------------------------------------
(* A request is made, and then its amount is locked. *)
LEMMA InsertBooks == ASSUME BooksInv, NEW h \in Handlers, NEW r \in Requests, InsertRequest(h, r) PROVE Accounts'
<1> SUFFICES ASSUME ~disturbed' PROVE Accounts'
  BY DEF Accounts
<1>1. /\ ~disturbed /\ ~Idles(h) /\ handler[h].at = "createInsert" /\ UNCHANGED <<wallet, credits, debits>>
      /\ request[r].status = "none"
  BY DEF InsertRequest, Done, Move, In, Idles
<1>2. Alone(h) /\ Books(handler[h]) /\ handler[h] \in Handler
  BY <1>1, Working
<1>3. CASE Known(handler[h].key)
  BY <1>1, <1>3, EndBooks DEF InsertRequest, Done
<1>4. CASE ~Known(handler[h].key)
  <2>1. PICK x \in Handler : /\ x = [handler[h] EXCEPT !.at = "createLock"] /\ x.at = "createLock"
                             /\ x.doc = handler[h].doc /\ x.amount = handler[h].amount /\ x.amount \in Nat
    BY <1>1, GoneOn DEF PayoutLabels
  <2>2. PICK new : new = [status |-> "PENDING", amount |-> handler[h].amount, key |-> handler[h].key]
    OBVIOUS
  <2>3. handler' = [handler EXCEPT ![h] = x] /\ request' = [request EXCEPT ![r] = new]
    BY <1>4, <2>1, <2>2 DEF InsertRequest, Move, BooksInv, PayoutIInv, PayoutTyped
  <2>4. request'[r] = new /\ \A q \in Requests : q # r => request'[q] = request[q]
    BY <2>3 DEF BooksInv, PayoutIInv, PayoutTyped
  <2>5. new.status = "PENDING" /\ new.amount = x.amount
    BY <2>1, <2>2
  <2>6. PICK U, V : U = Open' /\ V = PaidOut'
    OBVIOUS
  <2>7. U = Open \cup {r} /\ r \notin Open /\ V = PaidOut /\ r \notin PaidOut
    BY <1>1, <2>4, <2>5, <2>6 DEF Open, PaidOut, InStatus
  <2>8. Sum(Open)' = Sum(Open) + x.amount
    <3>1. Open \in SUBSET Requests /\ IsFiniteSet(Open) /\ \A q \in Open : request'[q].amount = request[q].amount
      BY <2>4, <2>7, MadeFinite DEF BooksInv, Open, InStatus
    <3>2. request'[r].amount \in Nat /\ request'[r].amount = x.amount
      BY <2>1, <2>4, <2>5
    <3>3. SumFunctionOnSet([q \in U |-> request'[q].amount], U) = Sum(Open) + request'[r].amount
      BY <2>7, <3>1, <3>2, SumJoins DEF BooksInv
    <3> QED BY <2>6, <3>2, <3>3, SumsThen
  <2>9. Sum(PaidOut)' = Sum(PaidOut)
    <3>1. \A q \in V : request'[q].amount = request[q].amount
      BY <2>4, <2>7 DEF PaidOut, InStatus
    <3> QED BY <2>6, <2>7, <3>1, SumStays, SumsThen
  <2>10. Current(x)'
    BY <1>1, <1>2, <2>1 DEF Books, Current, Deciding
  <2>11. Balanced(x)'
    <3>1. /\ wallet.reserved = Sum(Open) - 0
          /\ wallet.available + wallet.reserved + Sum(PaidOut) = credits * Earnings - 0
      BY <1>1, <1>2 DEF Books, Balanced, Unlocked, Owed
    <3>2. Sum(Open) \in Nat
      BY MadeFinite, SumTyped DEF BooksInv, Open, InStatus
    <3>3. Unlocked(x)' = x.amount /\ Owed(x)' = 0
      BY <2>1 DEF Unlocked, Owed
    <3>4. wallet'.reserved = Sum(Open)' - x.amount
      BY <1>1, <2>1, <2>8, <3>1, <3>2
    <3> QED BY <1>1, <2>9, <3>1, <3>3, <3>4 DEF Balanced
  <2>12. Debited(x)'
    <3>1. \A q \in Requests : q \in PaidOut' <=> q \in PaidOut
      BY <2>6, <2>7
    <3> QED BY <1>1, <1>2, <2>1, <3>1 DEF Books, Debited
  <2> QED BY <1>2, <2>1, <2>3, <2>10, <2>11, <2>12, Onto DEF Books
<1> QED BY <1>3, <1>4

(* The amount is locked. *)
LEMMA CreateLockBooks == ASSUME BooksInv, NEW h \in Handlers, CreateLock(h) PROVE Accounts'
<1> SUFFICES ASSUME ~disturbed' PROVE Accounts'
  BY DEF Accounts
<1>1. /\ ~disturbed /\ ~Idles(h) /\ handler[h].at = "createLock" /\ UNCHANGED <<request, credits, debits>>
      /\ handler' = [handler EXCEPT ![h] = Resting]
  BY DEF CreateLock, Done, In, Idles
<1>2. Alone(h) /\ Books(handler[h]) /\ handler[h] \in Handler
  BY <1>1, Working
<1>3. PICK a : a = handler[h].amount
  OBVIOUS
<1>4. wallet'.available = wallet.available - a /\ wallet'.reserved = wallet.reserved + a
  <2>1. handler[h].doc = wallet
    BY <1>1, <1>2 DEF Books, Current
  <2>2. SaveWallet(h, wallet.available - a, wallet.reserved + a)
    BY <1>3, <2>1 DEF CreateLock
  <2> QED BY <2>1, <2>2, Saved
<1>5. Open' = Open /\ PaidOut' = PaidOut /\ Sum(Open)' = Sum(Open) /\ Sum(PaidOut)' = Sum(PaidOut)
  BY <1>1 DEF Open, PaidOut, InStatus, Sum
<1>6. Current(Resting)'
  BY Rests DEF Current, Deciding
<1>7. Balanced(Resting)'
  <2>1. /\ wallet.reserved = Sum(Open) - a
        /\ wallet.available + wallet.reserved + Sum(PaidOut) = credits * Earnings - 0
    BY <1>1, <1>2, <1>3 DEF Books, Balanced, Unlocked, Owed
  <2>2. a \in Nat /\ wallet.available \in Nat /\ wallet.reserved \in Nat
    BY <1>2, <1>3 DEF BooksInv, PayoutIInv, PayoutTyped, Balances, Handler
  <2>3. Sum(PaidOut) \in Nat /\ Sum(Open) \in Nat
    BY MadeFinite, SumTyped DEF BooksInv, PaidOut, Open, InStatus
  <2>4. Unlocked(Resting)' = 0 /\ Owed(Resting)' = 0
    BY Rests DEF Unlocked, Owed
  <2>5. wallet'.reserved = Sum(Open) - 0
    BY <1>4, <2>1, <2>2, <2>3
  <2>6. wallet'.available + wallet'.reserved + Sum(PaidOut) = wallet.available + wallet.reserved + Sum(PaidOut)
    BY <1>4, <2>2, <2>3
  <2> QED BY <1>1, <1>5, <2>1, <2>4, <2>5, <2>6 DEF Balanced
<1>8. Debited(Resting)'
  BY <1>1, <1>2, <1>5, Rests DEF Books, Debited
<1> QED BY <1>1, <1>2, <1>6, <1>7, <1>8, Rests, Onto DEF Books

-----------------------------------------------------------------------------
(* A decision: the request it is about. *)
LEMMA Decided ==
  ASSUME BooksInv, NEW h \in Handlers, ~disturbed, handler[h].at \in Deciding
  PROVE  \E r \in Requests : handler[h].for = {r} /\ request[r].amount = handler[h].amount /\ r \in Open
<1>1. ~Idles(h)
  BY DEF Idles, Deciding
<1> QED BY <1>1, Working DEF Books, Current

(* A rejection gives the amount back to the wallet, a payment takes it out. *)
LEMMA UnlockBooks ==
  ASSUME BooksInv, NEW h \in Handlers, RejectUnlock(h) \/ PayUnlock(h) PROVE Accounts'
<1> SUFFICES ASSUME ~disturbed' PROVE Accounts'
  BY DEF Accounts
<1>1. PICK label \in {"rejectSave", "payBook"} :
        /\ handler[h].at = IF label = "rejectSave" THEN "rejectUnlock" ELSE "payUnlock"
        /\ SaveWallet(h, IF label = "rejectSave" THEN handler[h].doc.available + handler[h].amount
                         ELSE handler[h].doc.available,
                      Less(handler[h].doc.reserved, handler[h].amount))
        /\ Move(h, label) /\ UNCHANGED <<request, credits, debits>>
  BY DEF RejectUnlock, PayUnlock, In
<1>2. ~disturbed /\ ~Idles(h) /\ handler[h].at \in Deciding
  BY <1>1 DEF Move, Idles, Deciding
<1>3. Alone(h) /\ Books(handler[h]) /\ handler[h] \in Handler
  BY <1>2, Working
<1>4. PICK r \in Requests : handler[h].for = {r} /\ request[r].amount = handler[h].amount /\ r \in Open
  BY <1>2, Decided
<1>5. PICK x \in Handler : /\ x = [handler[h] EXCEPT !.at = label] /\ x.at = label /\ x.for = handler[h].for
                           /\ x.amount = handler[h].amount /\ x.amount \in Nat
  BY <1>2, GoneOn DEF PayoutLabels
<1>6. handler' = [handler EXCEPT ![h] = x]
  BY <1>1, <1>5 DEF Move, BooksInv, PayoutIInv, PayoutTyped
<1>7. Open' = Open /\ PaidOut' = PaidOut /\ Sum(Open)' = Sum(Open) /\ Sum(PaidOut)' = Sum(PaidOut)
  BY <1>1 DEF Open, PaidOut, InStatus, Sum
<1>8. /\ wallet.reserved = Sum(Open) - 0
      /\ wallet.available + wallet.reserved + Sum(PaidOut) = credits * Earnings - 0
  BY <1>1, <1>3 DEF Books, Balanced, Unlocked, Owed
<1>9. Sum(PaidOut) \in Nat /\ Sum(Open) \in Nat /\ x.amount <= Sum(Open)
  <2>1. PaidOut \in SUBSET Requests /\ Open \in SUBSET Requests
    BY DEF PaidOut, Open, InStatus
  <2> QED BY <1>4, <1>5, <2>1, MadeFinite, SumTyped DEF BooksInv
<1>10. wallet.available \in Nat /\ wallet.reserved \in Nat
  BY DEF BooksInv, PayoutIInv, PayoutTyped, Balances
<1>11. Less(wallet.reserved, x.amount) = wallet.reserved - x.amount
  BY <1>5, <1>8, <1>9, <1>10 DEF Less
<1>12. /\ wallet'.reserved = wallet.reserved - x.amount
       /\ wallet'.available = IF label = "rejectSave" THEN wallet.available + x.amount ELSE wallet.available
  <2>1. handler[h].doc = wallet
    BY <1>1, <1>3 DEF Books, Current
  <2>2. SaveWallet(h, IF label = "rejectSave" THEN wallet.available + x.amount ELSE wallet.available,
                   Less(wallet.reserved, x.amount))
    BY <1>1, <1>5, <2>1
  <2> QED BY <1>11, <2>1, <2>2, Saved
<1>13. Current(x)'
  <2>1. x.for = {r} /\ request'[r].amount = x.amount /\ r \in Open'
    BY <1>1, <1>4, <1>5, <1>7
  <2> QED BY <1>5, <2>1 DEF Current
<1>14. Balanced(x)'
  <2>1. Unlocked(x)' = x.amount /\ Owed(x)' = IF label = "payBook" THEN x.amount ELSE 0
    BY <1>5 DEF Unlocked, Owed
  <2>2. wallet'.reserved = Sum(Open)' - x.amount
    BY <1>5, <1>7, <1>8, <1>9, <1>12
  <2>3. wallet'.available + wallet'.reserved + Sum(PaidOut)'
          = credits' * Earnings - (IF label = "payBook" THEN x.amount ELSE 0)
    <3>1. PICK c : c = credits * Earnings
      OBVIOUS
    <3>2. credits * Earnings \in Int
      BY AmountAssumption DEF BooksInv, PayoutIInv, PayoutTyped
    <3>3. c \in Int /\ wallet.available + wallet.reserved + Sum(PaidOut) = c - 0
      BY <1>8, <3>1, <3>2
    <3>4. CASE label = "payBook"
      <4>1. wallet'.available + wallet'.reserved + Sum(PaidOut) = c - x.amount
        BY <1>5, <1>9, <1>10, <1>12, <3>3, <3>4
      <4> QED BY <1>1, <1>7, <3>1, <3>4, <4>1
    <3>5. CASE label = "rejectSave"
      <4>1. wallet'.available + wallet'.reserved + Sum(PaidOut) = c - 0
        BY <1>5, <1>9, <1>10, <1>12, <3>3, <3>5
      <4> QED BY <1>1, <1>7, <3>1, <3>5, <4>1
    <3> QED BY <3>4, <3>5
  <2> QED BY <2>1, <2>2, <2>3 DEF Balanced
<1>15. Debited(x)'
  BY <1>1, <1>3, <1>5, <1>7 DEF Books, Debited
<1> QED BY <1>3, <1>5, <1>6, <1>13, <1>14, <1>15, Onto DEF Books

(* The debit is booked. *)
LEMMA PayBookBooks == ASSUME BooksInv, NEW h \in Handlers, PayBook(h) PROVE Accounts'
<1> SUFFICES ASSUME ~disturbed' PROVE Accounts'
  BY DEF Accounts
<1>1. /\ ~disturbed /\ ~Idles(h) /\ handler[h].at = "payBook" /\ UNCHANGED <<wallet, request, credits>>
      /\ debits' = [r \in Requests |-> IF r \in handler[h].for THEN debits[r] + 1 ELSE debits[r]]
  BY DEF PayBook, Move, In, Idles
<1>2. Alone(h) /\ Books(handler[h])
  BY <1>1, Working
<1>3. PICK r \in Requests : handler[h].for = {r} /\ request[r].amount = handler[h].amount /\ r \in Open
  BY <1>1, Decided DEF Deciding
<1>4. PICK x \in Handler : /\ x = [handler[h] EXCEPT !.at = "paySave"] /\ x.at = "paySave"
                           /\ x.for = handler[h].for /\ x.amount = handler[h].amount
  BY <1>1, GoneOn DEF PayoutLabels
<1>5. handler' = [handler EXCEPT ![h] = x]
  BY <1>4 DEF PayBook, Move, BooksInv, PayoutIInv, PayoutTyped
<1>6. Open' = Open /\ PaidOut' = PaidOut /\ Sum(Open)' = Sum(Open) /\ Sum(PaidOut)' = Sum(PaidOut)
  BY <1>1 DEF Open, PaidOut, InStatus, Sum
<1>7. Current(x)'
  <2>1. x.for = {r} /\ request'[r].amount = x.amount /\ r \in Open'
    BY <1>1, <1>3, <1>4, <1>6
  <2> QED BY <1>4, <2>1 DEF Current
<1>8. Balanced(x)'
  <2>1. Unlocked(x)' = Unlocked(handler[h]) /\ Owed(x)' = Owed(handler[h])
    BY <1>1, <1>4 DEF Unlocked, Owed
  <2> QED BY <1>1, <1>2, <1>6, <2>1 DEF Books, Balanced
<1>9. Debited(x)'
  <2> SUFFICES ASSUME NEW q \in Requests
               PROVE  debits'[q] = IF q \in PaidOut' \/ (x.at = "paySave" /\ q \in x.for) THEN 1 ELSE 0
    BY DEF Debited
  <2>1. debits[q] = IF q \in PaidOut THEN 1 ELSE 0
    BY <1>1, <1>2 DEF Books, Debited
  <2>2. q = r => q \notin PaidOut
    BY <1>3 DEF Open, PaidOut, InStatus
  <2>3. debits'[q] = IF q = r THEN debits[q] + 1 ELSE debits[q]
    BY <1>1, <1>3
  <2> QED BY <1>3, <1>4, <1>6, <2>1, <2>2, <2>3
<1> QED BY <1>2, <1>4, <1>5, <1>7, <1>8, <1>9, Onto DEF Books

(* A decision is written to its request. *)
LEMMA ConcludeBooks ==
  ASSUME BooksInv, NEW h \in Handlers, ApproveSave(h) \/ RejectSave(h) \/ PaySave(h) PROVE Accounts'
<1> SUFFICES ASSUME ~disturbed' PROVE Accounts'
  BY DEF Accounts
<1>1. PICK status \in {"APPROVED", "REJECTED", "PAID"} :
        /\ request' = [r \in Requests |-> IF r \in handler[h].for
                                          THEN [request[r] EXCEPT !.status = status] ELSE request[r]]
        /\ handler' = [handler EXCEPT ![h] = Resting]
        /\ handler[h].at = IF status = "APPROVED" THEN "approveSave"
                           ELSE IF status = "REJECTED" THEN "rejectSave" ELSE "paySave"
        /\ UNCHANGED <<wallet, credits, debits, disturbed>>
  BY DEF ApproveSave, RejectSave, PaySave, Conclude, Done, In
<1>2. ~disturbed /\ ~Idles(h) /\ handler[h].at \in Deciding
  BY <1>1 DEF Idles, Deciding
<1>3. Alone(h) /\ Books(handler[h])
  BY <1>2, Working
<1>4. PICK r \in Requests : /\ handler[h].for = {r} /\ request[r].amount = handler[h].amount /\ r \in Open
                            /\ handler[h].at = "approveSave" => request[r].status = "PENDING"
  BY <1>2, <1>3 DEF Books, Current
<1>5. \A q \in Requests : /\ request'[q].amount = request[q].amount
                          /\ request'[q].status = IF q = r THEN status ELSE request[q].status
  BY <1>1, <1>4 DEF BooksInv, PayoutIInv, PayoutTyped, Request
<1>6. PICK U, V : U = Open' /\ V = PaidOut'
  OBVIOUS
<1>7. /\ U = IF status = "APPROVED" THEN Open ELSE Open \ {r}
      /\ V = IF status = "PAID" THEN PaidOut \cup {r} ELSE PaidOut
      /\ r \notin PaidOut /\ Open \in SUBSET Requests /\ PaidOut \in SUBSET Requests
  BY <1>4, <1>5, <1>6 DEF Open, PaidOut, InStatus
<1>8. IsFiniteSet(Open) /\ IsFiniteSet(PaidOut)
  BY MadeFinite DEF BooksInv
<1>9. PICK a \in Nat : a = handler[h].amount
  BY DEF BooksInv, PayoutIInv, PayoutTyped, Handler
<1>10. Sum(Open)' = IF status = "APPROVED" THEN Sum(Open) ELSE Sum(Open) - a
  <2>1. \A q \in U : request'[q].amount = request[q].amount
    BY <1>5, <1>7
  <2>2. CASE status = "APPROVED"
    <3>1. SumFunctionOnSet([q \in U |-> request'[q].amount], U) = Sum(U) /\ U = Open
      BY <1>7, <2>1, <2>2, SumStays
    <3> QED BY <1>6, <2>2, <3>1, SumsThen
  <2>3. CASE status # "APPROVED"
    <3>1. U = Open \ {r} /\ r \in Open
      BY <1>4, <1>7, <2>3
    <3>2. SumFunctionOnSet([q \in U |-> request'[q].amount], U) = Sum(Open) - request[r].amount
      BY <1>7, <1>8, <2>1, <3>1, SumLeaves DEF BooksInv
    <3> QED BY <1>4, <1>6, <1>9, <2>3, <3>2, SumsThen
  <2> QED BY <2>2, <2>3
<1>11. Sum(PaidOut)' = IF status = "PAID" THEN Sum(PaidOut) + a ELSE Sum(PaidOut)
  <2>1. \A q \in PaidOut : request'[q].amount = request[q].amount
    BY <1>5, <1>7
  <2>2. CASE status # "PAID"
    <3>1. SumFunctionOnSet([q \in V |-> request'[q].amount], V) = Sum(V) /\ V = PaidOut
      BY <1>7, <2>1, <2>2, SumStays
    <3> QED BY <1>6, <2>2, <3>1, SumsThen
  <2>3. CASE status = "PAID"
    <3>1. V = PaidOut \cup {r} /\ r \notin PaidOut /\ request'[r].amount = a /\ request'[r].amount \in Nat
      BY <1>4, <1>5, <1>7, <1>9, <2>3
    <3>2. SumFunctionOnSet([q \in V |-> request'[q].amount], V) = Sum(PaidOut) + request'[r].amount
      BY <1>7, <1>8, <2>1, <3>1, SumJoins DEF BooksInv
    <3> QED BY <1>6, <2>3, <3>1, <3>2, SumsThen
  <2> QED BY <2>2, <2>3
<1>12. Current(Resting)'
  BY Rests DEF Current, Deciding
<1>13. Balanced(Resting)'
  <2>1. PICK c : c = credits * Earnings
    OBVIOUS
  <2>2. credits * Earnings \in Int
    BY AmountAssumption DEF BooksInv, PayoutIInv, PayoutTyped
  <2>3. c \in Int
    BY <2>1, <2>2
  <2>4. Sum(Open) \in Nat /\ Sum(PaidOut) \in Nat
    BY <1>7, <1>8, SumTyped DEF BooksInv
  <2>5. wallet.available \in Nat /\ wallet.reserved \in Nat
    BY DEF BooksInv, PayoutIInv, PayoutTyped, Balances
  <2>6. /\ wallet.reserved = Sum(Open) - (IF status = "APPROVED" THEN 0 ELSE a)
        /\ wallet.available + wallet.reserved + Sum(PaidOut) = c - (IF status = "PAID" THEN a ELSE 0)
    BY <1>1, <1>3, <1>9, <2>1 DEF Books, Balanced, Unlocked, Owed
  <2>7. wallet.reserved = Sum(Open)' - 0
    BY <1>9, <1>10, <2>4, <2>6
  <2>8. wallet.available + wallet.reserved + Sum(PaidOut)' = c - 0
    <3>1. CASE status = "PAID"
      BY <1>9, <1>11, <2>3, <2>4, <2>5, <2>6, <3>1
    <3>2. CASE status # "PAID"
      BY <1>9, <1>11, <2>3, <2>4, <2>5, <2>6, <3>2
    <3> QED BY <3>1, <3>2
  <2>9. Unlocked(Resting)' = 0 /\ Owed(Resting)' = 0
    BY Rests DEF Unlocked, Owed
  <2> QED BY <1>1, <2>1, <2>7, <2>8, <2>9 DEF Balanced
<1>14. Debited(Resting)'
  <2> SUFFICES ASSUME NEW q \in Requests PROVE debits'[q] = IF q \in PaidOut' THEN 1 ELSE 0
    BY Rests DEF Debited
  <2>1. debits[q] = IF q \in PaidOut \/ (status = "PAID" /\ q = r) THEN 1 ELSE 0
    BY <1>1, <1>3, <1>4 DEF Books, Debited
  <2> QED BY <1>1, <1>6, <1>7, <2>1
<1> QED BY <1>1, <1>3, <1>12, <1>13, <1>14, Rests, Onto DEF Books

-----------------------------------------------------------------------------
(* The requests made stay finite in number. *)
LEMMA MadeStep == ASSUME BooksInv, [PayoutNext]_payoutVars PROVE IsFiniteSet(Made')
<1>1. CASE UNCHANGED request
  BY <1>1 DEF Made, BooksInv
<1>2. ASSUME NEW h \in Handlers, NEW r \in Requests, InsertRequest(h, r) PROVE IsFiniteSet(Made')
  <2>1. Made' = Made \/ Made' = Made \cup {r}
    BY <1>2 DEF InsertRequest, Made, BooksInv, PayoutIInv, PayoutTyped
  <2> QED BY <2>1, FS_AddElement DEF BooksInv
<1>3. ASSUME NEW h \in Handlers, ApproveSave(h) \/ RejectSave(h) \/ PaySave(h) PROVE IsFiniteSet(Made')
  <2>1. PICK status \in {"APPROVED", "REJECTED", "PAID"} :
          request' = [r \in Requests |-> IF r \in handler[h].for
                                         THEN [request[r] EXCEPT !.status = status] ELSE request[r]]
    BY <1>3 DEF ApproveSave, RejectSave, PaySave, Conclude
  <2>2. \A r \in Requests : request'[r].status = IF r \in handler[h].for THEN status ELSE request[r].status
    BY <2>1 DEF BooksInv, PayoutIInv, PayoutTyped, Request
  <2>3. \A r \in handler[h].for : request[r].status # "none"
    BY Fields DEF BooksInv, HandlerFits
  <2>4. Made' = Made
    BY <2>2, <2>3 DEF Made
  <2> QED BY <2>4 DEF BooksInv
<1>4. ASSUME NEW h \in Handlers,
             \/ CreditStart(h) \/ CreditBook(h) \/ CreditSave(h) \/ CreateWallet(h) \/ CreateLock(h)
             \/ RejectWallet(h) \/ RejectUnlock(h) \/ PayWallet(h) \/ PayUnlock(h) \/ PayBook(h) \/ Break(h)
             \/ \E a \in Amounts, k \in Keys \cup {NoKey} : CreateStart(h, a, k)
             \/ \E r \in Requests : Approve(h, r) \/ Reject(h, r) \/ MarkPaid(h, r)
      PROVE  UNCHANGED request
  BY <1>4 DEF CreditStart, CreditBook, CreditSave, CreateWallet, CreateLock, RejectWallet, RejectUnlock,
              PayWallet, PayUnlock, PayBook, Break, CreateStart, Approve, Reject, MarkPaid, Decide, LoadWallet
<1> QED BY <1>1, <1>2, <1>3, <1>4 DEF PayoutNext, payoutVars

(* Every step keeps the books. *)
LEMMA StepAccounts == ASSUME BooksInv, [PayoutNext]_payoutVars PROVE Accounts'
<1>1. CASE UNCHANGED payoutVars
  <2>1. Open' = Open /\ PaidOut' = PaidOut /\ Sum(Open)' = Sum(Open) /\ Sum(PaidOut)' = Sum(PaidOut)
    BY <1>1 DEF payoutVars, Open, PaidOut, InStatus, Sum
  <2>2. /\ \A h \in Handlers : Idles(h)' = Idles(h)
        /\ \A h \in Handlers : Alone(h)' = Alone(h)
        /\ Books(Resting) => Books(Resting)'
        /\ \A h \in Handlers : Books(handler[h]) => Books(handler[h])'
    BY <1>1, <2>1 DEF payoutVars, Idles, Alone, Books, Current, Balanced, Debited, Unlocked, Owed
  <2> QED BY <1>1, <2>2 DEF payoutVars, Accounts, BooksInv
<1>2. ASSUME NEW h \in Handlers, Break(h) PROVE Accounts'
  BY <1>2 DEF Break, Accounts
<1> QED BY <1>1, <1>2, CreditStartBooks, CreditBookBooks, CreditSaveBooks, CreateStartBooks, LoadBooks,
           CreateLockBooks, InsertBooks, DecideBooks, ConcludeBooks, UnlockBooks, PayBookBooks DEF PayoutNext

(* Nothing earned, nothing requested. *)
LEMMA InitBooksInv == PayoutInit => BooksInv
<1> SUFFICES ASSUME PayoutInit PROVE BooksInv
  OBVIOUS
<1>1. \A r \in Requests : request[r].status = "none"
  BY DEF PayoutInit, None
<1>2. Made = {} /\ Open = {} /\ PaidOut = {}
  BY <1>1 DEF Made, Open, PaidOut, InStatus
<1>3. Sum({}) = 0
  BY SumEmpty DEF Sum
<1>4. Balanced(Resting)
  <2>1. 0 * Earnings = 0 /\ Earnings \in Nat
    BY AmountAssumption
  <2>2. credits = 0 /\ wallet.available = 0 /\ wallet.reserved = 0
    BY DEF PayoutInit, Empty
  <2> QED BY <1>2, <1>3, <2>1, <2>2, Rests DEF Balanced, Unlocked, Owed
<1>5. Current(Resting) /\ Debited(Resting)
  BY <1>2, Rests DEF Current, Deciding, Debited, PayoutInit
<1>6. Accounts
  BY <1>4, <1>5, Rests DEF Accounts, Books, Idles, PayoutInit
<1> QED BY <1>2, <1>6, PayoutInitIInv, FS_EmptySet DEF BooksInv

(* The invariant of the books, for any picker requests and any amounts.    *)
THEOREM BooksInductive == PayoutSpec => []BooksInv
<1>1. BooksInv /\ [PayoutNext]_payoutVars => BooksInv'
  BY PayoutStepIInv, MadeStep, StepAccounts DEF BooksInv
<1> QED BY InitBooksInv, <1>1, PTL DEF PayoutSpec

(* As long as handlers do not overlap or fail, what was earned is          *)
(* available, locked for an open request, or paid out with one debit.      *)
THEOREM EarningsAccountedFor == PayoutSpec => []BooksBalanceAtRest
<1>1. BooksInv => BooksBalanceAtRest
  <2> SUFFICES ASSUME BooksInv, ~disturbed, \A h \in Handlers : Idles(h)
               PROVE  /\ wallet.reserved = Sum(Open)
                      /\ wallet.available + wallet.reserved + Sum(PaidOut) = credits * Earnings
                      /\ \A r \in Requests : debits[r] = IF request[r].status = "PAID" THEN 1 ELSE 0
    BY DEF BooksBalanceAtRest, Open, PaidOut, In, Idles
  <2>1. Books(Resting)
    BY DEF BooksInv, Accounts
  <2>2. Sum(Open) \in Nat
    BY MadeFinite, SumTyped DEF BooksInv, Open, InStatus
  <2>3. credits * Earnings \in Int
    BY AmountAssumption DEF BooksInv, PayoutIInv, PayoutTyped
  <2>4. Unlocked(Resting) = 0 /\ Owed(Resting) = 0
    BY Rests DEF Unlocked, Owed
  <2>5. wallet.reserved = Sum(Open) - 0 /\ wallet.available + wallet.reserved + Sum(PaidOut) = credits * Earnings - 0
    BY <2>1, <2>4 DEF Books, Balanced
  <2>6. \A r \in Requests : debits[r] = IF request[r].status = "PAID" THEN 1 ELSE 0
    BY <2>1, Rests DEF Books, Debited, PaidOut, InStatus
  <2> QED BY <2>2, <2>3, <2>5, <2>6
<1> QED BY <1>1, BooksInductive, PTL

-----------------------------------------------------------------------------
(* The two offices together: whichever of them takes the next step, the    *)
(* documents, the requests and what handlers carry keep their types.       *)
THEOREM TypesCorrect == FinanceSpec => []TypesOK
<1>1. Init /\ PayoutInit => IInv /\ PayoutIInv
  BY InitIInv, PayoutInitIInv
<1>2. IInv /\ PayoutIInv /\ [FinanceNext]_<<vars, payoutVars>> => (IInv /\ PayoutIInv)'
  <2>1. [FinanceNext]_<<vars, payoutVars>> => [Next]_vars /\ [PayoutNext]_payoutVars
    BY DEF FinanceNext
  <2> QED BY <2>1, StepIInv, PayoutStepIInv
<1>3. IInv /\ PayoutIInv => TypesOK
  <2>1. IInv => TypeOK
    BY DEF IInv, Typed, TypeOK, Call, Invoice
  <2>2. PayoutIInv => PayoutTypeOK
    BY DEF PayoutIInv, PayoutTyped, PayoutTypeOK, Balances, Handler, Request
  <2> QED BY <2>1, <2>2 DEF TypesOK
<1> QED BY <1>1, <1>2, <1>3, PTL DEF FinanceSpec
=============================================================================
