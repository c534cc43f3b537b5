---------------------------- MODULE WalletProofs ----------------------------
(* The wallet's safety invariants, for any number of handlers, any calls   *)
(* and any amounts.                                                        *)
EXTENDS WalletMoney, Sums

(* A document in memory is never negative either: it was read from a       *)
(* balance that is not, and credits only add to it.                        *)
NonNegative == balance >= 0 /\ \A r \in Requests : doc[r] >= 0

(* Only a handler that is done has answered; an idle one has no call.      *)
Answered == \A r \in Requests : /\ pc[r] = "done" <=> reply[r] # "none"
                                /\ pc[r] = "idle" => call[r] = NoCall

(* Each row was booked by a handler that answered "ok", under its key.     *)
RowsAnswered ==
  \A row \in ledger : /\ row.by \in Requests
                      /\ call[row.by] \in Calls
                      /\ reply[row.by] = "ok"
                      /\ row.src = Source(call[row.by])
                      /\ row.ref = Reference(call[row.by])

(* A handler the index refused knows that the row is there.                *)
RefusedBooked ==
  \A r \in Requests : pc[r] \in {"undoDuplicate", "undoCredit"} =>
    Booked(Source(call[r]), Reference(call[r]))

(* Two handlers serve the same claimed credit only after one has failed.   *)
ClaimHeld ==
  \A r, q \in Requests :
    /\ r # q /\ call[r] \in Calls /\ call[q] \in Calls
    /\ call[r].op = call[q].op /\ call[r].ref = call[q].ref
    /\ call[r].op \in {"topup", "void"}
    => reply[r] = "error" \/ reply[q] = "error"

(* A void refund under way is covered by the debit it found.               *)
Covered(r) == \E debit \in ledger : /\ debit.src = "order_payment"
                                    /\ debit.ref = call[r].ref
                                    /\ due[r] <= debit.amt
VoidCovered ==
  \A r \in Requests :
    pc[r] \in {"lookup", "read", "save", "bookCredit"} /\ call[r].op = "void" => Covered(r)

(* The steps of a checkout and of a debit are taken by nothing else.       *)
LabelOK(r) == /\ pc[r] \in {"price", "commit"} => call[r].op = "checkout"
              /\ pc[r] \in {"debit", "bookDebit"} => call[r].op = "debit"
LabelsOK == \A r \in Requests : LabelOK(r)

IInv == /\ TypeOK /\ NonNegative /\ Answered /\ LabelsOK /\ RowsAnswered /\ RefusedBooked
        /\ ClaimHeld /\ VoidCovered /\ ExactlyOnce /\ RefundBacked

-----------------------------------------------------------------------------
(* An empty ledger and idle handlers. *)
LEMMA InitIInv == Init => IInv
BY CallsAssumption, AmountsAssumption
   DEF Init, IInv, TypeOK, NonNegative, Answered, RowsAnswered, RefusedBooked, ClaimHeld,
       VoidCovered, ExactlyOnce, RefundBacked, Labels, Replies, NoCall, Ops, LabelsOK,
       LabelOK

(* A handler that begins: only its own call, amount and label change.      *)
LEMMA BeginStep == ASSUME IInv, NEW r \in Requests, Begin(r) PROVE IInv'
<1>1. PICK c \in Calls :
        /\ ClaimFree(c)
        /\ call' = [call EXCEPT ![r] = c]
        /\ due' = [due EXCEPT ![r] = c.amt]
        /\ \/ c.op = "topup" /\ Answer(r, "error")
           \/ Goto(r, FirstStep(c))
  BY DEF Begin
<1>2. c.amt \in Nat \ {0} /\ c.op \in Ops /\ c # NoCall
  BY CallsAssumption DEF Ops, NoCall
<1>3. /\ pc[r] = "idle" /\ call[r] = NoCall /\ reply[r] = "none"
      /\ UNCHANGED <<balance, active, ledger, doc>>
  BY DEF Begin, IInv, Answered
<1>4. FirstStep(c) \in {"price", "lookup", "lookupDebit", "read"}
  BY DEF FirstStep
<1>5. /\ pc' = [pc EXCEPT ![r] = pc'[r]] /\ reply' = [reply EXCEPT ![r] = reply'[r]]
      /\ \/ pc'[r] = "done" /\ reply'[r] = "error"
         \/ pc'[r] = FirstStep(c) /\ reply'[r] = "none"
  BY <1>1, <1>3 DEF Answer, Goto, IInv, TypeOK
<1>6. TypeOK'
  BY <1>1, <1>2, <1>3, <1>4, <1>5 DEF IInv, TypeOK, Labels, Replies
<1>7. NonNegative' /\ Answered'
  BY <1>1, <1>2, <1>3, <1>4, <1>5 DEF IInv, TypeOK, NonNegative, Answered
<1>8. RowsAnswered'
  <2>1. \A row \in ledger : row.by # r
    BY <1>3 DEF IInv, RowsAnswered
  <2> QED BY <1>1, <1>3, <1>5, <2>1 DEF IInv, TypeOK, RowsAnswered
<1>9. RefusedBooked'
  BY <1>1, <1>3, <1>4, <1>5 DEF IInv, TypeOK, RefusedBooked, Booked
<1>10. ClaimHeld'
  BY <1>1, <1>2, <1>3, <1>5 DEF IInv, TypeOK, ClaimHeld, ClaimFree, NoCall
<1>11. VoidCovered'
  BY <1>1, <1>3, <1>4, <1>5 DEF IInv, TypeOK, VoidCovered, Covered, FirstStep
<1>12. ExactlyOnce' /\ RefundBacked'
  BY <1>1, <1>3, <1>5 DEF IInv, TypeOK, ExactlyOnce, RefundBacked, Booked
<1>13. LabelsOK'
  BY <1>1, <1>3, <1>5 DEF IInv, TypeOK, LabelsOK, LabelOK, FirstStep
<1> QED BY <1>6, <1>7, <1>8, <1>9, <1>10, <1>11, <1>12, <1>13 DEF IInv
(* A step of a handler at work that books nothing: it may move money and   *)
(* change its own locals, and either goes on or answers.                   *)
Moves(r) == /\ balance' \in Nat
            /\ due' = [due EXCEPT ![r] = due'[r]] /\ due'[r] \in Nat \ {0}
            /\ doc' = [doc EXCEPT ![r] = doc'[r]] /\ doc'[r] \in Nat
GoesOn(r) == \E label \in Labels \ {"idle", "done"} :
               /\ Goto(r, label)
               /\ label \in {"undoDuplicate", "undoCredit"} =>
                     Booked(Source(call[r]), Reference(call[r]))
Refuses(r) == \E a \in Replies \ {"none", "ok"} :
                /\ Answer(r, a)
                /\ a = "already" => Booked(Source(call[r]), Reference(call[r]))
AtWork(r) == pc[r] \notin {"idle", "done"}
StaysCovered(r) ==
  pc'[r] \in {"lookup", "read", "save", "bookCredit"} /\ call[r].op = "void" =>
    \E debit \in ledger : /\ debit.src = "order_payment" /\ debit.ref = call[r].ref
                          /\ due'[r] <= debit.amt

(* A step that books nothing. *)
LEMMA QuietStep ==
  ASSUME IInv, NEW r \in Requests, AtWork(r), UNCHANGED <<active, ledger, call>>,
         Moves(r), GoesOn(r) \/ Refuses(r), StaysCovered(r), LabelOK(r)'
  PROVE  IInv'
<1>1. /\ pc' = [pc EXCEPT ![r] = pc'[r]] /\ reply' = [reply EXCEPT ![r] = reply'[r]]
      /\ reply[r] = "none" /\ call[r] \in Calls
      /\ \/ /\ pc'[r] = "done" /\ reply'[r] \in Replies \ {"none", "ok"}
            /\ reply'[r] = "already" => Booked(Source(call[r]), Reference(call[r]))
         \/ /\ pc'[r] \in Labels \ {"idle", "done"} /\ reply'[r] = "none"
            /\ pc'[r] \in {"undoDuplicate", "undoCredit"} =>
                  Booked(Source(call[r]), Reference(call[r]))
  BY DEF GoesOn, Refuses, Goto, Answer, IInv, TypeOK, Answered, AtWork
<1>2. TypeOK'
  BY <1>1 DEF IInv, TypeOK, Moves, Labels, AtWork
<1>3. NonNegative' /\ Answered'
  BY <1>1 DEF IInv, TypeOK, NonNegative, Answered, Moves, Labels
<1>4. RowsAnswered'
  BY <1>1 DEF IInv, TypeOK, RowsAnswered
<1>5. RefusedBooked'
  BY <1>1 DEF IInv, TypeOK, RefusedBooked, Booked
<1>6. ClaimHeld'
  BY <1>1 DEF IInv, TypeOK, ClaimHeld
<1>7. VoidCovered'
  BY <1>1 DEF IInv, TypeOK, VoidCovered, Covered, StaysCovered, Moves
<1>8. ExactlyOnce' /\ RefundBacked'
  BY <1>1 DEF IInv, TypeOK, ExactlyOnce, RefundBacked, Booked
<1>9. LabelsOK'
  BY <1>1 DEF IInv, TypeOK, LabelsOK, LabelOK
<1> QED BY <1>2, <1>3, <1>4, <1>5, <1>6, <1>7, <1>8, <1>9 DEF IInv

(* A step that books the handler's row: the index had none of its key.     *)
LEMMA BookStep ==
  ASSUME IInv, NEW r \in Requests, AtWork(r), UNCHANGED <<active, call, due, doc>>,
         balance' \in Nat, Insertable(call[r]), Answer(r, "ok"),
         ledger' = ledger \cup {Row(r)},
         call[r].op = "void" => Covered(r)
  PROVE  IInv'
<1>1. /\ reply[r] = "none" /\ call[r] \in Calls /\ due[r] \in Nat \ {0}
      /\ pc' = [pc EXCEPT ![r] = "done"] /\ reply' = [reply EXCEPT ![r] = "ok"]
  BY DEF Answer, IInv, TypeOK, Answered, AtWork
<1>2. /\ Row(r) \in ledger' /\ Row(r).by = r /\ Row(r).amt = due[r]
      /\ Row(r).src = Source(call[r]) /\ Row(r).ref = Reference(call[r])
  BY DEF Row
<1>3. TypeOK'
  BY <1>1, <1>2 DEF IInv, TypeOK, Labels, Replies
<1>4. NonNegative' /\ Answered'
  BY <1>1 DEF IInv, TypeOK, NonNegative, Answered
<1>5. RowsAnswered'
  BY <1>1, <1>2 DEF IInv, TypeOK, RowsAnswered
<1>6. RefusedBooked'
  BY <1>1 DEF IInv, TypeOK, RefusedBooked, Booked
<1>7. ClaimHeld'
  BY <1>1 DEF IInv, TypeOK, ClaimHeld
<1>8. VoidCovered'
  BY <1>1 DEF IInv, TypeOK, VoidCovered, Covered
<1>9. ExactlyOnce'
  <2>1. \A q \in Requests : q # r /\ reply[q] = "ok" /\ Source(call[q]) = Source(call[r])
                             /\ Reference(call[q]) = Reference(call[r])
                             => Source(call[r]) \notin IndexedSources
    BY DEF IInv, ExactlyOnce, Insertable
  <2>2. \A q \in Requests : reply'[q] \in {"ok", "already"} =>
                             Booked(Source(call[q]), Reference(call[q]))'
    BY <1>1, <1>2 DEF IInv, TypeOK, ExactlyOnce, Booked
  <2> QED BY <1>1, <2>1, <2>2 DEF IInv, TypeOK, ExactlyOnce, Booked
<1>10. RefundBacked'
  <2>1. ASSUME NEW o \in Refs, Row(r).src = "refund",
               Row(r).ref = voidRefundReferenceId(o)
        PROVE  \E debit \in ledger : /\ debit.src = "order_payment" /\ debit.ref = o
                                     /\ Row(r).amt <= debit.amt
    <3>1. call[r].op = "void" /\ call[r].ref = o
      BY <1>1, <1>2, <2>1, CallsAssumption, RefsAssumption
         DEF Reference, voidRefundReferenceId
    <3> QED BY <1>2, <3>1 DEF Covered
  <2> QED BY <1>1, <2>1 DEF IInv, RefundBacked
<1>11. LabelsOK'
  BY <1>1 DEF IInv, TypeOK, LabelsOK, LabelOK
<1> QED BY <1>3, <1>4, <1>5, <1>6, <1>7, <1>8, <1>9, <1>10, <1>11 DEF IInv

-----------------------------------------------------------------------------
(* The wallet part of createOrder. *)
LEMMA CheckoutStep ==
  ASSUME IInv, NEW r \in Requests, PriceCheckout(r) \/ CommitCheckout(r)
  PROVE  IInv'
<1>1. /\ AtWork(r) /\ call[r] \in Calls /\ call[r].amt \in Nat
      /\ call[r].op = "checkout"
  BY CallsAssumption DEF PriceCheckout, CommitCheckout, AtWork, IInv, TypeOK, LabelsOK, LabelOK
<1>2. CASE PriceCheckout(r)
  <2>1. UNCHANGED <<active, ledger, call>> /\ Moves(r) /\ StaysCovered(r) /\ LabelOK(r)'
    BY <1>1, <1>2
       DEF PriceCheckout, Moves, StaysCovered, LabelOK, Goto, Answer, IInv, TypeOK, NonNegative
  <2>2. GoesOn(r) \/ Refuses(r)
    BY <1>2 DEF PriceCheckout, GoesOn, Refuses, Labels, Replies
  <2> QED BY <1>1, <2>1, <2>2, QuietStep
<1>3. CASE CommitCheckout(r) /\ Answer(r, "error") /\ UNCHANGED <<balance, ledger>>
  <2>1. UNCHANGED <<active, ledger, call>> /\ Moves(r) /\ StaysCovered(r) /\ LabelOK(r)'
    BY <1>3 DEF CommitCheckout, Moves, StaysCovered, LabelOK, Answer, IInv, TypeOK, NonNegative
  <2>2. Refuses(r)
    BY <1>3 DEF Refuses, Replies
  <2> QED BY <1>1, <1>3, <2>1, <2>2, QuietStep
<1>4. CASE /\ CommitCheckout(r) /\ Answer(r, "ok") /\ Funded(r)
           /\ balance' = balance - due[r] /\ ledger' = ledger \cup {Row(r)}
           /\ ~Booked("order_payment", call[r].ref)
  <2>1. balance' \in Nat /\ UNCHANGED <<active, call, due, doc>>
    BY <1>4 DEF CommitCheckout, Funded, IInv, TypeOK
  <2>2. Insertable(call[r])
    BY <1>1, <1>4 DEF Insertable, Source, Reference
  <2> QED BY <1>1, <1>4, <2>1, <2>2, BookStep
<1> QED BY <1>2, <1>3, <1>4 DEF CommitCheckout

(* A void refund looks for its debit. *)
LEMMA LookupStep ==
  ASSUME IInv, NEW r \in Requests, Lookup(r) \/ LookupDebit(r)
  PROVE  IInv'
<1>1. /\ AtWork(r) /\ call[r] \in Calls /\ call[r].op \in Ops /\ due[r] \in Nat \ {0}
      /\ balance \in Nat /\ doc[r] \in Nat
  BY CallsAssumption DEF Lookup, LookupDebit, AtWork, IInv, TypeOK, NonNegative
<1>2. CASE Lookup(r)
  <2>1. UNCHANGED <<active, ledger, call>> /\ Moves(r) /\ StaysCovered(r) /\ LabelOK(r)'
    BY <1>1, <1>2 DEF Lookup, Moves, StaysCovered, LabelOK, Goto, Answer, IInv, TypeOK,
                      VoidCovered, Covered
  <2>2. GoesOn(r) \/ Refuses(r)
    BY <1>2 DEF Lookup, GoesOn, Refuses, Labels, Replies
  <2> QED BY <1>1, <2>1, <2>2, QuietStep
<1>3. CASE LookupDebit(r)
  <2>1. UNCHANGED <<active, ledger, call>> /\ Moves(r) /\ StaysCovered(r) /\ LabelOK(r)'
    BY <1>1, <1>3 DEF LookupDebit, Moves, StaysCovered, LabelOK, Goto, Answer, IInv, TypeOK
  <2>2. GoesOn(r) \/ Refuses(r)
    BY <1>3 DEF LookupDebit, GoesOn, Refuses, Labels, Replies
  <2> QED BY <1>1, <2>1, <2>2, QuietStep
<1> QED BY <1>2, <1>3

(* The legacy debit. *)
LEMMA DebitStep ==
  ASSUME IInv, NEW r \in Requests, Debit(r) \/ BookDebit(r)
  PROVE  IInv'
<1>1. /\ AtWork(r) /\ call[r] \in Calls /\ call[r].op = "debit" /\ due[r] \in Nat \ {0}
      /\ balance \in Nat /\ doc[r] \in Nat
  BY DEF Debit, BookDebit, AtWork, IInv, TypeOK, NonNegative, LabelsOK, LabelOK
<1>2. CASE Debit(r)
  <2>1. UNCHANGED <<active, ledger, call>> /\ Moves(r) /\ StaysCovered(r) /\ LabelOK(r)'
    BY <1>1, <1>2 DEF Debit, Funded, Moves, StaysCovered, LabelOK, Goto, Answer, IInv, TypeOK
  <2>2. GoesOn(r) \/ Refuses(r)
    BY <1>2 DEF Debit, GoesOn, Refuses, Labels, Replies
  <2> QED BY <1>1, <2>1, <2>2, QuietStep
<1>3. CASE /\ BookDebit(r) /\ Insertable(call[r]) /\ Answer(r, "ok")
           /\ ledger' = ledger \cup {Row(r)}
  <2> QED BY <1>1, <1>3, BookStep DEF BookDebit
<1>4. CASE /\ BookDebit(r) /\ UNCHANGED ledger
           /\ \/ ~Insertable(call[r]) /\ Goto(r, "undoDuplicate")
              \/ Goto(r, "undoFailed")
  <2>1. UNCHANGED <<active, ledger, call>> /\ Moves(r) /\ StaysCovered(r) /\ LabelOK(r)'
    BY <1>1, <1>4 DEF BookDebit, Moves, StaysCovered, LabelOK, Goto, IInv, TypeOK
  <2>2. GoesOn(r)
    BY <1>4 DEF GoesOn, Labels, Insertable
  <2> QED BY <1>1, <2>1, <2>2, QuietStep
<1> QED BY <1>2, <1>3, <1>4 DEF BookDebit

(* Credits: load, book, save. *)
LEMMA CreditStep ==
  ASSUME IInv, NEW r \in Requests, CreditRead(r) \/ CreditSave(r) \/ BookCredit(r)
  PROVE  IInv'
<1>1. /\ AtWork(r) /\ call[r] \in Calls /\ due[r] \in Nat \ {0}
      /\ balance \in Nat /\ doc[r] \in Nat
  BY DEF CreditRead, CreditSave, BookCredit, AtWork, IInv, TypeOK, NonNegative
<1>2. call[r].op = "void" => Covered(r)
  BY DEF CreditRead, CreditSave, BookCredit, IInv, VoidCovered
<1>3. CASE CreditRead(r) \/ CreditSave(r)
  <2>1. UNCHANGED <<active, ledger, call>> /\ Moves(r) /\ LabelOK(r)'
    BY <1>1, <1>3 DEF CreditRead, CreditSave, Moves, LabelOK, Goto, Answer, IInv, TypeOK
  <2>2. StaysCovered(r)
    BY <1>2, <1>3 DEF CreditRead, CreditSave, StaysCovered, Covered
  <2>3. GoesOn(r) \/ Refuses(r)
    BY <1>3 DEF CreditRead, CreditSave, GoesOn, Refuses, Labels, Replies
  <2> QED BY <1>1, <2>1, <2>2, <2>3, QuietStep
<1>4. CASE /\ BookCredit(r) /\ Insertable(call[r]) /\ Answer(r, "ok")
           /\ ledger' = ledger \cup {Row(r)}
  <2> QED BY <1>1, <1>2, <1>4, BookStep DEF BookCredit
<1>5. CASE /\ BookCredit(r) /\ UNCHANGED ledger
           /\ \/ Answer(r, "error")
              \/ ~Insertable(call[r]) /\ Goto(r, "undoCredit")
  <2>1. UNCHANGED <<active, ledger, call>> /\ Moves(r) /\ LabelOK(r)'
    BY <1>1, <1>5 DEF BookCredit, Moves, LabelOK, Goto, Answer, IInv, TypeOK
  <2>2. StaysCovered(r)
    BY <1>2, <1>5 DEF BookCredit, StaysCovered, Covered
  <2>3. GoesOn(r) \/ Refuses(r)
    BY <1>5 DEF GoesOn, Refuses, Labels, Replies, Insertable
  <2> QED BY <1>1, <2>1, <2>2, <2>3, QuietStep
<1> QED BY <1>3, <1>4, <1>5 DEF BookCredit

(* Taking a debit back out after its booking failed. *)
LEMMA UndoStep == ASSUME IInv, NEW r \in Requests, Undo(r) PROVE IInv'
<1>1. /\ AtWork(r) /\ call[r] \in Calls /\ due[r] \in Nat \ {0}
      /\ balance \in Nat /\ doc[r] \in Nat
  BY DEF Undo, AtWork, IInv, TypeOK, NonNegative
<1>2. UNCHANGED <<active, ledger, call>> /\ Moves(r) /\ StaysCovered(r) /\ LabelOK(r)'
  BY <1>1 DEF Undo, Moves, StaysCovered, LabelOK, Answer, IInv, TypeOK
<1>3. Refuses(r)
  BY DEF Undo, Refuses, Replies, IInv, RefusedBooked
<1> QED BY <1>1, <1>2, <1>3, QuietStep

(* The process dies; the ledger stays. *)
LEMMA CrashStep == ASSUME IInv, Crash PROVE IInv'
<1>1. /\ \A r \in Requests : pc'[r] = pc[r] \/ (pc'[r] = "lost" /\ AtWork(r))
      /\ pc' \in [Requests -> Labels]
      /\ UNCHANGED <<balance, active, ledger, call, due, doc, reply>>
  BY DEF Crash, InFlight, AtWork, IInv, TypeOK, Labels
<1>2. TypeOK' /\ NonNegative' /\ Answered' /\ LabelsOK'
  BY <1>1 DEF IInv, TypeOK, NonNegative, Answered, LabelsOK, LabelOK, AtWork
<1>3. RowsAnswered' /\ RefusedBooked' /\ ClaimHeld'
  BY <1>1 DEF IInv, RowsAnswered, RefusedBooked, ClaimHeld, Booked
<1>4. VoidCovered' /\ ExactlyOnce' /\ RefundBacked'
  BY <1>1 DEF IInv, VoidCovered, Covered, ExactlyOnce, RefundBacked, Booked
<1> QED BY <1>2, <1>3, <1>4 DEF IInv

(* Every step keeps the invariant. *)
LEMMA StepIInv == IInv /\ [Next]_vars => IInv'
<1> SUFFICES ASSUME IInv, [Next]_vars PROVE IInv'
  OBVIOUS
<1>1. ASSUME NEW r \in Requests, Step(r) PROVE IInv'
  BY <1>1, BeginStep, CheckoutStep, LookupStep, DebitStep, CreditStep, UndoStep DEF Step
<1>2. CASE Crash
  BY <1>2, CrashStep
<1>3. CASE UNCHANGED vars
  BY <1>3 DEF vars, IInv, TypeOK, NonNegative, Answered, LabelsOK, LabelOK, RowsAnswered,
              RefusedBooked, ClaimHeld, VoidCovered, Covered, ExactlyOnce, RefundBacked, Booked
<1> QED BY <1>1, <1>2, <1>3 DEF Next

(* The invariant holds whatever calls interleave, fail or die half way.    *)
THEOREM Inductive == Spec => []IInv
BY InitIInv, StepIInv, PTL DEF Spec

-----------------------------------------------------------------------------
(* The documents, rows and locals keep their types.                        *)
THEOREM TypeCorrect == Spec => []TypeOK
<1>1. IInv => TypeOK
  BY DEF IInv
<1> QED BY <1>1, Inductive, PTL

(* No interleaving of debits, credits and reversals, and no crash, stores  *)
(* a negative balance.                                                     *)
THEOREM NeverOverdrawn == Spec => []NoOverdraft
<1>1. IInv => NoOverdraft
  BY DEF IInv, NonNegative, NoOverdraft
<1> QED BY <1>1, Inductive, PTL

(* A wallet payment, top-up or refund moves money at most once per key and *)
(* is answered truthfully.                                                 *)
THEOREM MovedOnce == Spec => []ExactlyOnce
<1>1. IInv => ExactlyOnce
  BY DEF IInv
<1> QED BY <1>1, Inductive, PTL

(* A void refund never exceeds what its order took from the wallet.        *)
THEOREM RefundsBacked == Spec => []RefundBacked
<1>1. IInv => RefundBacked
  BY DEF IInv
<1> QED BY <1>1, Inductive, PTL

(* creditWallet's race branch is never entered from its callers.           *)
THEOREM ClaimsPreventTheRace == Spec => []NoRaceForACredit
<1>1. IInv => NoRaceForACredit
  <2> SUFFICES ASSUME IInv, NEW r \in Requests, call[r] # NoCall,
                      call[r].op \in {"topup", "void"},
                      pc[r] \in {"read", "save", "bookCredit", "undoCredit"},
                      NEW row \in ledger, row.src = Source(call[r]),
                      row.ref = Reference(call[r])
               PROVE  FALSE
    BY DEF NoRaceForACredit, Insertable, Booked
  <2>1. /\ call[r] \in Calls /\ reply[r] = "none"
        /\ call[r].op \in Ops /\ call[r].ref \in Refs
    BY CallsAssumption DEF IInv, TypeOK, Answered
  <2>2. /\ row.by \in Requests /\ call[row.by] \in Calls /\ reply[row.by] = "ok"
        /\ call[row.by].op \in Ops /\ call[row.by].ref \in Refs
        /\ Source(call[row.by]) = Source(call[r])
        /\ Reference(call[row.by]) = Reference(call[r])
    BY CallsAssumption DEF IInv, RowsAnswered
  <2>3. call[row.by].op = call[r].op /\ call[row.by].ref = call[r].ref
    BY <2>1, <2>2, RefsAssumption DEF Source, Reference, voidRefundReferenceId, Ops
  <2> QED BY <2>1, <2>2, <2>3 DEF IInv, ClaimHeld
<1> QED BY <1>1, Inductive, PTL

-----------------------------------------------------------------------------
(* Money.  Only checkouts and debits: no credit overwrites the balance.    *)
DebitsOnly == \A c \in Calls : c.op \in {"checkout", "debit"}

(* Then no handler is on the way of a credit, ...                          *)
NoCredits == /\ \A r \in Requests : pc[r] \notin {"lookupDebit", "read", "save", "bookCredit", "undoCredit"}
             /\ \A r \in Requests : pc[r] = "lookup" => call[r].op = "debit"
             /\ \A row \in ledger : row.src = "order_payment"

(* ... and rows and debits under way can be counted.                       *)
Countable == IsFiniteSet(ledger) /\ IsFiniteSet(Taken)

MInv == IInv /\ NoCredits /\ Countable /\ BooksBalance

-----------------------------------------------------------------------------
(* The ledger is all debits, each a positive amount. *)
LEMMA AllDebits == ASSUME IInv, NoCredits
                   PROVE  /\ DebitRows = ledger /\ CreditRows = {}
                          /\ \A row \in ledger : row.amt \in Nat
BY DEF NoCredits, DebitRows, CreditRows, IInv, TypeOK

(* Rows of positive amounts add up to a number. *)
LEMMA AmountOf ==
  ASSUME NEW rows, IsFiniteSet(rows), \A row \in rows : row.amt \in Nat
  PROVE  Amount(rows) \in Nat
<1> DEFINE w == [row \in rows |-> row.amt]
<1>1. \A row \in rows : w[row] \in Nat
  OBVIOUS
<1>2. SumFunctionOnSet(w, rows) \in Nat
  <2> HIDE DEF w
  <2> QED BY <1>1, SumBounds
<1> QED BY <1>2 DEF Amount

(* A new row adds its amount. *)
LEMMA AmountWith ==
  ASSUME NEW rows, NEW new, IsFiniteSet(rows), \A row \in rows : row.amt \in Nat,
         new \notin rows, new.amt \in Nat
  PROVE  Amount(rows \cup {new}) = Amount(rows) + new.amt
<1>1. PICK w : w = [row \in rows \cup {new} |-> row.amt]
  OBVIOUS
<1>2. PICK v : v = [row \in rows |-> row.amt]
  OBVIOUS
<1>3. \A y \in rows : w[y] = v[y] /\ v[y] \in Int
  BY <1>1, <1>2
<1>6. PICK T : T = rows \cup {new}
  OBVIOUS
<1>4. w[new] = new.amt /\ w[new] \in Int
  BY <1>1
<1>5. SumFunctionOnSet(w, T) = SumFunctionOnSet(v, rows) + w[new]
  <2>1. w[new] \in Int
    BY <1>4
  <2>2. IsFiniteSet(rows) /\ new \in T /\ rows = T \ {new}
    BY <1>6
  <2> QED BY <1>3, <2>1, <2>2, SumInsert
<1> QED BY <1>1, <1>2, <1>4, <1>5, <1>6 DEF Amount

(* The funds are the opening balance less the ledger's debits. *)
LEMMA FundsAre ==
  ASSUME IInv, NoCredits, Countable
  PROVE  Funds = InitBalance - Amount(ledger) /\ Amount(ledger) \in Nat
<1>1. Amount({}) = 0
  BY SumEmpty DEF Amount
<1>2. Amount(ledger) \in Nat
  BY AllDebits, AmountOf DEF Countable
<1> QED BY <1>1, <1>2, AllDebits, AmountsAssumption DEF Funds

(* What is in transit counts every debit that was taken. *)
LEMMA TransitIs ==
  ASSUME IInv, Countable
  PROVE  /\ InTransit \in Nat
         /\ \A r \in Taken : due[r] <= InTransit
<1>1. \A r \in Taken : due[r] \in Nat
  BY DEF IInv, TypeOK, Taken
<1>2. IsFiniteSet(Taken)
  BY DEF Countable
<1> HIDE DEF Taken
<1> QED BY <1>1, <1>2, SumBounds DEF InTransit

(* What is in transit changes by the debit that is taken, booked or undone. *)
LEMMA TransitSame ==
  ASSUME IInv, Countable, \A q \in Taken : due'[q] = due[q], Taken' = Taken
  PROVE  InTransit' = InTransit /\ IsFiniteSet(Taken')
<1>1. IsFiniteSet(Taken)
  BY DEF Countable
<1>2. PICK S : S = Taken
  OBVIOUS
<1>3. SumFunctionOnSet(due', S) = SumFunctionOnSet(due, S)
  <2>1. IsFiniteSet(S) /\ \A q \in S : due'[q] = due[q]
    BY <1>1, <1>2
  <2> QED BY <2>1, SumSame
<1> QED BY <1>1, <1>2, <1>3 DEF InTransit

(* A debit goes into transit ... *)
LEMMA TransitIn ==
  ASSUME IInv, Countable, NEW r \in Requests, r \notin Taken, UNCHANGED due, Taken' = Taken \cup {r}
  PROVE  InTransit' = InTransit + due[r] /\ IsFiniteSet(Taken')
<1>1. IsFiniteSet(Taken) /\ IsFiniteSet(Taken \cup {r})
  BY FS_AddElement DEF Countable
<1>2. PICK S, T : S = Taken /\ T = Taken \cup {r}
  OBVIOUS
<1>3. SumFunctionOnSet(due, T) = due[r] + SumFunctionOnSet(due, S)
  <2>1. \A q \in T : due[q] \in Int
    BY <1>2 DEF IInv, TypeOK, Taken
  <2>2. IsFiniteSet(T) /\ r \in T /\ S = T \ {r}
    BY <1>1, <1>2
  <2> QED BY <2>1, <2>2, SumWithout
<1>4. SumFunctionOnSet(due, S) \in Int /\ due[r] \in Int
  <2>1. \A q \in S : due[q] \in Int
    BY <1>2 DEF IInv, TypeOK, Taken
  <2>2. IsFiniteSet(S) /\ due[r] \in Int
    BY <1>1, <1>2 DEF IInv, TypeOK
  <2> QED BY <2>1, <2>2, SumWithout
<1> QED BY <1>1, <1>2, <1>3, <1>4 DEF InTransit

(* ... and leaves it. *)
LEMMA TransitOut ==
  ASSUME IInv, Countable, NEW r \in Requests, r \in Taken, UNCHANGED due, Taken' = Taken \ {r}
  PROVE  /\ InTransit' = InTransit - due[r] /\ IsFiniteSet(Taken')
         /\ InTransit' \in Int
<1>1. IsFiniteSet(Taken) /\ IsFiniteSet(Taken \ {r})
  BY FS_Subset DEF Countable
<1>2. PICK S, T : S = Taken /\ T = Taken \ {r}
  OBVIOUS
<1>3. SumFunctionOnSet(due, S) = due[r] + SumFunctionOnSet(due, T)
  <2>1. \A q \in S : due[q] \in Int
    BY <1>2 DEF IInv, TypeOK, Taken
  <2>2. T = S \ {r} /\ IsFiniteSet(S) /\ r \in S
    BY <1>1, <1>2
  <2> QED BY <2>1, <2>2, SumWithout
<1>4. SumFunctionOnSet(due, T) \in Int
  <2>1. \A q \in T : due[q] \in Int
    BY <1>2 DEF IInv, TypeOK, Taken
  <2>2. IsFiniteSet(T)
    BY <1>1, <1>2
  <2> QED BY <2>1, <2>2, SumWithout
<1>5. InTransit' = SumFunctionOnSet(due, T) /\ InTransit = SumFunctionOnSet(due, S)
  BY <1>2 DEF InTransit
<1>6. due[r] \in Int
  BY DEF IInv, TypeOK
<1> QED BY <1>1, <1>3, <1>4, <1>5, <1>6

(* A row that is booked lowers the funds by its amount.                    *)
LEMMA Booking ==
  ASSUME IInv, NoCredits, Countable, NEW new, new \notin ledger, new.src = "order_payment",
         new.amt \in Nat, ledger' = ledger \cup {new}
  PROVE  /\ Funds' = Funds - new.amt /\ IsFiniteSet(ledger')
         /\ \A row \in ledger' : row.src = "order_payment"
<1>1. IsFiniteSet(ledger) /\ \A row \in ledger : row.amt \in Nat
  BY AllDebits DEF Countable
<1>2. Amount(ledger \cup {new}) = Amount(ledger) + new.amt
  BY <1>1, AmountWith
<1>3. \A row \in ledger' : row.src = "order_payment"
  BY DEF NoCredits
<1>4. DebitRows' = ledger \cup {new} /\ CreditRows' = {}
  BY <1>3 DEF DebitRows, CreditRows
<1>5. Amount({}) = 0
  BY SumEmpty DEF Amount
<1>7. Funds = InitBalance - Amount(ledger) /\ Amount(ledger) \in Nat
  BY FundsAre
<1>6. Funds' = InitBalance - Amount(ledger \cup {new})
  <2>1. Funds' = InitBalance + Amount(CreditRows') - Amount(DebitRows')
    BY DEF Funds
  <2>2. Funds' = InitBalance + 0 - Amount(ledger \cup {new})
    BY <1>4, <1>5, <2>1
  <2>3. Amount(ledger \cup {new}) \in Int
    BY <1>2, <1>7
  <2> QED BY <2>2, <2>3, AmountsAssumption
<1>8. IsFiniteSet(ledger')
  BY <1>1, FS_AddElement
<1> QED BY <1>2, <1>3, <1>6, <1>7, <1>8, AmountsAssumption

-----------------------------------------------------------------------------
(* A handler's step that moves as much between the balance, the debits in  *)
(* transit and the ledger as it takes from one of them.                    *)
Turns(r) == pc[r] # "lost" /\ \E label : pc' = [pc EXCEPT ![r] = label]
LEMMA Balanced ==
  ASSUME MInv, NEW r \in Requests, Turns(r), NEW b \in Int, NEW f \in Int,
         balance' + InTransit' = b, Funds' = f, b - f = balance + InTransit - Funds
  PROVE  BooksBalance'
<1>1. balance \in Int /\ InTransit \in Int /\ Funds \in Int
  BY TransitIs, FundsAre, AmountsAssumption DEF MInv, IInv, TypeOK
<1>2. (\A q \in Requests : pc'[q] # "lost") => \A q \in Requests : pc[q] # "lost"
  BY DEF Turns, MInv, IInv, TypeOK
<1>5. balance + InTransit <= Funds => b <= f
  BY <1>1
<1>6. balance + InTransit = Funds => b = f
  BY <1>1
<1> QED BY <1>2, <1>5, <1>6 DEF BooksBalance, MInv

(* A step that moves no money. *)
LEMMA NothingMoves ==
  ASSUME MInv, NEW r \in Requests, Turns(r), UNCHANGED <<balance, ledger>>,
         Taken' = Taken, \A q \in Taken : due'[q] = due[q]
  PROVE  Countable' /\ BooksBalance'
<1>1. InTransit' = InTransit /\ IsFiniteSet(Taken')
  BY TransitSame DEF MInv
<1>2. Funds' = Funds
  BY DEF Funds, CreditRows, DebitRows
<1>3. balance \in Int /\ InTransit \in Int /\ Funds \in Int
  BY TransitIs, FundsAre, AmountsAssumption DEF MInv, IInv, TypeOK
<1>4. BooksBalance'
  <2>1. balance' + InTransit' = balance + InTransit /\ balance + InTransit \in Int
    BY <1>1, <1>3
  <2> QED BY <1>2, <1>3, <2>1, Balanced
<1> QED BY <1>1, <1>4 DEF Countable, MInv

(* Where a step of these calls can lead. *)
LEMMA StaysOnPath ==
  ASSUME MInv, NEW r \in Requests, NEW label, pc' = [pc EXCEPT ![r] = label],
         label \notin {"lookupDebit", "read", "save", "bookCredit", "undoCredit"},
         label = "lookup" => call'[r].op = "debit", \A q \in Requests : q # r => call'[q] = call[q],
         \A row \in ledger' : row.src = "order_payment"
  PROVE  NoCredits'
BY DEF NoCredits, MInv, IInv, TypeOK

(* Steps that move nothing: beginning, pricing, looking up, refusing.      *)
LEMMA QuietMoney ==
  ASSUME MInv, NEW r \in Requests, NEW label, pc' = [pc EXCEPT ![r] = label], pc[r] # "lost",
         pc[r] \notin {"bookDebit", "undoDuplicate", "undoFailed"},
         label \notin {"bookDebit", "undoDuplicate", "undoFailed"},
         label \notin {"lookupDebit", "read", "save", "bookCredit", "undoCredit"},
         label = "lookup" => call'[r].op = "debit", \A q \in Requests : q # r => call'[q] = call[q],
         UNCHANGED <<balance, ledger>>, due' = [due EXCEPT ![r] = due'[r]]
  PROVE  NoCredits' /\ Countable' /\ BooksBalance'
<1>1. Taken' = Taken /\ r \notin Taken
  BY DEF Taken, MInv, IInv, TypeOK
<1>2. \A q \in Taken : due'[q] = due[q]
  <2>1. \A q \in Taken : q \in Requests /\ q # r
    BY <1>1 DEF Taken
  <2>2. due \in [Requests -> Nat]
    BY DEF MInv, IInv, TypeOK
  <2>3. \A q \in Requests : q # r => due'[q] = due[q]
    BY <2>2
  <2> QED BY <2>1, <2>3
<1>3. Turns(r)
  BY DEF Turns
<1>4. NoCredits'
  <2>1. \A row \in ledger' : row.src = "order_payment"
    BY DEF MInv, NoCredits
  <2> QED BY <2>1, StaysOnPath
<1>5. Countable' /\ BooksBalance'
  BY <1>1, <1>2, <1>3, NothingMoves
<1> QED BY <1>4, <1>5

(* A call begins; no money moves. *)
LEMMA BeginMoney ==
  ASSUME DebitsOnly, MInv, NEW r \in Requests, Begin(r) PROVE NoCredits' /\ Countable' /\ BooksBalance'
<1>1. PICK c \in Calls : /\ due' = [due EXCEPT ![r] = c.amt] /\ call' = [call EXCEPT ![r] = c]
                         /\ IF c.op = "topup" /\ c.amt > MaxTopUp
                            THEN Answer(r, "error") ELSE Goto(r, FirstStep(c))
  BY DEF Begin
<1>2. PICK label \in {"price", "lookup"} : /\ pc' = [pc EXCEPT ![r] = label]
                                           /\ label = "lookup" => c.op = "debit"
  BY <1>1 DEF DebitsOnly, FirstStep, Goto, Answer
<1>3. /\ due' = [due EXCEPT ![r] = due'[r]] /\ call'[r] = c
      /\ \A q \in Requests : q # r => call'[q] = call[q]
  BY <1>1 DEF MInv, IInv, TypeOK
<1>4. pc[r] = "idle" /\ UNCHANGED <<balance, ledger>>
  BY DEF Begin
<1> QED BY <1>2, <1>3, <1>4, QuietMoney

(* Nor when it is priced ... *)
LEMMA PriceMoney ==
  ASSUME MInv, NEW r \in Requests, PriceCheckout(r) PROVE NoCredits' /\ Countable' /\ BooksBalance'
<1>1. PICK label \in {"commit", "done"} : pc' = [pc EXCEPT ![r] = label]
  BY DEF PriceCheckout, Goto, Answer
<1>2. due' = [due EXCEPT ![r] = due'[r]] /\ UNCHANGED call
  BY DEF PriceCheckout, MInv, IInv, TypeOK
<1>3. pc[r] = "price" /\ UNCHANGED <<balance, ledger>>
  BY DEF PriceCheckout
<1> QED BY <1>1, <1>2, <1>3, QuietMoney

(* ... or looked up. *)
LEMMA LookupMoney ==
  ASSUME MInv, NEW r \in Requests, Lookup(r) PROVE NoCredits' /\ Countable' /\ BooksBalance'
<1>1. PICK label \in {"debit", "done"} : pc' = [pc EXCEPT ![r] = label]
  BY DEF Lookup, Goto, Answer, MInv, NoCredits
<1>2. due' = [due EXCEPT ![r] = due'[r]] /\ UNCHANGED call
  BY DEF Lookup, MInv, IInv, TypeOK
<1>3. pc[r] = "lookup" /\ UNCHANGED <<balance, ledger>>
  BY DEF Lookup
<1> QED BY <1>1, <1>2, <1>3, QuietMoney

(* A refusal, of a checkout or of a debit. *)
LEMMA RefusedMoney ==
  ASSUME MInv, NEW r \in Requests, pc[r] \in {"commit", "debit"}, Answer(r, "error"),
         UNCHANGED <<balance, ledger, call, due>>
  PROVE  NoCredits' /\ Countable' /\ BooksBalance'
<1>1. due' = [due EXCEPT ![r] = due'[r]]
  BY DEF MInv, IInv, TypeOK
<1>2. pc' = [pc EXCEPT ![r] = "done"]
  BY DEF Answer
<1> QED BY <1>1, <1>2, QuietMoney

-----------------------------------------------------------------------------
(* The row of a handler that has not answered is not in the ledger. *)
LEMMA NewRow ==
  ASSUME MInv, NEW r \in Requests, AtWork(r), call[r].op \in {"checkout", "debit"}
  PROVE  /\ Row(r) \notin ledger /\ Row(r).src = "order_payment" /\ Row(r).amt = due[r]
         /\ due[r] \in Nat /\ Row(r).ref = call[r].ref
<1>1. reply[r] = "none" /\ due[r] \in Nat
  BY DEF MInv, IInv, TypeOK, Answered, AtWork
<1>2. Row(r).by = r /\ Row(r).src = "order_payment" /\ Row(r).amt = due[r] /\ Row(r).ref = call[r].ref
  BY DEF Row, Source, Reference
<1>3. Row(r) \notin ledger
  BY <1>1, <1>2 DEF MInv, IInv, RowsAnswered
<1> QED BY <1>1, <1>2, <1>3

(* A checkout is debited and booked at once. *)
LEMMA CommitMoney ==
  ASSUME MInv, NEW r \in Requests, CommitCheckout(r) PROVE NoCredits' /\ Countable' /\ BooksBalance'
<1>1. pc[r] = "commit" /\ UNCHANGED <<active, call, due, doc>>
  BY DEF CommitCheckout
<1>2. CASE Answer(r, "error") /\ UNCHANGED <<balance, ledger>>
  BY <1>1, <1>2, RefusedMoney
<1>3. CASE balance' = balance - due[r] /\ ledger' = ledger \cup {Row(r)} /\ Answer(r, "ok")
  <2>1. AtWork(r) /\ call[r].op = "checkout"
    BY <1>1 DEF AtWork, MInv, IInv, LabelsOK, LabelOK
  <2>2. /\ Row(r) \notin ledger /\ Row(r).src = "order_payment" /\ Row(r).amt = due[r]
        /\ due[r] \in Nat
    BY <2>1, NewRow
  <2>3. /\ Funds' = Funds - due[r] /\ IsFiniteSet(ledger')
        /\ \A row \in ledger' : row.src = "order_payment"
    BY <1>3, <2>2, Booking DEF MInv
  <2>4. pc' = [pc EXCEPT ![r] = "done"] /\ Turns(r)
    BY <1>1, <1>3 DEF Answer, Turns
  <2>5. Taken' = Taken
    BY <1>1, <2>4 DEF Taken, MInv, IInv, TypeOK
  <2>6. InTransit' = InTransit /\ IsFiniteSet(Taken')
    BY <1>1, <2>5, TransitSame DEF MInv
  <2>7. balance \in Int /\ InTransit \in Int /\ Funds \in Int
    BY TransitIs, FundsAre, AmountsAssumption DEF MInv, IInv, TypeOK
  <2>8. NoCredits'
    BY <1>1, <2>3, <2>4, StaysOnPath
  <2>9. BooksBalance'
    <3>1. PICK b, f : b = balance - due[r] + InTransit /\ f = Funds - due[r]
      OBVIOUS
    <3>2. b \in Int /\ f \in Int /\ b - f = balance + InTransit - Funds
      BY <2>2, <2>7, <3>1
    <3>3. balance' + InTransit' = b /\ Funds' = f
      BY <1>3, <2>3, <2>6, <3>1
    <3> QED BY <2>4, <3>2, <3>3, Balanced
  <2> QED BY <2>3, <2>6, <2>8, <2>9 DEF Countable
<1> QED BY <1>2, <1>3 DEF CommitCheckout

(* Money that leaves one of the three arrives in another.                  *)
LEMMA Conserved ==
  ASSUME MInv, NEW r \in Requests, Turns(r), NEW b \in Int, NEW t \in Int, NEW f \in Int,
         balance' = balance + b, InTransit' = InTransit + t, Funds' = Funds + f, b + t = f
  PROVE  BooksBalance'
<1>1. balance \in Int /\ InTransit \in Int /\ Funds \in Int
  BY TransitIs, FundsAre, AmountsAssumption DEF MInv, IInv, TypeOK
<1>2. PICK x, y : x = (balance + b) + (InTransit + t) /\ y = Funds + f
  OBVIOUS
<1>3. x \in Int /\ y \in Int /\ x - y = balance + InTransit - Funds
  BY <1>1, <1>2
<1>4. balance' + InTransit' = x /\ Funds' = y
  BY <1>2
<1> QED BY <1>3, <1>4, Balanced

(* A debit is taken from the balance, ... *)
LEMMA DebitMoney ==
  ASSUME MInv, NEW r \in Requests, Debit(r) PROVE NoCredits' /\ Countable' /\ BooksBalance'
<1>1. pc[r] = "debit" /\ UNCHANGED <<active, ledger, call, due, doc>>
  BY DEF Debit
<1>2. CASE Answer(r, "error") /\ UNCHANGED balance
  BY <1>1, <1>2, RefusedMoney
<1>3. CASE balance' = balance - due[r] /\ Goto(r, "bookDebit")
  <2>1. pc' = [pc EXCEPT ![r] = "bookDebit"] /\ Turns(r)
    BY <1>1, <1>3 DEF Goto, Turns
  <2>2. r \notin Taken /\ Taken' = Taken \cup {r}
    BY <1>1, <2>1 DEF Taken, MInv, IInv, TypeOK
  <2>3. InTransit' = InTransit + due[r] /\ IsFiniteSet(Taken')
    BY <1>1, <2>2, TransitIn DEF MInv
  <2>4. balance \in Int /\ due[r] \in Int /\ Funds \in Int
    BY FundsAre, AmountsAssumption DEF MInv, IInv, TypeOK
  <2>5. Funds' = Funds + 0 /\ balance' = balance + (0 - due[r])
    <3>1. Funds' = Funds
      BY <1>1 DEF Funds, CreditRows, DebitRows
    <3> QED BY <1>3, <2>4, <3>1
  <2>6. NoCredits'
    <3>1. \A row \in ledger' : row.src = "order_payment"
      BY <1>1 DEF MInv, NoCredits
    <3> QED BY <1>1, <2>1, <3>1, StaysOnPath
  <2>7. BooksBalance'
    <3>1. PICK b : b = 0 - due[r]
      OBVIOUS
    <3>2. b \in Int /\ b + due[r] = 0
      BY <2>4, <3>1
    <3>3. balance' = balance + b
      BY <2>5, <3>1
    <3> QED BY <2>1, <2>3, <2>4, <2>5, <3>2, <3>3, Conserved
  <2> QED BY <1>1, <2>3, <2>6, <2>7 DEF Countable, MInv
<1> QED BY <1>2, <1>3 DEF Debit

(* ... and booked or refused a row. *)
LEMMA BookDebitMoney ==
  ASSUME MInv, NEW r \in Requests, BookDebit(r) PROVE NoCredits' /\ Countable' /\ BooksBalance'
<1>1. pc[r] = "bookDebit" /\ UNCHANGED <<balance, active, call, due, doc>>
  BY DEF BookDebit
<1>2. CASE ledger' = ledger \cup {Row(r)} /\ Answer(r, "ok")
  <2>1. AtWork(r) /\ call[r].op = "debit"
    BY <1>1 DEF AtWork, MInv, IInv, LabelsOK, LabelOK
  <2>2. /\ Row(r) \notin ledger /\ Row(r).src = "order_payment" /\ Row(r).amt = due[r]
        /\ due[r] \in Nat
    BY <2>1, NewRow
  <2>3. /\ Funds' = Funds - due[r] /\ IsFiniteSet(ledger')
        /\ \A row \in ledger' : row.src = "order_payment"
    BY <1>2, <2>2, Booking DEF MInv
  <2>4. pc' = [pc EXCEPT ![r] = "done"] /\ Turns(r)
    BY <1>1, <1>2 DEF Answer, Turns
  <2>5. r \in Taken /\ Taken' = Taken \ {r}
    BY <1>1, <2>4 DEF Taken, MInv, IInv, TypeOK
  <2>6. InTransit' = InTransit - due[r] /\ IsFiniteSet(Taken')
    BY <1>1, <2>5, TransitOut DEF MInv
  <2>7. balance \in Int /\ InTransit \in Int /\ Funds \in Int
    BY TransitIs, FundsAre, AmountsAssumption DEF MInv, IInv, TypeOK
  <2>8. NoCredits'
    BY <1>1, <2>3, <2>4, StaysOnPath
  <2>9. BooksBalance'
    <3>1. PICK t : t = 0 - due[r]
      OBVIOUS
    <3>2. t \in Int /\ 0 + t = t
      BY <2>2, <3>1
    <3>3. InTransit' = InTransit + t /\ Funds' = Funds + t /\ balance' = balance + 0
      BY <1>1, <2>2, <2>3, <2>6, <2>7, <3>1
    <3> QED BY <2>4, <3>2, <3>3, Conserved
  <2> QED BY <2>3, <2>6, <2>8, <2>9 DEF Countable
<1>3. CASE UNCHANGED ledger /\ (Goto(r, "undoDuplicate") \/ Goto(r, "undoFailed"))
  <2>1. PICK label \in {"undoDuplicate", "undoFailed"} : pc' = [pc EXCEPT ![r] = label]
    BY <1>3 DEF Goto
  <2>2. Taken' = Taken /\ Turns(r)
    BY <1>1, <2>1 DEF Taken, Turns, MInv, IInv, TypeOK
  <2>3. Countable' /\ BooksBalance'
    BY <1>1, <1>3, <2>2, NothingMoves
  <2>4. NoCredits'
    <3>1. \A row \in ledger' : row.src = "order_payment"
      BY <1>3 DEF MInv, NoCredits
    <3> QED BY <1>1, <2>1, <3>1, StaysOnPath
  <2> QED BY <2>3, <2>4
<1> QED BY <1>2, <1>3 DEF BookDebit

(* A debit is taken back.  *)
LEMMA UndoMoney ==
  ASSUME MInv, NEW r \in Requests, Undo(r) PROVE NoCredits' /\ Countable' /\ BooksBalance'
<1>1. /\ pc[r] \in {"undoDuplicate", "undoFailed"} /\ balance' = balance + due[r]
      /\ pc' = [pc EXCEPT ![r] = "done"] /\ UNCHANGED <<active, ledger, call, due, doc>>
  BY DEF Undo, Answer, MInv, NoCredits
<1>2. Turns(r)
  BY <1>1 DEF Turns
<1>3. r \in Taken /\ Taken' = Taken \ {r}
  BY <1>1 DEF Taken, MInv, IInv, TypeOK
<1>4. InTransit' = InTransit - due[r] /\ IsFiniteSet(Taken')
  BY <1>1, <1>3, TransitOut DEF MInv
<1>5. balance \in Int /\ InTransit \in Int /\ Funds \in Int /\ due[r] \in Int
  BY TransitIs, FundsAre, AmountsAssumption DEF MInv, IInv, TypeOK
<1>6. Funds' = Funds + 0
  <2>1. Funds' = Funds
    BY <1>1 DEF Funds, CreditRows, DebitRows
  <2> QED BY <1>5, <2>1
<1>7. NoCredits'
  <2>1. \A row \in ledger' : row.src = "order_payment"
    BY <1>1 DEF MInv, NoCredits
  <2> QED BY <1>1, <2>1, StaysOnPath
<1>8. BooksBalance'
  <2>1. PICK t : t = 0 - due[r]
    OBVIOUS
  <2>2. t \in Int /\ due[r] + t = 0
    BY <1>5, <2>1
  <2>3. InTransit' = InTransit + t
    BY <1>4, <1>5, <2>1
  <2> QED BY <1>1, <1>2, <1>5, <1>6, <2>2, <2>3, Conserved
<1> QED BY <1>1, <1>4, <1>7, <1>8 DEF Countable, MInv

(* A crash loses what was in transit: nothing is taken any more.           *)
LEMMA CrashMoney == ASSUME MInv, Crash PROVE NoCredits' /\ Countable' /\ BooksBalance'
<1>1. /\ \A q \in Requests : pc'[q] = IF q \in InFlight THEN "lost" ELSE pc[q]
      /\ UNCHANGED <<balance, active, ledger, call, due, doc, reply>>
  BY DEF Crash
<1>2. NoCredits'
  BY <1>1 DEF NoCredits, MInv
<1>3. Taken' = {}
  BY <1>1 DEF Taken, InFlight
<1>4. InTransit' = 0 /\ IsFiniteSet(Taken')
  BY <1>3, SumEmpty, FS_EmptySet DEF InTransit
<1>5. Funds' = Funds /\ balance' = balance
  BY <1>1 DEF Funds, CreditRows, DebitRows
<1>6. balance \in Int /\ InTransit \in Nat /\ Funds \in Int
  BY TransitIs, FundsAre, AmountsAssumption DEF MInv, IInv, TypeOK
<1>7. balance + 0 <= Funds
  BY <1>6 DEF MInv, BooksBalance
<1>8. \E q \in Requests : pc'[q] = "lost"
  BY <1>1 DEF Crash, InFlight
<1>9. BooksBalance'
  <2>1. (balance' + InTransit' <= Funds')
    BY <1>4, <1>5, <1>7
  <2> QED BY <1>8, <2>1 DEF BooksBalance
<1> QED BY <1>1, <1>2, <1>4, <1>9 DEF Countable, MInv

-----------------------------------------------------------------------------
(* No row, no debit under way. *)
LEMMA InitMInv == Init => MInv
<1> SUFFICES ASSUME Init PROVE MInv
  OBVIOUS
<1>1. ledger = {} /\ Taken = {} /\ NoCredits
  BY DEF Init, Taken, NoCredits
<1>2. Countable
  BY <1>1, FS_EmptySet DEF Countable
<1>3. DebitRows = {} /\ CreditRows = {}
  BY <1>1 DEF DebitRows, CreditRows
<1>4. InTransit = 0 /\ Amount({}) = 0
  BY <1>1, SumEmpty DEF InTransit, Amount
<1>5. Funds = InitBalance
  BY <1>3, <1>4, AmountsAssumption DEF Funds
<1>6. BooksBalance
  BY <1>4, <1>5, AmountsAssumption DEF BooksBalance, Init
<1> QED BY <1>1, <1>2, <1>6, InitIInv DEF MInv

(* Every step keeps the money where it is counted. *)
LEMMA StepMInv == ASSUME DebitsOnly, MInv, [Next]_vars PROVE MInv'
<1>1. IInv'
  BY StepIInv DEF MInv
<1>2. ASSUME NEW r \in Requests, Step(r) PROVE NoCredits' /\ Countable' /\ BooksBalance'
  <2>1. ~LookupDebit(r) /\ ~CreditRead(r) /\ ~CreditSave(r) /\ ~BookCredit(r)
    BY DEF LookupDebit, CreditRead, CreditSave, BookCredit, MInv, NoCredits
  <2> QED BY <1>2, <2>1, BeginMoney, PriceMoney, CommitMoney, LookupMoney, DebitMoney,
             BookDebitMoney, UndoMoney DEF Step
<1>3. CASE UNCHANGED vars
  <2>1. Taken' = Taken /\ InTransit' = InTransit /\ Funds' = Funds
    BY <1>3 DEF vars, Taken, InTransit, Funds, CreditRows, DebitRows
  <2> QED BY <1>1, <1>3, <2>1 DEF vars, MInv, NoCredits, Countable, BooksBalance
<1> QED BY <1>1, <1>2, <1>3, CrashMoney DEF Next, MInv

(* The invariant of the money, for any requests and amounts. *)
THEOREM MoneyInductive == ASSUME DebitsOnly PROVE Spec => []MInv
BY InitMInv, StepMInv, PTL DEF Spec

(* The balance and the debits in transit are what the ledger says.         *)
THEOREM BooksStayBalanced == ASSUME DebitsOnly PROVE Spec => []BooksBalance
<1>1. MInv => BooksBalance
  BY DEF MInv
<1> QED BY <1>1, MoneyInductive, PTL

-----------------------------------------------------------------------------
(* The account that the wallet implements: what it has to spend is what    *)
(* the ledger says, what it has paid for are the debited orders.           *)
Paid == {row.ref : row \in DebitRows}

(* A handler that books a debit pays for an order not yet paid, out of     *)
(* money that is there.                                                    *)
LEMMA BookingPays ==
  ASSUME MInv, NEW r \in Requests, call[r] \in Calls, call[r].op \in {"checkout", "debit"},
         AtWork(r), ~Booked("order_payment", call[r].ref), due[r] <= Funds,
         ledger' = ledger \cup {Row(r)}
  PROVE  Acct!Next
<1>1. /\ Row(r) \notin ledger /\ Row(r).src = "order_payment" /\ Row(r).amt = due[r]
      /\ due[r] \in Nat /\ Row(r).ref = call[r].ref
  BY NewRow
<1>2. Funds' = Funds - due[r] /\ \A row \in ledger' : row.src = "order_payment"
  BY <1>1, Booking DEF MInv
<1>3. DebitRows = ledger /\ DebitRows' = ledger \cup {Row(r)}
  BY <1>2, AllDebits DEF MInv, DebitRows
<1>4. Paid' = Paid \cup {call[r].ref} /\ call[r].ref \notin Paid
  BY <1>1, <1>3 DEF Paid, Booked, MInv, NoCredits
<1>5. Funds \in Int /\ Funds <= InitBalance
  BY FundsAre, AmountsAssumption DEF MInv
<1>6. due[r] \in 0..InitBalance /\ call[r].ref \in Refs
  BY <1>1, <1>5, CallsAssumption, AmountsAssumption
<1>7. PICK o \in Refs, a \in 0..InitBalance : o = call[r].ref /\ a = due[r]
  BY <1>6
<1>8. o \notin Paid /\ a <= Funds /\ Funds' = Funds - a /\ Paid' = Paid \cup {o}
  BY <1>2, <1>4, <1>7
<1>9. Acct!Pay(o, a)
  BY <1>8, Zenon DEF Acct!Pay, Paid
<1> QED BY <1>9 DEF Acct!Next

(* Every step of the wallet is a payment, or nothing to the account.       *)
LEMMA StepPays ==
  ASSUME DebitsOnly, MInv, [Next]_vars PROVE Acct!Next \/ UNCHANGED <<Funds, Paid>>
<1>1. CASE UNCHANGED ledger
  BY <1>1 DEF Funds, Paid, CreditRows, DebitRows
<1>2. ASSUME NEW r \in Requests, CommitCheckout(r), ~UNCHANGED ledger PROVE Acct!Next
  <2>1. /\ ledger' = ledger \cup {Row(r)} /\ ~Booked("order_payment", call[r].ref)
        /\ balance >= due[r] /\ pc[r] = "commit"
    BY <1>2 DEF CommitCheckout, Funded
  <2>2. call[r] \in Calls /\ call[r].op = "checkout" /\ AtWork(r) /\ due[r] \in Nat
    BY <2>1 DEF MInv, IInv, TypeOK, LabelsOK, LabelOK, AtWork
  <2>3. due[r] <= Funds
    <3>1. balance + InTransit <= Funds /\ balance \in Int
      BY DEF MInv, BooksBalance, IInv, TypeOK
    <3>2. InTransit \in Nat /\ Funds \in Int
      BY TransitIs, FundsAre, AmountsAssumption DEF MInv
    <3> QED BY <2>1, <2>2, <3>1, <3>2
  <2> QED BY <2>1, <2>2, <2>3, BookingPays
<1>3. ASSUME NEW r \in Requests, BookDebit(r), ~UNCHANGED ledger PROVE Acct!Next
  <2>1. ledger' = ledger \cup {Row(r)} /\ Insertable(call[r]) /\ pc[r] = "bookDebit"
    BY <1>3 DEF BookDebit
  <2>2. call[r] \in Calls /\ call[r].op = "debit" /\ AtWork(r) /\ due[r] \in Nat
    BY <2>1 DEF MInv, IInv, TypeOK, LabelsOK, LabelOK, AtWork
  <2>3. ~Booked("order_payment", call[r].ref)
    BY <2>1, <2>2 DEF Insertable, Source, Reference, IndexedSources
  <2>4. due[r] <= Funds
    <3>1. balance + InTransit <= Funds /\ balance \in Nat
      BY DEF MInv, BooksBalance, IInv, TypeOK, NonNegative
    <3>2. InTransit \in Nat /\ Funds \in Int
      BY TransitIs, FundsAre, AmountsAssumption DEF MInv
    <3>3. due[r] <= InTransit
      BY <2>1, TransitIs DEF Taken, MInv
    <3> QED BY <2>2, <3>1, <3>2, <3>3
  <2> QED BY <2>1, <2>2, <2>3, <2>4, BookingPays
<1>4. ASSUME NEW r \in Requests, Step(r), ~CommitCheckout(r), ~BookDebit(r) PROVE UNCHANGED ledger
  <2>1. ~BookCredit(r)
    BY DEF BookCredit, MInv, NoCredits
  <2> QED BY <1>4, <2>1 DEF Step, Begin, PriceCheckout, Lookup, LookupDebit, Debit, CreditRead,
                            CreditSave, Undo
<1>5. CASE Crash \/ UNCHANGED vars
  BY <1>1, <1>5 DEF Crash, vars
<1> QED BY <1>1, <1>2, <1>3, <1>4, <1>5 DEF Next

(* A wallet nobody credits pays like an account: every order it pays for   *)
(* once, in one step, out of money that is there.                          *)
THEOREM ImplementsAccount == ASSUME DebitsOnly PROVE Spec => PaysLikeAnAccount
<1>1. Init => Acct!Init
  <2> SUFFICES ASSUME Init PROVE Acct!Init
    OBVIOUS
  <2>1. DebitRows = {} /\ CreditRows = {}
    BY DEF Init, DebitRows, CreditRows
  <2>2. Amount({}) = 0
    BY SumEmpty DEF Amount
  <2>3. Funds = InitBalance
    BY <2>1, <2>2, AmountsAssumption DEF Funds
  <2> QED BY <2>1, <2>3 DEF Acct!Init
<1>2. MInv /\ [Next]_vars => [Acct!Next]_<<Funds, {row.ref : row \in DebitRows}>>
  BY StepPays DEF Paid
<1> QED BY <1>1, <1>2, MoneyInductive, PTL DEF PaysLikeAnAccount, Acct!Spec, Spec
=============================================================================
