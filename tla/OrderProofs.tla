----------------------------- MODULE OrderProofs -----------------------------
(* For any number of handlers, platforms, sessions and crashes: no order   *)
(* counts as paid without a capture, types, who gives the wallet back; and *)
(* the gateway's handlers by themselves implement the abstract checkout.   *)
EXTENDS OrderOutcome, FiniteSetTheorems, WellFoundedInduction, TLAPS

-----------------------------------------------------------------------------
(* A set of attempt numbers that is not empty has a latest one.            *)
Under == {ss \in Nat \X Nat : ss[1] < ss[2]}
(* Numbers do not go down forever.                                         *)
LEMMA UnderWellFounded == IsWellFoundedOn(Under, Nat)
<1>1. Under = OpToRel(<, Nat)
  BY DEF Under, OpToRel
<1> QED BY <1>1, NatLessThanWellFounded

(* A set of numbers up to n that is not empty has a greatest one.          *)
LEMMA HasGreatest == ASSUME NEW n \in Nat, NEW T \in SUBSET (1..n), T # {}
                     PROVE  \E x \in T : \A y \in T : y <= x
<1> DEFINE Below == {n - x : x \in T}
<1>1. Below \in SUBSET Nat /\ Below # {}
  <2>1. \A x \in T : n - x \in Nat
    OBVIOUS
  <2>2. PICK x \in T : TRUE
    OBVIOUS
  <2>3. n - x \in Below
    OBVIOUS
  <2> QED BY <2>1, <2>3
<1>2. PICK m \in Below : \A k \in Below : ~(<<k, m>> \in Under)
  <2> HIDE DEF Below
  <2> QED BY <1>1, UnderWellFounded, WFMin
<1>3. \A k \in Below : ~(k < m)
  BY <1>1, <1>2 DEF Under
<1>4. PICK x \in T : m = n - x
  OBVIOUS
<1>5. ASSUME NEW y \in T PROVE y <= x
  <2>1. ~(n - y < n - x)
    BY <1>3, <1>4
  <2> QED BY <2>1
<1> QED BY <1>5

-----------------------------------------------------------------------------
(* The invariant.  Attempts are numbered without a gap, each has a session *)
(* the gateway knows.                                                      *)
Row == [txn : Nat, platform : Platforms, status : Statuses,
        hashed : BOOLEAN, verified : BOOLEAN, age : 0..3]
RowsOK == /\ \E n \in Nat : DOMAIN rows = 1..n
          /\ rows \in [DOMAIN rows -> Row]
          /\ \A a \in DOMAIN rows : rows[a].txn \in DOMAIN emitted
          /\ IsFiniteSet(DOMAIN emitted) /\ \A t \in DOMAIN emitted : emitted[t] \subseteq Codes

(* A handler has what its next step takes from its record.                 *)
Labels == {"idle", "release", "clear", "dispatch", "claim", "void", "voidClaim",
           "walletClaim", "walletCredit", "walletUnclaim", "cartClaim", "cartRestore",
           "order", "settle", "reread", "savePaid", "saveFailed", "abortClaim",
           "abortReread", "abortOrder", "pollOrder", "expire", "cronLatest", "cronOrder",
           "cronFail", "statusLatest", "cancelLoad", "cancelCredit", "refundLookup",
           "refundCreate", "cancelSave", "latest", "upsert"}
Handler == [job : Jobs \cup {"none"}, pc : Labels, a : Nat,
            arg : Codes \cup Platforms \cup {"none", "failed", "unknown"},
            ok : BOOLEAN, row : Row, o : OrderType]
Fits(x) == /\ x.pc \in {"order", "settle"} => x.a \in DOMAIN rows /\ x.arg \in Codes
           /\ x.pc = "reread" => x.a \in DOMAIN rows
           /\ x.pc = "expire" => x.arg \in {"failed", "unknown"} /\ x.row.status \notin Terminal
           /\ x.pc = "latest" => x.arg \in Platforms
           /\ x.pc = "upsert" => /\ x.arg \in Platforms /\ x.a \in Nat \ {0}
                                 /\ x.a = 1 \/ x.a - 1 \in DOMAIN rows
Fitted == {"order", "settle", "reread", "expire", "latest", "upsert"}

(* Where a handler is about to pay, release or refund.                     *)
Paying == {"clear", "dispatch", "claim", "savePaid", "cancelCredit", "refundLookup",
           "refundCreate"}
Unmoved == order.pay # "paid" /\ ~order.released /\ ~shop /\ refundReqs = 0
Benign(x) == /\ x.pc \notin Paying
             /\ x.o.pay # "paid" /\ ~x.o.released /\ ~Verified(x.row)
             /\ x.pc \in {"order", "settle"} => ~(x.ok /\ x.arg = "success")
NoneVerified == \A a \in DOMAIN rows : ~Verified(rows[a])
Clean == Unmoved /\ NoneVerified /\ \A s \in Slots : Benign(h[s])

Typed == /\ order \in OrderType /\ RowsOK
         /\ h \in [Slots -> Handler] /\ \A s \in Slots : Fits(h[s])
Safe == Typed /\ (Captured \/ Clean)

(* A handler that does nothing is well formed and knows of no payment.     *)
LEMMA Blank == /\ NewRow \in Row /\ ~Verified(NewRow) /\ NewOrder \in OrderType
               /\ NewOrder.pay # "paid" /\ ~NewOrder.released
               /\ Idle \in Handler /\ Fits(Idle) /\ Benign(Idle)
<1>1. NewRow \in Row /\ ~Verified(NewRow)
  <2>1. ASSUME NEW p \in Platforms
        PROVE  [txn |-> 1, platform |-> p, status |-> "created", hashed |-> FALSE,
                verified |-> TRUE, age |-> 0] \in Row
    BY DEF Row, Statuses, Terminal
  <2>2. NewRow = [txn |-> 1, platform |-> NewRow.platform, status |-> "created",
                  hashed |-> FALSE, verified |-> TRUE, age |-> 0]
    BY DEF NewRow
  <2>3. NewRow \in Row
    <3>1. NewRow.platform \in Platforms
      BY PlatformsAssumption DEF NewRow
    <3> QED BY <2>1, <2>2, <3>1
  <2>4. NewRow.status = "created"
    BY DEF NewRow
  <2> QED BY <2>3, <2>4 DEF Verified
<1>2. NewOrder \in OrderType /\ NewOrder.pay # "paid" /\ ~NewOrder.released
  BY DEF NewOrder, OrderType
<1>3. Idle \in Handler
  <2>1. ASSUME NEW r \in Row, NEW o \in OrderType
        PROVE  [job |-> "none", pc |-> "idle", a |-> 0, arg |-> "none", ok |-> FALSE,
                row |-> r, o |-> o] \in Handler
    BY DEF Handler, Labels
  <2> QED BY <2>1, <1>1, <1>2 DEF Idle
<1>4. Idle.pc = "idle" /\ Idle.row = NewRow /\ Idle.o = NewOrder
  BY DEF Idle
<1>5. Fits(Idle) /\ Benign(Idle)
  BY <1>1, <1>2, <1>4 DEF Fits, Benign, Paying
<1> QED BY <1>1, <1>2, <1>3, <1>5

(* The order starts unpaid, with one open attempt or none.                 *)
LEMMA InitSafe == Init => Safe
<1> SUFFICES ASSUME Init PROVE Safe
  OBVIOUS
<1>1. CASE rows = <<>> /\ emitted = <<>>
  <2>1. DOMAIN rows = 1..0 /\ DOMAIN emitted = {} /\ rows \in [{} -> Row]
    BY <1>1
  <2>2. RowsOK
    BY <2>1, FS_EmptySet DEF RowsOK
  <2> QED BY <2>1, <2>2, Blank DEF Init, Safe, Typed, Clean, Unmoved, NoneVerified
<1>2. CASE rows = <<NewRow>> /\ emitted = << {} >>
  <2>1. DOMAIN rows = 1..1 /\ DOMAIN emitted = {1} /\ rows[1] = NewRow
    BY <1>2
  <2>2. RowsOK
    <3>1. rows \in [{1} -> Row] /\ {1} = 1..1
      BY <1>2, Blank
    <3>2. NewRow.txn = 1 /\ IsFiniteSet({1})
      BY FS_Singleton DEF NewRow
    <3>3. emitted[1] = {}
      BY <1>2
    <3> QED BY <2>1, <3>1, <3>2, <3>3 DEF RowsOK
  <2> QED BY <2>1, <2>2, Blank DEF Init, Safe, Typed, Clean, Unmoved, NoneVerified
<1> QED BY <1>1, <1>2 DEF Init

-----------------------------------------------------------------------------
(* What a step may do to the order and its attempts.                       *)
Sound == /\ RowsOK' /\ DOMAIN rows \subseteq DOMAIN rows' /\ order' \in OrderType
         /\ Captured => Captured'
         /\ ~Captured => Unmoved' /\ NoneVerified'

(* One handler moves.                                                      *)
LEMMA Moves ==
  ASSUME Safe, NEW s \in Slots, NEW x \in Handler, h' = [h EXCEPT ![s] = x],
         Sound, Fits(x), ~Captured => Benign(x)
  PROVE  Safe'
<1>1. h' \in [Slots -> Handler] /\ h'[s] = x /\ \A q \in Slots \ {s} : h'[q] = h[q]
  BY DEF Safe, Typed
<1>2. \A q \in Slots : Fits(h[q])'
  BY <1>1 DEF Safe, Typed, Fits, Sound
<1>3. ~Captured => Clean'
  BY <1>1 DEF Safe, Clean, Benign, Sound
<1> QED BY <1>1, <1>2, <1>3 DEF Safe, Typed, Sound

(* It only goes on to another label.                                       *)
LEMMA GoesOn ==
  ASSUME Safe, NEW s \in Slots, NEW label \in Labels, label \notin Fitted,
         label \in Paying => Captured,
         Goto(s, label) \/ Enter(s, label) \/ End(s), Sound
  PROVE  Safe'
<1>1. h[s] \in Handler /\ (~Captured => Benign(h[s]))
  BY DEF Safe, Typed, Clean
<1>2. CASE Goto(s, label)
  <2> DEFINE x == [h[s] EXCEPT !.pc = label]
  <2>1. x \in Handler /\ x.pc = label /\ x.o = h[s].o /\ x.row = h[s].row
    BY <1>1 DEF Handler
  <2>2. h' = [h EXCEPT ![s] = x]
    BY <1>2 DEF Goto
  <2>3. Fits(x) /\ (~Captured => Benign(x))
    BY <1>1, <2>1 DEF Fits, Fitted, Benign
  <2> HIDE DEF x
  <2> QED BY <2>1, <2>2, <2>3, Moves
<1>3. CASE Enter(s, label)
  <2> DEFINE x == [Idle EXCEPT !.job = h[s].job, !.pc = label]
  <2>1. x \in Handler /\ x.pc = label /\ x.o = Idle.o /\ x.row = Idle.row
    BY <1>1, Blank DEF Handler
  <2>2. h' = [h EXCEPT ![s] = x]
    BY <1>3 DEF Enter
  <2>3. Fits(x) /\ (~Captured => Benign(x))
    BY <2>1, Blank DEF Fits, Fitted, Benign
  <2> HIDE DEF x
  <2> QED BY <2>1, <2>2, <2>3, Moves
<1>4. CASE End(s)
  BY <1>4, Blank, Moves DEF End
<1> QED BY <1>2, <1>3, <1>4

(* It starts.                                                              *)
LEMMA Starts ==
  ASSUME Safe, NEW s \in Slots, NEW job \in Jobs, NEW label \in Labels \ Paying, NEW a \in Nat,
         NEW arg \in Codes \cup Platforms \cup {"none", "failed", "unknown"},
         NEW ok \in BOOLEAN, NEW row \in Row, Start(s, job, label, a, arg, ok, row), Sound,
         label = "order" => a \in DOMAIN rows /\ arg \in Codes,
         label = "expire" => arg \in {"failed", "unknown"} /\ row.status \notin Terminal,
         label = "latest" => arg \in Platforms,
         label \notin {"settle", "reread", "upsert"},
         ~Captured => ~Verified(row) /\ ~(label = "order" /\ ok /\ arg = "success")
  PROVE  Safe'
<1> DEFINE x == [Idle EXCEPT !.job = job, !.pc = label, !.a = a, !.arg = arg,
                             !.ok = ok, !.row = row]
<1>1. x \in Handler
  BY Blank DEF Handler
<1>2. x.pc = label /\ x.a = a /\ x.arg = arg /\ x.ok = ok /\ x.row = row /\ x.o = NewOrder
  BY Blank DEF Handler, Idle
<1>3. h' = [h EXCEPT ![s] = x]
  BY DEF Start
<1>4. Fits(x)
  BY <1>2 DEF Fits
<1>5. ~Captured => Benign(x)
  BY <1>2, Blank DEF Benign
<1> HIDE DEF x
<1> QED BY <1>1, <1>3, <1>4, <1>5, Moves

(* What a handler's step leaves as it is, or writes into the order.        *)
LEMMA Keeps == ASSUME Safe, UNCHANGED <<order, rows, emitted, elsewhere, shop, refundReqs>> PROVE Sound
<1>1. RowsOK' /\ (Captured => Captured') /\ order' \in OrderType
  BY DEF RowsOK, Safe, Typed, Captured
<1>2. ~Captured => NoneVerified' /\ Unmoved'
  BY DEF NoneVerified, Unmoved, Safe, Clean
<1> QED BY <1>1, <1>2 DEF Sound

(* The attempts stay; without a capture the order stays unmoved.           *)
LEMMA Writes == ASSUME Safe, UNCHANGED <<rows, emitted, elsewhere>>, order' \in OrderType,
                       ~Captured => Unmoved'
                PROVE  Sound
<1>1. RowsOK' /\ (Captured => Captured')
  BY DEF RowsOK, Safe, Typed, Captured
<1>2. ~Captured => NoneVerified'
  BY DEF NoneVerified, Safe, Clean
<1> QED BY <1>1, <1>2 DEF Sound

(* It changes the order, but neither pays nor releases it.                 *)
LEMMA Marks == ASSUME Safe, UNCHANGED <<rows, emitted, elsewhere, shop, refundReqs>>, order' \in OrderType,
                      order'.pay = "paid" => Captured \/ order.pay = "paid",
                      order'.released => Captured \/ order.released
               PROVE  Sound
BY Writes DEF Safe, Clean, Unmoved

(* What it writes into attempts, which keep their sessions.                *)
LEMMA Answers ==
  ASSUME Safe, UNCHANGED <<order, emitted, elsewhere, shop, refundReqs>>, DOMAIN rows' = DOMAIN rows,
         rows' \in [DOMAIN rows -> Row],
         \A a \in DOMAIN rows : rows'[a].txn = rows[a].txn /\ (Verified(rows'[a]) => Captured)
  PROVE  Sound
<1>1. RowsOK' /\ (Captured => Captured') /\ order' \in OrderType
  BY DEF RowsOK, Safe, Typed, Captured
<1>2. ~Captured => NoneVerified' /\ Unmoved'
  BY DEF NoneVerified, Unmoved, Safe, Clean, Verified
<1> QED BY <1>1, <1>2 DEF Sound

(* A handler about to pay, release or refund knows of a capture, and so    *)
(* does one that read an order that is paid or released.                   *)
LEMMA Pays == ASSUME Safe, NEW s \in Slots, h[s].pc \in Paying PROVE Captured
BY DEF Safe, Clean, Benign

(* An attempt that is a verified success was captured.                     *)
LEMMA Held == ASSUME Safe, NEW a \in DOMAIN rows
              PROVE  rows[a] \in Row /\ (Verified(rows[a]) => Captured)
BY DEF Safe, Typed, Clean, NoneVerified, RowsOK

(* What a handler has read, or reads now, and what follows from it.        *)
LEMMA Reads == ASSUME Safe, NEW s \in Slots
               PROVE  /\ order \in OrderType /\ h[s] \in Handler /\ Fits(h[s])
                      /\ order.pay = "paid" \/ order.released => Captured
                      /\ h[s].o.pay = "paid" \/ h[s].o.released => Captured
                      /\ Verified(h[s].row) => Captured
                      /\ \A a \in DOMAIN rows : rows[a] \in Row /\ (Verified(rows[a]) => Captured)
BY DEF Safe, Typed, Clean, Unmoved, Benign, NoneVerified, RowsOK

-----------------------------------------------------------------------------
(* releaseOrderFulfillment. *)
LEMMA FulfilSafe == ASSUME Safe, NEW s \in Slots, Fulfil(s) PROVE Safe'
<1>1. CASE Release(s)
  <2>1. Sound
    BY <1>1, Keeps DEF Release, db, goods, env
  <2>2. (Goto(s, "clear") /\ Captured) \/ End(s)
    BY <1>1, Reads DEF Release
  <2> QED BY <2>1, <2>2, GoesOn DEF Labels, Fitted, Paying
<1>2. CASE ClearCart(s)
  <2>1. Captured /\ Sound /\ Goto(s, "dispatch")
    BY <1>2, Pays, Keeps DEF ClearCart, At, Paying, env
  <2> QED BY <2>1, GoesOn DEF Labels, Fitted
<1>3. CASE Dispatch(s)
  <2>1. Captured
    BY <1>3, Pays DEF Dispatch, At, Paying
  <2>2. Sound /\ Goto(s, "claim")
    BY <1>3, <2>1, Reads, Writes DEF Dispatch, env
  <2> QED BY <2>1, <2>2, GoesOn DEF Labels, Fitted
<1>4. CASE ClaimRelease(s)
  <2>1. Captured /\ order' \in OrderType
    BY <1>4, Pays, Reads DEF ClaimRelease, At, Paying, OrderType
  <2>2. Sound /\ End(s)
    BY <1>4, <2>1, Writes DEF ClaimRelease, goods, env
  <2> QED BY <2>1, <2>2, GoesOn DEF Labels, Fitted, Paying
<1> QED BY <1>1, <1>2, <1>3, <1>4 DEF Fulfil

(* voidUnpaidOnlineOrder, with the wallet and the cart. *)
LEMMA UndoSafe == ASSUME Safe, NEW s \in Slots, Undo(s) PROVE Safe'
<1> USE DEF Labels, Fitted, Paying
<1>1. CASE Void(s)
  <2>1. Sound /\ (Goto(s, "voidClaim") \/ End(s))
    BY <1>1, Keeps DEF Void, db, goods, env
  <2> QED BY <2>1, GoesOn
<1>2. CASE ClaimVoid(s)
  <2>1. order' \in OrderType /\ order'.released = order.released
        /\ (order'.pay = "paid" => order.pay = "paid")
    BY <1>2, Reads DEF ClaimVoid, OrderType
  <2>2. Sound /\ (Goto(s, "walletClaim") \/ End(s))
    BY <1>2, <2>1, Marks DEF ClaimVoid, goods, env
  <2> QED BY <2>2, GoesOn
<1>3. CASE ClaimWallet(s)
  <2>1. order' \in OrderType /\ order'.released = order.released /\ order'.pay = order.pay
    BY <1>3, Reads DEF ClaimWallet, OrderType
  <2>2. Sound
    BY <1>3, <2>1, Marks DEF ClaimWallet, goods, env
  <2>3. Goto(s, "walletCredit") \/ Goto(s, "cartClaim") \/ Goto(s, "cancelSave")
    BY <1>3 DEF ClaimWallet, AfterWallet
  <2> QED BY <2>2, <2>3, GoesOn
<1>4. CASE CreditWallet(s)
  <2>1. Sound
    BY <1>4, Keeps DEF CreditWallet, env
  <2>2. Goto(s, "walletUnclaim") \/ Goto(s, "cartClaim") \/ Goto(s, "cancelSave")
    BY <1>4 DEF CreditWallet, AfterWallet, AfterThrow
  <2> QED BY <2>1, <2>2, GoesOn
<1>5. CASE UnclaimWallet(s)
  <2>1. order' \in OrderType /\ order'.released = order.released /\ order'.pay = order.pay
    BY <1>5, Reads DEF UnclaimWallet, OrderType
  <2>2. Sound
    BY <1>5, <2>1, Marks DEF UnclaimWallet, goods, env
  <2>3. Goto(s, "cartClaim") \/ Goto(s, "cancelSave")
    BY <1>5 DEF UnclaimWallet, AfterWallet
  <2> QED BY <2>2, <2>3, GoesOn
<1>6. CASE ClaimCart(s)
  <2>1. order' \in OrderType /\ order'.released = order.released /\ order'.pay = order.pay
    BY <1>6, Reads DEF ClaimCart, OrderType
  <2>2. Sound /\ (End(s) \/ Goto(s, "cartRestore"))
    BY <1>6, <2>1, Marks DEF ClaimCart, goods, env
  <2> QED BY <2>2, GoesOn
<1>7. CASE RestoreCart(s)
  <2>1. Sound /\ End(s)
    BY <1>7, Keeps DEF RestoreCart, env
  <2> QED BY <2>1, GoesOn
<1> QED BY <1>1, <1>2, <1>3, <1>4, <1>5, <1>6, <1>7 DEF Undo

(* A gateway answer that is taken in. *)
LEMMA CallbackSafe == ASSUME Safe, NEW s \in Slots, Callback(s) PROVE Safe'
<1>0. h[s] \in Handler /\ Fits(h[s]) /\ (~Captured => Benign(h[s]))
  BY DEF Safe, Typed, Clean
<1>1. CASE LoadOrder(s)
  <2> DEFINE x == [h[s] EXCEPT !.o = order, !.pc = "settle"]
  <2>1. /\ x \in Handler /\ x.o = order /\ x.pc = "settle" /\ x.a = h[s].a
        /\ x.arg = h[s].arg /\ x.ok = h[s].ok /\ x.row = h[s].row
    BY <1>0, Reads DEF Handler, Labels
  <2>2. Fits(x)
    BY <1>0, <1>1, <2>1 DEF LoadOrder, At, Fits
  <2>3. ~Captured => Benign(x)
    BY <1>0, <1>1, <2>1, Reads DEF LoadOrder, At, Benign, Paying
  <2>4. h' = [h EXCEPT ![s] = x] /\ Sound
    BY <1>1, Keeps DEF LoadOrder, db, goods, env
  <2> HIDE DEF x
  <2> QED BY <2>1, <2>2, <2>3, <2>4, Moves
<1>2. ASSUME NEW row \in Row, Verified(row) => Captured, Follow(s, row), Sound PROVE Safe'
  <2>1. (Goto(s, "savePaid") /\ Captured) \/ Goto(s, "saveFailed") \/ End(s)
    BY <1>2 DEF Follow
  <2> QED BY <1>2, <2>1, GoesOn DEF Labels, Fitted, Paying
<1>3. CASE Settle(s)
  <2> DEFINE a == h[s].a
  <2>1. a \in DOMAIN rows /\ h[s].arg \in Codes /\ h[s].ok \in BOOLEAN /\ rows[a] \in Row
    BY <1>0, <1>3, Reads DEF Settle, At, Fits, Handler
  <2>2. h[s].ok /\ h[s].arg = "success" => Captured
    BY <1>0, <1>3 DEF Settle, At, Benign
  <2>3. CASE Settleable(rows[a]) /\ UNCHANGED <<order, goods, env>>
             /\ \E hashed \in BOOLEAN :
                  rows' = [rows EXCEPT ![a].status = StatusOf(h[s].arg, h[s].ok),
                                       ![a].hashed = hashed, ![a].verified = h[s].ok]
             /\ Follow(s, rows'[a])
    <3>1. PICK hashed \in BOOLEAN :
                  rows' = [rows EXCEPT ![a].status = StatusOf(h[s].arg, h[s].ok),
                                       ![a].hashed = hashed, ![a].verified = h[s].ok]
      BY <2>3
    <3> DEFINE r == [rows[a] EXCEPT !.status = StatusOf(h[s].arg, h[s].ok),
                                    !.hashed = hashed, !.verified = h[s].ok]
    <3>2. StatusOf(h[s].arg, h[s].ok) \in Statuses
      BY <2>1, BoundsAssumption DEF StatusOf, Statuses, Terminal
    <3>3. /\ r \in Row /\ r.txn = rows[a].txn /\ r.verified = h[s].ok
          /\ r.status = StatusOf(h[s].arg, h[s].ok)
      BY <2>1, <3>2 DEF Row
    <3>4. Verified(r) => Captured
      BY <2>2, <3>3 DEF Verified, StatusOf
    <3>5. rows' = [rows EXCEPT ![a] = r]
      BY <2>1, <3>1 DEF Safe, Typed, RowsOK
    <3> HIDE DEF r
    <3>6. /\ DOMAIN rows' = DOMAIN rows /\ rows' \in [DOMAIN rows -> Row] /\ rows'[a] = r
          /\ \A b \in DOMAIN rows \ {a} : rows'[b] = rows[b]
      BY <2>1, <3>3, <3>5 DEF Safe, Typed, RowsOK
    <3>7. \A b \in DOMAIN rows : rows'[b].txn = rows[b].txn /\ (Verified(rows'[b]) => Captured)
      BY <3>3, <3>4, <3>6, Reads
    <3>8. Sound
      BY <2>3, <3>6, <3>7, Answers DEF goods, env
    <3> QED BY <1>2, <2>3, <3>3, <3>4, <3>6, <3>8
  <2>4. CASE UNCHANGED <<order, goods, env, rows>> /\ Goto(s, "reread")
    <3> DEFINE x == [h[s] EXCEPT !.pc = "reread"]
    <3>1. /\ x \in Handler /\ x.o = h[s].o /\ x.pc = "reread" /\ x.a = h[s].a
          /\ x.row = h[s].row
      BY <1>0 DEF Handler, Labels
    <3>2. Fits(x) /\ (~Captured => Benign(x))
      BY <1>0, <2>1, <3>1 DEF Fits, Benign, Paying
    <3>3. h' = [h EXCEPT ![s] = x] /\ Sound
      BY <2>4, Keeps DEF Goto, goods, env
    <3> HIDE DEF x
    <3> QED BY <3>1, <3>2, <3>3, Moves
  <2> QED BY <1>3, <2>3, <2>4 DEF Settle
<1>4. CASE Reread(s)
  <2>1. h[s].a \in DOMAIN rows
    BY <1>0, <1>4 DEF Reread, At, Fits
  <2>2. Sound /\ Follow(s, rows[h[s].a])
    BY <1>4, Keeps DEF Reread, goods, env
  <2> QED BY <1>2, <2>1, <2>2, Reads
<1>5. CASE SavePaid(s)
  <2>1. Captured
    BY <1>5, Pays DEF SavePaid, SavePay, At, Paying
  <2>2. order' \in OrderType
    BY <1>5, Reads DEF SavePaid, SavePay, OrderType
  <2>3. Sound /\ Enter(s, "release")
    BY <1>5, <2>1, <2>2, Writes DEF SavePaid, SavePay, env
  <2> QED BY <2>3, GoesOn DEF Labels, Fitted, Paying
<1>6. CASE SaveFailed(s)
  <2>1. order' \in OrderType /\ order'.released = order.released
        /\ (order'.pay = "paid" => order.pay = "paid")
    BY <1>6, Reads DEF SaveFailed, SavePay, OrderType
  <2>2. Sound /\ Enter(s, "void")
    BY <1>6, <2>1, Marks DEF SaveFailed, SavePay, goods, env
  <2> QED BY <2>2, GoesOn DEF Labels, Fitted, Paying
<1> QED BY <1>1, <1>3, <1>4, <1>5, <1>6 DEF Callback

(* abortPayment. *)
LEMMA AbortingSafe == ASSUME Safe, NEW s \in Slots, Aborting(s) PROVE Safe'
<1> USE DEF Labels, Fitted, Paying
<1>1. CASE ClaimAbort(s)
  <2> DEFINE a == h[s].a
  <2>1. /\ DOMAIN rows' = DOMAIN rows /\ rows' \in [DOMAIN rows -> Row]
        /\ \A b \in DOMAIN rows : /\ rows'[b].txn = rows[b].txn
                                  /\ rows'[b] = rows[b] \/ rows'[b].status = "cancelled"
    <3>1. /\ rows \in [DOMAIN rows -> Row]
          /\ rows' = rows \/ rows' = [rows EXCEPT ![a].status = "cancelled"]
      BY <1>1 DEF ClaimAbort, Safe, Typed, RowsOK
    <3> QED BY <3>1 DEF Row, Statuses, Terminal
  <2>2. Sound
    BY <1>1, <2>1, Answers, Reads DEF ClaimAbort, Verified, goods, env
  <2>3. Goto(s, "abortOrder") \/ Goto(s, "abortReread")
    BY <1>1 DEF ClaimAbort
  <2> QED BY <2>2, <2>3, GoesOn
<1>2. CASE RereadAborted(s)
  <2>1. Sound /\ (Goto(s, "abortOrder") \/ End(s))
    BY <1>2, Keeps DEF RereadAborted, db, goods, env
  <2> QED BY <2>1, GoesOn
<1>3. CASE AbortOrder(s)
  <2>1. Sound /\ (Enter(s, "void") \/ End(s))
    BY <1>3, Keeps DEF AbortOrder, db, goods, env
  <2> QED BY <2>1, GoesOn
<1> QED BY <1>1, <1>2, <1>3 DEF Aborting

(* Reconciliation on read, by the job and by the status self-heal. *)
LEMMA ReconcileSafe == ASSUME Safe, NEW s \in Slots, Reconcile(s) PROVE Safe'
<1> USE DEF Labels, Fitted, Paying
<1>0. h[s] \in Handler /\ Fits(h[s]) /\ (~Captured => Benign(h[s]))
  BY DEF Safe, Typed, Clean
<1>1. CASE PollOrder(s)
  <2>1. Sound
    BY <1>1, Keeps DEF PollOrder, goods, env
  <2>2. CASE End(s) \/ Enter(s, "release") \/ Enter(s, "void")
    BY <2>1, <2>2, GoesOn
  <2>3. CASE Verified(h[s].row) /\ h' = [h EXCEPT ![s] = [Idle EXCEPT !.job = "poll",
                                                    !.pc = "savePaid", !.o = order]]
    <3> DEFINE x == [Idle EXCEPT !.job = "poll", !.pc = "savePaid", !.o = order]
    <3>1. x \in Handler /\ x.pc = "savePaid"
      BY Blank, Reads DEF Handler, Jobs
    <3>2. Fits(x) /\ Captured
      BY <2>3, <3>1, Reads DEF Fits
    <3>3. h' = [h EXCEPT ![s] = x]
      BY <2>3
    <3> HIDE DEF x
    <3> QED BY <2>1, <3>1, <3>2, <3>3, Moves
  <2>4. CASE /\ h[s].row.status \notin Terminal
             /\ h' = [h EXCEPT ![s].pc = "expire", ![s].arg = "failed"]
    <3> DEFINE x == [h[s] EXCEPT !.pc = "expire", !.arg = "failed"]
    <3>1. /\ x \in Handler /\ x.o = h[s].o /\ x.pc = "expire" /\ x.arg = "failed"
          /\ x.row = h[s].row
      BY <1>0 DEF Handler
    <3>2. Fits(x) /\ (~Captured => Benign(x))
      BY <1>0, <2>4, <3>1 DEF Fits, Benign
    <3>3. h' = [h EXCEPT ![s] = x]
      BY <2>4 DEF Safe, Typed
    <3> HIDE DEF x
    <3> QED BY <2>1, <3>1, <3>2, <3>3, Moves
  <2> QED BY <1>1, <2>2, <2>3, <2>4 DEF PollOrder
<1>2. CASE ExpireRow(s)
  <2> DEFINE a == h[s].a
  <2>1. h[s].arg \in {"failed", "unknown"}
    BY <1>0, <1>2 DEF ExpireRow, At, Fits
  <2>2. /\ DOMAIN rows' = DOMAIN rows /\ rows' \in [DOMAIN rows -> Row]
        /\ \A b \in DOMAIN rows : /\ rows'[b].txn = rows[b].txn
                                  /\ rows'[b] = rows[b] \/ rows'[b].status # "success"
    BY <1>2, <2>1 DEF ExpireRow, Safe, Typed, RowsOK, Row, Statuses, Terminal
  <2>3. Sound
    BY <1>2, <2>2, Answers, Reads DEF ExpireRow, Verified, goods, env
  <2>4. Enter(s, "void") \/ Goto(s, "cronLatest")
    BY <1>2 DEF ExpireRow
  <2> QED BY <2>3, <2>4, GoesOn
<1>3. CASE StatusLatest(s)
  <2>1. Sound /\ (Enter(s, "release") \/ End(s))
    BY <1>3, Keeps DEF StatusLatest, db, goods, env
  <2> QED BY <2>1, GoesOn
<1>4. CASE CronLatest(s)
  <2>1. Sound /\ (Goto(s, "cronOrder") \/ End(s))
    BY <1>4, Keeps DEF CronLatest, db, goods, env
  <2> QED BY <2>1, GoesOn
<1>5. CASE CronOrder(s)
  <2>1. order' \in OrderType /\ order'.released = order.released
        /\ (order'.pay = "paid" => order.pay = "paid")
    BY <1>5, Reads DEF CronOrder, OrderType
  <2>2. Sound
    BY <1>5, <2>1, Marks DEF CronOrder, goods, env
  <2>3. End(s) \/ Enter(s, "void") \/ Goto(s, "cronFail")
    BY <1>5 DEF CronOrder
  <2> QED BY <2>2, <2>3, GoesOn
<1>6. CASE CronFail(s)
  <2>1. order' \in OrderType /\ order'.released = order.released /\ order'.pay # "paid"
    BY <1>6, Reads DEF CronFail, OrderType
  <2>2. Sound /\ End(s)
    BY <1>6, <2>1, Marks DEF CronFail, goods, env
  <2> QED BY <2>2, GoesOn
<1> QED BY <1>1, <1>2, <1>3, <1>4, <1>5, <1>6 DEF Reconcile

(* executeCancellation. *)
LEMMA CancellingSafe == ASSUME Safe, NEW s \in Slots, Cancelling(s) PROVE Safe'
<1> USE DEF Labels, Fitted, Paying
<1>0. h[s] \in Handler /\ Fits(h[s]) /\ (~Captured => Benign(h[s]))
  BY DEF Safe, Typed, Clean
<1>1. CASE CancelLoad(s)
  <2>1. PICK label \in {"walletClaim", "cancelSave", "cancelCredit", "refundLookup"} :
          /\ label \in {"cancelCredit", "refundLookup"} => order.released
          /\ h' = [h EXCEPT ![s].o = order, ![s].pc = label]
    BY <1>1 DEF CancelLoad
  <2> DEFINE x == [h[s] EXCEPT !.o = order, !.pc = label]
  <2>2. x \in Handler /\ x.o = order /\ x.pc = label /\ x.row = h[s].row
    BY <1>0, Reads DEF Handler
  <2>3. Fits(x) /\ (~Captured => Benign(x))
    BY <1>0, <2>1, <2>2, Reads DEF Fits, Benign
  <2>4. h' = [h EXCEPT ![s] = x] /\ Sound
    BY <1>1, <2>1, Keeps DEF CancelLoad, db, goods, env, Safe, Typed
  <2> HIDE DEF x
  <2> QED BY <2>2, <2>3, <2>4, Moves
<1>2. CASE CancelCredit(s)
  <2>1. Captured
    BY <1>2, Pays DEF CancelCredit, At
  <2>2. Sound /\ (Goto(s, "refundLookup") \/ End(s))
    BY <1>2, Keeps DEF CancelCredit, env
  <2> QED BY <2>1, <2>2, GoesOn
<1>3. CASE LookupRefund(s)
  <2>1. Captured
    BY <1>3, Pays DEF LookupRefund, At
  <2>2. Sound /\ (Goto(s, "cancelSave") \/ Goto(s, "refundCreate"))
    BY <1>3, Keeps DEF LookupRefund, db, goods, env
  <2> QED BY <2>1, <2>2, GoesOn
<1>4. CASE CreateRefund(s)
  <2>1. Captured
    BY <1>4, Pays DEF CreateRefund, At
  <2>2. Sound /\ Goto(s, "cancelSave")
    BY <1>4, <2>1, Reads, Writes DEF CreateRefund, env
  <2> QED BY <2>2, GoesOn
<1>5. CASE SaveCancel(s)
  <2>1. order' \in OrderType /\ order'.released = order.released
        /\ (order'.pay = "paid" => order.pay = "paid")
    BY <1>5, Reads DEF SaveCancel, OrderType
  <2>2. Sound
    BY <1>5, <2>1, Marks DEF SaveCancel, goods, env
  <2>3. End(s) \/ Enter(s, "cartClaim")
    BY <1>5 DEF SaveCancel
  <2> QED BY <2>2, <2>3, GoesOn
<1> QED BY <1>1, <1>2, <1>3, <1>4, <1>5 DEF Cancelling

-----------------------------------------------------------------------------
(* The latest attempt is one of them.                                      *)
LEMMA Greatest == ASSUME Safe, NEW T \in SUBSET DOMAIN rows, T # {}
                  PROVE  (CHOOSE a \in T : \A b \in T : b <= a) \in T
BY HasGreatest DEF Safe, Typed, RowsOK

(* So an order with attempts has a latest one. *)
LEMMA LatestIsOne == ASSUME Safe, rows # <<>>
                     PROVE  Latest \in DOMAIN rows /\ Latest \in Nat
<1>1. DOMAIN rows # {}
  BY DEF Safe, Typed, RowsOK
<1>2. Latest \in DOMAIN rows
  BY <1>1, Greatest DEF Latest
<1> QED BY <1>2 DEF Safe, Typed, RowsOK

(* createSession. *)
LEMMA SessionSafe == ASSUME Safe, NEW s \in Slots, LatestAttempt(s) \/ Upsert(s) PROVE Safe'
<1> USE DEF Labels, Fitted, Paying
<1>0. h[s] \in Handler /\ Fits(h[s]) /\ (~Captured => Benign(h[s]))
  BY DEF Safe, Typed, Clean
<1>1. CASE LatestAttempt(s)
  <2> DEFINE mine == {a \in DOMAIN rows : rows[a].platform = h[s].arg}
             last == CHOOSE a \in mine : \A b \in mine : b <= a
             reuse == mine # {} /\ rows[last].status \notin Terminal /\ ~Expired(rows[last])
             num == IF mine = {} THEN 1 ELSE IF reuse THEN last ELSE last + 1
             row == IF mine = {} THEN NewRow ELSE rows[last]
             x == [h[s] EXCEPT !.pc = "upsert", !.ok = reuse, !.a = num, !.row = row]
  <2>1. mine # {} => last \in DOMAIN rows
    <3> mine \in SUBSET DOMAIN rows
      OBVIOUS
    <3> HIDE DEF mine
    <3> QED BY Greatest
  <2> HIDE DEF mine, last
  <2>2. \E n \in Nat : DOMAIN rows = 1..n
    BY DEF Safe, Typed, RowsOK
  <2>3. num \in Nat \ {0} /\ (num = 1 \/ num - 1 \in DOMAIN rows)
    BY <2>1, <2>2
  <2>4. row \in Row /\ reuse \in BOOLEAN /\ (Verified(row) => Captured)
    BY <2>1, Reads, Blank
  <2>5. Sound /\ h' = [h EXCEPT ![s].pc = "upsert", ![s].ok = reuse, ![s].a = num,
                               ![s].row = row]
    BY <1>1, Keeps DEF LatestAttempt, mine, last, db, goods, env
  <2> HIDE DEF num, row, reuse
  <2>9. h' = [h EXCEPT ![s] = x]
    BY <2>5 DEF Safe, Typed
  <2>6. /\ x \in Handler /\ x.o = h[s].o /\ x.pc = "upsert" /\ x.a = num /\ x.row = row
        /\ x.arg = h[s].arg
    BY <1>0, <2>3, <2>4 DEF Handler
  <2>7. Fits(x)
    BY <1>0, <1>1, <2>3, <2>6 DEF LatestAttempt, At, Fits
  <2>8. ~Captured => Benign(x)
    BY <1>0, <2>4, <2>6 DEF Benign
  <2> HIDE DEF x
  <2> QED BY <2>5, <2>6, <2>7, <2>8, <2>9, Moves
<1>2. CASE Upsert(s)
  <2> DEFINE a == h[s].a
             txn == Txn(s)
             base == IF a \in DOMAIN rows THEN rows[a] ELSE [NewRow EXCEPT !.platform = h[s].arg]
             new == [base EXCEPT !.txn = txn, !.status = "created", !.age = Renewed(@)]
  <2>1. h[s].arg \in Platforms /\ a \in Nat \ {0} /\ (a = 1 \/ a - 1 \in DOMAIN rows)
    BY <1>0, <1>2 DEF Upsert, At, Fits
  <2>2. base \in Row
    BY <2>1, Reads, Blank DEF Row
  <2>3. txn \in Nat
    BY <1>0, FS_CardinalityType DEF Txn, Handler, Row, Safe, Typed, RowsOK
  <2> HIDE DEF base, txn
  <2>4. new \in Row /\ new.txn = txn /\ new.status = "created"
    <3>1. Renewed(base.age) \in 0..3
      BY DEF Renewed
    <3> QED BY <2>2, <2>3, <3>1 DEF Row, Statuses
  <2>5. /\ rows' = [b \in DOMAIN rows \cup {a} |-> IF b = a THEN new ELSE rows[b]]
        /\ emitted' = [t \in DOMAIN emitted \cup {txn} |->
                         IF t \in DOMAIN emitted THEN emitted[t] ELSE {}]
    BY <1>2 DEF Upsert, base, txn
  <2> HIDE DEF new
  <2>6. \E n \in Nat : DOMAIN rows \cup {a} = 1..n
    <3>1. PICK n \in Nat : DOMAIN rows = 1..n
      BY DEF Safe, Typed, RowsOK
    <3>2. CASE a \in 1..n
      BY <3>1, <3>2
    <3>3. CASE a = n + 1
      <4>1. DOMAIN rows \cup {a} = 1..(n + 1)
        BY <3>1, <3>3
      <4> QED BY <4>1
    <3> QED BY <2>1, <3>1, <3>2, <3>3
  <2>7. RowsOK'
    <3>1. \A b \in DOMAIN rows' : rows'[b] \in Row /\ rows'[b].txn \in DOMAIN emitted'
      BY <2>4, <2>5 DEF Safe, Typed, RowsOK
    <3>2. IsFiniteSet(DOMAIN emitted')
      BY <2>5, FS_AddElement DEF Safe, Typed, RowsOK
    <3>3. \A t \in DOMAIN emitted' : emitted'[t] \subseteq Codes
      BY <2>5 DEF Safe, Typed, RowsOK
    <3> QED BY <2>5, <2>6, <3>1, <3>2, <3>3 DEF RowsOK
  <2>8. Captured => Captured'
    BY <1>2, <2>5 DEF Upsert, Captured
  <2>9. ~Captured => NoneVerified' /\ Unmoved'
    BY <1>2, <2>4, <2>5 DEF Upsert, Safe, Clean, NoneVerified, Unmoved, Verified, goods
  <2>10. Sound /\ End(s)
    BY <1>2, <2>5, <2>7, <2>8, <2>9, Reads DEF Upsert, Sound
  <2> QED BY <2>10, GoesOn
<1> QED BY <1>1, <1>2

(* The first step of every job. *)
LEMMA BeginSafe == ASSUME Safe, NEW s \in Slots, Begin(s) PROVE Safe'
<1>0. /\ Jobs = {"callback", "abort", "poll", "status", "cron", "cancel", "session"}
      /\ {"release", "order", "abortClaim", "void", "pollOrder", "statusLatest", "expire",
          "cancelLoad", "latest"} \subseteq Labels \ Paying
  BY DEF Labels, Paying, Jobs
<1>1. Sound
  BY Keeps DEF Begin, Receive, Abort, Poll, GetStatus, Cron, Cancel, CreateSession, db, goods, env
<1>2. CASE Receive(s)
  <2>1. PICK a \in DOMAIN rows, code \in Codes, ok \in BOOLEAN :
          /\ ok => Verifies(code)
          /\ \/ Verified(rows[a]) /\ Start(s, "callback", "release", 0, "none", FALSE, NewRow)
             \/ Start(s, "callback", "order", a, code, ok, NewRow)
    BY <1>2 DEF Receive
  <2>2. a \in Nat /\ (ok /\ code = "success" => Captured)
    BY <2>1 DEF Safe, Typed, RowsOK, Verifies, Captured
  <2>3. CASE Start(s, "callback", "release", 0, "none", FALSE, NewRow)
    BY <1>0, <1>1, <2>3, Starts, Blank
  <2>4. CASE Start(s, "callback", "order", a, code, ok, NewRow)
    BY <1>0, <1>1, <2>2, <2>4, Starts, Blank
  <2> QED BY <2>1, <2>3, <2>4
<1>3. CASE Abort(s)
  <2>1. PICK a \in DOMAIN rows : Start(s, "abort", "abortClaim", a, "none", FALSE, NewRow)
    BY <1>3 DEF Abort
  <2>2. a \in Nat
    BY DEF Safe, Typed, RowsOK
  <2> QED BY <1>0, <1>1, <2>1, <2>2, Starts, Blank
<1>4. CASE Poll(s)
  <2>1. CASE rows = <<>>
    <3>1. Start(s, "poll", "void", 0, "none", FALSE, NewRow)
      BY <1>4, <2>1 DEF Poll
    <3> QED BY <1>0, <1>1, <3>1, Starts, Blank
  <2>2. CASE rows # <<>>
    <3>1. Start(s, "poll", "pollOrder", Latest, "none", FALSE, rows[Latest])
      BY <1>4, <2>2 DEF Poll
    <3>2. Latest \in Nat /\ rows[Latest] \in Row /\ (Verified(rows[Latest]) => Captured)
      BY <2>2, LatestIsOne, Reads
    <3> QED BY <1>0, <1>1, <3>1, <3>2, Starts
  <2> QED BY <2>1, <2>2
<1>5. CASE GetStatus(s)
  <2>1. Start(s, "status", "statusLatest", 0, "none", FALSE, NewRow)
    BY <1>5 DEF GetStatus
  <2> QED BY <1>0, <1>1, <2>1, Starts, Blank
<1>6. CASE Cron(s)
  <2>1. PICK a \in DOMAIN rows, arg \in {"failed", "unknown"} :
          /\ rows[a].status \notin Terminal
          /\ Start(s, "cron", "expire", a, arg, FALSE, rows[a])
    BY <1>6 DEF Cron
  <2>2. a \in Nat /\ rows[a] \in Row /\ (Verified(rows[a]) => Captured)
    BY Reads DEF Safe, Typed, RowsOK
  <2> QED BY <1>0, <1>1, <2>1, <2>2, Starts
<1>7. CASE Cancel(s)
  <2>1. Start(s, "cancel", "cancelLoad", 0, "none", FALSE, NewRow)
    BY <1>7 DEF Cancel
  <2> QED BY <1>0, <1>1, <2>1, Starts, Blank
<1>8. CASE CreateSession(s)
  <2>1. PICK p \in Platforms : Start(s, "session", "latest", 0, p, FALSE, NewRow)
    BY <1>8 DEF CreateSession
  <2> QED BY <1>0, <1>1, <2>1, Starts, Blank
<1> QED BY <1>2, <1>3, <1>4, <1>5, <1>6, <1>7, <1>8 DEF Begin

(* The gateway and the clock move no handler; a crash empties them.        *)
LEMMA AroundSafe == ASSUME Safe, GatewayAnswers \/ TimePasses \/ Crash PROVE Safe'
<1>1. CASE GatewayAnswers
  <2>1. /\ DOMAIN emitted' = DOMAIN emitted /\ \A t \in DOMAIN emitted : emitted[t] \subseteq emitted'[t]
        /\ elsewhere \subseteq elsewhere'
    BY <1>1 DEF GatewayAnswers
  <2>2. RowsOK' /\ (Captured => Captured')
    BY <1>1, <2>1 DEF GatewayAnswers, Safe, Typed, RowsOK, Captured
  <2>3. \A s \in Slots : Fits(h[s])'
    BY <1>1 DEF GatewayAnswers, Safe, Typed, Fits
  <2>4. Clean => Clean'
    BY <1>1 DEF GatewayAnswers, Clean, Unmoved, NoneVerified, Benign
  <2> QED BY <1>1, <2>2, <2>3, <2>4 DEF GatewayAnswers, Safe, Typed
<1>2. CASE TimePasses
  <2> DEFINE Older(age) == IF age = 3 THEN 2 ELSE age + 1
  <2>0. PICK a \in DOMAIN rows : rows[a].age # 2 /\ rows' = [rows EXCEPT ![a].age = Older(@)]
    BY <1>2 DEF TimePasses
  <2> DEFINE r == [rows[a] EXCEPT !.age = Older(@)]
  <2>5. r \in Row /\ r.txn = rows[a].txn /\ (Verified(r) => Captured)
    <3>1. rows[a] \in Row /\ (Verified(rows[a]) => Captured)
      BY Held
    <3>2. Older(rows[a].age) \in 0..3
      BY <2>0, <3>1 DEF Row
    <3> HIDE DEF Older
    <3>3. /\ r \in Row /\ r.txn = rows[a].txn /\ r.status = rows[a].status
          /\ r.verified = rows[a].verified
      BY <3>1, <3>2 DEF Row
    <3> QED BY <3>1, <3>3 DEF Verified
  <2>6. rows' = [rows EXCEPT ![a] = r]
    BY <2>0 DEF Safe, Typed, RowsOK
  <2> HIDE DEF r
  <2>7. /\ DOMAIN rows' = DOMAIN rows /\ rows' \in [DOMAIN rows -> Row] /\ rows'[a] = r
        /\ \A b \in DOMAIN rows \ {a} : rows'[b] = rows[b]
    BY <2>5, <2>6 DEF Safe, Typed, RowsOK
  <2>1. /\ DOMAIN rows' = DOMAIN rows /\ rows' \in [DOMAIN rows -> Row]
        /\ \A b \in DOMAIN rows : rows'[b].txn = rows[b].txn /\ (Verified(rows'[b]) => Captured)
    BY <2>5, <2>7, Held
  <2>2. Sound
    BY <1>2, <2>1, Answers DEF TimePasses, goods, env
  <2>3. \A s \in Slots : Fits(h[s])'
    BY <1>2, <2>1 DEF TimePasses, Safe, Typed, Fits
  <2>4. ~Captured => Clean'
    BY <1>2, <2>2 DEF TimePasses, Safe, Clean, Sound, Benign
  <2> QED BY <1>2, <2>2, <2>3, <2>4 DEF TimePasses, Safe, Typed, Sound
<1>3. CASE Crash
  <2>1. Sound
    BY <1>3, Keeps DEF Crash, db, goods
  <2>2. h' \in [Slots -> Handler] /\ \A s \in Slots : h'[s] = Idle
    BY <1>3, Blank DEF Crash
  <2>3. Idle.pc = "idle"
    BY DEF Idle
  <2>4. \A s \in Slots : Fits(h[s])'
    BY <2>2, <2>3 DEF Fits
  <2>5. \A s \in Slots : Benign(h[s])'
    BY <2>2, Blank DEF Benign, Verified
  <2> QED BY <2>1, <2>2, <2>4, <2>5 DEF Safe, Typed, Clean, Sound
<1> QED BY <1>1, <1>2, <1>3

-----------------------------------------------------------------------------
(* Every step of the handlers keeps the invariant.                         *)
LEMMA StepSafe == Safe /\ [Next]_vars => Safe'
<1> SUFFICES ASSUME Safe, [Next]_vars PROVE Safe'
  OBVIOUS
<1>1. CASE GatewayAnswers \/ TimePasses \/ Crash
  BY <1>1, AroundSafe
<1>2. ASSUME NEW s \in Slots, Begin(s) PROVE Safe'
  BY <1>2, BeginSafe
<1>3. ASSUME NEW s \in Slots, Continue(s) PROVE Safe'
  BY <1>3, FulfilSafe, UndoSafe, CallbackSafe, AbortingSafe, ReconcileSafe, CancellingSafe,
     SessionSafe DEF Continue
<1>4. CASE UNCHANGED vars
  BY <1>4 DEF vars, db, goods, env, Safe, Typed, RowsOK, Fits, Captured, Clean, Unmoved,
              NoneVerified, Benign
<1> QED BY <1>1, <1>2, <1>3, <1>4 DEF Next

(* The invariant holds in every state the handlers, the gateway, the clock *)
(* and crashes can bring the order to.                                     *)
THEOREM Inductive == Spec => []Safe
BY InitSafe, StepSafe, PTL DEF Spec

(* "SUCCESS is only ever trusted with a verified hash + matching amount":  *)
(* whatever callbacks, aborts, polls, cron runs, cancels and new sessions  *)
(* do, an order is paid, released, in the darkstore or refunded only if    *)
(* the gateway captured its amount, for it or for another order.           *)
THEOREM PaidOnlyIfCaptured == Spec => []PaidIsCaptured
<1>1. Safe => PaidIsCaptured
  BY DEF Safe, Clean, Unmoved, PaidIsCaptured
<1> QED BY Inductive, <1>1, PTL

-----------------------------------------------------------------------------
(* A step changes an attempt's verdict only for a new session.             *)
Verdicts == \A a \in DOMAIN rows :
              rows[a].status \in Terminal => rows'[a].status \in {rows[a].status, "created"}

(* Five steps write attempts: three ask first, one reopens, one only ages.  *)
LEMMA VerdictStep == Safe /\ [Next]_vars => [Verdicts]_rows
<1> SUFFICES ASSUME Safe, Next, rows' # rows PROVE Verdicts
  BY DEF vars, db
<1> SUFFICES ASSUME NEW a \in DOMAIN rows, rows[a].status \in Terminal
             PROVE  rows'[a].status \in {rows[a].status, "created"}
  BY DEF Verdicts
<1>1. TimePasses \/ \E s \in Slots : Settle(s) \/ ClaimAbort(s) \/ ExpireRow(s) \/ Upsert(s)
  <2>1. ~GatewayAnswers /\ ~Crash
    BY DEF GatewayAnswers, Crash, db
  <2>2. ASSUME NEW s \in Slots, Begin(s) PROVE FALSE
    BY <2>2 DEF Begin, Receive, Abort, Poll, GetStatus, Cron, Cancel, CreateSession, db
  <2>3. ASSUME NEW s \in Slots, Continue(s)
        PROVE  Settle(s) \/ ClaimAbort(s) \/ ExpireRow(s) \/ Upsert(s)
    <3>1. ~Fulfil(s)
      BY DEF Fulfil, Release, ClearCart, Dispatch, ClaimRelease, db
    <3>2. ~Undo(s)
      BY DEF Undo, Void, ClaimVoid, ClaimWallet, CreditWallet, UnclaimWallet, ClaimCart,
             RestoreCart, db
    <3>3. Callback(s) => Settle(s)
      BY DEF Callback, LoadOrder, Reread, SavePaid, SaveFailed, SavePay, db
    <3>4. Aborting(s) => ClaimAbort(s)
      BY DEF Aborting, RereadAborted, AbortOrder, db
    <3>5. Reconcile(s) => ExpireRow(s)
      BY DEF Reconcile, PollOrder, StatusLatest, CronLatest, CronOrder, CronFail, db
    <3>6. ~Cancelling(s)
      BY DEF Cancelling, CancelLoad, CancelCredit, LookupRefund, CreateRefund, SaveCancel, db
    <3>7. ~LatestAttempt(s)
      BY DEF LatestAttempt, db
    <3> QED BY <2>3, <3>1, <3>2, <3>3, <3>4, <3>5, <3>6, <3>7 DEF Continue
  <2> QED BY <2>1, <2>2, <2>3 DEF Next
<1>2. CASE TimePasses
  <2>1. PICK b \in DOMAIN rows : rows' = [rows EXCEPT ![b].age = IF @ = 3 THEN 2 ELSE @ + 1]
    BY <1>2 DEF TimePasses
  <2> QED BY <2>1, Held DEF Row
<1>3. ASSUME NEW s \in Slots, Settle(s) PROVE rows'[a].status = rows[a].status
  <2>1. rows' = rows \/ Settleable(rows[h[s].a])
    BY <1>3 DEF Settle
  <2>2. h[s].a # a
    BY <2>1 DEF Settleable
  <2> QED BY <1>3, <2>2 DEF Settle
<1>4. ASSUME NEW s \in Slots, ClaimAbort(s) PROVE rows'[a].status = rows[a].status
  <2>1. h[s].a # a
    BY <1>4 DEF ClaimAbort, Settleable
  <2> QED BY <1>4, <2>1 DEF ClaimAbort
<1>5. ASSUME NEW s \in Slots, ExpireRow(s) PROVE rows'[a].status = rows[a].status
  <2>1. h[s].row.status \notin Terminal
    BY <1>5, Reads DEF ExpireRow, At, Fits
  <2>2. h[s].a # a
    BY <1>5, <2>1 DEF ExpireRow, StillAt
  <2> QED BY <1>5, <2>2 DEF ExpireRow
<1>6. ASSUME NEW s \in Slots, Upsert(s) PROVE rows'[a].status \in {rows[a].status, "created"}
  <2>1. CASE h[s].a # a
    BY <1>6, <2>1 DEF Upsert
  <2>2. CASE h[s].a = a
    <3>1. rows'[a] = [rows[a] EXCEPT !.txn = Txn(s), !.status = "created", !.age = Renewed(@)]
      BY <1>6, <2>2 DEF Upsert
    <3> QED BY <3>1, Held DEF Row
  <2> QED BY <2>1, <2>2
<1> QED BY <1>1, <1>2, <1>3, <1>4, <1>5, <1>6

(* "a real gateway result that already landed wins": the callback, the     *)
(* abort, the polls and the cron leave a settled attempt's verdict alone,  *)
(* however they interleave; only createSession opens the attempt anew.     *)
THEOREM LandedResultWins == Spec => VerdictStands
<1>1. Safe /\ [Next]_vars => [Verdicts]_rows
  BY VerdictStep
<1> QED BY Inductive, <1>1, PTL DEF Spec, VerdictStands, Verdicts
-----------------------------------------------------------------------------
(* Where a step leaves its handler, and all others where they were.        *)
Alone(s) == \A q \in Slots \ {s} : h'[q] = h[q]

(* Going on, going elsewhere and answering. *)
LEMMA After == ASSUME Safe, NEW s \in Slots, NEW label
               PROVE  /\ Goto(s, label) \/ Enter(s, label) =>
                           h'[s].pc = label /\ h'[s].job = h[s].job /\ Alone(s)
                      /\ End(s) => h'[s].pc = "idle" /\ h'[s].job = "none" /\ Alone(s)
<1>1. h \in [Slots -> Handler] /\ h[s] \in Handler /\ Idle \in Handler
  BY Blank DEF Safe, Typed
<1>2. ASSUME Goto(s, label) PROVE h'[s].pc = label /\ h'[s].job = h[s].job /\ Alone(s)
  <2>1. h' = [h EXCEPT ![s] = [h[s] EXCEPT !.pc = label]]
    BY <1>1, <1>2 DEF Goto
  <2> QED BY <1>1, <2>1 DEF Handler, Alone
<1>3. ASSUME Enter(s, label) PROVE h'[s].pc = label /\ h'[s].job = h[s].job /\ Alone(s)
  <2>1. [Idle EXCEPT !.job = h[s].job, !.pc = label].pc = label
        /\ [Idle EXCEPT !.job = h[s].job, !.pc = label].job = h[s].job
    BY DEF Idle
  <2> QED BY <1>1, <1>3, <2>1 DEF Enter, Alone
<1>4. ASSUME End(s) PROVE h'[s].pc = "idle" /\ h'[s].job = "none" /\ Alone(s)
  <2>1. Idle.pc = "idle" /\ Idle.job = "none"
    BY DEF Idle
  <2> QED BY <1>1, <1>4, <2>1 DEF End, Alone
<1> QED BY <1>2, <1>3, <1>4

(* Starting. *)
LEMMA AfterStart == ASSUME Safe, NEW s \in Slots, NEW job, NEW label, NEW a, NEW arg, NEW ok,
                           NEW row, Start(s, job, label, a, arg, ok, row)
                    PROVE  h[s].pc = "idle" /\ h'[s].pc = label /\ h'[s].job = job /\ Alone(s)
<1>1. h \in [Slots -> Handler] /\ Idle \in Handler
  BY Blank DEF Safe, Typed
<1> QED BY <1>1 DEF Start, At, Handler, Alone

(* Where the first step of a job leads.                                    *)
Giving == {"walletClaim", "walletCredit", "walletUnclaim"}
Cancels == {"refundLookup", "refundCreate", "cancelSave"}

(* Where a job's first step leads, ... *)
LEMMA BeginLeads ==
  ASSUME Safe, NEW s \in Slots, Begin(s)
  PROVE  /\ Alone(s) /\ h[s].pc = "idle" /\ UNCHANGED <<db, env>>
         /\ h'[s].pc \notin Giving /\ h'[s].pc # "upsert"
         /\ CreateSession(s) \/ (h'[s].pc # "latest" /\ h'[s].job # "session")
         /\ h'[s].pc = "cancelLoad" => h'[s].job = "cancel"
<1>1. UNCHANGED <<db, env>>
  BY DEF Begin, Receive, Abort, Poll, GetStatus, Cron, Cancel, CreateSession
<1>2. CASE CreateSession(s)
  <2>1. PICK p \in Platforms : Start(s, "session", "latest", 0, p, FALSE, NewRow)
    BY <1>2 DEF CreateSession
  <2>2. h[s].pc = "idle" /\ h'[s].pc = "latest" /\ Alone(s)
    BY <2>1, AfterStart
  <2> QED BY <1>1, <1>2, <2>2 DEF Giving
<1>3. CASE Cancel(s)
  <2>1. Start(s, "cancel", "cancelLoad", 0, "none", FALSE, NewRow)
    BY <1>3 DEF Cancel
  <2>2. h[s].pc = "idle" /\ h'[s].pc = "cancelLoad" /\ h'[s].job = "cancel" /\ Alone(s)
    BY <2>1, AfterStart
  <2> QED BY <1>1, <2>2 DEF Giving
<1>4. CASE ~CreateSession(s) /\ ~Cancel(s)
  <2>1. \E label \in {"release", "order", "abortClaim", "void", "statusLatest", "pollOrder",
                      "expire"} :
        \E job \in {"callback", "abort", "poll", "status", "cron"} :
        \E a, arg, ok, row : Start(s, job, label, a, arg, ok, row)
    BY <1>4 DEF Begin, Receive, Abort, Poll, GetStatus, Cron
  <2> QED BY <1>1, <2>1, AfterStart DEF Giving
<1> QED BY <1>2, <1>3, <1>4

(* ... and every later one, createSession's apart.                         *)
Others(s) == Fulfil(s) \/ Undo(s) \/ Callback(s) \/ Aborting(s) \/ Reconcile(s) \/ Cancelling(s)
LEMMA Leads ==
  ASSUME Safe, NEW s \in Slots, Others(s)
  PROVE  /\ Alone(s) /\ h'[s].pc \notin {"latest", "upsert", "cancelLoad"}
         /\ h'[s].job \in {h[s].job, "none", "poll"} /\ UNCHANGED env
         /\ Undo(s) \/ Cancelling(s) \/ h'[s].pc \notin Giving
<1>0. h \in [Slots -> Handler] /\ h[s] \in Handler /\ Idle \in Handler
  BY Blank DEF Safe, Typed
<1> DEFINE OK == /\ Alone(s) /\ h'[s].pc \notin {"latest", "upsert", "cancelLoad"}
                 /\ h'[s].job \in {h[s].job, "none", "poll"} /\ UNCHANGED env
                 /\ Undo(s) \/ Cancelling(s) \/ h'[s].pc \notin Giving
<1> USE DEF Giving
<1>1. ASSUME NEW label, label \notin {"latest", "upsert", "cancelLoad"}, UNCHANGED env,
             Undo(s) \/ Cancelling(s) \/ label \notin Giving,
             Goto(s, label) \/ Enter(s, label) \/ End(s)
      PROVE  OK
  BY <1>1, After
<1>2. ASSUME Fulfil(s) PROVE OK
  <2>1. UNCHANGED env /\ \E label \in {"clear", "dispatch", "claim"} : Goto(s, label) \/ End(s)
    BY <1>2 DEF Fulfil, Release, ClearCart, Dispatch, ClaimRelease
  <2> QED BY <1>1, <2>1
<1>3. ASSUME Undo(s) PROVE OK
  <2>1. UNCHANGED env /\ \E label \in {"voidClaim", "walletClaim", "walletCredit", "walletUnclaim",
                                       "cancelSave", "cartClaim", "cartRestore"} :
                           Goto(s, label) \/ End(s)
    BY <1>3 DEF Undo, Void, ClaimVoid, ClaimWallet, CreditWallet, UnclaimWallet, ClaimCart,
                RestoreCart, AfterWallet, AfterThrow
  <2> QED BY <1>1, <1>3, <2>1
<1>4. ASSUME Callback(s) PROVE OK
  <2>1. CASE LoadOrder(s)
    BY <1>0, <2>1 DEF LoadOrder, Handler, Alone
  <2>2. CASE ~LoadOrder(s)
    <3>1. UNCHANGED env /\ \E label \in {"savePaid", "saveFailed", "reread", "release", "void"} :
                             Goto(s, label) \/ Enter(s, label) \/ End(s)
      BY <1>4, <2>2 DEF Callback, Settle, Reread, Follow, SavePaid, SaveFailed, SavePay
    <3> QED BY <1>1, <3>1
  <2> QED BY <2>1, <2>2
<1>5. ASSUME Aborting(s) PROVE OK
  <2>1. UNCHANGED env /\ \E label \in {"abortOrder", "abortReread", "void"} :
                           Goto(s, label) \/ Enter(s, label) \/ End(s)
    BY <1>5 DEF Aborting, ClaimAbort, RereadAborted, AbortOrder
  <2> QED BY <1>1, <2>1
<1>6. ASSUME Reconcile(s) PROVE OK
  <2>1. CASE PollOrder(s)
    <3>1. UNCHANGED env
      BY <2>1 DEF PollOrder
    <3>2. CASE Enter(s, "release") \/ Enter(s, "void") \/ End(s)
      BY <1>1, <3>1, <3>2
    <3>3. CASE h' = [h EXCEPT ![s] = [Idle EXCEPT !.job = "poll", !.pc = "savePaid", !.o = order]]
      <4>1. [Idle EXCEPT !.job = "poll", !.pc = "savePaid", !.o = order].pc = "savePaid"
            /\ [Idle EXCEPT !.job = "poll", !.pc = "savePaid", !.o = order].job = "poll"
        BY DEF Idle
      <4> QED BY <1>0, <3>1, <3>3, <4>1 DEF Alone
    <3>4. CASE h' = [h EXCEPT ![s].pc = "expire", ![s].arg = "failed"]
      BY <1>0, <3>1, <3>4 DEF Handler, Alone
    <3> QED BY <2>1, <3>2, <3>3, <3>4 DEF PollOrder
  <2>2. CASE ~PollOrder(s)
    <3>1. UNCHANGED env /\ \E label \in {"void", "cronLatest", "release", "cronOrder", "cronFail"} :
                             Goto(s, label) \/ Enter(s, label) \/ End(s)
      BY <1>6, <2>2 DEF Reconcile, ExpireRow, StatusLatest, CronLatest, CronOrder, CronFail
    <3> QED BY <1>1, <3>1
  <2> QED BY <2>1, <2>2
<1>7. ASSUME Cancelling(s) PROVE OK
  <2>1. CASE CancelLoad(s)
    BY <1>0, <1>7, <2>1 DEF CancelLoad, Handler, Alone
  <2>2. CASE ~CancelLoad(s)
    <3>1. UNCHANGED env /\ \E label \in {"refundLookup", "refundCreate", "cancelSave", "cartClaim"} :
                             Goto(s, label) \/ Enter(s, label) \/ End(s)
      BY <1>7, <2>2 DEF Cancelling, CancelCredit, LookupRefund, CreateRefund, SaveCancel
    <3> QED BY <1>1, <1>7, <3>1
  <2> QED BY <2>1, <2>2
<1> QED BY <1>2, <1>3, <1>4, <1>5, <1>6, <1>7 DEF Others

-----------------------------------------------------------------------------
(* Whoever has booked the wallet part as given back has cancelled the      *)
(* order, or is about to.                                                  *)
Voided == order.status = "cancelled"
Back == /\ \A s \in Slots : h[s].pc \in Giving /\ h[s].job # "cancel" => Voided
        /\ \A s \in Slots : h[s].pc = "cancelLoad" => h[s].job = "cancel"
        /\ crashes = 0 /\ Booked => Voided \/ \E s \in Slots : h[s].pc \in Cancels
        /\ crashes \in Nat

(* One handler's step, with the promise it makes. *)
LEMMA BackMoves ==
  ASSUME Back, NEW s \in Slots, Alone(s), crashes' = crashes, Voided => Voided',
         h'[s].pc = "cancelLoad" => h'[s].job = "cancel",
         h'[s].pc \in Giving => h'[s].job = "cancel" \/ Voided',
         Booked' => Booked \/ Voided' \/ h'[s].pc \in Cancels,
         h[s].pc \in Cancels => Voided' \/ h'[s].pc \in Cancels
  PROVE  Back'
<1>1. \A q \in Slots : /\ h'[q].pc \in Giving /\ h'[q].job # "cancel" => Voided'
                       /\ h'[q].pc = "cancelLoad" => h'[q].job = "cancel"
  BY DEF Back, Alone
<1>2. crashes = 0 /\ Booked' => Voided' \/ \E q \in Slots : h'[q].pc \in Cancels
  <2>1. ASSUME NEW q \in Slots, h[q].pc \in Cancels PROVE Voided' \/ \E r \in Slots : h'[r].pc \in Cancels
    BY <2>1 DEF Alone
  <2> QED BY <2>1 DEF Back
<1> QED BY <1>1, <1>2 DEF Back

(* A step outside the wallet and the cancel.                               *)
LEMMA BackPasses ==
  ASSUME Safe, Back, NEW s \in Slots, NEW label,
         Goto(s, label) \/ Enter(s, label) \/ End(s), UNCHANGED <<crashes, walletBack>>,
         label # "cancelLoad",
         Voided => Voided', h[s].pc \notin Cancels,
         label \in Giving => h[s].job = "cancel" \/ Voided'
  PROVE  Back'
<1>1. /\ Alone(s) /\ (h'[s].pc \in Giving => h'[s].job = "cancel" \/ Voided')
      /\ h'[s].pc # "cancelLoad" /\ Booked' = Booked
  BY After DEF Giving, Booked
<1> QED BY <1>1, BackMoves

(* Every step keeps the promise. *)
LEMMA BackStep == Safe /\ Back /\ [Next]_vars => Back'
<1> SUFFICES ASSUME Safe, Back, [Next]_vars PROVE Back'
  OBVIOUS
<1> USE DEF Giving, Cancels
<1>0. order \in OrderType
  BY DEF Safe, Typed
<1>1. CASE GatewayAnswers \/ TimePasses \/ UNCHANGED vars
  BY <1>1 DEF GatewayAnswers, TimePasses, vars, db, goods, env, Back, Booked, Voided
<1>2. CASE Crash
  <2>1. crashes' \in Nat /\ crashes' # 0 /\ UNCHANGED order /\ \A s \in Slots : h'[s] = Idle
    BY <1>2 DEF Crash, Back, db
  <2>2. Idle.pc = "idle"
    BY DEF Idle
  <2> QED BY <2>1, <2>2 DEF Back
<1>3. ASSUME NEW s \in Slots, Begin(s) PROVE Back'
  <2>1. /\ Alone(s) /\ h[s].pc = "idle" /\ UNCHANGED <<order, walletBack, crashes>>
        /\ h'[s].pc \notin Giving /\ (h'[s].pc = "cancelLoad" => h'[s].job = "cancel")
    BY <1>3, BeginLeads DEF db, goods, env
  <2> QED BY <2>1, BackMoves DEF Voided, Booked
<1>4. ASSUME NEW s \in Slots, LatestAttempt(s) \/ Upsert(s) PROVE Back'
  <2>1. h \in [Slots -> Handler] /\ h[s] \in Handler
    BY DEF Safe, Typed
  <2>2. CASE LatestAttempt(s)
    <3>1. UNCHANGED <<order, walletBack, crashes>> /\ h[s].pc = "latest"
      BY <2>2 DEF LatestAttempt, At, db, goods, env
    <3>2. Alone(s) /\ h'[s].pc = "upsert"
      BY <2>1, <2>2 DEF LatestAttempt, Handler, Alone
    <3> QED BY <3>1, <3>2, BackMoves DEF Voided, Booked
  <2>3. CASE Upsert(s)
    <3>1. UNCHANGED <<order, walletBack, crashes>> /\ h[s].pc = "upsert" /\ End(s)
      BY <2>3 DEF Upsert, At, goods
    <3> QED BY <3>1, BackPasses DEF Voided
  <2> QED BY <1>4, <2>2, <2>3
<1>5. ASSUME NEW s \in Slots, Fulfil(s) PROVE Back'
  <2>1. \E label \in {"clear", "dispatch", "claim"} : Goto(s, label) \/ End(s)
    BY <1>5 DEF Fulfil, Release, ClearCart, Dispatch, ClaimRelease
  <2>2. UNCHANGED <<crashes, walletBack>> /\ order'.status = order.status /\ h[s].pc \notin Cancels
    BY <1>0, <1>5 DEF Fulfil, Release, ClearCart, Dispatch, ClaimRelease, At, db, goods, env, OrderType
  <2> QED BY <2>1, <2>2, BackPasses DEF Voided
<1>6. ASSUME NEW s \in Slots, Callback(s) \/ Aborting(s) \/ Reconcile(s) PROVE Back'
  <2>1. UNCHANGED <<crashes, walletBack>> /\ order'.status = order.status /\ h[s].pc \notin Cancels
        /\ h[s].pc # "void"
    <3>1. CASE Callback(s)
      BY <1>0, <3>1 DEF Callback, LoadOrder, Settle, Reread, SavePaid, SaveFailed, SavePay, At,
                        db, goods, env, OrderType
    <3>2. CASE Aborting(s)
      BY <3>2 DEF Aborting, ClaimAbort, RereadAborted, AbortOrder, At, db, goods, env
    <3>3. CASE Reconcile(s)
      BY <1>0, <3>3 DEF Reconcile, PollOrder, ExpireRow, StatusLatest, CronLatest, CronOrder,
                        CronFail, At, db, goods, env, OrderType
    <3> QED BY <1>6, <3>1, <3>2, <3>3
  <2>2. ~Undo(s) /\ ~Cancelling(s)
    BY <1>6 DEF Callback, LoadOrder, Settle, Reread, SavePaid, SaveFailed, SavePay, Aborting,
                ClaimAbort, RereadAborted, AbortOrder, Reconcile, PollOrder, ExpireRow,
                StatusLatest, CronLatest, CronOrder, CronFail, Undo, Void, ClaimVoid, ClaimWallet,
                CreditWallet, UnclaimWallet, ClaimCart, RestoreCart, Cancelling, CancelLoad,
                CancelCredit, LookupRefund, CreateRefund, SaveCancel, At
  <2>3. Alone(s) /\ h'[s].pc \notin Giving \cup {"cancelLoad"}
    BY <1>6, <2>2, Leads DEF Others
  <2> QED BY <2>1, <2>3, BackMoves DEF Voided, Booked
<1>7. ASSUME NEW s \in Slots, Undo(s) PROVE Back'
  <2>1. h[s].pc \in Giving => h[s].job = "cancel" \/ Voided
    BY DEF Back
  <2>2. CASE CreditWallet(s)
    <3>1. h[s].pc \in Giving /\ UNCHANGED <<order, crashes>>
      BY <2>2 DEF CreditWallet, At, env
    <3>2. CASE h[s].job = "cancel" /\ Goto(s, "cancelSave")
      BY <3>1, <3>2, After, BackMoves DEF Voided, Booked
    <3>3. CASE Voided
      <4>1. Alone(s) /\ h'[s].pc # "cancelLoad"
        BY <1>7, Leads DEF Others
      <4> QED BY <3>1, <3>3, <4>1, BackMoves DEF Voided, Booked
    <3>4. CASE Goto(s, "walletUnclaim") /\ UNCHANGED walletBack
      BY <2>1, <3>1, <3>4, BackPasses DEF Voided
    <3> QED BY <2>1, <2>2, <3>1, <3>2, <3>3, <3>4 DEF CreditWallet, AfterWallet, AfterThrow
  <2>3. CASE ~CreditWallet(s)
    <3>1. UNCHANGED <<crashes, walletBack>> /\ (Voided => Voided') /\ h[s].pc \notin Cancels
      BY <1>0, <1>7, <2>3 DEF Undo, Void, ClaimVoid, ClaimWallet, UnclaimWallet, ClaimCart,
                              RestoreCart, At, goods, db, env, OrderType, Voided
    <3>2. \E label \in {"voidClaim", "walletClaim", "walletCredit", "cancelSave", "cartClaim",
                        "cartRestore"} :
            /\ Goto(s, label) \/ End(s)
            /\ label \in Giving => h[s].job = "cancel" \/ Voided'
      <4>1. CASE ClaimVoid(s)
        BY <1>0, <4>1 DEF ClaimVoid, OrderType, Voided
      <4>2. CASE ClaimWallet(s)
        BY <2>1, <3>1, <4>2 DEF ClaimWallet, At, AfterWallet
      <4>3. CASE Void(s) \/ UnclaimWallet(s) \/ ClaimCart(s) \/ RestoreCart(s)
        BY <4>3 DEF Void, UnclaimWallet, ClaimCart, RestoreCart, AfterWallet
      <4> QED BY <1>7, <2>3, <4>1, <4>2, <4>3 DEF Undo
    <3> QED BY <3>1, <3>2, BackPasses
  <2> QED BY <2>2, <2>3
<1>8. ASSUME NEW s \in Slots, Cancelling(s) PROVE Back'
  <2>1. Alone(s) /\ h'[s].pc # "cancelLoad"
    BY <1>8, Leads DEF Others
  <2>2. CASE CancelLoad(s)
    <3>1. UNCHANGED <<order, walletBack, crashes>> /\ h[s].pc = "cancelLoad"
      BY <2>2 DEF CancelLoad, At, db, goods, env
    <3>2. h'[s].pc \in {"walletClaim", "cancelSave", "cancelCredit", "refundLookup"}
          /\ h'[s].job = "cancel"
      <4>1. PICK label \in {"walletClaim", "cancelSave", "cancelCredit", "refundLookup"} :
              h' = [h EXCEPT ![s].o = order, ![s].pc = label]
        BY <2>2 DEF CancelLoad
      <4>2. h \in [Slots -> Handler] /\ h[s] \in Handler
        BY DEF Safe, Typed
      <4>3. h'[s] = [h[s] EXCEPT !.o = order, !.pc = label]
        BY <4>1, <4>2
      <4> QED BY <3>1, <4>1, <4>2, <4>3 DEF Handler, Back
    <3> QED BY <2>1, <3>1, <3>2, BackMoves DEF Voided, Booked
  <2>3. CASE CancelCredit(s)
    <3>1. UNCHANGED <<order, crashes>> /\ h[s].pc = "cancelCredit"
          /\ (Goto(s, "refundLookup") \/ (End(s) /\ Booked' = Booked))
      BY <2>3 DEF CancelCredit, Unbooked, Booked, At, env
    <3> QED BY <2>1, <3>1, After, BackMoves DEF Voided, Booked
  <2>4. CASE LookupRefund(s) \/ CreateRefund(s)
    <3>1. /\ UNCHANGED <<order, walletBack, crashes>>
          /\ \E label \in {"cancelSave", "refundCreate"} : Goto(s, label)
      BY <2>4 DEF LookupRefund, CreateRefund, db, goods, env
    <3> QED BY <2>1, <3>1, After, BackMoves DEF Voided, Booked
  <2>5. CASE SaveCancel(s)
    <3>1. UNCHANGED <<walletBack, crashes>> /\ order'.status = "cancelled"
      BY <1>0, <2>5 DEF SaveCancel, goods, env, OrderType
    <3> QED BY <2>1, <3>1, BackMoves DEF Voided, Booked
  <2> QED BY <1>8, <2>2, <2>3, <2>4, <2>5 DEF Cancelling
<1> QED BY <1>1, <1>2, <1>3, <1>4, <1>5, <1>6, <1>7, <1>8 DEF Next, Continue

(* Whoever books the wallet part as given back also cancels the order, for *)
(* voids and the customer's cancels alike, whatever else runs or fails at  *)
(* the same time, unless the process dies between the two.                 *)
THEOREM WalletBackCancels == Spec => []WalletBackIfCancelled
<1>1. Init => Back
  <2>1. Idle.pc = "idle"
    BY DEF Idle
  <2> QED BY <2>1 DEF Init, Back, Giving, Booked
<1>2. Back => WalletBackIfCancelled
  BY DEF Back, WalletBackIfCancelled, Quiet, At, Cancels, Voided, Booked
<1> QED BY <1>1, <1>2, BackStep, Inductive, PTL DEF Spec

-----------------------------------------------------------------------------
(* The gateway's sessions.  A request that reuses an attempt holds its     *)
(* session until it upserts it, other requests before it or not.           *)
Holds(x) == x.pc = "upsert" /\ x.ok

(* Sessions are numbered without a gap, every open request may add one,    *)
(* and a session belongs to one attempt, now and later.                    *)
Numbered == \E n, k \in 0..MaxSessions : /\ DOMAIN rows = 1..n /\ DOMAIN emitted = 1..k /\ n <= k
                                         /\ IsFiniteSet(Opening)
                                         /\ k + Cardinality(Opening) <= MaxSessions
Owned == /\ \A a, b \in DOMAIN rows : rows[a].txn = rows[b].txn => a = b
         /\ \A s \in Slots : Holds(h[s]) =>
              /\ h[s].a \in DOMAIN rows /\ h[s].row.txn \in DOMAIN emitted
              /\ \A b \in DOMAIN rows : rows[b].txn = h[s].row.txn => b = h[s].a
         /\ \A s, q \in Slots : Holds(h[s]) /\ Holds(h[q]) /\ h[s].row.txn = h[q].row.txn =>
              h[s].a = h[q].a
Sessions == Numbered /\ Owned

(* A step that opens no request and gives out no session.                  *)
LEMMA NumbersKept ==
  ASSUME Numbered, DOMAIN rows' = DOMAIN rows, DOMAIN emitted' = DOMAIN emitted,
         Opening' \subseteq Opening
  PROVE  Numbered'
<1>1. PICK n, k \in 0..MaxSessions : /\ DOMAIN rows = 1..n /\ DOMAIN emitted = 1..k /\ n <= k
                                     /\ IsFiniteSet(Opening)
                                     /\ k + Cardinality(Opening) <= MaxSessions
  BY DEF Numbered
<1>2. /\ IsFiniteSet(Opening') /\ Cardinality(Opening') \in Nat /\ Cardinality(Opening) \in Nat
      /\ Cardinality(Opening') <= Cardinality(Opening)
  BY <1>1, FS_Subset, FS_CardinalityType
<1>3. k + Cardinality(Opening') <= MaxSessions
  BY <1>1, <1>2, BoundsAssumption
<1> QED BY <1>1, <1>2, <1>3 DEF Numbered

(* A step that gives out no session and renumbers no attempt. *)
LEMMA SessionsKept ==
  ASSUME Sessions, DOMAIN rows' = DOMAIN rows, DOMAIN emitted' = DOMAIN emitted,
         \A a \in DOMAIN rows : rows'[a].txn = rows[a].txn,
         \A s \in Slots : h'[s] = h[s] \/ h'[s].pc \notin {"latest", "upsert"}
  PROVE  Sessions'
<1>1. Opening' \subseteq Opening
  BY DEF Opening, At
<1>2. Numbered'
  BY <1>1, NumbersKept DEF Sessions
<1>3. \A s \in Slots : Holds(h'[s]) => h'[s] = h[s]
  BY DEF Holds
<1>4. Owned'
  BY <1>3 DEF Sessions, Owned
<1> QED BY <1>2, <1>4 DEF Sessions

(* createSession takes a request's place among the sessions.               *)
LEMMA SessionsCreate == ASSUME Safe, Sessions, NEW s \in Slots, CreateSession(s) PROVE Sessions'
<1>1. PICK n, k \in 0..MaxSessions : /\ DOMAIN rows = 1..n /\ DOMAIN emitted = 1..k /\ n <= k
                                     /\ IsFiniteSet(Opening)
                                     /\ k + Cardinality(Opening) <= MaxSessions
  BY DEF Sessions, Numbered
<1>2. PICK p \in Platforms : Start(s, "session", "latest", 0, p, FALSE, NewRow)
  BY DEF CreateSession
<1>3. UNCHANGED <<rows, emitted, elsewhere>> /\ h'[s].pc = "latest" /\ h'[s].job = "session" /\ Alone(s)
  BY <1>2, AfterStart DEF CreateSession, db, env
<1>4. Opening' = Opening \cup {s}
  BY <1>3 DEF Opening, At, Alone
<1>5. k + Cardinality(Opening) < MaxSessions
  BY <1>1, FS_Interval DEF CreateSession
<1>6. Numbered'
  <2>1. /\ IsFiniteSet(Opening') /\ Cardinality(Opening) \in Nat
        /\ Cardinality(Opening') \in {Cardinality(Opening), Cardinality(Opening) + 1}
    BY <1>1, <1>4, FS_AddElement, FS_CardinalityType
  <2>2. k + Cardinality(Opening') <= MaxSessions
    BY <1>5, <2>1, BoundsAssumption
  <2> QED BY <1>1, <1>3, <2>1, <2>2 DEF Numbered
<1>7. \A q \in Slots : Holds(h'[q]) => h'[q] = h[q]
  BY <1>3 DEF Holds, Alone
<1>8. Owned'
  BY <1>3, <1>7 DEF Sessions, Owned
<1> QED BY <1>6, <1>8 DEF Sessions

(* The request finds the platform's latest attempt and may hold it.        *)
LEMMA SessionsLatest == ASSUME Safe, Sessions, NEW s \in Slots, LatestAttempt(s) PROVE Sessions'
<1> DEFINE mine == {a \in DOMAIN rows : rows[a].platform = h[s].arg}
           last == CHOOSE a \in mine : \A b \in mine : b <= a
           reuse == mine # {} /\ rows[last].status \notin Terminal /\ ~Expired(rows[last])
           num == IF mine = {} THEN 1 ELSE IF reuse THEN last ELSE last + 1
           row == IF mine = {} THEN NewRow ELSE rows[last]
<1>1. mine # {} => last \in DOMAIN rows
  <2> mine \in SUBSET DOMAIN rows
    OBVIOUS
  <2> HIDE DEF mine
  <2> QED BY Greatest
<1>2. h' = [h EXCEPT ![s].pc = "upsert", ![s].ok = reuse, ![s].a = num, ![s].row = row]
  BY DEF LatestAttempt
<1>3. reuse \in BOOLEAN /\ (reuse => num = last /\ row = rows[last] /\ last \in DOMAIN rows)
  BY <1>1
<1> HIDE DEF mine, last, reuse, num, row
<1>4. h \in [Slots -> Handler] /\ h[s] \in Handler
  BY DEF Safe, Typed
<1>5. h'[s] = [h[s] EXCEPT !.pc = "upsert", !.ok = reuse, !.a = num, !.row = row] /\ Alone(s)
  BY <1>2, <1>4 DEF Alone
<1>11. h[s].pc = "latest" /\ UNCHANGED <<rows, emitted, elsewhere>>
  BY DEF LatestAttempt, At, db, env
<1>6. /\ h'[s].pc = "upsert" /\ h'[s].ok = reuse /\ h'[s].a = num /\ h'[s].row = row
      /\ h'[s].job = h[s].job /\ h[s].pc = "latest" /\ UNCHANGED <<rows, emitted, elsewhere>>
  BY <1>4, <1>5, <1>11 DEF Handler
<1>12. h'[s].ok => num = last /\ row = rows[last] /\ last \in DOMAIN rows
  BY <1>3, <1>6
<1>7. Opening' \subseteq Opening
  BY <1>5, <1>6 DEF Opening, At, Alone
<1>8. Numbered'
  BY <1>6, <1>7, NumbersKept DEF Sessions
<1>9. Owned'
  <2>1. ASSUME NEW q \in Slots, Holds(h'[q])
        PROVE  \/ q # s /\ h'[q] = h[q]
               \/ /\ q = s /\ h'[q].a \in DOMAIN rows
                  /\ h'[q].row.txn = rows[h'[q].a].txn
    <3>1. CASE q = s
      <4>1. h'[q].ok
        BY <2>1 DEF Holds
      <4> QED BY <1>6, <1>12, <3>1, <4>1
    <3>2. CASE q # s
      BY <1>5, <3>2 DEF Alone
    <3> QED BY <3>1, <3>2
  <2>2. \A a \in DOMAIN rows : rows[a].txn \in DOMAIN emitted
    BY DEF Safe, Typed, RowsOK
  <2>3. \A q \in Slots : Holds(h'[q]) =>
          /\ h'[q].a \in DOMAIN rows /\ h'[q].row.txn \in DOMAIN emitted
          /\ \A b \in DOMAIN rows : rows[b].txn = h'[q].row.txn => b = h'[q].a
    BY <2>1, <2>2 DEF Sessions, Owned
  <2>4. \A q, r \in Slots : Holds(h'[q]) /\ Holds(h'[r]) /\ h'[q].row.txn = h'[r].row.txn =>
          h'[q].a = h'[r].a
    BY <2>1, <2>3 DEF Sessions, Owned
  <2> QED BY <1>6, <2>3, <2>4 DEF Sessions, Owned
<1> QED BY <1>8, <1>9 DEF Sessions

(* The upsert gives its attempt the session it holds, or a new one, which  *)
(* no attempt and no request has.                                          *)
LEMMA SessionsUpsert == ASSUME Safe, Sessions, NEW s \in Slots, Upsert(s) PROVE Sessions'
<1> DEFINE a == h[s].a
           txn == Txn(s)
<1>1. PICK n, k \in 0..MaxSessions : /\ DOMAIN rows = 1..n /\ DOMAIN emitted = 1..k /\ n <= k
                                     /\ IsFiniteSet(Opening)
                                     /\ k + Cardinality(Opening) <= MaxSessions
  BY DEF Sessions, Numbered
<1>2. /\ h[s].pc = "upsert" /\ (s \in Opening <=> ~h[s].ok) /\ End(s)
      /\ a \in Nat \ {0} /\ (a = 1 \/ a - 1 \in DOMAIN rows)
  BY DEF Upsert, At, Opening, Safe, Typed, Fits
<1>3. h'[s].pc = "idle" /\ Alone(s)
  BY <1>2, After
<1>4. Opening' = Opening \ {s}
  BY <1>3 DEF Opening, At, Alone
<1>5. /\ IsFiniteSet(Opening') /\ Cardinality(Opening) \in Nat /\ Cardinality(Opening') \in Nat
      /\ Cardinality(Opening') = IF h[s].ok THEN Cardinality(Opening) ELSE Cardinality(Opening) - 1
  <2>1. CASE h[s].ok
    <3>1. Opening' = Opening
      BY <1>2, <1>4, <2>1
    <3> QED BY <1>1, <2>1, <3>1, FS_CardinalityType
  <2>2. CASE ~h[s].ok
    BY <1>1, <1>2, <1>4, <2>2, FS_RemoveElement, FS_CardinalityType
  <2> QED BY <2>1, <2>2
<1>6. \/ h[s].ok /\ txn = h[s].row.txn /\ txn \in DOMAIN emitted /\ a \in DOMAIN rows
      \/ ~h[s].ok /\ txn = k + 1
  <2>1. Cardinality(1..k) = k
    BY BoundsAssumption, FS_Interval
  <2>2. h[s].ok \in BOOLEAN
    BY DEF Safe, Typed, Handler
  <2>3. CASE h[s].ok
    BY <1>2, <2>3 DEF Txn, Sessions, Owned, Holds
  <2>4. CASE ~h[s].ok
    BY <1>1, <2>1, <2>4 DEF Txn
  <2> QED BY <2>2, <2>3, <2>4
<1>7. /\ DOMAIN rows' = DOMAIN rows \cup {a} /\ DOMAIN emitted' = DOMAIN emitted \cup {txn}
      /\ rows'[a].txn = txn /\ \A b \in DOMAIN rows \ {a} : rows'[b] = rows[b]
  <2> DEFINE base == IF a \in DOMAIN rows THEN rows[a] ELSE [NewRow EXCEPT !.platform = h[s].arg]
             new == [base EXCEPT !.txn = txn, !.status = "created", !.age = Renewed(@)]
  <2>1. h[s].arg \in Platforms
    BY <1>2 DEF Safe, Typed, Fits
  <2>2. base \in Row
    BY <2>1, Reads, Blank DEF Row
  <2>3. /\ rows' = [b \in DOMAIN rows \cup {a} |-> IF b = a THEN new ELSE rows[b]]
        /\ emitted' = [t \in DOMAIN emitted \cup {txn} |->
                         IF t \in DOMAIN emitted THEN emitted[t] ELSE {}]
    BY DEF Upsert
  <2> HIDE DEF base
  <2>4. new.txn = txn
    BY <2>2 DEF Row
  <2> HIDE DEF new, txn
  <2> QED BY <2>3, <2>4
<1> HIDE DEF txn
<1>8. \A b \in DOMAIN rows : rows[b].txn \in 1..k
  BY <1>1 DEF Safe, Typed, RowsOK
<1>9. Numbered'
  <2>1. CASE h[s].ok
    <3>1. DOMAIN rows' = 1..n /\ DOMAIN emitted' = 1..k
      BY <1>1, <1>6, <1>7, <2>1
    <3>2. k + Cardinality(Opening') <= MaxSessions
      BY <1>1, <1>5, BoundsAssumption
    <3> QED BY <1>1, <1>5, <3>1, <3>2 DEF Numbered
  <2>2. CASE ~h[s].ok
    <3>1. DOMAIN emitted' = 1..(k + 1)
      BY <1>1, <1>6, <1>7, <2>2
    <3>2. k + 1 + Cardinality(Opening') <= MaxSessions /\ k + 1 \in 0..MaxSessions
      BY <1>1, <1>5, <2>2, BoundsAssumption
    <3>3. PICK m \in 0..(k + 1) : DOMAIN rows' = 1..m
      <4>1. CASE a \in 1..n
        <5>1. DOMAIN rows' = 1..n
          BY <1>1, <1>7, <4>1
        <5> QED BY <1>1, <5>1
      <4>2. CASE a = n + 1
        <5>1. DOMAIN rows' = 1..(n + 1)
          BY <1>1, <1>7, <4>2
        <5> QED BY <1>1, <5>1
      <4> QED BY <1>1, <1>2, <4>1, <4>2
    <3>4. m \in 0..MaxSessions /\ m <= k + 1
      BY <3>2, <3>3, BoundsAssumption
    <3> QED BY <1>5, <3>1, <3>2, <3>3, <3>4 DEF Numbered
  <2> QED BY <2>1, <2>2
<1>10. \A q \in Slots : Holds(h'[q]) => q # s /\ h'[q] = h[q] /\ Holds(h[q])
  BY <1>3 DEF Holds, Alone
<1>11. ASSUME NEW b \in DOMAIN rows' \ {a}
       PROVE  b \in DOMAIN rows /\ rows'[b] = rows[b] /\ rows[b].txn # txn
  BY <1>1, <1>2, <1>6, <1>7, <1>8, <1>11 DEF Sessions, Owned, Holds
<1>12. \A b, c \in DOMAIN rows' : rows'[b].txn = rows'[c].txn => b = c
  BY <1>7, <1>11 DEF Sessions, Owned
<1>13. ASSUME NEW q \in Slots, Holds(h'[q])
       PROVE  /\ h'[q].a \in DOMAIN rows' /\ h'[q].row.txn \in DOMAIN emitted'
              /\ \A b \in DOMAIN rows' : rows'[b].txn = h'[q].row.txn => b = h'[q].a
  <2>1. q # s /\ h'[q] = h[q] /\ h[q].a \in DOMAIN rows /\ h[q].row.txn \in 1..k /\ Holds(h[q])
    BY <1>1, <1>10, <1>13 DEF Sessions, Owned
  <2>2. h[q].row.txn = txn => h[q].a = a
    BY <1>1, <1>2, <1>6, <2>1 DEF Sessions, Owned, Holds
  <2>3. \A b \in DOMAIN rows' : rows'[b].txn = h[q].row.txn => b = h[q].a
    BY <1>7, <1>11, <2>1, <2>2 DEF Sessions, Owned
  <2> QED BY <1>1, <1>7, <2>1, <2>3
<1>14. \A q, r \in Slots : Holds(h'[q]) /\ Holds(h'[r]) /\ h'[q].row.txn = h'[r].row.txn =>
         h'[q].a = h'[r].a
  BY <1>10 DEF Sessions, Owned
<1> QED BY <1>9, <1>12, <1>13, <1>14 DEF Sessions, Owned

(* No other step touches an attempt's session.                             *)
LEMMA TxnsKept ==
  ASSUME Safe, NEW s \in Slots, Others(s)
  PROVE  DOMAIN rows' = DOMAIN rows /\ \A a \in DOMAIN rows : rows'[a].txn = rows[a].txn
<1>1. \A a \in DOMAIN rows : rows[a] \in Row
  BY Held
<1>2. CASE Settle(s)
  <2>1. \/ UNCHANGED rows
        \/ \E hashed \in BOOLEAN :
             rows' = [rows EXCEPT ![h[s].a].status = StatusOf(h[s].arg, h[s].ok),
                                  ![h[s].a].hashed = hashed, ![h[s].a].verified = h[s].ok]
    BY <1>2, Zenon DEF Settle
  <2>2. ASSUME NEW status, NEW hashed, NEW verified, NEW a \in DOMAIN rows,
               rows' = [rows EXCEPT ![h[s].a].status = status, ![h[s].a].hashed = hashed,
                                    ![h[s].a].verified = verified]
        PROVE  DOMAIN rows' = DOMAIN rows /\ rows'[a].txn = rows[a].txn
    BY <1>1, <2>2 DEF Row
  <2>3. CASE ~UNCHANGED rows
    <3>1. PICK hashed \in BOOLEAN :
             rows' = [rows EXCEPT ![h[s].a].status = StatusOf(h[s].arg, h[s].ok),
                                  ![h[s].a].hashed = hashed, ![h[s].a].verified = h[s].ok]
      BY <2>1, <2>3
    <3>2. DOMAIN rows' = DOMAIN rows
      BY <3>1
    <3> QED BY <2>2, <3>1, <3>2
  <2> QED BY <2>3
<1>3. CASE ClaimAbort(s) \/ ExpireRow(s)
  <2>1. UNCHANGED rows \/ \E status : rows' = [rows EXCEPT ![h[s].a].status = status]
    BY <1>3 DEF ClaimAbort, ExpireRow
  <2> QED BY <1>1, <2>1 DEF Row
<1>4. CASE ~Settle(s) /\ ~ClaimAbort(s) /\ ~ExpireRow(s)
  <2>1. UNCHANGED rows
    <3>1. Fulfil(s) => UNCHANGED rows
      BY DEF Fulfil, Release, ClearCart, Dispatch, ClaimRelease, db
    <3>2. Undo(s) => UNCHANGED rows
      BY DEF Undo, Void, ClaimVoid, ClaimWallet, CreditWallet, UnclaimWallet, ClaimCart,
             RestoreCart, db
    <3>3. Callback(s) /\ ~Settle(s) => UNCHANGED rows
      BY DEF Callback, LoadOrder, Reread, SavePaid, SaveFailed, SavePay, db
    <3>4. Aborting(s) /\ ~ClaimAbort(s) => UNCHANGED rows
      BY DEF Aborting, RereadAborted, AbortOrder, db
    <3>5. Reconcile(s) /\ ~ExpireRow(s) => UNCHANGED rows
      BY DEF Reconcile, PollOrder, StatusLatest, CronLatest, CronOrder, CronFail, db
    <3>6. Cancelling(s) => UNCHANGED rows
      BY DEF Cancelling, CancelLoad, CancelCredit, LookupRefund, CreateRefund, SaveCancel, db
    <3> QED BY <1>4, <3>1, <3>2, <3>3, <3>4, <3>5, <3>6 DEF Others
  <2> QED BY <2>1
<1> QED BY <1>2, <1>3, <1>4

(* So every step keeps the sessions apart.                                 *)
LEMMA SessionsStep == Safe /\ Sessions /\ [Next]_vars => Sessions'
<1> SUFFICES ASSUME Safe, Sessions, [Next]_vars PROVE Sessions'
  OBVIOUS
<1>1. CASE GatewayAnswers \/ UNCHANGED vars
  BY <1>1, SessionsKept DEF GatewayAnswers, vars, db, env
<1>2. CASE TimePasses
  <2>1. UNCHANGED <<emitted, elsewhere, h>>
        /\ \E a \in DOMAIN rows : rows' = [rows EXCEPT ![a].age = IF @ = 3 THEN 2 ELSE @ + 1]
    BY <1>2 DEF TimePasses, env
  <2>2. \A a \in DOMAIN rows : rows[a] \in Row
    BY Held
  <2>3. DOMAIN rows' = DOMAIN rows /\ \A a \in DOMAIN rows : rows'[a].txn = rows[a].txn
    BY <2>1, <2>2 DEF Row
  <2> QED BY <2>1, <2>3, SessionsKept
<1>3. CASE Crash
  <2>1. UNCHANGED <<rows, emitted, elsewhere>> /\ \A s \in Slots : h'[s] = Idle
    BY <1>3 DEF Crash, db
  <2>2. Idle.pc = "idle" /\ Idle.job = "none"
    BY DEF Idle
  <2> QED BY <2>1, <2>2, SessionsKept
<1>4. ASSUME NEW s \in Slots, Begin(s) PROVE Sessions'
  <2>1. CASE CreateSession(s)
    BY <2>1, SessionsCreate
  <2>2. CASE ~CreateSession(s)
    <3>1. /\ Alone(s) /\ UNCHANGED <<rows, emitted, elsewhere>> /\ h'[s].pc \notin {"latest", "upsert"}
      BY <1>4, <2>2, BeginLeads DEF db, env
    <3> QED BY <3>1, SessionsKept DEF Alone
  <2> QED BY <2>1, <2>2
<1>5. ASSUME NEW s \in Slots, Others(s) PROVE Sessions'
  <2>1. /\ Alone(s) /\ UNCHANGED <<emitted, elsewhere>> /\ h'[s].pc \notin {"latest", "upsert"}
    BY <1>5, Leads DEF env
  <2> QED BY <1>5, <2>1, TxnsKept, SessionsKept DEF Alone
<1>6. ASSUME NEW s \in Slots, LatestAttempt(s) \/ Upsert(s) PROVE Sessions'
  BY <1>6, SessionsLatest, SessionsUpsert
<1> QED BY <1>1, <1>2, <1>3, <1>4, <1>5, <1>6 DEF Next, Continue, Others

(* The ledger's keys and the count of refund requests.                     *)
Counts == /\ walletBack \subseteq {"void", "cancel", "unbooked"} /\ refundReqs \in 0..2
          /\ elsewhere \subseteq OtherCodes

(* Keys and requests stay counted. *)
LEMMA CountsStep == Counts /\ [Next]_vars => Counts'
<1> SUFFICES ASSUME Counts, [Next]_vars PROVE Counts'
  OBVIOUS
<1>1. CASE GatewayAnswers \/ TimePasses \/ Crash \/ UNCHANGED vars
  BY <1>1 DEF GatewayAnswers, TimePasses, Crash, vars, db, goods, env, Counts
<1>2. ASSUME NEW s \in Slots, CreditWallet(s) \/ CancelCredit(s) \/ CreateRefund(s) PROVE Counts'
  <2>1. CASE CreditWallet(s)
    BY <2>1 DEF CreditWallet, Unbooked, env, Counts
  <2>2. CASE CancelCredit(s)
    BY <2>2 DEF CancelCredit, Unbooked, env, Counts
  <2>3. CASE CreateRefund(s)
    <3>1. /\ UNCHANGED <<walletBack, elsewhere>>
          /\ refundReqs' \in {refundReqs, IF refundReqs < 2 THEN refundReqs + 1 ELSE 2}
      BY <2>3 DEF CreateRefund, env
    <3> QED BY <3>1 DEF Counts
  <2> QED BY <1>2, <2>1, <2>2, <2>3
<1>3. ASSUME NEW s \in Slots, Begin(s) \/ LatestAttempt(s) \/ Upsert(s) \/ Fulfil(s)
      PROVE  Counts'
  BY <1>3 DEF Begin, Receive, Abort, Poll, GetStatus, Cron, Cancel, CreateSession, LatestAttempt,
              Upsert, Fulfil, Release, ClearCart, Dispatch, ClaimRelease, db, goods, env, Counts
<1>4. ASSUME NEW s \in Slots, Callback(s) \/ Aborting(s) \/ Reconcile(s) PROVE Counts'
  BY <1>4 DEF Callback, LoadOrder, Settle, Reread, SavePaid, SaveFailed, SavePay, Aborting,
              ClaimAbort, RereadAborted, AbortOrder, Reconcile, PollOrder, ExpireRow,
              StatusLatest, CronLatest, CronOrder, CronFail, db, goods, env, Counts
<1>5. ASSUME NEW s \in Slots, Undo(s) \/ Cancelling(s), ~CreditWallet(s), ~CancelCredit(s),
             ~CreateRefund(s)
      PROVE  Counts'
  BY <1>5 DEF Undo, Void, ClaimVoid, ClaimWallet, UnclaimWallet, ClaimCart, RestoreCart,
              Cancelling, CancelLoad, LookupRefund, SaveCancel, db, goods, env, Counts
<1> QED BY <1>1, <1>2, <1>3, <1>4, <1>5 DEF Next, Continue

(* No attempts, no sessions. *)
LEMMA InitSessions == Init => Sessions /\ Counts
<1> SUFFICES ASSUME Init PROVE Sessions /\ Counts
  OBVIOUS
<1>1. Idle.pc = "idle" /\ Idle.job = "none"
  BY DEF Idle
<1>2. Opening = {} /\ \A s \in Slots : h[s].pc = "idle"
  BY <1>1 DEF Init, Opening, At
<1>3. IsFiniteSet(Opening) /\ Cardinality(Opening) = 0
  BY <1>2, FS_EmptySet
<1>4. Numbered
  <2>1. CASE rows = <<>> /\ emitted = <<>>
    <3>1. DOMAIN rows = 1..0 /\ DOMAIN emitted = 1..0
      BY <2>1
    <3>2. 0 \in 0..MaxSessions /\ 0 <= 0 /\ 0 + Cardinality(Opening) <= MaxSessions
      BY <1>3, BoundsAssumption
    <3> HIDE DEF Opening
    <3> QED BY <1>3, <3>1, <3>2, Zenon DEF Numbered
  <2>2. CASE rows = <<NewRow>> /\ emitted = << {} >>
    <3>1. DOMAIN rows = 1..1 /\ DOMAIN emitted = 1..1
      BY <2>2
    <3>2. 1 \in 0..MaxSessions /\ 1 <= 1 /\ 1 + Cardinality(Opening) <= MaxSessions
      BY <1>3, BoundsAssumption
    <3> HIDE DEF Opening
    <3> QED BY <1>3, <3>1, <3>2, Zenon DEF Numbered
  <2> QED BY <2>1, <2>2 DEF Init
<1>5. Owned
  <2>1. DOMAIN rows \subseteq {1}
    BY DEF Init
  <2> QED BY <1>2, <2>1 DEF Owned, Holds
<1> QED BY <1>2, <1>4, <1>5 DEF Sessions, Counts, Init

(* Types; and every attempt has a session of its own: the unique index on  *)
(* txnId never refuses one, however requests for sessions race with each   *)
(* other, with the callbacks and with the cron.                            *)
THEOREM TypeCorrect == Spec => []TypeOK
<1>1. Safe /\ Sessions /\ Counts => TypeOK
  <2> SUFFICES ASSUME Safe, Sessions, Counts PROVE TypeOK
    OBVIOUS
  <2>1. PICK n, k \in 0..MaxSessions : DOMAIN rows = 1..n /\ DOMAIN emitted = 1..k
    BY DEF Sessions, Numbered
  <2>2. DOMAIN rows \subseteq 1..MaxSessions /\ DOMAIN emitted \subseteq 1..MaxSessions
    BY <2>1, BoundsAssumption
  <2>3. ASSUME NEW a \in DOMAIN rows PROVE rows[a] \in RowType /\ rows[a].txn \in DOMAIN emitted
    <3>1. rows[a] \in Row /\ rows[a].txn \in DOMAIN emitted /\ rows[a].txn \in 1..MaxSessions
      BY <2>2, Held DEF Safe, Typed, RowsOK
    <3> QED BY <3>1 DEF Row, RowType
  <2>4. \A s \in Slots : h[s].job \in Jobs \cup {"none"} /\ h[s].o \in OrderType
    BY DEF Safe, Typed, Handler
  <2>5. \A t \in DOMAIN emitted : emitted[t] \subseteq Codes
    BY DEF Safe, Typed, RowsOK
  <2>6. \A a, b \in DOMAIN rows : rows[a].txn = rows[b].txn => a = b
    BY DEF Sessions, Owned
  <2> QED BY <2>2, <2>3, <2>4, <2>5, <2>6 DEF TypeOK, Counts, Safe, Typed
<1> QED BY <1>1, InitSessions, SessionsStep, CountsStep, Inductive, PTL DEF Spec
-----------------------------------------------------------------------------
(* The gateway's own handlers, with neither a cancel nor a new session.    *)
GatewayOnly == \A s \in Slots : Serves[s] \cap {"cancel", "session"} = {}

(* Their order has one attempt at most, and what became of it is final.    *)
Won == \E a \in DOMAIN rows : Verified(rows[a])
Lost == \E a \in DOMAIN rows : rows[a].status \in {"failed", "cancelled"}
Paid == order.pay = "paid" /\ order.status = "pending"

Releasing == {"clear", "dispatch", "claim"}
Crediting == {"walletCredit", "walletUnclaim"}
Undoing == Crediting \cup {"walletClaim", "cartClaim", "cartRestore"}
Elsewhere == {"cancelLoad", "cancelCredit", "refundLookup", "refundCreate", "cancelSave",
              "latest", "upsert", "cronFail"}

(* Who writes paid or failed, releases or undoes has its reason.           *)
Justified(x, won, lost, paid, voided) ==
  /\ x.pc \notin Elsewhere /\ x.job \notin {"cancel", "session"}
  /\ x.pc = "savePaid" \/ Verified(x.row) => won
  /\ x.pc = "saveFailed" => lost
  /\ x.pc \in Releasing => paid
  /\ x.pc \in Undoing => voided

(* A paid order was won, a release or a cleared cart belongs to a paid     *)
(* order, wallet money that came back to a void one, and a claimed refund  *)
(* was credited or is under way.                                           *)
Unrefunded == crashes = 0 /\ order.refunded /\ "void" \notin walletBack
Final == /\ DOMAIN rows \subseteq {1} /\ crashes \in Nat
         /\ order.pay = "paid" => Won
         /\ order.released \/ ~cart => Paid
         /\ walletBack # {} => Voided
One == /\ Final
       /\ \A s \in Slots : Justified(h[s], Won, Lost, Paid, Voided)
       /\ Unrefunded => \E s \in Slots : h[s].pc \in Crediting

(* The one attempt is not both won and lost. *)
LEMMA NotBoth == ASSUME Safe, One PROVE ~(Won /\ Lost)
BY DEF One, Final, Won, Lost, Verified

(* Nothing decided yet. *)
LEMMA InitOne == Init => One
<1> SUFFICES ASSUME Init PROVE One
  OBVIOUS
<1>1. DOMAIN rows \subseteq {1}
  BY DEF Init
<1>2. Final /\ ~Unrefunded
  BY <1>1 DEF Init, Final, NewOrder, Unrefunded
<1>3. Idle.pc = "idle" /\ Idle.job = "none" /\ ~Verified(Idle.row)
  BY Blank DEF Idle
<1>4. \A s \in Slots : Justified(h[s], Won, Lost, Paid, Voided)
  BY <1>3 DEF Init, Justified, Elsewhere, Releasing, Undoing, Crediting
<1> QED BY <1>2, <1>4 DEF One

(* What every step keeps. *)
Stands == /\ (Won => Won') /\ (Lost => Lost') /\ (Paid => Paid') /\ (Voided => Voided')
          /\ crashes' = crashes

(* One handler moves.                                                      *)
LEMMA OneMoves ==
  ASSUME Safe, One, NEW s \in Slots, NEW x, h' = [h EXCEPT ![s] = x], Stands, Final',
         Justified(x, Won', Lost', Paid', Voided'),
         Unrefunded' => x.pc \in Crediting \/ (Unrefunded /\ h[s].pc \notin Crediting)
  PROVE  One'
<1>1. h'[s] = x /\ \A q \in Slots \ {s} : h'[q] = h[q]
  BY DEF Safe, Typed
<1>2. \A q \in Slots : Justified(h[q], Won, Lost, Paid, Voided)'
  BY <1>1 DEF Justified, One, Stands
<1>3. Unrefunded' => (\E q \in Slots : h[q].pc \in Crediting)'
  <2>1. ASSUME Unrefunded, h[s].pc \notin Crediting PROVE \E q \in Slots : h'[q].pc \in Crediting
    BY <1>1, <2>1 DEF One
  <2> QED BY <1>1, <2>1
<1> QED BY <1>2, <1>3 DEF One

(* It only goes on to another label.                                       *)
LEMMA OneGoesOn ==
  ASSUME Safe, One, NEW s \in Slots, NEW label \in Labels \ Elsewhere,
         Goto(s, label) \/ Enter(s, label) \/ End(s), Stands, Final',
         label = "savePaid" => Won', label = "saveFailed" => Lost',
         label \in Releasing => Paid', label \in Undoing => Voided',
         Unrefunded' => (Goto(s, label) /\ label \in Crediting) \/ (Unrefunded /\ h[s].pc \notin Crediting)
  PROVE  One'
<1>1. h[s] \in Handler /\ Justified(h[s], Won, Lost, Paid, Voided)
  BY DEF Safe, Typed, One
<1>2. CASE Goto(s, label)
  <2> DEFINE x == [h[s] EXCEPT !.pc = label]
  <2>1. x.pc = label /\ x.job = h[s].job /\ x.row = h[s].row
    BY <1>1 DEF Handler
  <2>2. h' = [h EXCEPT ![s] = x]
    BY <1>2 DEF Goto
  <2>3. Justified(x, Won', Lost', Paid', Voided')
    BY <1>1, <2>1 DEF Justified, Stands
  <2> HIDE DEF x
  <2> QED BY <2>1, <2>2, <2>3, OneMoves
<1>3. CASE ~Goto(s, label) /\ Enter(s, label)
  <2> DEFINE x == [Idle EXCEPT !.job = h[s].job, !.pc = label]
  <2>1. x.pc = label /\ x.job = h[s].job /\ x.row = Idle.row
    BY DEF Idle
  <2>2. h' = [h EXCEPT ![s] = x]
    BY <1>3 DEF Enter
  <2>3. ~Verified(Idle.row)
    BY Blank DEF Idle
  <2>4. Justified(x, Won', Lost', Paid', Voided')
    BY <1>1, <2>1, <2>3 DEF Justified, Stands
  <2> HIDE DEF x
  <2> QED BY <1>3, <2>1, <2>2, <2>4, OneMoves
<1>4. CASE ~Goto(s, label) /\ End(s)
  <2>1. Idle.pc = "idle" /\ Idle.job = "none" /\ ~Verified(Idle.row)
    BY Blank DEF Idle
  <2>2. Justified(Idle, Won', Lost', Paid', Voided')
    BY <2>1 DEF Justified, Elsewhere, Releasing, Undoing, Crediting
  <2>3. h' = [h EXCEPT ![s] = Idle]
    BY <1>4 DEF End
  <2> QED BY <1>4, <2>2, <2>3, OneMoves
<1> QED BY <1>2, <1>3, <1>4

(* It starts. *)
LEMMA OneStarts ==
  ASSUME Safe, One, GatewayOnly, NEW s \in Slots, NEW job, NEW label \in Labels \ Elsewhere,
         NEW a, NEW arg, NEW ok, NEW row, Start(s, job, label, a, arg, ok, row),
         UNCHANGED <<db, env>>, Verified(row) => Won,
         label \notin {"savePaid", "saveFailed"} \cup Releasing \cup Undoing
  PROVE  One'
<1> DEFINE x == [Idle EXCEPT !.job = job, !.pc = label, !.a = a, !.arg = arg,
                             !.ok = ok, !.row = row]
<1>1. x.pc = label /\ x.job = job /\ x.row = row
  BY DEF Idle
<1>2. h' = [h EXCEPT ![s] = x] /\ job \notin {"cancel", "session"} /\ h[s].pc \notin Crediting
  BY DEF Start, GatewayOnly, At, Crediting
<1>3. Stands /\ Final' /\ (Unrefunded' => Unrefunded)
  BY DEF Stands, Final, One, Won, Lost, Paid, Voided, Unrefunded, db, env, goods
<1>4. Justified(x, Won', Lost', Paid', Voided')
  BY <1>1, <1>2, <1>3 DEF Justified, Stands
<1> HIDE DEF x
<1> QED BY <1>2, <1>3, <1>4, OneMoves

(* A step that writes only into the order, or not at all.                  *)
LEMMA OneKeeps ==
  ASSUME One, UNCHANGED <<rows, emitted, elsewhere, crashes>>,
         Paid => Paid', Voided => Voided', order'.pay = "paid" => Won,
         order'.released \/ ~cart' => Paid', walletBack' # {} => Voided'
  PROVE  Stands /\ Final'
BY DEF Stands, Final, One, Won, Lost

(* A step that writes only into handlers.                                  *)
LEMMA OneReads ==
  ASSUME One, UNCHANGED <<order, rows, emitted, elsewhere, crashes, cart, walletBack>>
  PROVE  Stands /\ Final' /\ (Unrefunded' <=> Unrefunded) /\ (Won' <=> Won) /\ (Lost' <=> Lost)
         /\ (Paid' <=> Paid) /\ (Voided' <=> Voided)
BY DEF Stands, Final, One, Won, Lost, Paid, Voided, Unrefunded

(* releaseOrderFulfillment: a paid order stays paid, and so not voided.    *)
LEMMA OneFulfils == ASSUME Safe, One, NEW s \in Slots, Fulfil(s) PROVE One'
<1> USE DEF Labels, Elsewhere, Releasing, Undoing, Crediting
<1>0. h[s] \in Handler /\ order \in OrderType /\ Justified(h[s], Won, Lost, Paid, Voided)
  BY DEF Safe, Typed, One
<1>1. CASE Release(s)
  <2>1. UNCHANGED <<order, rows, emitted, elsewhere, crashes, cart, walletBack>> /\ h[s].pc = "release"
        /\ ((Goto(s, "clear") /\ Paid) \/ End(s))
    BY <1>0, <1>1 DEF Release, At, db, goods, env, OrderType, Paid
  <2> QED BY <2>1, OneReads, OneGoesOn
<1>2. CASE ClearCart(s)
  <2>1. Paid /\ UNCHANGED <<order, rows, emitted, elsewhere, crashes, walletBack>> /\ h[s].pc = "clear"
        /\ Goto(s, "dispatch")
    BY <1>0, <1>2 DEF ClearCart, At, env, Justified
  <2>2. Stands /\ Final' /\ Paid' /\ (Unrefunded' => Unrefunded)
    BY <2>1, OneKeeps DEF One, Final, Paid, Voided, Unrefunded
  <2> QED BY <2>1, <2>2, OneGoesOn
<1>3. CASE Dispatch(s)
  <2>1. Paid /\ UNCHANGED <<order, rows, emitted, elsewhere, crashes, cart, walletBack>>
        /\ h[s].pc = "dispatch" /\ Goto(s, "claim")
    BY <1>0, <1>3 DEF Dispatch, At, env, Justified
  <2> QED BY <2>1, OneReads, OneGoesOn
<1>4. CASE ClaimRelease(s)
  <2>1. Paid /\ UNCHANGED <<rows, emitted, elsewhere, crashes, cart, walletBack>> /\ End(s)
        /\ h[s].pc = "claim"
    BY <1>0, <1>4 DEF ClaimRelease, At, goods, env, Justified
  <2>2. order'.pay = "paid" /\ order'.status = "pending" /\ order'.refunded = order.refunded
    BY <1>0, <1>4, <2>1 DEF ClaimRelease, Paid, OrderType
  <2>3. Stands /\ Final' /\ (Unrefunded' => Unrefunded)
    BY <2>1, <2>2, OneKeeps DEF One, Final, Paid, Voided, Unrefunded
  <2> QED BY <2>1, <2>3, OneGoesOn
<1> QED BY <1>1, <1>2, <1>3, <1>4 DEF Fulfil

(* voidUnpaidOnlineOrder takes only an order nobody paid, and once.        *)
LEMMA OneUndoes == ASSUME Safe, One, NEW s \in Slots, Undo(s) PROVE One'
<1> USE DEF Labels, Elsewhere, Releasing, Undoing, Crediting
<1>0. /\ h[s] \in Handler /\ order \in OrderType /\ Justified(h[s], Won, Lost, Paid, Voided)
      /\ Final /\ ~(Voided /\ Paid) /\ h[s].job # "cancel"
  BY DEF Safe, Typed, One, Voided, Paid, Justified
<1>1. CASE Void(s)
  <2>1. UNCHANGED <<order, rows, emitted, elsewhere, crashes, cart, walletBack>> /\ h[s].pc = "void"
        /\ (Goto(s, "voidClaim") \/ End(s))
    BY <1>1 DEF Void, At, db, goods, env
  <2> QED BY <2>1, OneReads, OneGoesOn
<1>2. CASE ClaimVoid(s)
  <2>1. UNCHANGED <<rows, emitted, elsewhere, crashes, cart, walletBack>> /\ h[s].pc = "voidClaim"
    BY <1>2 DEF ClaimVoid, At, goods, env
  <2>2. CASE Voidable
    <3>1. order'.status = "cancelled" /\ order'.pay = "failed" /\ ~order'.released
          /\ order'.refunded = order.refunded /\ Goto(s, "walletClaim") /\ ~Paid
      BY <1>0, <1>2, <2>2 DEF ClaimVoid, Voidable, Unpaid, OrderType, Paid
    <3>2. Stands /\ Final' /\ (Unrefunded' => Unrefunded) /\ Voided'
      BY <1>0, <2>1, <3>1, OneKeeps DEF Final, Voided, Unrefunded
    <3> QED BY <2>1, <3>1, <3>2, OneGoesOn
  <2>3. CASE ~Voidable
    <3>1. UNCHANGED order /\ End(s)
      BY <1>2, <2>3 DEF ClaimVoid
    <3> QED BY <2>1, <3>1, OneReads, OneGoesOn
  <2> QED BY <2>2, <2>3
<1>3. CASE ClaimWallet(s)
  <2>1. UNCHANGED <<rows, emitted, elsewhere, crashes, cart, walletBack>> /\ h[s].pc = "walletClaim" /\ Voided
    BY <1>0, <1>3 DEF ClaimWallet, At, goods, env, Justified
  <2>2. CASE Goto(s, "walletCredit") /\ order' = [order EXCEPT !.refunded = TRUE]
    <3>1. order'.status = order.status /\ order'.pay = order.pay /\ order'.released = order.released
      BY <1>0, <2>2 DEF OrderType
    <3>2. Stands /\ Final' /\ Voided'
      BY <1>0, <2>1, <3>1, OneKeeps DEF Final, Voided, Paid
    <3> QED BY <2>1, <2>2, <3>2, OneGoesOn
  <2>3. CASE Goto(s, "cartClaim") /\ UNCHANGED order
    BY <2>1, <2>3, OneReads, OneGoesOn
  <2> QED BY <1>0, <1>3, <2>2, <2>3 DEF ClaimWallet, AfterWallet
<1>4. CASE CreditWallet(s)
  <2>1. UNCHANGED <<order, rows, emitted, elsewhere, crashes, cart>> /\ h[s].pc = "walletCredit" /\ Voided
    BY <1>0, <1>4 DEF CreditWallet, At, env, Justified
  <2>2. CASE walletBack' = walletBack \cup {"void"} /\ Goto(s, "cartClaim")
    <3>1. Stands /\ Final' /\ Voided' /\ ~Unrefunded'
      BY <1>0, <2>1, <2>2, OneKeeps DEF Final, Voided, Paid, Unrefunded
    <3> QED BY <2>1, <2>2, <3>1, OneGoesOn
  <2>3. CASE walletBack' \in Unbooked /\ Goto(s, "walletUnclaim")
    <3>1. Stands /\ Final' /\ Voided'
      BY <1>0, <2>1, <2>3, OneKeeps DEF Final, Voided, Paid
    <3> QED BY <2>1, <2>3, <3>1, OneGoesOn
  <2> QED BY <1>0, <1>4, <2>2, <2>3 DEF CreditWallet, AfterWallet, AfterThrow, Unbooked
<1>5. CASE UnclaimWallet(s)
  <2>1. UNCHANGED <<rows, emitted, elsewhere, crashes, cart, walletBack>> /\ h[s].pc = "walletUnclaim" /\ Voided
        /\ Goto(s, "cartClaim")
    BY <1>0, <1>5 DEF UnclaimWallet, AfterWallet, At, goods, env, Justified
  <2>2. order'.status = order.status /\ order'.pay = order.pay /\ order'.released = order.released
        /\ ~order'.refunded
    BY <1>0, <1>5 DEF UnclaimWallet, OrderType
  <2>3. Stands /\ Final' /\ Voided' /\ ~Unrefunded'
    BY <1>0, <2>1, <2>2, OneKeeps DEF Final, Voided, Paid, Unrefunded
  <2> QED BY <2>1, <2>3, OneGoesOn
<1>6. CASE ClaimCart(s)
  <2>1. UNCHANGED <<rows, emitted, elsewhere, crashes, cart, walletBack>> /\ h[s].pc = "cartClaim" /\ Voided
        /\ (End(s) \/ Goto(s, "cartRestore"))
    BY <1>0, <1>6 DEF ClaimCart, At, goods, env, Justified
  <2>2. order'.status = order.status /\ order'.pay = order.pay /\ order'.released = order.released
        /\ order'.refunded = order.refunded
    BY <1>0, <1>6 DEF ClaimCart, OrderType
  <2>3. Stands /\ Final' /\ Voided' /\ (Unrefunded' => Unrefunded)
    BY <1>0, <2>1, <2>2, OneKeeps DEF Final, Voided, Paid, Unrefunded
  <2> QED BY <2>1, <2>3, OneGoesOn
<1>7. CASE RestoreCart(s)
  <2>1. UNCHANGED <<order, rows, emitted, elsewhere, crashes, walletBack>> /\ h[s].pc = "cartRestore"
        /\ End(s) /\ cart'
    BY <1>7 DEF RestoreCart, At, env
  <2>2. Stands /\ Final' /\ (Unrefunded' => Unrefunded)
    BY <1>0, <2>1, OneKeeps DEF Final, Voided, Paid, Unrefunded
  <2> QED BY <2>1, <2>2, OneGoesOn
<1> QED BY <1>1, <1>2, <1>3, <1>4, <1>5, <1>6, <1>7 DEF Undo

(* A handler that writes an attempt's status: only an open one, or none.   *)
LEMMA OneSettles ==
  ASSUME Safe, One, UNCHANGED <<order, emitted, elsewhere, crashes, cart, walletBack>>,
         DOMAIN rows' = DOMAIN rows,
         \A a \in DOMAIN rows : \/ rows'[a].status = rows[a].status /\ rows'[a].verified = rows[a].verified
                                \/ rows[a].status \notin Terminal
  PROVE  Stands /\ Final' /\ (Unrefunded' => Unrefunded)
<1>1. (Won => Won') /\ (Lost => Lost')
  BY DEF Won, Lost, Verified, Terminal
<1> QED BY <1>1 DEF Stands, Final, One, Paid, Voided, Unrefunded

(* A gateway answer: the attempt it leaves settled tells what to write.    *)
LEMMA OneCalledBack == ASSUME Safe, One, NEW s \in Slots, Callback(s) PROVE One'
<1> USE DEF Labels, Elsewhere, Releasing, Undoing, Crediting
<1>0. /\ h[s] \in Handler /\ order \in OrderType /\ Justified(h[s], Won, Lost, Paid, Voided)
      /\ Fits(h[s]) /\ ~(Won /\ Lost) /\ Final
  BY NotBoth DEF Safe, Typed, One
<1>1. CASE LoadOrder(s)
  <2> DEFINE x == [h[s] EXCEPT !.o = order, !.pc = "settle"]
  <2>1. UNCHANGED <<order, rows, emitted, elsewhere, crashes, cart, walletBack>> /\ h[s].pc = "order"
        /\ h' = [h EXCEPT ![s] = x]
    BY <1>1 DEF LoadOrder, At, db, goods, env
  <2>2. x.pc = "settle" /\ x.job = h[s].job /\ x.row = h[s].row
    BY <1>0 DEF Handler
  <2> HIDE DEF x
  <2>3. Justified(x, Won', Lost', Paid', Voided')
    BY <1>0, <2>1, <2>2, OneReads DEF Justified
  <2> QED BY <2>1, <2>3, OneReads, OneMoves
<1>2. ASSUME NEW row, Follow(s, row), Verified(row) => Won',
             row.status \in {"failed", "cancelled"} => Lost',
             Stands, Final', Unrefunded' => Unrefunded, h[s].pc \in {"settle", "reread"}
      PROVE  One'
  <2>1. \/ Goto(s, "savePaid") /\ Won'
        \/ Goto(s, "saveFailed") /\ Lost'
        \/ End(s)
    BY <1>2 DEF Follow
  <2> QED BY <1>2, <2>1, OneGoesOn
<1>3. CASE Settle(s)
  <2> DEFINE a == h[s].a
  <2>1. a \in DOMAIN rows /\ UNCHANGED <<order, emitted, elsewhere, crashes, cart, walletBack>>
        /\ h[s].pc = "settle"
    BY <1>0, <1>3 DEF Settle, At, Fits, goods, env
  <2>2. CASE Settleable(rows[a]) /\ Follow(s, rows'[a])
             /\ \E hashed \in BOOLEAN :
                  rows' = [rows EXCEPT ![a].status = StatusOf(h[s].arg, h[s].ok),
                                       ![a].hashed = hashed, ![a].verified = h[s].ok]
    <3>1. DOMAIN rows' = DOMAIN rows /\ \A b \in DOMAIN rows \ {a} : rows'[b] = rows[b]
      BY <2>2
    <3>2. Stands /\ Final' /\ (Unrefunded' => Unrefunded)
      BY <2>1, <2>2, <3>1, OneSettles DEF Settleable
    <3>3. /\ Verified(rows'[a]) => Won'
          /\ rows'[a].status \in {"failed", "cancelled"} => Lost'
      BY <2>1, <3>1 DEF Won, Lost
    <3> QED BY <1>2, <2>1, <2>2, <3>2, <3>3
  <2>3. CASE Goto(s, "reread") /\ UNCHANGED rows
    BY <2>1, <2>3, OneReads, OneGoesOn
  <2> QED BY <1>3, <2>2, <2>3 DEF Settle
<1>4. CASE Reread(s)
  <2>1. h[s].a \in DOMAIN rows /\ UNCHANGED <<order, rows, emitted, elsewhere, crashes, cart, walletBack>>
        /\ h[s].pc = "reread" /\ Follow(s, rows[h[s].a])
    BY <1>0, <1>4 DEF Reread, At, Fits, goods, env
  <2>2. /\ Verified(rows[h[s].a]) => Won'
        /\ rows[h[s].a].status \in {"failed", "cancelled"} => Lost'
    BY <2>1 DEF Won, Lost
  <2> QED BY <1>2, <2>1, <2>2, OneReads
<1>5. CASE SavePaid(s)
  <2>1. Won /\ UNCHANGED <<rows, emitted, elsewhere, crashes, cart, walletBack>> /\ h[s].pc = "savePaid"
        /\ Enter(s, "release")
    BY <1>0, <1>5 DEF SavePaid, SavePay, At, goods, env, Justified
  <2>2. /\ order'.status = order.status /\ order'.released = order.released
        /\ order'.refunded = order.refunded /\ order'.pay \in {order.pay, "paid"}
    BY <1>0, <1>5 DEF SavePaid, SavePay, OrderType
  <2>3. Stands /\ Final' /\ (Unrefunded' => Unrefunded)
    BY <1>0, <2>1, <2>2, OneKeeps DEF Final, Voided, Paid, Unrefunded
  <2> QED BY <2>1, <2>3, OneGoesOn
<1>6. CASE SaveFailed(s)
  <2>1. Lost /\ UNCHANGED <<rows, emitted, elsewhere, crashes, cart, walletBack>> /\ h[s].pc = "saveFailed"
        /\ Enter(s, "void") /\ order.pay # "paid"
    BY <1>0, <1>6 DEF SaveFailed, SavePay, At, goods, env, Justified, Final
  <2>2. /\ order'.status = order.status /\ order'.released = order.released
        /\ order'.refunded = order.refunded /\ order'.pay \in {order.pay, "failed"}
    BY <1>0, <1>6 DEF SaveFailed, SavePay, OrderType
  <2>3. Stands /\ Final' /\ (Unrefunded' => Unrefunded)
    BY <1>0, <2>1, <2>2, OneKeeps DEF Final, Voided, Paid, Unrefunded
  <2> QED BY <2>1, <2>3, OneGoesOn
<1> QED BY <1>1, <1>3, <1>4, <1>5, <1>6 DEF Callback

(* abortPayment. *)
LEMMA OneAborts == ASSUME Safe, One, NEW s \in Slots, Aborting(s) PROVE One'
<1> USE DEF Labels, Elsewhere, Releasing, Undoing, Crediting
<1>1. CASE ClaimAbort(s)
  <2>1. UNCHANGED <<order, emitted, elsewhere, crashes, cart, walletBack>> /\ h[s].pc = "abortClaim"
        /\ (Goto(s, "abortOrder") \/ Goto(s, "abortReread"))
    BY <1>1 DEF ClaimAbort, At, goods, env
  <2>2. /\ DOMAIN rows' = DOMAIN rows
        /\ \A b \in DOMAIN rows : rows'[b] = rows[b] \/ rows[b].status \notin Terminal
    BY <1>1 DEF ClaimAbort, Settleable
  <2>3. Stands /\ Final' /\ (Unrefunded' => Unrefunded)
    BY <2>1, <2>2, OneSettles
  <2> QED BY <2>1, <2>3, OneGoesOn
<1>2. CASE RereadAborted(s)
  <2>1. UNCHANGED <<order, rows, emitted, elsewhere, crashes, cart, walletBack>> /\ h[s].pc = "abortReread"
        /\ (Goto(s, "abortOrder") \/ End(s))
    BY <1>2 DEF RereadAborted, At, db, goods, env
  <2> QED BY <2>1, OneReads, OneGoesOn
<1>3. CASE AbortOrder(s)
  <2>1. UNCHANGED <<order, rows, emitted, elsewhere, crashes, cart, walletBack>> /\ h[s].pc = "abortOrder"
        /\ (Enter(s, "void") \/ End(s))
    BY <1>3 DEF AbortOrder, At, db, goods, env
  <2> QED BY <2>1, OneReads, OneGoesOn
<1> QED BY <1>1, <1>2, <1>3 DEF Aborting

(* Reconciliation. *)
LEMMA OneReconciles == ASSUME Safe, One, NEW s \in Slots, Reconcile(s) PROVE One'
<1> USE DEF Labels, Elsewhere, Releasing, Undoing, Crediting
<1>0. /\ h[s] \in Handler /\ order \in OrderType /\ Justified(h[s], Won, Lost, Paid, Voided)
      /\ Fits(h[s]) /\ ~(Won /\ Lost) /\ Final
  BY NotBoth DEF Safe, Typed, One
<1>1. CASE PollOrder(s)
  <2>1. UNCHANGED <<order, rows, emitted, elsewhere, crashes, cart, walletBack>> /\ h[s].pc = "pollOrder"
    BY <1>1 DEF PollOrder, At, goods, env
  <2>2. CASE End(s) \/ Enter(s, "release") \/ Enter(s, "void")
    BY <2>1, <2>2, OneReads, OneGoesOn
  <2>3. CASE Verified(h[s].row) /\ h' = [h EXCEPT ![s] = [Idle EXCEPT !.job = "poll",
                                                    !.pc = "savePaid", !.o = order]]
    <3> DEFINE x == [Idle EXCEPT !.job = "poll", !.pc = "savePaid", !.o = order]
    <3>1. x.job = "poll" /\ x.pc = "savePaid" /\ x.row = Idle.row
      BY DEF Idle
    <3>2. ~Verified(Idle.row)
      BY Blank DEF Idle
    <3>3. h' = [h EXCEPT ![s] = x] /\ Won
      BY <1>0, <2>3 DEF Justified
    <3> HIDE DEF x
    <3>4. Justified(x, Won', Lost', Paid', Voided')
      BY <2>1, <3>1, <3>2, <3>3, OneReads DEF Justified
    <3> QED BY <2>1, <3>3, <3>4, OneReads, OneMoves
  <2>4. CASE h' = [h EXCEPT ![s].pc = "expire", ![s].arg = "failed"]
    <3> DEFINE x == [h[s] EXCEPT !.pc = "expire", !.arg = "failed"]
    <3>1. x.job = h[s].job /\ x.pc = "expire" /\ x.row = h[s].row
      BY <1>0 DEF Handler
    <3>2. h' = [h EXCEPT ![s] = x]
      BY <2>4 DEF Safe, Typed
    <3> HIDE DEF x
    <3>3. Justified(x, Won', Lost', Paid', Voided')
      BY <1>0, <2>1, <3>1, OneReads DEF Justified
    <3> QED BY <2>1, <3>2, <3>3, OneReads, OneMoves
  <2> QED BY <1>1, <2>2, <2>3, <2>4 DEF PollOrder
<1>2. CASE ExpireRow(s)
  <2>1. UNCHANGED <<order, emitted, elsewhere, crashes, cart, walletBack>> /\ h[s].pc = "expire"
        /\ (Enter(s, "void") \/ Goto(s, "cronLatest"))
    BY <1>2 DEF ExpireRow, At, goods, env
  <2>2. h[s].row.status \notin Terminal
    BY <1>0, <2>1 DEF Fits
  <2>3. /\ DOMAIN rows' = DOMAIN rows
        /\ \A b \in DOMAIN rows : rows'[b] = rows[b] \/ rows[b].status \notin Terminal
    BY <1>2, <2>2 DEF ExpireRow, StillAt
  <2>4. Stands /\ Final' /\ (Unrefunded' => Unrefunded)
    BY <2>1, <2>3, OneSettles
  <2> QED BY <2>1, <2>4, OneGoesOn
<1>3. CASE StatusLatest(s)
  <2>1. UNCHANGED <<order, rows, emitted, elsewhere, crashes, cart, walletBack>> /\ h[s].pc = "statusLatest"
        /\ (Enter(s, "release") \/ End(s))
    BY <1>3 DEF StatusLatest, At, db, goods, env
  <2> QED BY <2>1, OneReads, OneGoesOn
<1>4. CASE CronLatest(s)
  <2>1. UNCHANGED <<order, rows, emitted, elsewhere, crashes, cart, walletBack>> /\ h[s].pc = "cronLatest"
        /\ (Goto(s, "cronOrder") \/ End(s))
    BY <1>4 DEF CronLatest, At, db, goods, env
  <2> QED BY <2>1, OneReads, OneGoesOn
<1>5. CASE CronOrder(s)
  <2>1. UNCHANGED <<rows, emitted, elsewhere, crashes, cart, walletBack>> /\ h[s].pc = "cronOrder"
        /\ (Enter(s, "void") \/ End(s))
    BY <1>0, <1>5 DEF CronOrder, At, goods, env, Unpaid, Final, Paid
  <2>2. /\ order'.status = order.status /\ order'.released = order.released
        /\ order'.refunded = order.refunded
        /\ order'.pay = order.pay \/ (order.pay # "paid" /\ order'.pay = "pending")
    BY <1>0, <1>5 DEF CronOrder, OrderType
  <2>3. Stands /\ Final' /\ (Unrefunded' => Unrefunded)
    BY <1>0, <2>1, <2>2, OneKeeps DEF Final, Voided, Paid, Unrefunded
  <2> QED BY <2>1, <2>3, OneGoesOn
<1>6. CASE CronFail(s)
  BY <1>0, <1>6 DEF CronFail, At, Justified
<1> QED BY <1>1, <1>2, <1>3, <1>4, <1>5, <1>6 DEF Reconcile

(* The first step of a gateway job. *)
LEMMA OneBegins == ASSUME Safe, One, GatewayOnly, NEW s \in Slots, Begin(s) PROVE One'
<1>0. /\ UNCHANGED <<db, env>> /\ ~Cancel(s) /\ ~CreateSession(s)
      /\ ~Verified(NewRow)
      /\ {"release", "order", "abortClaim", "void", "pollOrder", "statusLatest", "expire"}
           \subseteq (Labels \ Elsewhere)
                       \ ({"savePaid", "saveFailed"} \cup Releasing \cup Undoing)
  BY Blank DEF Begin, Receive, Abort, Poll, GetStatus, Cron, Cancel, CreateSession, Start,
               GatewayOnly, Labels, Elsewhere, Releasing, Undoing, Crediting
<1>1. \/ \E job, a, arg, ok : \E label \in {"release", "order", "abortClaim", "void", "statusLatest"} :
           Start(s, job, label, a, arg, ok, NewRow)
      \/ \E job, b, arg, ok : \E label \in {"pollOrder", "expire"} : \E a \in DOMAIN rows :
           Start(s, job, label, b, arg, ok, rows[a])
  <2>1. Receive(s) => \E a, code, ok : \/ Start(s, "callback", "release", 0, "none", FALSE, NewRow)
                                       \/ Start(s, "callback", "order", a, code, ok, NewRow)
    BY DEF Receive
  <2>2. Abort(s) => \E a : Start(s, "abort", "abortClaim", a, "none", FALSE, NewRow)
    BY DEF Abort
  <2>3. Poll(s) => \/ Start(s, "poll", "void", 0, "none", FALSE, NewRow)
                   \/ \E a \in DOMAIN rows : Start(s, "poll", "pollOrder", a, "none", FALSE, rows[a])
    BY LatestIsOne DEF Poll
  <2>4. GetStatus(s) => Start(s, "status", "statusLatest", 0, "none", FALSE, NewRow)
    BY DEF GetStatus
  <2>5. Cron(s) => \E arg : \E a \in DOMAIN rows :
                     Start(s, "cron", "expire", a, arg, FALSE, rows[a])
    BY DEF Cron
  <2> QED BY <1>0, <2>1, <2>2, <2>3, <2>4, <2>5 DEF Begin
<1>2. \A a \in DOMAIN rows : Verified(rows[a]) => Won
  BY DEF Won
<1> QED BY <1>0, <1>1, <1>2, OneStarts

(* The gateway, the clock and a crash. *)
LEMMA OneAround == ASSUME Safe, One, GatewayAnswers \/ TimePasses \/ Crash PROVE One'
<1>1. CASE GatewayAnswers
  BY <1>1 DEF GatewayAnswers, One, Final, Won, Lost, Paid, Voided, Unrefunded, Justified
<1>2. CASE TimePasses
  <2>1. /\ UNCHANGED <<order, emitted, elsewhere, crashes, cart, walletBack, h>> /\ DOMAIN rows' = DOMAIN rows
        /\ \A b \in DOMAIN rows : rows'[b].status = rows[b].status /\ rows'[b].verified = rows[b].verified
    <3>1. PICK a \in DOMAIN rows : rows' = [rows EXCEPT ![a].age = IF @ = 3 THEN 2 ELSE @ + 1]
      BY <1>2 DEF TimePasses
    <3> QED BY <1>2, <3>1, Held DEF TimePasses, goods, env, Row
  <2>2. Stands /\ Final' /\ (Unrefunded' => Unrefunded)
    BY <2>1, OneSettles
  <2> QED BY <2>1, <2>2 DEF One, Justified, Stands
<1>3. CASE Crash
  <2>1. UNCHANGED <<order, rows, emitted, elsewhere, cart, walletBack>> /\ \A s \in Slots : h'[s] = Idle
    BY <1>3 DEF Crash, db, goods
  <2>2. Final' /\ ~Unrefunded'
    <3>1. crashes' \in Nat /\ crashes' # 0
      BY <1>3 DEF Crash, One, Final
    <3> QED BY <2>1, <3>1 DEF One, Final, Won, Paid, Voided, Unrefunded
  <2>3. Idle.pc = "idle" /\ Idle.job = "none" /\ ~Verified(Idle.row)
    BY Blank DEF Idle
  <2>4. \A s \in Slots : Justified(h[s], Won, Lost, Paid, Voided)'
    BY <2>1, <2>3 DEF Justified, Elsewhere, Releasing, Undoing, Crediting
  <2> QED BY <2>2, <2>4 DEF One
<1> QED BY <1>1, <1>2, <1>3

(* Every step of the gateway's handlers keeps all of it.                   *)
LEMMA OneStep == ASSUME GatewayOnly, Safe, One, [Next]_vars PROVE One'
<1>1. CASE GatewayAnswers \/ TimePasses \/ Crash
  BY <1>1, OneAround
<1>2. ASSUME NEW s \in Slots, Begin(s) PROVE One'
  BY <1>2, OneBegins
<1>3. ASSUME NEW s \in Slots, Continue(s) PROVE One'
  <2>1. ~Cancelling(s) /\ ~LatestAttempt(s) /\ ~Upsert(s)
    BY DEF Cancelling, CancelLoad, CancelCredit, LookupRefund, CreateRefund, SaveCancel,
           LatestAttempt, Upsert, At, One, Justified, Elsewhere
  <2> QED BY <1>3, <2>1, OneFulfils, OneUndoes, OneCalledBack, OneAborts, OneReconciles DEF Continue
<1>4. CASE UNCHANGED vars
  BY <1>4 DEF vars, db, goods, env, One, Final, Won, Lost, Paid, Voided, Unrefunded, Justified
<1> QED BY <1>1, <1>2, <1>3, <1>4 DEF Next

(* The invariant of the gateway's own handlers. *)
LEMMA GatewayInductive == ASSUME GatewayOnly PROVE Spec => [](Safe /\ One)
<1>1. Init => Safe /\ One
  BY InitSafe, InitOne
<1>2. Safe /\ One /\ [Next]_vars => (Safe /\ One)'
  BY StepSafe, OneStep
<1> QED BY <1>1, <1>2, PTL DEF Spec

(* Without a customer's cancel or a new session, whatever callbacks,       *)
(* aborts, polls, cron runs and self-heals do at once: a void that ran to  *)
(* its end has put the lines back into the cart and, if it claimed the     *)
(* wallet refund, credited it - unless the process died in between.        *)
THEOREM VoidsAreComplete == ASSUME GatewayOnly PROVE Spec => []VoidIsComplete
<1>1. Safe /\ One => VoidIsComplete
  <2> SUFFICES ASSUME Safe, One, Quiet, crashes = 0, order.status = "cancelled"
               PROVE  cart /\ (order.refunded => "void" \in walletBack)
    BY DEF VoidIsComplete
  <2>1. cart
    BY DEF One, Final, Paid
  <2>2. \A s \in Slots : h[s].pc \notin Crediting
    BY DEF Quiet, At, Crediting
  <2> QED BY <2>1, <2>2 DEF One, Unrefunded
<1> QED BY <1>1, GatewayInductive, PTL

-----------------------------------------------------------------------------
(* The steps that the abstract checkout sees: an answer, the release, the  *)
(* void and the credit.                                                    *)
LEMMA Seen ==
  ASSUME GatewayOnly, Safe, One, [Next]_vars
  PROVE  \/ GatewayAnswers
         \/ \E s \in Slots : ClaimRelease(s) \/ ClaimVoid(s) \/ CreditWallet(s)
         \/ /\ UNCHANGED <<emitted, elsewhere, walletBack>>
            /\ order'.status = order.status /\ order'.released = order.released
<1> DEFINE Unseen == /\ UNCHANGED <<emitted, elsewhere, walletBack>>
                     /\ order'.status = order.status /\ order'.released = order.released
<1>0. order \in OrderType
  BY DEF Safe, Typed
<1>1. CASE TimePasses \/ Crash \/ UNCHANGED vars
  BY <1>1 DEF TimePasses, Crash, vars, db, goods, env
<1>2. ASSUME NEW s \in Slots, Begin(s) PROVE Unseen
  BY <1>2 DEF Begin, Receive, Abort, Poll, GetStatus, Cron, Cancel, CreateSession, db, goods, env
<1>3. ASSUME NEW s \in Slots, Continue(s), ~ClaimRelease(s), ~ClaimVoid(s), ~CreditWallet(s)
      PROVE  Unseen
  <2>1. Justified(h[s], Won, Lost, Paid, Voided)
    BY DEF One
  <2>2. CASE Fulfil(s)
    BY <1>3, <2>2 DEF Fulfil, Release, ClearCart, Dispatch, db, goods, env
  <2>3. CASE Undo(s)
    BY <1>0, <1>3, <2>3 DEF Undo, Void, ClaimWallet, UnclaimWallet, ClaimCart, RestoreCart,
                            db, goods, env, OrderType
  <2>4. CASE Callback(s)
    BY <1>0, <2>4 DEF Callback, LoadOrder, Settle, Reread, SavePaid, SaveFailed, SavePay,
                      db, goods, env, OrderType
  <2>5. CASE Aborting(s)
    BY <2>5 DEF Aborting, ClaimAbort, RereadAborted, AbortOrder, db, goods, env
  <2>6. CASE Reconcile(s)
    BY <1>0, <2>6 DEF Reconcile, PollOrder, ExpireRow, StatusLatest, CronLatest, CronOrder,
                      CronFail, db, goods, env, OrderType
  <2>7. ~Cancelling(s) /\ ~LatestAttempt(s) /\ ~Upsert(s)
    BY <2>1 DEF Cancelling, CancelLoad, CancelCredit, LookupRefund, CreateRefund, SaveCancel,
           LatestAttempt, Upsert, At, Justified, Elsewhere
  <2> QED BY <1>3, <2>2, <2>3, <2>4, <2>5, <2>6, <2>7 DEF Continue
<1> QED BY <1>1, <1>2, <1>3 DEF Next

(* What the order is in the abstract checkout.                             *)
Stage == IF order.released THEN "placed"
         ELSE IF order.status = "cancelled" THEN "voided" ELSE "awaiting"

(* Each step of the handlers is one of the abstract checkout, or none.     *)
LEMMA Maps == ASSUME GatewayOnly, Safe, One, [Next]_vars
              PROVE  [Outcome!Next]_<<Stage, Captured, walletBack # {}>>
<1> USE DEF Stage
<1>0. /\ order \in OrderType /\ (order.pay = "paid" => Captured)
      /\ order.released => order.status = "pending"
      /\ walletBack # {} => order.status = "cancelled"
  BY DEF Safe, Typed, Clean, Unmoved, One, Final, Paid, Voided
<1>1. CASE GatewayAnswers
  <2>1. UNCHANGED <<order, walletBack>>
    BY <1>1 DEF GatewayAnswers
  <2>2. Captured => Captured'
    BY <1>1 DEF GatewayAnswers, Captured
  <2>3. Outcome!Capture \/ UNCHANGED Captured
    BY <2>1, <2>2 DEF Outcome!Capture, Captured
  <2> QED BY <2>1, <2>3 DEF Outcome!Next
<1>2. ASSUME NEW s \in Slots, ClaimRelease(s)
      PROVE  Outcome!Place \/ UNCHANGED <<Stage, Captured, walletBack # {}>>
  <2>1. UNCHANGED <<emitted, elsewhere, walletBack>> /\ h[s].pc = "claim"
    BY <1>2 DEF ClaimRelease, At, goods, env
  <2>2. Paid
    BY <2>1 DEF One, Justified, Releasing
  <2>3. order'.released /\ order'.status = "pending"
    BY <1>0, <1>2, <2>2 DEF ClaimRelease, Paid, OrderType
  <2>4. UNCHANGED Captured
    BY <2>1 DEF Captured
  <2> QED BY <1>0, <2>1, <2>2, <2>3, <2>4 DEF Outcome!Place, Paid
<1>3. ASSUME NEW s \in Slots, ClaimVoid(s)
      PROVE  Outcome!Void \/ UNCHANGED <<Stage, Captured, walletBack # {}>>
  <2>1. UNCHANGED <<emitted, elsewhere, walletBack>>
    BY <1>3 DEF ClaimVoid, goods, env
  <2>2. \/ UNCHANGED order
        \/ /\ order.status # "cancelled" /\ ~order.released
           /\ order'.status = "cancelled" /\ ~order'.released
    BY <1>0, <1>3 DEF ClaimVoid, Voidable, Unpaid, OrderType
  <2>3. UNCHANGED Captured
    BY <2>1 DEF Captured
  <2> QED BY <2>1, <2>2, <2>3 DEF Outcome!Void
<1>4. ASSUME NEW s \in Slots, CreditWallet(s)
      PROVE  Outcome!Return \/ UNCHANGED <<Stage, Captured, walletBack # {}>>
  <2>1. UNCHANGED <<emitted, elsewhere, order>> /\ h[s].pc = "walletCredit"
    BY <1>4 DEF CreditWallet, At, env
  <2>2. Stage = "voided"
    BY <1>0, <2>1 DEF One, Justified, Undoing, Crediting, Voided
  <2>3. UNCHANGED walletBack \/ walletBack' # {}
    BY <1>4 DEF CreditWallet, Unbooked
  <2>4. UNCHANGED Captured
    BY <2>1 DEF Captured
  <2> QED BY <2>1, <2>2, <2>3, <2>4 DEF Outcome!Return
<1>5. CASE /\ UNCHANGED <<emitted, elsewhere, walletBack>>
           /\ order'.status = order.status /\ order'.released = order.released
  BY <1>5 DEF Captured
<1> QED BY <1>1, <1>2, <1>3, <1>4, <1>5, Seen DEF Outcome!Next

(* The gateway's handlers implement the abstract checkout: however they    *)
(* interleave and wherever the process dies, an order ends once, placed    *)
(* when its amount was captured or voided, and only a void order's wallet  *)
(* part comes back.                                                        *)
THEOREM ImplementsCheckout == ASSUME GatewayOnly PROVE Spec => PlacedOrVoided
<1>1. Init => Outcome!Init
  BY DEF Init, Outcome!Init, NewOrder, Captured
<1>2. Safe /\ One /\ [Next]_vars => [Outcome!Next]_<<Stage, Captured, walletBack # {}>>
  BY Maps
<1> QED BY <1>1, <1>2, GatewayInductive, PTL DEF Spec, PlacedOrVoided, Outcome!Spec, Stage
=============================================================================
