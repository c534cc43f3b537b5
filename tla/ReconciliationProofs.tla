------------------------ MODULE ReconciliationProofs ------------------------
(* The cron's safety properties, for any number of attempts, any limit and *)
(* any times.                                                              *)
EXTENDS Reconciliation, FiniteSetTheorems, TLAPS

(* A candidate was open when it was found.                                 *)
PassOpen == \A a \in pass : seen[a].status \notin Terminal \cup {"none"}

(* The run voids one order at a time.                                      *)
OneVoided == \A a, b \in voiding : a = b

(* An order that a callback loaded as decided is decided.                  *)
Loaded == \A a \in Attempts : call[a].order # "awaiting" => order[a] # "awaiting"

(* Whoever settled the attempt of an undecided order is still on the way   *)
(* to the order.                                                           *)
UnderWay(a) == \/ order[a] # "awaiting" \/ a \in voiding
               \/ CallAt(a, "pay") \/ CallAt(a, "void")
VerdictsUnderWay == \A a \in Attempts \ broken : status[a] \in Terminal => UnderWay(a)

IInv == TypeOK /\ PassOpen /\ OneVoided /\ Loaded /\ VerdictsUnderWay

-----------------------------------------------------------------------------
(* A run that has found nothing is empty. *)
LEMMA NoneHeld == Cardinality({}) = 0
BY FS_EmptySet

(* The values that variables are reset to. *)
LEMMA Blanks == NoCopy \in Copies /\ NoCall \in Calls
BY TimesAssumption DEF NoCopy, Copies, Statuses, NoCall, Calls, Orders

(* No sessions yet, and no run. *)
LEMMA InitIInv == Init => IInv
<1> SUFFICES ASSUME Init PROVE IInv
  OBVIOUS
<1>1. TypeOK
  BY Blanks, BatchAssumption, TimesAssumption, NoneHeld DEF Init, TypeOK, Statuses, Orders
<1>2. PassOpen /\ OneVoided /\ Loaded /\ VerdictsUnderWay
  BY DEF Init, PassOpen, OneVoided, Loaded, VerdictsUnderWay, NoCall, Terminal, Refused
<1> QED BY <1>1, <1>2 DEF IInv

(* createSession makes an attempt, or an open one of it. *)
LEMMA SessionStep ==
  ASSUME IInv, NEW a \in Attempts, CreateSession(a) \/ Upsert(a)
  PROVE  IInv'
<1>1. /\ opening' \in SUBSET Attempts
      /\ UNCHANGED <<order, call, broken, due, pass, seen, voiding, mishaps>>
  BY DEF CreateSession, Upsert, run, IInv, TypeOK
<1>2. \/ UNCHANGED <<status, age, quiet>>
      \/ /\ status' = [status EXCEPT ![a] = "created"]
         /\ age' = [age EXCEPT ![a] = 0] /\ quiet' = [quiet EXCEPT ![a] = 0]
  BY DEF CreateSession, Upsert, rows
<1>3. TypeOK'
  BY <1>1, <1>2, TimesAssumption DEF IInv, TypeOK, Statuses
<1>4. VerdictsUnderWay'
  BY <1>1, <1>2 DEF IInv, TypeOK, VerdictsUnderWay, UnderWay, CallAt, Terminal, Refused
<1> QED BY <1>1, <1>3, <1>4 DEF IInv, PassOpen, OneVoided, Loaded

(* What every step of a callback leaves alone, and what it may write: its  *)
(* own record, and the row while that is open.                             *)
CallStep(a) ==
  /\ UNCHANGED <<age, opening, due, pass, seen, voiding, mishaps>>
  /\ \E c \in Calls : call' = [call EXCEPT ![a] = c]
  /\ \/ UNCHANGED <<status, quiet>>
     \/ /\ \E new \in Statuses : status' = [status EXCEPT ![a] = new]
        /\ quiet' = [quiet EXCEPT ![a] = 0]
  /\ \/ UNCHANGED order
     \/ /\ order[a] = "awaiting"
        /\ \E new \in {"paid", "voided"} : order' = [order EXCEPT ![a] = new]
  /\ broken \subseteq broken' /\ broken' \subseteq broken \cup {a}

(* The ways a callback's record changes. *)
LEMMA Records ==
  ASSUME IInv, NEW a \in Attempts
  PROVE  /\ \A label \in {"settle", "reread", "pay", "void"} :
              Proceed(a, label) => \E c \in Calls : /\ call' = [call EXCEPT ![a] = c]
                                                    /\ c.pc = label /\ c.order = call[a].order
         /\ Return(a) => call' = [call EXCEPT ![a] = NoCall] /\ NoCall \in Calls
<1>1. call[a] \in Calls /\ call \in [Attempts -> Calls]
  BY DEF IInv, TypeOK
<1>2. ASSUME NEW label \in {"settle", "reread", "pay", "void"}, Proceed(a, label)
      PROVE  \E c \in Calls : /\ call' = [call EXCEPT ![a] = c]
                               /\ c.pc = label /\ c.order = call[a].order
  <2>1. [call[a] EXCEPT !.pc = label] \in Calls
    BY <1>1 DEF Calls
  <2>2. call' = [call EXCEPT ![a] = [call[a] EXCEPT !.pc = label]]
    BY <1>1, <1>2 DEF Proceed
  <2>3. /\ [call[a] EXCEPT !.pc = label].pc = label
        /\ [call[a] EXCEPT !.pc = label].order = call[a].order
    BY <1>1 DEF Calls
  <2> QED BY <2>1, <2>2, <2>3
<1> QED BY <1>2, Blanks DEF Return

(* Following a verdict leads to the order, if that is not decided. *)
LEMMA Followed ==
  IInv => \A a \in Attempts : \A verdict \in Statuses :
    Follow(a, verdict) =>
      \E c \in Calls : /\ call' = [call EXCEPT ![a] = c]
                      /\ c.order \in {"awaiting", call[a].order}
                      /\ (verdict \in Terminal =>
                            c.pc \in {"pay", "void"} \/ order[a] # "awaiting")
<1> SUFFICES ASSUME NEW a \in Attempts, NEW verdict \in Statuses, IInv, Follow(a, verdict)
             PROVE  \E c \in Calls : /\ call' = [call EXCEPT ![a] = c]
                                    /\ c.order \in {"awaiting", call[a].order}
                                    /\ (verdict \in Terminal =>
                                          c.pc \in {"pay", "void"} \/ order[a] # "awaiting")
  OBVIOUS
<1>1. NoCall \in Calls /\ NoCall.order = "awaiting"
  BY Blanks DEF NoCall
<1>2. call[a].order # "awaiting" => order[a] # "awaiting"
  BY DEF IInv, Loaded
<1>3. CASE verdict = "success" /\ call[a].order # "voided"
  BY <1>3, Records DEF Follow
<1>4. CASE verdict \in Refused /\ call[a].order = "awaiting"
  BY <1>4, Records DEF Follow, Refused
<1>5. CASE /\ ~(verdict = "success" /\ call[a].order # "voided")
           /\ ~(verdict \in Refused /\ call[a].order = "awaiting")
  <2>1. call' = [call EXCEPT ![a] = NoCall]
    BY <1>5, Records DEF Follow
  <2>2. verdict \in Terminal => order[a] # "awaiting"
    BY <1>2, <1>5 DEF Terminal
  <2> QED BY <1>1, <2>1, <2>2
<1> QED BY <1>3, <1>4, <1>5

(* Such a step keeps the invariant, if the attempt's own part of it is     *)
(* kept. *)
LEMMA CallStepKeeps ==
  ASSUME IInv, NEW a \in Attempts, CallStep(a),
         call'[a].order # "awaiting" => order'[a] # "awaiting",
         a \notin broken' /\ status'[a] \in Terminal => UnderWay(a)'
  PROVE  IInv'
<1>1. /\ UNCHANGED <<age, opening, due, pass, seen, voiding, mishaps>>
      /\ broken \subseteq broken' /\ broken' \subseteq broken \cup {a}
  BY DEF CallStep
<1>2. call' \in [Attempts -> Calls] /\ \A b \in Attempts \ {a} : call'[b] = call[b]
  BY DEF CallStep, IInv, TypeOK
<1>3. order' \in [Attempts -> Orders] /\ \A b \in Attempts \ {a} : order'[b] = order[b]
  BY DEF CallStep, IInv, TypeOK, Orders
<1>4. /\ status' \in [Attempts -> Statuses] /\ quiet' \in [Attempts -> 0..(Day + 1)]
      /\ \A b \in Attempts \ {a} : status'[b] = status[b]
  BY TimesAssumption DEF CallStep, IInv, TypeOK
<1>5. TypeOK'
  BY <1>1, <1>2, <1>3, <1>4 DEF IInv, TypeOK
<1>6. PassOpen' /\ OneVoided'
  BY <1>1 DEF IInv, PassOpen, OneVoided
<1>7. Loaded'
  BY <1>2, <1>3 DEF IInv, Loaded
<1>8. ASSUME NEW b \in Attempts \ {a}, b \notin broken', status'[b] \in Terminal
      PROVE  UnderWay(b)'
  BY <1>1, <1>2, <1>3, <1>4, <1>8 DEF IInv, VerdictsUnderWay, UnderWay, CallAt
<1>9. VerdictsUnderWay'
  BY <1>8 DEF VerdictsUnderWay
<1> QED BY <1>5, <1>6, <1>7, <1>9 DEF IInv

(* A callback loads the order. *)
LEMMA CallbackStep == ASSUME IInv, NEW a \in Attempts, Callback(a) PROVE IInv'
<1>1. PICK answer \in Answers :
        call' = [call EXCEPT ![a] = [pc |-> "settle", answer |-> answer, order |-> order[a]]]
  BY DEF Callback
<1>2. [pc |-> "settle", answer |-> answer, order |-> order[a]] \in Calls
  BY DEF IInv, TypeOK, Calls
<1>3. UNCHANGED <<status, age, quiet, order, opening, broken, due, pass, seen, voiding, mishaps>>
  BY DEF Callback, rows, run
<1>4. CallStep(a)
  BY <1>1, <1>2, <1>3 DEF CallStep
<1>5. call'[a].order = order[a] /\ CallAt(a, "idle")
  BY <1>1 DEF Callback, IInv, TypeOK
<1>6. a \notin broken' /\ status'[a] \in Terminal => UnderWay(a)'
  BY <1>3, <1>5 DEF IInv, VerdictsUnderWay, UnderWay, CallAt
<1> QED BY <1>3, <1>4, <1>5, <1>6, CallStepKeeps

(* It settles the row, and follows, or finds it settled. *)
LEMMA SettleStep == ASSUME IInv, NEW a \in Attempts, Settle(a) PROVE IInv'
<1>1. /\ UNCHANGED <<age, order, opening, broken, due, pass, seen, voiding, mishaps>>
      /\ CallAt(a, "settle")
  BY DEF Settle, run
<1>2. call[a] \in Calls /\ call \in [Attempts -> Calls] /\ status \in [Attempts -> Statuses]
  BY DEF IInv, TypeOK
<1>3. call[a].order # "awaiting" => order[a] # "awaiting"
  BY DEF IInv, Loaded
<1>4. CASE Open(a)
  <2>1. /\ status' = [status EXCEPT ![a] = call[a].answer] /\ quiet' = [quiet EXCEPT ![a] = 0]
        /\ Follow(a, call[a].answer)
    BY <1>4 DEF Settle
  <2>2. PICK c \in Calls : /\ call' = [call EXCEPT ![a] = c]
                           /\ c.order \in {"awaiting", call[a].order}
                           /\ (call[a].answer \in Terminal =>
                                 c.pc \in {"pay", "void"} \/ order[a] # "awaiting")
    <3>1. PICK verdict \in Statuses : verdict = call[a].answer
      BY <1>2, AnswersAssumption DEF Calls, Statuses, Terminal
    <3>2. Follow(a, verdict)
      BY <2>1, <3>1 DEF Follow
    <3>3. \E c \in Calls : /\ call' = [call EXCEPT ![a] = c]
                          /\ c.order \in {"awaiting", call[a].order}
                          /\ (verdict \in Terminal =>
                                c.pc \in {"pay", "void"} \/ order[a] # "awaiting")
      BY <3>2, Followed
    <3> QED BY <3>1, <3>3
  <2>3. call[a].answer \in Statuses
    BY <1>2, AnswersAssumption DEF Calls, Statuses, Terminal
  <2>4. CallStep(a)
    BY <1>1, <2>1, <2>2, <2>3 DEF CallStep
  <2>5. call'[a] = c /\ status'[a] = call[a].answer
    BY <1>2, <2>1, <2>2
  <2>6. status'[a] \in Terminal => UnderWay(a)'
    BY <1>1, <2>2, <2>5 DEF UnderWay, CallAt
  <2> QED BY <1>1, <1>3, <2>2, <2>4, <2>5, <2>6, CallStepKeeps
<1>5. CASE ~Open(a)
  <2>1. Proceed(a, "reread") /\ UNCHANGED <<status, quiet>>
    BY <1>5 DEF Settle
  <2>2. PICK c \in Calls : /\ call' = [call EXCEPT ![a] = c]
                           /\ c.pc = "reread" /\ c.order = call[a].order
    BY <2>1, Records
  <2>3. CallStep(a) /\ call'[a] = c
    BY <1>1, <1>2, <2>1, <2>2 DEF CallStep
  <2>4. a \notin broken' /\ status'[a] \in Terminal => UnderWay(a)'
    BY <1>1, <2>1 DEF IInv, VerdictsUnderWay, UnderWay, CallAt
  <2> QED BY <1>1, <1>3, <2>2, <2>3, <2>4, CallStepKeeps
<1> QED BY <1>4, <1>5

(* It reads a settled row again, and follows. *)
LEMMA RereadStep == ASSUME IInv, NEW a \in Attempts, Reread(a) PROVE IInv'
<1>1. /\ UNCHANGED <<status, age, quiet, order, opening, broken, due, pass, seen, voiding, mishaps>>
      /\ Follow(a, status[a])
  BY DEF Reread, rows, run
<1>2. call[a] \in Calls /\ call \in [Attempts -> Calls]
  BY DEF IInv, TypeOK
<1>3. call[a].order # "awaiting" => order[a] # "awaiting"
  BY DEF IInv, Loaded
<1>4. PICK c \in Calls : /\ call' = [call EXCEPT ![a] = c]
                         /\ c.order \in {"awaiting", call[a].order}
                         /\ (status[a] \in Terminal =>
                               c.pc \in {"pay", "void"} \/ order[a] # "awaiting")
  <2>1. PICK verdict \in Statuses : verdict = status[a]
    BY DEF IInv, TypeOK
  <2>2. Follow(a, verdict)
    BY <1>1, <2>1 DEF Follow
  <2>3. \E c \in Calls : /\ call' = [call EXCEPT ![a] = c]
                        /\ c.order \in {"awaiting", call[a].order}
                        /\ (verdict \in Terminal =>
                              c.pc \in {"pay", "void"} \/ order[a] # "awaiting")
    BY <2>2, Followed
  <2> QED BY <2>1, <2>3
<1>5. CallStep(a) /\ call'[a] = c
  BY <1>1, <1>2, <1>4 DEF CallStep
<1>6. status'[a] \in Terminal => UnderWay(a)'
  BY <1>1, <1>4, <1>5 DEF UnderWay, CallAt
<1> QED BY <1>1, <1>3, <1>4, <1>5, <1>6, CallStepKeeps

(* It decides the order, ... *)
LEMMA DecideStep == ASSUME IInv, NEW a \in Attempts, Pay(a) \/ Void(a) PROVE IInv'
<1>1. /\ UNCHANGED <<status, age, quiet, opening, broken, due, pass, seen, voiding, mishaps>>
      /\ Return(a)
  BY DEF Pay, Void, rows, run
<1>2. PICK new \in {"paid", "voided"} :
        order' = IF order[a] = "awaiting" THEN [order EXCEPT ![a] = new] ELSE order
  BY DEF Pay, Void, Decide
<1>3. call' = [call EXCEPT ![a] = NoCall] /\ NoCall \in Calls
  BY <1>1, Records
<1>4. CallStep(a)
  BY <1>1, <1>2, <1>3 DEF CallStep
<1>5. order'[a] # "awaiting"
  BY <1>2 DEF IInv, TypeOK
<1> QED BY <1>4, <1>5, CallStepKeeps DEF UnderWay

(* ... or breaks off. *)
LEMMA CallFailsStep == ASSUME IInv, NEW a \in Attempts, CallFails(a) PROVE IInv'
<1>1. /\ UNCHANGED <<status, age, quiet, order, opening, due, pass, seen, voiding, mishaps>>
      /\ Return(a) /\ broken' = broken \cup {a}
  BY DEF CallFails, rows, run
<1>2. call' = [call EXCEPT ![a] = NoCall] /\ NoCall \in Calls
  BY <1>1, Records
<1>3. CallStep(a)
  BY <1>1, <1>2 DEF CallStep
<1>4. call'[a].order = "awaiting"
  BY <1>2 DEF IInv, TypeOK, NoCall
<1>5. a \in broken'
  BY <1>1
<1> QED BY <1>3, <1>4, <1>5, CallStepKeeps

(* Time passes. *)
LEMMA TickStep == ASSUME IInv, Tick PROVE IInv'
<1>1. /\ UNCHANGED <<status, order, opening, call, broken, pass, voiding, mishaps>> /\ due'
      /\ age' = [a \in Attempts |-> IF Open(a) THEN Up(age[a], Session) ELSE age[a]]
      /\ quiet' = [a \in Attempts |-> IF Open(a) THEN Up(quiet[a], Day + 1) ELSE quiet[a]]
  BY DEF Tick, handlers
<1>2. /\ age' \in [Attempts -> 0..Session] /\ quiet' \in [Attempts -> 0..(Day + 1)]
  BY <1>1, TimesAssumption DEF Up, IInv, TypeOK
<1>3. ASSUME NEW a \in Attempts PROVE seen'[a] \in Copies /\ seen'[a].status = seen[a].status
  <2>1. seen'[a] = IF a \in pass THEN [seen[a] EXCEPT !.age = Up(@, Session),
                                                      !.quiet = Up(@, Day + 1)]
                                 ELSE seen[a]
    BY DEF Tick
  <2>2. seen[a] \in Copies
    BY DEF IInv, TypeOK
  <2>3. Up(seen[a].age, Session) \in 0..Session /\ Up(seen[a].quiet, Day + 1) \in 0..(Day + 1)
    BY <2>2, TimesAssumption DEF Copies, Up
  <2> QED BY <2>1, <2>2, <2>3 DEF Copies
<1>4. DOMAIN seen' = Attempts
  BY DEF Tick
<1>5. seen' \in [Attempts -> Copies]
  <2>1. seen' = [a \in Attempts |-> seen'[a]]
    BY DEF Tick
  <2> QED BY <1>3, <2>1
<1>6. TypeOK'
  BY <1>1, <1>2, <1>5 DEF IInv, TypeOK
<1>7. PassOpen'
  BY <1>1, <1>3 DEF IInv, TypeOK, PassOpen
<1> QED BY <1>1, <1>6, <1>7 DEF IInv, OneVoided, Loaded, VerdictsUnderWay, UnderWay, CallAt

(* A run picks its candidates. *)
LEMMA FindStep == ASSUME IInv, Find PROVE IInv'
<1>1. /\ pass' \subseteq Candidates /\ Cardinality(pass') <= Batch /\ due' \in BOOLEAN
      /\ UNCHANGED <<status, age, quiet, order, opening, call, broken, voiding, mishaps>>
      /\ seen' = [a \in Attempts |->
                    IF a \in pass' THEN [status |-> status[a], age |-> age[a], quiet |-> quiet[a]]
                                   ELSE NoCopy]
  BY DEF Find, Limited, rows, handlers
<1>2. Candidates \subseteq {a \in Attempts : Open(a)}
  BY DEF Candidates
<1>3. seen' \in [Attempts -> Copies]
  <2>1. ASSUME NEW a \in Attempts
        PROVE  [status |-> status[a], age |-> age[a], quiet |-> quiet[a]] \in Copies
    BY DEF IInv, TypeOK, Copies
  <2> QED BY <1>1, <2>1, Blanks
<1>4. TypeOK'
  BY <1>1, <1>2, <1>3 DEF IInv, TypeOK
<1>5. PassOpen'
  BY <1>1, <1>2 DEF PassOpen, Open
<1> QED BY <1>1, <1>4, <1>5 DEF IInv, OneVoided, Loaded, VerdictsUnderWay, UnderWay, CallAt

(* A run decides one of them. *)
LEMMA HandleStep == ASSUME IInv, NEW a \in Attempts, Handle(a) PROVE IInv'
<1>1. /\ a \in pass /\ pass' = pass \ {a} /\ voiding = {}
      /\ UNCHANGED <<age, order, opening, call, broken, due, mishaps>>
      /\ seen' = [seen EXCEPT ![a] = NoCopy]
      /\ voiding' = IF TimedOut(a) THEN {a} ELSE {}
      /\ \/ /\ Unchanged(a) /\ quiet' = [quiet EXCEPT ![a] = 0]
            /\ status' = [status EXCEPT ![a] = IF TimedOut(a) THEN "failed" ELSE "unknown"]
         \/ UNCHANGED <<status, quiet>>
  BY DEF Handle, handlers
<1>2. Cardinality(pass') <= Batch
  <2>1. IsFiniteSet(pass)
    BY BatchAssumption, FS_Subset DEF IInv, TypeOK
  <2>2. Cardinality(pass) \in Nat /\ Cardinality(pass \ {a}) = Cardinality(pass) - 1
    BY <1>1, <2>1, FS_CardinalityType, FS_RemoveElement
  <2> QED BY <1>1, <2>2, BatchAssumption DEF IInv, TypeOK
<1>3. TypeOK'
  <2>1. seen' \in [Attempts -> Copies]
    BY <1>1, Blanks DEF IInv, TypeOK
  <2>2. status' \in [Attempts -> Statuses] /\ quiet' \in [Attempts -> 0..(Day + 1)]
    BY <1>1, TimesAssumption DEF IInv, TypeOK, Statuses, Terminal, Refused
  <2> QED BY <1>1, <1>2, <2>1, <2>2 DEF IInv, TypeOK
<1>4. PassOpen' /\ OneVoided' /\ Loaded'
  BY <1>1 DEF IInv, TypeOK, PassOpen, OneVoided, Loaded
<1>5. VerdictsUnderWay'
  <2> SUFFICES ASSUME NEW b \in Attempts \ broken, status'[b] \in Terminal PROVE UnderWay(b)'
    BY <1>1 DEF VerdictsUnderWay
  <2>1. CASE b = a /\ status' # status
    <3>1. TimedOut(a)
      BY <1>1, <2>1 DEF IInv, TypeOK, Terminal, Refused
    <3> QED BY <1>1, <2>1, <3>1 DEF UnderWay
  <2>2. CASE b # a \/ status' = status
    <3>1. status[b] \in Terminal /\ b \notin voiding
      BY <1>1, <2>2 DEF IInv, TypeOK
    <3> QED BY <1>1, <3>1 DEF IInv, VerdictsUnderWay, UnderWay, CallAt
  <2> QED BY <2>1, <2>2
<1> QED BY <1>3, <1>4, <1>5 DEF IInv

(* It voids the order of a timed-out one, or fails to. *)
LEMMA VoidOrderStep == ASSUME IInv, NEW a \in Attempts, VoidOrder(a) PROVE IInv'
<1>1. /\ a \in voiding /\ voiding' = {}
      /\ UNCHANGED <<status, age, quiet, opening, call, due, pass, seen, mishaps>>
      /\ \/ /\ order' = IF order[a] = "awaiting" THEN [order EXCEPT ![a] = "voided"] ELSE order
            /\ UNCHANGED broken
         \/ broken' = broken \cup {a} /\ UNCHANGED order
  BY DEF VoidOrder, Decide, rows, handlers
<1>2. /\ order' \in [Attempts -> Orders] /\ broken' \in SUBSET Attempts
      /\ \A b \in Attempts : order[b] # "awaiting" => order'[b] # "awaiting"
      /\ a \in broken' \/ order'[a] # "awaiting"
  BY <1>1 DEF IInv, TypeOK, Orders
<1>3. TypeOK'
  BY <1>1, <1>2 DEF IInv, TypeOK
<1>4. PassOpen' /\ OneVoided' /\ Loaded'
  BY <1>1, <1>2 DEF IInv, PassOpen, OneVoided, Loaded
<1>5. VerdictsUnderWay'
  <2> SUFFICES ASSUME NEW b \in Attempts \ broken', status[b] \in Terminal PROVE UnderWay(b)'
    BY <1>1 DEF VerdictsUnderWay
  <2>1. UnderWay(b)
    BY <1>1 DEF IInv, VerdictsUnderWay
  <2>2. b \in voiding => b = a
    BY <1>1 DEF IInv, OneVoided
  <2> QED BY <1>1, <1>2, <2>1, <2>2 DEF UnderWay, CallAt
<1> QED BY <1>3, <1>4, <1>5 DEF IInv

(* The run fails, or the process dies within it. *)
LEMMA MishapStep == ASSUME IInv, RunFails \/ Restart PROVE IInv'
<1>1. /\ UNCHANGED <<status, age, quiet, order>> /\ due' \in BOOLEAN
      /\ mishaps < MaxMishaps /\ mishaps' = mishaps + 1
      /\ pass' = {} /\ voiding' = {} /\ seen' = [a \in Attempts |-> NoCopy]
  BY DEF RunFails, Restart, rows, IInv, TypeOK
<1>2. \/ UNCHANGED <<opening, call>> /\ broken' = broken \cup voiding
      \/ /\ opening' = {} /\ call' = [a \in Attempts |-> NoCall]
         /\ broken' = broken \cup voiding \cup {a \in Attempts : ~CallAt(a, "idle")}
  BY DEF RunFails, Restart, handlers
<1>3. TypeOK'
  <2>1. opening' \in SUBSET Attempts /\ broken' \in SUBSET Attempts
    BY <1>2 DEF IInv, TypeOK
  <2>2. call' \in [Attempts -> Calls] /\ seen' \in [Attempts -> Copies]
    BY <1>1, <1>2, Blanks DEF IInv, TypeOK
  <2>3. mishaps' \in 0..MaxMishaps /\ Cardinality(pass') <= Batch
    BY <1>1, NoneHeld, BatchAssumption, TimesAssumption DEF IInv, TypeOK
  <2> QED BY <1>1, <2>1, <2>2, <2>3 DEF IInv, TypeOK
<1>4. PassOpen' /\ OneVoided'
  BY <1>1 DEF PassOpen, OneVoided
<1>5. Loaded'
  BY <1>1, <1>2 DEF IInv, Loaded, NoCall
<1>6. VerdictsUnderWay'
  <2> SUFFICES ASSUME NEW b \in Attempts \ broken', status[b] \in Terminal PROVE UnderWay(b)'
    BY <1>1 DEF VerdictsUnderWay
  <2>1. UnderWay(b) /\ b \notin voiding
    BY <1>2 DEF IInv, VerdictsUnderWay
  <2> QED BY <1>1, <1>2, <2>1 DEF UnderWay, CallAt
<1> QED BY <1>3, <1>4, <1>5, <1>6 DEF IInv

(* Every step keeps the invariant. *)
LEMMA StepIInv == IInv /\ [Next]_vars => IInv'
<1> SUFFICES ASSUME IInv, [Next]_vars PROVE IInv'
  OBVIOUS
<1>1. CASE UNCHANGED vars
  BY <1>1 DEF vars, rows, handlers, run, IInv, TypeOK, PassOpen, OneVoided, Loaded,
              VerdictsUnderWay, UnderWay, CallAt
<1>2. ASSUME NEW a \in Attempts,
             \/ CreateSession(a) \/ Upsert(a)
             \/ Callback(a) \/ Answering(a) \/ CallFails(a)
             \/ Handle(a) \/ VoidOrder(a)
      PROVE  IInv'
  BY <1>2, SessionStep, CallbackStep, SettleStep, RereadStep, DecideStep, CallFailsStep,
     HandleStep, VoidOrderStep DEF Answering
<1>3. CASE Tick \/ Find \/ RunFails \/ Restart
  BY <1>3, TickStep, FindStep, MishapStep
<1> QED BY <1>1, <1>2, <1>3 DEF Next

(* The invariant that carries the others.                                  *)
THEOREM Inductive == Spec => []IInv
<1> QED BY InitIInv, StepIInv, PTL DEF Spec

(* Every variable keeps its type, and a run its limit.                     *)
THEOREM TypeCorrect == Spec => []TypeOK
<1>1. IInv => TypeOK
  BY DEF IInv
<1> QED BY <1>1, Inductive, PTL

(* A settled attempt at rest has decided its order: the verdict is under   *)
(* way from its row to its order until then, in the hands of whoever       *)
(* wrote it.                                                               *)
THEOREM VerdictsDecide == Spec => []VerdictDecides
<1>1. IInv => VerdictDecides
  BY DEF IInv, VerdictsUnderWay, UnderWay, VerdictDecides, AtWork, CallAt
<1> QED BY <1>1, Inductive, PTL

(* Only the upsert of a session writes a settled row.                      *)
THEOREM VerdictsStand == Spec => VerdictStands
<1>1. ASSUME IInv, [Next]_vars
      PROVE  [\A a \in Attempts : status[a] \in Terminal /\ status'[a] # status[a] =>
                a \in opening /\ status'[a] = "created"]_vars
  <2> SUFFICES ASSUME NEW a \in Attempts, status[a] \in Terminal, status'[a] # status[a]
               PROVE  a \in opening /\ status'[a] = "created"
    BY <1>1 DEF vars
  <2>1. status \in [Attempts -> Statuses]
    BY <1>1 DEF IInv, TypeOK
  <2>2. ASSUME NEW b \in Attempts, Upsert(b) PROVE a \in opening /\ status'[a] = "created"
    BY <2>1, <2>2 DEF Upsert
  <2>3. ASSUME NEW b \in Attempts, Settle(b) PROVE FALSE
    BY <2>1, <2>3 DEF Settle, Open
  <2>4. ASSUME NEW b \in Attempts, Handle(b) PROVE FALSE
    BY <1>1, <2>1, <2>4 DEF Handle, Unchanged, IInv, PassOpen
  <2>5. ASSUME NEW b \in Attempts,
               \/ CreateSession(b) \/ Callback(b) \/ Reread(b) \/ Pay(b) \/ Void(b)
               \/ CallFails(b) \/ VoidOrder(b)
        PROVE  FALSE
    BY <2>5 DEF CreateSession, Callback, Reread, Pay, Void, CallFails, VoidOrder, rows
  <2>6. CASE Tick \/ Find \/ RunFails \/ Restart \/ UNCHANGED vars
    BY <2>6 DEF Tick, Find, RunFails, Restart, vars, rows
  <2> QED BY <1>1, <2>2, <2>3, <2>4, <2>5, <2>6 DEF Next, Answering
<1> QED BY <1>1, Inductive, PTL DEF Spec, VerdictStands

-----------------------------------------------------------------------------
(* The queue.  An attempt is passed over only by runs that fill their      *)
(* batch with attempts quiet for as long or longer, and each run takes     *)
(* those out of the queue: their next write makes them quiet for 0.  A     *)
(* mishap costs one run.                                                   *)

(* The attempts that have been quiet for n units, and those of them that   *)
(* the run under way has not picked.                                       *)
Older(n) == {a \in Attempts : Open(a) /\ quiet[a] >= n}
Unpicked(n) == Older(n) \ pass

(* Nobody is left, or there is room for j batches beside those who are.    *)
Room(these, j) == these = {} \/ Cardinality(these) + j * Batch <= Cardinality(Attempts)

(* Each run that passed an attempt over has handled a batch of older ones, *)
(* the run under way will have; those it picked had to wait for it, and    *)
(* are one unit older if the clock ticked since.                           *)
Overdue(j) == Stale + 1 + mishaps + j
Passed == \A j \in Nat : Room(Unpicked(Overdue(j)), IF due THEN j ELSE j + 1)
Waited == \A j \in Nat : Room(Older(IF due THEN Overdue(j) + 1 ELSE Overdue(j)), j)

(* An attempt that changed since it was found was written just now.        *)
JustWritten == \A a \in pass : status[a] # seen[a].status => quiet[a] <= IF due THEN 1 ELSE 0

QInv == IInv /\ JustWritten /\ Passed /\ Waited

(* Fewer attempts leave at least as much room. *)
LEMMA RoomShrinks ==
  ASSUME NEW T \in SUBSET Attempts, NEW S \in SUBSET T, NEW j \in Nat, Room(T, j)
  PROVE  Room(S, j)
<1>1. IsFiniteSet(T)
  BY BatchAssumption, FS_Subset
<1>2. Cardinality(S) <= Cardinality(T) /\ IsFiniteSet(S)
  BY <1>1, FS_Subset
<1>3. Cardinality(S) \in Nat /\ Cardinality(T) \in Nat /\ Cardinality(Attempts) \in Nat
  BY <1>1, <1>2, BatchAssumption, FS_CardinalityType
<1>4. PICK filled : filled = j * Batch
  OBVIOUS
<1>5. filled \in Nat
  BY <1>4, BatchAssumption
<1>6. CASE T = {}
  BY <1>6 DEF Room
<1>7. CASE Cardinality(T) + filled <= Cardinality(Attempts)
  BY <1>2, <1>3, <1>4, <1>5, <1>7 DEF Room
<1> QED BY <1>4, <1>6, <1>7 DEF Room

(* There is always room for no batch. *)
LEMMA RoomForNone == ASSUME NEW S \in SUBSET Attempts PROVE Room(S, 0)
<1>1. Cardinality(S) <= Cardinality(Attempts) /\ Cardinality(S) \in Nat
  BY BatchAssumption, FS_Subset, FS_CardinalityType
<1>2. 0 * Batch = 0
  BY BatchAssumption
<1> QED BY <1>1, <1>2 DEF Room

(* What the queue's bounds are made of. *)
LEMMA Bounds ==
  ASSUME QInv, NEW j \in Nat
  PROVE  /\ Overdue(j) \in Nat /\ Overdue(j) >= 2 /\ Overdue(j + 1) = Overdue(j) + 1
         /\ Overdue(j) >= Stale /\ due \in BOOLEAN
BY TimesAssumption DEF Overdue, QInv, IInv, TypeOK

(* A step that writes no attempt's clock but sets it to 0, and lets go     *)
(* only of those that were written, makes neither queue longer.            *)
LEMMA QueuesShrink ==
  ASSUME QInv, UNCHANGED <<due, mishaps>>,
         \A n \in Nat : n >= 2 => (Older(n))' \subseteq Older(n),
         \A n \in Nat : n >= 2 => (Unpicked(n))' \subseteq Unpicked(n)
  PROVE  Passed' /\ Waited'
<1>1. ASSUME NEW j \in Nat
      PROVE  Room(Unpicked(Overdue(j)), IF due THEN j ELSE j + 1)'
  <2>1. PICK n : n = Overdue(j)
    OBVIOUS
  <2>2. PICK k : k = IF due THEN j ELSE j + 1
    OBVIOUS
  <2>3. n \in Nat /\ n >= 2 /\ k \in Nat
    BY <2>1, <2>2, Bounds
  <2>4. Unpicked(n) \in SUBSET Attempts /\ (Unpicked(n))' \in SUBSET Unpicked(n)
    BY <2>3 DEF Older, Unpicked
  <2>5. Room(Unpicked(n), k)
    BY <2>1, <2>2 DEF QInv, Passed
  <2>6. Room((Unpicked(n))', k)
    BY <2>3, <2>4, <2>5, RoomShrinks
  <2> QED BY <2>1, <2>2, <2>6 DEF Room, Overdue
<1>2. ASSUME NEW j \in Nat
      PROVE  Room(Older(IF due THEN Overdue(j) + 1 ELSE Overdue(j)), j)'
  <2>1. PICK n : n = IF due THEN Overdue(j) + 1 ELSE Overdue(j)
    OBVIOUS
  <2>2. n \in Nat /\ n >= 2
    BY <2>1, Bounds
  <2>3. Older(n) \in SUBSET Attempts /\ (Older(n))' \in SUBSET Older(n)
    BY <2>2 DEF Older
  <2>4. Room(Older(n), j)
    BY <2>1 DEF QInv, Waited
  <2>5. Room((Older(n))', j)
    BY <2>3, <2>4, RoomShrinks
  <2> QED BY <2>1, <2>5 DEF Room, Overdue
<1> QED BY <1>1, <1>2 DEF Passed, Waited

(* Customers and the gateway only take attempts out of the queue, and the  *)
(* rest of what they and the run do leaves it alone. *)
LEMMA WrittenOutside ==
  ASSUME QInv, NEW a \in Attempts,
         UNCHANGED <<due, mishaps, pass, seen>>,
         \/ UNCHANGED <<status, quiet>>
         \/ /\ quiet' = [quiet EXCEPT ![a] = 0]
            /\ \A b \in Attempts \ {a} : status'[b] = status[b]
  PROVE  JustWritten' /\ Passed' /\ Waited'
<1>1. quiet \in [Attempts -> 0..(Day + 1)] /\ pass \subseteq Attempts /\ due \in BOOLEAN
  BY DEF QInv, IInv, TypeOK
<1>2. JustWritten'
  BY <1>1 DEF QInv, JustWritten
<1>3. ASSUME NEW n \in Nat, n >= 2 PROVE (Older(n))' \subseteq Older(n)
  BY <1>1, <1>3 DEF Older, Open
<1>4. ASSUME NEW n \in Nat, n >= 2 PROVE (Unpicked(n))' \subseteq Unpicked(n)
  BY <1>3, <1>4 DEF Unpicked
<1> QED BY <1>2, <1>3, <1>4, QueuesShrink

(* Handling one of the run's candidates sets its clock to 0, or finds that *)
(* somebody did, since the run began. *)
LEMMA WrittenByRun ==
  ASSUME QInv, NEW a \in Attempts, Handle(a)
  PROVE  JustWritten' /\ Passed' /\ Waited'
<1>1. /\ a \in pass /\ pass' = pass \ {a} /\ UNCHANGED <<due, mishaps>>
      /\ seen' = [seen EXCEPT ![a] = NoCopy]
      /\ \/ /\ quiet' = [quiet EXCEPT ![a] = 0]
            /\ status' = [status EXCEPT ![a] = IF TimedOut(a) THEN "failed" ELSE "unknown"]
         \/ ~Unchanged(a) /\ UNCHANGED <<status, quiet>>
  BY DEF Handle
<1>2. /\ quiet \in [Attempts -> 0..(Day + 1)] /\ pass \subseteq Attempts
      /\ status \in [Attempts -> Statuses] /\ due \in BOOLEAN
      /\ seen \in [Attempts -> Copies]
  BY DEF QInv, IInv, TypeOK
<1>3. quiet'[a] \in Nat /\ quiet'[a] <= 1
  BY <1>1, <1>2, TimesAssumption DEF QInv, JustWritten, Unchanged
<1>4. \A b \in Attempts \ {a} : /\ status'[b] = status[b] /\ quiet'[b] = quiet[b]
                                /\ seen'[b] = seen[b]
  BY <1>1, <1>2
<1>5. JustWritten'
  BY <1>1, <1>2, <1>4 DEF QInv, JustWritten
<1>6. ASSUME NEW n \in Nat, n >= 2 PROVE (Older(n))' \subseteq Older(n) \ {a}
  BY <1>2, <1>3, <1>4, <1>6 DEF Older, Open
<1>7. ASSUME NEW n \in Nat, n >= 2 PROVE (Unpicked(n))' \subseteq Unpicked(n)
  BY <1>1, <1>6, <1>7 DEF Unpicked
<1>8. \A n \in Nat : n >= 2 => (Older(n))' \subseteq Older(n)
  BY <1>6
<1> QED BY <1>1, <1>5, <1>7, <1>8, QueuesShrink

(* A run that leaves an overdue attempt behind has filled its batch with   *)
(* overdue ones. *)
LEMMA BatchIsOlder ==
  ASSUME QInv, Find, NEW j \in Nat
  PROVE  Room((Unpicked(Overdue(j)))', j + 1)
<1>1. PICK n : n = Overdue(j)
  OBVIOUS
<1>2. n \in Nat /\ n >= Stale
  BY <1>1, Bounds
<1>3. PICK picked \in SUBSET Candidates : /\ picked = pass'
                                          /\ OldestFirst(picked) /\ Limited(picked)
  BY DEF Find
<1>4. /\ UNCHANGED <<status, quiet, mishaps>> /\ quiet \in [Attempts -> 0..(Day + 1)]
      /\ due /\ pass = {}
  BY DEF Find, rows, QInv, IInv, TypeOK
<1>5. (Unpicked(n))' = Older(n) \ picked /\ (Overdue(j))' = n
  BY <1>1, <1>3, <1>4 DEF Unpicked, Older, Open, Overdue
<1>6. Older(n) \subseteq Candidates
  BY <1>2, <1>4, TimesAssumption DEF Older, Candidates
<1>7. CASE Older(n) \subseteq picked
  BY <1>1, <1>5, <1>7 DEF Room
<1>8. CASE ~(Older(n) \subseteq picked)
  <2>1. PICK left \in Older(n) : left \notin picked
    BY <1>8
  <2>2. left \in Candidates \ picked /\ left \in Attempts /\ quiet[left] >= n
    BY <1>6, <2>1 DEF Older
  <2>3. Cardinality(picked) = Batch
    BY <1>3, <2>2 DEF Limited
  <2>4. picked \subseteq Older(n)
    <3> SUFFICES ASSUME NEW a \in picked PROVE a \in Older(n)
      OBVIOUS
    <3>1. a \in Attempts /\ Open(a) /\ quiet[a] >= quiet[left]
      BY <1>3, <2>2 DEF OldestFirst, Candidates
    <3>2. quiet[a] \in Nat /\ quiet[left] \in Nat
      BY <1>4, <2>2, <3>1, TimesAssumption
    <3> QED BY <1>2, <2>2, <3>1, <3>2 DEF Older
  <2>5. IsFiniteSet(Older(n)) /\ IsFiniteSet(picked)
    BY <2>4, BatchAssumption, FS_Subset DEF Older
  <2>6. Older(n) \cap picked = picked
    BY <2>4
  <2>7. Cardinality(Older(n) \ picked) = Cardinality(Older(n)) - Batch
    BY <2>3, <2>5, <2>6, FS_Difference
  <2>8. Cardinality(Older(n)) + j * Batch <= Cardinality(Attempts)
    BY <1>1, <1>4, <2>1 DEF QInv, Passed, Unpicked, Room
  <2>9. Cardinality(Older(n)) \in Nat /\ Cardinality(Attempts) \in Nat /\ Batch \in Nat
    BY <2>5, BatchAssumption, FS_CardinalityType
  <2>10. PICK filled : filled = j * Batch
    OBVIOUS
  <2>11. filled \in Nat /\ (j + 1) * Batch = filled + Batch
    BY <2>9, <2>10
  <2>12. Cardinality(Older(n) \ picked) + (j + 1) * Batch <= Cardinality(Attempts)
    BY <2>7, <2>8, <2>9, <2>10, <2>11
  <2> QED BY <1>1, <1>5, <2>12 DEF Room
<1> QED BY <1>7, <1>8

(* A run starts. *)
LEMMA RunStarts ==
  ASSUME QInv, Find
  PROVE  JustWritten' /\ Passed' /\ Waited'
<1>1. UNCHANGED <<status, quiet, mishaps>> /\ due /\ ~due' /\ pass = {}
  BY DEF Find, rows
<1>2. Waited'
  <2>1. ASSUME NEW j \in Nat PROVE Room(Older(Overdue(j)), j)
    BY <1>1 DEF QInv, Passed, Unpicked
  <2> QED BY <1>1, <2>1 DEF Waited, Room, Older, Open, Overdue
<1>3. Passed'
  <2>1. ASSUME NEW j \in Nat PROVE Room(Unpicked(Overdue(j)), j + 1)'
    BY BatchIsOlder DEF Room
  <2> QED BY <1>1, <2>1 DEF Passed
<1>4. JustWritten'
  <2>1. pass' \subseteq Attempts
    BY DEF Find, Candidates
  <2>2. ASSUME NEW a \in pass' PROVE seen'[a].status = status'[a]
    <3>1. seen'[a] = [status |-> status[a], age |-> age[a], quiet |-> quiet[a]]
      BY <2>1 DEF Find
    <3> QED BY <1>1, <3>1
  <2> QED BY <2>2 DEF JustWritten
<1> QED BY <1>2, <1>3, <1>4

(* Five minutes pass, and everyone is at most one unit older: those who    *)
(* are a unit later overdue now were overdue before. *)
LEMMA TimePasses ==
  ASSUME QInv, Tick
  PROVE  JustWritten' /\ Passed' /\ Waited'
<1>1. /\ ~due /\ due' /\ UNCHANGED <<status, pass, mishaps>>
      /\ \A a \in Attempts : quiet'[a] = IF Open(a) THEN Up(quiet[a], Day + 1) ELSE quiet[a]
      /\ \A a \in Attempts : seen'[a].status = seen[a].status
  <2>1. ASSUME NEW a \in Attempts PROVE seen'[a].status = seen[a].status
    <3>1. seen[a] \in Copies
      BY DEF QInv, IInv, TypeOK
    <3>2. seen'[a] = IF a \in pass THEN [seen[a] EXCEPT !.age = Up(@, Session),
                                                        !.quiet = Up(@, Day + 1)]
                                   ELSE seen[a]
      BY DEF Tick
    <3> QED BY <3>1, <3>2 DEF Copies
  <2> QED BY <2>1 DEF Tick
<1>2. quiet \in [Attempts -> 0..(Day + 1)] /\ pass \subseteq Attempts
  BY DEF QInv, IInv, TypeOK
<1>3. JustWritten'
  <2> SUFFICES ASSUME NEW a \in pass, status[a] # seen[a].status PROVE quiet'[a] <= 1
    BY <1>1, <1>2 DEF JustWritten
  <2>1. quiet[a] \in 0..(Day + 1) /\ quiet[a] <= 0
    BY <1>1, <1>2 DEF QInv, JustWritten
  <2> QED BY <1>1, <1>2, <2>1, TimesAssumption DEF Up
<1>4. ASSUME NEW n \in Nat PROVE (Older(n + 1))' \subseteq Older(n)
  <2> SUFFICES ASSUME NEW a \in Attempts, Open(a)', quiet'[a] >= n + 1
               PROVE  a \in Older(n)
    BY DEF Older
  <2>1. Open(a)
    BY <1>1 DEF Open
  <2>2. quiet'[a] = Up(quiet[a], Day + 1) /\ quiet[a] \in 0..(Day + 1)
    BY <1>1, <1>2, <2>1
  <2> QED BY <2>1, <2>2, TimesAssumption DEF Up, Older
<1>5. ASSUME NEW n \in Nat PROVE (Unpicked(n + 1))' \subseteq Unpicked(n)
  BY <1>1, <1>4 DEF Unpicked
<1>6. ASSUME NEW j \in Nat PROVE Room((Unpicked(Overdue(j)))', j)
  <2>1. CASE j = 0
    BY <2>1, RoomForNone DEF Unpicked, Older
  <2>2. CASE j # 0
    <3>1. PICK k \in Nat : j = k + 1
      BY <2>2
    <3>2. PICK m : m = Overdue(k)
      OBVIOUS
    <3>3. m \in Nat /\ Overdue(j) = m + 1 /\ (Overdue(j))' = m + 1
      BY <1>1, <3>1, <3>2, Bounds DEF Overdue
    <3>4. Room(Unpicked(m), j)
      BY <1>1, <3>1, <3>2 DEF QInv, Passed
    <3>5. Unpicked(m) \in SUBSET Attempts /\ (Unpicked(m + 1))' \in SUBSET Unpicked(m)
      BY <1>5, <3>3 DEF Unpicked, Older
    <3>6. Room((Unpicked(m + 1))', j)
      BY <3>4, <3>5, RoomShrinks
    <3>7. (Unpicked(Overdue(j)))' = (Unpicked(m + 1))'
      BY <3>3 DEF Unpicked, Older
    <3> QED BY <3>6, <3>7
  <2> QED BY <2>1, <2>2
<1>7. ASSUME NEW j \in Nat PROVE Room((Older(Overdue(j) + 1))', j)
  <2>1. PICK m : m = Overdue(j)
    OBVIOUS
  <2>2. m \in Nat /\ (Overdue(j))' = m
    BY <1>1, <2>1, Bounds DEF Overdue
  <2>3. Room(Older(m), j)
    BY <1>1, <2>1 DEF QInv, Waited
  <2>4. Older(m) \in SUBSET Attempts /\ (Older(m + 1))' \in SUBSET Older(m)
    BY <1>4, <2>2 DEF Older
  <2>5. Room((Older(m + 1))', j)
    BY <2>3, <2>4, RoomShrinks
  <2>6. (Older(Overdue(j) + 1))' = (Older(m + 1))'
    BY <2>2 DEF Older
  <2> QED BY <2>5, <2>6
<1> QED BY <1>1, <1>3, <1>6, <1>7 DEF Passed, Waited, Room

(* A lost run leaves everyone it picked in the queue, with the room of the *)
(* run before. *)
LEMMA RunLost ==
  ASSUME QInv, RunFails \/ Restart
  PROVE  JustWritten' /\ Passed' /\ Waited'
<1>1. UNCHANGED <<status, quiet>> /\ mishaps' = mishaps + 1 /\ pass' = {} /\ due' \in BOOLEAN
  BY DEF RunFails, Restart, rows, QInv, IInv, TypeOK
<1>2. ~due' => ~due \/ pass = {}
  BY DEF RunFails, Restart
<1>3. \A n : (Older(n))' = Older(n) /\ (Unpicked(n))' = Older(n)
  BY <1>1 DEF Older, Unpicked, Open
<1>4. ASSUME NEW j \in Nat
      PROVE  /\ Room(Older(Overdue(j) + 1), j) /\ Room(Older(Overdue(j) + 2), j)
             /\ ~due' => Room(Older(Overdue(j) + 1), j + 1)
             /\ (Overdue(j))' = Overdue(j) + 1
  <2>1. PICK n : n = Overdue(j)
    OBVIOUS
  <2>2. n \in Nat /\ Overdue(j + 1) = n + 1 /\ due \in BOOLEAN
    BY <2>1, Bounds
  <2>3. quiet \in [Attempts -> 0..(Day + 1)]
    BY DEF QInv, IInv, TypeOK
  <2>4. /\ Older(n) \in SUBSET Attempts /\ Older(n + 1) \in SUBSET Older(n)
        /\ Older(n + 2) \in SUBSET Older(n + 1)
    BY <2>2, <2>3, TimesAssumption DEF Older
  <2>5. Room(Older(n + 1), j)
    <3>1. CASE due
      BY <2>1, <3>1 DEF QInv, Waited
    <3>2. CASE ~due
      BY <2>1, <2>4, <3>2, RoomShrinks DEF QInv, Waited
    <3> QED BY <2>2, <3>1, <3>2
  <2>6. Room(Older(n + 2), j)
    BY <2>4, <2>5, RoomShrinks
  <2>7. ASSUME ~due' PROVE Room(Older(n + 1), j + 1)
    <3>1. CASE ~due
      BY <2>2, <3>1 DEF QInv, Waited
    <3>2. CASE due
      BY <1>2, <2>2, <2>7, <3>2 DEF QInv, Passed, Unpicked
    <3> QED BY <2>2, <3>1, <3>2
  <2>8. (Overdue(j))' = n + 1
    BY <1>1, <2>1, <2>2, TimesAssumption DEF Overdue, QInv, IInv, TypeOK
  <2> QED BY <2>1, <2>5, <2>6, <2>7, <2>8
<1>5. JustWritten'
  BY <1>1 DEF JustWritten
<1>6. Passed'
  <2> SUFFICES ASSUME NEW j \in Nat
               PROVE  Room((Unpicked(Overdue(j)))', IF due' THEN j ELSE j + 1)
    BY DEF Passed, Room
  <2>1. PICK n : n = Overdue(j)
    OBVIOUS
  <2>2. (Unpicked(Overdue(j)))' = Older(n + 1)
    BY <1>1, <1>4, <2>1 DEF Unpicked, Older, Open
  <2> QED BY <1>1, <1>4, <2>1, <2>2
<1>7. Waited'
  <2> SUFFICES ASSUME NEW j \in Nat
               PROVE  Room((Older(IF due THEN Overdue(j) + 1 ELSE Overdue(j)))', j)
    BY DEF Waited, Room
  <2>1. PICK n : n = Overdue(j)
    OBVIOUS
  <2>2. n \in Nat
    BY <2>1, Bounds
  <2>3. (Older(IF due THEN Overdue(j) + 1 ELSE Overdue(j)))' =
           IF due' THEN Older(n + 2) ELSE Older(n + 1)
    <3>1. (Overdue(j))' = n + 1 /\ (n + 1) + 1 = n + 2
      BY <1>4, <2>1, <2>2
    <3>2. (IF due THEN Overdue(j) + 1 ELSE Overdue(j))' = IF due' THEN n + 2 ELSE n + 1
      BY <3>1
    <3> QED BY <1>1, <3>2 DEF Older, Open
  <2> QED BY <1>1, <1>4, <2>1, <2>3
<1> QED BY <1>5, <1>6, <1>7

(* Every step keeps the queue's invariant. *)
LEMMA StepQInv == QInv /\ [Next]_vars => QInv'
<1> SUFFICES ASSUME QInv, [Next]_vars PROVE QInv'
  OBVIOUS
<1>1. IInv'
  BY StepIInv DEF QInv
<1>2. CASE UNCHANGED vars
  BY <1>1, <1>2
     DEF vars, rows, run, QInv, JustWritten, Passed, Waited, Room, Older, Unpicked, Open, Overdue
<1>3. ASSUME NEW a \in Attempts,
             \/ CreateSession(a) \/ Upsert(a) \/ Callback(a) \/ Answering(a) \/ CallFails(a)
             \/ VoidOrder(a)
      PROVE  QInv'
  <2>1. UNCHANGED <<due, mishaps, pass, seen>>
    BY <1>3 DEF CreateSession, Upsert, Callback, Answering, Settle, Reread, Pay, Void, CallFails,
                VoidOrder, run
  <2>2. \/ UNCHANGED <<status, quiet>>
        \/ /\ quiet' = [quiet EXCEPT ![a] = 0]
           /\ \A b \in Attempts \ {a} : status'[b] = status[b]
    BY <1>3 DEF CreateSession, Upsert, Callback, Answering, Settle, Reread, Pay, Void, CallFails,
                VoidOrder, rows, QInv, IInv, TypeOK
  <2> QED BY <1>1, <2>1, <2>2, WrittenOutside DEF QInv
<1>4. ASSUME NEW a \in Attempts, Handle(a) PROVE QInv'
  BY <1>1, <1>4, WrittenByRun DEF QInv
<1>5. CASE Tick
  BY <1>1, <1>5, TimePasses DEF QInv
<1>6. CASE Find
  BY <1>1, <1>6, RunStarts DEF QInv
<1>7. CASE RunFails \/ Restart
  BY <1>1, <1>7, RunLost DEF QInv
<1> QED BY <1>2, <1>3, <1>4, <1>5, <1>6, <1>7 DEF Next

(* The queue starts empty. *)
LEMMA InitQInv == Init => QInv
<1> SUFFICES ASSUME Init PROVE QInv
  OBVIOUS
<1>1. \A n : Older(n) = {}
  BY DEF Init, Older, Open
<1>2. Passed /\ Waited /\ JustWritten
  BY <1>1 DEF Init, Passed, Waited, JustWritten, Unpicked, Room
<1> QED BY <1>2, InitIInv DEF QInv

(* Whoever has waited for j runs more than he should has a batch older     *)
(* than himself for each of them, so there are not many such j.            *)
LEMMA RoomIsShort == QInv => NobodyStarves
<1> SUFFICES ASSUME QInv, NEW a \in Attempts, Open(a)
             PROVE  quiet[a] * Batch <= (Stale + 2 + mishaps) * Batch + Cardinality(Attempts) - 1
  BY DEF NobodyStarves
<1>1. PICK q, most : q = quiet[a] /\ most = Stale + 2 + mishaps
  OBVIOUS
<1>2. q \in Nat /\ most \in Nat /\ Batch \in Nat \ {0}
  BY <1>1, TimesAssumption, BatchAssumption DEF QInv, IInv, TypeOK
<1>3. PICK N : N = Cardinality(Attempts)
  OBVIOUS
<1>4. N \in Nat /\ N >= 1
  <2>1. N \in Nat /\ N # 0
    BY <1>3, BatchAssumption, FS_CardinalityType, FS_EmptySet
  <2> QED BY <2>1
<1>5. CASE q <= most
  <2>1. PICK early \in Nat : most = q + early
    <3>1. most - q \in Nat /\ most = q + (most - q)
      BY <1>2, <1>5
    <3> QED BY <3>1
  <2>2. most * Batch = q * Batch + early * Batch
    BY <1>2, <2>1
  <2>3. early * Batch \in Nat /\ q * Batch \in Nat /\ most * Batch \in Nat
    BY <1>2, <2>1
  <2> QED BY <1>1, <1>2, <1>3, <1>4, <2>2, <2>3
<1>6. CASE ~(q <= most)
  <2>1. PICK j \in Nat : q = most + j
    <3>1. q - most \in Nat /\ q = most + (q - most)
      BY <1>2, <1>6
    <3> QED BY <3>1
  <2>2. Room(Older(q), j)
    <3>1. PICK n : n = Overdue(j)
      OBVIOUS
    <3>2. n \in Nat /\ q = n + 1 /\ due \in BOOLEAN
      BY <1>1, <2>1, <3>1, Bounds, TimesAssumption DEF Overdue, QInv, IInv, TypeOK
    <3>3. quiet \in [Attempts -> 0..(Day + 1)]
      BY DEF QInv, IInv, TypeOK
    <3>4. Older(n) \in SUBSET Attempts /\ Older(n + 1) \in SUBSET Older(n)
      BY <3>2, <3>3, TimesAssumption DEF Older
    <3>5. CASE due
      BY <3>1, <3>2, <3>5 DEF QInv, Waited
    <3>6. CASE ~due
      <4>1. Room(Older(n), j)
        BY <3>1, <3>6 DEF QInv, Waited
      <4> QED BY <3>2, <3>4, <4>1, RoomShrinks
    <3> QED BY <3>2, <3>5, <3>6
  <2>3. a \in Older(q)
    BY <1>1, <1>2 DEF Older
  <2>4. IsFiniteSet(Older(q))
    BY BatchAssumption, FS_Subset DEF Older
  <2>5. Cardinality(Older(q)) \in Nat /\ Cardinality(Older(q)) # 0
    BY <2>3, <2>4, FS_CardinalityType, FS_EmptySet
  <2>6. Cardinality(Older(q)) + j * Batch <= N
    BY <1>3, <2>2, <2>3 DEF Room
  <2>7. q * Batch = most * Batch + j * Batch
    BY <1>2, <2>1
  <2>8. PICK filled, full : filled = j * Batch /\ full = most * Batch
    OBVIOUS
  <2>9. filled \in Nat /\ full \in Nat
    BY <1>2, <2>8
  <2>10. q * Batch <= full + N - 1
    BY <1>4, <2>5, <2>6, <2>7, <2>8, <2>9
  <2> QED BY <1>1, <1>3, <2>8, <2>10
<1> QED BY <1>5, <1>6

(* The queue's invariant, and what it is for: the limit starves nobody.    *)
THEOREM QueueInductive == Spec => []QInv
<1> QED BY InitQInv, StepQInv, PTL DEF Spec

(* Whatever the batch and however many attempts are stale, none waits      *)
(* longer than the runs it takes to handle those before it, and those that *)
(* were lost: the runs' oldest-first order and their refresh of updatedAt  *)
(* see to it.                                                              *)
THEOREM NoneStarves == Spec => []NobodyStarves
<1> QED BY RoomIsShort, QueueInductive, PTL
=============================================================================
