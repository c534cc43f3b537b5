---------------------------- MODULE Reconciliation ----------------------------
(* The cron of worldlineReconciliationJob against the clock, the customers *)
(* and the gateway.  One unit of time is the job's interval (five          *)
(* minutes); every attempt belongs to an order of its own and is that      *)
(* order's latest; an attempt has one createSession and one callback or    *)
(* abort under way at a time.                                              *)
EXTENDS Integers, FiniteSets

CONSTANTS Attempts,
          Active,     \* the attempts that are renewed, or answered for
          Answers,    \* what callbacks and aborts may report
          Batch,      \* limit(100)
          Stale,      \* WORLDLINE_RECONCILE_STALE_MINUTES: 15 minutes, 3 units
          Session,    \* sessionDurationMs: 30 minutes, 6 units
          Day,        \* 24 hours, 288 units
          MaxMishaps  \* bound on restarts and failing runs

Refused == {"failed", "cancelled"}
Terminal == Refused \cup {"success"}
ASSUME AnswersAssumption == Answers \subseteq Terminal \cup {"pending", "unknown"}
ASSUME BatchAssumption == Batch \in Nat \ {0} /\ IsFiniteSet(Attempts)
ASSUME TimesAssumption == /\ Stale \in Nat \ {0} /\ Session \in Nat /\ Day \in Nat
                          /\ MaxMishaps \in Nat

VARIABLES status,   \* WorldlinePayment.status, "none" before the session
          age,      \* how long ago the session was made, up to Session
          quiet,    \* how long ago updatedAt was written, up to Day + 1
          order,    \* its order: awaiting payment, paid, or voided (cancelled)
          opening,  \* the attempts a createSession has read and will upsert
          call,     \* their callbacks: [pc, answer, the order as loaded]
          broken,   \* the attempts a handler has left half way
          due,      \* is it time for runOnce?
          pass,     \* the candidates this run has still to handle
          seen,     \* what the run loaded of them, in the clocks of today
          voiding,  \* the candidate whose order the run is about to void
          mishaps

rows == <<status, age, quiet>>
handlers == <<opening, call>>
run == <<due, pass, seen, voiding>>
vars == <<rows, order, handlers, broken, run, mishaps>>

Open(a) == status[a] \notin Terminal \cup {"none"}
Live(a) == Open(a) /\ age[a] < Session
NoCopy == [status |-> "none", age |-> 0, quiet |-> 0]
NoCall == [pc |-> "idle", answer |-> "none", order |-> "awaiting"]

Init == /\ status = [a \in Attempts |-> "none"]
        /\ age = [a \in Attempts |-> 0] /\ quiet = [a \in Attempts |-> 0]
        /\ order = [a \in Attempts |-> "awaiting"]
        /\ opening = {} /\ call = [a \in Attempts |-> NoCall] /\ broken = {}
        /\ due = TRUE /\ pass = {} /\ seen = [a \in Attempts |-> NoCopy] /\ voiding = {}
        /\ mishaps = 0

-----------------------------------------------------------------------------
(* createSession reads the order and the attempt, which it makes, or       *)
(* reuses while the session lives, ...                                     *)
CreateSession(a) ==
  /\ a \notin opening /\ order[a] = "awaiting"
  /\ status[a] = "none" \/ (a \in Active /\ Live(a))
  /\ opening' = opening \cup {a}
  /\ UNCHANGED <<rows, order, call, broken, run, mishaps>>

(* ... and upserts it as created, whatever its status has become.          *)
Upsert(a) ==
  /\ a \in opening /\ opening' = opening \ {a}
  /\ status' = [status EXCEPT ![a] = "created"]
  /\ age' = [age EXCEPT ![a] = 0] /\ quiet' = [quiet EXCEPT ![a] = 0]
  /\ UNCHANGED <<order, call, broken, run, mishaps>>

-----------------------------------------------------------------------------
(* completePayment, processGatewayReturn and abortPayment.  A callback     *)
(* loads the order (a row that already succeeded is only released), ...    *)
CallAt(a, label) == call[a].pc = label
Proceed(a, label) == call' = [call EXCEPT ![a].pc = label]
Return(a) == call' = [call EXCEPT ![a] = NoCall]
Callback(a) ==
  /\ a \in Active /\ CallAt(a, "idle") /\ status[a] \notin {"none", "success"}
  /\ \E answer \in Answers :
       call' = [call EXCEPT ![a] = [pc |-> "settle", answer |-> answer, order |-> order[a]]]
  /\ UNCHANGED <<rows, order, opening, broken, run, mishaps>>

(* What follows from the row, for the order as it was loaded. *)
FollowCancelled(a, verdict) ==
  IF verdict = "success" /\ call[a].order # "voided" THEN Proceed(a, "pay")
  ELSE IF verdict = "cancelled" /\ call[a].order = "awaiting" THEN Proceed(a, "void")
  ELSE Return(a)
Follow(a, verdict) ==
  IF verdict = "success" /\ call[a].order # "voided" THEN Proceed(a, "pay")
  ELSE IF verdict \in Refused /\ call[a].order = "awaiting" THEN Proceed(a, "void")
  ELSE Return(a)

(* ... updates the row unless it is settled, ... *)
Settle(a) ==
  /\ CallAt(a, "settle")
  /\ IF Open(a)
       THEN /\ status' = [status EXCEPT ![a] = call[a].answer]
            /\ quiet' = [quiet EXCEPT ![a] = 0]
            /\ Follow(a, call[a].answer)
       ELSE Proceed(a, "reread") /\ UNCHANGED <<status, quiet>>
  /\ UNCHANGED <<age, order, opening, broken, run, mishaps>>

(* ... reads it again if it is, ... *)
Reread(a) ==
  /\ CallAt(a, "reread") /\ Follow(a, status[a])
  /\ UNCHANGED <<rows, order, opening, broken, run, mishaps>>

(* ... and saves the order as paid, or voids it.  A cancelled order stays  *)
(* cancelled, a paid one is not voided.                                    *)
Decide(a, verdict) ==
  order' = IF order[a] = "awaiting" THEN [order EXCEPT ![a] = verdict] ELSE order
Pay(a) ==
  /\ CallAt(a, "pay") /\ Decide(a, "paid") /\ Return(a)
  /\ UNCHANGED <<rows, opening, broken, run, mishaps>>
Void(a) ==
  /\ CallAt(a, "void") /\ Decide(a, "voided") /\ Return(a)
  /\ UNCHANGED <<rows, opening, broken, run, mishaps>>

(* A write fails: the handler ends where it is. *)
CallFails(a) ==
  /\ ~CallAt(a, "idle") /\ Return(a) /\ broken' = broken \cup {a}
  /\ UNCHANGED <<rows, order, opening, run, mishaps>>

-----------------------------------------------------------------------------
(* Five minutes pass, perhaps within a run; a run is over before the one   *)
(* after it.                                                               *)
Up(n, cap) == IF n < cap THEN n + 1 ELSE n
Tick ==
  /\ ~due /\ due' = TRUE
  /\ age' = [a \in Attempts |-> IF Open(a) THEN Up(age[a], Session) ELSE age[a]]
  /\ quiet' = [a \in Attempts |-> IF Open(a) THEN Up(quiet[a], Day + 1) ELSE quiet[a]]
  /\ seen' = [a \in Attempts |->
                IF a \in pass THEN [seen[a] EXCEPT !.age = Up(@, Session),
                                                   !.quiet = Up(@, Day + 1)]
                              ELSE seen[a]]
  /\ UNCHANGED <<status, order, handlers, broken, pass, voiding, mishaps>>

(* runOnce finds the stale attempts, at most Batch, least recently updated *)
(* first.                                                                  *)
Candidates == {a \in Attempts : Open(a) /\ quiet[a] >= Stale}
NewestFirst(picked) == \A a \in picked, b \in Candidates \ picked : quiet[a] <= quiet[b]
OldestFirst(picked) == \A a \in picked, b \in Candidates \ picked : quiet[a] >= quiet[b]
Unlimited(picked) == picked = Candidates
Limited(picked) == /\ Cardinality(picked) <= Batch
                   /\ picked = Candidates \/ Cardinality(picked) = Batch
Find ==
  /\ due /\ due' = FALSE /\ pass = {} /\ voiding = {}
  /\ pass' \in {picked \in SUBSET Candidates : OldestFirst(picked) /\ Limited(picked)}
  /\ seen' = [a \in Attempts |->
                IF a \in pass' THEN [status |-> status[a], age |-> age[a], quiet |-> quiet[a]]
                               ELSE NoCopy]
  /\ UNCHANGED <<rows, order, handlers, broken, voiding, mishaps>>

(* "created/initiated = the customer never completed the gateway flow":    *)
(* the session of the copy, which may have been renewed since.             *)
AbandonedBeforeGateway(a) == seen[a].status = "created" /\ seen[a].age >= Session
ExtremelyStale(a) == seen[a].quiet > Day
TimedOut(a) == AbandonedBeforeGateway(a) \/ ExtremelyStale(a)

(* updateOne({_id, status: p.status}). *)
Regardless(a) == TRUE
Unchanged(a) == status[a] = seen[a].status

(* One candidate, in the order found.  The write refreshes updatedAt; a    *)
(* timed-out attempt goes on to its order whether or not it was written,   *)
Handle(a) ==
  /\ voiding = {} /\ a \in pass /\ \A b \in pass : seen[a].quiet >= seen[b].quiet
  /\ pass' = pass \ {a} /\ seen' = [seen EXCEPT ![a] = NoCopy]
  /\ voiding' = IF TimedOut(a) THEN {a} ELSE {}
  /\ IF Unchanged(a)
       THEN /\ status' = [status EXCEPT ![a] = IF TimedOut(a) THEN "failed" ELSE "unknown"]
            /\ quiet' = [quiet EXCEPT ![a] = 0]
       ELSE UNCHANGED <<status, quiet>>
  /\ UNCHANGED <<age, order, handlers, broken, due, mishaps>>

(* which is voided unless it is paid, and unless that fails.               *)
VoidOrder(a) ==
  /\ a \in voiding /\ voiding' = {}
  /\ \/ Decide(a, "voided") /\ UNCHANGED broken
     \/ broken' = broken \cup {a} /\ UNCHANGED order
  /\ UNCHANGED <<rows, handlers, due, pass, seen, mishaps>>

-----------------------------------------------------------------------------
(* A database call of the run fails, and with it the run, ... *)
RunFails ==
  /\ due \/ pass \cup voiding # {}
  /\ mishaps < MaxMishaps /\ mishaps' = mishaps + 1
  /\ due' = (due /\ pass \cup voiding # {})
  /\ pass' = {} /\ seen' = [a \in Attempts |-> NoCopy]
  /\ voiding' = {} /\ broken' = broken \cup voiding
  /\ UNCHANGED <<rows, order, handlers>>

(* ... or the server restarts; start() runs the job at once. *)
Restart ==
  /\ mishaps < MaxMishaps /\ mishaps' = mishaps + 1
  /\ due' = TRUE /\ pass' = {} /\ seen' = [a \in Attempts |-> NoCopy]
  /\ voiding' = {} /\ opening' = {} /\ call' = [a \in Attempts |-> NoCall]
  /\ broken' = broken \cup voiding \cup {a \in Attempts : ~CallAt(a, "idle")}
  /\ UNCHANGED <<rows, order>>

Answering(a) == Settle(a) \/ Reread(a) \/ Pay(a) \/ Void(a)
Next == \/ Tick \/ Find \/ RunFails \/ Restart
        \/ \E a \in Attempts : \/ CreateSession(a) \/ Upsert(a)
                               \/ Callback(a) \/ Answering(a) \/ CallFails(a)
                               \/ Handle(a) \/ VoidOrder(a)

Spec == Init /\ [][Next]_vars

(* Time goes on, the job runs and handlers end; customers and the gateway  *)
(* owe nothing.                                                            *)
LiveSpec == /\ Spec /\ WF_vars(Tick) /\ WF_vars(Find)
            /\ \A a \in Attempts : WF_vars(Upsert(a)) /\ WF_vars(Answering(a))
            /\ WF_vars(\E a \in Attempts : Handle(a) \/ VoidOrder(a))

-----------------------------------------------------------------------------
Statuses == Terminal \cup {"none", "created", "pending", "unknown"}
Orders == {"awaiting", "paid", "voided"}
Calls == [pc : {"idle", "settle", "reread", "pay", "void"},
          answer : Answers \cup {"none"}, order : Orders]
Copies == [status : Statuses, age : 0..Session, quiet : 0..(Day + 1)]

(* Types; a run never holds more candidates than its limit.                *)
TypeOK ==
  /\ status \in [Attempts -> Statuses]
  /\ age \in [Attempts -> 0..Session] /\ quiet \in [Attempts -> 0..(Day + 1)]
  /\ order \in [Attempts -> Orders]
  /\ opening \in SUBSET Attempts /\ call \in [Attempts -> Calls] /\ broken \in SUBSET Attempts
  /\ due \in BOOLEAN /\ mishaps \in 0..MaxMishaps
  /\ pass \in SUBSET Attempts /\ Cardinality(pass) <= Batch /\ voiding \in SUBSET Attempts
  /\ seen \in [Attempts -> Copies]

(* The limit starves nobody: when more attempts are stale than a run       *)
(* handles, each is reached within one more run per batch before it, the   *)
(* run under way, and one run for every one that was lost.                 *)
NobodyStarves ==
  \A a \in Attempts : Open(a) =>
    quiet[a] * Batch <= (Stale + 2 + mishaps) * Batch + Cardinality(Attempts) - 1

(* A verdict stands: what the job decided from an older copy never         *)
(* overwrites it, nor does another callback; only a createSession that     *)
(* read the attempt while it was open makes it "created" again.            *)
VerdictStands ==
  [][\A a \in Attempts : status[a] \in Terminal /\ status'[a] # status[a] =>
       a \in opening /\ status'[a] = "created"]_vars

(* A verdict decides: once no handler is at work on a settled attempt, its *)
(* order is paid or voided, whoever settled the attempt and whatever the   *)
(* others had loaded before, unless one of them broke off half way.        *)
AtWork(a) == ~CallAt(a, "idle") \/ a \in voiding
VerdictDecides ==
  \A a \in Attempts \ broken :
    status[a] \in Terminal /\ ~AtWork(a) => order[a] # "awaiting"

(* "fail as a timeout so the order is voided instead of sitting in         *)
(* awaiting payment forever": once the customer opens no more sessions,    *)
(* the job ends each open attempt.                                         *)
AbandonedIsVoided ==
  <>[][\A a \in Attempts : ~CreateSession(a)]_vars
    => \A a \in Attempts : Open(a) ~> order[a] # "awaiting"
=============================================================================
