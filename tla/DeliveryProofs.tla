--------------------------- MODULE DeliveryProofs ---------------------------
(* What becomes of the webhooks of a logistics order, for any number of    *)
(* them, any reports and replies, attempts, prefetch, lost connections and *)
(* restarts.                                                               *)
EXTENDS Delivery, TLAPS

(* While the consumer is attached it holds what it works on; after that    *)
(* the queue does.  A message and its outcome belong to a stored event.    *)
Placed == \A e \in Events : /\ work[e].at # "none" => message[e] = IF attached THEN "held" ELSE "queued"
                            /\ message[e] = "held" => work[e].at # "none" /\ attached
                            /\ message[e] # "none" => event[e].report # "none"
                            /\ event[e].processed => event[e].report # "none"

(* A message under way has an attempt left. *)
AttemptsLeft == \A e \in Events : work[e].at \in Steps \cup {"claim", "ack"} => work[e].attempt < Attempts

(* Until the server restarts, a message waiting for its claim has none.    *)
ClaimsFresh == crashes = 0 =>
  \A e \in Events : (work[e].at = "claim" \/ message[e] \in {"none", "unsent"} \/ (message[e] = "queued" /\ attached))
                    => e \notin claimed

(* The order has had the status it has, and the one a consumer that saved  *)
(* or found it so is about to report.                                      *)
StatusShown == consignment.status \in shown \cup {"none"}
Witnessed == \A e \in Events : work[e].at = "append" \/ (work[e].at = "outcome" /\ work[e].error = "none")
                               => event[e].report \in shown

(* Only a status is applied, and only what is processed is acknowledged.   *)
Ready == \A e \in Events : /\ work[e].at \in {"apply", "save", "append"} => event[e].report \in Reports
                           /\ work[e].at = "ack" => event[e].processed

IInv == /\ DeliveryTypeOK /\ Placed /\ AttemptsLeft /\ ClaimsFresh /\ StatusShown /\ Witnessed /\ Ready
        /\ NothingDropped /\ OutcomeIsTrue

-----------------------------------------------------------------------------
Work == [at : Steps \cup {"none", "claim", "ack", "giveUp"}, attempt : 0..Attempts, error : Errors]
EventDoc == [report : Reports \cup {"none", Missing}, processed : BOOLEAN, error : Errors]
Places == {"none", "unsent", "queued", "held", "acked", "dead", "skipped"}
Taken == [AtRest EXCEPT !.at = "claim"]

(* No work, and work just begun. *)
LEMMA Records == /\ AtRest \in Work /\ AtRest.at = "none"
                 /\ Taken \in Work /\ Taken.at = "claim" /\ Taken.attempt < Attempts
<1>1. Taken = [at |-> "claim", attempt |-> 0, error |-> "none"]
  BY DEF AtRest, Taken
<1>2. 0 \in 0..Attempts /\ 0 < Attempts
  BY BoundsAssumption
<1> QED BY <1>1, <1>2 DEF AtRest, Work, Steps, Errors

(* No order, no webhooks. *)
LEMMA InitIInv == DeliveryInit => IInv
BY BoundsAssumption
   DEF DeliveryInit, IInv, DeliveryTypeOK, Placed, AttemptsLeft, ClaimsFresh, StatusShown, Witnessed, Ready,
       NothingDropped, OutcomeIsTrue, AtRest, Errors, Steps, ConsignmentStatuses

(* createOrder and cancelOrder leave the webhooks alone, and the order only *)
(* gains statuses.                                                         *)
LEMMA OrderStep ==
  ASSUME IInv, OrderSide, shown \subseteq shown', StatusShown', DeliveryTypeOK'
  PROVE  IInv'
BY DEF OrderSide, IInv, Placed, AttemptsLeft, ClaimsFresh, Witnessed, Ready, NothingDropped, OutcomeIsTrue

(* Each step of createOrder. *)
LEMMA MakingStep == ASSUME IInv, Making PROVE IInv'
<1>1. OrderSide
  BY DEF Making, CreateConsignment, FirstHistoryFails, ProviderAccepts, CreateFails, SaveAnswer, BookAndTell, SaveFailed
<1>2. shown \subseteq shown' /\ StatusShown'
  BY DEF Making, CreateConsignment, FirstHistoryFails, ProviderAccepts, CreateFails, SaveAnswer, BookAndTell,
         SaveFailed, SetStatusTo, order, IInv, StatusShown, DeliveryTypeOK
<1>3. DeliveryTypeOK'
  <2>1. CASE SaveFailed
    <3>1. (consignment.known \/ maker = "failing") \in BOOLEAN
      OBVIOUS
    <3>2. consignment' \in [status : ConsignmentStatuses \cup {"none"}, known : BOOLEAN]
      BY <2>1, <3>1 DEF SaveFailed, ConsignmentStatuses
    <3> QED BY <1>1, <2>1, <3>2 DEF SaveFailed, OrderSide, IInv, DeliveryTypeOK, ConsignmentStatuses
  <2>2. CASE CreateConsignment
    BY <1>1, <2>2 DEF CreateConsignment, SetStatusTo, OrderSide, IInv, DeliveryTypeOK, ConsignmentStatuses
  <2>3. ASSUME NEW s \in Replies, SaveAnswer(s) PROVE DeliveryTypeOK'
    <3>1. s \in ConsignmentStatuses
      BY ReportsAssumption
    <3>2. PICK t \in ConsignmentStatuses \cup {"none"} : consignment' = [known |-> TRUE, status |-> t]
      BY <2>3, <3>1 DEF SaveAnswer, IInv, DeliveryTypeOK
    <3>3. consignment' \in [status : ConsignmentStatuses \cup {"none"}, known : BOOLEAN]
      BY <3>2
    <3> QED BY <1>1, <2>3, <3>1, <3>3 DEF SaveAnswer, OrderSide, IInv, DeliveryTypeOK
  <2>4. CASE FirstHistoryFails \/ ProviderAccepts \/ CreateFails \/ BookAndTell
    BY <1>1, <2>4 DEF FirstHistoryFails, ProviderAccepts, CreateFails, BookAndTell, order, OrderSide, IInv, DeliveryTypeOK
  <2> QED BY <2>1, <2>2, <2>3, <2>4 DEF Making
<1> QED BY <1>1, <1>2, <1>3, OrderStep

(* Each step of cancelOrder. *)
LEMMA CancellingStep == ASSUME IInv, Cancelling PROVE IInv'
<1>1. OrderSide
  BY DEF Cancelling, CancelRequest, CancelRefused, CancelWrite
<1>2. shown \subseteq shown' /\ StatusShown'
  BY DEF Cancelling, CancelRequest, CancelRefused, CancelWrite, SetStatusTo, order, IInv, StatusShown, DeliveryTypeOK
<1>3. DeliveryTypeOK'
  BY <1>1
     DEF Cancelling, CancelRequest, CancelRefused, CancelWrite, SetStatusTo, order, OrderSide, IInv,
         DeliveryTypeOK, ConsignmentStatuses
<1> QED BY <1>1, <1>2, <1>3, OrderStep

-----------------------------------------------------------------------------
(* A webhook is stored. *)
LEMMA IngestStep ==
  ASSUME IInv, NEW e \in Events, NEW report \in Reports \cup {Missing}, IngestPorter(e, report) PROVE IInv'
<1>1. event[e].report = "none" /\ message[e] = "none" /\ ~event[e].processed /\ work[e].at = "none"
  BY DEF IngestPorter, IInv, Placed, DeliveryTypeOK
<1>2. report # "none"
  BY ReportsAssumption DEF ConsignmentStatuses, Missing
<1>3. DeliveryTypeOK'
  BY DEF IngestPorter, EventSide, order, IInv, DeliveryTypeOK
<1>4. StatusShown' /\ AttemptsLeft'
  BY DEF IngestPorter, order, IInv, StatusShown, AttemptsLeft
<1>5. Placed' /\ ClaimsFresh'
  BY <1>1, <1>2 DEF IngestPorter, EventSide, IInv, Placed, ClaimsFresh, DeliveryTypeOK
<1>6. Witnessed' /\ Ready' /\ NothingDropped' /\ OutcomeIsTrue'
  BY <1>1 DEF IngestPorter, EventSide, order, IInv, Witnessed, Ready, NothingDropped, OutcomeIsTrue, DeliveryTypeOK
<1> QED BY <1>3, <1>4, <1>5, <1>6 DEF IInv

(* It is published, or RabbitMQ is off. *)
LEMMA PublishStep ==
  ASSUME IInv, NEW e \in Events, NEW where \in {"queued", "skipped"}, Publish(e, where) PROVE IInv'
<1>1. DeliveryTypeOK'
  BY DEF Publish, EventSide, order, IInv, DeliveryTypeOK
<1>2. Placed' /\ ClaimsFresh' /\ NothingDropped'
  BY DEF Publish, EventSide, IInv, Placed, ClaimsFresh, NothingDropped, DeliveryTypeOK
<1>3. StatusShown' /\ AttemptsLeft' /\ Witnessed' /\ Ready' /\ OutcomeIsTrue'
  BY DEF Publish, order, IInv, StatusShown, AttemptsLeft, Witnessed, Ready, OutcomeIsTrue
<1> QED BY <1>1, <1>2, <1>3 DEF IInv

(* The consumer takes a message. *)
LEMMA DeliverStep == ASSUME IInv, NEW e \in Events, Deliver(e) PROVE IInv'
<1>1. work' = [work EXCEPT ![e] = Taken]
  BY DEF Deliver, Taken
<1>2. DeliveryTypeOK' /\ AttemptsLeft'
  BY <1>1, Records DEF Deliver, EventSide, order, IInv, DeliveryTypeOK, AttemptsLeft, Work
<1>3. Placed' /\ ClaimsFresh'
  BY <1>1, Records DEF Deliver, EventSide, IInv, Placed, ClaimsFresh, DeliveryTypeOK
<1>4. StatusShown' /\ Witnessed' /\ Ready' /\ NothingDropped' /\ OutcomeIsTrue'
  BY <1>1, Records DEF Deliver, EventSide, order, IInv, StatusShown, Witnessed, Ready, NothingDropped, OutcomeIsTrue, DeliveryTypeOK
<1> QED BY <1>2, <1>3, <1>4 DEF IInv

(* The consumer is done with a message, which it acknowledges or            *)
(* dead-letters while it is attached.                                      *)
LEMMA LeaveStep ==
  ASSUME IInv, NEW e \in Events, NEW where \in {"acked", "dead"}, Leave(e, where),
         work[e].at # "none", UNCHANGED <<order, claimed>>, EventSide,
         event' \in [Events -> EventDoc], \A f \in Events \ {e} : event'[f] = event[f],
         event'[e].report = event[e].report,
         event[e].processed => event'[e].processed,
         crashes = 0 /\ where = "acked" => event'[e].processed,
         event'[e].processed /\ event'[e].error = "none" => event[e].report \in shown
  PROVE  IInv'
<1>1. /\ work' = [work EXCEPT ![e] = AtRest]
      /\ message' = IF attached THEN [message EXCEPT ![e] = where] ELSE message
  BY DEF Leave
<1>2. work' \in [Events -> Work] /\ message' \in [Events -> Places]
  BY <1>1, Records DEF IInv, DeliveryTypeOK, Work, Places
<1>3. DeliveryTypeOK'
  BY <1>2 DEF EventSide, order, IInv, DeliveryTypeOK, Work, Places, EventDoc
<1>4. message[e] = (IF attached THEN "held" ELSE "queued") /\ event[e].report # "none"
  BY DEF IInv, Placed
<1>5. Placed' /\ AttemptsLeft'
  BY <1>1, <1>4, Records DEF EventSide, IInv, DeliveryTypeOK, Placed, AttemptsLeft, Steps
<1>6. ClaimsFresh' /\ StatusShown' /\ Witnessed' /\ Ready'
  BY <1>1, <1>4, Records DEF EventSide, order, IInv, DeliveryTypeOK, ClaimsFresh, StatusShown, Witnessed, Ready
<1>7. NothingDropped'
  BY <1>1 DEF EventSide, IInv, DeliveryTypeOK, NothingDropped
<1>8. OutcomeIsTrue'
  BY DEF order, IInv, OutcomeIsTrue
<1> QED BY <1>3, <1>5, <1>6, <1>7, <1>8 DEF IInv

(* It goes on: to the event, to the order, to the outcome or to the ack.   *)
LEMMA ProceedStep ==
  ASSUME IInv, NEW e \in Events, NEW w \in Work, work' = [work EXCEPT ![e] = w], UNCHANGED message,
         work[e].at \in Steps \cup {"claim", "ack"}, w.at \in Steps \cup {"ack", "giveUp"},
         w.at # "giveUp" => w.attempt < Attempts,
         w.at \in {"apply", "save", "append"} => event[e].report \in Reports,
         w.at = "ack" => event[e].processed,
         (w.at = "append" \/ (w.at = "outcome" /\ w.error = "none")) => event[e].report \in shown,
         claimed' \in {claimed, claimed \cup {e}}, UNCHANGED <<order, event>>, EventSide
  PROVE  IInv'
<1>1. DeliveryTypeOK' /\ AttemptsLeft'
  <2>1. work' \in [Events -> Work] /\ claimed' \in SUBSET Events
    BY DEF IInv, DeliveryTypeOK, Work
  <2>2. DeliveryTypeOK'
    BY <2>1 DEF EventSide, order, IInv, DeliveryTypeOK, Work
  <2>3. \A f \in Events : work'[f] = IF f = e THEN w ELSE work[f]
    BY DEF IInv, DeliveryTypeOK
  <2>4. AttemptsLeft'
    BY <2>3 DEF IInv, AttemptsLeft, Steps
  <2> QED BY <2>2, <2>4
<1>2. Placed' /\ NothingDropped'
  BY DEF EventSide, IInv, Placed, NothingDropped, DeliveryTypeOK, Steps
<1>3. ClaimsFresh'
  BY DEF EventSide, IInv, ClaimsFresh, Placed, DeliveryTypeOK, Steps
<1>4. StatusShown' /\ Witnessed' /\ Ready' /\ OutcomeIsTrue'
  BY DEF order, IInv, StatusShown, Witnessed, Ready, OutcomeIsTrue, DeliveryTypeOK
<1> QED BY <1>1, <1>2, <1>3, <1>4 DEF IInv

(* A duplicate is acknowledged, a first message goes on. *)
LEMMA ClaimStep == ASSUME IInv, NEW e \in Events, Claim(e) \/ ClaimWithoutRedis(e) PROVE IInv'
<1>1. work[e].at = "claim" /\ UNCHANGED <<order, event>> /\ EventSide
  BY DEF Claim, ClaimWithoutRedis, Doing
<1>2. CASE Claim(e) /\ e \in claimed
  <2>1. Leave(e, "acked") /\ UNCHANGED claimed
    BY <1>2 DEF Claim
  <2>2. crashes # 0
    BY <1>1, <1>2 DEF IInv, ClaimsFresh
  <2>3. event \in [Events -> EventDoc]
    BY DEF IInv, DeliveryTypeOK, EventDoc
  <2> QED BY <1>1, <2>1, <2>2, <2>3, LeaveStep DEF IInv, OutcomeIsTrue
<1>3. CASE (Claim(e) /\ e \notin claimed) \/ ClaimWithoutRedis(e)
  <2>1. Proceed(e, "load") /\ claimed' \in {claimed, claimed \cup {e}}
    BY <1>3 DEF Claim, ClaimWithoutRedis
  <2> DEFINE w == [work[e] EXCEPT !.at = "load"]
  <2>2. w \in Work /\ w.at = "load" /\ w.attempt < Attempts
    BY <1>1 DEF IInv, AttemptsLeft, DeliveryTypeOK, Work, Steps
  <2>3. work' = [work EXCEPT ![e] = w] /\ UNCHANGED message
    BY <2>1 DEF Proceed, IInv, DeliveryTypeOK
  <2> HIDE DEF w
  <2> QED BY <1>1, <2>1, <2>2, <2>3, ProceedStep DEF Steps
<1> QED BY <1>2, <1>3

(* An event already processed goes to its ack, one without a status to its *)
(* outcome.                                                                *)
LEMMA LoadEventStep == ASSUME IInv, NEW e \in Events, LoadEvent(e) PROVE IInv'
<1>1. PICK at \in {"ack", "outcome", "apply"}, error \in {"none", Missing} :
        /\ work[e].at = "load" /\ work' = [work EXCEPT ![e].at = at, ![e].error = error]
        /\ at = "ack" => event[e].processed
        /\ at = "outcome" => error = Missing
        /\ at = "apply" => event[e].report # Missing
  BY DEF LoadEvent, Doing
<1> DEFINE w == [work[e] EXCEPT !.at = at, !.error = error]
<1>2. /\ w \in Work /\ w.at = at /\ w.error = error /\ w.attempt < Attempts
  BY <1>1 DEF IInv, AttemptsLeft, DeliveryTypeOK, Work, Steps, Errors
<1>3. work' = [work EXCEPT ![e] = w]
  BY <1>1 DEF IInv, DeliveryTypeOK
<1>4. at = "apply" => event[e].report \in Reports
  BY <1>1 DEF IInv, Placed, DeliveryTypeOK
<1>5. UNCHANGED <<order, event, message, claimed>> /\ EventSide
  BY DEF LoadEvent
<1> HIDE DEF w
<1> QED BY <1>1, <1>2, <1>3, <1>4, <1>5, ProceedStep DEF Steps, Missing

(* What the consumer finds is legal, already so, or an error. *)
LEMMA LoadConsignmentStep == ASSUME IInv, NEW e \in Events, LoadConsignment(e) PROVE IInv'
<1>1. PICK at \in {"save", "outcome"}, error \in Errors :
        /\ work[e].at = "apply" /\ work' = [work EXCEPT ![e].at = at, ![e].error = error]
        /\ at = "outcome" /\ error = "none" => consignment.status = event[e].report
  BY DEF LoadConsignment, Outcome, Doing, Errors
<1> DEFINE w == [work[e] EXCEPT !.at = at, !.error = error]
<1>2. /\ w \in Work /\ w.at = at /\ w.error = error /\ w.attempt < Attempts
  BY <1>1 DEF IInv, AttemptsLeft, DeliveryTypeOK, Work, Steps
<1>3. work' = [work EXCEPT ![e] = w]
  BY <1>1 DEF IInv, DeliveryTypeOK
<1>4. event[e].report \in Reports /\ event[e].report \in ConsignmentStatuses
  BY <1>1, ReportsAssumption DEF IInv, Ready
<1>5. at = "outcome" /\ error = "none" => event[e].report \in shown
  BY <1>1, <1>4 DEF IInv, StatusShown, ConsignmentStatuses
<1>6. UNCHANGED <<order, event, message, claimed>> /\ EventSide
  BY DEF LoadConsignment
<1> HIDE DEF w
<1> QED BY <1>1, <1>2, <1>3, <1>4, <1>5, <1>6, ProceedStep DEF Steps

(* The order takes the reported status. *)
LEMMA SaveConsignmentStep == ASSUME IInv, NEW e \in Events, SaveConsignment(e) PROVE IInv'
<1>1. /\ work[e].at = "save" /\ work' = [work EXCEPT ![e].at = "append"]
      /\ UNCHANGED <<message, event, claimed>> /\ EventSide /\ SetStatusTo(event[e].report)
  BY DEF SaveConsignment, Doing, Proceed
<1>2. event[e].report \in Reports /\ event[e].report \in ConsignmentStatuses
  BY <1>1, ReportsAssumption DEF IInv, Ready
<1>3. DeliveryTypeOK' /\ AttemptsLeft'
  BY <1>1, <1>2 DEF EventSide, SetStatusTo, IInv, DeliveryTypeOK, AttemptsLeft, Steps
<1>4. Placed' /\ ClaimsFresh' /\ NothingDropped'
  BY <1>1 DEF EventSide, IInv, Placed, ClaimsFresh, NothingDropped, DeliveryTypeOK
<1>5. StatusShown' /\ Witnessed' /\ Ready' /\ OutcomeIsTrue'
  BY <1>1, <1>2 DEF SetStatusTo, IInv, StatusShown, Witnessed, Ready, OutcomeIsTrue, DeliveryTypeOK
<1> QED BY <1>3, <1>4, <1>5 DEF IInv

(* Its history is written. *)
LEMMA AppendHistoryStep == ASSUME IInv, NEW e \in Events, AppendHistory(e) PROVE IInv'
<1>1. /\ work[e].at = "append" /\ work' = [work EXCEPT ![e].at = "outcome"]
      /\ UNCHANGED <<order, message, event, claimed>> /\ EventSide
  BY DEF AppendHistory, Doing, Proceed
<1> DEFINE w == [work[e] EXCEPT !.at = "outcome"]
<1>2. w \in Work /\ w.at = "outcome" /\ w.attempt < Attempts
  BY <1>1 DEF IInv, AttemptsLeft, DeliveryTypeOK, Work, Steps
<1>3. work' = [work EXCEPT ![e] = w]
  BY <1>1 DEF IInv, DeliveryTypeOK
<1>4. event[e].report \in shown
  BY <1>1 DEF IInv, Witnessed
<1> HIDE DEF w
<1> QED BY <1>1, <1>2, <1>3, <1>4, ProceedStep DEF Steps

(* The outcome is stored. *)
LEMMA SaveEventStep == ASSUME IInv, NEW e \in Events, SaveEvent(e) PROVE IInv'
<1>1. /\ work[e].at = "outcome" /\ work' = [work EXCEPT ![e].at = "ack"]
      /\ event' = [event EXCEPT ![e].processed = TRUE, ![e].error = work[e].error]
      /\ UNCHANGED <<order, message, claimed>> /\ EventSide
  BY DEF SaveEvent, Doing, Proceed
<1>2. work[e].error = "none" => event[e].report \in shown
  BY <1>1 DEF IInv, Witnessed
<1>3. DeliveryTypeOK' /\ AttemptsLeft'
  <2>1. work' \in [Events -> Work] /\ event' \in [Events -> EventDoc]
    <3>1. work[e].error \in Errors /\ work \in [Events -> Work] /\ event \in [Events -> EventDoc]
      BY DEF IInv, DeliveryTypeOK, Work, EventDoc
    <3>2. work' \in [Events -> Work]
      BY <1>1, <3>1 DEF Work
    <3>3. event' \in [Events -> EventDoc]
      BY <1>1, <3>1 DEF EventDoc
    <3> QED BY <3>2, <3>3
  <2>2. DeliveryTypeOK'
    BY <1>1, <2>1 DEF EventSide, order, IInv, DeliveryTypeOK, Work, EventDoc
  <2>3. AttemptsLeft'
    BY <1>1 DEF IInv, DeliveryTypeOK, AttemptsLeft, Steps
  <2> QED BY <2>2, <2>3
<1>4. Placed' /\ ClaimsFresh' /\ NothingDropped'
  BY <1>1 DEF EventSide, IInv, Placed, ClaimsFresh, NothingDropped, DeliveryTypeOK
<1>5. StatusShown' /\ Witnessed' /\ Ready' /\ OutcomeIsTrue'
  BY <1>1, <1>2 DEF order, IInv, StatusShown, Witnessed, Ready, OutcomeIsTrue, DeliveryTypeOK
<1> QED BY <1>3, <1>4, <1>5 DEF IInv

(* One more attempt, or none is left. *)
LEMMA AgainStep ==
  ASSUME IInv, NEW e \in Events, Again(e), work[e].at \in Steps \cup {"ack"},
         UNCHANGED <<order, event, message, claimed>>, EventSide
  PROVE  IInv'
<1>1. PICK at \in {"load", "giveUp"}, n \in 0..Attempts :
        /\ at = "load" => n < Attempts
        /\ work' = [work EXCEPT ![e] = [at |-> at, attempt |-> n, error |-> "none"]]
  <2>1. work[e].attempt \in 0..Attempts /\ work[e].attempt < Attempts
    BY DEF IInv, AttemptsLeft, DeliveryTypeOK
  <2>2. work[e].attempt + 1 \in 0..Attempts
    BY <2>1, BoundsAssumption
  <2> QED BY <2>2 DEF Again
<1> DEFINE w == [at |-> at, attempt |-> n, error |-> "none"]
<1>2. w \in Work /\ w.at = at /\ w.attempt = n
  BY <1>1 DEF Work, Steps, Errors
<1>3. work' = [work EXCEPT ![e] = w]
  BY <1>1
<1> HIDE DEF w
<1> QED BY <1>1, <1>2, <1>3, ProceedStep DEF Steps

(* The message is acknowledged; on a closed channel the attempt is over.   *)
LEMMA AckStep == ASSUME IInv, NEW e \in Events, Ack(e) PROVE IInv'
<1>1. work[e].at = "ack" /\ event[e].processed
  BY DEF Ack, Doing, IInv, Ready
<1>2. UNCHANGED <<order, event, claimed>> /\ EventSide
  BY DEF Ack
<1>3. CASE attached
  <2>1. Leave(e, "acked")
    BY <1>3 DEF Ack
  <2>2. event \in [Events -> EventDoc]
    BY DEF IInv, DeliveryTypeOK, EventDoc
  <2> QED BY <1>1, <1>2, <2>1, <2>2, LeaveStep DEF IInv, OutcomeIsTrue
<1>4. CASE ~attached
  <2>1. Again(e) /\ UNCHANGED message
    BY <1>4 DEF Ack
  <2> QED BY <1>1, <1>2, <2>1, AgainStep
<1> QED BY <1>3, <1>4

(* A message is given up.                                                  *)
LEMMA GiveUpStep == ASSUME IInv, NEW e \in Events, NEW marked \in BOOLEAN, GiveUp(e, marked) PROVE IInv'
<1>1. UNCHANGED <<order, claimed>> /\ EventSide /\ event \in [Events -> EventDoc]
  BY DEF GiveUp, IInv, DeliveryTypeOK, EventDoc
<1>2. /\ work[e].at = "giveUp" /\ Leave(e, "dead")
      /\ event' = IF marked THEN [event EXCEPT ![e].processed = TRUE, ![e].error = "max retries"] ELSE event
  BY DEF GiveUp, Doing
<1>3. /\ event' \in [Events -> EventDoc] /\ event'[e].report = event[e].report
      /\ \A f \in Events \ {e} : event'[f] = event[f]
      /\ event[e].processed => event'[e].processed
      /\ event'[e] = event[e] \/ event'[e].error = "max retries"
  BY <1>1, <1>2 DEF EventDoc, Errors
<1>4. event'[e].processed /\ event'[e].error = "none" => event[e].report \in shown
  BY <1>3 DEF IInv, OutcomeIsTrue
<1> QED BY <1>1, <1>2, <1>3, <1>4, LeaveStep

(* An attempt is over. *)
LEMMA AttemptFailsStep == ASSUME IInv, NEW e \in Events, AttemptFails(e) PROVE IInv'
BY AgainStep DEF AttemptFails

(* The channel closes: the queue has what the consumer held. *)
LEMMA ConnectionLostStep == ASSUME IInv, ConnectionLost PROVE IInv'
<1>1. /\ attached /\ attached' = FALSE
      /\ message' = [e \in Events |-> IF message[e] = "held" THEN "queued" ELSE message[e]]
      /\ UNCHANGED <<order, maker, canceller, event, claimed, work, crashes>>
  BY DEF ConnectionLost
<1>2. DeliveryTypeOK' /\ AttemptsLeft'
  BY <1>1 DEF order, IInv, DeliveryTypeOK, AttemptsLeft
<1>3. Placed' /\ ClaimsFresh' /\ NothingDropped'
  BY <1>1 DEF IInv, Placed, ClaimsFresh, NothingDropped, DeliveryTypeOK
<1>4. StatusShown' /\ Witnessed' /\ Ready' /\ OutcomeIsTrue'
  BY <1>1 DEF order, IInv, StatusShown, Witnessed, Ready, OutcomeIsTrue
<1> QED BY <1>2, <1>3, <1>4 DEF IInv

(* The server restarts: what it held is queued again. *)
LEMMA CrashStep == ASSUME IInv, NEW reached \in BOOLEAN, Crash(reached) PROVE IInv'
<1>1. crashes' # 0 /\ crashes' \in 0..MaxCrashes
  BY BoundsAssumption DEF Crash, IInv, DeliveryTypeOK
<1>2. work' = [e \in Events |-> AtRest]
  BY DEF Crash
<1>3. DeliveryTypeOK' /\ AttemptsLeft'
  BY <1>1, <1>2, Records DEF Crash, order, IInv, DeliveryTypeOK, AttemptsLeft, Work, Steps
<1>4. Placed'
  BY <1>2, Records DEF Crash, IInv, Placed, DeliveryTypeOK
<1>5. ClaimsFresh' /\ NothingDropped'
  BY <1>1 DEF ClaimsFresh, NothingDropped
<1>6. StatusShown' /\ Witnessed' /\ Ready' /\ OutcomeIsTrue'
  BY <1>2, Records DEF Crash, order, IInv, StatusShown, Witnessed, Ready, OutcomeIsTrue
<1> QED BY <1>3, <1>4, <1>5, <1>6 DEF IInv

-----------------------------------------------------------------------------
(* Every step keeps the invariant. *)
LEMMA StepIInv == IInv /\ [DeliveryNext]_deliveryVars => IInv'
<1> SUFFICES ASSUME IInv, [DeliveryNext]_deliveryVars PROVE IInv'
  OBVIOUS
<1>1. CASE UNCHANGED deliveryVars
  BY <1>1 DEF deliveryVars, IInv, DeliveryTypeOK, Placed, AttemptsLeft, ClaimsFresh, StatusShown,
              Witnessed, Ready, NothingDropped, OutcomeIsTrue
<1>2. CASE Making \/ Cancelling \/ ConnectionLost \/ \E reached \in BOOLEAN : Crash(reached)
  BY <1>2, MakingStep, CancellingStep, ConnectionLostStep, CrashStep
<1>3. ASSUME NEW e \in Events,
             (\E report \in Reports \cup {Missing} : IngestPorter(e, report)) \/ (\E where \in {"queued", "skipped"} : Publish(e, where))
      PROVE IInv'
  BY <1>3, IngestStep, PublishStep
<1>4. ASSUME NEW e \in Events, Consume(e) \/ AttemptFails(e) PROVE IInv'
  BY <1>4, DeliverStep, ClaimStep, LoadEventStep, LoadConsignmentStep, SaveConsignmentStep,
     AppendHistoryStep, SaveEventStep, AckStep, GiveUpStep, AttemptFailsStep DEF Consume
<1> QED BY <1>1, <1>2, <1>3, <1>4 DEF DeliveryNext

(* The invariant that carries the others.                                  *)
THEOREM Inductive == DeliverySpec => []IInv
<1> QED BY InitIInv, StepIInv, PTL DEF DeliverySpec

(* The documents, the queue and the consumer keep their types, and no      *)
(* message has more than its attempts.                                     *)
THEOREM TypeCorrect == DeliverySpec => []DeliveryTypeOK
<1>1. IInv => DeliveryTypeOK
  BY DEF IInv
<1> QED BY <1>1, Inductive, PTL

(* Without a restart an acknowledged webhook has been processed: neither   *)
(* the claim in Redis nor the attempts lose one.                           *)
THEOREM NoneDropped == DeliverySpec => []NothingDropped
<1>1. IInv => NothingDropped
  BY DEF IInv
<1> QED BY <1>1, Inductive, PTL

(* A webhook processed without an error reported a status the order had,   *)
(* however creation, cancelling, other webhooks and restarts interleave.   *)
THEOREM OutcomesAreTrue == DeliverySpec => []OutcomeIsTrue
<1>1. IInv => OutcomeIsTrue
  BY DEF IInv
<1> QED BY <1>1, Inductive, PTL
=============================================================================
