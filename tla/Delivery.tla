------------------------------ MODULE Delivery ------------------------------
(* One LogisticsOrder given to an outside provider (Porter): its creation, *)
(* its cancelling through the API, and the provider's webhooks, which the  *)
(* server stores as WebhookEvents, queues on RabbitMQ and consumes, at     *)
(* most Prefetch at a time, behind a claim in Redis, with three attempts   *)
(* and a dead-letter queue.  RabbitMQ delivers again what a crashed or     *)
(* disconnected consumer did not acknowledge, but the server attaches its  *)
(* consumer only when it starts.                                           *)
EXTENDS Naturals, FiniteSets

CONSTANTS Events,     \* the webhooks
          Reports,    \* the statuses they may report, after mapStatus
          Replies,    \* the statuses a provider may answer a new order with
          Prefetch,   \* channel.prefetch(5)
          Attempts,   \* attempts at a message, 3
          MaxCrashes  \* bound on restarts

ASSUME BoundsAssumption == Prefetch \in Nat \ {0} /\ Attempts \in Nat \ {0} /\ MaxCrashes \in Nat

VARIABLES consignment, \* LogisticsOrder: [status, known], known: has providerOrderId
          shown,       \* the statuses it has had
          maker,       \* where createOrder is
          canceller,   \* where cancelOrder is
          event,       \* WebhookEvent: [report, processed, error]
          message,     \* where the event's message is
          claimed,     \* the eventIds claimed in Redis
          work,        \* the consumer's work on a message: [at, attempt, error]
          attached,    \* the consumer is on an open channel
          crashes

deliveryVars == <<consignment, shown, maker, canceller, event, message, claimed, work,
                  attached, crashes>>
order == <<consignment, shown>>

ALLOWED(s) == CASE s = "CREATED" -> {"DRIVER_ASSIGNED", "CANCELLED", "FAILED"}
                [] s = "DRIVER_ASSIGNED" -> {"PICKED_UP", "CANCELLED", "FAILED"}
                [] s = "PICKED_UP" -> {"IN_TRANSIT", "FAILED"}
                [] s = "IN_TRANSIT" -> {"DELIVERED", "FAILED"}
                [] OTHER -> {}
canTransition(from, to) == to \in ALLOWED(from)
ConsignmentStatuses == {"CREATED", "DRIVER_ASSIGNED", "PICKED_UP", "IN_TRANSIT",
                        "DELIVERED", "CANCELLED", "FAILED"}
ASSUME ReportsAssumption == Reports \subseteq ConsignmentStatuses /\ Replies \subseteq ConsignmentStatuses
Missing == "missing" \* in place of a status: the payload has no order id or no status

AtRest == [at |-> "none", attempt |-> 0, error |-> "none"]

DeliveryInit ==
  /\ consignment = [status |-> "none", known |-> FALSE]
  /\ shown = {} /\ maker = "new" /\ canceller = "idle"
  /\ event = [e \in Events |-> [report |-> "none", processed |-> FALSE, error |-> "none"]]
  /\ message = [e \in Events |-> "none"]
  /\ claimed = {} /\ crashes = 0 /\ attached \in BOOLEAN
  /\ work = [e \in Events |-> AtRest]

SetStatusTo(s) == consignment' = [consignment EXCEPT !.status = s] /\ shown' = shown \cup {s}
OrderSide == UNCHANGED <<event, message, claimed, work, attached, crashes>>
EventSide == UNCHANGED <<maker, canceller, attached, crashes>>

-----------------------------------------------------------------------------
(* createOrder: the order, the providers in turn, the answer; then the row *)
(* of the provider, the history and the published events, which are only   *)
(* steps that may fail here.                                               *)
CreateConsignment ==
  maker = "new" /\ maker' = "calling" /\ SetStatusTo("CREATED") /\ UNCHANGED canceller /\ OrderSide
(* The history of a new order is outside the try block. *)
FirstHistoryFails == maker = "calling" /\ maker' = "done" /\ UNCHANGED <<order, canceller>> /\ OrderSide
ProviderAccepts == maker = "calling" /\ maker' = "saving" /\ UNCHANGED <<order, canceller>> /\ OrderSide
(* The provider's answer is taken as it comes; save() writes a status only *)
(* if it is not the one of the document, CREATED.                          *)
SaveRawAnswer(s) ==
  /\ maker = "saving" /\ maker' = "saved" /\ consignment' = [status |-> "open", known |-> TRUE]
  /\ UNCHANGED <<shown, canceller>> /\ OrderSide
SaveAnswer(s) ==
  /\ maker = "saving" /\ maker' = IF s = "FAILED" THEN "savedFailed" ELSE "saved"
  /\ consignment' = [known |-> TRUE, status |-> IF s = "CREATED" THEN consignment.status ELSE s]
  /\ shown' = shown \cup {s} /\ UNCHANGED canceller /\ OrderSide
BookAndTell == /\ maker \in {"saved", "savedFailed"} /\ maker' = "done"
               /\ UNCHANGED <<order, canceller>> /\ OrderSide
(* All providers refuse, or a step of the try block fails: the document is *)
(* saved with FAILED, which is nothing new to it if that was the answer,   *)
(* and with the providerOrderId it may hold; or that save fails as well.   *)
CreateFails ==
  /\ maker \notin {"new", "done"}
  /\ maker' = CASE maker = "calling" -> "refused"
                [] maker \in {"saving", "saved"} -> "failing"
                [] OTHER -> "done"
  /\ UNCHANGED <<order, canceller>> /\ OrderSide
SaveFailed == /\ maker \in {"refused", "failing"} /\ maker' = "done"
              /\ consignment' = [status |-> "FAILED", known |-> consignment.known \/ maker = "failing"]
              /\ shown' = shown \cup {"FAILED"} /\ UNCHANGED canceller /\ OrderSide

(* cancelOrder looks at the status, calls the provider and then writes     *)
(* CANCELLED whatever the status has become; the provider may refuse.      *)
CancelRequest == /\ canceller = "idle" /\ canTransition(consignment.status, "CANCELLED")
                 /\ canceller' = "calling" /\ UNCHANGED <<order, maker>> /\ OrderSide
CancelRefused == canceller = "calling" /\ canceller' = "idle" /\ UNCHANGED <<order, maker>> /\ OrderSide
CancelWrite == /\ canceller = "calling" /\ canceller' = "idle" /\ SetStatusTo("CANCELLED")
               /\ UNCHANGED maker /\ OrderSide

-----------------------------------------------------------------------------
(* ingestPorter stores the event, which may come before the answer to the *)
(* order does, and publishes it, unless RabbitMQ is off.                   *)
IngestPorter(e, report) ==
  /\ maker # "new" /\ event[e].report = "none"
  /\ event' = [event EXCEPT ![e].report = report]
  /\ message' = [message EXCEPT ![e] = "unsent"]
  /\ UNCHANGED <<order, claimed, work>> /\ EventSide
Publish(e, where) ==
  /\ message[e] = "unsent" /\ where \in {"queued", "skipped"}
  /\ message' = [message EXCEPT ![e] = where]
  /\ UNCHANGED <<order, event, claimed, work>> /\ EventSide

(* The consumer: claim, load the event, apply it, store the outcome, ack.  *)
Held == {e \in Events : message[e] = "held"}
Deliver(e) == /\ attached /\ message[e] = "queued" /\ Cardinality(Held) < Prefetch
              /\ message' = [message EXCEPT ![e] = "held"]
              /\ work' = [work EXCEPT ![e] = [AtRest EXCEPT !.at = "claim"]]
              /\ UNCHANGED <<order, event, claimed>> /\ EventSide
Doing(e, label) == work[e].at = label
Proceed(e, label) == work' = [work EXCEPT ![e].at = label] /\ UNCHANGED message
(* On a closed channel ack and nack throw: outside the try block that ends *)
(* the work, and the message is the broker's.                              *)
Leave(e, where) == /\ work' = [work EXCEPT ![e] = AtRest]
                   /\ message' = IF attached THEN [message EXCEPT ![e] = where] ELSE message

(* claimEventOnce: SET NX; without Redis every message counts as first.    *)
Claim(e) == /\ Doing(e, "claim")
            /\ IF e \in claimed THEN Leave(e, "acked") /\ UNCHANGED claimed
               ELSE Proceed(e, "load") /\ claimed' = claimed \cup {e}
            /\ UNCHANGED <<order, event>> /\ EventSide
ClaimWithoutRedis(e) == /\ Doing(e, "claim") /\ Proceed(e, "load")
                        /\ UNCHANGED <<order, event, claimed>> /\ EventSide
LoadEvent(e) ==
  LET unreadable == ~event[e].processed /\ event[e].report = Missing
      next == IF event[e].processed THEN "ack" ELSE IF unreadable THEN "outcome" ELSE "apply"
  IN /\ Doing(e, "load")
     /\ work' = [work EXCEPT ![e].at = next, ![e].error = IF unreadable THEN Missing ELSE "none"]
     /\ UNCHANGED <<order, event, message, claimed>> /\ EventSide

(* applyWebhookStatusUpdate: load the order, check, save, append.          *)
OutcomeAlwaysNone(report) == IF ~consignment.known THEN "unknown order" ELSE "none"
Outcome(report) == IF ~consignment.known THEN "unknown order"
                   ELSE IF consignment.status = report THEN "none"
                   ELSE IF ~canTransition(consignment.status, report) THEN "illegal transition"
                   ELSE "none"
LoadConsignment(e) ==
  LET report == event[e].report
      legal == consignment.known /\ canTransition(consignment.status, report)
  IN /\ Doing(e, "apply")
     /\ work' = [work EXCEPT ![e].at = IF legal THEN "save" ELSE "outcome",
                             ![e].error = Outcome(report)]
     /\ UNCHANGED <<order, event, message, claimed>> /\ EventSide
SaveConsignment(e) == /\ Doing(e, "save") /\ SetStatusTo(event[e].report) /\ Proceed(e, "append")
                      /\ UNCHANGED <<event, claimed>> /\ EventSide
AppendHistory(e) == /\ Doing(e, "append") /\ Proceed(e, "outcome")
                    /\ UNCHANGED <<order, event, claimed>> /\ EventSide
SaveEvent(e) == /\ Doing(e, "outcome") /\ Proceed(e, "ack")
                /\ event' = [event EXCEPT ![e].processed = TRUE, ![e].error = work[e].error]
                /\ UNCHANGED <<order, claimed>> /\ EventSide

(* The database refuses, or the channel is closed at the ack: the attempt  *)
(* is over, and after the last of them the event is marked, if that works, *)
(* and the message dead-lettered.                                          *)
Steps == {"load", "apply", "save", "append", "outcome"}
Again(e) ==
  LET n == work[e].attempt + 1
  IN work' = [work EXCEPT ![e] = [at |-> IF n < Attempts THEN "load" ELSE "giveUp",
                                  attempt |-> n, error |-> "none"]]
Ack(e) == /\ Doing(e, "ack")
          /\ IF attached THEN Leave(e, "acked") ELSE Again(e) /\ UNCHANGED message
          /\ UNCHANGED <<order, event, claimed>> /\ EventSide
AttemptClaimsAgain(e) ==
  /\ work[e].at \in Steps
  /\ LET n == work[e].attempt + 1
     IN work' = [work EXCEPT ![e] = [at |-> IF n < Attempts THEN "claim" ELSE "giveUp",
                                     attempt |-> n, error |-> "none"]]
  /\ UNCHANGED <<order, event, message, claimed>> /\ EventSide
AttemptForever(e) ==
  /\ work[e].at \in Steps /\ work' = [work EXCEPT ![e] = [AtRest EXCEPT !.at = "load"]]
  /\ UNCHANGED <<order, event, message, claimed>> /\ EventSide
AttemptFails(e) ==
  /\ work[e].at \in Steps /\ Again(e)
  /\ UNCHANGED <<order, event, message, claimed>> /\ EventSide
GiveUp(e, marked) ==
  /\ Doing(e, "giveUp") /\ Leave(e, "dead")
  /\ event' = IF marked THEN [event EXCEPT ![e].processed = TRUE, ![e].error = "max retries"] ELSE event
  /\ UNCHANGED <<order, claimed>> /\ EventSide

(* The channel closes.  The work goes on, RabbitMQ queues what was held,   *)
(* and nothing attaches a consumer again: startConsumers runs at the start *)
(* only, and a health check opens a channel without one.                   *)
ConnectionLost ==
  /\ attached /\ attached' = FALSE
  /\ message' = [e \in Events |-> IF message[e] = "held" THEN "queued" ELSE message[e]]
  /\ UNCHANGED <<order, maker, canceller, event, claimed, work, crashes>>

(* The server restarts: what was held is queued again, calls are gone, and *)
(* the consumer attaches if RabbitMQ can be reached by then.               *)
Crash(reached) ==
  /\ crashes < MaxCrashes /\ crashes' = crashes + 1 /\ attached' = reached
  /\ message' = [e \in Events |-> IF message[e] = "held" THEN "queued"
                                  ELSE IF message[e] = "unsent" THEN "skipped" ELSE message[e]]
  /\ work' = [e \in Events |-> AtRest]
  /\ maker' = IF maker = "new" THEN maker ELSE "done"
  /\ canceller' = "idle"
  /\ UNCHANGED <<order, event, claimed>>

-----------------------------------------------------------------------------
Making == \/ CreateConsignment \/ FirstHistoryFails \/ ProviderAccepts \/ BookAndTell \/ CreateFails \/ SaveFailed
          \/ \E s \in Replies : SaveAnswer(s)
Cancelling == CancelRequest \/ CancelRefused \/ CancelWrite
Consume(e) == \/ Deliver(e) \/ Claim(e) \/ ClaimWithoutRedis(e) \/ LoadEvent(e) \/ LoadConsignment(e)
              \/ SaveConsignment(e) \/ AppendHistory(e) \/ SaveEvent(e) \/ Ack(e)
              \/ \E marked \in BOOLEAN : GiveUp(e, marked)
DeliveryNext == \/ Making \/ Cancelling \/ ConnectionLost \/ \E reached \in BOOLEAN : Crash(reached)
                \/ \E e \in Events : \/ \E report \in Reports \cup {Missing} : IngestPorter(e, report)
                                     \/ \E where \in {"queued", "skipped"} : Publish(e, where)
                                     \/ Consume(e) \/ AttemptFails(e)
DeliveryFairness == \A e \in Events : WF_deliveryVars(Consume(e))
DeliverySpec == DeliveryInit /\ [][DeliveryNext]_deliveryVars /\ DeliveryFairness

-----------------------------------------------------------------------------
Errors == {"none", "unknown order", "illegal transition", "max retries", Missing}
DeliveryTypeOK ==
  /\ consignment \in [status : ConsignmentStatuses \cup {"none"}, known : BOOLEAN]
  /\ shown \in SUBSET ConsignmentStatuses
  /\ maker \in {"new", "calling", "saving", "saved", "savedFailed", "refused", "failing", "done"}
  /\ canceller \in {"idle", "calling"}
  /\ event \in [Events -> [report : Reports \cup {"none", Missing}, processed : BOOLEAN, error : Errors]]
  /\ message \in [Events -> {"none", "unsent", "queued", "held", "acked", "dead", "skipped"}]
  /\ claimed \in SUBSET Events
  /\ work \in [Events -> [at : Steps \cup {"none", "claim", "ack", "giveUp"}, attempt : 0..Attempts, error : Errors]]
  /\ attached \in BOOLEAN /\ crashes \in 0..MaxCrashes

(* Once the server keeps its consumer attached, a webhook that is queued   *)
(* is in the end acknowledged or dead-lettered, whatever fails, and        *)
(* whatever a lost connection or a restart put back on the queue.          *)
MessagesSettle ==
  <>[]attached => \A e \in Events : message[e] = "queued" ~> message[e] \in {"acked", "dead"}
(* Without a restart an acknowledged webhook has been processed: neither   *)
(* the claim nor the attempts lose one.                                    *)
NothingDropped == crashes = 0 => \A e \in Events : message[e] = "acked" => event[e].processed
(* What is processed without an error was at some time the order's status. *)
OutcomeIsTrue == \A e \in Events : event[e].processed /\ event[e].error = "none" => event[e].report \in shown
=============================================================================
