------------------------------ MODULE Journey ------------------------------
(* One cash-on-delivery order from confirmation to the door: the           *)
(* customer's Order, the RiderV2Order ("trip") of the rider app, and the   *)
(* propagation of the one to the other.  Every handler loads a document,   *)
(* checks its copy and later saves the fields it changed, absolutely and   *)
(* without a version check ($push on a timeline only bumps the version).   *)
(* Timelines are the sets of stages they show; the trip's starts at the    *)
(* darkstore and leaves out what took the trip back.                       *)
EXTENDS Naturals, Sequences

CONSTANTS Riders, NoRider, Asked,
          Calls,  \* requests of riders under way
          Updates \* updates of the customer's order under way

ASSUME RidersAssumption == NoRider \notin Riders

VARIABLES order,  \* [status, pay, timeline]
          trip,   \* [status, rider, accepted, timeline]
          drops,  \* Rider.stats.totalDeliveries
          missing,\* the riders found to have no Rider document when they delivered
          call,   \* where each rider's request is and what it has loaded
          update, \* where each update is and the statuses it has to write
          byHand, \* has PUT /orders/:id/update-status been used?
          met     \* has an update run into another one, or failed?

vars == <<order, trip, drops, missing, call, update, byHand, met>>

CUSTOMER_STATUS_CHAIN ==
  <<"pending", "confirmed", "getting-packed", "on-the-way", "arrived", "delivered">>
Stages == {"pending", "confirmed", "getting-packed", "on-the-way", "arrived", "delivered"}
Statuses == Stages \cup {"cancelled"}
Ended == order.status \in {"delivered", "cancelled"}

NextStage(s) == CASE s = "pending" -> "confirmed"
                  [] s = "confirmed" -> "getting-packed"
                  [] s = "getting-packed" -> "on-the-way"
                  [] s = "on-the-way" -> "arrived"
                  [] OTHER -> "delivered"
VALID_TRANSITIONS(s) == IF s \in {"delivered", "cancelled"} THEN {} ELSE {NextStage(s), "cancelled"}

RiderStatusEarly(s) == CASE s = "picked" -> "on-the-way"
                         [] s \in {"out_for_delivery", "arrived_at_customer"} -> "arrived"
                         [] OTHER -> "delivered"
RIDER_TO_CUSTOMER_STATUS(s) == CASE s \in {"picked", "out_for_delivery"} -> "on-the-way"
                                 [] s = "arrived_at_customer" -> "arrived"
                                 [] OTHER -> "delivered"

Quiet == [at |-> "idle", path |-> <<>>]
Waiting == [at |-> "idle", rider |-> NoRider, to |-> "assigned", drops |-> 0]

Init == /\ order = [status |-> "pending", pay |-> "cod_pending", timeline |-> {"pending"}]
        /\ trip = [status |-> "none", rider |-> NoRider, accepted |-> FALSE, timeline |-> {}]
        /\ drops = [r \in Riders |-> 0] /\ missing = {}
        /\ call = [c \in Calls |-> Waiting]
        /\ update = [u \in Updates |-> Quiet]
        /\ byHand = FALSE /\ met = FALSE

-----------------------------------------------------------------------------
(* updateCustomerOrderStatus: load and check against the table, save.      *)
Begin(u, label, path) == /\ update[u].at = "idle"
                         /\ update' = [update EXCEPT ![u] = [at |-> label, path |-> path]]
Stop(u) == update' = [update EXCEPT ![u] = Quiet]
Others(u) == \E v \in Updates \ {u} : update[v].at # "idle"
Unmoved == UNCHANGED <<trip, drops, missing, call, byHand>>

LoadUnchecked(u) ==
  /\ update[u].at = "load" /\ update' = [update EXCEPT ![u].at = "save"]
  /\ UNCHANGED <<order, met>> /\ Unmoved
LoadOrder(u) ==
  /\ update[u].at = "load"
  /\ IF Head(update[u].path) \in VALID_TRANSITIONS(order.status)
     THEN update' = [update EXCEPT ![u].at = "save"] ELSE Stop(u)
  /\ UNCHANGED <<order, met>> /\ Unmoved

ShownPaidAtDoor(s) == [status |-> s, timeline |-> order.timeline \cup {s},
                       pay |-> IF s = "arrived" THEN "paid" ELSE order.pay]
Shown(s) == [status |-> s, timeline |-> order.timeline \cup {s},
             pay |-> IF s = "delivered" THEN "paid" ELSE order.pay]
SaveOrder(u) ==
  /\ update[u].at = "save"
  /\ order' = Shown(Head(update[u].path))
  /\ IF Len(update[u].path) = 1 THEN Stop(u)
     ELSE update' = [update EXCEPT ![u] = [at |-> "load", path |-> Tail(@.path)]]
  /\ met' = (met \/ Others(u)) /\ Unmoved

(* propagateRiderStatusToCustomer: the part of the chain still ahead of    *)
(* the order, found once, then written one status at a time.               *)
Position(s) == CHOOSE n \in 1..Len(CUSTOMER_STATUS_CHAIN) : CUSTOMER_STATUS_CHAIN[n] = s
AheadShort(from, to) == SubSeq(CUSTOMER_STATUS_CHAIN, Position(from) + 1, Position(to) - 1)
Ahead(from, to) == SubSeq(CUSTOMER_STATUS_CHAIN, Position(from) + 1, Position(to))
ReadOrder(u) ==
  /\ update[u].at = "read"
  /\ LET path == Ahead(order.status, Head(update[u].path))
     IN IF Ended \/ path = <<>> THEN Stop(u)
        ELSE update' = [update EXCEPT ![u] = [at |-> "load", path |-> path]]
  /\ UNCHANGED <<order, met>> /\ Unmoved

(* What a darkstore status maps to is written in one step of the chain;    *)
(* so is what PUT /orders/:id/update-status asks for.                      *)
DarkstorePropagates(u, s) ==
  /\ s \in {"confirmed", "getting-packed", "cancelled"}
  /\ Begin(u, "load", <<s>>) /\ UNCHANGED <<order, met>> /\ Unmoved
UpdateStatus(u, s) ==
  /\ s \in Asked /\ Begin(u, "load", <<s>>) /\ byHand' = TRUE
  /\ UNCHANGED <<order, met, trip, drops, missing, call>>

(* executeCancellation: canCustomerCancel looks at the status, the save    *)
(* comes later and does not look again.  A cash order gets no refund.      *)
CancelCheck(u) ==
  /\ order.status \in {"pending", "confirmed"}
  /\ Begin(u, "cancel", <<"cancelled">>) /\ UNCHANGED <<order, met>> /\ Unmoved
CancelSave(u) ==
  /\ update[u].at = "cancel"
  /\ order' = Shown("cancelled")
  /\ Stop(u) /\ met' = (met \/ Others(u)) /\ Unmoved

(* The process restarts or the database refuses. *)
UpdateFails(u) ==
  update[u].at # "idle" /\ Stop(u) /\ met' = TRUE /\ UNCHANGED order /\ Unmoved

-----------------------------------------------------------------------------
(* The dispatcher's assignOrder hands the trip to a rider, whatever its    *)
(* status was, and later confirms an order it then finds pending.          *)
Assign(u, r) ==
  /\ trip' = [trip EXCEPT !.status = "assigned", !.rider = r, !.accepted = FALSE]
  /\ Begin(u, "link", <<"confirmed">>)
  /\ UNCHANGED <<order, drops, missing, call, byHand, met>>
LinkOrder(u) ==
  /\ update[u].at = "link"
  /\ IF order.status = "pending" THEN update' = [update EXCEPT ![u].at = "load"] ELSE Stop(u)
  /\ UNCHANGED <<order, met>> /\ Unmoved

(* A rider's request loads the trip it is assigned to.                     *)
LoadTrip(c, r, label, to) ==
  /\ call[c].at = "idle" /\ trip.rider = r
  /\ call' = [call EXCEPT ![c] = [Waiting EXCEPT !.at = label, !.rider = r, !.to = to]]
  /\ UNCHANGED <<order, trip, drops, missing, update, byHand, met>>
Answer(c) == call' = [call EXCEPT ![c] = Waiting]
Written(c) == /\ Answer(c) /\ UNCHANGED <<order, drops, missing, update, byHand, met>>

AcceptOrder(c, r) == trip.status = "assigned" /\ LoadTrip(c, r, "accept", "assigned")
RejectOrder(c, r) == LoadTrip(c, r, "reject", "confirmed")
MarkArrivedAtDarkstore(c, r) ==
  trip.status = "assigned" /\ trip.accepted /\ LoadTrip(c, r, "status", "arrived_at_darkstore")
MarkPicked(c, r) == trip.status = "arrived_at_darkstore" /\ LoadTrip(c, r, "status", "picked")
MarkArrivedAtCustomer(c, r) == trip.status = "picked" /\ LoadTrip(c, r, "status", "arrived_at_customer")
MarkOutForDelivery(c, r) == trip.status = "picked" /\ LoadTrip(c, r, "status", "out_for_delivery")
DeliveredUnbooked(c, r) ==
  trip.status \in {"arrived_at_customer", "out_for_delivery"} /\ LoadTrip(c, r, "status", "delivered")
MarkDelivered(c, r) == /\ trip.status \in {"arrived_at_customer", "out_for_delivery"}
                       /\ LoadTrip(c, r, "loadRider", "delivered")

(* acceptOrder writes the whole riderAssignment, rejectOrder removes it.   *)
SaveAccept(c) == /\ call[c].at = "accept"
                 /\ trip' = [trip EXCEPT !.rider = call[c].rider, !.accepted = TRUE]
                 /\ Written(c)
SaveRejected(c) ==
  /\ call[c].at = "reject" /\ trip' = [trip EXCEPT !.rider = NoRider, !.status = "rejected"]
  /\ Written(c)
SaveReject(c) == /\ call[c].at = "reject"
                 /\ trip' = [trip EXCEPT !.rider = NoRider, !.accepted = FALSE, !.status = "confirmed"]
                 /\ Written(c)
(* markOrderDelivered loads the rider, books the delivery on it, saves the *)
(* rider, then the trip; without a document of the rider, the trip only.   *)
LoadRider(c) == /\ call[c].at = "loadRider"
                /\ call' = [call EXCEPT ![c].at = "saveRider", ![c].drops = drops[call[c].rider]]
                /\ UNCHANGED <<order, trip, drops, missing, update, byHand, met>>
NoRiderFound(c) == /\ call[c].at = "loadRider"
                   /\ missing' = missing \cup {call[c].rider}
                   /\ call' = [call EXCEPT ![c].at = "status"]
                   /\ UNCHANGED <<order, trip, drops, update, byHand, met>>
SaveRider(c) == /\ call[c].at = "saveRider"
                /\ drops' = [drops EXCEPT ![call[c].rider] = call[c].drops + 1]
                /\ call' = [call EXCEPT ![c].at = "status"]
                /\ UNCHANGED <<order, trip, missing, update, byHand, met>>
SaveTrip(c, u) ==
  /\ call[c].at = "status"
  /\ trip' = [trip EXCEPT !.status = call[c].to, !.timeline = @ \cup {call[c].to}]
  /\ IF call[c].to = "arrived_at_darkstore" THEN UNCHANGED update
     ELSE Begin(u, "read", <<RIDER_TO_CUSTOMER_STATUS(call[c].to)>>)
  /\ Answer(c) /\ UNCHANGED <<order, drops, missing, byHand, met>>

ClearOpenOrders(r) ==
  /\ trip.rider = r /\ trip.status \notin {"delivered", "cancelled"}
  /\ trip' = [trip EXCEPT !.status = "cancelled", !.rider = NoRider, !.accepted = FALSE]
  /\ UNCHANGED <<order, drops, missing, call, update, byHand, met>>
CallFails(c) == /\ call[c].at # "idle" /\ Answer(c)
                /\ UNCHANGED <<order, trip, drops, missing, update, byHand, met>>

-----------------------------------------------------------------------------
Propagation(u) == LinkOrder(u) \/ ReadOrder(u) \/ LoadOrder(u) \/ SaveOrder(u) \/ CancelSave(u)
RiderRequest(c, r) ==
  \/ AcceptOrder(c, r) \/ RejectOrder(c, r) \/ MarkArrivedAtDarkstore(c, r) \/ MarkPicked(c, r)
  \/ MarkArrivedAtCustomer(c, r) \/ MarkOutForDelivery(c, r) \/ MarkDelivered(c, r)
RiderAnswer(c) == \/ SaveAccept(c) \/ SaveReject(c) \/ LoadRider(c) \/ NoRiderFound(c)
                  \/ SaveRider(c) \/ CallFails(c)
Next == \/ \E u \in Updates : \/ Propagation(u) \/ CancelCheck(u) \/ UpdateFails(u)
                              \/ \E s \in Statuses : DarkstorePropagates(u, s) \/ UpdateStatus(u, s)
                              \/ \E r \in Riders : Assign(u, r)
                              \/ \E c \in Calls : SaveTrip(c, u)
        \/ \E c \in Calls, r \in Riders : RiderRequest(c, r)
        \/ \E c \in Calls : RiderAnswer(c)
        \/ \E r \in Riders : ClearOpenOrders(r)
Spec == Init /\ [][Next]_vars

-----------------------------------------------------------------------------
TripStatuses == {"assigned", "arrived_at_darkstore", "picked", "arrived_at_customer",
                 "out_for_delivery", "delivered", "confirmed", "cancelled"}
TypeOK ==
  /\ order \in [status : Statuses, pay : {"cod_pending", "paid"}, timeline : SUBSET Statuses]
  /\ trip \in [status : TripStatuses \cup {"none"}, rider : Riders \cup {NoRider},
               accepted : BOOLEAN, timeline : SUBSET TripStatuses]
  /\ drops \in [Riders -> Nat] /\ missing \in SUBSET Riders
  /\ call \in [Calls -> [at : {"idle", "accept", "reject", "loadRider", "saveRider", "status"},
                        rider : Riders \cup {NoRider}, to : TripStatuses, drops : Nat]]
  /\ update \in [Updates -> [at : {"idle", "link", "read", "load", "save", "cancel"}, path : Seq(Statuses)]]
  /\ byHand \in BOOLEAN /\ met \in BOOLEAN

(* However the updates of darkstore, rider, admin and customer interleave, *)
(* the customer is never shown a stage without the one before it.          *)
NoStageSkipped ==
  \A s \in Stages \ {"delivered"} : NextStage(s) \in order.timeline => s \in order.timeline

(* "COD is collected at handover": a cash order is paid when it has been   *)
(* shown as delivered, and only then, whatever is written over it later.   *)
PaidExactlyOnDelivery == order.pay = "paid" <=> "delivered" \in order.timeline

(* Unless an admin sets it by hand, what the customer is told of the way   *)
(* has happened on a trip, though it is told late and from old copies.     *)
CustomerSeesWhatHappened ==
  ~byHand =>
    /\ "on-the-way" \in order.timeline => "picked" \in trip.timeline
    /\ "arrived" \in order.timeline => trip.timeline \cap {"arrived_at_customer", "delivered"} # {}
    /\ "delivered" \in order.timeline => "delivered" \in trip.timeline

(* A trip says delivered only after the delivery is booked on a rider,     *)
(* since markOrderDelivered saves the rider first; a trip whose rider has  *)
(* no document is delivered unbooked.                                      *)
DeliveryIsBooked ==
  "delivered" \in trip.timeline => \E r \in Riders : drops[r] > 0 \/ r \in missing

(* Once a delivered trip's updates have run, none of them into another or  *)
(* a failure, the customer's order has ended too, whatever its status was. *)
DeliveryReachesCustomer ==
  "delivered" \in trip.timeline /\ ~met /\ (\A u \in Updates : update[u].at = "idle") => Ended
=============================================================================
