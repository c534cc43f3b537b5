--------------------------- MODULE JourneyProofs ---------------------------
(* What the customer is shown of a journey, for any number of riders, of   *)
(* requests and of updates under way.                                      *)
EXTENDS Journey, SequenceTheorems, TLAPS

Order == [status : Statuses, pay : {"cod_pending", "paid"}, timeline : SUBSET Statuses]
Trip == [status : TripStatuses \cup {"none"}, rider : Riders \cup {NoRider},
         accepted : BOOLEAN, timeline : SUBSET TripStatuses]
Request == [at : {"idle", "accept", "reject", "loadRider", "saveRider", "status"},
            rider : Riders \cup {NoRider}, to : TripStatuses, drops : Nat]
Write == [at : {"idle", "link", "read", "load", "save", "cancel"}, path : Seq(Statuses)]

(* The stages of the way, and what must have happened on a trip before     *)
(* each of them is shown.                                                  *)
OnTheWay == {"on-the-way", "arrived", "delivered"}
AtTheDoor == {"arrived_at_customer", "out_for_delivery", "delivered"}
Happened(s) ==
  /\ s = "on-the-way" => "picked" \in trip.timeline
  /\ s = "arrived" => trip.timeline \cap {"arrived_at_customer", "delivered"} # {}
  /\ s = "delivered" => "delivered" \in trip.timeline
Booked == \E r \in Riders : drops[r] > 0 \/ r \in missing

(* An update has something to write.  What it is about to save is a        *)
(* cancellation or follows a stage already shown; and all it will write    *)
(* has happened, unless an admin asked for it.                             *)
UpdateFits(x) ==
  /\ x.at # "idle" => x.path # <<>>
  /\ x.at = "save" => \/ Head(x.path) = "cancelled"
                      \/ \E s \in Stages \ {"delivered"} :
                           s \in order.timeline /\ Head(x.path) = NextStage(s)
  /\ x.at = "read" => Head(x.path) \in OnTheWay
  /\ ~byHand /\ x.at \in {"link", "read", "load", "save"} => \A n \in 1..Len(x.path) : Happened(x.path[n])

(* A rider's request to mark a trip has found it picked if it is on its    *)
(* way to the door, and has booked a delivery, or missed its rider's      *)
(* document, before it says so.                                            *)
CallFits(y) ==
  /\ y.at \in {"loadRider", "saveRider"} => y.rider \in Riders /\ y.to = "delivered"
  /\ y.at = "status" => y.to \in {"arrived_at_darkstore", "picked"} \cup AtTheDoor
  /\ y.at \in {"status", "loadRider", "saveRider"} /\ y.to \in AtTheDoor => "picked" \in trip.timeline
  /\ y.at = "status" /\ y.to = "delivered" => Booked

(* A trip on its way was picked. *)
TripOrder ==
  trip.status \in {"picked"} \cup AtTheDoor \/ trip.timeline \cap AtTheDoor # {} => "picked" \in trip.timeline

Typed == /\ order \in Order /\ trip \in Trip /\ drops \in [Riders -> Nat] /\ missing \in SUBSET Riders
         /\ call \in [Calls -> Request] /\ update \in [Updates -> Write]
         /\ byHand \in BOOLEAN /\ met \in BOOLEAN
OrderOK == /\ order.status \in order.timeline
           /\ NoStageSkipped /\ PaidExactlyOnDelivery /\ CustomerSeesWhatHappened
AllUpdatesFit == \A u \in Updates : UpdateFits(update[u])
AllCallsFit == \A c \in Calls : CallFits(call[c])
IInv == Typed /\ OrderOK /\ TripOrder /\ DeliveryIsBooked /\ AllUpdatesFit /\ AllCallsFit

-----------------------------------------------------------------------------
(* The chain of stages and their places in it. *)
LEMMA Chain ==
  /\ CUSTOMER_STATUS_CHAIN \in Seq(Stages) /\ Len(CUSTOMER_STATUS_CHAIN) = 6
  /\ CUSTOMER_STATUS_CHAIN[1] = "pending" /\ CUSTOMER_STATUS_CHAIN[2] = "confirmed"
  /\ CUSTOMER_STATUS_CHAIN[3] = "getting-packed" /\ CUSTOMER_STATUS_CHAIN[4] = "on-the-way"
  /\ CUSTOMER_STATUS_CHAIN[5] = "arrived" /\ CUSTOMER_STATUS_CHAIN[6] = "delivered"
BY DEF CUSTOMER_STATUS_CHAIN, Stages

(* A stage is found where it stands. *)
LEMMA Place ==
  ASSUME NEW s \in Stages, NEW n \in 1..6, CUSTOMER_STATUS_CHAIN[n] = s
  PROVE  Position(s) = n
<1>1. \A m \in 1..6 : CUSTOMER_STATUS_CHAIN[m] = s => m = n
  BY Chain
<1> QED BY <1>1, Chain DEF Position

(* The stages by their places. *)
LEMMA Places ==
  /\ Position("pending") = 1 /\ Position("confirmed") = 2 /\ Position("getting-packed") = 3
  /\ Position("on-the-way") = 4 /\ Position("arrived") = 5 /\ Position("delivered") = 6
BY Chain, Place DEF Stages

(* What lies ahead of a stage. *)
LEMMA WayAhead ==
  ASSUME NEW from \in Stages, NEW to \in Stages
  PROVE  /\ Ahead(from, to) \in Seq(Stages)
         /\ Len(Ahead(from, to)) = IF Position(from) < Position(to) THEN Position(to) - Position(from) ELSE 0
         /\ \A n \in 1..Len(Ahead(from, to)) :
              Ahead(from, to)[n] = CUSTOMER_STATUS_CHAIN[Position(from) + n]
<1>1. Position(from) \in 1..6 /\ Position(to) \in 1..6
  BY Places DEF Stages
<1>2. \A n \in (Position(from) + 1)..Position(to) : CUSTOMER_STATUS_CHAIN[n] \in Stages
  BY <1>1, Chain DEF Stages
<1>3. /\ Ahead(from, to) \in Seq(Stages)
      /\ Len(Ahead(from, to)) = IF Position(from) + 1 <= Position(to)
                                THEN Position(to) - (Position(from) + 1) + 1 ELSE 0
      /\ \A n \in 1..(Position(to) - (Position(from) + 1) + 1) :
           Ahead(from, to)[n] = CUSTOMER_STATUS_CHAIN[Position(from) + 1 + n - 1]
  BY <1>1, <1>2, SubSeqProperties DEF Ahead
<1>4. CASE Position(from) < Position(to)
  <2>1. Len(Ahead(from, to)) = Position(to) - Position(from)
    BY <1>1, <1>3, <1>4
  <2>2. \A n \in 1..Len(Ahead(from, to)) :
          Ahead(from, to)[n] = CUSTOMER_STATUS_CHAIN[Position(from) + n]
    <3> SUFFICES ASSUME NEW n \in 1..Len(Ahead(from, to))
                 PROVE  Ahead(from, to)[n] = CUSTOMER_STATUS_CHAIN[Position(from) + n]
      OBVIOUS
    <3>1. n \in 1..(Position(to) - (Position(from) + 1) + 1)
      BY <1>1, <2>1
    <3>2. Position(from) + 1 + n - 1 = Position(from) + n
      BY <1>1, <3>1
    <3> QED BY <1>3, <3>1, <3>2
  <2> QED BY <1>3, <1>4, <2>1, <2>2
<1>5. CASE ~(Position(from) < Position(to))
  BY <1>1, <1>3, <1>5
<1> QED BY <1>4, <1>5

(* Stages are stages of the customer, and no two have the same next one.   *)
LEMMA StagesFollow ==
  /\ \A s \in Stages : NextStage(s) \in Stages /\ NextStage(s) # "pending"
  /\ \A s, t \in Stages \ {"delivered"} : NextStage(s) = NextStage(t) => s = t
BY DEF Stages, NextStage
LEMMA StagesShown == Stages \subseteq Statuses /\ "cancelled" \notin Stages
BY DEF Stages, Statuses

(* A sequence of one status. *)
LEMMA One ==
  ASSUME NEW s \in Statuses
  PROVE  /\ <<s>> \in Seq(Statuses) /\ <<s>> # <<>> /\ Len(<<s>>) = 1
         /\ Head(<<s>>) = s /\ <<s>>[1] = s
OBVIOUS
(* The first and the others. *)
LEMMA FirstAndRest ==
  ASSUME NEW p \in Seq(Statuses), p # <<>>
  PROVE  /\ Head(p) = p[1] /\ Head(p) \in Statuses /\ Len(p) \in Nat \ {0}
         /\ Tail(p) \in Seq(Statuses) /\ Len(Tail(p)) = Len(p) - 1
         /\ \A n \in 1..Len(Tail(p)) : Tail(p)[n] = p[n + 1]
<1>1. Len(p) \in Nat /\ Len(p) # 0
  OBVIOUS
<1> QED BY <1>1, HeadTailProperties

-----------------------------------------------------------------------------
(* Records at rest. *)
LEMMA AtRest ==
  /\ Waiting \in Request /\ Waiting.at = "idle" /\ Quiet \in Write /\ Quiet.at = "idle"
<1>1. <<>> \in Seq(Statuses)
  OBVIOUS
<1> QED BY <1>1 DEF Waiting, Quiet, Request, Write, TripStatuses

(* Nothing has happened yet. *)
LEMMA InitIInv == Init => IInv
<1> SUFFICES ASSUME Init PROVE IInv
  OBVIOUS
<1>1. Typed
  BY AtRest DEF Init, Typed, Order, Trip, Statuses, Stages, TripStatuses
<1>2. AllUpdatesFit /\ AllCallsFit
  BY AtRest DEF Init, AllUpdatesFit, AllCallsFit, UpdateFits, CallFits
<1>3. OrderOK
  <2>1. order.timeline = {"pending"} /\ order.status = "pending" /\ order.pay = "cod_pending"
    BY DEF Init
  <2>2. NoStageSkipped
    BY <2>1, StagesFollow DEF NoStageSkipped
  <2> QED BY <2>1, <2>2 DEF OrderOK, PaidExactlyOnDelivery, CustomerSeesWhatHappened
<1>4. TripOrder /\ DeliveryIsBooked
  BY DEF Init, TripOrder, DeliveryIsBooked, AtTheDoor
<1> QED BY <1>1, <1>2, <1>3, <1>4 DEF IInv

(* Stages once shown, a delivery once booked and an admin's hand once used *)
(* stay so; whatever fitted still fits then.                               *)
Onwards == /\ order.timeline \subseteq order'.timeline
           /\ trip.timeline \subseteq trip'.timeline
           /\ byHand => byHand'
           /\ Booked => Booked'
LEMMA UpdateStillFits == ASSUME Onwards, NEW x, UpdateFits(x) PROVE UpdateFits(x)'
<1>1. \A s : Happened(s) => Happened(s)'
  BY DEF Onwards, Happened
<1> QED BY <1>1 DEF UpdateFits, Onwards
LEMMA CallStillFits == ASSUME Onwards, NEW y, CallFits(y) PROVE CallFits(y)'
BY DEF CallFits, Onwards

(* Writing one update leaves the promises of the others. *)
LEMMA UpdatesFit ==
  ASSUME IInv, Onwards, NEW u \in Updates, NEW x \in Write, UpdateFits(x)',
         update' = [update EXCEPT ![u] = x]
  PROVE  AllUpdatesFit' /\ update' \in [Updates -> Write]
<1>1. update' \in [Updates -> Write]
  BY DEF IInv, Typed
<1>2. ASSUME NEW v \in Updates PROVE UpdateFits(update[v])'
  <2>1. CASE v = u
    BY <2>1 DEF IInv, Typed
  <2>2. CASE v # u
    <3>1. PICK y \in Write : y = update[v]
      BY DEF IInv, Typed
    <3>2. UpdateFits(y)
      BY <3>1 DEF IInv, AllUpdatesFit
    <3>3. UpdateFits(y)'
      BY <3>2, UpdateStillFits
    <3>4. update'[v] = y
      BY <2>2, <3>1 DEF IInv, Typed
    <3> QED BY <3>3, <3>4
  <2> QED BY <2>1, <2>2
<1> QED BY <1>1, <1>2 DEF AllUpdatesFit

(* The same for a rider's request. *)
LEMMA CallsFit ==
  ASSUME IInv, Onwards, NEW c \in Calls, NEW y \in Request, CallFits(y)',
         call' = [call EXCEPT ![c] = y]
  PROVE  AllCallsFit' /\ call' \in [Calls -> Request]
<1>1. call' \in [Calls -> Request]
  BY DEF IInv, Typed
<1>2. ASSUME NEW d \in Calls PROVE CallFits(call[d])'
  <2>1. CASE d = c
    BY <2>1 DEF IInv, Typed
  <2>2. CASE d # c
    <3>1. PICK z \in Request : z = call[d]
      BY DEF IInv, Typed
    <3>2. CallFits(z)
      BY <3>1 DEF IInv, AllCallsFit
    <3>3. CallFits(z)'
      BY <3>2, CallStillFits
    <3>4. call'[d] = z
      BY <2>2, <3>1 DEF IInv, Typed
    <3> QED BY <3>3, <3>4
  <2> QED BY <2>1, <2>2
<1> QED BY <1>1, <1>2 DEF AllCallsFit

(* Updates nobody writes keep their promises. *)
LEMMA UpdatesRest ==
  ASSUME IInv, Onwards, UNCHANGED update PROVE AllUpdatesFit' /\ update' \in [Updates -> Write]
<1>1. ASSUME NEW v \in Updates PROVE UpdateFits(update[v])'
  <2>1. PICK y \in Write : y = update[v]
    BY DEF IInv, Typed
  <2>2. UpdateFits(y)
    BY <2>1 DEF IInv, AllUpdatesFit
  <2>3. UpdateFits(y)'
    BY <2>2, UpdateStillFits
  <2> QED BY <2>1, <2>3
<1> QED BY <1>1 DEF AllUpdatesFit, IInv, Typed

(* The same for requests. *)
LEMMA CallsRest ==
  ASSUME IInv, Onwards, UNCHANGED call PROVE AllCallsFit' /\ call' \in [Calls -> Request]
<1>1. ASSUME NEW d \in Calls PROVE CallFits(call[d])'
  <2>1. PICK z \in Request : z = call[d]
    BY DEF IInv, Typed
  <2>2. CallFits(z)
    BY <2>1 DEF IInv, AllCallsFit
  <2>3. CallFits(z)'
    BY <2>2, CallStillFits
  <2> QED BY <2>1, <2>3
<1> QED BY <1>1 DEF AllCallsFit, IInv, Typed

(* What the records hold. *)
LEMMA RestFits == UpdateFits(Quiet) /\ UpdateFits(Quiet)' /\ CallFits(Waiting) /\ CallFits(Waiting)'
BY AtRest DEF UpdateFits, CallFits

(* What an update is made of. *)
LEMMA UpdateFields ==
  ASSUME IInv, NEW u \in Updates
  PROVE  update[u] \in Write /\ update[u].path \in Seq(Statuses) /\ UpdateFits(update[u])
BY DEF IInv, Typed, AllUpdatesFit, Write

(* What a request is made of. *)
LEMMA CallFields ==
  ASSUME IInv, NEW c \in Calls
  PROVE  /\ call[c] \in Request /\ CallFits(call[c]) /\ call[c].drops \in Nat
         /\ call[c].rider \in Riders \cup {NoRider} /\ call[c].to \in TripStatuses
BY DEF IInv, Typed, AllCallsFit, Request

-----------------------------------------------------------------------------
(* A step of an update that writes nothing to the order. *)
LEMMA UpdateStep ==
  ASSUME IInv, NEW u \in Updates, NEW x \in Write, UpdateFits(x),
         update' = [update EXCEPT ![u] = x],
         UNCHANGED <<order, trip, drops, missing, call, byHand>>, met' \in BOOLEAN
  PROVE  IInv'
<1>1. Onwards
  BY DEF Onwards, Booked
<1>2. UpdateFits(x)'
  BY <1>1, UpdateStillFits
<1>3. AllUpdatesFit' /\ update' \in [Updates -> Write]
  BY <1>1, <1>2, UpdatesFit
<1>4. AllCallsFit' /\ call' \in [Calls -> Request]
  BY <1>1, CallsRest
<1>5. Typed'
  BY <1>3, <1>4 DEF IInv, Typed
<1>6. OrderOK' /\ TripOrder' /\ DeliveryIsBooked'
  BY DEF IInv, OrderOK, NoStageSkipped, PaidExactlyOnDelivery, CustomerSeesWhatHappened,
         TripOrder, DeliveryIsBooked
<1> QED BY <1>3, <1>4, <1>5, <1>6 DEF IInv

(* A step that shows the customer a status. *)
Follows(s) == \/ s = "cancelled"
              \/ \E t \in Stages \ {"delivered"} : t \in order.timeline /\ s = NextStage(t)

(* A save shows the customer a status that follows and has happened. *)
LEMMA ShownStep ==
  ASSUME IInv, NEW u \in Updates, NEW s \in Statuses, Follows(s), ~byHand => Happened(s),
         NEW x \in Write, UpdateFits(x), update' = [update EXCEPT ![u] = x], order' = Shown(s),
         UNCHANGED <<trip, drops, missing, call, byHand>>, met' \in BOOLEAN
  PROVE  IInv'
<1>1. /\ order'.status = s /\ order'.timeline = order.timeline \cup {s}
      /\ order'.pay = IF s = "delivered" THEN "paid" ELSE order.pay
      /\ order' \in Order
  BY DEF Shown, IInv, Typed, Order
<1>2. Onwards
  BY <1>1 DEF Onwards, Booked
<1>3. UpdateFits(x)'
  BY <1>2, UpdateStillFits
<1>4. AllUpdatesFit' /\ update' \in [Updates -> Write]
  BY <1>2, <1>3, UpdatesFit
<1>5. AllCallsFit' /\ call' \in [Calls -> Request]
  BY <1>2, CallsRest
<1>6. Typed'
  BY <1>1, <1>4, <1>5 DEF IInv, Typed
<1>7. NoStageSkipped'
  <2> SUFFICES ASSUME NEW t \in Stages \ {"delivered"}, NextStage(t) \in order'.timeline
               PROVE  t \in order'.timeline
    BY DEF NoStageSkipped
  <2>1. CASE NextStage(t) \in order.timeline
    BY <1>1, <2>1 DEF IInv, OrderOK, NoStageSkipped
  <2>2. CASE NextStage(t) = s
    <3>1. s # "cancelled"
      BY <2>2, StagesFollow, StagesShown
    <3>2. PICK r \in Stages \ {"delivered"} : r \in order.timeline /\ s = NextStage(r)
      BY <3>1 DEF Follows
    <3>3. r = t
      BY <2>2, <3>2, StagesFollow
    <3> QED BY <1>1, <3>2, <3>3
  <2> QED BY <1>1, <2>1, <2>2
<1>8. PaidExactlyOnDelivery'
  BY <1>1 DEF IInv, Typed, Order, OrderOK, PaidExactlyOnDelivery
<1>9. CustomerSeesWhatHappened'
  BY <1>1 DEF IInv, OrderOK, CustomerSeesWhatHappened, Happened
<1>10. TripOrder' /\ DeliveryIsBooked'
  BY DEF IInv, TripOrder, DeliveryIsBooked
<1> QED BY <1>1, <1>4, <1>5, <1>6, <1>7, <1>8, <1>9, <1>10 DEF IInv, OrderOK

(* A step of the trip: its timeline only grows. *)
LEMMA TripStep ==
  ASSUME IInv, trip' \in Trip, trip.timeline \subseteq trip'.timeline, TripOrder', DeliveryIsBooked',
         AllUpdatesFit', update' \in [Updates -> Write], AllCallsFit', call' \in [Calls -> Request],
         UNCHANGED <<order, drops, missing, byHand, met>>
  PROVE  IInv'
<1>1. Typed'
  BY DEF IInv, Typed
<1>2. OrderOK'
  BY DEF IInv, OrderOK, NoStageSkipped, PaidExactlyOnDelivery, CustomerSeesWhatHappened
<1> QED BY <1>1, <1>2 DEF IInv

(* A step of a rider's request that writes nothing to the trip. *)
LEMMA CallStep ==
  ASSUME IInv, NEW c \in Calls, NEW y \in Request, call' = [call EXCEPT ![c] = y],
         CallFits(y)', drops' \in [Riders -> Nat], missing' \in SUBSET Riders, Booked => Booked',
         UNCHANGED <<order, trip, update, byHand, met>>
  PROVE  IInv'
<1>1. Onwards
  BY DEF Onwards
<1>2. AllCallsFit' /\ call' \in [Calls -> Request]
  BY <1>1, CallsFit
<1>3. AllUpdatesFit' /\ update' \in [Updates -> Write]
  BY <1>1, UpdatesRest
<1>4. Typed'
  BY <1>2, <1>3 DEF IInv, Typed
<1>5. OrderOK' /\ TripOrder' /\ DeliveryIsBooked'
  BY DEF IInv, OrderOK, NoStageSkipped, PaidExactlyOnDelivery, CustomerSeesWhatHappened,
         TripOrder, DeliveryIsBooked, Booked
<1> QED BY <1>2, <1>3, <1>4, <1>5 DEF IInv

-----------------------------------------------------------------------------
(* If a stage has happened, so have those on the way to it. *)
LEMMA WayHappened ==
  ASSUME IInv, NEW from \in Stages, NEW to \in OnTheWay, Happened(to),
         NEW n \in 1..Len(Ahead(from, to))
  PROVE  Happened(Ahead(from, to)[n])
<1> DEFINE k == Position(from) + n
<1>1. to \in Stages /\ Position(from) \in 1..6 /\ Position(to) \in 1..6
  BY Places DEF OnTheWay, Stages
<1>2. Ahead(from, to)[n] = CUSTOMER_STATUS_CHAIN[k] /\ k \in 1..Position(to)
  <2>1. Len(Ahead(from, to)) = IF Position(from) < Position(to) THEN Position(to) - Position(from) ELSE 0
    BY <1>1, WayAhead
  <2>2. Ahead(from, to)[n] = CUSTOMER_STATUS_CHAIN[k]
    BY <1>1, WayAhead
  <2>3. n \in 1..(Position(to) - Position(from))
    BY <1>1, <2>1
  <2> QED BY <1>1, <2>2, <2>3
<1>3. CASE k \in 1..3
  BY <1>2, <1>3, Chain DEF Happened
<1>4. CASE k = 4
  <2>1. \/ "picked" \in trip.timeline
        \/ "arrived_at_customer" \in trip.timeline \/ "delivered" \in trip.timeline
    BY DEF OnTheWay, Happened
  <2>2. "picked" \in trip.timeline
    BY <2>1 DEF IInv, TripOrder, AtTheDoor
  <2> QED BY <1>2, <1>4, <2>2, Chain DEF Happened
<1>5. CASE k = 5
  <2>1. to \in {"arrived", "delivered"}
    BY <1>2, <1>5, Places DEF OnTheWay
  <2>2. trip.timeline \cap {"arrived_at_customer", "delivered"} # {}
    BY <2>1 DEF Happened
  <2> QED BY <1>2, <1>5, <2>2, Chain DEF Happened
<1>6. CASE k = 6
  <2>1. to = "delivered"
    BY <1>2, <1>6, Places DEF OnTheWay
  <2> QED BY <1>2, <1>6, <2>1, Chain DEF Happened
<1> HIDE DEF k
<1>7. k \in 1..6
  BY <1>1, <1>2
<1> QED BY <1>3, <1>4, <1>5, <1>6, <1>7

(* An update ends, for whatever reason. *)
LEMMA StopStep ==
  ASSUME IInv, NEW u \in Updates, Stop(u), UNCHANGED <<order, trip, drops, missing, call, byHand>>,
         met' \in BOOLEAN
  PROVE  IInv'
BY AtRest, RestFits, UpdateStep DEF Stop

LEMMA ReadOrderStep == ASSUME IInv, NEW u \in Updates, ReadOrder(u) PROVE IInv'
<1> DEFINE path == Ahead(order.status, Head(update[u].path))
<1>1. met' \in BOOLEAN /\ UNCHANGED <<order, trip, drops, missing, call, byHand>>
  BY DEF ReadOrder, Unmoved, IInv, Typed
<1>2. CASE Stop(u)
  BY <1>1, <1>2, StopStep
<1>3. CASE ~Ended /\ path # <<>> /\ update' = [update EXCEPT ![u] = [at |-> "load", path |-> path]]
  <2>1. order.status \in Stages /\ Head(update[u].path) \in OnTheWay
    BY <1>3, UpdateFields DEF ReadOrder, UpdateFits, Ended, IInv, Typed, Order, Statuses
  <2>2. path \in Seq(Stages)
    BY <2>1, WayAhead DEF OnTheWay, Stages
  <2>3. path \in Seq(Statuses)
    BY <2>2, StagesShown, SeqMonotonic
  <2>4. PICK x \in Write : x = [at |-> "load", path |-> path]
    BY <2>3 DEF Write
  <2>5. UpdateFits(x)
    <3>1. ASSUME ~byHand, NEW n \in 1..Len(path) PROVE Happened(path[n])
      <4>1. update[u].path # <<>> /\ update[u].at = "read"
        BY UpdateFields DEF ReadOrder, UpdateFits
      <4>2. Head(update[u].path) = update[u].path[1] /\ 1 \in 1..Len(update[u].path)
        BY <4>1, FirstAndRest, UpdateFields
      <4>3. Happened(Head(update[u].path))
        BY <3>1, <4>1, <4>2, UpdateFields DEF UpdateFits
      <4> QED BY <2>1, <3>1, <4>3, WayHappened
    <3> HIDE DEF path
    <3> QED BY <1>3, <2>4, <3>1 DEF UpdateFits
  <2> HIDE DEF path
  <2> QED BY <1>1, <1>3, <2>4, <2>5, UpdateStep
<1> QED BY <1>2, <1>3 DEF ReadOrder

(* What the dispatcher wants confirmed is still to be looked at. *)
LEMMA LinkOrderStep == ASSUME IInv, NEW u \in Updates, LinkOrder(u) PROVE IInv'
<1>1. met' \in BOOLEAN /\ UNCHANGED <<order, trip, drops, missing, call, byHand>> /\ update[u].at = "link"
  BY DEF LinkOrder, Unmoved, IInv, Typed
<1>2. CASE Stop(u)
  BY <1>1, <1>2, StopStep
<1>3. CASE update' = [update EXCEPT ![u].at = "load"]
  <2>1. PICK x \in Write : x = [update[u] EXCEPT !.at = "load"]
    BY UpdateFields DEF Write
  <2>2. x.path = update[u].path /\ x.at = "load"
    BY <2>1, UpdateFields DEF Write
  <2>3. UpdateFits(x)
    BY <1>1, <2>2, UpdateFields DEF UpdateFits
  <2> QED BY <1>1, <1>3, <2>1, <2>3, UpdateStep
<1> QED BY <1>2, <1>3 DEF LinkOrder

LEMMA LoadOrderStep == ASSUME IInv, NEW u \in Updates, LoadOrder(u) PROVE IInv'
<1>1. met' \in BOOLEAN /\ UNCHANGED <<order, trip, drops, missing, call, byHand>> /\ update[u].at = "load"
  BY DEF LoadOrder, Unmoved, IInv, Typed
<1>2. CASE Stop(u)
  BY <1>1, <1>2, StopStep
<1>3. CASE /\ Head(update[u].path) \in VALID_TRANSITIONS(order.status)
           /\ update' = [update EXCEPT ![u].at = "save"]
  <2>1. PICK x \in Write : x = [update[u] EXCEPT !.at = "save"]
    BY UpdateFields DEF Write
  <2>2. x.path = update[u].path /\ x.at = "save"
    BY <2>1, UpdateFields DEF Write
  <2>3. Follows(Head(x.path))
    <3>1. order.status \in Stages \ {"delivered"} /\ order.status \in order.timeline
      BY <1>3 DEF VALID_TRANSITIONS, IInv, Typed, Order, Statuses, OrderOK
    <3> QED BY <1>3, <2>2, <3>1 DEF VALID_TRANSITIONS, Follows
  <2>4. UpdateFits(x)
    BY <1>1, <2>2, <2>3, UpdateFields DEF UpdateFits, Follows
  <2> QED BY <1>1, <1>3, <2>1, <2>4, UpdateStep
<1> QED BY <1>2, <1>3 DEF LoadOrder

LEMMA SaveOrderStep == ASSUME IInv, NEW u \in Updates, SaveOrder(u) PROVE IInv'
<1>1. /\ met' \in BOOLEAN /\ UNCHANGED <<trip, drops, missing, call, byHand>> /\ update[u].at = "save"
      /\ order' = Shown(Head(update[u].path))
  BY DEF SaveOrder, Unmoved, Others, IInv, Typed
<1>2. update[u].path # <<>> /\ update[u].path \in Seq(Statuses)
  BY <1>1, UpdateFields DEF UpdateFits
<1>3. /\ Head(update[u].path) \in Statuses /\ Follows(Head(update[u].path))
      /\ ~byHand => Happened(Head(update[u].path))
  BY <1>1, <1>2, UpdateFields, FirstAndRest DEF UpdateFits, Follows
<1>4. CASE Stop(u)
  BY <1>1, <1>3, <1>4, AtRest, RestFits, ShownStep DEF Stop
<1>5. CASE /\ Len(update[u].path) # 1
           /\ update' = [update EXCEPT ![u] = [at |-> "load", path |-> Tail(@.path)]]
  <2>1. PICK x \in Write : x = [at |-> "load", path |-> Tail(update[u].path)]
    BY <1>2, FirstAndRest DEF Write
  <2>2. x.path # <<>> /\ Len(x.path) = Len(update[u].path) - 1
    <3>1. /\ Len(update[u].path) \in Nat \ {0}
          /\ Len(Tail(update[u].path)) = Len(update[u].path) - 1
      BY <1>2, FirstAndRest
    <3>2. Len(x.path) # 0
      BY <1>5, <2>1, <3>1
    <3>3. Len(<<>>) = 0
      OBVIOUS
    <3> QED BY <2>1, <3>1, <3>2, <3>3
  <2>3. UpdateFits(x)
    <3>1. ASSUME ~byHand, NEW n \in 1..Len(x.path) PROVE Happened(x.path[n])
      <4>1. x.path[n] = update[u].path[n + 1] /\ n + 1 \in 1..Len(update[u].path)
        BY <1>2, <2>1, <2>2, <3>1, FirstAndRest
      <4> QED BY <1>1, <3>1, <4>1, UpdateFields DEF UpdateFits
    <3> QED BY <2>1, <2>2, <3>1 DEF UpdateFits
  <2>4. update' = [update EXCEPT ![u] = x]
    BY <1>5, <2>1 DEF IInv, Typed
  <2> QED BY <1>1, <1>3, <2>3, <2>4, ShownStep
<1> QED BY <1>4, <1>5 DEF SaveOrder

(* An update begins with one status to write. *)
LEMMA BeginFits ==
  ASSUME NEW s \in Statuses, NEW label \in {"link", "load", "cancel"},
         byHand \/ label = "cancel" \/ s \notin OnTheWay
  PROVE  /\ [at |-> label, path |-> <<s>>] \in Write
         /\ UpdateFits([at |-> label, path |-> <<s>>])
<1>1. [at |-> label, path |-> <<s>>] \in Write
  BY One DEF Write
<1>2. \A n \in 1..Len(<<s>>) : <<s>>[n] = s
  BY One
<1>3. s \notin OnTheWay => Happened(s)
  BY DEF OnTheWay, Happened
<1>4. UpdateFits([at |-> label, path |-> <<s>>])
  BY <1>2, <1>3, One DEF UpdateFits
<1> QED BY <1>1, <1>4
LEMMA DarkstoreStep ==
  ASSUME IInv, NEW u \in Updates, NEW s \in Statuses, DarkstorePropagates(u, s) PROVE IInv'
<1>1. PICK x \in Write : x = [at |-> "load", path |-> <<s>>] /\ UpdateFits(x)
  BY BeginFits DEF DarkstorePropagates, OnTheWay
<1> QED BY <1>1, UpdateStep DEF DarkstorePropagates, Begin, Unmoved, IInv, Typed
LEMMA CancelCheckStep == ASSUME IInv, NEW u \in Updates, CancelCheck(u) PROVE IInv'
<1>1. PICK x \in Write : x = [at |-> "cancel", path |-> <<"cancelled">>] /\ UpdateFits(x)
  BY BeginFits DEF Statuses
<1> QED BY <1>1, UpdateStep DEF CancelCheck, Begin, Unmoved, IInv, Typed
LEMMA CancelSaveStep == ASSUME IInv, NEW u \in Updates, CancelSave(u) PROVE IInv'
<1>1. Follows("cancelled") /\ Happened("cancelled") /\ "cancelled" \in Statuses
  BY DEF Follows, Happened, Statuses
<1>2. met' \in BOOLEAN
  BY DEF CancelSave, Others, IInv, Typed
<1> QED BY <1>1, <1>2, AtRest, RestFits, ShownStep DEF CancelSave, Stop, Unmoved
LEMMA UpdateFailsStep == ASSUME IInv, NEW u \in Updates, UpdateFails(u) PROVE IInv'
BY StopStep DEF UpdateFails, Unmoved

(* An admin's update needs nothing to have happened, nor any other since.  *)
LEMMA UpdateStatusStep ==
  ASSUME IInv, NEW u \in Updates, NEW s \in Statuses, UpdateStatus(u, s) PROVE IInv'
<1>1. Onwards /\ byHand' = TRUE /\ UNCHANGED <<order, trip, drops, missing, call, met>>
  BY DEF UpdateStatus, Onwards, Booked, IInv, Typed
<1>2. PICK x \in Write : x = [at |-> "load", path |-> <<s>>]
  BY One DEF Write
<1>3. UpdateFits(x)'
  BY <1>1, <1>2, One DEF UpdateFits
<1>4. AllUpdatesFit' /\ update' \in [Updates -> Write]
  BY <1>1, <1>2, <1>3, UpdatesFit DEF UpdateStatus, Begin
<1>5. AllCallsFit' /\ call' \in [Calls -> Request]
  BY <1>1, CallsRest
<1>6. Typed'
  BY <1>1, <1>4, <1>5 DEF IInv, Typed
<1>7. OrderOK' /\ TripOrder' /\ DeliveryIsBooked'
  BY <1>1 DEF IInv, OrderOK, NoStageSkipped, PaidExactlyOnDelivery, CustomerSeesWhatHappened,
              TripOrder, DeliveryIsBooked
<1> QED BY <1>4, <1>5, <1>6, <1>7 DEF IInv

-----------------------------------------------------------------------------
(* The dispatcher assigns, the platform clears: the trip's timeline stays. *)
LEMMA AssignStep == ASSUME IInv, NEW u \in Updates, NEW r \in Riders, Assign(u, r) PROVE IInv'
<1>1. /\ trip' \in Trip /\ trip'.timeline = trip.timeline /\ trip'.status = "assigned"
      /\ UNCHANGED <<order, drops, missing, call, byHand, met>>
  BY DEF Assign, IInv, Typed, Trip, TripStatuses
<1>2. Onwards
  BY <1>1 DEF Onwards, Booked
<1>3. AllCallsFit' /\ call' \in [Calls -> Request]
  BY <1>1, <1>2, CallsRest
<1>4. AllUpdatesFit' /\ update' \in [Updates -> Write]
  <2>1. PICK x \in Write : x = [at |-> "link", path |-> <<"confirmed">>] /\ UpdateFits(x)
    BY BeginFits DEF Statuses, Stages, OnTheWay
  <2>2. UpdateFits(x)'
    BY <1>2, <2>1, UpdateStillFits
  <2> QED BY <1>2, <2>1, <2>2, UpdatesFit DEF Assign, Begin
<1>5. TripOrder' /\ DeliveryIsBooked'
  BY <1>1 DEF IInv, TripOrder, DeliveryIsBooked, AtTheDoor
<1> QED BY <1>1, <1>3, <1>4, <1>5, TripStep
LEMMA ClearStep == ASSUME IInv, NEW r \in Riders, ClearOpenOrders(r) PROVE IInv'
<1>1. /\ trip' \in Trip /\ trip'.timeline = trip.timeline /\ trip'.status = "cancelled"
      /\ UNCHANGED <<order, drops, missing, call, update, byHand, met>>
  BY DEF ClearOpenOrders, IInv, Typed, Trip, TripStatuses
<1>2. Onwards
  BY <1>1 DEF Onwards, Booked
<1>3. TripOrder' /\ DeliveryIsBooked'
  BY <1>1 DEF IInv, TripOrder, DeliveryIsBooked, AtTheDoor
<1> QED BY <1>1, <1>2, <1>3, CallsRest, UpdatesRest, TripStep

(* A rider's request ends, for whatever reason. *)
LEMMA AnswerStep ==
  ASSUME IInv, NEW c \in Calls, Answer(c), UNCHANGED <<order, trip, drops, missing, update, byHand, met>>
  PROVE  IInv'
<1>1. drops' \in [Riders -> Nat] /\ missing' \in SUBSET Riders /\ (Booked => Booked')
  BY DEF IInv, Typed, Booked
<1> QED BY <1>1, AtRest, RestFits, CallStep DEF Answer

(* A rider's request has loaded the trip. *)
LEMMA LoadTripStep ==
  ASSUME IInv, NEW c \in Calls, NEW r \in Riders, RiderRequest(c, r) PROVE IInv'
<1>1. PICK label \in {"accept", "reject", "loadRider", "status"}, to \in TripStatuses :
        /\ LoadTrip(c, r, label, to)
        /\ label = "loadRider" => to = "delivered"
        /\ label = "status" => to \in {"arrived_at_darkstore", "picked"} \cup (AtTheDoor \ {"delivered"})
        /\ label \in {"loadRider", "status"} /\ to \in AtTheDoor => trip.status \in {"picked"} \cup AtTheDoor
  BY DEF RiderRequest, AcceptOrder, RejectOrder, MarkArrivedAtDarkstore, MarkPicked,
         MarkArrivedAtCustomer, MarkOutForDelivery, MarkDelivered, TripStatuses, AtTheDoor
<1>2. PICK y \in Request : y = [Waiting EXCEPT !.at = label, !.rider = r, !.to = to]
  BY AtRest DEF Request
<1>3. y.at = label /\ y.rider = r /\ y.to = to
  BY <1>2, AtRest DEF Request
<1>4. CallFits(y)
  BY <1>1, <1>3 DEF CallFits, IInv, TripOrder
<1>5. UNCHANGED <<order, trip, drops, missing, update, byHand, met>> /\ call' = [call EXCEPT ![c] = y]
  BY <1>1, <1>2 DEF LoadTrip
<1>6. CallFits(y)' /\ drops' \in [Riders -> Nat] /\ missing' \in SUBSET Riders /\ (Booked => Booked')
  BY <1>4, <1>5 DEF CallFits, Booked, IInv, Typed
<1> QED BY <1>5, <1>6, CallStep

LEMMA LoadRiderStep == ASSUME IInv, NEW c \in Calls, LoadRider(c) PROVE IInv'
<1>1. call[c].rider \in Riders /\ call[c].to = "delivered" /\ "picked" \in trip.timeline
  BY CallFields DEF LoadRider, CallFits, AtTheDoor
<1>2. PICK n \in Nat : n = drops[call[c].rider]
  BY <1>1 DEF IInv, Typed
<1>3. PICK y \in Request : y = [call[c] EXCEPT !.at = "saveRider", !.drops = n]
  BY CallFields DEF Request
<1>4. y.at = "saveRider" /\ y.rider = call[c].rider /\ y.to = call[c].to
  BY <1>3, CallFields DEF Request
<1>5. call' = [call EXCEPT ![c] = y] /\ UNCHANGED <<order, trip, drops, missing, update, byHand, met>>
  BY <1>2, <1>3 DEF LoadRider, IInv, Typed
<1>6. CallFits(y)' /\ drops' \in [Riders -> Nat] /\ missing' \in SUBSET Riders /\ (Booked => Booked')
  BY <1>1, <1>4, <1>5 DEF CallFits, Booked, IInv, Typed
<1> QED BY <1>5, <1>6, CallStep
LEMMA NoRiderStep == ASSUME IInv, NEW c \in Calls, NoRiderFound(c) PROVE IInv'
<1>1. call[c].rider \in Riders /\ call[c].to = "delivered" /\ "picked" \in trip.timeline
  BY CallFields DEF NoRiderFound, CallFits, AtTheDoor
<1>2. /\ missing' = missing \cup {call[c].rider}
      /\ UNCHANGED <<order, trip, drops, update, byHand, met>>
  BY DEF NoRiderFound
<1>3. Booked' /\ drops' \in [Riders -> Nat] /\ missing' \in SUBSET Riders
  BY <1>1, <1>2 DEF Booked, IInv, Typed
<1>4. PICK y \in Request : y = [call[c] EXCEPT !.at = "status"]
  BY CallFields DEF Request
<1>5. y.at = "status" /\ y.rider = call[c].rider /\ y.to = call[c].to
  BY <1>4, CallFields DEF Request
<1>6. call' = [call EXCEPT ![c] = y]
  BY <1>4 DEF NoRiderFound, IInv, Typed
<1>7. CallFits(y)'
  BY <1>1, <1>2, <1>3, <1>5 DEF CallFits, AtTheDoor
<1> QED BY <1>2, <1>3, <1>6, <1>7, CallStep
LEMMA SaveRiderStep == ASSUME IInv, NEW c \in Calls, SaveRider(c) PROVE IInv'
<1>1. call[c].rider \in Riders /\ call[c].to = "delivered" /\ "picked" \in trip.timeline
  BY CallFields DEF SaveRider, CallFits, AtTheDoor
<1>2. PICK n \in Nat : n = call[c].drops + 1 /\ n > 0
  BY CallFields
<1>3. drops' = [drops EXCEPT ![call[c].rider] = n] /\ drops' \in [Riders -> Nat]
  BY <1>1, <1>2 DEF SaveRider, IInv, Typed
<1>4. Booked' /\ missing' \in SUBSET Riders
  BY <1>1, <1>2, <1>3 DEF SaveRider, Booked, IInv, Typed
<1>5. PICK y \in Request : y = [call[c] EXCEPT !.at = "status"]
  BY CallFields DEF Request
<1>6. y.at = "status" /\ y.rider = call[c].rider /\ y.to = call[c].to
  BY <1>5, CallFields DEF Request
<1>7. call' = [call EXCEPT ![c] = y] /\ UNCHANGED <<order, trip, update, byHand, met>>
  BY <1>5 DEF SaveRider, IInv, Typed
<1>8. CallFits(y)'
  BY <1>1, <1>4, <1>6, <1>7 DEF CallFits, AtTheDoor
<1> QED BY <1>3, <1>4, <1>7, <1>8, CallStep

(* A rider's request writes the trip and is answered. *)
LEMMA SaveAnswerStep ==
  ASSUME IInv, NEW c \in Calls, SaveAccept(c) \/ SaveReject(c) PROVE IInv'
<1>1. /\ trip' \in Trip /\ trip'.timeline = trip.timeline
      /\ trip'.status \in {trip.status, "confirmed"}
      /\ Answer(c) /\ UNCHANGED <<order, drops, missing, update, byHand, met>>
  BY CallFields DEF SaveAccept, SaveReject, Written, IInv, Typed, Trip, TripStatuses
<1>2. Onwards
  BY <1>1 DEF Onwards, Booked
<1>3. TripOrder' /\ DeliveryIsBooked'
  BY <1>1 DEF IInv, TripOrder, DeliveryIsBooked, AtTheDoor
<1>4. AllCallsFit' /\ call' \in [Calls -> Request]
  BY <1>1, <1>2, AtRest, RestFits, CallsFit DEF Answer
<1> QED BY <1>1, <1>2, <1>3, <1>4, UpdatesRest, TripStep
LEMMA SaveTripStep == ASSUME IInv, NEW c \in Calls, NEW u \in Updates, SaveTrip(c, u) PROVE IInv'
<1> DEFINE to == call[c].to
<1>1. /\ to \in {"arrived_at_darkstore", "picked"} \cup AtTheDoor
      /\ to \in AtTheDoor => "picked" \in trip.timeline
      /\ to = "delivered" => Booked
  BY CallFields DEF SaveTrip, CallFits
<1>2. /\ trip' \in Trip /\ trip'.timeline = trip.timeline \cup {to} /\ trip'.status = to
      /\ Answer(c) /\ UNCHANGED <<order, drops, missing, byHand, met>>
  BY <1>1, CallFields DEF SaveTrip, IInv, Typed, Trip, TripStatuses
<1>3. Onwards
  BY <1>2 DEF Onwards, Booked
<1>4. TripOrder'
  BY <1>1, <1>2 DEF IInv, TripOrder
<1>5. DeliveryIsBooked'
  BY <1>1, <1>2 DEF IInv, DeliveryIsBooked, Booked
<1>6. AllCallsFit' /\ call' \in [Calls -> Request]
  BY <1>2, <1>3, AtRest, RestFits, CallsFit DEF Answer
<1>7. AllUpdatesFit' /\ update' \in [Updates -> Write]
  <2>1. CASE to = "arrived_at_darkstore"
    BY <1>3, <2>1, UpdatesRest DEF SaveTrip
  <2>2. CASE to # "arrived_at_darkstore"
    <3>1. PICK s \in OnTheWay : s = RIDER_TO_CUSTOMER_STATUS(to)
      BY DEF RIDER_TO_CUSTOMER_STATUS, OnTheWay
    <3>2. s \in Statuses
      BY DEF OnTheWay, Statuses, Stages
    <3>3. PICK x \in Write : x = [at |-> "read", path |-> <<s>>]
      BY <3>2, One DEF Write
    <3>4. Happened(s)'
      BY <1>1, <1>2, <2>2, <3>1 DEF Happened, RIDER_TO_CUSTOMER_STATUS, AtTheDoor
    <3>5. UpdateFits(x)'
      <4>1. \A n \in 1..Len(<<s>>) : <<s>>[n] = s
        BY One
      <4> QED BY <3>2, <3>3, <3>4, <4>1, One DEF UpdateFits
    <3>6. update' = [update EXCEPT ![u] = x]
      BY <2>2, <3>1, <3>3 DEF SaveTrip, Begin
    <3> QED BY <1>3, <3>5, <3>6, UpdatesFit
  <2> QED BY <2>1, <2>2
<1> HIDE DEF to
<1> QED BY <1>2, <1>4, <1>5, <1>6, <1>7, TripStep

-----------------------------------------------------------------------------
(* Every step keeps the invariant. *)
LEMMA StepIInv == IInv /\ [Next]_vars => IInv'
<1> SUFFICES ASSUME IInv, [Next]_vars PROVE IInv'
  OBVIOUS
<1>1. CASE UNCHANGED vars
  <2>1. Onwards
    BY <1>1 DEF vars, Onwards, Booked
  <2>2. AllUpdatesFit' /\ AllCallsFit'
    BY <1>1, <2>1, UpdatesRest, CallsRest DEF vars
  <2>3. OrderOK' /\ TripOrder' /\ DeliveryIsBooked' /\ Typed'
    BY <1>1 DEF vars, IInv, Typed, OrderOK, NoStageSkipped, PaidExactlyOnDelivery,
                CustomerSeesWhatHappened, TripOrder, DeliveryIsBooked
  <2> QED BY <2>2, <2>3 DEF IInv
<1>2. ASSUME NEW u \in Updates, Propagation(u) PROVE IInv'
  BY <1>2, LinkOrderStep, ReadOrderStep, LoadOrderStep, SaveOrderStep, CancelSaveStep DEF Propagation
<1>3. ASSUME NEW c \in Calls, RiderAnswer(c) PROVE IInv'
  <2>1. CASE CallFails(c)
    BY <2>1, AnswerStep DEF CallFails
  <2> QED BY <1>3, <2>1, SaveAnswerStep, LoadRiderStep, NoRiderStep, SaveRiderStep DEF RiderAnswer
<1> QED BY <1>1, <1>2, <1>3, CancelCheckStep, UpdateFailsStep, DarkstoreStep, UpdateStatusStep,
           AssignStep, SaveTripStep, LoadTripStep, ClearStep DEF Next

(* The invariant that carries the others.                                  *)
THEOREM Inductive == Spec => []IInv
<1> QED BY InitIInv, StepIInv, PTL DEF Spec

(* Order, trip, riders' counters and all that is under way keep their      *)
(* types, whichever handlers overlap.                                      *)
THEOREM TypeCorrect == Spec => []TypeOK
<1>1. IInv => TypeOK
  BY DEF IInv, Typed, TypeOK, Order, Trip, Request, Write
<1> QED BY <1>1, Inductive, PTL

(* The customer's timeline of an order never skips a stage, however the    *)
(* stale copies of its updates are saved over each other.                  *)
THEOREM StagesInOrder == Spec => []NoStageSkipped
<1>1. IInv => NoStageSkipped
  BY DEF IInv, OrderOK
<1> QED BY <1>1, Inductive, PTL

(* A cash order is paid when, and only when, it was shown as delivered.    *)
THEOREM PaidOnDelivery == Spec => []PaidExactlyOnDelivery
<1>1. IInv => PaidExactlyOnDelivery
  BY DEF IInv, OrderOK
<1> QED BY <1>1, Inductive, PTL

(* Without an admin's hand the customer is told nothing of the way that    *)
(* did not happen on a trip.                                               *)
THEOREM CustomerToldTheTruth == Spec => []CustomerSeesWhatHappened
<1>1. IInv => CustomerSeesWhatHappened
  BY DEF IInv, OrderOK
<1> QED BY <1>1, Inductive, PTL

(* A trip that shows delivered has been booked on a rider, unless a rider
   who delivered has no document to book it on.                            *)
THEOREM BookedBeforeDelivered == Spec => []DeliveryIsBooked
<1>1. IInv => DeliveryIsBooked
  BY DEF IInv
<1> QED BY <1>1, Inductive, PTL

-----------------------------------------------------------------------------
(* Why a delivery reaches the customer: until an update meets another or   *)
(* fails, none saves over an order that has ended, and there is always one *)
(* that carries the delivery to an order that has not.                     *)
OnItsWay(x) == /\ x.at \in {"read", "load", "save"}
               /\ x.at = "read" => x.path = <<"delivered">>
               /\ x.at # "read" => x.path = Ahead(order.status, "delivered")
SaversFresh == ~met => \A u \in Updates : update[u].at = "save" => ~Ended
Reaching == ~met /\ "delivered" \in trip.timeline => Ended \/ \E u \in Updates : OnItsWay(update[u])
Carried == IInv /\ SaversFresh /\ Reaching

(* From any stage the way to the door begins with the next stage, and goes *)
(* on from there.                                                          *)
LEMMA WayToTheDoor ==
  ASSUME NEW s \in Stages \ {"delivered"}
  PROVE  /\ Ahead(s, "delivered") \in Seq(Stages) /\ Ahead(s, "delivered") # <<>>
         /\ Head(Ahead(s, "delivered")) = NextStage(s)
         /\ Tail(Ahead(s, "delivered")) = Ahead(NextStage(s), "delivered")
         /\ Len(Ahead(s, "delivered")) = 1 => NextStage(s) = "delivered"
<1>1. /\ Position(s) \in 1..5 /\ NextStage(s) \in Stages /\ Position(NextStage(s)) = Position(s) + 1
      /\ CUSTOMER_STATUS_CHAIN[Position(s) + 1] = NextStage(s)
      /\ Position(s) = 5 => NextStage(s) = "delivered"
  <2>1. CASE s = "pending"
    BY <2>1, Places, Chain DEF NextStage, Stages
  <2>2. CASE s = "confirmed"
    BY <2>2, Places, Chain DEF NextStage, Stages
  <2>3. CASE s = "getting-packed"
    BY <2>3, Places, Chain DEF NextStage, Stages
  <2>4. CASE s = "on-the-way"
    BY <2>4, Places, Chain DEF NextStage, Stages
  <2>5. CASE s = "arrived"
    BY <2>5, Places, Chain DEF NextStage, Stages
  <2> QED BY <2>1, <2>2, <2>3, <2>4, <2>5 DEF Stages
<1> DEFINE p == Ahead(s, "delivered")
           q == Ahead(NextStage(s), "delivered")
<1>2. "delivered" \in Stages /\ Position("delivered") = 6
  BY Places DEF Stages
<1>3. /\ p \in Seq(Stages)
      /\ Len(p) = IF Position(s) < Position("delivered") THEN Position("delivered") - Position(s) ELSE 0
      /\ \A n \in 1..Len(p) : p[n] = CUSTOMER_STATUS_CHAIN[Position(s) + n]
  BY <1>2, WayAhead
<1>4. /\ q \in Seq(Stages)
      /\ Len(q) = IF Position(NextStage(s)) < Position("delivered")
                  THEN Position("delivered") - Position(NextStage(s)) ELSE 0
      /\ \A n \in 1..Len(q) : q[n] = CUSTOMER_STATUS_CHAIN[Position(NextStage(s)) + n]
  BY <1>1, <1>2, WayAhead
<1> HIDE DEF p, q
<1>5. Len(p) = 6 - Position(s)
  BY <1>1, <1>2, <1>3
<1>6. Len(q) = 5 - Position(s)
  <2>1. CASE Position(s) = 5
    BY <1>1, <1>2, <1>4, <2>1
  <2>2. CASE Position(s) < 5
    BY <1>1, <1>2, <1>4, <2>2
  <2> QED BY <1>1, <2>1, <2>2
<1>7. p # <<>> /\ Len(p) \in Nat \ {0} /\ 1 \in 1..Len(p)
  <2>1. Len(<<>>) = 0
    OBVIOUS
  <2> QED BY <1>1, <1>5, <2>1
<1>8. Head(p) = NextStage(s)
  <2>1. Head(p) = p[1]
    BY <1>3, <1>7
  <2> QED BY <1>1, <1>3, <1>7, <2>1
<1>9. Tail(p) = q
  <2>1. /\ Tail(p) \in Seq(Stages) /\ Len(Tail(p)) = Len(p) - 1
        /\ \A n \in 1..Len(Tail(p)) : Tail(p)[n] = p[n + 1]
    BY <1>3, <1>7, HeadTailProperties
  <2>2. Len(Tail(p)) = Len(q)
    BY <1>1, <1>5, <1>6, <2>1
  <2>3. ASSUME NEW n \in 1..Len(Tail(p)) PROVE Tail(p)[n] = q[n]
    <3>1. n \in Int /\ n \in 1..Len(q) /\ n + 1 \in 1..Len(p)
      BY <1>1, <1>5, <1>6, <2>2
    <3>2. Position(s) + (n + 1) = Position(NextStage(s)) + n
      BY <1>1, <3>1
    <3> QED BY <1>3, <1>4, <2>1, <3>1, <3>2
  <2> QED BY <1>4, <2>1, <2>2, <2>3, SeqEqual
<1> QED BY <1>1, <1>3, <1>5, <1>7, <1>8, <1>9 DEF p, q

(* Nothing is on its way and nothing is delivered. *)
LEMMA InitCarried == Init => Carried
<1> SUFFICES ASSUME Init PROVE Carried
  OBVIOUS
<1>1. SaversFresh /\ Reaching
  BY AtRest DEF Init, SaversFresh, Reaching
<1> QED BY <1>1, InitIInv DEF Carried

(* Steps that leave the order alone, deliver nothing and only begin        *)
(* updates.                                                                *)
Beginning ==
  /\ UNCHANGED <<order, met>> /\ ("delivered" \in trip'.timeline => "delivered" \in trip.timeline)
  /\ \A v \in Updates : \/ update'[v] = update[v]
                        \/ update[v].at = "idle" /\ update'[v].at # "save"
LEMMA BeginningStep == Carried /\ Beginning => SaversFresh' /\ Reaching'
<1> SUFFICES ASSUME Carried, Beginning PROVE SaversFresh' /\ Reaching'
  OBVIOUS
<1> USE DEF Beginning
<1>1. SaversFresh'
  BY DEF Carried, SaversFresh, Ended
<1>2. Reaching'
  <2> SUFFICES ASSUME ~met, "delivered" \in trip.timeline, ~Ended
               PROVE  \E u \in Updates : OnItsWay(update[u])'
    BY DEF Reaching, Ended
  <2>1. PICK u \in Updates : OnItsWay(update[u])
    BY DEF Carried, Reaching
  <2>2. update'[u] = update[u]
    BY <2>1 DEF OnItsWay
  <2> QED BY <2>1, <2>2 DEF OnItsWay
<1> QED BY <1>1, <1>2

(* An update ends over an order that has not: then it was not the one.     *)
LEMMA OneMoves ==
  ASSUME IInv, NEW u \in Updates, NEW x, update' = [update EXCEPT ![u] = x]
  PROVE  update'[u] = x /\ \A v \in Updates : v # u => update'[v] = update[v]
BY DEF IInv, Typed

LEMMA ReadCarried == ASSUME Carried, NEW u \in Updates, ReadOrder(u) PROVE SaversFresh' /\ Reaching'
<1> DEFINE path == Ahead(order.status, Head(update[u].path))
           x == IF Ended \/ path = <<>> THEN Quiet ELSE [at |-> "load", path |-> path]
<1>1. /\ update[u].at = "read" /\ UNCHANGED <<order, trip, met>>
      /\ update' = [update EXCEPT ![u] = x]
  BY DEF ReadOrder, Unmoved, Stop
<1>2. x.at \in {"idle", "load"}
  BY AtRest
<1>3. update'[u] = x /\ \A v \in Updates : v # u => update'[v] = update[v]
  <2> HIDE DEF x
  <2> QED BY <1>1, OneMoves DEF Carried
<1>4. SaversFresh'
  <2> HIDE DEF x
  <2> QED BY <1>1, <1>2, <1>3 DEF Carried, SaversFresh, Ended
<1>5. Reaching'
  <2> SUFFICES ASSUME ~met, "delivered" \in trip.timeline, ~Ended
               PROVE  \E v \in Updates : OnItsWay(update[v])'
    BY <1>1 DEF Reaching, Ended
  <2>1. PICK v \in Updates : OnItsWay(update[v])
    BY DEF Carried, Reaching
  <2>2. CASE v # u
    <3>1. OnItsWay(update[v])'
      BY <1>1, <1>3, <2>1, <2>2 DEF OnItsWay
    <3> QED BY <3>1
  <2>3. CASE v = u
    <3>1. Head(update[u].path) = "delivered"
      BY <1>1, <2>1, <2>3, One DEF OnItsWay, Statuses, Stages
    <3>2. path = Ahead(order.status, "delivered")
      BY <3>1
    <3>3. order.status \in Stages \ {"delivered"}
      BY DEF Ended, Carried, IInv, Typed, Order, Statuses
    <3>4. path # <<>>
      BY <3>2, <3>3, WayToTheDoor
    <3>5. x = [at |-> "load", path |-> Ahead(order.status, "delivered")]
      BY <3>2, <3>4
    <3>6. OnItsWay(update[u])'
      BY <1>1, <1>3, <3>5 DEF OnItsWay
    <3> QED BY <3>6
  <2> QED BY <2>2, <2>3
<1> QED BY <1>4, <1>5

(* The dispatcher's own update does not carry a delivery. *)
LEMMA LinkCarried == ASSUME Carried, NEW u \in Updates, LinkOrder(u) PROVE SaversFresh' /\ Reaching'
<1>1. update[u].at = "link" /\ UNCHANGED <<order, trip, met>>
  BY DEF LinkOrder, Unmoved
<1>2. PICK x : update' = [update EXCEPT ![u] = x] /\ x.at \in {"idle", "load"}
  <2>1. CASE order.status = "pending"
    <3>1. update' = [update EXCEPT ![u] = [update[u] EXCEPT !.at = "load"]]
      BY <2>1 DEF LinkOrder
    <3>2. [update[u] EXCEPT !.at = "load"].at = "load"
      BY UpdateFields DEF Carried, Write
    <3> QED BY <3>1, <3>2
  <2>2. CASE order.status # "pending"
    BY <2>2, AtRest DEF LinkOrder, Stop
  <2> QED BY <2>1, <2>2
<1>3. update'[u] = x /\ \A v \in Updates : v # u => update'[v] = update[v]
  BY <1>2, OneMoves DEF Carried
<1>4. SaversFresh'
  BY <1>1, <1>2, <1>3 DEF Carried, SaversFresh, Ended
<1>5. Reaching'
  <2> SUFFICES ASSUME ~met, "delivered" \in trip.timeline, ~Ended
               PROVE  \E v \in Updates : OnItsWay(update[v])'
    BY <1>1 DEF Reaching, Ended
  <2>1. PICK v \in Updates : OnItsWay(update[v])
    BY DEF Carried, Reaching
  <2>2. v # u
    BY <1>1, <2>1 DEF OnItsWay
  <2> QED BY <1>1, <1>3, <2>1, <2>2 DEF OnItsWay
<1> QED BY <1>4, <1>5

LEMMA LoadCarried == ASSUME Carried, NEW u \in Updates, LoadOrder(u) PROVE SaversFresh' /\ Reaching'
<1> DEFINE valid == Head(update[u].path) \in VALID_TRANSITIONS(order.status)
<1>1. update[u].at = "load" /\ UNCHANGED <<order, trip, met>>
  BY DEF LoadOrder, Unmoved
<1>2. PICK x : /\ update' = [update EXCEPT ![u] = x]
               /\ valid => x = [update[u] EXCEPT !.at = "save"]
               /\ ~valid => x = Quiet
  <2>1. CASE valid
    <3>1. update' = [update EXCEPT ![u] = [update[u] EXCEPT !.at = "save"]]
      BY <2>1 DEF LoadOrder
    <3> QED BY <2>1, <3>1
  <2>2. CASE ~valid
    BY <2>2 DEF LoadOrder, Stop
  <2> QED BY <2>1, <2>2
<1>3. update'[u] = x /\ \A v \in Updates : v # u => update'[v] = update[v]
  BY <1>2, OneMoves DEF Carried
<1>4. x.at = "save" => valid
  BY <1>2, AtRest
<1>5. valid => ~Ended
  BY DEF VALID_TRANSITIONS, Ended
<1>6. valid => x.at = "save" /\ x.path = update[u].path
  BY <1>2, UpdateFields DEF Carried, Write
<1> HIDE DEF valid
<1>7. SaversFresh'
  BY <1>1, <1>3, <1>4, <1>5 DEF Carried, SaversFresh, Ended
<1>8. Reaching'
  <2> SUFFICES ASSUME ~met, "delivered" \in trip.timeline, ~Ended
               PROVE  \E v \in Updates : OnItsWay(update[v])'
    BY <1>1 DEF Reaching, Ended
  <2>1. PICK v \in Updates : OnItsWay(update[v])
    BY DEF Carried, Reaching
  <2>2. CASE v # u
    <3>1. OnItsWay(update[v])'
      BY <1>1, <1>3, <2>1, <2>2 DEF OnItsWay
    <3> QED BY <3>1
  <2>3. CASE v = u
    <3>1. update[u].path = Ahead(order.status, "delivered")
      BY <1>1, <2>1, <2>3 DEF OnItsWay
    <3>2. order.status \in Stages \ {"delivered"}
      BY DEF Ended, Carried, IInv, Typed, Order, Statuses
    <3>3. Head(update[u].path) = NextStage(order.status)
      BY <3>1, <3>2, WayToTheDoor
    <3>4. valid
      BY <3>2, <3>3 DEF valid, VALID_TRANSITIONS, Stages
    <3>5. OnItsWay(update[u])'
      BY <1>1, <1>3, <1>6, <3>1, <3>4 DEF OnItsWay
    <3> QED BY <3>5
  <2> QED BY <2>2, <2>3
<1> QED BY <1>7, <1>8

LEMMA SaveCarried == ASSUME Carried, NEW u \in Updates, SaveOrder(u) PROVE SaversFresh' /\ Reaching'
<1>1. /\ update[u].at = "save" /\ UNCHANGED <<trip>> /\ met' = (met \/ Others(u))
      /\ order'.status = Head(update[u].path)
  BY DEF SaveOrder, Unmoved, Shown
<1>2. PICK x : /\ update' = [update EXCEPT ![u] = x] /\ x.at \in {"idle", "load"}
               /\ Len(update[u].path) # 1 => x = [at |-> "load", path |-> Tail(update[u].path)]
  <2>1. CASE Len(update[u].path) = 1
    BY <2>1, AtRest DEF SaveOrder, Stop
  <2>2. CASE Len(update[u].path) # 1
    <3>1. update' = [update EXCEPT ![u] = [at |-> "load", path |-> Tail(update[u].path)]]
      BY <2>2 DEF SaveOrder, Carried, IInv, Typed
    <3> QED BY <2>2, <3>1
  <2> QED BY <2>1, <2>2
<1>3. update'[u] = x /\ \A v \in Updates : v # u => update'[v] = update[v]
  BY <1>2, OneMoves DEF Carried
<1>4. ~met' => ~met /\ \A v \in Updates : v # u => update[v].at = "idle"
  BY <1>1 DEF Others, Carried, IInv, Typed
<1>5. SaversFresh'
  BY <1>2, <1>3, <1>4 DEF SaversFresh
<1>6. Reaching'
  <2> SUFFICES ASSUME ~met', "delivered" \in trip.timeline, ~Ended'
               PROVE  OnItsWay(update[u])'
    BY <1>1 DEF Reaching
  <2>1. ~Ended
    BY <1>1, <1>4 DEF Carried, SaversFresh
  <2>2. PICK v \in Updates : OnItsWay(update[v])
    BY <1>4, <2>1 DEF Carried, Reaching
  <2>3. v = u
    BY <1>4, <2>2 DEF OnItsWay
  <2>4. update[u].path = Ahead(order.status, "delivered")
    BY <1>1, <2>2, <2>3 DEF OnItsWay
  <2>5. order.status \in Stages \ {"delivered"}
    BY <2>1 DEF Ended, Carried, IInv, Typed, Order, Statuses
  <2>6. order'.status = NextStage(order.status)
    BY <1>1, <2>4, <2>5, WayToTheDoor
  <2>7. Len(update[u].path) # 1
    BY <2>4, <2>5, <2>6, WayToTheDoor DEF Ended
  <2>8. Tail(update[u].path) = Ahead(order'.status, "delivered")
    BY <2>4, <2>5, <2>6, WayToTheDoor
  <2>9. update'[u] = [at |-> "load", path |-> Ahead(order'.status, "delivered")]
    BY <1>2, <1>3, <2>7, <2>8
  <2> QED BY <2>9 DEF OnItsWay
<1> QED BY <1>5, <1>6

LEMMA CancelCarried == ASSUME Carried, NEW u \in Updates, CancelSave(u) PROVE SaversFresh' /\ Reaching'
<1>1. /\ update' = [update EXCEPT ![u] = Quiet] /\ met' = (met \/ Others(u))
      /\ order'.status = "cancelled"
  BY DEF CancelSave, Stop, Shown
<1>2. update'[u] = Quiet /\ \A v \in Updates : v # u => update'[v] = update[v]
  BY <1>1, OneMoves DEF Carried
<1>3. ~met' => \A v \in Updates : v # u => update[v].at = "idle"
  BY <1>1 DEF Others
<1>4. SaversFresh'
  BY <1>2, <1>3, AtRest DEF SaversFresh
<1>5. Reaching'
  BY <1>1 DEF Reaching, Ended
<1> QED BY <1>4, <1>5

(* The step that delivers begins the update that carries it.               *)
LEMMA SaveTripCarried ==
  ASSUME Carried, NEW c \in Calls, NEW u \in Updates, SaveTrip(c, u) PROVE SaversFresh' /\ Reaching'
<1> DEFINE to == call[c].to
<1>1. UNCHANGED <<order, met>> /\ trip'.timeline = trip.timeline \cup {to}
  BY DEF SaveTrip, Carried, IInv, Typed, Trip
<1>2. CASE to = "arrived_at_darkstore"
  <2>1. "delivered" \in trip'.timeline => "delivered" \in trip.timeline
    BY <1>1, <1>2
  <2>2. UNCHANGED update
    BY <1>2 DEF SaveTrip
  <2> QED BY <1>1, <2>1, <2>2, BeginningStep DEF Beginning
<1>3. CASE to # "arrived_at_darkstore"
  <2>1. PICK x : /\ x = [at |-> "read", path |-> <<RIDER_TO_CUSTOMER_STATUS(to)>>]
                 /\ update[u].at = "idle" /\ update' = [update EXCEPT ![u] = x]
    BY <1>3 DEF SaveTrip, Begin
  <2>2. update'[u] = x /\ \A v \in Updates : v # u => update'[v] = update[v]
    BY <2>1, OneMoves DEF Carried
  <2>3. CASE to # "delivered"
    <3>1. "delivered" \in trip'.timeline => "delivered" \in trip.timeline
      BY <1>1, <2>3
    <3>2. \A v \in Updates : \/ update'[v] = update[v]
                             \/ update[v].at = "idle" /\ update'[v].at # "save"
      BY <2>1, <2>2
    <3>3. Beginning
      BY <1>1, <3>1, <3>2 DEF Beginning
    <3> QED BY <3>3, BeginningStep
  <2>4. CASE to = "delivered"
    <3>1. SaversFresh'
      BY <1>1, <2>1, <2>2 DEF Carried, SaversFresh, Ended
    <3>2. x = [at |-> "read", path |-> <<"delivered">>]
      BY <2>1, <2>4 DEF RIDER_TO_CUSTOMER_STATUS
    <3>3. OnItsWay(update[u])'
      BY <2>2, <3>2 DEF OnItsWay
    <3> QED BY <3>1, <3>3 DEF Reaching
  <2> QED BY <2>3, <2>4
<1> QED BY <1>2, <1>3

(* The other steps only begin updates, fail one, or move a request.        *)
LEMMA BeginCarried ==
  ASSUME Carried, NEW u \in Updates, NEW label \in {"link", "load", "cancel"}, NEW path,
         Begin(u, label, path), UNCHANGED <<order, met>>, trip'.timeline = trip.timeline
  PROVE  SaversFresh' /\ Reaching'
<1>1. PICK x : x = [at |-> label, path |-> path] /\ x.at # "save" /\ update[u].at = "idle"
               /\ update' = [update EXCEPT ![u] = x]
  BY DEF Begin
<1>2. \A v \in Updates : \/ update'[v] = update[v]
                         \/ update[v].at = "idle" /\ update'[v].at # "save"
  BY <1>1, OneMoves DEF Carried
<1>3. Beginning
  BY <1>2 DEF Beginning
<1> QED BY <1>3, BeginningStep

(* A step that shows nothing keeps what is carried. *)
LEMMA IdleCarried ==
  ASSUME Carried, UNCHANGED <<order, met, update>>, trip'.timeline = trip.timeline
  PROVE  SaversFresh' /\ Reaching'
BY BeginningStep DEF Beginning

(* Every step keeps what is carried. *)
LEMMA StepCarried == Carried /\ [Next]_vars => Carried'
<1> SUFFICES ASSUME Carried, [Next]_vars PROVE SaversFresh' /\ Reaching'
  BY StepIInv DEF Carried
<1>1. CASE UNCHANGED vars
  BY <1>1, IdleCarried DEF vars
<1>2. ASSUME NEW u \in Updates, NEW s \in Statuses,
             DarkstorePropagates(u, s) \/ UpdateStatus(u, s) \/ CancelCheck(u)
      PROVE  SaversFresh' /\ Reaching'
  BY <1>2, BeginCarried DEF DarkstorePropagates, UpdateStatus, CancelCheck, Unmoved
<1>3. ASSUME NEW u \in Updates, NEW r \in Riders, Assign(u, r) PROVE SaversFresh' /\ Reaching'
  <2>1. UNCHANGED <<order, met>> /\ trip'.timeline = trip.timeline
    BY <1>3 DEF Assign, Carried, IInv, Typed, Trip
  <2> QED BY <1>3, <2>1, BeginCarried, IdleCarried DEF Assign
<1>4. ASSUME NEW u \in Updates, UpdateFails(u) PROVE SaversFresh' /\ Reaching'
  BY <1>4 DEF UpdateFails, SaversFresh, Reaching
<1>5. ASSUME NEW c \in Calls, NEW r \in Riders, RiderRequest(c, r) PROVE SaversFresh' /\ Reaching'
  <2>1. UNCHANGED <<order, trip, update, met>>
    BY <1>5 DEF RiderRequest, AcceptOrder, RejectOrder, MarkArrivedAtDarkstore, MarkPicked,
                MarkArrivedAtCustomer, MarkOutForDelivery, MarkDelivered, LoadTrip
  <2> QED BY <2>1, IdleCarried
<1>6. ASSUME NEW c \in Calls, RiderAnswer(c) PROVE SaversFresh' /\ Reaching'
  <2>1. UNCHANGED <<order, update, met>> /\ trip'.timeline = trip.timeline
    BY <1>6 DEF RiderAnswer, SaveAccept, SaveReject, LoadRider, NoRiderFound, SaveRider, CallFails,
                Answer, Written,
                Carried, IInv, Typed, Trip
  <2> QED BY <2>1, IdleCarried
<1>7. ASSUME NEW r \in Riders, ClearOpenOrders(r) PROVE SaversFresh' /\ Reaching'
  <2>1. UNCHANGED <<order, update, met>> /\ trip'.timeline = trip.timeline
    BY <1>7 DEF ClearOpenOrders, Carried, IInv, Typed, Trip
  <2> QED BY <2>1, IdleCarried
<1>8. ASSUME NEW u \in Updates, Propagation(u) PROVE SaversFresh' /\ Reaching'
  BY <1>8, LinkCarried, ReadCarried, LoadCarried, SaveCarried, CancelCarried DEF Propagation
<1>9. "pending" \in Statuses
  BY DEF Statuses, Stages
<1> QED BY <1>1, <1>2, <1>3, <1>4, <1>5, <1>6, <1>7, <1>8, <1>9, SaveTripCarried DEF Next

(* Once a delivered trip's updates have run, none into another or a        *)
(* failure, the customer's order has ended.                                *)
THEOREM DeliveriesArrive == Spec => []DeliveryReachesCustomer
<1>1. Carried => DeliveryReachesCustomer
  BY DEF Carried, Reaching, OnItsWay, DeliveryReachesCustomer
<1> QED BY <1>1, InitCarried, StepCarried, PTL DEF Spec
=============================================================================
