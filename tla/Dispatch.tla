------------------------------ MODULE Dispatch ------------------------------
(* Orders of the warehouse given to riders: one by one, by the batch, as a *)
(* cluster (dispatchService), or through the warehouse's own assignOrder.  *)
(* An assignment loads the order and the rider, then saves both at once;   *)
(* either save may fail alone.  A rider's load is saved absolutely.        *)
(* order.save() rewrites the sorted timeline, so Mongoose refuses it if    *)
(* another order.save() came first ("stale"); the warehouse updates the    *)
(* collection directly and never is.                                       *)
EXTENDS Naturals, FiniteSets

CONSTANTS Orders, NoOrder, Fleet, NoOne, Dispatchers,
          MaxLoad,  \* Rider.capacity.maxLoad, 5 by default
          Moves,    \* what the darkstore does to orders, "underway" and "gone"
          AutoLoad  \* criteria.maxOrdersPerRider

ASSUME NobodyAssumption == NoOne \notin Fleet /\ NoOrder \notin Orders
ASSUME LoadAssumption == MaxLoad \in Nat \ {0} /\ AutoLoad \in Nat \ {0}
ASSUME OrdersAssumption == IsFiniteSet(Orders) /\ Moves \subseteq {"underway", "gone"}

VARIABLES warehouseOrder, \* [status, rider, timeline]: the riders its timeline names
          load,           \* Rider.capacity.currentLoad
          cluster,        \* [status, rider, orders]
          desk,           \* what each dispatcher is doing and has loaded
          disturbed,      \* has a call overlapped another, or stopped half way?
          crossed         \* has a call on the cluster overlapped another one?

dispatchVars == <<warehouseOrder, load, cluster, desk, disturbed, crossed>>

(* pending is what the batch looks for; underway stands for the other      *)
(* statuses that can be assigned, gone for the rest.  The warehouse names  *)
(* four more than the dispatcher, but no schema of the collection has them. *)
Assignable == {"pending", "assigned", "underway"}
NoCluster == [status |-> "none", rider |-> NoOne, orders |-> {}]
Deleted == [NoCluster EXCEPT !.status = "deleted"]
NoDoc == [status |-> "none", rider |-> NoOne, timeline |-> {}]
Off == [at |-> "idle", kind |-> "one", left |-> {}, spare |-> [r \in Fleet |-> 0],
        order |-> NoOrder, to |-> NoOne, doc |-> NoDoc,
        base |-> 0, prevBase |-> 0, writes |-> {}, stale |-> FALSE, created |-> FALSE,
        missed |-> FALSE, made |-> FALSE, cluster |-> NoCluster]

DispatchInit == /\ warehouseOrder = [o \in Orders |-> NoDoc]
                /\ load = [r \in Fleet |-> 0]
                /\ cluster = NoCluster
                /\ desk = [d \in Dispatchers |-> Off]
                /\ disturbed = FALSE /\ crossed = FALSE

Sits(d, label) == desk[d].at = label
Busy(d, kinds) == ~Sits(d, "idle") /\ desk[d].kind \in kinds
Take(d, x) == /\ Sits(d, "idle") /\ desk' = [desk EXCEPT ![d] = x]
               /\ disturbed' = (disturbed \/ \E e \in Dispatchers : ~Sits(e, "idle"))
Set(d, x) == desk' = [desk EXCEPT ![d] = x]
Only(order) == [Off EXCEPT !.at = "order", !.order = order]
Crossing == crossed' = (crossed \/ \E e \in Dispatchers : Busy(e, {"group", "edit"}))

(* After one order of a call: the next, the cluster, or the answer.        *)
Onward(x) == IF x.left # {}
             THEN [x EXCEPT !.at = "pick", !.order = NoOrder, !.doc = NoDoc, !.base = 0, !.stale = FALSE,
                            !.to = IF x.kind = "batch" THEN NoOne ELSE @]
             ELSE IF x.kind = "group" /\ x.made THEN [x EXCEPT !.at = "cluster"] ELSE Off
Missed(d) == Set(d, Onward([desk[d] EXCEPT !.missed = TRUE, !.writes = {}]))

-----------------------------------------------------------------------------
(* The calls.  createManualOrder stores the rider with the order and then  *)
(* assigns it; the batch finds its orders and riders once.                 *)
CreateManualOrder(d, o, r) ==
  /\ warehouseOrder[o].status = "none"
  /\ warehouseOrder' = [warehouseOrder EXCEPT ![o].status = "pending", ![o].rider = r]
  /\ IF r = NoOne THEN UNCHANGED <<desk, disturbed>>
     ELSE Take(d, [Only(o) EXCEPT !.to = r, !.created = TRUE])
  /\ UNCHANGED <<load, cluster, crossed>>
AssignOrder(d, o, r, kind) ==
  /\ warehouseOrder[o].status # "none" /\ kind \in {"one", "warehouse"}
  /\ Take(d, [Only(o) EXCEPT !.to = r, !.kind = kind])
  /\ UNCHANGED <<warehouseOrder, load, cluster, crossed>>
BatchAssignOrders(d, these) ==
  LET found == {o \in these : warehouseOrder[o].status = "pending"}
  IN /\ found # {} /\ \E r \in Fleet : load[r] < MaxLoad /\ load[r] < AutoLoad
     /\ Take(d, [Off EXCEPT !.at = "pick", !.kind = "batch", !.left = found, !.spare = load])
     /\ UNCHANGED <<warehouseOrder, load, cluster, crossed>>
AssignCluster(d, r) ==
  /\ cluster.orders # {} /\ (cluster.status = "assigned" => cluster.rider \in {NoOne, r})
  /\ load[r] + Cardinality(cluster.orders) <= MaxLoad
  /\ Take(d, [Off EXCEPT !.at = "pick", !.kind = "group", !.left = cluster.orders, !.to = r,
                          !.cluster = cluster])
  /\ Crossing /\ UNCHANGED <<warehouseOrder, load, cluster>>

(* The batch takes the rider that scores best among those its own copy     *)
(* finds suitable; distance and zone may leave none.                       *)
Suitable(d) == {r \in Fleet : desk[d].spare[r] < MaxLoad /\ desk[d].spare[r] < AutoLoad}
PickForBatch(d, o, r) ==
  /\ Sits(d, "pick") /\ desk[d].kind = "batch" /\ o \in desk[d].left /\ r \in Suitable(d)
  /\ Set(d, [desk[d] EXCEPT !.at = "order", !.order = o, !.to = r, !.left = @ \ {o}])
  /\ UNCHANGED <<warehouseOrder, load, cluster, disturbed, crossed>>
PickNobody(d, o) ==
  /\ Sits(d, "pick") /\ desk[d].kind = "batch" /\ o \in desk[d].left
  /\ Set(d, Onward([desk[d] EXCEPT !.left = @ \ {o}]))
  /\ UNCHANGED <<warehouseOrder, load, cluster, disturbed, crossed>>
PickOfCluster(d, o) ==
  /\ Sits(d, "pick") /\ desk[d].kind = "group" /\ o \in desk[d].left
  /\ Set(d, [desk[d] EXCEPT !.at = "order", !.order = o, !.left = @ \ {o}])
  /\ UNCHANGED <<warehouseOrder, load, cluster, disturbed, crossed>>

-----------------------------------------------------------------------------
(* One assignment.  The batch checks nothing of what it loads; only the    *)
(* warehouse loads the rider the order had, to take one off its load.      *)
Refuse(d) == Missed(d) /\ disturbed' = (disturbed \/ desk[d].created)
LoadOrderDoc(d) ==
  /\ Sits(d, "order")
  /\ LET doc == warehouseOrder[desk[d].order]
     IN IF desk[d].kind # "batch" /\ doc.status \notin Assignable THEN Refuse(d)
        ELSE Set(d, [desk[d] EXCEPT !.at = "rider", !.doc = doc]) /\ UNCHANGED disturbed
  /\ UNCHANGED <<warehouseOrder, load, cluster, crossed>>
RelievesAnyone(x) == x.kind = "warehouse" /\ x.doc.rider # NoOne
Relieves(x) == x.kind = "warehouse" /\ x.doc.rider \notin {NoOne, x.to}
LoadRiderDoc(d) ==
  /\ Sits(d, "rider")
  /\ LET x == desk[d] now == load[x.to]
     IN IF x.kind # "batch" /\ now >= MaxLoad THEN Refuse(d)
        ELSE /\ Set(d, [x EXCEPT !.base = now, !.at = IF Relieves(x) THEN "previous" ELSE "save",
                                 !.writes = {"order", "rider"}])
             /\ UNCHANGED disturbed
  /\ UNCHANGED <<warehouseOrder, load, cluster, crossed>>
LoadPrevious(d) ==
  /\ Sits(d, "previous")
  /\ Set(d, [desk[d] EXCEPT !.prevBase = load[desk[d].doc.rider], !.at = "save",
                            !.writes = @ \cup {"previous"}])
  /\ UNCHANGED <<warehouseOrder, load, cluster, disturbed, crossed>>
(* The warehouse also refuses riders that are offline and late orders.     *)
WarehouseRefuses(d) ==
  /\ desk[d].kind = "warehouse" /\ desk[d].at \in {"rider", "previous"} /\ Refuse(d)
  /\ UNCHANGED <<warehouseOrder, load, cluster, crossed>>

(* Promise.all of the saves: each lands or fails, in any order.            *)
Landed(x, w) == IF x.writes # {w} THEN [x EXCEPT !.writes = @ \ {w}]
                ELSE Onward([x EXCEPT !.writes = {}, !.made = TRUE,
                               !.spare[x.to] = IF x.kind = "batch" THEN @ + 1 ELSE @])
Given(x, now) == [status |-> IF x.doc.status = "assigned" THEN now.status ELSE "assigned",
                  rider |-> IF x.doc.rider = x.to THEN now.rider ELSE x.to,
                  timeline |-> x.doc.timeline \cup {x.to}]
HoldsCopy(e, o) == /\ desk[e].order = o /\ desk[e].at \in {"rider", "save", "alert"}
                   /\ desk[e].kind # "warehouse"
OthersStale(d, y) == desk' = [e \in Dispatchers |->
                       IF e = d THEN y ELSE [desk[e] EXCEPT !.stale = @ \/ HoldsCopy(e, desk[d].order)]]
SaveOrderDoc(d) ==
  LET x == desk[d]
  IN /\ Sits(d, "save") /\ "order" \in x.writes /\ x.kind # "warehouse" /\ ~x.stale
     /\ warehouseOrder' = [warehouseOrder EXCEPT ![x.order] = Given(x, @)]
     /\ OthersStale(d, Landed(x, "order"))
     /\ UNCHANGED <<load, cluster, disturbed, crossed>>
UpdateOrder(d) ==
  LET x == desk[d]
  IN /\ Sits(d, "save") /\ "order" \in x.writes /\ x.kind = "warehouse"
     /\ warehouseOrder' = [warehouseOrder EXCEPT ![x.order] =
                            [status |-> "assigned", rider |-> x.to, timeline |-> @.timeline \cup {x.to}]]
     /\ Set(d, Landed(x, "order")) /\ UNCHANGED <<load, cluster, disturbed, crossed>>
SaveRiderDoc(d) ==
  LET x == desk[d]
  IN /\ Sits(d, "save") /\ "rider" \in x.writes /\ x.base + 1 <= MaxLoad
     /\ load' = [load EXCEPT ![x.to] = x.base + 1]
     /\ Set(d, Landed(x, "rider")) /\ UNCHANGED <<warehouseOrder, cluster, disturbed, crossed>>
SavePreviousBelow(d) ==
  LET x == desk[d]
  IN /\ Sits(d, "save") /\ "previous" \in x.writes
     /\ load' = [load EXCEPT ![x.doc.rider] = x.prevBase - 1]
     /\ Set(d, Landed(x, "previous")) /\ UNCHANGED <<warehouseOrder, cluster, disturbed, crossed>>
SavePrevious(d) ==
  LET x == desk[d]
  IN /\ Sits(d, "save") /\ "previous" \in x.writes
     /\ load' = [load EXCEPT ![x.doc.rider] = IF x.prevBase > 0 THEN x.prevBase - 1 ELSE @]
     /\ Set(d, Landed(x, "previous")) /\ UNCHANGED <<warehouseOrder, cluster, disturbed, crossed>>
(* A stale copy, a load above the maximum or the database refuses a save.  *)
SaveFails(d) == /\ Sits(d, "save") /\ Missed(d) /\ disturbed' = TRUE
                /\ UNCHANGED <<warehouseOrder, load, cluster, crossed>>

-----------------------------------------------------------------------------
(* assignClusterToRider saves the fields that differ from what it loaded.  *)
SaveClusterAssigned(d) ==
  /\ Sits(d, "cluster") /\ Set(d, Off)
  /\ cluster' = IF desk[d].cluster = Deleted THEN cluster
                ELSE [cluster EXCEPT !.status = "assigned", !.rider = desk[d].to]
  /\ UNCHANGED <<warehouseOrder, load, disturbed, crossed>>
SaveCluster(d) ==
  LET x == desk[d] status == IF x.missed THEN "active" ELSE "assigned"
  IN /\ Sits(d, "cluster") /\ Set(d, Off)
     /\ cluster' = IF x.cluster = Deleted THEN cluster
                   ELSE [cluster EXCEPT !.status = IF status = x.cluster.status THEN @ ELSE status,
                                        !.rider = IF x.to = x.cluster.rider THEN @ ELSE x.to]
     /\ UNCHANGED <<warehouseOrder, load, disturbed, crossed>>

(* saveClusters writes a cluster whatever it was; updateClusterOrders      *)
(* loads it, finds the orders, and saves it if no other update came first. *)
SaveClusters(these) ==
  /\ these # {} /\ cluster' = [cluster EXCEPT !.status = "active", !.orders = these]
  /\ Crossing /\ UNCHANGED <<warehouseOrder, load, desk, disturbed>>
UpdateClusterLoad(d, these) ==
  /\ cluster.status = "active" /\ (\A o \in these : warehouseOrder[o].status # "none")
  /\ Sits(d, "idle")
  /\ Set(d, [Off EXCEPT !.at = "edit", !.kind = "edit", !.left = these, !.cluster = cluster])
  /\ Crossing /\ UNCHANGED <<warehouseOrder, load, cluster, disturbed>>
UpdateClusterSave(d) ==
  /\ Sits(d, "edit")
  /\ IF desk[d].cluster = Deleted \/ desk[d].stale THEN Set(d, Off) /\ UNCHANGED cluster
     ELSE /\ cluster' = [cluster EXCEPT !.orders = desk[d].left]
          /\ desk' = [e \in Dispatchers |-> IF e = d THEN Off
                       ELSE [desk[e] EXCEPT !.stale = @ \/ Sits(e, "edit")]]
  /\ UNCHANGED <<warehouseOrder, load, disturbed, crossed>>
DeleteCluster ==
  /\ cluster.status # "none" /\ cluster' = NoCluster
  /\ desk' = [e \in Dispatchers |-> [desk[e] EXCEPT !.cluster =
                                       IF Busy(e, {"group", "edit"}) THEN Deleted ELSE @]]
  /\ Crossing /\ UNCHANGED <<warehouseOrder, load, disturbed>>

(* alertOrder loads an order and saves it as delayed; its copy of the      *)
(* timeline may lack what the warehouse has added since.                   *)
AlertOrder(d, o) ==
  /\ warehouseOrder[o].status # "none" /\ Sits(d, "idle")
  /\ Set(d, [Only(o) EXCEPT !.at = "alert", !.kind = "alert", !.doc = warehouseOrder[o]])
  /\ UNCHANGED <<warehouseOrder, load, cluster, disturbed, crossed>>
SaveAlert(d) ==
  LET x == desk[d]
  IN /\ Sits(d, "alert")
     /\ IF x.stale THEN Set(d, Off) /\ UNCHANGED warehouseOrder
        ELSE /\ warehouseOrder' = [warehouseOrder EXCEPT ![x.order].status = "underway",
                                                        ![x.order].timeline = x.doc.timeline]
             /\ OthersStale(d, Off)
     /\ UNCHANGED <<load, cluster, disturbed, crossed>>

(* The darkstore's handlers write the status alone, after a look at their  *)
(* own copy: updateOrder moves an order on, markRTO and cancelOrder end    *)
(* it.  Nobody lowers the rider's load then.                               *)
OthersMove(o, s) ==
  /\ warehouseOrder[o].status # "none"
  /\ warehouseOrder' = [warehouseOrder EXCEPT ![o].status = s]
  /\ UNCHANGED <<load, cluster, desk, disturbed, crossed>>
Quit(d) == /\ ~Sits(d, "idle") /\ Set(d, Off) /\ disturbed' = TRUE
           /\ UNCHANGED <<warehouseOrder, load, cluster, crossed>>

-----------------------------------------------------------------------------
Starts(d) == \/ \E o \in Orders, r \in Fleet \cup {NoOne} : CreateManualOrder(d, o, r)
             \/ \E o \in Orders, r \in Fleet, kind \in {"one", "warehouse"} : AssignOrder(d, o, r, kind)
             \/ \E o \in Orders : AlertOrder(d, o)
             \/ \E these \in SUBSET Orders : BatchAssignOrders(d, these) \/ UpdateClusterLoad(d, these)
             \/ \E r \in Fleet : AssignCluster(d, r)
Works(d) == \/ \E o \in Orders : PickOfCluster(d, o) \/ PickNobody(d, o)
            \/ \E o \in Orders, r \in Fleet : PickForBatch(d, o, r)
            \/ LoadOrderDoc(d) \/ LoadRiderDoc(d) \/ LoadPrevious(d) \/ WarehouseRefuses(d)
            \/ SaveOrderDoc(d) \/ UpdateOrder(d) \/ SaveRiderDoc(d) \/ SavePrevious(d) \/ SaveFails(d)
            \/ SaveCluster(d) \/ UpdateClusterSave(d) \/ SaveAlert(d) \/ Quit(d)
DispatchNext == \/ \E d \in Dispatchers : Starts(d) \/ Works(d)
                \/ \E these \in SUBSET Orders : SaveClusters(these)
                \/ DeleteCluster
                \/ \E o \in Orders, s \in Moves : OthersMove(o, s)
DispatchSpec == DispatchInit /\ [][DispatchNext]_dispatchVars

-----------------------------------------------------------------------------
OrderDoc == [status : Assignable \cup {"none", "gone"}, rider : Fleet \cup {NoOne}, timeline : SUBSET Fleet]
ClusterDoc == [status : {"none", "active", "assigned", "deleted"}, rider : Fleet \cup {NoOne},
               orders : SUBSET Orders]
Desk == [at : {"idle", "pick", "order", "rider", "previous", "save", "cluster", "edit", "alert"},
         kind : {"one", "warehouse", "batch", "group", "edit", "alert"}, left : SUBSET Orders,
         spare : [Fleet -> Nat], order : Orders \cup {NoOrder}, to : Fleet \cup {NoOne},
         doc : OrderDoc, base : 0..MaxLoad, prevBase : 0..MaxLoad,
         writes : SUBSET {"order", "rider", "previous"}, stale : BOOLEAN, created : BOOLEAN,
         missed : BOOLEAN, made : BOOLEAN, cluster : ClusterDoc]
DispatchTypeOK ==
  /\ warehouseOrder \in [Orders -> OrderDoc]
  /\ load \in [Fleet -> 0..MaxLoad]
  /\ cluster \in ClusterDoc
  /\ desk \in [Dispatchers -> Desk]
  /\ disturbed \in BOOLEAN /\ crossed \in BOOLEAN

(* As long as calls neither overlap nor stop half way, a rider's load is   *)
(* at least the number of orders the rider has, so that the capacity check *)
(* counts them all, whichever way they were assigned, moved or reassigned. *)
OrdersOf(r) == {o \in Orders : warehouseOrder[o].rider = r}
LoadCoversOrders ==
  ~disturbed /\ (\A d \in Dispatchers : Sits(d, "idle")) =>
    \A r \in Fleet : load[r] >= Cardinality(OrdersOf(r))

(* A cluster that says it is assigned had every one of its orders given to *)
(* its rider, though its orders are assigned one by one, may each fail,    *)
(* and are given away by others meanwhile; unless calls on it overlap.     *)
GroupIsAssigned ==
  cluster.status = "assigned" /\ ~crossed =>
    \A o \in cluster.orders : cluster.rider \in warehouseOrder[o].timeline
=============================================================================
