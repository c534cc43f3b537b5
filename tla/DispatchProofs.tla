--------------------------- MODULE DispatchProofs ---------------------------
(* Theorems about Dispatch.  Orders are saved from copies, so the timeline *)
(* of an order could lose the rider it was given to.  What keeps it is     *)
(* that an order.save() makes every other copy stale: the invariant says   *)
(* which riders each copy that may still be saved has to know of.  A load  *)
(* is saved apart from the order, from copies too: the second invariant    *)
(* says what it covers between the saves of one assignment.                *)
EXTENDS Dispatch, FiniteSetTheorems, TLAPS

(* What a label expects of the call that is at it.                         *)
Fits(x) ==
  /\ x.at \in {"order", "rider", "previous", "save"} => x.order \in Orders /\ x.to \in Fleet
  /\ x.at \in {"pick", "cluster"} /\ x.kind = "group" => x.to \in Fleet
  /\ x.at = "previous" => x.kind = "warehouse"
  /\ x.at = "previous" \/ (x.at = "save" /\ "previous" \in x.writes) => x.doc.rider \in Fleet
  /\ x.at = "cluster" => x.kind = "group" /\ x.left = {}
  /\ x.at = "edit" <=> x.at # "idle" /\ x.kind = "edit"
  /\ x.at = "edit" => x.cluster.status \in {"active", "deleted"}
  /\ x.at = "alert" <=> x.at # "idle" /\ x.kind = "alert"
  /\ x.at = "alert" => x.order \in Orders
AllFit == \A d \in Dispatchers : Fits(desk[d])

(* Without crossing, one call is on the cluster, which is as it loaded it. *)
Alone == ~crossed => \A d \in Dispatchers : Busy(d, {"group", "edit"}) =>
  /\ desk[d].cluster = cluster
  /\ \A e \in Dispatchers : Busy(e, {"group", "edit"}) => e = d

(* The copy of an order that x may still save.                             *)
Writes(x, o) == /\ x.order = o /\ x.at \in {"rider", "save", "alert"} /\ x.kind # "warehouse" /\ ~x.stale
                /\ x.at = "save" => "order" \in x.writes
Remembered(o, r) == /\ r \in warehouseOrder[o].timeline
                    /\ \A e \in Dispatchers : Writes(desk[e], o) => r \in desk[e].doc.timeline

(* The orders of its cluster that x has given to its rider.                *)
Ahead(x) == x.left \cup IF x.at \in {"order", "rider", "previous"} \/ (x.at = "save" /\ "order" \in x.writes)
                        THEN {x.order} ELSE {}
Done(x) == x.cluster.orders \ Ahead(x)
Progress == ~crossed => \A d \in Dispatchers : Busy(d, {"group"}) /\ ~desk[d].missed =>
              \A o \in Done(desk[d]) : Remembered(o, desk[d].to)
Kept == ~crossed /\ cluster.status = "assigned" => \A o \in cluster.orders : Remembered(o, cluster.rider)

IInv == DispatchTypeOK /\ AllFit /\ Alone /\ Progress /\ Kept

(* What is not there has its type. *)
LEMMA NothingTyped == NoDoc \in OrderDoc /\ NoCluster \in ClusterDoc
BY DEF NoDoc, NoCluster, OrderDoc, ClusterDoc, Assignable

(* A free desk holds nothing that could be stale. *)
LEMMA OffFits == Off \in Desk /\ Fits(Off)
BY NobodyAssumption, LoadAssumption DEF Off, Desk, Fits, NoDoc, NoCluster, OrderDoc, ClusterDoc, Assignable

(* Nobody is at work. *)
LEMMA InitIInv == DispatchInit => IInv
<1> SUFFICES ASSUME DispatchInit PROVE IInv
  OBVIOUS
<1>1. DispatchTypeOK
  <2>1. 0 \in 0..MaxLoad
    BY LoadAssumption
  <2> QED BY <2>1, OffFits, NothingTyped DEF DispatchInit, DispatchTypeOK
<1>2. AllFit
  BY OffFits DEF DispatchInit, AllFit
<1>3. \A d \in Dispatchers : ~Busy(d, {"group", "edit"}) /\ ~Busy(d, {"group"})
  BY DEF DispatchInit, Busy, Sits, Off
<1>4. cluster.status # "assigned"
  BY DEF DispatchInit, NoCluster
<1> QED BY <1>1, <1>2, <1>3, <1>4 DEF IInv, Alone, Progress, Kept

-----------------------------------------------------------------------------
(* A step of one call that leaves the cluster and the timelines as they    *)
(* are keeps the invariant, if the copy it may save is the one it had or   *)
(* the order as it stands, and if it does not get ahead on its cluster.    *)
LEMMA DeskStep ==
  ASSUME IInv, NEW d \in Dispatchers, NEW x \in Desk, Set(d, x), Fits(x),
         UNCHANGED <<cluster, crossed>>, disturbed' \in BOOLEAN, load' \in [Fleet -> 0..MaxLoad],
         warehouseOrder' \in [Orders -> OrderDoc],
         \A o \in Orders : warehouseOrder[o].timeline \subseteq warehouseOrder'[o].timeline,
         \A o \in Orders : Writes(x, o) => \/ Writes(desk[d], o) /\ x.doc = desk[d].doc
                                          \/ x.doc = warehouseOrder[o],
         x.at # "idle" /\ x.kind \in {"group", "edit"} =>
           desk[d].at # "idle" /\ desk[d].kind = x.kind /\ x.cluster = desk[d].cluster,
         x.at # "idle" /\ x.kind = "group" /\ ~x.missed =>
           ~desk[d].missed /\ x.to = desk[d].to /\ Done(x) \subseteq Done(desk[d])
  PROVE  IInv'
<1>1. /\ desk \in [Dispatchers -> Desk] /\ desk'[d] = x
      /\ \A e \in Dispatchers \ {d} : desk'[e] = desk[e]
  BY DEF IInv, DispatchTypeOK, Set
<1>2. DispatchTypeOK'
  BY DEF IInv, DispatchTypeOK, Set
<1>3. AllFit'
  BY <1>1 DEF IInv, AllFit, Fits
<1>4. \A e \in Dispatchers : Busy(e, {"group", "edit"})' => Busy(e, {"group", "edit"}) /\ desk'[e].cluster = desk[e].cluster
  BY <1>1 DEF Busy, Sits
<1>5. Alone'
  BY <1>4 DEF IInv, Alone
<1>6. ASSUME NEW o \in Orders, NEW r, Remembered(o, r) PROVE Remembered(o, r)'
  <2>1. \A e \in Dispatchers : Writes(desk'[e], o) => r \in desk'[e].doc.timeline
    BY <1>1, <1>6 DEF Remembered
  <2> QED BY <1>6, <2>1 DEF Remembered, Writes
<1>7. Progress'
  <2> SUFFICES ASSUME ~crossed, NEW e \in Dispatchers, Busy(e, {"group"})', ~desk'[e].missed, NEW o \in Done(desk'[e])
               PROVE  Remembered(o, desk[e].to)' /\ desk'[e].to = desk[e].to
    BY DEF Progress, Remembered, Done, Ahead
  <2>1. /\ Busy(e, {"group"}) /\ ~desk[e].missed /\ desk'[e].to = desk[e].to
        /\ o \in Done(desk[e])
    BY <1>1 DEF Busy, Sits
  <2>2. Remembered(o, desk[e].to)
    BY <2>1 DEF IInv, Progress
  <2>3. o \in Orders
    BY <1>1, <2>1 DEF Done, Desk, ClusterDoc
  <2> QED BY <1>6, <2>1, <2>2, <2>3
<1>8. Kept'
  <2> SUFFICES ASSUME ~crossed, cluster.status = "assigned", NEW o \in cluster.orders
               PROVE  Remembered(o, cluster.rider)'
    BY DEF Kept, Remembered
  <2>1. o \in Orders /\ Remembered(o, cluster.rider)
    BY DEF IInv, Kept, DispatchTypeOK, ClusterDoc
  <2> QED BY <1>6, <2>1
<1> QED BY <1>2, <1>3, <1>5, <1>7, <1>8 DEF IInv

(* The steps of one order of a call.                                       *)
LEMMA OnwardFits ==
  ASSUME NEW x \in Desk, Fits(x), x.at \in {"order", "rider", "previous", "save", "pick"},
         x.kind = "group" => x.to \in Fleet
  PROVE  /\ Onward(x) \in Desk /\ Fits(Onward(x))
         /\ Onward(x).at \in {"pick", "cluster", "idle"}
         /\ Onward(x).at # "idle" => /\ Onward(x).kind = x.kind /\ Onward(x).cluster = x.cluster
                                     /\ Onward(x).missed = x.missed /\ Onward(x).left = x.left
                                     /\ x.kind = "group" => Onward(x).to = x.to
<1>1. CASE x.left # {}
  <2> DEFINE next(t) == [x EXCEPT !.at = "pick", !.order = NoOrder, !.doc = NoDoc, !.base = 0,
                                  !.stale = FALSE, !.to = t]
  <2>1. 0 \in 0..MaxLoad
    BY LoadAssumption
  <2>2. ASSUME NEW t \in Fleet \cup {NoOne}, x.kind = "group" => t \in Fleet
        PROVE  /\ next(t) \in Desk /\ Fits(next(t))
               /\ next(t).at = "pick" /\ next(t).kind = x.kind /\ next(t).cluster = x.cluster
               /\ next(t).missed = x.missed /\ next(t).left = x.left /\ next(t).to = t
    BY <2>1, <2>2, NothingTyped DEF Desk, Fits
  <2>3. x.kind = "batch" => Onward(x) = next(NoOne)
    BY <1>1 DEF Onward
  <2>4. x.kind # "batch" => Onward(x) = next(x.to)
    BY <1>1 DEF Onward
  <2>5. x.to \in Fleet \cup {NoOne}
    BY DEF Desk
  <2> HIDE DEF next
  <2> QED BY <2>2, <2>3, <2>4, <2>5
<1>2. CASE x.left = {} /\ x.kind = "group" /\ x.made
  BY <1>2 DEF Onward, Desk, Fits
<1>3. CASE x.left = {} /\ ~(x.kind = "group" /\ x.made)
  BY <1>3, OffFits DEF Onward, Off
<1> QED BY <1>1, <1>2, <1>3

(* An assignment is given up. *)
LEMMA MissStep ==
  ASSUME IInv, NEW d \in Dispatchers, desk[d].at \in {"order", "rider", "previous", "save"}, Missed(d),
         UNCHANGED <<warehouseOrder, load, cluster, crossed>>, disturbed' \in BOOLEAN
  PROVE  IInv'
<1> DEFINE y == [desk[d] EXCEPT !.missed = TRUE, !.writes = {}]
<1>1. desk[d] \in Desk /\ Fits(desk[d])
  BY DEF IInv, DispatchTypeOK, AllFit
<1>2. y \in Desk /\ Fits(y) /\ y.at = desk[d].at /\ (y.kind = "group" => y.to \in Fleet)
  BY <1>1 DEF Desk, Fits
<1>3. y.kind = desk[d].kind /\ y.cluster = desk[d].cluster /\ y.missed
  BY <1>1 DEF Desk
<1>4. Set(d, Onward(y))
  BY DEF Missed
<1> HIDE DEF y
<1>5. DispatchTypeOK
  BY DEF IInv
<1> QED BY <1>2, <1>3, <1>4, <1>5, OnwardFits, DeskStep DEF Writes, DispatchTypeOK

(* Saves of Promise.all: the call stays until its last save has landed.    *)
LEMMA LandedFits ==
  ASSUME NEW x \in Desk, Fits(x), x.at = "save", NEW w \in x.writes
  PROVE  /\ Landed(x, w) \in Desk /\ Fits(Landed(x, w))
         /\ Landed(x, w).at # "idle" =>
              /\ Landed(x, w).kind = x.kind /\ Landed(x, w).cluster = x.cluster
              /\ Landed(x, w).missed = x.missed /\ Landed(x, w).left = x.left
              /\ x.kind = "group" => Landed(x, w).to = x.to
         /\ \/ Landed(x, w).at \in {"pick", "cluster", "idle"} /\ x.writes = {w}
            \/ Landed(x, w) = [x EXCEPT !.writes = x.writes \ {w}]
<1>1. CASE x.writes # {w}
  BY <1>1 DEF Landed, Desk, Fits
<1>2. CASE x.writes = {w}
  <2> DEFINE y == [x EXCEPT !.writes = {}, !.made = TRUE,
                            !.spare[x.to] = IF x.kind = "batch" THEN @ + 1 ELSE @]
  <2>1. [x.spare EXCEPT ![x.to] = IF x.kind = "batch" THEN @ + 1 ELSE @] \in [Fleet -> Nat]
    BY DEF Desk, Fits
  <2>2. y \in Desk /\ Fits(y) /\ y.at = "save" /\ (y.kind = "group" => y.to \in Fleet)
    BY <2>1 DEF Desk, Fits
  <2>3. /\ y.kind = x.kind /\ y.cluster = x.cluster /\ y.missed = x.missed
        /\ y.left = x.left /\ y.to = x.to
    BY DEF Desk
  <2>4. Landed(x, w) = Onward(y)
    BY <1>2 DEF Landed
  <2> HIDE DEF y
  <2> QED BY <1>2, <2>2, <2>3, <2>4, OnwardFits
<1> QED BY <1>1, <1>2

(* A save that goes past Mongoose's version, or not to the order. *)
LEMMA SaveOtherStep ==
  ASSUME IInv, NEW d \in Dispatchers, SaveRiderDoc(d) \/ SavePrevious(d) \/ UpdateOrder(d)
  PROVE  IInv'
<1>1. PICK w \in {"order", "rider", "previous"} :
        /\ Sits(d, "save") /\ w \in desk[d].writes /\ Set(d, Landed(desk[d], w))
        /\ w = "order" => desk[d].kind = "warehouse"
        /\ UNCHANGED <<cluster, disturbed, crossed>>
  BY DEF SaveRiderDoc, SavePrevious, UpdateOrder
<1>2. DispatchTypeOK /\ desk[d] \in Desk /\ Fits(desk[d]) /\ desk[d].at = "save"
  BY <1>1 DEF IInv, DispatchTypeOK, AllFit, Sits
<1>3. desk[d].to \in Fleet /\ desk[d].base \in 0..MaxLoad /\ desk[d].prevBase \in 0..MaxLoad /\ MaxLoad \in Nat
  BY <1>2, LoadAssumption DEF Desk, Fits
<1>4. load' \in [Fleet -> 0..MaxLoad]
  BY <1>2, <1>3 DEF SaveRiderDoc, SavePrevious, UpdateOrder, DispatchTypeOK
<1>5. /\ warehouseOrder' \in [Orders -> OrderDoc]
      /\ \A o \in Orders : warehouseOrder[o].timeline \subseteq warehouseOrder'[o].timeline
  BY <1>2, <1>3 DEF SaveRiderDoc, SavePrevious, UpdateOrder, DispatchTypeOK, OrderDoc, Assignable
<1>6. \A o : Writes(Landed(desk[d], w), o) =>
        Writes(desk[d], o) /\ Landed(desk[d], w).doc = desk[d].doc
  BY <1>1, <1>2, LandedFits DEF Writes, Desk
<1>7. Landed(desk[d], w).at # "idle" /\ desk[d].kind = "group" => Done(Landed(desk[d], w)) \subseteq Done(desk[d])
  BY <1>1, <1>2, LandedFits DEF Done, Ahead, Desk
<1> QED BY <1>1, <1>2, <1>4, <1>5, <1>6, <1>7, LandedFits, DeskStep DEF DispatchTypeOK

(* The saved copy knew of every rider it had to; every other copy of the   *)
(* order is stale now.                                                     *)
LEMMA DocSaved ==
  ASSUME IInv, NEW d \in Dispatchers, NEW y \in Desk, Fits(y), Writes(desk[d], desk[d].order),
         desk[d].order \in Orders, OthersStale(d, y), \A o \in Orders : ~Writes(y, o),
         UNCHANGED <<load, cluster, disturbed, crossed>>, warehouseOrder' \in [Orders -> OrderDoc],
         \A o \in Orders \ {desk[d].order} : warehouseOrder'[o] = warehouseOrder[o],
         desk[d].doc.timeline \subseteq warehouseOrder'[desk[d].order].timeline,
         y.at # "idle" /\ y.kind \in {"group", "edit"} =>
           desk[d].at # "idle" /\ desk[d].kind = y.kind /\ y.cluster = desk[d].cluster,
         y.at # "idle" /\ y.kind = "group" /\ ~y.missed =>
           /\ ~desk[d].missed /\ y.to = desk[d].to
           /\ Done(y) \subseteq Done(desk[d]) \cup {desk[d].order}
           /\ desk[d].to \in warehouseOrder'[desk[d].order].timeline
  PROVE  IInv'
<1> DEFINE x == desk[d]
<1>1. DispatchTypeOK /\ x \in Desk /\ Writes(x, x.order)
  BY DEF IInv, DispatchTypeOK
<1>4. /\ desk \in [Dispatchers -> Desk] /\ desk'[d] = y
      /\ \A e \in Dispatchers \ {d} : desk'[e] = [desk[e] EXCEPT !.stale = @ \/ HoldsCopy(e, x.order)]
  BY <1>1 DEF OthersStale, DispatchTypeOK
<1>5. \A e \in Dispatchers \ {d} :
        /\ desk'[e] \in Desk /\ Fits(desk'[e])
        /\ desk'[e].at = desk[e].at /\ desk'[e].kind = desk[e].kind /\ desk'[e].cluster = desk[e].cluster
        /\ desk'[e].to = desk[e].to /\ desk'[e].missed = desk[e].missed /\ desk'[e].left = desk[e].left
        /\ desk'[e].order = desk[e].order /\ desk'[e].writes = desk[e].writes /\ desk'[e].doc = desk[e].doc
        /\ \A o : Writes(desk'[e], o) => Writes(desk[e], o) /\ o # x.order
  <2> SUFFICES ASSUME NEW e \in Dispatchers \ {d}
               PROVE  /\ desk'[e] \in Desk /\ Fits(desk'[e])
                      /\ desk'[e].at = desk[e].at /\ desk'[e].kind = desk[e].kind /\ desk'[e].cluster = desk[e].cluster
                      /\ desk'[e].to = desk[e].to /\ desk'[e].missed = desk[e].missed /\ desk'[e].left = desk[e].left
                      /\ desk'[e].order = desk[e].order /\ desk'[e].writes = desk[e].writes
                      /\ desk'[e].doc = desk[e].doc
                      /\ \A o : Writes(desk'[e], o) => Writes(desk[e], o) /\ o # x.order
    OBVIOUS
  <2>1. desk[e] \in Desk /\ Fits(desk[e]) /\ HoldsCopy(e, x.order) \in BOOLEAN
    BY <1>4 DEF IInv, AllFit, HoldsCopy
  <2>2. desk'[e] \in Desk /\ desk'[e] = [desk[e] EXCEPT !.stale = desk[e].stale \/ HoldsCopy(e, x.order)]
    <3>1. desk'[e] = [desk[e] EXCEPT !.stale = desk[e].stale \/ HoldsCopy(e, x.order)]
      BY <1>4
    <3>2. (desk[e].stale \/ HoldsCopy(e, x.order)) \in BOOLEAN
      OBVIOUS
    <3>3. \A b \in BOOLEAN : [desk[e] EXCEPT !.stale = b] \in Desk
      BY <2>1 DEF Desk
    <3> QED BY <3>1, <3>2, <3>3
  <2>3. Fits(desk'[e])
    BY <2>1, <2>2 DEF Fits, Desk
  <2>4. \A o : Writes(desk'[e], o) => Writes(desk[e], o) /\ o # x.order
    BY <2>1, <2>2 DEF Writes, Desk, HoldsCopy
  <2> QED BY <2>1, <2>2, <2>3, <2>4 DEF Desk
<1>8. DispatchTypeOK'
  <2>1. desk' \in [Dispatchers -> Desk]
    BY <1>1, <1>4, <1>5 DEF OthersStale
  <2> QED BY <1>1, <2>1 DEF DispatchTypeOK
<1>9. AllFit'
  BY <1>4, <1>5 DEF AllFit
<1>10. Alone'
  <2>1. \A e \in Dispatchers : Busy(e, {"group", "edit"})' => Busy(e, {"group", "edit"}) /\ desk'[e].cluster = desk[e].cluster
    BY <1>4, <1>5 DEF Busy, Sits
  <2> QED BY <2>1 DEF IInv, Alone
<1>12. \A e \in Dispatchers, o \in Orders :
         Writes(desk'[e], o) => Writes(desk[e], o) /\ desk'[e].doc = desk[e].doc /\ o # x.order
  BY <1>4, <1>5
<1>13. ASSUME NEW o \in Orders, NEW r, Remembered(o, r) PROVE Remembered(o, r)'
  <2>1. r \in warehouseOrder'[o].timeline
    BY <1>1, <1>13 DEF Remembered
  <2>2. \A e \in Dispatchers : Writes(desk'[e], o) => r \in desk'[e].doc.timeline
    BY <1>12, <1>13 DEF Remembered
  <2> QED BY <2>1, <2>2 DEF Remembered, Writes
<1>14. ASSUME NEW o, o = x.order, NEW r, r \in warehouseOrder'[o].timeline PROVE Remembered(o, r)'
  <2>1. \A e \in Dispatchers : ~Writes(desk'[e], o)
    BY <1>12, <1>14
  <2> QED BY <1>14, <2>1 DEF Remembered, Writes
<1>15. Progress'
  <2> SUFFICES ASSUME ~crossed, NEW e \in Dispatchers, Busy(e, {"group"})', ~desk'[e].missed, NEW o \in Done(desk'[e])
               PROVE  Remembered(o, desk[e].to)' /\ desk'[e].to = desk[e].to
    BY DEF Progress, Remembered, Done, Ahead
  <2>1. Busy(e, {"group"}) /\ ~desk[e].missed /\ desk'[e].to = desk[e].to
    BY <1>4, <1>5 DEF Busy, Sits
  <2>2. o \in Done(desk[e]) \/ (e = d /\ o = x.order)
    BY <1>4, <1>5, <2>1 DEF Done, Ahead, Busy, Sits
  <2>3. o \in Orders
    BY <1>4, <1>5 DEF Done, Desk, ClusterDoc
  <2>4. CASE o \in Done(desk[e])
    BY <1>13, <2>1, <2>3, <2>4 DEF IInv, Progress
  <2>5. CASE e = d /\ o = x.order
    <3>1. x.to \in warehouseOrder'[o].timeline
      BY <1>4, <2>5 DEF Busy, Sits
    <3>2. PICK r : r = x.to
      OBVIOUS
    <3>3. Remembered(o, r)'
      BY <1>14, <2>5, <3>1, <3>2
    <3>4. desk'[e].to = r
      BY <2>1, <2>5, <3>2
    <3> QED BY <2>1, <2>5, <3>2, <3>3, <3>4
  <2> QED BY <2>2, <2>4, <2>5
<1>16. Kept'
  <2> SUFFICES ASSUME ~crossed, cluster.status = "assigned", NEW o \in cluster.orders
               PROVE  Remembered(o, cluster.rider)'
    BY DEF Kept, Remembered
  <2>1. o \in Orders /\ Remembered(o, cluster.rider)
    BY <1>1 DEF IInv, Kept, DispatchTypeOK, ClusterDoc
  <2> QED BY <1>13, <2>1
<1> QED BY <1>8, <1>9, <1>10, <1>15, <1>16 DEF IInv

(* An assignment adds its rider to the timeline it saves. *)
LEMMA SaveOrderDocStep ==
  ASSUME IInv, NEW d \in Dispatchers, SaveOrderDoc(d) PROVE IInv'
<1> DEFINE x == desk[d]
           y == Landed(x, "order")
<1>1. DispatchTypeOK /\ x \in Desk /\ Fits(x) /\ x.at = "save" /\ "order" \in x.writes /\ Writes(x, x.order)
  BY DEF IInv, DispatchTypeOK, AllFit, Sits, SaveOrderDoc, Writes
<1>2. x.to \in Fleet /\ x.order \in Orders /\ x.doc \in OrderDoc
  BY <1>1 DEF Fits, Desk
<1>3. /\ y \in Desk /\ Fits(y)
      /\ y.at # "idle" => y.kind = x.kind /\ y.cluster = x.cluster /\ y.missed = x.missed /\ y.left = x.left
      /\ y.at # "idle" /\ x.kind = "group" => y.to = x.to
      /\ \/ y.at \in {"pick", "cluster", "idle"} /\ x.writes = {"order"}
         \/ y = [x EXCEPT !.writes = x.writes \ {"order"}]
  BY <1>1, LandedFits
<1>4. OthersStale(d, y) /\ UNCHANGED <<load, cluster, disturbed, crossed>>
  BY DEF SaveOrderDoc
<1>5. /\ warehouseOrder' \in [Orders -> OrderDoc]
      /\ \A o \in Orders \ {x.order} : warehouseOrder'[o] = warehouseOrder[o]
      /\ warehouseOrder'[x.order].timeline = x.doc.timeline \cup {x.to}
  <2>1. Given(x, warehouseOrder[x.order]) \in OrderDoc
    BY <1>1, <1>2 DEF Given, OrderDoc, DispatchTypeOK, Assignable
  <2> QED BY <1>1, <1>2, <2>1 DEF SaveOrderDoc, Given, DispatchTypeOK
<1> HIDE DEF y
<1>6. \A o : ~Writes(y, o)
  BY <1>1, <1>3 DEF Writes, Desk
<1>7. y.at # "idle" => Done(y) \subseteq Done(x) \cup {x.order}
  BY <1>1, <1>3 DEF Done, Ahead, Desk
<1> QED BY <1>1, <1>2, <1>3, <1>4, <1>5, <1>6, <1>7, DocSaved

(* An alert saves the timeline as it loaded it, or is refused. *)
LEMMA AlertStep ==
  ASSUME IInv, NEW d \in Dispatchers, NEW o \in Orders, AlertOrder(d, o) PROVE IInv'
<1>1. DispatchTypeOK /\ warehouseOrder[o] \in OrderDoc
  BY DEF IInv, DispatchTypeOK
<1>2. PICK y : y = [Only(o) EXCEPT !.at = "alert", !.kind = "alert", !.doc = warehouseOrder[o]]
  OBVIOUS
<1>3. /\ y \in Desk /\ y.at = "alert" /\ y.kind = "alert" /\ y.order = o /\ y.doc = warehouseOrder[o]
  BY <1>1, <1>2, OffFits DEF Only, Desk
<1>4. Fits(y)
  BY <1>3 DEF Fits
<1>5. \A p : Writes(y, p) => y.doc = warehouseOrder[p]
  BY <1>3 DEF Writes
<1>6. Set(d, y) /\ UNCHANGED <<warehouseOrder, load, cluster, disturbed, crossed>>
  BY <1>2 DEF AlertOrder
<1> QED BY <1>1, <1>3, <1>4, <1>5, <1>6, DeskStep DEF DispatchTypeOK
LEMMA SaveAlertStep ==
  ASSUME IInv, NEW d \in Dispatchers, SaveAlert(d) PROVE IInv'
<1> DEFINE x == desk[d]
<1>1. DispatchTypeOK /\ x \in Desk /\ Fits(x) /\ x.at = "alert"
  BY DEF IInv, DispatchTypeOK, AllFit, Sits, SaveAlert
<1>2. x.order \in Orders /\ x.doc \in OrderDoc /\ x.kind = "alert"
  BY <1>1 DEF Fits, Desk
<1>3. UNCHANGED <<load, cluster, disturbed, crossed>>
  BY DEF SaveAlert
<1>4. Off.at = "idle" /\ \A o : ~Writes(Off, o)
  BY DEF Off, Writes
<1>5. CASE x.stale
  <2>1. Set(d, Off) /\ UNCHANGED warehouseOrder
    BY <1>5 DEF SaveAlert
  <2> QED BY <1>1, <1>3, <1>4, <2>1, OffFits, DeskStep DEF DispatchTypeOK
<1>6. CASE ~x.stale
  <2>1. Writes(x, x.order)
    BY <1>1, <1>2, <1>6 DEF Writes
  <2>2. /\ OthersStale(d, Off)
        /\ warehouseOrder' = [warehouseOrder EXCEPT ![x.order].status = "underway",
                                                   ![x.order].timeline = x.doc.timeline]
    BY <1>6 DEF SaveAlert
  <2>3. /\ warehouseOrder' \in [Orders -> OrderDoc]
        /\ \A o \in Orders \ {x.order} : warehouseOrder'[o] = warehouseOrder[o]
        /\ warehouseOrder'[x.order].timeline = x.doc.timeline
    BY <1>1, <1>2, <2>2 DEF OrderDoc, DispatchTypeOK, Assignable
  <2> QED BY <1>2, <1>3, <1>4, <2>1, <2>2, <2>3, OffFits, DocSaved
<1> QED BY <1>5, <1>6

-----------------------------------------------------------------------------
(* The other steps of a call.                                              *)
LEMMA QuitStep == ASSUME IInv, NEW d \in Dispatchers, Quit(d) PROVE IInv'
BY OffFits, DeskStep DEF Quit, Off, Writes, IInv, DispatchTypeOK

(* An assignment is refused. *)
LEMMA RefuseStep ==
  ASSUME IInv, NEW d \in Dispatchers, WarehouseRefuses(d) \/ SaveFails(d) PROVE IInv'
<1>1. disturbed \in BOOLEAN /\ desk[d] \in Desk
  BY DEF IInv, DispatchTypeOK
<1>2. disturbed' \in BOOLEAN
  BY <1>1 DEF WarehouseRefuses, SaveFails, Refuse, Desk
<1> QED BY <1>2, MissStep DEF WarehouseRefuses, SaveFails, Refuse, Sits

(* The next order of the batch or the cluster. *)
LEMMA PickStep ==
  ASSUME IInv, NEW d \in Dispatchers, NEW o \in Orders, NEW r \in Fleet,
         PickOfCluster(d, o) \/ PickForBatch(d, o, r)
  PROVE  IInv'
<1>1. DispatchTypeOK /\ desk[d] \in Desk /\ Fits(desk[d]) /\ desk[d].at = "pick" /\ o \in desk[d].left
  BY DEF IInv, DispatchTypeOK, AllFit, PickOfCluster, PickForBatch, Sits
<1>2. CASE PickOfCluster(d, o)
  <2> DEFINE y == [desk[d] EXCEPT !.at = "order", !.order = o, !.left = @ \ {o}]
  <2>1. /\ Set(d, y) /\ y \in Desk /\ Fits(y) /\ Done(y) \subseteq Done(desk[d]) /\ y.cluster = desk[d].cluster
        /\ y.to = desk[d].to /\ y.kind = desk[d].kind /\ y.missed = desk[d].missed /\ y.at = "order"
    BY <1>1, <1>2 DEF PickOfCluster, Desk, Fits, Done, Ahead
  <2> HIDE DEF y
  <2> QED BY <1>1, <1>2, <2>1, DeskStep DEF PickOfCluster, Writes, DispatchTypeOK
<1>3. CASE PickForBatch(d, o, r)
  <2> DEFINE y == [desk[d] EXCEPT !.at = "order", !.order = o, !.to = r, !.left = @ \ {o}]
  <2>1. Set(d, y) /\ y \in Desk /\ Fits(y) /\ y.kind = "batch" /\ y.at = "order"
    BY <1>1, <1>3 DEF PickForBatch, Desk, Fits
  <2> HIDE DEF y
  <2> QED BY <1>1, <1>3, <2>1, DeskStep DEF PickForBatch, Writes, DispatchTypeOK
<1> QED BY <1>2, <1>3

(* The batch finds no rider. *)
LEMMA PickNobodyStep ==
  ASSUME IInv, NEW d \in Dispatchers, NEW o \in Orders, PickNobody(d, o) PROVE IInv'
<1> DEFINE y == [desk[d] EXCEPT !.left = @ \ {o}]
<1>1. DispatchTypeOK /\ desk[d] \in Desk /\ Fits(desk[d]) /\ desk[d].at = "pick" /\ desk[d].kind = "batch"
  BY DEF IInv, DispatchTypeOK, AllFit, PickNobody, Sits
<1>2. y \in Desk /\ Fits(y) /\ y.at = "pick" /\ y.kind = "batch" /\ Set(d, Onward(y))
  BY <1>1 DEF Desk, Fits, PickNobody
<1> HIDE DEF y
<1> QED BY <1>1, <1>2, OnwardFits, DeskStep DEF PickNobody, Writes, DispatchTypeOK

(* The three loads of one assignment. *)
LEMMA LoadOrderDocStep == ASSUME IInv, NEW d \in Dispatchers, LoadOrderDoc(d) PROVE IInv'
<1>1. DispatchTypeOK /\ desk[d] \in Desk /\ Fits(desk[d]) /\ desk[d].at = "order"
  BY DEF IInv, DispatchTypeOK, AllFit, LoadOrderDoc, Sits
<1>2. CASE Refuse(d)
  <2>1. disturbed' \in BOOLEAN
    BY <1>1, <1>2 DEF Refuse, DispatchTypeOK, Desk
  <2> QED BY <1>1, <1>2, <2>1, MissStep DEF Refuse, LoadOrderDoc
<1>3. CASE ~Refuse(d)
  <2> DEFINE y == [desk[d] EXCEPT !.at = "rider", !.doc = warehouseOrder[desk[d].order]]
  <2>1. desk[d].order \in Orders /\ warehouseOrder[desk[d].order] \in OrderDoc
    BY <1>1 DEF Fits, DispatchTypeOK
  <2>2. Set(d, y) /\ UNCHANGED disturbed
    BY <1>3 DEF LoadOrderDoc
  <2>3. /\ y \in Desk /\ Fits(y) /\ y.at = "rider" /\ y.kind = desk[d].kind /\ y.cluster = desk[d].cluster
        /\ y.missed = desk[d].missed /\ y.to = desk[d].to /\ y.order = desk[d].order
        /\ y.doc = warehouseOrder[y.order] /\ Done(y) \subseteq Done(desk[d])
    BY <1>1, <2>1 DEF Desk, Fits, Done, Ahead
  <2> HIDE DEF y
  <2> QED BY <1>1, <2>1, <2>2, <2>3, DeskStep DEF LoadOrderDoc, Writes, DispatchTypeOK
<1> QED BY <1>2, <1>3

LEMMA LoadRiderDocStep == ASSUME IInv, NEW d \in Dispatchers, LoadRiderDoc(d) PROVE IInv'
<1>1. /\ DispatchTypeOK /\ desk[d] \in Desk /\ Fits(desk[d]) /\ desk[d].at = "rider"
      /\ desk[d].to \in Fleet /\ load[desk[d].to] \in 0..MaxLoad
  BY DEF IInv, DispatchTypeOK, AllFit, LoadRiderDoc, Sits, Fits
<1>2. CASE Refuse(d)
  <2>1. disturbed' \in BOOLEAN
    BY <1>1, <1>2 DEF Refuse, DispatchTypeOK, Desk
  <2> QED BY <1>1, <1>2, <2>1, MissStep DEF Refuse, LoadRiderDoc
<1>3. CASE ~Refuse(d)
  <2> DEFINE next(a) == [desk[d] EXCEPT !.base = load[desk[d].to], !.at = a, !.writes = {"order", "rider"}]
  <2>1. PICK a \in {"previous", "save"} : Set(d, next(a)) /\ (a = "previous" => Relieves(desk[d]))
    BY <1>3 DEF LoadRiderDoc
  <2>2. UNCHANGED disturbed
    BY <1>3 DEF LoadRiderDoc
  <2>3. Relieves(desk[d]) => desk[d].kind = "warehouse" /\ desk[d].doc.rider \in Fleet
    BY <1>1 DEF Relieves, Desk, OrderDoc
  <2>4. /\ next(a) \in Desk /\ Fits(next(a)) /\ next(a).at = a
        /\ next(a).kind = desk[d].kind /\ next(a).cluster = desk[d].cluster
        /\ next(a).missed = desk[d].missed /\ next(a).to = desk[d].to /\ next(a).order = desk[d].order
        /\ next(a).doc = desk[d].doc /\ next(a).stale = desk[d].stale
        /\ Done(next(a)) \subseteq Done(desk[d])
    BY <1>1, <2>1, <2>3 DEF Desk, Fits, Done, Ahead
  <2> HIDE DEF next
  <2> QED BY <1>1, <2>1, <2>2, <2>4, DeskStep DEF LoadRiderDoc, Writes, DispatchTypeOK
<1> QED BY <1>2, <1>3

LEMMA LoadPreviousStep == ASSUME IInv, NEW d \in Dispatchers, LoadPrevious(d) PROVE IInv'
<1> DEFINE y == [desk[d] EXCEPT !.prevBase = load[desk[d].doc.rider], !.at = "save", !.writes = @ \cup {"previous"}]
<1>1. /\ DispatchTypeOK /\ desk[d] \in Desk /\ Fits(desk[d]) /\ desk[d].at = "previous"
      /\ desk[d].kind = "warehouse" /\ desk[d].doc.rider \in Fleet /\ load[desk[d].doc.rider] \in 0..MaxLoad
  BY DEF IInv, DispatchTypeOK, AllFit, LoadPrevious, Sits, Fits
<1>2. Set(d, y) /\ y \in Desk /\ Fits(y) /\ y.kind = "warehouse"
  BY <1>1 DEF LoadPrevious, Desk, Fits
<1> HIDE DEF y
<1> QED BY <1>1, <1>2, DeskStep DEF LoadPrevious, Writes, DispatchTypeOK

-----------------------------------------------------------------------------
(* The calls.                                                              *)
LEMMA CreateManualOrderStep ==
  ASSUME IInv, NEW d \in Dispatchers, NEW o \in Orders, NEW r \in Fleet \cup {NoOne}, CreateManualOrder(d, o, r)
  PROVE  IInv'
<1>1. DispatchTypeOK /\ desk[d] \in Desk /\ Fits(desk[d])
  BY DEF IInv, DispatchTypeOK, AllFit
<1>2. /\ warehouseOrder' \in [Orders -> OrderDoc]
      /\ \A q \in Orders : warehouseOrder'[q].timeline = warehouseOrder[q].timeline
  BY <1>1 DEF CreateManualOrder, DispatchTypeOK, OrderDoc, Assignable
<1>3. CASE r = NoOne
  <2>1. Set(d, desk[d])
    BY <1>1, <1>3 DEF CreateManualOrder, Set, DispatchTypeOK
  <2> QED BY <1>1, <1>2, <1>3, <2>1, DeskStep DEF CreateManualOrder, DispatchTypeOK
<1>4. CASE r # NoOne
  <2> DEFINE y == [Only(o) EXCEPT !.to = r, !.created = TRUE]
  <2>1. y \in Desk /\ Fits(y) /\ y.kind = "one" /\ y.at = "order"
    BY <1>4, OffFits DEF Only, Off, Desk, Fits
  <2>2. Set(d, y) /\ disturbed' \in BOOLEAN
    BY <1>1, <1>4 DEF CreateManualOrder, Take, Set, DispatchTypeOK
  <2> HIDE DEF y
  <2> QED BY <1>1, <1>2, <2>1, <2>2, DeskStep DEF CreateManualOrder, Writes, DispatchTypeOK
<1> QED BY <1>3, <1>4

(* The beginnings of the calls. *)
LEMMA AssignOrderStep ==
  ASSUME IInv, NEW d \in Dispatchers, NEW o \in Orders, NEW r \in Fleet, NEW kind \in {"one", "warehouse"},
         AssignOrder(d, o, r, kind)
  PROVE  IInv'
<1> DEFINE y == [Only(o) EXCEPT !.to = r, !.kind = kind]
<1>1. y \in Desk /\ Fits(y) /\ y.kind \in {"one", "warehouse"} /\ y.at = "order"
  BY OffFits DEF Only, Off, Desk, Fits
<1>2. DispatchTypeOK
  BY DEF IInv
<1>3. Set(d, y) /\ disturbed' \in BOOLEAN
  BY <1>2 DEF AssignOrder, Take, Set, DispatchTypeOK
<1> HIDE DEF y
<1> QED BY <1>1, <1>2, <1>3, DeskStep DEF AssignOrder, Writes, DispatchTypeOK

LEMMA BatchAssignOrdersStep ==
  ASSUME IInv, NEW d \in Dispatchers, NEW these \in SUBSET Orders, BatchAssignOrders(d, these) PROVE IInv'
<1> DEFINE found == {o \in these : warehouseOrder[o].status = "pending"}
           y == [Off EXCEPT !.at = "pick", !.kind = "batch", !.left = found, !.spare = load]
<1>1. DispatchTypeOK
  BY DEF IInv
<1>2. load \in [Fleet -> Nat]
  BY <1>1, LoadAssumption DEF DispatchTypeOK
<1>3. y \in Desk /\ Fits(y) /\ y.kind = "batch" /\ y.at = "pick"
  BY <1>2, OffFits DEF Off, Desk, Fits
<1>4. Set(d, y) /\ disturbed' \in BOOLEAN
  BY <1>1 DEF BatchAssignOrders, Take, Set, DispatchTypeOK
<1> HIDE DEF y
<1> QED BY <1>1, <1>3, <1>4, DeskStep DEF BatchAssignOrders, Writes, DispatchTypeOK

(* A call on the cluster begins: if it crosses none, it is the only one,   *)
(* knows the cluster as it is, and has given no order to anybody yet.      *)
LEMMA ClusterCallStep ==
  ASSUME IInv, NEW d \in Dispatchers, NEW y \in Desk, Sits(d, "idle"), Set(d, y), Fits(y), Crossing,
         disturbed' \in BOOLEAN, UNCHANGED <<warehouseOrder, load, cluster>>,
         y.at \in {"pick", "edit"}, y.cluster = cluster, y.kind = "group" => y.left = cluster.orders
  PROVE  IInv'
<1>1. /\ DispatchTypeOK /\ desk \in [Dispatchers -> Desk] /\ desk'[d] = y
      /\ \A e \in Dispatchers \ {d} : desk'[e] = desk[e]
  BY DEF IInv, DispatchTypeOK, Set
<1>2. DispatchTypeOK'
  BY <1>1 DEF DispatchTypeOK, Set, Crossing
<1>3. AllFit'
  BY <1>1 DEF IInv, AllFit, Fits
<1>4. \A o : ~Writes(y, o)
  BY DEF Writes
<1>5. ASSUME NEW o, NEW r, Remembered(o, r) PROVE Remembered(o, r)'
  <2>1. \A e \in Dispatchers : Writes(desk'[e], o) => r \in desk'[e].doc.timeline
    BY <1>1, <1>4, <1>5 DEF Remembered
  <2> QED BY <1>5, <2>1 DEF Remembered, Writes
<1>6. ~crossed' => ~crossed /\ \A e \in Dispatchers : ~Busy(e, {"group", "edit"})
  BY DEF Crossing
<1>7. ~crossed' => \A e \in Dispatchers : Busy(e, {"group", "edit"})' => e = d
  BY <1>1, <1>6 DEF Busy, Sits
<1>8. Alone'
  BY <1>1, <1>7 DEF Alone
<1>9. Progress'
  <2> SUFFICES ASSUME ~crossed', NEW e \in Dispatchers, Busy(e, {"group"})' PROVE Done(desk'[e]) = {}
    BY DEF Progress, Done, Ahead
  <2>1. e = d /\ y.kind = "group"
    BY <1>1, <1>7 DEF Busy, Sits
  <2> QED BY <1>1, <2>1 DEF Done, Ahead
<1>10. Kept'
  <2> SUFFICES ASSUME ~crossed', cluster.status = "assigned", NEW o \in cluster.orders
               PROVE  Remembered(o, cluster.rider)'
    BY DEF Kept, Remembered
  <2> QED BY <1>5, <1>6 DEF IInv, Kept
<1> QED BY <1>2, <1>3, <1>8, <1>9, <1>10 DEF IInv

LEMMA AssignClusterStep ==
  ASSUME IInv, NEW d \in Dispatchers, NEW r \in Fleet, AssignCluster(d, r) PROVE IInv'
<1> DEFINE y == [Off EXCEPT !.at = "pick", !.kind = "group", !.left = cluster.orders, !.to = r, !.cluster = cluster]
<1>1. DispatchTypeOK /\ cluster \in ClusterDoc
  BY DEF IInv, DispatchTypeOK
<1>2. y \in Desk /\ Fits(y) /\ y.at = "pick" /\ y.cluster = cluster /\ y.left = cluster.orders
  <2>1. cluster.orders \in SUBSET Orders
    BY <1>1 DEF ClusterDoc
  <2>2. y \in Desk
    BY <1>1, <2>1, OffFits DEF Off, Desk
  <2>3. y.at = "pick" /\ y.kind = "group" /\ y.to = r /\ y.cluster = cluster /\ y.left = cluster.orders
    BY DEF Off
  <2> QED BY <2>2, <2>3 DEF Fits
<1>3. Sits(d, "idle") /\ Set(d, y) /\ disturbed' \in BOOLEAN
  BY <1>1 DEF AssignCluster, Take, Set, DispatchTypeOK
<1> HIDE DEF y
<1> QED BY <1>2, <1>3, ClusterCallStep DEF AssignCluster

LEMMA UpdateClusterLoadStep ==
  ASSUME IInv, NEW d \in Dispatchers, NEW these \in SUBSET Orders, UpdateClusterLoad(d, these) PROVE IInv'
<1> DEFINE y == [Off EXCEPT !.at = "edit", !.kind = "edit", !.left = these, !.cluster = cluster]
<1>1. DispatchTypeOK /\ cluster \in ClusterDoc /\ cluster.status = "active"
  BY DEF IInv, DispatchTypeOK, UpdateClusterLoad
<1>2. y \in Desk /\ Fits(y) /\ y.at = "edit" /\ y.cluster = cluster /\ y.kind = "edit"
  BY <1>1, OffFits DEF Off, Desk, Fits
<1>3. Sits(d, "idle") /\ Set(d, y) /\ disturbed' \in BOOLEAN
  BY <1>1 DEF UpdateClusterLoad, Take, Set, DispatchTypeOK
<1> HIDE DEF y
<1> QED BY <1>2, <1>3, ClusterCallStep DEF UpdateClusterLoad

-----------------------------------------------------------------------------
(* The end of a call on the cluster: without crossing it was the only one, *)
(* so what is saved is the cluster it gave the orders of.                  *)
LEMMA SaveClusterStep == ASSUME IInv, NEW d \in Dispatchers, SaveCluster(d) PROVE IInv'
<1> DEFINE x == desk[d]
<1>1. /\ DispatchTypeOK /\ x \in Desk /\ Fits(x) /\ x.at = "cluster" /\ cluster \in ClusterDoc
      /\ x.kind = "group" /\ x.left = {} /\ x.to \in Fleet
  BY DEF IInv, DispatchTypeOK, AllFit, SaveCluster, Sits, Fits
<1>2. /\ desk' \in [Dispatchers -> Desk] /\ desk'[d] = Off
      /\ \A e \in Dispatchers \ {d} : desk'[e] = desk[e]
  BY <1>1, OffFits DEF SaveCluster, Set, DispatchTypeOK
<1>3. UNCHANGED <<warehouseOrder, load, disturbed, crossed>>
  BY DEF SaveCluster
<1>4. cluster' \in ClusterDoc
  BY <1>1 DEF SaveCluster, ClusterDoc
<1>5. DispatchTypeOK'
  BY <1>1, <1>2, <1>3, <1>4 DEF DispatchTypeOK
<1>6. AllFit'
  BY <1>2, OffFits DEF IInv, AllFit
<1>7. ~crossed => x.cluster = cluster /\ \A e \in Dispatchers : ~Busy(e, {"group", "edit"})'
  BY <1>1, <1>2 DEF IInv, Alone, Busy, Sits, Off
<1>8. Alone' /\ Progress'
  BY <1>3, <1>7 DEF Alone, Progress, Busy
<1>9. ASSUME NEW o, NEW r, Remembered(o, r) PROVE Remembered(o, r)'
  <2>1. \A e \in Dispatchers : Writes(desk'[e], o) => r \in desk'[e].doc.timeline
    BY <1>2, <1>9 DEF Remembered, Writes, Off
  <2> QED BY <1>3, <1>9, <2>1 DEF Remembered, Writes
<1>10. Kept'
  <2> SUFFICES ASSUME ~crossed, cluster'.status = "assigned", NEW o \in cluster'.orders, NEW r, r = cluster'.rider
               PROVE  Remembered(o, r)
    BY <1>3, <1>9 DEF Kept, Remembered
  <2>1. CASE cluster = Deleted
    BY <1>7, <2>1 DEF SaveCluster, Deleted, NoCluster
  <2>2. CASE cluster # Deleted
    <3>1. ~x.missed /\ cluster'.rider = x.to /\ cluster'.orders = cluster.orders
      BY <1>1, <1>7, <2>2 DEF SaveCluster, ClusterDoc
    <3>2. o \in Done(x) /\ Busy(d, {"group"})
      BY <1>1, <1>7, <3>1 DEF Done, Ahead, Busy, Sits
    <3> QED BY <3>1, <3>2 DEF IInv, Progress
  <2> QED BY <2>1, <2>2
<1> QED BY <1>5, <1>6, <1>8, <1>10 DEF IInv

LEMMA UpdateClusterSaveStep == ASSUME IInv, NEW d \in Dispatchers, UpdateClusterSave(d) PROVE IInv'
<1>1. /\ DispatchTypeOK /\ desk[d] \in Desk /\ Fits(desk[d]) /\ desk[d].at = "edit" /\ cluster \in ClusterDoc
      /\ desk[d].kind = "edit" /\ desk[d].cluster.status # "assigned"
  BY DEF IInv, DispatchTypeOK, AllFit, UpdateClusterSave, Sits, Fits
<1>2. CASE desk[d].cluster = Deleted \/ desk[d].stale
  BY <1>1, <1>2, OffFits, DeskStep DEF UpdateClusterSave, Off, Writes, DispatchTypeOK
<1>3. CASE ~(desk[d].cluster = Deleted \/ desk[d].stale)
  <2>1. desk' = [e \in Dispatchers |-> IF e = d THEN Off ELSE [desk[e] EXCEPT !.stale = @ \/ Sits(e, "edit")]]
    BY <1>3 DEF UpdateClusterSave
  <2>2. ASSUME NEW e \in Dispatchers \ {d}
        PROVE  desk'[e] \in Desk /\ Fits(desk'[e]) /\ desk'[e].at = desk[e].at /\ desk'[e].kind = desk[e].kind
    <3>1. desk[e] \in Desk /\ Fits(desk[e])
      BY DEF IInv, AllFit, DispatchTypeOK
    <3>2. \A b \in BOOLEAN : LET y == [desk[e] EXCEPT !.stale = b]
                             IN y \in Desk /\ Fits(y) /\ y.at = desk[e].at /\ y.kind = desk[e].kind
      BY <3>1 DEF Desk, Fits
    <3>3. desk'[e] = [desk[e] EXCEPT !.stale = desk[e].stale \/ Sits(e, "edit")]
      BY <2>1
    <3> QED BY <3>2, <3>3
  <2>3. DispatchTypeOK'
    <3>1. desk' \in [Dispatchers -> Desk]
      BY <2>1, <2>2, OffFits
    <3>2. cluster' \in ClusterDoc /\ UNCHANGED <<warehouseOrder, load, disturbed, crossed>>
      BY <1>1, <1>3 DEF UpdateClusterSave, ClusterDoc, Desk
    <3> QED BY <1>1, <3>1, <3>2 DEF DispatchTypeOK
  <2>4. AllFit'
    BY <2>1, <2>2, OffFits DEF AllFit
  <2>5. ~crossed => desk[d].cluster = cluster /\ \A e \in Dispatchers : ~Busy(e, {"group", "edit"})'
    <3>1. desk'[d].at = "idle"
      BY <2>1 DEF Off
    <3> QED BY <3>1, <1>1, <2>1, <2>2 DEF IInv, Alone, Busy, Sits, Off
  <2>6. UNCHANGED crossed /\ cluster'.status = cluster.status
    BY <1>1, <1>3 DEF UpdateClusterSave, ClusterDoc
  <2>7. Alone' /\ Progress' /\ Kept'
    BY <1>1, <2>5, <2>6 DEF Alone, Progress, Kept, Busy
  <2> QED BY <2>3, <2>4, <2>7 DEF IInv
<1> QED BY <1>2, <1>3

LEMMA SaveClustersStep == ASSUME IInv, NEW these \in SUBSET Orders, SaveClusters(these) PROVE IInv'
<1>1. DispatchTypeOK /\ UNCHANGED <<warehouseOrder, load, desk, disturbed>>
  BY DEF IInv, SaveClusters
<1>2. cluster' \in ClusterDoc /\ cluster'.status = "active"
  BY <1>1 DEF SaveClusters, DispatchTypeOK, ClusterDoc
<1>3. crossed' \in BOOLEAN /\ (~crossed' => \A e \in Dispatchers : ~Busy(e, {"group", "edit"}))
  BY <1>1 DEF SaveClusters, Crossing, DispatchTypeOK
<1>4. Alone' /\ Progress' /\ Kept'
  BY <1>1, <1>2, <1>3 DEF Alone, Progress, Kept, Busy, Sits
<1> QED BY <1>1, <1>2, <1>3, <1>4 DEF IInv, DispatchTypeOK, AllFit

LEMMA DeleteClusterStep == ASSUME IInv, DeleteCluster PROVE IInv'
<1>1. DispatchTypeOK /\ UNCHANGED <<warehouseOrder, load, disturbed>> /\ cluster' = NoCluster
  BY DEF IInv, DeleteCluster
<1>2. Deleted \in ClusterDoc /\ Deleted.status = "deleted"
  BY DEF Deleted, NoCluster, ClusterDoc
<1>3. \A e \in Dispatchers : desk[e] \in Desk /\ Fits(desk[e])
  BY <1>1 DEF IInv, DispatchTypeOK, AllFit
<1>4. ASSUME NEW e \in Dispatchers
      PROVE  desk'[e] \in Desk /\ Fits(desk'[e]) /\ desk'[e].at = desk[e].at /\ desk'[e].kind = desk[e].kind
  <2>1. PICK c \in {desk[e].cluster, Deleted} : desk'[e] = [desk[e] EXCEPT !.cluster = c]
    BY DEF DeleteCluster
  <2> QED BY <1>2, <1>3, <2>1 DEF Desk, Fits
<1>5. desk' \in [Dispatchers -> Desk]
  BY <1>4 DEF DeleteCluster
<1>6. crossed' \in BOOLEAN /\ (~crossed' => \A e \in Dispatchers : ~Busy(e, {"group", "edit"})')
  BY <1>1, <1>4 DEF DeleteCluster, Crossing, DispatchTypeOK, Busy, Sits
<1>7. Alone' /\ Progress' /\ Kept'
  BY <1>1, <1>6 DEF Alone, Progress, Kept, Busy, NoCluster
<1> QED BY <1>1, <1>4, <1>5, <1>6, <1>7, NothingTyped DEF IInv, DispatchTypeOK, AllFit

LEMMA OthersMoveStep == ASSUME IInv, NEW o \in Orders, NEW s \in Moves, OthersMove(o, s) PROVE IInv'
<1>1. DispatchTypeOK /\ UNCHANGED <<load, cluster, desk, disturbed, crossed>>
  BY DEF IInv, OthersMove
<1>2. /\ warehouseOrder' \in [Orders -> OrderDoc]
      /\ \A q \in Orders : warehouseOrder'[q].timeline = warehouseOrder[q].timeline
  BY <1>1, OrdersAssumption DEF OthersMove, DispatchTypeOK, OrderDoc, Assignable
<1>3. \A q \in Orders : \A r : Remembered(q, r) => Remembered(q, r)'
  BY <1>1, <1>2 DEF Remembered, Writes
<1>4. Progress'
  <2> SUFFICES ASSUME ~crossed, NEW d \in Dispatchers, Busy(d, {"group"}), ~desk[d].missed, NEW q \in Done(desk[d])
               PROVE  Remembered(q, desk[d].to)'
    BY <1>1 DEF Progress, Done, Ahead, Busy, Sits
  <2>1. q \in Orders /\ Remembered(q, desk[d].to)
    BY <1>1 DEF IInv, Progress, DispatchTypeOK, Desk, ClusterDoc, Done
  <2> QED BY <1>1, <1>2, <2>1 DEF Remembered, Writes
<1>5. Kept'
  <2> SUFFICES ASSUME ~crossed, cluster.status = "assigned", NEW q \in cluster.orders
               PROVE  Remembered(q, cluster.rider)'
    BY <1>1 DEF Kept
  <2>1. q \in Orders /\ Remembered(q, cluster.rider)
    BY <1>1 DEF IInv, Kept, DispatchTypeOK, ClusterDoc
  <2> QED BY <1>1, <1>2, <2>1 DEF Remembered, Writes
<1>6. DispatchTypeOK' /\ AllFit' /\ Alone'
  BY <1>1, <1>2 DEF IInv, DispatchTypeOK, AllFit, Alone, Busy, Sits
<1> QED BY <1>4, <1>5, <1>6 DEF IInv

-----------------------------------------------------------------------------
(* Every step keeps the invariant. *)
LEMMA StepIInv == IInv /\ [DispatchNext]_dispatchVars => IInv'
<1> SUFFICES ASSUME IInv, [DispatchNext]_dispatchVars PROVE IInv'
  OBVIOUS
<1>1. CASE UNCHANGED dispatchVars
  BY <1>1 DEF dispatchVars, IInv, DispatchTypeOK, AllFit, Alone, Progress, Kept, Remembered, Writes, Done, Ahead,
              Busy, Sits
<1>2. ASSUME NEW d \in Dispatchers, Starts(d) PROVE IInv'
  BY <1>2, CreateManualOrderStep, AssignOrderStep, BatchAssignOrdersStep, UpdateClusterLoadStep, AssignClusterStep,
              AlertStep
     DEF Starts
<1>3. ASSUME NEW d \in Dispatchers, Works(d) PROVE IInv'
  <2>1. ASSUME NEW o \in Orders, PickOfCluster(d, o) PROVE IInv'
    <3>1. desk[d].to \in Fleet
      BY <2>1 DEF IInv, AllFit, Fits, PickOfCluster, Sits
    <3> QED BY <2>1, <3>1, PickStep
  <2> QED BY <1>3, <2>1, PickStep, PickNobodyStep, LoadOrderDocStep, LoadRiderDocStep, LoadPreviousStep,
             RefuseStep, SaveOrderDocStep, SaveOtherStep, SaveClusterStep, UpdateClusterSaveStep,
             SaveAlertStep, QuitStep
          DEF Works
<1> QED BY <1>1, <1>2, <1>3, SaveClustersStep, DeleteClusterStep, OthersMoveStep DEF DispatchNext

(* The invariant that carries the others.                                  *)
THEOREM Inductive == DispatchSpec => []IInv
<1> QED BY InitIInv, StepIInv, PTL DEF DispatchSpec

(* Orders, loads, the cluster and what dispatchers hold keep their types,  *)
(* and no load exceeds the capacity, whichever assignments overlap.        *)
THEOREM TypeCorrect == DispatchSpec => []DispatchTypeOK
<1>1. IInv => DispatchTypeOK
  BY DEF IInv
<1> QED BY <1>1, Inductive, PTL

(* Every order of a cluster that says it is assigned was given to its      *)
(* rider, whatever else is assigned, moved or fails; unless two calls on   *)
(* the cluster have overlapped.                                            *)
THEOREM GroupsAreAssigned == DispatchSpec => []GroupIsAssigned
<1>1. IInv => GroupIsAssigned
  BY DEF IInv, Kept, GroupIsAssigned, Remembered
<1> QED BY <1>1, Inductive, PTL
-----------------------------------------------------------------------------
(* The orders a rider has, with and without the one being assigned.        *)
Count(r) == Cardinality(OrdersOf(r))
Rest(r, o) == Cardinality(OrdersOf(r) \ {o})
Covered(r) == Count(r) <= load[r]
Working(d) == ~Sits(d, "idle") /\ desk[d].kind \notin {"edit", "alert"}

(* What the call under way may rely on: nobody else takes the order it has *)
(* loaded, and the loads are as it read them until it saves its own.       *)
Known(x) == /\ x.at \in {"rider", "previous", "save"} => warehouseOrder[x.order].status # "none"
            /\ x.kind = "batch" /\ x.at = "order" => warehouseOrder[x.order].status # "none"
            /\ x.kind = "batch" => \A o \in x.left : warehouseOrder[o].status # "none"
Read(x) == /\ x.at \in {"rider", "previous"} => x.doc.rider = warehouseOrder[x.order].rider
           /\ x.at = "previous" => /\ Relieves(x) /\ x.writes = {"order", "rider"}
                                   /\ x.base = load[x.to]
           /\ x.at = "save" =>
                /\ x.writes # {}
                /\ warehouseOrder[x.order].rider = IF "order" \in x.writes THEN x.doc.rider ELSE x.to
                /\ "rider" \in x.writes => x.base = load[x.to]
                /\ "previous" \in x.writes => Relieves(x) /\ x.prevBase = load[x.doc.rider]

(* Its saves land in any order: until all have, the two riders' loads      *)
(* cover their other orders, and this one as far as they have been saved.  *)
Pending(x) == x.at = "save" /\ Relieves(x)
Owed(x, w) == IF x.at = "save" /\ w \notin x.writes THEN 1 ELSE 0
Books(x) ==
  /\ x.at \in {"pick", "cluster"} => \A r \in Fleet : Covered(r)
  /\ x.at \in {"order", "rider", "previous", "save"} =>
       /\ \A r \in Fleet \ {x.to} : (Pending(x) /\ r = x.doc.rider) \/ Covered(r)
       /\ Rest(x.to, x.order) + Owed(x, "rider") <= load[x.to]
  /\ x.at \in {"order", "rider", "previous"} /\ ~x.created => Covered(x.to)
  /\ Pending(x) => Rest(x.doc.rider, x.order) + (1 - Owed(x, "previous")) <= load[x.doc.rider]

(* One call at a time, and the loads cover the orders but for that call's. *)
Accounts ==
  ~disturbed =>
    /\ \A d, e \in Dispatchers : Working(d) /\ Working(e) => d = e
    /\ \A d \in Dispatchers : Working(d) => Known(desk[d]) /\ Read(desk[d]) /\ Books(desk[d])
    /\ (\A d \in Dispatchers : ~Working(d)) => \A r \in Fleet : Covered(r)

(* With the order counted in or left out.                                  *)
Here(r, o) == IF warehouseOrder[o].rider = r THEN 1 ELSE 0

(* Counting a set with one of its orders apart. *)
LEMMA SetSplit == ASSUME NEW S \in SUBSET Orders, NEW o \in Orders
                  PROVE  /\ Cardinality(S \ {o}) \in Nat
                         /\ Cardinality(S) = Cardinality(S \ {o}) + IF o \in S THEN 1 ELSE 0
                         /\ \A T \in SUBSET S : Cardinality(T) \in Nat /\ Cardinality(T) <= Cardinality(S)
<1>1. IsFiniteSet(S) /\ IsFiniteSet(S \ {o}) /\ Cardinality(S) \in Nat
  BY OrdersAssumption, FS_Subset, FS_CardinalityType
<1>2. \A T \in SUBSET S : Cardinality(T) \in Nat /\ Cardinality(T) <= Cardinality(S)
  BY <1>1, FS_Subset, FS_CardinalityType
<1>3. CASE o \in S
  BY <1>1, <1>2, <1>3, FS_RemoveElement
<1>4. CASE o \notin S
  <2>1. S \ {o} = S
    BY <1>4
  <2> QED BY <1>1, <1>2, <1>4, <2>1
<1> QED BY <1>2, <1>3, <1>4

(* Counting a rider's orders with one apart, now ... *)
LEMMA Split == ASSUME NEW r, NEW o \in Orders
               PROVE  /\ Rest(r, o) \in Nat /\ Count(r) = Rest(r, o) + Here(r, o)
                      /\ Here(r, o) \in {0, 1} /\ Count(r) \in Nat
<1>1. OrdersOf(r) \in SUBSET Orders /\ (o \in OrdersOf(r) <=> warehouseOrder[o].rider = r)
  BY DEF OrdersOf
<1>2. Rest(r, o) \in Nat /\ Count(r) = Rest(r, o) + Here(r, o) /\ Here(r, o) \in {0, 1}
  BY <1>1, SetSplit DEF Rest, Count, Here
<1> QED BY <1>2

(* ... and after a step. *)
LEMMA SplitNext == ASSUME NEW r, NEW o \in Orders
                   PROVE  /\ Rest(r, o)' \in Nat /\ Count(r)' = Rest(r, o)' + Here(r, o)'
                          /\ Here(r, o)' \in {0, 1} /\ Count(r)' \in Nat
<1>1. OrdersOf(r)' \in SUBSET Orders /\ (o \in OrdersOf(r)' <=> warehouseOrder'[o].rider = r)
  BY DEF OrdersOf
<1>2. Rest(r, o)' \in Nat /\ Count(r)' = Rest(r, o)' + Here(r, o)' /\ Here(r, o)' \in {0, 1}
  BY <1>1, SetSplit DEF Rest, Count, Here
<1> QED BY <1>2

(* Only the order given away changes hands.                                *)
LEMMA RestStays ==
  ASSUME NEW o \in Orders, \A p \in Orders \ {o} : warehouseOrder'[p].rider = warehouseOrder[p].rider
  PROVE  \A r : Rest(r, o)' = Rest(r, o)
<1>1. \A r : OrdersOf(r)' \ {o} = OrdersOf(r) \ {o}
  BY DEF OrdersOf
<1> QED BY <1>1 DEF Rest

-----------------------------------------------------------------------------
(* A step of one call.                                                     *)
Others(d) == \A e \in Dispatchers \ {d} : desk'[e].at = desk[e].at /\ desk'[e].kind = desk[e].kind

(* Only the call that moves has to be looked at. *)
LEMMA OneWorks ==
  ASSUME Accounts, ~disturbed, NEW d \in Dispatchers, Working(d), Others(d),
         Working(d)' => Known(desk[d])' /\ Read(desk[d])' /\ Books(desk[d])',
         ~Working(d)' => \A r \in Fleet : Covered(r)'
  PROVE  Accounts'
<1>1. \A e \in Dispatchers \ {d} : ~Working(e) /\ ~Working(e)'
  BY DEF Accounts, Others, Working, Sits
<1> QED BY <1>1 DEF Accounts

(* Between two orders of a call all loads cover.                           *)
LEMMA Between ==
  ASSUME Accounts, ~disturbed, NEW d \in Dispatchers, Working(d), Others(d),
         desk'[d].at \in {"pick", "cluster", "idle"},
         desk'[d].at # "idle" /\ desk'[d].kind = "batch" =>
           \A o \in desk'[d].left : warehouseOrder'[o].status # "none",
         \A r \in Fleet : Covered(r)'
  PROVE  Accounts'
<1>1. Working(d)' => Known(desk[d])' /\ Read(desk[d])' /\ Books(desk[d])'
  BY DEF Working, Sits, Known, Read, Books, Pending, Owed
<1> QED BY <1>1, OneWorks

(* A call's step leaves the other desks alone. *)
LEMMA SetOthers == ASSUME IInv, NEW d \in Dispatchers, NEW x, Set(d, x)
                   PROVE  Others(d) /\ desk'[d] = x
BY DEF IInv, DispatchTypeOK, Set, Others

(* Nothing is loaded yet that the order or the loads have left behind.     *)
LEMMA Uncounted ==
  ASSUME UNCHANGED <<warehouseOrder, load>>
  PROVE  \A r, o : Covered(r)' = Covered(r) /\ Rest(r, o)' = Rest(r, o)
BY DEF Covered, Count, Rest, OrdersOf

(* What the books say of the call under way.                               *)
LEMMA Holds ==
  ASSUME IInv, Accounts, ~disturbed, NEW d \in Dispatchers, ~Sits(d, "idle"), desk[d].kind \notin {"edit", "alert"}
  PROVE  /\ Working(d) /\ desk[d] \in Desk /\ Fits(desk[d])
         /\ Known(desk[d]) /\ Read(desk[d]) /\ Books(desk[d])
BY DEF Accounts, Working, IInv, DispatchTypeOK, AllFit

(* Giving up an order that was not taken costs nothing. *)
LEMMA Missing ==
  ASSUME IInv, Accounts, ~disturbed, NEW d \in Dispatchers, Missed(d), ~desk[d].created,
         desk[d].at \in {"order", "rider", "previous"}, UNCHANGED <<warehouseOrder, load>>
  PROVE  Accounts'
<1> DEFINE y == [desk[d] EXCEPT !.missed = TRUE, !.writes = {}]
<1>0. desk[d] \in Desk /\ Fits(desk[d]) /\ desk[d].kind \notin {"edit", "alert"} /\ ~Sits(d, "idle")
  BY DEF IInv, DispatchTypeOK, AllFit, Fits, Sits
<1>1. Working(d) /\ Known(desk[d]) /\ Books(desk[d])
  BY <1>0, Holds
<1>2. /\ y \in Desk /\ Fits(y) /\ y.at = desk[d].at /\ y.kind = desk[d].kind
      /\ y.left = desk[d].left /\ (y.kind = "group" => y.to \in Fleet)
  BY <1>0 DEF Desk, Fits
<1>3. Set(d, Onward(y))
  BY DEF Missed
<1> HIDE DEF y
<1>4. Others(d) /\ desk'[d] = Onward(y)
  BY <1>3, SetOthers
<1>5. /\ desk'[d].at \in {"pick", "cluster", "idle"}
      /\ desk'[d].at # "idle" => desk'[d].kind = desk[d].kind /\ desk'[d].left = desk[d].left
  BY <1>2, <1>4, OnwardFits
<1>6. \A r \in Fleet : Covered(r)'
  BY <1>1, Uncounted DEF Books, Pending
<1>7. desk[d].kind = "batch" => \A o \in desk[d].left : warehouseOrder'[o].status # "none"
  BY <1>1 DEF Known
<1> QED BY <1>1, <1>4, <1>5, <1>6, <1>7, Between

(* The next order begins with every load covering its rider's orders. *)
LEMMA BooksPick ==
  ASSUME IInv, Accounts, ~disturbed, NEW d \in Dispatchers, NEW o \in Orders,
         PickOfCluster(d, o) \/ PickNobody(d, o) \/ \E r \in Fleet : PickForBatch(d, o, r)
  PROVE  Accounts'
<1>0. /\ Sits(d, "pick") /\ desk[d].at = "pick" /\ desk[d].kind \in {"batch", "group"}
      /\ o \in desk[d].left /\ UNCHANGED <<warehouseOrder, load>>
  BY DEF PickOfCluster, PickForBatch, PickNobody, Sits
<1>1. Working(d) /\ desk[d] \in Desk /\ Fits(desk[d]) /\ Known(desk[d]) /\ Books(desk[d])
  BY <1>0, Holds DEF Sits
<1>2. \A q \in Fleet : Covered(q) /\ Covered(q)'
  BY <1>0, <1>1, Uncounted DEF Books
<1>3. desk[d].kind = "batch" => \A p \in desk[d].left : warehouseOrder[p].status # "none"
  BY <1>1 DEF Known
<1>4. ASSUME NEW to \in Fleet, Set(d, [desk[d] EXCEPT !.at = "order", !.order = o, !.to = to, !.left = @ \ {o}])
      PROVE  Accounts'
  <2> DEFINE y == [desk[d] EXCEPT !.at = "order", !.order = o, !.to = to, !.left = @ \ {o}]
  <2>1. /\ y.at = "order" /\ y.order = o /\ y.to = to /\ y.left = desk[d].left \ {o}
        /\ y.kind = desk[d].kind
    BY <1>1 DEF Desk
  <2> HIDE DEF y
  <2>2. Others(d) /\ desk'[d] = y
    BY <1>4, SetOthers DEF y
  <2>3. Rest(to, o)' + 0 <= load'[to]
    <3>1. Rest(to, o)' \in Nat /\ Here(to, o)' \in {0, 1} /\ Count(to)' = Rest(to, o)' + Here(to, o)'
          /\ Count(to)' <= load'[to]
      BY <1>2, SplitNext DEF Covered
    <3>2. load'[to] \in Int
      BY <1>0 DEF IInv, DispatchTypeOK
    <3> QED BY <3>1, <3>2
  <2>4. Known(desk[d])' /\ Read(desk[d])' /\ Books(desk[d])'
    BY <1>0, <1>2, <1>3, <2>1, <2>2, <2>3 DEF Known, Read, Books, Pending, Owed
  <2>5. Working(d)'
    BY <1>0, <2>1, <2>2 DEF Working, Sits
  <2> QED BY <1>1, <2>2, <2>4, <2>5, OneWorks
<1>5. CASE PickOfCluster(d, o)
  <2>1. desk[d].to \in Fleet
    BY <1>0, <1>1, <1>5 DEF PickOfCluster, Fits
  <2>2. [desk[d] EXCEPT !.at = "order", !.order = o, !.left = @ \ {o}]
          = [desk[d] EXCEPT !.at = "order", !.order = o, !.to = desk[d].to, !.left = @ \ {o}]
    BY <1>1 DEF Desk
  <2> QED BY <1>4, <1>5, <2>1, <2>2 DEF PickOfCluster
<1>6. ASSUME NEW r \in Fleet, PickForBatch(d, o, r) PROVE Accounts'
  BY <1>4, <1>6 DEF PickForBatch
<1>7. CASE PickNobody(d, o)
  <2> DEFINE y == [desk[d] EXCEPT !.left = @ \ {o}]
  <2>1. /\ y \in Desk /\ Fits(y) /\ y.at = "pick" /\ y.kind = "batch" /\ y.left = desk[d].left \ {o}
    BY <1>0, <1>1, <1>7 DEF Desk, Fits, PickNobody
  <2>2. Set(d, Onward(y))
    BY <1>7 DEF PickNobody
  <2> HIDE DEF y
  <2>3. Others(d) /\ desk'[d] = Onward(y)
    BY <2>2, SetOthers
  <2>4. /\ desk'[d].at \in {"pick", "cluster", "idle"}
        /\ desk'[d].at # "idle" => desk'[d].left \subseteq desk[d].left /\ desk'[d].kind = desk[d].kind
    BY <1>7, <2>1, <2>3, OnwardFits DEF PickNobody
  <2> QED BY <1>0, <1>1, <1>2, <1>3, <2>3, <2>4, Between
<1> QED BY <1>5, <1>6, <1>7

(* The call now knows the order's rider, ... *)
LEMMA BooksLoadOrder ==
  ASSUME IInv, Accounts, ~disturbed', NEW d \in Dispatchers, LoadOrderDoc(d) PROVE Accounts'
<1> DEFINE x == desk[d]
           y == [x EXCEPT !.at = "rider", !.doc = warehouseOrder[x.order]]
<1>0. ~disturbed /\ Sits(d, "order") /\ x.at = "order" /\ UNCHANGED <<warehouseOrder, load>>
  BY DEF LoadOrderDoc, Refuse, Sits
<1>1. /\ Working(d) /\ x \in Desk /\ Fits(x) /\ Known(x) /\ Books(x)
  <2>1. x.kind \notin {"edit", "alert"}
    BY <1>0 DEF IInv, AllFit, Fits
  <2> QED BY <1>0, <2>1, Holds DEF Sits
<1>2. CASE Refuse(d)
  BY <1>0, <1>2, Missing DEF Refuse
<1>3. CASE ~Refuse(d)
  <2>1. Set(d, y) /\ (x.kind = "batch" \/ warehouseOrder[x.order].status \in Assignable)
    BY <1>3 DEF LoadOrderDoc
  <2>2. warehouseOrder[x.order].status # "none"
    BY <1>0, <1>1, <2>1 DEF Assignable, Known
  <2>3. /\ y.at = "rider" /\ y.doc = warehouseOrder[x.order] /\ y.order = x.order /\ y.to = x.to
        /\ y.left = x.left /\ y.kind = x.kind /\ y.created = x.created
    BY <1>1 DEF Desk
  <2>4. Others(d) /\ desk'[d] = y
    BY <2>1, SetOthers
  <2> HIDE DEF y
  <2>5. Known(desk[d])'
    BY <1>0, <1>1, <2>2, <2>3, <2>4 DEF Known
  <2>6. Read(desk[d])'
    BY <1>0, <2>3, <2>4 DEF Read
  <2>7. Books(desk[d])'
    BY <1>0, <1>1, <2>3, <2>4, Uncounted DEF Books, Pending, Owed
  <2>8. Working(d)'
    BY <1>1, <2>3, <2>4 DEF Working, Sits
  <2> QED BY <1>0, <1>1, <2>4, <2>5, <2>6, <2>7, <2>8, OneWorks
<1> QED BY <1>2, <1>3

(* ... the load of the one it gives it to ... *)
LEMMA BooksLoadRider ==
  ASSUME IInv, Accounts, ~disturbed', NEW d \in Dispatchers, LoadRiderDoc(d) PROVE Accounts'
<1> DEFINE x == desk[d]
           next(a) == [x EXCEPT !.base = load[x.to], !.at = a, !.writes = {"order", "rider"}]
<1>0. ~disturbed /\ Sits(d, "rider") /\ x.at = "rider" /\ UNCHANGED <<warehouseOrder, load>>
  BY DEF LoadRiderDoc, Refuse, Sits
<1>1. /\ Working(d) /\ x \in Desk /\ Fits(x) /\ Known(x) /\ Read(x) /\ Books(x)
  <2>1. x.kind \notin {"edit", "alert"}
    BY <1>0 DEF IInv, AllFit, Fits
  <2> QED BY <1>0, <2>1, Holds DEF Sits
<1>2. CASE Refuse(d)
  BY <1>0, <1>2, Missing DEF Refuse
<1>3. CASE ~Refuse(d)
  <2>1. PICK a \in {"previous", "save"} : Set(d, next(a)) /\ (a = "previous" <=> Relieves(x))
    BY <1>3 DEF LoadRiderDoc
  <2> DEFINE y == next(a)
  <2>2. /\ y.at = a /\ y.doc = x.doc /\ y.order = x.order /\ y.to = x.to /\ y.base = load[x.to]
        /\ y.left = x.left /\ y.kind = x.kind /\ y.created = x.created /\ y.writes = {"order", "rider"}
    BY <1>1 DEF Desk
  <2>3. Others(d) /\ desk'[d] = y
    BY <2>1, SetOthers
  <2> HIDE DEF y
  <2>4. Known(desk[d])'
    BY <1>0, <1>1, <2>2, <2>3, <2>1 DEF Known
  <2>5. Read(desk[d])'
    BY <1>0, <1>1, <2>1, <2>2, <2>3 DEF Read, Relieves
  <2>6. Books(desk[d])'
    BY <1>0, <1>1, <2>1, <2>2, <2>3, Uncounted DEF Books, Pending, Owed, Relieves
  <2>7. Working(d)'
    BY <1>1, <2>1, <2>2, <2>3 DEF Working, Sits
  <2> QED BY <1>0, <1>1, <2>3, <2>4, <2>5, <2>6, <2>7, OneWorks
<1> QED BY <1>2, <1>3

(* ... and of the one it takes it from. *)
LEMMA BooksLoadPrevious ==
  ASSUME IInv, Accounts, ~disturbed, NEW d \in Dispatchers, LoadPrevious(d) PROVE Accounts'
<1> DEFINE x == desk[d]
           y == [x EXCEPT !.prevBase = load[x.doc.rider], !.at = "save", !.writes = @ \cup {"previous"}]
<1>0. Sits(d, "previous") /\ x.at = "previous" /\ UNCHANGED <<warehouseOrder, load>> /\ Set(d, y)
  BY DEF LoadPrevious, Sits
<1>1. /\ Working(d) /\ x \in Desk /\ Fits(x) /\ Known(x) /\ Read(x) /\ Books(x)
  <2>1. x.kind \notin {"edit", "alert"}
    BY <1>0 DEF IInv, AllFit, Fits
  <2> QED BY <1>0, <2>1, Holds DEF Sits
<1>2. /\ y.at = "save" /\ y.doc = x.doc /\ y.order = x.order /\ y.to = x.to /\ y.base = x.base
      /\ y.left = x.left /\ y.kind = x.kind /\ y.created = x.created
      /\ y.prevBase = load[x.doc.rider] /\ y.writes = {"order", "rider", "previous"}
  BY <1>0, <1>1 DEF Desk, Read
<1>3. Others(d) /\ desk'[d] = y
  BY <1>0, SetOthers
<1> HIDE DEF y
<1>4. Known(desk[d])'
  BY <1>0, <1>1, <1>2, <1>3 DEF Known
<1>5. Relieves(x)
  BY <1>0, <1>1 DEF Read
<1>6. Read(desk[d])'
  BY <1>0, <1>1, <1>2, <1>3, <1>5 DEF Read, Relieves
<1>7. x.doc.rider \in Fleet \ {x.to} /\ x.order \in Orders /\ warehouseOrder[x.order].rider = x.doc.rider
  BY <1>0, <1>1, <1>5 DEF Relieves, Fits, Read
<1>8. Rest(x.doc.rider, x.order) + 1 <= load[x.doc.rider]
  <2>1. Covered(x.doc.rider)
    BY <1>0, <1>1, <1>7 DEF Books, Pending
  <2>2. Count(x.doc.rider) = Rest(x.doc.rider, x.order) + 1
    BY <1>7, Split DEF Here
  <2> QED BY <2>1, <2>2 DEF Covered
<1>9. Books(desk[d])'
  BY <1>0, <1>1, <1>2, <1>3, <1>8, Uncounted DEF Books, Pending, Owed, Relieves
<1>10. Working(d)'
  BY <1>1, <1>2, <1>3 DEF Working, Sits
<1> QED BY <1>1, <1>3, <1>4, <1>6, <1>9, <1>10, OneWorks

-----------------------------------------------------------------------------
(* The last save of an order ends it.                                      *)
LEMMA LastLanded ==
  ASSUME NEW x \in Desk, Fits(x), x.at = "save", NEW w \in x.writes, x.writes = {w}
  PROVE  Landed(x, w).at \in {"pick", "cluster", "idle"}
<1> DEFINE y == [x EXCEPT !.writes = {}, !.made = TRUE,
                          !.spare[x.to] = IF x.kind = "batch" THEN @ + 1 ELSE @]
<1>1. [x.spare EXCEPT ![x.to] = IF x.kind = "batch" THEN @ + 1 ELSE @] \in [Fleet -> Nat]
  BY DEF Desk, Fits
<1>2. y \in Desk /\ Fits(y) /\ y.at = "save" /\ (y.kind = "group" => y.to \in Fleet)
  BY <1>1 DEF Desk, Fits
<1>3. Landed(x, w) = Onward(y)
  BY DEF Landed
<1> HIDE DEF y
<1> QED BY <1>2, <1>3, OnwardFits

(* A save that has landed, the last one or not.                            *)
LEMMA SavesOn ==
  ASSUME IInv, Accounts, ~disturbed, NEW d \in Dispatchers, Sits(d, "save"), NEW w \in desk[d].writes,
         Others(d), desk'[d] = Landed(desk[d], w),
         NEW p \in Orders, p = desk[d].order, NEW to, to = desk[d].to, NEW from, from = desk[d].doc.rider,
         \A o \in Orders : warehouseOrder[o].status # "none" => warehouseOrder'[o].status # "none",
         \A r \in Fleet \ {to} : (Pending(desk[d]) /\ r = from) \/ Covered(r)',
         Rest(to, p)' + (IF w = "rider" \/ "rider" \notin desk[d].writes THEN 1 ELSE 0) <= load'[to],
         Pending(desk[d]) =>
           Rest(from, p)' + (IF w # "previous" /\ "previous" \in desk[d].writes THEN 1 ELSE 0) <= load'[from],
         warehouseOrder'[p].rider = IF w # "order" /\ "order" \in desk[d].writes THEN from ELSE to,
         w # "rider" /\ "rider" \in desk[d].writes => load'[to] = load[to],
         w # "previous" /\ "previous" \in desk[d].writes => load'[from] = load[from]
  PROVE  Accounts'
<1> DEFINE x == desk[d]
           y == [x EXCEPT !.writes = x.writes \ {w}]
<1>0. x.at = "save"
  BY DEF Sits
<1>1. Working(d) /\ x \in Desk /\ Fits(x) /\ Known(x) /\ Read(x) /\ Books(x)
  <2>1. x.kind \notin {"edit", "alert"}
    BY <1>0 DEF IInv, AllFit, Fits
  <2> QED BY <1>0, <2>1, Holds DEF Sits
<1>2. x.to \in Fleet /\ x.order \in Orders
  BY <1>0, <1>1 DEF Fits
<1>4. CASE x.writes = {w}
  <2>1. /\ desk'[d].at \in {"pick", "cluster", "idle"}
        /\ desk'[d].at # "idle" => desk'[d].left = x.left /\ desk'[d].kind = x.kind
    <3>1. Landed(x, w).at \in {"pick", "cluster", "idle"}
      BY <1>0, <1>1, <1>4, LastLanded
    <3> QED BY <1>0, <1>1, <3>1, LandedFits
  <2>2. ASSUME NEW r \in Fleet PROVE Covered(r)'
    <3>1. warehouseOrder'[p].rider = to
      BY <1>4
    <3>2. CASE r = to
      <4>1. Rest(r, p)' + 1 <= load'[r]
        BY <1>4, <3>2
      <4>2. Count(r)' = Rest(r, p)' + 1
        BY <3>1, <3>2, SplitNext DEF Here
      <4> QED BY <4>1, <4>2 DEF Covered
    <3>3. CASE r # to /\ Pending(x) /\ r = from
      <4>1. Rest(r, p)' + 0 <= load'[r] /\ Rest(r, p)' \in Nat
        BY <1>4, <3>3, SplitNext
      <4>2. Count(r)' = Rest(r, p)' + 0
        BY <3>1, <3>3, SplitNext DEF Here
      <4> QED BY <4>1, <4>2 DEF Covered
    <3> QED BY <3>2, <3>3
  <2>3. x.kind = "batch" => \A o \in x.left : warehouseOrder'[o].status # "none"
    BY <1>1 DEF Known, Desk
  <2> QED BY <1>1, <2>1, <2>2, <2>3, Between
<1>5. CASE x.writes # {w}
  <2>1. desk'[d] = y /\ y.writes = x.writes \ {w} /\ y.writes # {}
    BY <1>1, <1>5 DEF Landed, Desk
  <2>2. /\ y.at = "save" /\ y.doc = x.doc /\ y.order = x.order /\ y.to = x.to /\ y.base = x.base
        /\ y.left = x.left /\ y.kind = x.kind /\ y.created = x.created /\ y.prevBase = x.prevBase
    BY <1>0, <1>1 DEF Desk
  <2> HIDE DEF y
  <2>3. Known(desk[d])'
    BY <1>0, <1>1, <1>2, <2>1, <2>2 DEF Known, Desk
  <2>4. Read(desk[d])'
    BY <1>0, <1>1, <2>1, <2>2 DEF Read, Relieves
  <2>5. Pending(desk[d])' <=> Pending(x)
    BY <1>0, <2>1, <2>2 DEF Pending, Relieves
  <2>6. Books(desk[d])'
    BY <1>0, <2>1, <2>2, <2>5 DEF Books, Owed
  <2>7. Working(d)'
    BY <1>1, <2>1, <2>2 DEF Working, Sits
  <2> QED BY <1>1, <2>1, <2>3, <2>4, <2>6, <2>7, OneWorks
<1> QED BY <1>4, <1>5

(* The order changes hands. *)
LEMMA BooksSaveOrder ==
  ASSUME IInv, Accounts, ~disturbed, NEW d \in Dispatchers, SaveOrderDoc(d) \/ UpdateOrder(d)
  PROVE  Accounts'
<1> DEFINE x == desk[d]
<1>0. Sits(d, "save") /\ x.at = "save" /\ "order" \in x.writes /\ UNCHANGED load
  BY DEF SaveOrderDoc, UpdateOrder, Sits
<1>1. x \in Desk /\ Fits(x) /\ Known(x) /\ Read(x) /\ Books(x)
  <2>1. x.kind \notin {"edit", "alert"}
    BY <1>0 DEF IInv, AllFit, Fits
  <2> QED BY <1>0, <2>1, Holds DEF Sits
<1>2. PICK p \in Orders, to \in Fleet, from \in Fleet \cup {NoOne} :
        p = x.order /\ to = x.to /\ from = x.doc.rider
  BY <1>0, <1>1 DEF Fits, Desk, OrderDoc
<1>3. warehouseOrder[p].rider = from /\ warehouseOrder[p].status # "none"
  BY <1>0, <1>1, <1>2 DEF Read, Known
<1>4. warehouseOrder \in [Orders -> OrderDoc] /\ desk \in [Dispatchers -> Desk] /\ load \in [Fleet -> 0..MaxLoad]
  BY DEF IInv, DispatchTypeOK
<1>5. /\ warehouseOrder'[p].rider = to /\ warehouseOrder'[p].status # "none"
      /\ \A o \in Orders \ {p} : warehouseOrder'[o] = warehouseOrder[o]
  BY <1>2, <1>3, <1>4 DEF SaveOrderDoc, UpdateOrder, Given
<1>6. Others(d) /\ desk'[d] = Landed(x, "order")
  <2>1. CASE SaveOrderDoc(d)
    <3>1. desk' = [e \in Dispatchers |->
                    IF e = d THEN Landed(x, "order") ELSE [desk[e] EXCEPT !.stale = @ \/ HoldsCopy(e, x.order)]]
      BY <2>1 DEF SaveOrderDoc, OthersStale
    <3>2. \A e \in Dispatchers \ {d} : desk'[e] = [desk[e] EXCEPT !.stale = @ \/ HoldsCopy(e, x.order)]
      BY <3>1
    <3>3. \A e \in Dispatchers : desk[e] \in Desk
      BY <1>4
    <3> QED BY <3>1, <3>2, <3>3 DEF Others, Desk
  <2>2. CASE UpdateOrder(d)
    BY <2>2, SetOthers DEF UpdateOrder
  <2> QED BY <2>1, <2>2
<1>7. \A r : Rest(r, p)' = Rest(r, p)
  BY <1>5, RestStays
<1>8. ASSUME NEW r \in Fleet \ {to} PROVE (Pending(x) /\ r = from) \/ Covered(r)'
  <2>1. CASE ~(Pending(x) /\ r = from)
    <3>1. Covered(r)
      BY <1>0, <1>1, <1>2, <2>1 DEF Books
    <3>2. Count(r)' = Rest(r, p) /\ Rest(r, p) \in Nat
      BY <1>5, <1>7, SplitNext, Split DEF Here
    <3>3. Count(r) = Rest(r, p) + Here(r, p) /\ Here(r, p) \in {0, 1} /\ load[r] \in Int
      BY <1>4, Split
    <3> QED BY <1>0, <3>1, <3>2, <3>3 DEF Covered
  <2> QED BY <2>1
<1>9. Rest(to, p)' + (IF "rider" \notin x.writes THEN 1 ELSE 0) <= load'[to]
  BY <1>0, <1>1, <1>2, <1>7 DEF Books, Owed
<1>10. Pending(x) => Rest(from, p)' + (IF "previous" \in x.writes THEN 1 ELSE 0) <= load'[from]
  BY <1>0, <1>1, <1>2, <1>7 DEF Books, Owed
<1>11. \A o \in Orders : warehouseOrder[o].status # "none" => warehouseOrder'[o].status # "none"
  BY <1>5
<1> QED BY <1>0, <1>2, <1>5, <1>6, <1>8, <1>9, <1>10, <1>11, SavesOn

(* A load goes up or down. *)
LEMMA BooksSaveRider ==
  ASSUME IInv, Accounts, ~disturbed, NEW d \in Dispatchers, SaveRiderDoc(d) \/ SavePrevious(d)
  PROVE  Accounts'
<1> DEFINE x == desk[d]
<1>0. Sits(d, "save") /\ x.at = "save" /\ UNCHANGED warehouseOrder
  BY DEF SaveRiderDoc, SavePrevious, Sits
<1>1. x \in Desk /\ Fits(x) /\ Read(x) /\ Books(x)
  <2>1. x.kind \notin {"edit", "alert"}
    BY <1>0 DEF IInv, AllFit, Fits
  <2> QED BY <1>0, <2>1, Holds DEF Sits
<1>2. PICK p \in Orders, to \in Fleet, from \in Fleet \cup {NoOne} :
        p = x.order /\ to = x.to /\ from = x.doc.rider
  BY <1>0, <1>1 DEF Fits, Desk, OrderDoc
<1>3. /\ warehouseOrder[p].rider = IF "order" \in x.writes THEN from ELSE to
      /\ "rider" \in x.writes => x.base = load[to]
      /\ "previous" \in x.writes => Relieves(x) /\ x.prevBase = load[from]
      /\ Relieves(x) => from # to /\ from \in Fleet
  BY <1>0, <1>1, <1>2 DEF Read, Relieves
<1>4. load \in [Fleet -> 0..MaxLoad] /\ MaxLoad \in Nat
  BY LoadAssumption DEF IInv, DispatchTypeOK
<1>5. \A r : Rest(r, p)' = Rest(r, p) /\ Count(r)' = Count(r) /\ Rest(r, p) \in Nat
  BY <1>0, Split DEF Rest, Count, OrdersOf
<1>6. /\ \A r \in Fleet \ {to} : (Pending(x) /\ r = from) \/ Covered(r)
      /\ Rest(to, p) + (IF "rider" \notin x.writes THEN 1 ELSE 0) <= load[to]
      /\ Pending(x) => Rest(from, p) + (IF "previous" \in x.writes THEN 1 ELSE 0) <= load[from]
  BY <1>0, <1>1, <1>2 DEF Books, Owed
<1>7. CASE SaveRiderDoc(d)
  <2>1. /\ "rider" \in x.writes /\ load' = [load EXCEPT ![to] = load[to] + 1]
        /\ Others(d) /\ desk'[d] = Landed(x, "rider")
    BY <1>2, <1>3, <1>7, SetOthers DEF SaveRiderDoc
  <2>2. load'[to] = load[to] + 1 /\ \A r \in Fleet \ {to} : load'[r] = load[r]
    BY <1>4, <2>1
  <2>3. Rest(to, p)' + 1 <= load'[to]
    BY <1>4, <1>5, <1>6, <2>1, <2>2
  <2>4. \A r \in Fleet \ {to} : (Pending(x) /\ r = from) \/ Covered(r)'
    BY <1>5, <1>6, <2>2 DEF Covered
  <2>5. Pending(x) => /\ Rest(from, p)' + (IF "previous" \in x.writes THEN 1 ELSE 0) <= load'[from]
                      /\ load'[from] = load[from]
    BY <1>3, <1>5, <1>6, <2>2 DEF Pending
  <2>6. "previous" \in x.writes => Pending(x)
    BY <1>0, <1>3 DEF Pending
  <2> QED BY <1>0, <1>2, <1>3, <2>1, <2>3, <2>4, <2>5, <2>6, SavesOn
<1>8. CASE SavePrevious(d)
  <2>1. /\ "previous" \in x.writes /\ Pending(x)
        /\ load' = [load EXCEPT ![from] = IF load[from] > 0 THEN load[from] - 1 ELSE @]
        /\ Others(d) /\ desk'[d] = Landed(x, "previous")
    BY <1>0, <1>2, <1>3, <1>8, SetOthers DEF SavePrevious, Pending
  <2>2. from \in Fleet \ {to} /\ Rest(from, p) + 1 <= load[from]
    BY <1>3, <1>6, <2>1 DEF Pending
  <2>3. load[from] > 0
    BY <1>4, <1>5, <2>2
  <2>4. load'[from] = load[from] - 1 /\ \A r \in Fleet \ {from} : load'[r] = load[r]
    BY <1>4, <2>1, <2>2, <2>3
  <2>5. Rest(from, p)' + 0 <= load'[from]
    BY <1>4, <1>5, <2>2, <2>4
  <2>6. \A r \in Fleet \ {to} : (Pending(x) /\ r = from) \/ Covered(r)'
    BY <1>5, <1>6, <2>1, <2>4 DEF Covered
  <2>7. Rest(to, p)' + (IF "rider" \notin x.writes THEN 1 ELSE 0) <= load'[to] /\ load'[to] = load[to]
    BY <1>2, <1>5, <1>6, <2>2, <2>4
  <2> QED BY <1>0, <1>2, <1>3, <2>1, <2>5, <2>6, <2>7, SavesOn
<1> QED BY <1>7, <1>8

-----------------------------------------------------------------------------
(* A call starts when no other one is under way.                           *)
LEMMA Resting ==
  ASSUME Accounts, NEW d \in Dispatchers, NEW x, Take(d, x), ~disturbed'
  PROVE  ~disturbed /\ (\A e \in Dispatchers : ~Working(e)) /\ \A r \in Fleet : Covered(r)
<1>1. ~disturbed /\ \A e \in Dispatchers : Sits(e, "idle")
  BY DEF Take
<1> QED BY <1>1 DEF Accounts, Working

(* A call begins where nobody was at work. *)
LEMMA BooksBegin ==
  ASSUME IInv, Accounts, ~disturbed, \A e \in Dispatchers : ~Working(e),
         NEW d \in Dispatchers, NEW x, Set(d, x),
         Known(desk[d])' /\ Read(desk[d])' /\ Books(desk[d])', Working(d)'
  PROVE  Accounts'
<1>1. Others(d)
  BY SetOthers
<1>2. \A e \in Dispatchers \ {d} : ~Working(e)'
  BY <1>1 DEF Others, Working, Sits
<1> QED BY <1>2 DEF Accounts

(* The manual order is stored with its rider, who is not loaded yet. *)
LEMMA BooksCreate ==
  ASSUME IInv, Accounts, ~disturbed', NEW d \in Dispatchers, NEW o \in Orders, NEW r \in Fleet,
         CreateManualOrder(d, o, r)
  PROVE  Accounts'
<1> DEFINE y == [Only(o) EXCEPT !.to = r, !.created = TRUE]
<1>1. Take(d, y) /\ UNCHANGED load
  BY NobodyAssumption DEF CreateManualOrder
<1>2. /\ y.at = "order" /\ y.order = o /\ y.to = r /\ y.created /\ y.kind = "one"
      BY DEF Only, Off
<1>3. warehouseOrder \in [Orders -> OrderDoc] /\ load \in [Fleet -> 0..MaxLoad]
  BY DEF IInv, DispatchTypeOK
<1>4. /\ warehouseOrder'[o].rider = r
      /\ \A p \in Orders \ {o} : warehouseOrder'[p].rider = warehouseOrder[p].rider
  BY <1>3 DEF CreateManualOrder, OrderDoc
<1> HIDE DEF y
<1>5. ~disturbed /\ (\A e \in Dispatchers : ~Working(e)) /\ \A q \in Fleet : Covered(q)
  BY <1>1, Resting
<1>6. Set(d, y) /\ desk'[d] = y
  BY <1>1, SetOthers DEF Take, Set
<1>7. \A q : Rest(q, o)' = Rest(q, o)
  BY <1>4, RestStays
<1>8. ASSUME NEW q \in Fleet PROVE Rest(q, o)' <= load'[q] /\ (q # r => Covered(q)')
  <2>1. Rest(q, o) \in Nat /\ Count(q) = Rest(q, o) + Here(q, o) /\ Here(q, o) \in {0, 1} /\ Count(q) <= load[q]
    BY <1>5, Split DEF Covered
  <2>2. load[q] \in Int /\ load'[q] = load[q] /\ Rest(q, o)' <= load'[q]
    BY <1>1, <1>3, <1>7, <2>1
  <2>3. q # r => Count(q)' = Rest(q, o)'
    BY <1>4, <1>7, <2>1, SplitNext DEF Here
  <2> QED BY <2>2, <2>3 DEF Covered
<1>9. Rest(r, o)' + 0 <= load'[r]
  <2>1. Rest(r, o)' \in Nat
    BY SplitNext
  <2> QED BY <1>8, <2>1
<1>10. Known(desk[d])' /\ Read(desk[d])' /\ Working(d)'
  BY <1>2, <1>6 DEF Known, Read, Working, Sits
<1>11. Books(desk[d])'
  BY <1>2, <1>6, <1>8, <1>9 DEF Books, Pending, Owed
<1> QED BY <1>5, <1>6, <1>10, <1>11, BooksBegin

(* A single assignment, from the app or the warehouse. *)
LEMMA BooksAssign ==
  ASSUME IInv, Accounts, ~disturbed', NEW d \in Dispatchers, NEW o \in Orders, NEW r \in Fleet,
         NEW kind \in {"one", "warehouse"}, AssignOrder(d, o, r, kind)
  PROVE  Accounts'
<1> DEFINE y == [Only(o) EXCEPT !.to = r, !.kind = kind]
<1>1. Take(d, y) /\ UNCHANGED <<warehouseOrder, load>>
  BY DEF AssignOrder
<1>2. y.at = "order" /\ y.order = o /\ y.to = r /\ y.kind = kind
  BY DEF Only, Off
<1> HIDE DEF y
<1>3. ~disturbed /\ (\A e \in Dispatchers : ~Working(e)) /\ \A q \in Fleet : Covered(q)
  BY <1>1, Resting
<1>4. Set(d, y) /\ desk'[d] = y
  BY <1>1, SetOthers DEF Take, Set
<1>5. \A q \in Fleet : Covered(q)'
  BY <1>1, <1>3, Uncounted
<1>6. Rest(r, o)' + 0 <= load'[r]
  <2>1. Rest(r, o)' \in Nat /\ Count(r)' = Rest(r, o)' + Here(r, o)' /\ Here(r, o)' \in {0, 1}
    BY SplitNext
  <2>2. load'[r] \in Int
    BY <1>1 DEF IInv, DispatchTypeOK
  <2> QED BY <1>5, <2>1, <2>2 DEF Covered
<1>7. Known(desk[d])' /\ Read(desk[d])' /\ Working(d)'
  BY <1>2, <1>4 DEF Known, Read, Working, Sits
<1>8. Books(desk[d])'
  BY <1>2, <1>4, <1>5, <1>6 DEF Books, Pending, Owed
<1> QED BY <1>3, <1>4, <1>7, <1>8, BooksBegin

(* A batch or a cluster. *)
LEMMA BooksMany ==
  ASSUME IInv, Accounts, ~disturbed', NEW d \in Dispatchers,
         \/ \E these \in SUBSET Orders : BatchAssignOrders(d, these)
         \/ \E r \in Fleet : AssignCluster(d, r)
  PROVE  Accounts'
<1> DEFINE Opens(y) == /\ Take(d, y) /\ y.at = "pick" /\ y.kind \in {"batch", "group"}
                       /\ y.kind = "batch" => \A o \in y.left : warehouseOrder[o].status # "none"
                       /\ UNCHANGED <<warehouseOrder, load>>
<1>1. PICK y : Opens(y)
  <2>1. ASSUME NEW these \in SUBSET Orders, BatchAssignOrders(d, these) PROVE \E y : Opens(y)
    <3> DEFINE found == {o \in these : warehouseOrder[o].status = "pending"}
               y == [Off EXCEPT !.at = "pick", !.kind = "batch", !.left = found, !.spare = load]
    <3>1. Take(d, y) /\ UNCHANGED <<warehouseOrder, load>>
      BY <2>1 DEF BatchAssignOrders
    <3>2. y.at = "pick" /\ y.kind = "batch" /\ \A o \in y.left : warehouseOrder[o].status # "none"
      BY DEF Off
    <3>3. Opens(y)
      BY <3>1, <3>2
    <3> QED BY <3>3
  <2>2. ASSUME NEW r \in Fleet, AssignCluster(d, r) PROVE \E y : Opens(y)
    <3> DEFINE y == [Off EXCEPT !.at = "pick", !.kind = "group", !.left = cluster.orders, !.to = r,
                                !.cluster = cluster]
    <3>1. Take(d, y) /\ UNCHANGED <<warehouseOrder, load>>
      BY <2>2 DEF AssignCluster
    <3>2. y.at = "pick" /\ y.kind = "group"
      BY DEF Off
    <3>3. Opens(y)
      BY <3>1, <3>2
    <3> QED BY <3>3
  <2> QED BY <2>1, <2>2
<1>2. ~disturbed /\ (\A e \in Dispatchers : ~Working(e)) /\ \A q \in Fleet : Covered(q)
  BY <1>1, Resting
<1>3. Set(d, y) /\ desk'[d] = y
  BY <1>1, SetOthers DEF Take, Set
<1>4. \A q \in Fleet : Covered(q)'
  BY <1>1, <1>2, Uncounted
<1>5. Known(desk[d])' /\ Read(desk[d])' /\ Books(desk[d])' /\ Working(d)'
  BY <1>1, <1>3, <1>4 DEF Known, Read, Books, Pending, Working, Sits
<1> QED BY <1>2, <1>3, <1>5, BooksBegin

-----------------------------------------------------------------------------
(* What changes neither the loads nor a call, nor who has an order that is *)
(* placed: the cluster's own calls, and the other people of the warehouse. *)
LEMMA BooksApart ==
  ASSUME IInv, Accounts, ~disturbed, UNCHANGED load,
         \A e \in Dispatchers :
           Working(e) \/ Working(e)' =>
             /\ desk'[e].at = desk[e].at /\ desk'[e].kind = desk[e].kind /\ desk'[e].left = desk[e].left
             /\ desk'[e].order = desk[e].order /\ desk'[e].to = desk[e].to /\ desk'[e].doc = desk[e].doc
             /\ desk'[e].base = desk[e].base /\ desk'[e].prevBase = desk[e].prevBase
             /\ desk'[e].writes = desk[e].writes /\ desk'[e].created = desk[e].created,
         \A o \in Orders : warehouseOrder'[o].rider \in {warehouseOrder[o].rider, NoOne},
         \A o \in Orders : warehouseOrder[o].status # "none" =>
           warehouseOrder'[o].rider = warehouseOrder[o].rider /\ warehouseOrder'[o].status # "none"
  PROVE  Accounts'
<1>1. \A e \in Dispatchers : Working(e)' <=> Working(e)
  BY DEF Working, Sits
<1>2. ASSUME NEW r \in Fleet PROVE /\ Covered(r) => Covered(r)'
                                   /\ \A o \in Orders : Rest(r, o)' <= Rest(r, o)
  <2>1. OrdersOf(r)' \subseteq OrdersOf(r) /\ OrdersOf(r) \in SUBSET Orders
    BY NobodyAssumption DEF OrdersOf
  <2>2. \A S \in SUBSET Orders : Cardinality(S) \in Nat /\ \A T \in SUBSET S : Cardinality(T) <= Cardinality(S)
    BY OrdersAssumption, FS_Subset, FS_CardinalityType
  <2>3. Count(r)' <= Count(r) /\ Count(r)' \in Nat /\ Count(r) \in Nat /\ load[r] \in Int
    BY <2>1, <2>2 DEF Count, IInv, DispatchTypeOK
  <2>4. \A o \in Orders : OrdersOf(r)' \ {o} \subseteq OrdersOf(r) \ {o}
    BY <2>1
  <2>5. \A o \in Orders : Rest(r, o)' <= Rest(r, o)
    BY <2>1, <2>2, <2>4 DEF Rest
  <2> QED BY <2>3, <2>5 DEF Covered
<1>3. ASSUME NEW e \in Dispatchers, Working(e)
      PROVE  Known(desk[e])' /\ Read(desk[e])' /\ Books(desk[e])'
  <2>1. /\ desk[e] \in Desk /\ Fits(desk[e]) /\ Known(desk[e]) /\ Read(desk[e]) /\ Books(desk[e])
    BY <1>3, Holds DEF Working
  <2>2. /\ desk'[e].at = desk[e].at /\ desk'[e].kind = desk[e].kind /\ desk'[e].left = desk[e].left
        /\ desk'[e].order = desk[e].order /\ desk'[e].to = desk[e].to /\ desk'[e].doc = desk[e].doc
        /\ desk'[e].base = desk[e].base /\ desk'[e].prevBase = desk[e].prevBase
        /\ desk'[e].writes = desk[e].writes /\ desk'[e].created = desk[e].created
    BY <1>3
  <2>3. desk[e].at \in {"order", "rider", "previous", "save"} => desk[e].order \in Orders /\ desk[e].to \in Fleet
    BY <2>1 DEF Fits
  <2>4. Known(desk[e])'
    BY <2>1, <2>2, <2>3 DEF Known, Desk
  <2>5. Read(desk[e])'
    BY <2>1, <2>2, <2>3 DEF Read, Known, Relieves
  <2>6. Pending(desk[e])' <=> Pending(desk[e])
    BY <2>2 DEF Pending, Relieves
  <2>7. Pending(desk[e]) => desk[e].doc.rider \in Fleet
    BY <2>1 DEF Pending, Relieves, Desk, OrderDoc
  <2>8. \A r \in Fleet, o \in Orders, n \in {0, 1} : Rest(r, o) + n <= load[r] => Rest(r, o)' + n <= load'[r]
    <3> SUFFICES ASSUME NEW r \in Fleet, NEW o \in Orders, NEW n \in {0, 1}, Rest(r, o) + n <= load[r]
                 PROVE  Rest(r, o)' + n <= load'[r]
      OBVIOUS
    <3>1. Rest(r, o) \in Nat /\ Rest(r, o)' \in Nat /\ load[r] \in Int /\ load'[r] = load[r]
      BY Split, SplitNext DEF IInv, DispatchTypeOK
    <3> QED BY <1>2, <3>1
  <2>9. Books(desk[e])'
    <3>1. /\ Owed(desk[e], "rider")' = Owed(desk[e], "rider") /\ Owed(desk[e], "rider") \in {0, 1}
          /\ Owed(desk[e], "previous")' = Owed(desk[e], "previous")
          /\ 1 - Owed(desk[e], "previous") \in {0, 1}
      BY <2>2 DEF Owed
    <3>2. ASSUME desk[e].at \in {"order", "rider", "previous", "save"}
          PROVE  (Rest(desk[e].to, desk[e].order) + Owed(desk[e], "rider") <= load[desk[e].to])'
      <4>1. PICK p \in Orders, to \in Fleet : p = desk[e].order /\ to = desk[e].to
        BY <2>3, <3>2
      <4>2. Rest(to, p) + Owed(desk[e], "rider") <= load[to]
        BY <2>1, <3>2, <4>1 DEF Books
      <4>3. Rest(to, p)' + Owed(desk[e], "rider")' <= load'[to]
        BY <2>8, <3>1, <4>2
      <4> QED BY <2>2, <4>1, <4>3
    <3>3. ASSUME Pending(desk[e])
          PROVE  (Rest(desk[e].doc.rider, desk[e].order) + (1 - Owed(desk[e], "previous"))
                   <= load[desk[e].doc.rider])'
      <4>1. PICK p \in Orders, from \in Fleet : p = desk[e].order /\ from = desk[e].doc.rider
        BY <2>3, <2>7, <3>3 DEF Pending
      <4>2. Rest(from, p) + (1 - Owed(desk[e], "previous")) <= load[from]
        BY <2>1, <3>3, <4>1 DEF Books
      <4>3. Rest(from, p)' + (1 - Owed(desk[e], "previous")') <= load'[from]
        BY <2>8, <3>1, <4>2
      <4> QED BY <2>2, <4>1, <4>3
    <3>4. \A r \in Fleet : Covered(r) => Covered(r)'
      BY <1>2
    <3>5. (desk[e].at \in {"order", "rider", "previous"} /\ ~desk[e].created => Covered(desk[e].to))'
      <4>1. ASSUME desk[e].at \in {"order", "rider", "previous"}, ~desk[e].created
            PROVE  Covered(desk[e].to)'
        <5>1. PICK to \in Fleet : to = desk[e].to
          BY <2>3, <4>1
        <5>2. Covered(to)'
          BY <2>1, <3>4, <4>1, <5>1 DEF Books
        <5> QED BY <2>2, <5>1, <5>2
      <4> QED BY <2>2, <4>1
    <3> QED BY <2>1, <2>2, <2>6, <3>2, <3>3, <3>4, <3>5 DEF Books
  <2> QED BY <2>4, <2>5, <2>9
<1> QED BY <1>1, <1>2, <1>3 DEF Accounts

(* Steps that give no order to anybody. *)
LEMMA BooksOthers ==
  ASSUME IInv, Accounts, ~disturbed',
         \/ UNCHANGED dispatchVars
         \/ \E d \in Dispatchers, o \in Orders : CreateManualOrder(d, o, NoOne)
         \/ \E d \in Dispatchers, these \in SUBSET Orders : UpdateClusterLoad(d, these)
         \/ \E d \in Dispatchers : UpdateClusterSave(d) \/ SaveAlert(d)
         \/ \E d \in Dispatchers, o \in Orders : AlertOrder(d, o)
         \/ \E these \in SUBSET Orders : SaveClusters(these)
         \/ DeleteCluster
         \/ \E o \in Orders, s \in Moves : OthersMove(o, s)
  PROVE  Accounts'
<1>0. /\ warehouseOrder \in [Orders -> OrderDoc] /\ desk \in [Dispatchers -> Desk]
      /\ ~disturbed /\ UNCHANGED load
  BY DEF dispatchVars, CreateManualOrder, UpdateClusterLoad, UpdateClusterSave, SaveClusters, DeleteCluster,
         OthersMove, AlertOrder, SaveAlert, IInv, DispatchTypeOK
<1>1. CASE UNCHANGED <<desk, warehouseOrder>>
  BY <1>0, <1>1, BooksApart
<1>2. ASSUME NEW o \in Orders, NEW d \in Dispatchers, CreateManualOrder(d, o, NoOne) PROVE Accounts'
  <2>1. UNCHANGED desk /\ warehouseOrder[o].status = "none"
        /\ warehouseOrder' = [warehouseOrder EXCEPT ![o].status = "pending", ![o].rider = NoOne]
    BY <1>2 DEF CreateManualOrder
  <2>2. warehouseOrder'[o].rider = NoOne /\ \A p \in Orders \ {o} : warehouseOrder'[p] = warehouseOrder[p]
    BY <1>0, <2>1 DEF OrderDoc
  <2> QED BY <1>0, <2>1, <2>2, BooksApart
<1>3. ASSUME NEW o \in Orders, NEW s \in Moves, OthersMove(o, s) PROVE Accounts'
  <2>1. UNCHANGED desk /\ warehouseOrder' = [warehouseOrder EXCEPT ![o].status = s] /\ s # "none"
    BY <1>3, OrdersAssumption DEF OthersMove
  <2>2. /\ warehouseOrder'[o].rider = warehouseOrder[o].rider /\ warehouseOrder'[o].status # "none"
        /\ \A p \in Orders \ {o} : warehouseOrder'[p] = warehouseOrder[p]
    BY <1>0, <2>1 DEF OrderDoc
  <2> QED BY <1>0, <2>1, <2>2, BooksApart
<1>4. ASSUME NEW d \in Dispatchers, NEW these \in SUBSET Orders, UpdateClusterLoad(d, these) PROVE Accounts'
  <2> DEFINE y == [Off EXCEPT !.at = "edit", !.kind = "edit", !.left = these, !.cluster = cluster]
  <2>1. Sits(d, "idle") /\ Set(d, y) /\ y.kind = "edit" /\ UNCHANGED warehouseOrder
    BY <1>4 DEF UpdateClusterLoad, Off
  <2>2. desk'[d] = y /\ \A e \in Dispatchers \ {d} : desk'[e] = desk[e]
    BY <1>0, <2>1 DEF Set
  <2> HIDE DEF y
  <2>3. ~Working(d) /\ ~Working(d)'
    BY <2>1, <2>2 DEF Working
  <2> QED BY <1>0, <2>1, <2>2, <2>3, BooksApart
<1>5. ASSUME NEW d \in Dispatchers, UpdateClusterSave(d) PROVE Accounts'
  <2>1. desk[d].kind = "edit" /\ Sits(d, "edit") /\ UNCHANGED warehouseOrder
    BY <1>5 DEF UpdateClusterSave, IInv, AllFit, Fits, Sits
  <2>2. \/ Set(d, Off)
        \/ desk' = [e \in Dispatchers |-> IF e = d THEN Off
                     ELSE [desk[e] EXCEPT !.stale = @ \/ Sits(e, "edit")]]
    BY <1>5 DEF UpdateClusterSave
  <2>3. desk'[d] = Off /\ \A e \in Dispatchers \ {d} :
           desk'[e] \in {desk[e], [desk[e] EXCEPT !.stale = @ \/ Sits(e, "edit")]}
    BY <1>0, <2>2 DEF Set
  <2>4. ~Working(d) /\ ~Working(d)'
    BY <2>1, <2>3 DEF Working, Sits, Off
  <2>5. \A e \in Dispatchers \ {d} :
          /\ desk'[e].at = desk[e].at /\ desk'[e].kind = desk[e].kind /\ desk'[e].left = desk[e].left
          /\ desk'[e].order = desk[e].order /\ desk'[e].to = desk[e].to /\ desk'[e].doc = desk[e].doc
          /\ desk'[e].base = desk[e].base /\ desk'[e].prevBase = desk[e].prevBase
          /\ desk'[e].writes = desk[e].writes /\ desk'[e].created = desk[e].created
    BY <1>0, <2>3 DEF Desk
  <2> QED BY <1>0, <2>1, <2>4, <2>5, BooksApart
<1>6. CASE DeleteCluster
  <2>1. \A e \in Dispatchers : \E c : desk'[e] = [desk[e] EXCEPT !.cluster = c]
    <3>1. desk' = [e \in Dispatchers |-> [desk[e] EXCEPT !.cluster =
                                           IF Busy(e, {"group", "edit"}) THEN Deleted ELSE @]]
      BY <1>6 DEF DeleteCluster
    <3> QED BY <3>1
  <2>2. ASSUME NEW e \in Dispatchers
        PROVE
          /\ desk'[e].at = desk[e].at /\ desk'[e].kind = desk[e].kind /\ desk'[e].left = desk[e].left
          /\ desk'[e].order = desk[e].order /\ desk'[e].to = desk[e].to /\ desk'[e].doc = desk[e].doc
          /\ desk'[e].base = desk[e].base /\ desk'[e].prevBase = desk[e].prevBase
          /\ desk'[e].writes = desk[e].writes /\ desk'[e].created = desk[e].created
    <3>1. PICK c : desk'[e] = [desk[e] EXCEPT !.cluster = c]
      BY <2>1
    <3>2. desk[e] \in Desk
      BY <1>0
    <3> QED BY <3>1, <3>2 DEF Desk
  <2>3. UNCHANGED warehouseOrder
    BY <1>6 DEF DeleteCluster
  <2> QED BY <1>0, <2>2, <2>3, BooksApart
<1>7. ASSUME NEW these \in SUBSET Orders, SaveClusters(these) PROVE Accounts'
  BY <1>1, <1>7 DEF SaveClusters
<1>8. ASSUME NEW d \in Dispatchers, NEW o \in Orders, AlertOrder(d, o) PROVE Accounts'
  <2> DEFINE y == [Only(o) EXCEPT !.at = "alert", !.kind = "alert", !.doc = warehouseOrder[o]]
  <2>1. Sits(d, "idle") /\ Set(d, y) /\ y.kind = "alert" /\ UNCHANGED warehouseOrder
    BY <1>8 DEF AlertOrder, Only, Off
  <2>2. desk'[d] = y /\ \A e \in Dispatchers \ {d} : desk'[e] = desk[e]
    BY <1>0, <2>1 DEF Set
  <2> HIDE DEF y
  <2>3. ~Working(d) /\ ~Working(d)'
    BY <2>1, <2>2 DEF Working
  <2> QED BY <1>0, <2>1, <2>2, <2>3, BooksApart
<1>9. ASSUME NEW d \in Dispatchers, SaveAlert(d) PROVE Accounts'
  <2>1. desk[d].kind = "alert" /\ Sits(d, "alert") /\ desk[d].order \in Orders
    BY <1>9 DEF SaveAlert, IInv, AllFit, Fits, Sits
  <2>2. Set(d, Off) \/ OthersStale(d, Off)
    BY <1>9 DEF SaveAlert
  <2>3. desk'[d] = Off /\ \A e \in Dispatchers \ {d} :
           desk'[e] \in {desk[e], [desk[e] EXCEPT !.stale = @ \/ HoldsCopy(e, desk[d].order)]}
    BY <1>0, <2>2 DEF Set, OthersStale
  <2>4. ~Working(d) /\ ~Working(d)'
    BY <2>1, <2>3 DEF Working, Sits, Off
  <2>5. \A e \in Dispatchers \ {d} :
          /\ desk'[e].at = desk[e].at /\ desk'[e].kind = desk[e].kind /\ desk'[e].left = desk[e].left
          /\ desk'[e].order = desk[e].order /\ desk'[e].to = desk[e].to /\ desk'[e].doc = desk[e].doc
          /\ desk'[e].base = desk[e].base /\ desk'[e].prevBase = desk[e].prevBase
          /\ desk'[e].writes = desk[e].writes /\ desk'[e].created = desk[e].created
    BY <1>0, <2>3 DEF Desk
  <2>6. \A o \in Orders : /\ warehouseOrder'[o].rider = warehouseOrder[o].rider
                          /\ warehouseOrder[o].status # "none" => warehouseOrder'[o].status # "none"
    <3>1. CASE UNCHANGED warehouseOrder
      BY <3>1
    <3>2. CASE warehouseOrder' = [warehouseOrder EXCEPT ![desk[d].order].status = "underway",
                                                        ![desk[d].order].timeline = desk[d].doc.timeline]
      BY <1>0, <2>1, <3>2 DEF OrderDoc
    <3>3. CASE desk[d].stale
      <4>1. UNCHANGED warehouseOrder
        BY <1>9, <3>3 DEF SaveAlert
      <4> QED BY <3>1, <4>1
    <3>4. CASE ~desk[d].stale
      <4>1. warehouseOrder' = [warehouseOrder EXCEPT ![desk[d].order].status = "underway",
                                                     ![desk[d].order].timeline = desk[d].doc.timeline]
        BY <1>9, <3>4 DEF SaveAlert
      <4> QED BY <3>2, <4>1
    <3> QED BY <3>3, <3>4
  <2>7. \A e \in Dispatchers :
          Working(e) \/ Working(e)' =>
            /\ desk'[e].at = desk[e].at /\ desk'[e].kind = desk[e].kind /\ desk'[e].left = desk[e].left
            /\ desk'[e].order = desk[e].order /\ desk'[e].to = desk[e].to /\ desk'[e].doc = desk[e].doc
            /\ desk'[e].base = desk[e].base /\ desk'[e].prevBase = desk[e].prevBase
            /\ desk'[e].writes = desk[e].writes /\ desk'[e].created = desk[e].created
    BY <2>4, <2>5
  <2>8. \A o \in Orders : warehouseOrder'[o].rider \in {warehouseOrder[o].rider, NoOne}
    BY <2>6
  <2>9. \A o \in Orders : warehouseOrder[o].status # "none" =>
          warehouseOrder'[o].rider = warehouseOrder[o].rider /\ warehouseOrder'[o].status # "none"
    BY <2>6
  <2> QED BY <1>0, <2>7, <2>8, <2>9, BooksApart
<1> QED BY <1>1, <1>2, <1>3, <1>4, <1>5, <1>6, <1>7, <1>8, <1>9 DEF dispatchVars

(* Every step keeps the accounts. *)
LEMMA BooksStep == IInv /\ Accounts /\ [DispatchNext]_dispatchVars => Accounts'
<1> SUFFICES ASSUME IInv, Accounts, [DispatchNext]_dispatchVars, ~disturbed' PROVE Accounts'
  BY DEF Accounts
<1>1. ASSUME NEW d \in Dispatchers, Starts(d) PROVE Accounts'
  <2>1. ASSUME NEW o \in Orders, NEW r \in Fleet \cup {NoOne}, CreateManualOrder(d, o, r) PROVE Accounts'
    BY <2>1, BooksCreate, BooksOthers
  <2>2. ASSUME NEW these \in SUBSET Orders, UpdateClusterLoad(d, these) PROVE Accounts'
    BY <2>2, BooksOthers
  <2>3. ASSUME NEW o \in Orders, AlertOrder(d, o) PROVE Accounts'
    BY <2>3, BooksOthers
  <2> QED BY <1>1, <2>1, <2>2, <2>3, BooksAssign, BooksMany DEF Starts
<1>2. ASSUME NEW d \in Dispatchers, Works(d) PROVE Accounts'
  <2>1. ~SaveFails(d) /\ ~Quit(d)
    BY DEF SaveFails, Quit
  <2>2. CASE LoadOrderDoc(d) \/ LoadRiderDoc(d)
    BY <2>2, BooksLoadOrder, BooksLoadRider
  <2>3. CASE WarehouseRefuses(d)
    <3>1. /\ desk[d].at \in {"rider", "previous"} /\ Missed(d) /\ ~disturbed /\ ~desk[d].created
          /\ UNCHANGED <<warehouseOrder, load>>
      BY <2>3 DEF WarehouseRefuses, Refuse
    <3> QED BY <3>1, Missing
  <2>4. CASE SaveCluster(d)
    <3>1. /\ Sits(d, "cluster") /\ Set(d, Off) /\ ~disturbed /\ UNCHANGED <<warehouseOrder, load>>
      BY <2>4 DEF SaveCluster
    <3>2. Working(d) /\ Books(desk[d]) /\ desk[d].at = "cluster"
      <4>1. desk[d].kind = "group" /\ desk[d].at = "cluster"
        BY <3>1 DEF IInv, AllFit, Fits, Sits
      <4> QED BY <3>1, <4>1, Holds DEF Sits
    <3>3. \A r \in Fleet : Covered(r)'
      BY <3>1, <3>2, Uncounted DEF Books
    <3>4. Others(d) /\ desk'[d].at = "idle"
      BY <3>1, SetOthers DEF Off
    <3> QED BY <3>1, <3>2, <3>3, <3>4, Between
  <2>5. CASE UpdateClusterSave(d) \/ SaveAlert(d)
    BY <2>5, BooksOthers
  <2>6. CASE ~LoadOrderDoc(d) /\ ~LoadRiderDoc(d) /\ ~WarehouseRefuses(d) /\ ~SaveCluster(d)
             /\ ~UpdateClusterSave(d) /\ ~SaveAlert(d)
    <3>1. UNCHANGED disturbed
      BY <1>2, <2>1, <2>6 DEF Works, PickOfCluster, PickNobody, PickForBatch, LoadPrevious, SaveOrderDoc,
           UpdateOrder, SaveRiderDoc, SavePrevious
    <3> QED BY <1>2, <2>1, <2>6, <3>1, BooksPick, BooksLoadPrevious, BooksSaveOrder, BooksSaveRider DEF Works
  <2> QED BY <2>2, <2>3, <2>4, <2>5, <2>6
<1> QED BY <1>1, <1>2, BooksOthers DEF DispatchNext

(* No orders, no load. *)
LEMMA InitAccounts == DispatchInit => Accounts
<1> SUFFICES ASSUME DispatchInit PROVE Accounts
  OBVIOUS
<1>1. \A d \in Dispatchers : ~Working(d)
  BY DEF DispatchInit, Working, Sits, Off
<1>2. ASSUME NEW r \in Fleet PROVE Covered(r)
  <2>1. OrdersOf(r) = {}
    BY NobodyAssumption DEF DispatchInit, OrdersOf, NoDoc
  <2> QED BY <2>1, FS_EmptySet DEF DispatchInit, Covered, Count
<1> QED BY <1>1, <1>2 DEF Accounts

(* As long as calls neither overlap nor stop half way, the load the        *)
(* capacity check reads is at least the number of orders the rider has,    *)
(* for any number of orders, riders and dispatchers, whether orders are    *)
(* assigned one by one, by the batch, as a cluster or by the warehouse,    *)
(* which moves one from rider to rider.                                    *)
THEOREM LoadsCover == DispatchSpec => []LoadCoversOrders
<1>1. Accounts => LoadCoversOrders
  BY DEF Accounts, LoadCoversOrders, Working, Covered, Count
<1> QED BY <1>1, InitAccounts, BooksStep, Inductive, PTL DEF DispatchSpec
=============================================================================
