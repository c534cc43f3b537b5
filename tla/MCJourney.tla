----------------------------- MODULE MCJourney -----------------------------
(* Small instances for TLC of the way to the customer: one order and its    *)
(* rider, and dispatchers giving orders to riders.  They meet in nothing    *)
(* but Journey's Assign; a behaviour runs one of them.                     *)
EXTENDS Journey, Dispatch, TLC

CONSTANTS r1, c1, c2, u1, u2, o1, o2, f1, f2, d1, d2

VARIABLE side \* the one that runs

MCRiders == {r1}
MCCalls == {c1, c2}
MCUpdates == {u1, u2}
MCOrders == {o1, o2}
MCFleet == {f1, f2}
MCDispatchers == {d1, d2}

MCInit == Init /\ DispatchInit /\ side \in {"rider", "dispatch"}
MCNext == \/ side = "rider" /\ Next /\ UNCHANGED <<dispatchVars, side>>
          \/ side = "dispatch" /\ DispatchNext /\ UNCHANGED <<vars, side>>
MCSpec == MCInit /\ [][MCNext]_<<vars, dispatchVars, side>>

(* Swapping two of a kind; only one side runs, so one swap serves both.    *)
Swap(a, b, c, d) == {f \in Permutations({a, b, c, d}) :
                       f[a] \in {a, b} /\ f[b] \in {a, b} /\ (f[a] = a <=> f[c] = c)}
Alike == Swap(c1, c2, d1, d2) \cup Swap(u1, u2, o1, o2) \cup Permutations(MCFleet)

(* Bounds of the rider's side: two of all requests and updates are under    *)
(* way at a time, a rider delivers once, a trip is given back or assigned  *)
(* again before it is picked, what has been set by hand is not followed    *)
(* past a collision, and past one only the way to the door is followed.    *)
FewSteps ==
  /\ \A r \in Riders : drops[r] <= 1
  /\ Cardinality({c \in Calls : call[c].at # "idle"})
       + Cardinality({u \in Updates : update[u].at # "idle"}) <= 2
  /\ "picked" \in trip.timeline => trip.status \notin {"assigned", "confirmed", "cancelled"}
  /\ met => /\ ~byHand /\ trip.status \notin {"confirmed", "cancelled"}
            /\ \A c \in Calls : call[c].at \in {"idle", "status"}

(* Bounds of the dispatchers' side: everything while calls do not overlap;  *)
(* when they do, a cluster of one order under assignment, and the single   *)
(* assignments that compete for it.  One order is alerted, and by a desk   *)
(* beside one that assigns it alone or in a cluster.                       *)
Is(status) == {o \in Orders : warehouseOrder[o].status = status}
Work(kinds) == \E d \in Dispatchers : Busy(d, kinds)
FewOrders ==
  /\ ~crossed
  /\ Work({"edit"}) => ~Work({"one", "warehouse", "batch"})
  /\ Work({"alert"}) \/ Is("underway") # {} =>
       /\ Cardinality(Is("underway")) <= 1 /\ Is("gone") = {} /\ ~disturbed /\ \A r \in Fleet : load[r] <= 1
       /\ ~Work({"batch", "edit"}) /\ \A d \in Dispatchers : ~desk[d].created /\ ~desk[d].missed
  /\ disturbed =>
       /\ cluster.status # "none" /\ (\A r \in Fleet : load[r] <= 1)
       /\ Cardinality(Orders \ Is("none")) + Cardinality(cluster.orders) <= 2
       /\ ~Work({"batch", "edit"}) /\ Work({"group"})
       /\ \A d \in Dispatchers : ~desk[d].created /\ ~desk[d].missed
Few == FewSteps /\ FewOrders
=============================================================================
