---------------------------- MODULE MCOrderPayment ----------------------------
(* Small orders for TLC.                                                   *)
EXTENDS OrderOutcome

CONSTANTS s1, s2, poller

(* The gateway's calls in one slot, a customer who keeps looking at the    *)
(* order in the other.                                                     *)
GatewaySlots == {s1, poller}
GatewayServes == [s \in GatewaySlots |->
  IF s = poller THEN {"poll"} ELSE {"callback", "abort", "poll", "status", "cron"}]

(* The customer's cancels and new sessions against callbacks, new sessions *)
(* and the cron.                                                           *)
AllSlots == {s1, s2}
AllServes == [s \in AllSlots |->
  IF s = s1 THEN {"cancel", "session"} ELSE {"callback", "session", "cron"}]

(* The job is followed beside cancels and callbacks of a single session.   *)
FewRuns ==
  (\E s \in AllSlots : h[s].job = "cron") =>
    Cardinality(DOMAIN emitted) = 1 /\ \A s \in AllSlots : h[s].job # "session"

(* Two callbacks; a callback and the app's abort. *)
CallbackServes == [s \in AllSlots |-> {"callback", "session"}]
AbortServes == [s \in AllSlots |-> {"callback", "abort"}]
=============================================================================
