--------------------------- MODULE ShutdownOrders --------------------------
(***************************************************************************)
(* What becomes of the decision to shut something down, without clocks,    *)
(* tasks or retries (run_host in pve_shutdown.c: "any guests due", then    *)
(* "if the node itself is due, the node").  Orders pile up per host; one   *)
(* host at a time is taken in hand, with everything ordered for it so far. *)
(* It is refused as a whole before anything is done, or each of its guests *)
(* is asked to stop as often as it was ordered to, and only then the node. *)
(***************************************************************************)
EXTENDS Naturals

CONSTANTS
  Hosts, GuestIds,
  Lossy       \* may orders for guests be lost on the way?

VARIABLES
  due,        \* the hosts whose node is to go down
  owed,       \* how many orders to stop each guest wait
  hand        \* the host in hand, if any, with its orders

ovars == <<due, owed, hand>>

None == [g \in GuestIds |-> 0]

OrdersInit ==
  /\ due = {}
  /\ owed = [i \in Hosts |-> None]
  /\ hand = {}

(* The nodes ns, and the guests gs of each host, are to be stopped. *)
Order(ns, gs) ==
  /\ due' = due \cup ns
  /\ owed' = [i \in Hosts |-> [g \in GuestIds |->
                IF g \in gs[i] THEN owed[i][g] + 1 ELSE owed[i][g]]]
  /\ UNCHANGED hand

(* What may arrive of the orders n for a host's guests. *)
Arrivals(n) ==
  IF Lossy THEN {b \in [GuestIds -> UNION {0 .. n[g] : g \in GuestIds}] :
                   \A g \in GuestIds : b[g] <= n[g]}
           ELSE {n}

Take(i) ==
  /\ hand = {}
  /\ i \in due \/ owed[i] # None
  /\ \E b \in Arrivals(owed[i]) :
       hand' = {[host |-> i, node |-> i \in due, guests |-> b, stage |-> "taken"]}
  /\ due' = due \ {i}
  /\ owed' = [owed EXCEPT ![i] = None]

Refuse ==
  /\ \E o \in hand : o.stage = "taken"
  /\ hand' = {}
  /\ UNCHANGED <<due, owed>>

Begin ==
  /\ \E o \in hand : /\ o.stage = "taken"
                     /\ hand' = {[o EXCEPT !.stage = "guests"]}
  /\ UNCHANGED <<due, owed>>

StopGuest(g) ==
  /\ \E o \in hand : /\ o.stage = "guests" /\ o.guests[g] > 0
                     /\ hand' = {[o EXCEPT !.guests[g] = @ - 1]}
  /\ UNCHANGED <<due, owed>>

(* The node's turn comes if it is due, after the last of its guests. *)
StopNode ==
  /\ \E o \in hand : /\ o.stage = "guests" /\ o.guests = None /\ o.node
                     /\ hand' = {[o EXCEPT !.stage = "node"]}
  /\ UNCHANGED <<due, owed>>

Finish ==
  /\ \E o \in hand : o.stage \in {"guests", "node"} /\ o.guests = None
  /\ hand' = {}
  /\ UNCHANGED <<due, owed>>

OrdersNext ==
  \/ \E ns \in SUBSET Hosts, gs \in [Hosts -> SUBSET GuestIds] : Order(ns, gs)
  \/ \E i \in Hosts : Take(i)
  \/ Refuse \/ Begin
  \/ \E g \in GuestIds : StopGuest(g)
  \/ StopNode \/ Finish

OrdersSpec == OrdersInit /\ [][OrdersNext]_ovars
=============================================================================
