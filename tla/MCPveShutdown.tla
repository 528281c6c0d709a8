--------------------------- MODULE MCPveShutdown ---------------------------
(* Small instances of PveShutdown. *)
EXTENDS PveShutdown, TLC

HostAt(min, pct) ==
  [enabled |-> TRUE, url |-> TRUE, pinned |-> TRUE, localhost |-> FALSE,
   shutdown_node |-> TRUE, on_battery_min |-> min, charge_pct |-> pct]
Rule(min, pct) == [on_battery_min |-> min, charge_pct |-> pct]
Reading(power, soc) == [power |-> power, soc |-> soc]

(* One host through outages, in dry run (the requests are the other runs'  *)
(* subject; the decisions are the same).  It fires after two minutes on *)
(* battery, guest 101 after one or at a charge of 1, guest 102 only with   *)
(* the node.                                                               *)
Guests(ids) ==
  [ids |-> ids, rule |-> (101 :> Rule(1, 1) @@ 102 :> Rule(0, 0))]
OneHost ==
  [enabled |-> TRUE, armed |-> FALSE, mains_back_min |-> 1,
   hosts |-> (0 :> HostAt(2, 0)), guests |-> (0 :> Guests({101, 102}))]

(* What the user may save in the middle of an outage: the feature off; the *)
(* guest list cut and the re-arm time doubled.                             *)
Off == [OneHost EXCEPT !.enabled = FALSE]
Edited == [OneHost EXCEPT !.mains_back_min = 2, !.guests[0] = Guests({102})]
OutageConfigs == {OneHost, Off, Edited}
OutageReadings == {Reading(Unknown, -1), Reading(Line, 1),
                   Reading(Battery, 1), Reading(Battery, 2)}

(* Two hosts that compete for the worker: host 0 fires at a charge of 1,   *)
(* host 1, with guest 101, after a minute.  The user may disarm, withdraw  *)
(* a certificate, leave a node up, name it localhost or disable it.        *)
TwoHosts ==
  [enabled |-> TRUE, armed |-> TRUE, mains_back_min |-> 1,
   hosts |-> (0 :> HostAt(0, 1) @@ 1 :> HostAt(1, 0)),
   guests |-> [i \in Hosts |-> [ids |-> IF i = 1 THEN {101} ELSE {},
                                rule |-> (101 :> Rule(0, 1))]]]
WorkerConfigs ==
  {TwoHosts,
   [TwoHosts EXCEPT !.armed = FALSE],
   [TwoHosts EXCEPT !.hosts[0].pinned = FALSE, !.hosts[1].shutdown_node = FALSE],
   [TwoHosts EXCEPT !.hosts[0].enabled = FALSE, !.hosts[1].localhost = TRUE]}
WorkerReadings == {Reading(Line, 2), Reading(Battery, 1), Reading(Battery, 2)}
=============================================================================
