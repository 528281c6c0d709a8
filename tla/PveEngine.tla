----------------------------- MODULE PveEngine -----------------------------
(***************************************************************************)
(* The decision half of the Proxmox shutdown feature: pve_engine.c, pure   *)
(* functions over the engine's state, with no I/O.                         *)
(*                                                                         *)
(* One outage is shared by all hosts; every host and every configured      *)
(* guest has its own thresholds and its own fire-once latch.  An array of  *)
(* latches is the set of the indices that are latched; a guest list is the *)
(* set of its ids with a trigger for each.  The unit of time is the        *)
(* minute, the unit of every threshold.                                    *)
(***************************************************************************)
EXTENDS Integers

CONSTANTS
  Hosts,      \* the host slots, 0 .. PVE_MAX_HOSTS - 1
  GuestIds,   \* the VM and container ids that may be configured
  MaxPct      \* the largest charge the unit reports

ASSUME HostsAssumption == Hosts \subseteq Nat /\ Hosts # {}
ASSUME GuestIdsAssumption == GuestIds # {}
ASSUME MaxPctAssumption == MaxPct \in Nat

Unknown == "unknown"   \* PVE_PWR_UNKNOWN
Line    == "line"      \* PVE_PWR_LINE
Battery == "battery"   \* PVE_PWR_BATTERY
Power   == {Unknown, Line, Battery}

(* A charge figure; -1 is "not known". *)
Soc == -1 .. MaxPct

(* pve_obs_t: an unknown power comes with an unknown charge. *)
Obs == {o \in [power : Power, soc : Soc] : o.power = Unknown => o.soc = -1}

(* The two thresholds of a host or a guest; 0 switches one off. *)
Trigger == [on_battery_min : Nat, charge_pct : 0 .. MaxPct]

(* pve_host_t.  url, pinned and localhost stand for "the URL is set", "a   *)
(* fingerprint is stored" and "the node name is localhost".                *)
Host == [enabled : BOOLEAN, url : BOOLEAN, pinned : BOOLEAN,
         localhost : BOOLEAN, shutdown_node : BOOLEAN,
         on_battery_min : Nat, charge_pct : 0 .. MaxPct]

(* The guest rules of one host: the ids on the list and their triggers.    *)
(* rule[g] has no meaning for a g that is not in ids.                      *)
GuestList == [ids : SUBSET GuestIds, rule : [GuestIds -> Trigger]]

(* pve_config_t with the guest lists that are always replaced with it. *)
Config == [enabled : BOOLEAN, armed : BOOLEAN, mains_back_min : Nat,
           hosts : [Hosts -> Host], guests : [Hosts -> GuestList]]

(* pve_engine_t.  known[i] is the set of guest ids the engine holds state  *)
(* for; guest_fired[i] and fired_now[i] are the flags of those ids.        *)
Engine == [on_battery : BOOLEAN, on_battery_since : Nat,
           on_mains : BOOLEAN, mains_since : Nat,
           fired : SUBSET Hosts,
           known : [Hosts -> SUBSET GuestIds],
           guest_fired : [Hosts -> SUBSET GuestIds],
           fired_now : [Hosts -> SUBSET GuestIds]]

(* memset(&P.eng, 0, ...) *)
EmptyEngine ==
  [on_battery |-> FALSE, on_battery_since |-> 0,
   on_mains |-> FALSE, mains_since |-> 0,
   fired |-> {},
   known |-> [i \in Hosts |-> {}],
   guest_fired |-> [i \in Hosts |-> {}],
   fired_now |-> [i \in Hosts |-> {}]]

-----------------------------------------------------------------------------
(* The ids of host i's configured guest list. *)
Configured(cfg, i) == cfg.guests[i].ids

(* Faulty variants of SyncGuests: the latches are forgotten; fired_now     *)
(* survives.                                                               *)
SyncForgets(eng, cfg) ==
  [eng EXCEPT !.known = [i \in Hosts |-> Configured(cfg, i)],
              !.guest_fired = [i \in Hosts |-> {}],
              !.fired_now = [i \in Hosts |-> {}]]
SyncKeepsNow(eng, cfg) ==
  [eng EXCEPT !.known = [i \in Hosts |-> Configured(cfg, i)],
              !.guest_fired = [i \in Hosts |-> eng.guest_fired[i] \cap Configured(cfg, i)],
              !.fired_now = [i \in Hosts |-> eng.fired_now[i] \cap Configured(cfg, i)]]

(* pve_engine_sync_guests for every host: the state of an id that stays is *)
(* carried over, fired_now never is.                                       *)
SyncGuests(eng, cfg) ==
  [eng EXCEPT
     !.known = [i \in Hosts |-> Configured(cfg, i)],
     !.guest_fired = [i \in Hosts |-> eng.guest_fired[i] \cap Configured(cfg, i)],
     !.fired_now = [i \in Hosts |-> {}]]

(* Faulty: the timer fires a minute late. *)
TriggerLate(t, eng, obs, now) ==
  \/ /\ t.on_battery_min > 0
     /\ eng.on_battery
     /\ now - eng.on_battery_since > t.on_battery_min
  \/ /\ obs.power = Battery
     /\ t.charge_pct > 0
     /\ obs.soc \in 0 .. t.charge_pct

(* trigger_met: t is a host or a guest rule. *)
TriggerMet(t, eng, obs, now) ==
  \/ /\ t.on_battery_min > 0
     /\ eng.on_battery
     /\ now - eng.on_battery_since >= t.on_battery_min
  \/ /\ obs.power = Battery
     /\ t.charge_pct > 0
     /\ obs.soc >= 0
     /\ obs.soc <= t.charge_pct

(* Faulty: losing the link counts as an outage. *)
FoldUnsafe(eng, obs, now) ==
  [eng EXCEPT
     !.on_battery = (obs.power # Line),
     !.on_battery_since = IF obs.power # Line /\ ~eng.on_battery
                          THEN now ELSE eng.on_battery_since,
     !.on_mains = (obs.power = Line),
     !.mains_since = IF obs.power = Line /\ ~eng.on_mains
                     THEN now ELSE eng.mains_since]

(* The clocks of the engine after the switch on the observed power. *)
FoldPower(eng, obs, now) ==
  [eng EXCEPT
     !.on_battery = (obs.power = Battery) \/ (obs.power = Unknown /\ eng.on_battery),
     !.on_battery_since = IF obs.power = Battery /\ ~eng.on_battery
                          THEN now ELSE eng.on_battery_since,
     !.on_mains = (obs.power = Line),
     !.mains_since = IF obs.power = Line /\ ~eng.on_mains
                     THEN now ELSE eng.mains_since]

(* Faulty: any sign of the mains releases the latches. *)
MainsBackAtOnce(cfg, eng, now) == cfg.mains_back_min > 0 /\ eng.on_mains

(* The mains has been back for long enough to release the latches. *)
MainsBack(cfg, eng, now) ==
  /\ cfg.mains_back_min > 0
  /\ eng.on_mains
  /\ now - eng.mains_since >= cfg.mains_back_min

(* The guests of host i that are latched when its own turn in the loop     *)
(* comes, once the release has been applied.                               *)
HeldGuests(cfg, eng, now, i) ==
  IF MainsBack(cfg, eng, now) THEN {} ELSE eng.guest_fired[i]

(* The hosts the loop does not leave early: not latched, and enabled. *)
Live(cfg, eng) == {i \in Hosts : i \notin eng.fired /\ cfg.hosts[i].enabled}

(* The hosts whose own trigger fires: the result of pve_eval. *)
DueHosts(cfg, eng, obs, now) ==
  {i \in Live(cfg, eng) : TriggerMet(cfg.hosts[i], eng, obs, now)}

(* Faulty: the node goes without its other guests. *)
DueGuestsOwn(cfg, eng, obs, now, i) ==
  {g \in (Configured(cfg, i) \cap eng.known[i]) \ HeldGuests(cfg, eng, now, i) :
     /\ i \in Live(cfg, eng)
     /\ TriggerMet(cfg.guests[i].rule[g], eng, obs, now)}

(* The guests of host i that fire: on their own trigger, or swept up with  *)
(* their node.                                                             *)
DueGuests(cfg, eng, obs, now, i) ==
  {g \in (Configured(cfg, i) \cap eng.known[i]) \ HeldGuests(cfg, eng, now, i) :
     /\ i \in Live(cfg, eng)
     /\ \/ TriggerMet(cfg.guests[i].rule[g], eng, obs, now)
        \/ i \in DueHosts(cfg, eng, obs, now)}

(* The loop of pve_eval over the hosts, for clocks already folded. *)
Latch(cfg, eng, obs, now) ==
  [eng EXCEPT
     !.fired = (IF MainsBack(cfg, eng, now) THEN {} ELSE eng.fired)
                 \cup DueHosts(cfg, eng, obs, now),
     !.guest_fired = [i \in Hosts |-> HeldGuests(cfg, eng, now, i)
                                        \cup DueGuests(cfg, eng, obs, now, i)],
     !.fired_now = [i \in Hosts |-> DueGuests(cfg, eng, obs, now, i)]]

(* The feature is off: the clocks stop, nothing else is touched. *)
SwitchedOff(eng) == [eng EXCEPT !.on_battery = FALSE, !.on_mains = FALSE]

(* pve_eval: the engine it leaves behind ... *)
pve_eval(cfg, eng, obs, now) ==
  IF cfg.enabled THEN Latch(cfg, FoldPower(eng, obs, now), obs, now)
                 ELSE SwitchedOff(eng)

(* ... and pve_fire_t, the hosts that fired in this call. *)
pve_fire(cfg, eng, obs, now) ==
  IF cfg.enabled THEN DueHosts(cfg, FoldPower(eng, obs, now), obs, now) ELSE {}

(* US_PER_MIN / US_PER_S. *)
SPerMin == 60

(* pve_countdown_s: the seconds left of host i's on-battery timer, -1 when *)
(* none is shown.  The code divides microseconds and drops the remainder;  *)
(* here now is a whole number of minutes, so there is none.  (Between two  *)
(* of them the page shows 0 for the last fraction of a second before the   *)
(* deadline, which is for the eye only: no decision reads this function.)  *)
pve_countdown_s(cfg, eng, i, now) ==
  LET due == eng.on_battery_since + cfg.hosts[i].on_battery_min
  IN IF \/ ~cfg.enabled \/ ~cfg.hosts[i].enabled
        \/ cfg.hosts[i].on_battery_min = 0
        \/ ~eng.on_battery \/ i \in eng.fired
     THEN -1
     ELSE IF due > now THEN SPerMin * (due - now) ELSE 0

(* pve_guest_countdown_s: the same for guest g of host i, with the same    *)
(* division.                                                               *)
pve_guest_countdown_s(cfg, eng, i, g, now) ==
  LET due == eng.on_battery_since + cfg.guests[i].rule[g].on_battery_min
  IN IF \/ ~cfg.enabled \/ ~cfg.hosts[i].enabled \/ ~eng.on_battery
        \/ g \notin Configured(cfg, i)
        \/ cfg.guests[i].rule[g].on_battery_min = 0
        \/ g \in eng.guest_fired[i]
     THEN -1
     ELSE IF due > now THEN SPerMin * (due - now) ELSE 0
=============================================================================
