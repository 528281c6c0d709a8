------------------------------- MODULE Bridge -------------------------------
(***************************************************************************)
(* main.c: how readings of the unit become a UPS status, an observation    *)
(* for the Proxmox engine, a light and an alert.                           *)
(*                                                                         *)
(* Two tasks publish the same four things.  The NimBLE host task does so   *)
(* for every decoded frame (bluetti_cb); the staleness task looks every    *)
(* 5 s at a copy of the state and says "unknown" when it is too old.       *)
(* Neither holds a lock from the reading to the publishing, so every call  *)
(* out of them is a step.                                                  *)
(*                                                                         *)
(* Of a reading the model keeps what the outputs depend on.  Minutes are   *)
(* none, short (at most runtime_low_s) or long; capacity-derived runtime   *)
(* likewise.                                                               *)
(***************************************************************************)
EXTENDS Integers

CONSTANTS
  Readings       \* the readings the unit may give

VARIABLES
  connected,   \* b.connected
  state,       \* b.state
  fresh,       \* STALE_AFTER_US has not passed since updated_us
  ble,         \* the host task: where in bluetti_cb, with which copy
  stale,       \* the staleness task: where, and what it has found out
  status,      \* ups.status
  runtime,     \* battery.runtime
  driver,      \* driver.state
  led,         \* the light: LED_STATE_LINKED (green) or LED_STATE_BOOT
  observed,    \* the last pve_shutdown_observe
  alerted,     \* the status of the last notify_ups_status
  newest,      \* history: what the last frame handed to bluetti_cb says
  runtime_low  \* s_cfg.runtime_low_s > 0, fixed at the start

vars == <<connected, state, fresh, ble, stale, status, runtime, driver, led,
          observed, alerted, newest, runtime_low>>

Status == {"OL", "OB", "OB LB", "OFF", "OL WAIT"}
Minutes == {"none", "short", "long"}
Reading == [valid : BOOLEAN, sweep_done : BOOLEAN, ac : BOOLEAN,
            low : BOOLEAN, minutes : Minutes, derived : Minutes]
(* state_reset *)
NoReading == [valid |-> FALSE, sweep_done |-> FALSE, ac |-> FALSE,
              low |-> FALSE, minutes |-> "none", derived |-> "none"]
Observations == {"unknown", "line", "battery"}

ASSUME BridgeAssumption ==
  Readings \subseteq Reading /\ \A r \in Readings : r.valid

TypeOK ==
  /\ connected \in BOOLEAN /\ fresh \in BOOLEAN
  /\ state \in Readings \cup {NoReading}
  /\ ble \in [pc : {"idle", "led", "vars", "power", "status", "notify", "wait", "unknown"},
              st : Readings \cup {NoReading}]
  /\ stale \in [pc : {"sleep", "led", "status", "driver", "notify", "observe"},
                old : BOOLEAN, says : Status]
  /\ status \in Status /\ alerted \in Status
  /\ runtime \in Minutes
  /\ driver \in {"none", "updated", "connected-no-data", "disconnected"}
  /\ led \in {"linked", "boot"}
  /\ observed \in Observations /\ newest \in Observations
  /\ runtime_low \in BOOLEAN

(* start_services: nut_server_start seeds ups.status with "OFF". *)
Init ==
  /\ connected = FALSE /\ state = NoReading /\ fresh = FALSE
  /\ ble = [pc |-> "idle", st |-> NoReading]
  /\ stale = [pc |-> "sleep", old |-> FALSE, says |-> "OFF"]
  /\ status = "OFF" /\ runtime = "none" /\ driver = "none" /\ led = "boot"
  /\ observed = "unknown" /\ alerted = "OFF" /\ newest = "unknown"
  /\ runtime_low \in BOOLEAN

-----------------------------------------------------------------------------
(* The link, as bluetti_ble.c presents it: a new connection resets the     *)
(* state, a lost one leaves it.  Its callbacks run on the host task.       *)
LinkUp ==
  /\ ~connected /\ ble.pc = "idle"
  /\ connected' = TRUE
  /\ state' = NoReading
  /\ UNCHANGED <<fresh, ble, stale, status, runtime, driver, led,
                 observed, alerted, newest, runtime_low>>

LinkDown ==
  /\ connected /\ ble.pc = "idle"
  /\ connected' = FALSE
  /\ UNCHANGED <<state, fresh, ble, stale, status, runtime, driver, led,
                 observed, alerted, newest, runtime_low>>

(* 30 s since the last decoded frame. *)
Ages ==
  /\ fresh
  /\ fresh' = FALSE
  /\ UNCHANGED <<connected, state, ble, stale, status, runtime, driver, led,
                 observed, alerted, newest, runtime_low>>

(* session_regs: the frame is decoded under b.lock and a copy handed on. *)
Says(r) == IF ~r.sweep_done THEN "unknown" ELSE IF r.ac THEN "line" ELSE "battery"
Frame(r) ==
  /\ connected /\ ble.pc = "idle"
  /\ state' = r /\ fresh' = TRUE
  /\ ble' = [pc |-> "led", st |-> r]
  /\ newest' = Says(r)
  /\ UNCHANGED <<connected, stale, status, runtime, driver, led, observed, alerted,
                 runtime_low>>

-----------------------------------------------------------------------------
(* bluetti_cb: led_status_set, then publish_nut_from_bluetti. *)
BleLed ==
  /\ ble.pc = "led"
  /\ led' = "linked"
  /\ ble' = [ble EXCEPT !.pc = "vars"]
  /\ UNCHANGED <<connected, state, fresh, stale, status, runtime, driver,
                 observed, alerted, newest, runtime_low>>

(* battery.runtime: the unit's own estimate when it discharges and has     *)
(* one, else the one derived from capacity, charge and load.               *)
Runtime(r) == IF ~r.ac /\ r.minutes # "none" THEN r.minutes ELSE r.derived

(* Faulty: the power state is inferred from an unfinished sweep. *)
BlePublishEarly ==
  /\ ble.pc = "vars"
  /\ runtime' = Runtime(ble.st)
  /\ ble' = [ble EXCEPT !.pc = "power"]
  /\ UNCHANGED <<connected, state, fresh, stale, status, driver, led,
                 observed, alerted, newest, runtime_low>>

(* The measurements; the power state only once the sweep is complete. *)
BlePublish ==
  /\ ble.pc = "vars"
  /\ runtime' = Runtime(ble.st)
  /\ ble' = [ble EXCEPT !.pc = IF ble.st.sweep_done THEN "power" ELSE "wait"]
  /\ UNCHANGED <<connected, state, fresh, stale, status, driver, led,
                 observed, alerted, newest, runtime_low>>

(* !sweep_done: "OL WAIT", then "not a reading yet". *)
BleWait ==
  /\ ble.pc = "wait"
  /\ status' = "OL WAIT"
  /\ ble' = [ble EXCEPT !.pc = "unknown"]
  /\ UNCHANGED <<connected, state, fresh, stale, runtime, driver, led,
                 observed, alerted, newest, runtime_low>>
BleUnknown ==
  /\ ble.pc = "unknown"
  /\ observed' = "unknown"
  /\ ble' = [ble EXCEPT !.pc = "idle"]
  /\ UNCHANGED <<connected, state, fresh, stale, status, runtime, driver, led,
                 alerted, newest, runtime_low>>

(* pve_shutdown_observe(true, ac_input_present, soc_pct) *)
BleObserve ==
  /\ ble.pc = "power"
  /\ observed' = IF ble.st.ac THEN "line" ELSE "battery"
  /\ ble' = [ble EXCEPT !.pc = "status"]
  /\ UNCHANGED <<connected, state, fresh, stale, status, runtime, driver, led,
                 alerted, newest, runtime_low>>

(* Faulty: the battery counts as low only by its percentage. *)
StatusByCharge(r) == IF r.ac THEN "OL" ELSE IF r.low THEN "OB LB" ELSE "OB"

(* The status string: low by charge, or by the unit's own estimate if      *)
(* there is a threshold for it.                                            *)
StatusOf(r) == IF r.ac THEN "OL"
               ELSE IF r.low \/ (runtime_low /\ r.minutes = "short") THEN "OB LB"
               ELSE "OB"
BleStatus ==
  /\ ble.pc = "status"
  /\ status' = StatusOf(ble.st)
  /\ ble' = [ble EXCEPT !.pc = "notify"]
  /\ UNCHANGED <<connected, state, fresh, stale, runtime, driver, led,
                 observed, alerted, newest, runtime_low>>
BleNotify ==
  /\ ble.pc = "notify"
  /\ alerted' = StatusOf(ble.st)
  /\ ble' = [ble EXCEPT !.pc = "idle"]
  /\ UNCHANGED <<connected, state, fresh, stale, status, runtime, driver, led,
                 observed, newest, runtime_low>>
BleStep ==
  BleLed \/ BlePublish \/ BleWait \/ BleUnknown \/ BleObserve \/ BleStatus \/ BleNotify

-----------------------------------------------------------------------------
(* staleness_task: bluetti_ble_get_state, and how old it is. *)
StaleLook ==
  /\ stale.pc = "sleep"
  /\ stale' = [stale EXCEPT !.pc = "led", !.old = ~state.valid \/ ~fresh]
  /\ UNCHANGED <<connected, state, fresh, ble, status, runtime, driver, led,
                 observed, alerted, newest, runtime_low>>

StaleLed ==
  /\ stale.pc = "led"
  /\ led' = IF connected /\ ~stale.old THEN "linked" ELSE "boot"
  /\ stale' = [stale EXCEPT !.pc = IF stale.old THEN "status" ELSE "driver"]
  /\ UNCHANGED <<connected, state, fresh, ble, status, runtime, driver,
                 observed, alerted, newest, runtime_low>>

StaleStatus ==
  /\ stale.pc = "status"
  /\ LET s == IF connected THEN "OL WAIT" ELSE "OFF"
     IN  status' = s /\ stale' = [stale EXCEPT !.pc = "driver", !.says = s]
  /\ UNCHANGED <<connected, state, fresh, ble, runtime, driver, led,
                 observed, alerted, newest, runtime_low>>

StaleDriver ==
  /\ stale.pc = "driver"
  /\ driver' = IF ~stale.old THEN "updated"
               ELSE IF connected THEN "connected-no-data" ELSE "disconnected"
  /\ stale' = [stale EXCEPT !.pc = IF stale.old THEN "notify" ELSE "sleep"]
  /\ UNCHANGED <<connected, state, fresh, ble, status, runtime, led,
                 observed, alerted, newest, runtime_low>>

StaleNotify ==
  /\ stale.pc = "notify"
  /\ alerted' = stale.says
  /\ stale' = [stale EXCEPT !.pc = "observe"]
  /\ UNCHANGED <<connected, state, fresh, ble, status, runtime, driver, led,
                 observed, newest, runtime_low>>

(* Faulty: data that stopped is reported, but not to the Proxmox engine. *)
StaleObserveSkipped ==
  /\ stale.pc = "observe"
  /\ stale' = [stale EXCEPT !.pc = "sleep"]
  /\ UNCHANGED <<connected, state, fresh, ble, status, runtime, driver, led,
                 observed, alerted, newest, runtime_low>>

(* "stale: unknown, fail-safe" *)
StaleObserve ==
  /\ stale.pc = "observe"
  /\ observed' = "unknown"
  /\ stale' = [stale EXCEPT !.pc = "sleep"]
  /\ UNCHANGED <<connected, state, fresh, ble, status, runtime, driver, led,
                 alerted, newest, runtime_low>>

StaleStep ==
  StaleLook \/ StaleLed \/ StaleStatus \/ StaleDriver \/ StaleNotify \/ StaleObserve

-----------------------------------------------------------------------------
Next ==
  \/ LinkUp \/ LinkDown \/ Ages
  \/ \E r \in Readings : Frame(r)
  \/ BleStep \/ StaleStep

Spec == Init /\ [][Next]_vars

(* Both tasks run on, and time passes. *)
Fairness == WF_vars(BleStep) /\ WF_vars(StaleStep) /\ WF_vars(Ages)
FairSpec == Spec /\ Fairness

-----------------------------------------------------------------------------
(* A NUT client sees "on battery", and the Proxmox engine is told so, only *)
(* if the newest frame says it and its sweep was marked done.  Neither an  *)
(* unfinished sweep nor the staleness task, at whatever point of a frame's *)
(* publishing, makes an outage out of missing data.  A sweep is done once  *)
(* every field was asked for; that every field was also read, main.c only  *)
(* assumes (SweepRead of BtPoll).                                          *)
NoFalseOutage ==
  ble.pc = "idle" =>
    /\ status \in {"OB", "OB LB"} => newest = "battery"
    /\ observed = "battery" => newest = "battery"

(* battery.runtime and LB agree: a unit that discharges and estimates its  *)
(* own runtime never shows "OB" without LB next to a runtime at or below   *)
(* battery.runtime.low, where that is published.                           *)
RuntimeAgrees ==
  ble.pc = "idle" /\ runtime_low /\ status = "OB" /\ ble.st.minutes # "none" =>
    runtime # "short"

(* When the link stays down, the bridge says so for good: OFF to clients,  *)
(* "unknown" to the Proxmox engine, and the light is red.                  *)
BlindIsSaid ==
  <>[](~connected) => <>[](status = "OFF" /\ observed = "unknown" /\ led = "boot")
=============================================================================
