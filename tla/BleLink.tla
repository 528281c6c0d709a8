------------------------------ MODULE BleLink -------------------------------
(***************************************************************************)
(* bluetti_ble.c: who has the radio.  Three tasks share b.mode,            *)
(* b.resume_connect and the NimBLE GAP procedures without a lock: the      *)
(* NimBLE host task (gap_event, on_reset, on_sync), the web server         *)
(* (h_ble_scan, which takes the radio from the link for a scan of 7 s) and *)
(* the timer task (scan_timer_cb, which gives it back).                    *)
(*                                                                         *)
(* poll_timer_cb, on the timer task too, gives up a link that has gone     *)
(* silent, in two steps.                                                   *)
(*                                                                         *)
(* NimBLE is external: each ble_gap_* call is atomic, there is one         *)
(* discovery or connection attempt at a time, a discovery that is          *)
(* cancelled reports nothing, a link that is terminated ends, a host reset *)
(* ends everything with the event that belongs to it and is followed by a  *)
(* sync, and without a usable address every procedure is refused.          *)
(***************************************************************************)
EXTENDS Integers

CONSTANTS
  MaxScans,     \* bound: scans asked for from the page
  MaxFaults     \* bound: links lost or silent, attempts failed, host resets,
                \* syncs without an address

ASSUME BleLinkAssumption == MaxScans \in Nat /\ MaxFaults \in Nat

VARIABLES
  mode,         \* b.mode
  resume,       \* b.resume_connect
  synced,       \* b.synced
  due,          \* NimBLE has yet to call on_sync since its last reset
  connected,    \* b.connected
  linked,       \* NimBLE has the link
  closing,      \* ble_gap_terminate was called on it
  gap,          \* NimBLE's procedure: "idle", "disc" or "conn"
  armed,        \* scan_timer
  main, page, tmr, host,   \* where each task is
  scanCut,      \* history: a host reset has ended a scan
  scans, faults

blelink == <<connected, linked, closing>>
task == <<main, page, tmr, host>>
count == <<scans, faults>>
blevars == <<mode, resume, synced, due, blelink, gap, armed, task, scanCut, count>>

(* Types; and a scan always has its end in sight. *)
BleTypeOK ==
  /\ mode \in {"IDLE", "SCAN", "CONNECT"}
  /\ resume \in BOOLEAN /\ synced \in BOOLEAN /\ due \in BOOLEAN
  /\ connected \in BOOLEAN /\ linked \in BOOLEAN /\ closing \in BOOLEAN
  /\ armed \in BOOLEAN /\ scanCut \in BOOLEAN
  /\ connected \/ closing => linked
  /\ synced => ~due
  /\ mode = "SCAN" => armed \/ tmr = "stop" \/ page = "claimed"
  /\ gap \in {"idle", "disc", "conn"}
  /\ main \in {"starting", "started", "failed"}
  /\ page \in {"idle", "asked", "noted", "claimed", "mode", "terminate", "disc"}
  /\ tmr \in {"idle", "stop", "resume", "drop"}
  /\ host \in {"idle", "connect"}
  /\ scans \in 0 .. MaxScans /\ faults \in 0 .. MaxFaults

(* bluetti_ble_host_init has run; the 5 s wait for the sync may be over. *)
BleInit ==
  /\ mode = "IDLE" /\ resume = FALSE /\ synced = FALSE /\ due = TRUE
  /\ connected = FALSE /\ linked = FALSE /\ closing = FALSE
  /\ gap = "idle" /\ armed = FALSE
  /\ main = "starting" /\ page = "idle" /\ tmr = "idle" /\ host = "idle"
  /\ scanCut = FALSE /\ scans = 0 /\ faults = 0

-----------------------------------------------------------------------------
(* ble_gap_disc, as start_disc calls it: a refusal is only logged. *)
Disc(g, ok) == IF g = "idle" /\ ok THEN "disc" ELSE g
(* ble_gap_disc_cancel *)
Cancel(g) == IF g = "disc" THEN "idle" ELSE g
(* start_connect_scan *)
ConnectScan(m, g, ok) == IF m = "CONNECT" THEN Disc(g, ok) ELSE g
(* What the host task does when the radio is free again, by b.mode. *)
Continue(m, g, ok) == IF m = "SCAN" THEN Disc(g, ok) ELSE ConnectScan(m, g, ok)

(* bluetti_ble_start, and what follows in start_services: without a synced *)
(* host or a usable address it fails, once and for all.                    *)
Start ==
  /\ main = "starting"
  /\ \/ /\ synced
        /\ mode' = "CONNECT"
        /\ gap' = ConnectScan("CONNECT", Cancel(gap), synced)
        /\ main' = "started"
     \/ main' = "failed" /\ UNCHANGED <<mode, gap>>
  /\ UNCHANGED <<resume, synced, due, blelink, armed, page, tmr, host,
                 scanCut, count>>

-----------------------------------------------------------------------------
(* h_ble_scan finds that no scan is under way, *)
PageAsks ==
  /\ main # "starting" /\ page = "idle" /\ mode # "SCAN" /\ scans < MaxScans
  /\ scans' = scans + 1
  /\ page' = "asked"
  /\ UNCHANGED <<mode, resume, synced, due, blelink, gap, armed, main,
                 tmr, host, scanCut, faults>>

(* Faulty: a scan forgets that there was a link to go back to. *)
PageForgets ==
  /\ page = "asked"
  /\ resume' = FALSE
  /\ page' = "noted"
  /\ UNCHANGED <<mode, synced, due, blelink, gap, armed, main, tmr, host, scanCut, count>>
(* bluetti_ble_scan notes what to go back to, *)
PageNotes ==
  /\ page = "asked"
  /\ resume' = (mode = "CONNECT")
  /\ page' = "noted"
  /\ UNCHANGED <<mode, synced, due, blelink, gap, armed, main, tmr, host, scanCut, count>>

(* claims the radio, *)
PageClaims ==
  /\ page = "noted"
  /\ mode' = "SCAN"
  /\ page' = "claimed"
  /\ UNCHANGED <<resume, synced, due, blelink, gap, armed, main, tmr, host, scanCut, count>>

(* Faulty: the timer that ends a scan is not started. *)
PageArmsNothing ==
  /\ page = "claimed"
  /\ page' = "mode"
  /\ UNCHANGED <<mode, resume, synced, due, blelink, gap, armed, main, tmr, host, scanCut, count>>
(* for the duration of the timer, stopped and started, *)
PageArms ==
  /\ page = "claimed"
  /\ armed' = TRUE
  /\ page' = "mode"
  /\ UNCHANGED <<mode, resume, synced, due, blelink, gap, main, tmr, host, scanCut, count>>

(* looks at the link, *)
PageLooks ==
  /\ page = "mode"
  /\ page' = IF connected THEN "terminate" ELSE IF synced THEN "disc" ELSE "idle"
  /\ UNCHANGED <<mode, resume, synced, due, blelink, gap, armed, main,
                 tmr, host, scanCut, count>>

(* and ends it, leaving the rest to the DISCONNECT event, or discovers. *)
PageTakes ==
  /\ \/ page = "terminate" /\ closing' = linked /\ UNCHANGED gap
     \/ page = "disc" /\ gap' = Disc(Cancel(gap), synced) /\ UNCHANGED closing
  /\ page' = "idle"
  /\ UNCHANGED <<mode, resume, synced, due, connected, linked, armed, main, tmr, host,
                 scanCut, count>>

-----------------------------------------------------------------------------
(* scan_timer_cb, bluetti_ble_scan_stop: the discovery is cancelled, *)
TimerCancels ==
  /\ tmr = "idle" /\ armed
  /\ armed' = FALSE
  /\ gap' = Cancel(gap)
  /\ tmr' = "stop"
  /\ UNCHANGED <<mode, resume, synced, due, blelink, main, page, host,
                 scanCut, count>>

(* the mode goes back to what it was, *)
TimerStops ==
  /\ tmr = "stop"
  /\ \/ mode # "SCAN" /\ tmr' = "idle" /\ UNCHANGED <<mode, resume>>
     \/ mode = "SCAN" /\ resume /\ resume' = FALSE /\ mode' = "CONNECT" /\ tmr' = "resume"
     \/ mode = "SCAN" /\ ~resume /\ mode' = "IDLE" /\ tmr' = "idle" /\ UNCHANGED resume
  /\ UNCHANGED <<synced, due, blelink, gap, armed, main, page, host,
                 scanCut, count>>

(* Faulty: the mode is put back, the radio is not. *)
TimerIdles ==
  /\ tmr = "resume"
  /\ tmr' = "idle"
  /\ UNCHANGED <<mode, resume, synced, due, blelink, gap, armed, main,
                 page, host, scanCut, count>>
(* and start_connect_scan looks for the unit again. *)
TimerResumes ==
  /\ tmr = "resume"
  /\ gap' = ConnectScan(mode, gap, synced)
  /\ tmr' = "idle"
  /\ UNCHANGED <<mode, resume, synced, due, blelink, armed, main, page,
                 host, scanCut, count>>

(* poll_timer_cb, a link gone silent: no more ticks write to it, *)
PollDrops ==
  /\ tmr = "idle" /\ connected /\ faults < MaxFaults
  /\ faults' = faults + 1
  /\ connected' = FALSE
  /\ tmr' = "drop"
  /\ UNCHANGED <<mode, resume, synced, due, linked, closing, gap, armed, main, page,
                 host, scanCut, scans>>

(* and it is terminated, or whatever link there is by then. *)
PollTerminates ==
  /\ tmr = "drop"
  /\ closing' = linked
  /\ tmr' = "idle"
  /\ UNCHANGED <<mode, resume, synced, due, connected, linked, gap, armed, main,
                 page, host, scanCut, count>>

-----------------------------------------------------------------------------
(* BLE_GAP_EVENT_DISC in MODE_CONNECT: try_connect cancels the discovery.  *)
(* A unit that has the link does not advertise.                            *)
FoundTarget ==
  /\ host = "idle" /\ gap = "disc" /\ mode = "CONNECT" /\ ~linked
  /\ gap' = "idle"
  /\ host' = "connect"
  /\ UNCHANGED <<mode, resume, synced, due, blelink, armed, main, page,
                 tmr, scanCut, count>>

(* try_connect connects; ble_gap_connect refuses while something else goes on. *)
TryConnect ==
  /\ host = "connect"
  /\ gap' = IF gap = "idle" THEN "conn" ELSE ConnectScan(mode, gap, synced)
  /\ host' = "idle"
  /\ UNCHANGED <<mode, resume, synced, due, blelink, armed, main, page,
                 tmr, scanCut, count>>

(* BLE_GAP_EVENT_CONNECT, whatever the mode is by now. *)
ConnectSucceeds ==
  /\ host = "idle" /\ gap = "conn"
  /\ gap' = "idle"
  /\ connected' = TRUE /\ linked' = TRUE
  /\ UNCHANGED <<mode, resume, synced, due, closing, armed, task, scanCut, count>>

ConnectFails ==
  /\ host = "idle" /\ gap = "conn" /\ faults < MaxFaults
  /\ faults' = faults + 1
  /\ gap' = ConnectScan(mode, "idle", synced)
  /\ UNCHANGED <<mode, resume, synced, due, blelink, armed, task, scanCut, scans>>

(* BLE_GAP_EVENT_DISCONNECT: the link was lost, or terminated. *)
LinkGone ==
  /\ host = "idle" /\ linked
  /\ connected' = FALSE /\ linked' = FALSE /\ closing' = FALSE
  /\ gap' = Continue(mode, gap, synced)
  /\ UNCHANGED <<mode, resume, synced, due, armed, task, scanCut, scans>>
LinkLost == faults < MaxFaults /\ faults' = faults + 1 /\ LinkGone
Terminated == closing /\ UNCHANGED faults /\ LinkGone

(* The host resets: DISC_COMPLETE, a failed CONNECT, DISCONNECT, on_reset. *)
(* DISC_COMPLETE ends a scan with MODE_IDLE, whatever resume_connect says. *)
HostReset ==
  /\ host = "idle" /\ ~due /\ faults < MaxFaults
  /\ faults' = faults + 1
  /\ synced' = FALSE /\ due' = TRUE
  /\ connected' = FALSE /\ linked' = FALSE /\ closing' = FALSE
  /\ gap' = "idle"
  /\ LET cut == gap = "disc" /\ mode = "SCAN"
     IN  /\ mode' = IF cut THEN "IDLE" ELSE mode
         /\ scanCut' = (scanCut \/ cut)
  /\ UNCHANGED <<resume, armed, task, scans>>

(* on_sync *)
HostSync ==
  /\ host = "idle" /\ due
  /\ due' = FALSE
  /\ synced' = TRUE
  /\ gap' = Continue(mode, gap, TRUE)
  /\ UNCHANGED <<mode, resume, blelink, armed, task, scanCut, count>>

(* on_sync finds no address: nothing tries again before the next reset. *)
HostSyncFails ==
  /\ host = "idle" /\ due /\ faults < MaxFaults
  /\ faults' = faults + 1
  /\ due' = FALSE
  /\ UNCHANGED <<mode, resume, synced, blelink, gap, armed, task, scanCut, scans>>

-----------------------------------------------------------------------------
PageTask == PageNotes \/ PageClaims \/ PageArms \/ PageLooks \/ PageTakes
TimerTask == TimerCancels \/ TimerStops \/ TimerResumes \/ PollTerminates
HostTask == FoundTarget \/ TryConnect \/ ConnectSucceeds \/ Terminated \/ HostSync
Disturbance ==
  PageAsks \/ ConnectFails \/ LinkLost \/ PollDrops \/ HostReset \/ HostSyncFails

BleNext ==
  \/ Start
  \/ PageTask \/ TimerTask \/ HostTask \/ Disturbance

(* Tasks run on, the 7 s pass, the unit is in range and advertises, a      *)
(* connection attempt ends, and the host gets its controller back.         *)
BleSpec ==
  /\ BleInit /\ [][BleNext]_blevars
  /\ WF_blevars(PageTask) /\ WF_blevars(TimerTask) /\ WF_blevars(HostTask)

-----------------------------------------------------------------------------
Settled == page = "idle" /\ tmr = "idle" /\ host = "idle"

(* When the bridge is meant to be on its unit and no task is half-way, the *)
(* link is up or being ended, or the radio is at work on it: start_disc    *)
(* ignores refusals and nothing retries it, so one missed call would be    *)
(* the end.                                                                *)
RadioAtWork ==
  mode = "CONNECT" /\ synced /\ Settled => connected \/ closing \/ gap # "idle"

(* on_sync has found no address. *)
Deaf == ~synced /\ ~due

(* Once bluetti_ble_start has succeeded, the link comes back after every   *)
(* page scan, lost or silent link, failed attempt and host reset -- unless *)
(* a reset fell into a scan, after which resume_connect is never read      *)
(* again, or a sync found no address, after which nothing tries again.     *)
LinkComesBack == []<>connected \/ <>[](main # "started" \/ scanCut \/ Deaf)
=============================================================================
