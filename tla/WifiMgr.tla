------------------------------ MODULE WifiMgr -------------------------------
(***************************************************************************)
(* The Wi-Fi manager: wifi_mgr.c.  The state it keeps and what each of its *)
(* functions, event handlers and timers does; Setup composes it with the   *)
(* tasks that call it.                                                     *)
(*                                                                         *)
(* The radio (external) joins a network that is on the air, fails to, or   *)
(* loses one that left, and posts an event each time; the event task       *)
(* handles them later, in order.  Time is abstract: a timer that is armed  *)
(* may fire, so back-off is not a number here, and after_ms is a number of *)
(* supervisor ticks.                                                       *)
(***************************************************************************)
EXTENDS Integers, Sequences

CONSTANTS
  Networks,     \* the networks there are
  Callers,      \* the tasks that may be inside wifi_mgr_sta_connect
  MaxRetry,     \* MAX_RETRY
  FbTicks,      \* after_ms / FALLBACK_TICK_MS
  MaxEvents,    \* bound: events posted and not yet handled
  NoNet

ASSUME WifiAssumption ==
  /\ NoNet \notin Networks
  /\ MaxRetry \in Nat \ {0} /\ FbTicks \in Nat \ {0} /\ MaxEvents \in Nat \ {0}

VARIABLES
  air,        \* the networks that would let us in now
  conf,       \* the network of the station's configuration
  link,       \* the radio: idle, connecting or up, and to which network
  events,     \* posted and not yet handled
  bits,       \* s_events: BIT_CONNECTED and BIT_FAILED
  want,       \* s_want_connect
  retries,    \* s_retries
  timer,      \* s_retry_timer: not created yet, off or armed
  ap,         \* s_ap_up
  fb,         \* s_fb_enabled, s_fb_ap_up, and the supervisor's down_ms
  caller,     \* where each caller of wifi_mgr_sta_connect is, or its result
  refused,    \* the radio is idle because it refused esp_wifi_connect
  leased      \* history: a lease was held

radio == <<air, conf, link, refused, leased>>
wvars == <<air, conf, link, events, bits, want, retries, timer, ap, fb, caller,
           refused, leased>>

NoLink == [phase |-> "idle", net |-> NoNet]
Posts == Len(events) < MaxEvents

WifiTypeOK ==
  /\ air \subseteq Networks /\ refused \in BOOLEAN /\ leased \in BOOLEAN
  /\ conf \in Networks \cup {NoNet}
  /\ link \in [phase : {"idle", "connecting", "up"}, net : Networks \cup {NoNet}]
  /\ events \in Seq({"disc", "ip"}) /\ Len(events) <= MaxEvents
  /\ bits \in [connected : BOOLEAN, failed : BOOLEAN]
  /\ want \in BOOLEAN /\ timer \in {"none", "off", "armed"} /\ ap \in BOOLEAN
  /\ retries \in 0 .. MaxRetry + 1
  /\ fb \in [enabled : BOOLEAN, up : BOOLEAN, down : 0 .. FbTicks]
  /\ caller \in [Callers -> {"idle", "kick", "wait", "ok", "failed", "timeout"}]

(* wifi_mgr_init: the station is started, and not asked to connect. *)
WifiInit ==
  /\ air \in SUBSET Networks
  /\ conf = NoNet /\ link = NoLink /\ events = <<>>
  /\ bits = [connected |-> FALSE, failed |-> FALSE]
  /\ want = FALSE /\ retries = 0 /\ timer = "none"
  /\ fb = [enabled |-> FALSE, up |-> FALSE, down |-> 0]
  /\ caller = [c \in Callers |-> "idle"]
  /\ refused = FALSE /\ leased = FALSE

-----------------------------------------------------------------------------
(* The radio and what it hears. *)
AirChanges ==
  /\ air' \in SUBSET Networks /\ air' # air
  /\ UNCHANGED <<conf, link, events, bits, want, retries, timer, ap, fb, caller, refused,
                 leased>>

LinkJoins ==
  /\ link.phase = "connecting" /\ link.net \in air /\ Posts
  /\ link' = [link EXCEPT !.phase = "up"]
  /\ events' = Append(events, "ip")
  /\ leased' = TRUE
  /\ UNCHANGED <<air, conf, bits, want, retries, timer, ap, fb, caller, refused>>

LinkFails ==
  /\ link.phase # "idle" /\ link.net \notin air /\ Posts
  /\ link' = NoLink
  /\ events' = Append(events, "disc")
  /\ UNCHANGED <<air, conf, bits, want, retries, timer, ap, fb, caller, refused, leased>>

(* esp_wifi_connect: nothing happens unless the station is idle.  It may   *)
(* be refused; every caller ignores that, or only logs it.                 *)
Connects(from) ==
  \/ from.phase # "idle" /\ link' = from /\ UNCHANGED refused
  \/ /\ from.phase = "idle" /\ link' = [phase |-> "connecting", net |-> conf]
     /\ refused' = FALSE
  \/ from.phase = "idle" /\ link' = from /\ refused' = TRUE
(* esp_wifi_disconnect, or a mode change that takes the link with it. *)
Disconnects == IF link.phase = "idle" THEN UNCHANGED events
               ELSE Posts /\ events' = Append(events, "disc")

-----------------------------------------------------------------------------
(* on_event: the link went down.  BIT_FAILED wakes the waiting callers     *)
(* once, at MAX_RETRY; reconnect_later arms the timer every time, and      *)
(* tries at once when it cannot create one.                                *)
Woken(result) == [c \in Callers |-> IF caller[c] = "wait" THEN result ELSE caller[c]]
ReconnectLater ==
  \/ timer' = "armed" /\ UNCHANGED <<link, refused>>
  \/ timer = "none" /\ UNCHANGED timer /\ Connects(link)
RetriesUp ==
  /\ retries' = IF want /\ retries <= MaxRetry THEN retries + 1 ELSE retries
  /\ caller' = IF want /\ retries + 1 = MaxRetry THEN Woken("failed") ELSE caller
  /\ UNCHANGED <<air, conf, leased, want, ap, fb>>

(* Faulty: the link is given up after MAX_RETRY attempts. *)
OnDisconnectedGivesUp ==
  /\ events # <<>> /\ Head(events) = "disc"
  /\ events' = Tail(events)
  /\ bits' = [connected |-> FALSE, failed |-> bits.failed \/ (want /\ retries + 1 = MaxRetry)]
  /\ RetriesUp
  /\ IF want /\ retries + 1 < MaxRetry THEN ReconnectLater
     ELSE UNCHANGED <<timer, link, refused>>

(* Faulty: the lease is still reported after the link is gone. *)
OnDisconnectedKeepsBit ==
  /\ events # <<>> /\ Head(events) = "disc"
  /\ events' = Tail(events)
  /\ bits' = [bits EXCEPT !.failed = @ \/ (want /\ retries + 1 = MaxRetry)]
  /\ RetriesUp
  /\ IF want THEN ReconnectLater ELSE UNCHANGED <<timer, link, refused>>

OnDisconnected ==
  /\ events # <<>> /\ Head(events) = "disc"
  /\ events' = Tail(events)
  /\ bits' = [connected |-> FALSE, failed |-> bits.failed \/ (want /\ retries + 1 = MaxRetry)]
  /\ RetriesUp
  /\ IF want THEN ReconnectLater ELSE UNCHANGED <<timer, link, refused>>

(* on_event: an address.  Whoever waits is told, whatever network it is.   *)
OnGotIp ==
  /\ events # <<>> /\ Head(events) = "ip"
  /\ events' = Tail(events)
  /\ bits' = [connected |-> TRUE, failed |-> FALSE]
  /\ retries' = 0 /\ timer' = IF timer = "armed" THEN "off" ELSE timer
  /\ caller' = Woken("ok")
  /\ UNCHANGED <<radio, want, ap, fb>>

(* retry_timer_cb *)
RetryTimer ==
  /\ timer = "armed"
  /\ timer' = "off"
  /\ IF want THEN Connects(link) ELSE UNCHANGED <<link, refused>>
  /\ UNCHANGED <<air, conf, events, bits, want, retries, ap, fb, caller, leased>>

-----------------------------------------------------------------------------
(* wifi_mgr_sta_connect: the settings and the bits; then the link is       *)
(* dropped and tried again; then the wait.                                 *)
StaConnect(c, net) ==
  /\ caller[c] = "idle"
  /\ conf' = net
  /\ bits' = [connected |-> FALSE, failed |-> FALSE]
  /\ retries' = 0 /\ want' = TRUE
  /\ caller' = [caller EXCEPT ![c] = "kick"]
  /\ UNCHANGED <<air, link, events, timer, ap, fb, refused, leased>>

StaKick(c) ==
  /\ caller[c] = "kick"
  /\ Disconnects
  /\ Connects(NoLink)
  /\ caller' = [caller EXCEPT ![c] = IF bits.connected THEN "ok"
                                     ELSE IF bits.failed THEN "failed" ELSE "wait"]
  /\ UNCHANGED <<air, conf, bits, want, retries, timer, ap, fb, leased>>

StaTimeout(c) ==
  /\ caller[c] = "wait"
  /\ caller' = [caller EXCEPT ![c] = "timeout"]
  /\ UNCHANGED <<radio, events, bits, want, retries, timer, ap, fb>>

-----------------------------------------------------------------------------
(* wifi_mgr_ap_stop, with what the fallback AP's flag becomes: back to a   *)
(* station, and connect again.                                             *)
ApStop(fbNext) ==
  /\ Disconnects
  /\ IF want THEN Connects(NoLink) ELSE link' = NoLink /\ UNCHANGED refused
  /\ ap' = FALSE /\ fb' = fbNext
  /\ retries' = IF want THEN 0 ELSE retries
  /\ bits' = IF want THEN [bits EXCEPT !.failed = FALSE] ELSE bits
  /\ UNCHANGED <<air, conf, want, timer, caller, leased>>

(* wifi_mgr_set_fallback_ap, as app_main calls it: once. *)
SetFallbackAp(enabled) ==
  /\ fb' = [fb EXCEPT !.enabled = enabled]
  /\ UNCHANGED <<radio, events, bits, want, retries, timer, ap, caller>>

(* One tick of fallback_task. *)
Supervises == fb.enabled /\ ~(ap /\ ~fb.up)
FallbackDrops ==
  /\ Supervises /\ bits.connected /\ fb.up
  /\ ApStop([fb EXCEPT !.up = FALSE, !.down = 0])
FallbackIdles ==
  /\ Supervises /\ bits.connected /\ ~fb.up /\ fb.down # 0
  /\ fb' = [fb EXCEPT !.down = 0]
  /\ UNCHANGED <<radio, events, bits, want, retries, timer, ap, caller>>

(* Faulty: every failed retry starts the wait again. *)
FallbackCountsRestarted ==
  /\ Supervises /\ ~bits.connected /\ ~fb.up /\ fb.down + 1 < FbTicks
  /\ fb' = [fb EXCEPT !.down = IF timer = "armed" THEN 0 ELSE @ + 1]
  /\ UNCHANGED <<radio, events, bits, want, retries, timer, ap, caller>>
FallbackCounts ==
  /\ Supervises /\ ~bits.connected /\ ~fb.up /\ fb.down + 1 < FbTicks
  /\ fb' = [fb EXCEPT !.down = @ + 1]
  /\ UNCHANGED <<radio, events, bits, want, retries, timer, ap, caller>>
(* Raising the access point may fail: then the wait starts again.  (As it  *)
(* is written, wifi_mgr_ap_start has no failure to return: it aborts, and  *)
(* the device restarts.)                                                   *)
Raising == Supervises /\ ~bits.connected /\ ~fb.up /\ fb.down + 1 >= FbTicks
FallbackFails ==
  /\ Raising
  /\ fb' = [fb EXCEPT !.down = 0]
  /\ UNCHANGED <<radio, events, bits, want, retries, timer, ap, caller>>
FallbackRaises ==
  /\ Raising
  /\ fb' = [fb EXCEPT !.up = TRUE, !.down = FbTicks]
  /\ ap' = TRUE
  /\ UNCHANGED <<radio, events, bits, want, retries, timer, caller>>

FallbackTick == FallbackDrops \/ FallbackIdles \/ FallbackCounts
                \/ FallbackFails \/ FallbackRaises
OnEvent == OnDisconnected \/ OnGotIp
Radio == AirChanges \/ LinkJoins \/ LinkFails
WifiStep ==
  \/ Radio \/ OnEvent \/ RetryTimer \/ FallbackTick
  \/ \E c \in Callers : StaKick(c) \/ StaTimeout(c)
=============================================================================
