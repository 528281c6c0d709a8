-------------------------------- MODULE Setup -------------------------------
(***************************************************************************)
(* Getting onto a network: app_main's start, the setup portal              *)
(* (provisioning_run, h_provision, connect_task in provisioning.c) and the *)
(* Wi-Fi manager under them.                                               *)
(*                                                                         *)
(* The web server handles one form at a time, but a form that starts a     *)
(* connect_task returns at once: the next form rewrites P.pending while    *)
(* the task still waits, and a second task may start.  Of the settings the *)
(* model keeps the mode, the network and whether they are provisioned.     *)
(***************************************************************************)
EXTENDS WifiMgr

CONSTANTS
  Tasks       \* bound: the connect_tasks that may be started

ASSUME SetupAssumption == Callers = Tasks \cup {"main"} /\ "main" \notin Tasks

VARIABLES
  main,       \* where app_main is
  cfg,        \* *P.cfg
  pending,    \* P.pending
  nvs,        \* the settings in flash
  pstate,     \* P.state
  task        \* where each connect_task is

svars == <<main, cfg, pending, nvs, pstate, task>>
vars == <<wvars, svars>>

Settings == [mode : {"station", "ap"}, net : Networks \cup {NoNet}, provisioned : BOOLEAN]
Blank == [mode |-> "station", net |-> NoNet, provisioned |-> FALSE]
At(net) == [mode |-> "station", net |-> net, provisioned |-> TRUE]

TypeOK ==
  /\ WifiTypeOK
  /\ main \in {"portal", "teardown", "boot", "arm", "run", "rebooting"}
  /\ cfg \in Settings /\ pending \in Settings /\ nvs \in Settings
  /\ pstate \in {"IDLE", "CONNECTING", "CONNECTED", "FAILED"}
  /\ task \in [Tasks -> {"none", "start", "connect", "store", "over"}]

(* app_main: a device with a network starts by joining it; one without     *)
(* opens the portal, on an access point of its own.                        *)
Init ==
  /\ WifiInit
  /\ \/ /\ main = "portal" /\ ap = TRUE /\ cfg = Blank
     \/ /\ main = "boot" /\ ap = FALSE /\ \E n \in Networks : cfg = At(n)
  /\ nvs = cfg /\ pending = Blank
  /\ pstate = "IDLE"
  /\ task = [t \in Tasks |-> "none"]

-----------------------------------------------------------------------------
(* app_main joins the stored network, then arms the fallback AP, whether   *)
(* or not that worked.                                                     *)
MainJoins ==
  /\ main = "boot"
  /\ StaConnect("main", cfg.net)
  /\ main' = "arm"
  /\ UNCHANGED <<cfg, pending, nvs, pstate, task>>
MainArms(enabled) ==
  /\ main = "arm" /\ caller["main"] \in {"ok", "failed", "timeout"}
  /\ SetFallbackAp(enabled)
  /\ main' = "run"
  /\ UNCHANGED <<cfg, pending, nvs, pstate, task>>

-----------------------------------------------------------------------------
(* h_provision.  Every form starts P.pending again from the settings in    *)
(* force, a form that is then refused too.                                 *)
Serving == main \in {"portal", "teardown", "rebooting"}
Form(p) ==
  /\ Serving
  /\ pending' = p

FormRefused ==
  /\ Form(cfg)
  /\ UNCHANGED <<wvars, main, cfg, nvs, pstate, task>>

(* AP mode: stored at once; the device restarts if that worked. *)
FormAp ==
  LET p == [cfg EXCEPT !.mode = "ap"]
  IN  /\ Form(p)
      /\ cfg' = [p EXCEPT !.provisioned = TRUE]
      /\ \/ nvs' = cfg' /\ main' = "rebooting"
         \/ UNCHANGED <<nvs, main>>
      /\ UNCHANGED <<wvars, pstate, task>>

FormStation(t, net) ==
  /\ Form([cfg EXCEPT !.mode = "station", !.net = net])
  /\ task[t] = "none"
  /\ pstate' = "CONNECTING"
  /\ task' = [task EXCEPT ![t] = "start"]
  /\ UNCHANGED <<wvars, main, cfg, nvs>>

(* connect_task: the network of P.pending as it is now. *)
TaskConnects(t) ==
  /\ task[t] = "start"
  /\ StaConnect(t, pending.net)
  /\ pstate' = "CONNECTING"
  /\ task' = [task EXCEPT ![t] = "connect"]
  /\ UNCHANGED <<main, cfg, pending, nvs>>

TaskFails(t) ==
  /\ task[t] = "connect" /\ caller[t] \in {"failed", "timeout"}
  /\ pstate' = "FAILED"
  /\ task' = [task EXCEPT ![t] = "over"]
  /\ UNCHANGED <<wvars, main, cfg, pending, nvs>>

(* Faulty: the settings are taken over before the result is known. *)
TaskTakesEarly(t) ==
  /\ task[t] = "connect" /\ caller[t] # "idle"
  /\ cfg' = [pending EXCEPT !.provisioned = TRUE]
  /\ task' = [task EXCEPT ![t] = "store"]
  /\ UNCHANGED <<wvars, main, pending, nvs, pstate>>

(* *P.cfg = P.pending, as it is by then; app_config_save, which may fail   *)
(* unseen; then DONE_BIT.                                                  *)
TaskTakes(t) ==
  /\ task[t] = "connect" /\ caller[t] = "ok"
  /\ cfg' = [pending EXCEPT !.provisioned = TRUE]
  /\ task' = [task EXCEPT ![t] = "store"]
  /\ UNCHANGED <<wvars, main, pending, nvs, pstate>>
TaskStores(t) ==
  /\ task[t] = "store"
  /\ nvs' \in {cfg, nvs}
  /\ pstate' = "CONNECTED"
  /\ task' = [task EXCEPT ![t] = "over"]
  /\ main' = IF main = "portal" THEN "teardown" ELSE main
  /\ UNCHANGED <<wvars, cfg, pending>>
TaskStep(t) == TaskConnects(t) \/ TaskFails(t) \/ TaskTakes(t) \/ TaskStores(t)

(* provisioning_run wakes: the server stops, the AP goes down, and         *)
(* app_main goes on.  A connect_task that is still waiting stays.          *)
PortalCloses ==
  /\ main = "teardown"
  /\ ApStop(fb)
  /\ main' = "run"
  /\ UNCHANGED <<cfg, pending, nvs, pstate, task>>

-----------------------------------------------------------------------------
Next ==
  \/ WifiStep /\ UNCHANGED svars
  \/ MainJoins \/ \E enabled \in BOOLEAN : MainArms(enabled)
  \/ FormRefused \/ FormAp
  \/ \E t \in Tasks, n \in Networks : FormStation(t, n)
  \/ \E t \in Tasks : TaskStep(t)
  \/ PortalCloses

Spec == Init /\ [][Next]_vars

Fairness ==
  /\ WF_vars((LinkJoins \/ LinkFails) /\ UNCHANGED svars)
  /\ WF_vars(OnEvent /\ UNCHANGED svars) /\ WF_vars(RetryTimer /\ UNCHANGED svars)
  /\ WF_vars(FallbackTick /\ UNCHANGED svars) /\ SF_vars(FallbackRaises /\ UNCHANGED svars)
  /\ \A c \in Callers : WF_vars((StaKick(c) \/ StaTimeout(c)) /\ UNCHANGED svars)
  /\ \A t \in Tasks : WF_vars(TaskStep(t))
  /\ WF_vars(MainJoins \/ \E enabled \in BOOLEAN : MainArms(enabled))
  /\ WF_vars(PortalCloses)
FairSpec == Spec /\ Fairness

-----------------------------------------------------------------------------
(* Once its events are handled and no call is half way, BIT_CONNECTED is   *)
(* the truth: the station holds a lease exactly when the bit is set, after *)
(* any number of retries, mode changes and overlapping calls.              *)
BitTellsTruth ==
  events = <<>> /\ (\A c \in Callers : caller[c] # "kick")
    => (bits.connected <=> link.phase = "up")

(* A station that is wanted always has its next attempt in sight: once the *)
(* events are handled and no call is half way, it has a link, is trying    *)
(* for one, or the retry timer is armed.  Each of these is cleared by      *)
(* another task than the one that needs it: an address disarms the timer,  *)
(* a failed attempt leaves the radio idle, a mode change drops the link.   *)
(* The exception is a refused esp_wifi_connect: no event follows it, and   *)
(* retry_timer_cb does not look at its result.                             *)
RetryInSight ==
  want /\ events = <<>> /\ (\A c \in Callers : caller[c] # "kick")
    => link.phase # "idle" \/ timer = "armed" \/ refused

(* Setup ends with a lease: whatever forms overlap, attempts time out and  *)
(* events of an earlier attempt come late, the portal closes, and flash    *)
(* gets a station's settings, only after the station held a lease.  On     *)
(* which network is not said: connect_task stores P.pending as it is by    *)
(* then, which a later form may have rewritten.                            *)
SetupHadALease ==
  main = "teardown" \/ (main = "portal" /\ nvs.mode = "station" /\ nvs.provisioned)
    => leased

(* The station is never stranded: when the network it is configured for    *)
(* stays on the air and the radio takes esp_wifi_connect, it is connected  *)
(* again and again, whatever failed before (reconnect_later).  (For good   *)
(* only if joining is faster than after_ms: taking the fallback AP down    *)
(* drops the link once more.)                                              *)
NeverStranded == <>[](want /\ conf \in air /\ ~refused) => []<>(bits.connected)

(* With the fallback AP armed the device stays reachable: again and again  *)
(* it has a lease or an access point is up, unless raising one fails for   *)
(* ever.                                                                   *)
StaysReachable == fb.enabled ~> (bits.connected \/ ap)
=============================================================================
