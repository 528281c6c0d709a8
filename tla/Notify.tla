------------------------------- MODULE Notify -------------------------------
(***************************************************************************)
(* Telegram alerts: notify.c.                                              *)
(*                                                                         *)
(* notify_ups_status is called by two tasks, and N's edge detector has no  *)
(* lock of its own: a call first compares the new status with N.power and  *)
(* queues what is to be said, and only at its end stores the new status.   *)
(* The call is split there.  A worker task takes messages off a queue of   *)
(* QUEUE_DEPTH and tries each one SEND_ATTEMPTS times.                     *)
(*                                                                         *)
(* A message is what it says the power is now, or a note; its wording, and *)
(* the remark that it is late, are left out.  Time is abstract: recent     *)
(* says that REPEAT_GUARD_US has not yet passed since last_event_us.       *)
(***************************************************************************)
EXTENDS Integers, Sequences, FiniteSets

CONSTANTS
  Callers,        \* the tasks that call notify_ups_status
  Charges,        \* the charges they may report
  Configs,        \* the alert settings the user may choose
  QueueDepth,     \* QUEUE_DEPTH
  SendAttempts    \* SEND_ATTEMPTS

Config == [enabled : BOOLEAN, on_power : BOOLEAN, on_low_batt : BOOLEAN,
           on_link : BOOLEAN, on_battery_pct : BOOLEAN]

ASSUME NotifyAssumption ==
  /\ QueueDepth \in Nat \ {0} /\ SendAttempts \in Nat \ {0}
  /\ Charges \subseteq -1 .. 100
  /\ Configs \subseteq Config

VARIABLES
  cfg,         \* N.cfg: are alerts on at all, and which of them
  power,       \* N.power
  low_batt,    \* N.low_batt
  last_event,  \* N.last_event_state
  recent,      \* the repeat guard's window is still open
  decile,      \* N.batt_decile
  call,        \* the status each caller is about to store at the end of its call
  q,           \* N.q
  worker,      \* the worker's m, held and attempt
  told,        \* history: what the chat was last told of the power
  slipped      \* history: N.power's last change went unannounced, met another
               \* call, or its announcement was lost

nvars == <<cfg, power, low_batt, last_event, recent, decile, call, q, worker,
           told, slipped>>

UpsStatus == {"OL", "OB", "OB LB", "OFF", "OL WAIT"}
Power == {"UNKNOWN", "LINE", "BATTERY", "OFFLINE"}
(* The messages that say what the power is now; the others (battery low,   *)
(* no longer low, still on battery, a Proxmox event) are notes.            *)
Edges == {"LINE", "BATTERY", "OFFLINE"}
Messages == Edges \cup {"note"}
NoMessage == "none"
Idle == [msg |-> NoMessage, attempt |-> 0]
NotCalled == "none"

NotifyTypeOK ==
  /\ cfg \in Config
  /\ power \in Power /\ last_event \in Power
  /\ low_batt \in BOOLEAN /\ recent \in BOOLEAN
  /\ decile \in -1 .. 10
  /\ call \in [Callers -> UpsStatus \cup {NotCalled}]
  /\ q \in Seq(Messages) /\ Len(q) <= QueueDepth
  /\ worker \in [msg : Messages \cup {NoMessage}, attempt : 0 .. SendAttempts - 1]
  /\ told \in Power /\ slipped \in BOOLEAN

(* notify_start *)
NotifyInit ==
  /\ cfg = [enabled |-> TRUE, on_power |-> TRUE, on_low_batt |-> TRUE,
            on_link |-> TRUE, on_battery_pct |-> TRUE]
  /\ power = "UNKNOWN" /\ low_batt = FALSE /\ decile = -1
  /\ last_event = "UNKNOWN" /\ recent = FALSE
  /\ call = [c \in Callers |-> NotCalled]
  /\ q = <<>> /\ worker = Idle
  /\ told = "UNKNOWN" /\ slipped = FALSE

-----------------------------------------------------------------------------
(* What a status string says of the power (strstr and strncmp), and C's    *)
(* soc_pct / 10, which truncates: an unknown charge of -1 is decile 0.     *)
PowerOf(s) == CASE s = "OFF" -> "OFFLINE"
                [] s \in {"OB", "OB LB"} -> "BATTERY"
                [] OTHER -> "LINE"
Decile(soc) == IF soc < 0 THEN 0 ELSE soc \div 10

(* notify_send for each message in turn: one that does not fit is dropped. *)
NotifySend(msgs) ==
  LET all == q \o msgs
  IN  q' = SubSeq(all, 1, IF Len(all) < QueueDepth THEN Len(all) ELSE QueueDepth)

(* guard_allows *)
GuardAllows(now) == ~(now = last_event /\ recent)

(* What the switch of notify_ups_status says about was -> now: a change to *)
(* or from OFFLINE is the link's.                                          *)
EdgeMessage(was, now) ==
  IF IF "OFFLINE" \in {was, now} THEN cfg.on_link ELSE cfg.on_power
  THEN <<now>> ELSE <<>>

(* The low-battery edges and the reminder every ten points. *)
LowEdge(low, now) ==
  cfg.on_low_batt /\ IF low THEN ~low_batt ELSE low_batt /\ now = "LINE"
Reminds(now, soc) ==
  now = "BATTERY" /\ cfg.on_battery_pct /\ decile >= 0 /\ Decile(soc) < decile

Edge(was, now) ==
  IF now # was /\ was # "UNKNOWN" /\ GuardAllows(now) THEN EdgeMessage(was, now)
                                                      ELSE <<>>
Quiet == \A c \in Callers : call[c] = NotCalled
(* A change seen by a call that has N to itself is announced. *)
Announced(was, now) == Quiet /\ Edge(was, now) # <<>> /\ Len(q) < QueueDepth

(* The comparison with N.power, and everything that is queued.  With       *)
(* alerts off, or on "OL WAIT", the call returns and changes nothing.      *)
NotifyEdges(c, status, soc) ==
  LET now == PowerOf(status)
      low == status = "OB LB"
      passes == now # power /\ power # "UNKNOWN" /\ GuardAllows(now)
      msgs == Edge(power, now) \o (IF LowEdge(low, now) THEN <<"note">> ELSE <<>>)
                               \o (IF Reminds(now, soc) THEN <<"note">> ELSE <<>>)
  IN  /\ call[c] = NotCalled
      /\ cfg.enabled /\ status # "OL WAIT"
      /\ NotifySend(msgs)
      /\ last_event' = IF passes THEN now ELSE last_event
      /\ recent' = (recent \/ passes)
      /\ decile' = CASE now # "BATTERY" -> -1
                     [] now = "BATTERY" /\ ~cfg.on_battery_pct -> decile
                     [] OTHER -> IF decile < 0 \/ Decile(soc) < decile THEN Decile(soc)
                                                                       ELSE decile
      /\ call' = [call EXCEPT ![c] = status]
      /\ slipped' = IF Quiet /\ now = power THEN slipped ELSE ~Announced(power, now)
      /\ UNCHANGED <<cfg, power, low_batt, worker, told>>

(* N.power = now; N.low_batt = low.  Another call in progress has compared *)
(* with the old value, or will compare with this one.                      *)
NotifyCommit(c) ==
  /\ call[c] # NotCalled
  /\ power' = PowerOf(call[c])
  /\ low_batt' = (call[c] = "OB LB")
  /\ call' = [call EXCEPT ![c] = NotCalled]
  /\ UNCHANGED <<cfg, last_event, recent, decile, q, worker, told, slipped>>

(* REPEAT_GUARD_US passes. *)
GuardExpires ==
  /\ recent
  /\ recent' = FALSE
  /\ UNCHANGED <<cfg, power, low_batt, last_event, decile, call, q, worker,
                 told, slipped>>

(* notify_reconfigure *)
NotifyReconfigure(c) ==
  /\ cfg # c
  /\ cfg' = c
  /\ UNCHANGED <<power, low_batt, last_event, recent, decile, call, q, worker,
                 told, slipped>>

-----------------------------------------------------------------------------
(* The worker.  xQueueReceive. *)
WorkerReceive ==
  /\ worker = Idle /\ q # <<>>
  /\ worker' = [msg |-> Head(q), attempt |-> 0]
  /\ q' = Tail(q)
  /\ UNCHANGED <<cfg, power, low_batt, last_event, recent, decile, call, told, slipped>>

(* The message in hand is the newest that says what the power is. *)
HoldsNewest == worker.msg \in Edges /\ \A k \in 1 .. Len(q) : q[k] \notin Edges

(* "turned off while queued" *)
WorkerDiscards ==
  /\ worker # Idle /\ ~cfg.enabled
  /\ worker' = Idle
  /\ slipped' = (slipped \/ HoldsNewest)
  /\ UNCHANGED <<cfg, power, low_batt, last_event, recent, decile, call, q, told>>

(* telegram_post answers 200. *)
WorkerDelivers ==
  /\ worker # Idle /\ cfg.enabled
  /\ worker' = Idle
  /\ told' = IF worker.msg \in Edges THEN worker.msg ELSE told
  /\ UNCHANGED <<cfg, power, low_batt, last_event, recent, decile, call, q, slipped>>

(* Faulty: a message that failed goes to the end of the queue. *)
WorkerFailsRequeues ==
  /\ worker # Idle /\ cfg.enabled
  /\ worker' = Idle
  /\ q' = Append(q, worker.msg)
  /\ UNCHANGED <<cfg, power, low_batt, last_event, recent, decile, call, told, slipped>>

(* Faulty: tried until it is delivered. *)
WorkerFailsForever ==
  /\ worker # Idle /\ cfg.enabled
  /\ worker' = [worker EXCEPT !.attempt = (@ + 1) % SendAttempts]
  /\ UNCHANGED <<cfg, power, low_batt, last_event, recent, decile, call, q, told, slipped>>

(* It does not: try again after backoff_ms, SEND_ATTEMPTS times in all. *)
WorkerFails ==
  /\ worker # Idle /\ cfg.enabled
  /\ worker' = IF worker.attempt + 1 >= SendAttempts THEN Idle
               ELSE [worker EXCEPT !.attempt = @ + 1]
  /\ slipped' = (slipped \/ (worker.attempt + 1 >= SendAttempts /\ HoldsNewest))
  /\ UNCHANGED <<cfg, power, low_batt, last_event, recent, decile, call, q, told>>

(* notify_send, called by main.c's pve_event: the shutdown worker's        *)
(* messages take the same queue.                                           *)
PveEvent ==
  /\ cfg.enabled
  /\ NotifySend(<<"note">>)
  /\ UNCHANGED <<cfg, power, low_batt, last_event, recent, decile, call, worker,
                 told, slipped>>

WorkerStep == WorkerReceive \/ WorkerDiscards \/ WorkerDelivers \/ WorkerFails

NotifyNext ==
  \/ \E c \in Callers, s \in UpsStatus, soc \in Charges : NotifyEdges(c, s, soc)
  \/ \E c \in Callers : NotifyCommit(c)
  \/ \E c \in Configs : NotifyReconfigure(c)
  \/ GuardExpires \/ PveEvent \/ WorkerStep

NotifySpec == NotifyInit /\ [][NotifyNext]_nvars
(* The worker is a task that only ever waits for the queue, the network    *)
(* and its own back-off.                                                   *)
NotifyFairSpec == NotifySpec /\ WF_nvars(WorkerStep)

-----------------------------------------------------------------------------
(* What the chat will have been told once everything queued is delivered. *)
Owed == IF worker = Idle THEN q ELSE <<worker.msg>> \o q
WillBeTold ==
  LET said == {k \in 1 .. Len(Owed) : Owed[k] \in Edges}
      last == CHOOSE k \in said : \A j \in said : j <= k
  IN  IF said = {} THEN told ELSE Owed[last]

(* Alerts tell the truth, in order: whatever was dropped, given up,        *)
(* switched off or confused by two calls at once before, after a change of *)
(* N.power that one call alone saw and queued the newest alert the chat    *)
(* gets is about the state N.power is in -- until that very alert is lost. *)
(* No claim is made about which changes the repeat guard (guard_allows)    *)
(* keeps from being queued.                                                *)
ChatTruthful == Quiet /\ ~slipped => WillBeTold = power

(* The worker never sticks to a message: it is delivered, or given up      *)
(* after SEND_ATTEMPTS, whatever the network does, so the queue moves on.  *)
WorkerMovesOn == worker # Idle ~> worker = Idle
=============================================================================
