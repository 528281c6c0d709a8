---------------------------- MODULE PveShutdown ----------------------------
(***************************************************************************)
(* The runtime half of the Proxmox shutdown feature: pve_shutdown.c.       *)
(*                                                                         *)
(* Three kinds of task meet in the struct P, under P.lock:                 *)
(*   - the tasks that report a power reading (the NimBLE host task and the *)
(*     staleness task of main.c) call pve_shutdown_observe, which runs the *)
(*     engine, queues what fired and starts the worker;                    *)
(*   - the worker takes one host's work at a time, copies the              *)
(*     configuration and talks to the host without the lock;               *)
(*   - the web server's task replaces the configuration at any moment.     *)
(* One action is one critical section, or one request on the network.      *)
(***************************************************************************)
EXTENDS PveEngine

CONSTANTS
  Configs,         \* the configurations the user may save
  Readings,        \* the observations that may be reported
  NodeAttempts,    \* NODE_ATTEMPTS
  MaxTime,         \* bound: the clock stops here
  MaxCreateFails,  \* bound: failed xTaskCreate calls
  MaxSaves,        \* bound: configurations saved
  Oom              \* may a realloc fail?

ASSUME ConfigsAssumption == Configs \subseteq Config
ASSUME ReadingsAssumption == Readings \subseteq Obs
ASSUME NodeAttemptsAssumption == NodeAttempts \in Nat \ {0}
ASSUME BoundsAssumption == {MaxTime, MaxCreateFails, MaxSaves} \subseteq Nat
ASSUME OomAssumption == Oom \in BOOLEAN

VARIABLES
  now,             \* esp_timer_get_time, in minutes
  cfg,             \* P.cfg and P.guests
  eng,             \* P.eng
  running,         \* P.running
  starting,        \* an observer is between its unlock and xTaskCreate
  pending_hosts,   \* P.pending_hosts
  pending_guests,  \* P.pending_guests: how often each guest is queued
  worker,          \* the worker task and its locals
  create_fails,    \* how many xTaskCreate calls have failed
  saves,           \* how many configurations have been saved
  hist             \* history of the readings, for the properties only

vars == <<now, cfg, eng, running, starting, pending_hosts, pending_guests,
          worker, create_fails, saves, hist>>

(* What tls_request comes back with: 200; 401 or 403; another HTTP status; *)
(* or status <= 0, no answer (refused, timed out, the wrong certificate).  *)
Replies == {"ok", "denied", "error", "unreachable"}

(* KIND[] = { "qemu", "lxc" } and names[2] = { node, "localhost" } *)
Kinds == 0 .. 1

(* The worker's locals: the host it handles with the copied configuration, *)
(* whether the node is due, the batch of guests still to be stopped, the   *)
(* guest in hand, and the positions in the loops over kinds, names and     *)
(* attempts.                                                               *)
Worker == [pc : {"none", "top", "run", "guests", "node", "gap"},
           host : Hosts, armed : BOOLEAN, h : Host, node : BOOLEAN,
           batch : [GuestIds -> Nat], guest : GuestIds, kind : Kinds,
           attempt : 0 .. NodeAttempts - 1]

(* obs: the last reading; seen: it was taken at this time and under this   *)
(* configuration; last: the last power that was not unknown;               *)
(* battery_since: the first Battery reading since the last Line one;       *)
(* line_since: the first of the unbroken run of Line readings, if obs is   *)
(* one; spent: hosts that fired and for which, since, the mains has not    *)
(* been back for mains_back_min and no reading met the feature off.        *)
History == [obs : Obs, seen : BOOLEAN, last : Power, battery_since : Nat,
            line_since : Nat, spent : SUBSET Hosts]

TypeOK ==
  /\ now \in Nat
  /\ cfg \in Config
  /\ eng \in Engine
  /\ running \in BOOLEAN
  /\ starting \in BOOLEAN
  /\ pending_hosts \in SUBSET Hosts
  /\ pending_guests \in [Hosts -> [GuestIds -> Nat]]
  /\ worker \in Worker
  /\ create_fails \in Nat
  /\ saves \in Nat
  /\ hist \in History

NoGuests == [g \in GuestIds |-> 0]

(* No worker task: its locals do not exist. *)
NoHost == [enabled |-> FALSE, url |-> FALSE, pinned |-> FALSE,
           localhost |-> FALSE, shutdown_node |-> FALSE,
           on_battery_min |-> 0, charge_pct |-> 0]
NoWorker == [pc |-> "none", host |-> CHOOSE i \in Hosts : TRUE,
             armed |-> FALSE, h |-> NoHost, node |-> FALSE,
             batch |-> NoGuests, guest |-> CHOOSE g \in GuestIds : TRUE,
             kind |-> 0, attempt |-> 0]

(* A fresh pass of the worker's loop: its locals are initialised anew. *)
TopOfLoop == [NoWorker EXCEPT !.pc = "top"]

(* The guests of host i in the queue. *)
Queued(i) == {g \in GuestIds : pending_guests[i][g] > 0}

NothingPending == pending_hosts = {} /\ \A i \in Hosts : Queued(i) = {}

(* pve_shutdown_start, with the configuration read at boot. *)
Init ==
  /\ now = 0
  /\ cfg \in Configs
  /\ eng = SyncGuests(EmptyEngine, cfg)
  /\ running = FALSE
  /\ starting = FALSE
  /\ pending_hosts = {}
  /\ pending_guests = [i \in Hosts |-> NoGuests]
  /\ worker = NoWorker
  /\ create_fails = 0
  /\ saves = 0
  /\ hist = [obs |-> [power |-> Unknown, soc |-> -1], seen |-> FALSE,
             last |-> Unknown, battery_since |-> 0, line_since |-> 0,
             spent |-> {}]

-----------------------------------------------------------------------------
(* The history after reading obs, in which the hosts in fire fired. *)
LineSince(obs) ==
  IF obs.power # Line THEN 0
  ELSE IF hist.obs.power = Line THEN hist.line_since ELSE now
BatterySince(obs) ==
  IF obs.power = Line THEN 0
  ELSE IF obs.power = Battery /\ hist.last # Battery THEN now ELSE hist.battery_since
MainsSteady(obs) ==
  /\ cfg.mains_back_min > 0
  /\ obs.power = Line
  /\ now - LineSince(obs) >= cfg.mains_back_min
Record(obs, fire) ==
  [obs |-> obs, seen |-> TRUE,
   last |-> IF obs.power = Unknown THEN hist.last ELSE obs.power,
   battery_since |-> BatterySince(obs),
   line_since |-> LineSince(obs),
   spent |-> (IF MainsSteady(obs) \/ ~cfg.enabled THEN {} ELSE hist.spent) \cup fire]
NotSeen == [hist EXCEPT !.seen = FALSE]

(* The guests of each host whose entry is lost to a failed realloc. *)
Losses(fresh) ==
  IF Oom THEN {lost \in [Hosts -> SUBSET GuestIds] :
                 \A i \in Hosts : lost[i] \subseteq fresh[i]}
         ELSE {[i \in Hosts |-> {}]}

(* pve_shutdown_observe, up to the unlock: fold the reading in, queue what *)
(* fired, and claim the right to start the worker if none is running.      *)
Observe(obs) ==
  LET fire  == pve_fire(cfg, eng, obs, now)
      fresh == pve_eval(cfg, eng, obs, now).fired_now
      any   == fire # {} \/ \E i \in Hosts : fresh[i] # {}
  IN /\ eng' = pve_eval(cfg, eng, obs, now)
     /\ \E lost \in Losses(fresh) :
          pending_guests' =
            [i \in Hosts |-> [g \in GuestIds |->
               IF g \in fresh[i] \ lost[i] THEN pending_guests[i][g] + 1
                                           ELSE pending_guests[i][g]]]
     /\ pending_hosts' = pending_hosts \cup fire
     /\ running' = (running \/ any)
     /\ starting' = (starting \/ (any /\ ~running))
     /\ hist' = Record(obs, fire)
     /\ UNCHANGED <<now, cfg, worker, create_fails, saves>>

(* The observer's xTaskCreate succeeds ... *)
StartWorker ==
  /\ starting
  /\ starting' = FALSE
  /\ worker' = TopOfLoop
  /\ UNCHANGED <<now, cfg, eng, running, pending_hosts, pending_guests,
                 create_fails, saves, hist>>

(* ... or fails, and the observer gives the claim back. *)
StartFails ==
  /\ starting
  /\ create_fails < MaxCreateFails
  /\ create_fails' = create_fails + 1
  /\ starting' = FALSE
  /\ running' = FALSE
  /\ UNCHANGED <<now, cfg, eng, pending_hosts, pending_guests, worker,
                 saves, hist>>

(* pve_shutdown_reconfigure, whatever else is going on. *)
Reconfigure(c) ==
  /\ saves < MaxSaves
  /\ saves' = saves + 1
  /\ cfg' = c
  /\ eng' = SyncGuests(eng, c)
  /\ hist' = NotSeen
  /\ UNCHANGED <<now, running, starting, pending_hosts, pending_guests,
                 worker, create_fails>>

Tick ==
  /\ now < MaxTime
  /\ now' = now + 1
  /\ hist' = NotSeen
  /\ UNCHANGED <<cfg, eng, running, starting, pending_hosts, pending_guests,
                 worker, create_fails, saves>>

-----------------------------------------------------------------------------
(* The worker task.  shared are the variables it leaves to the others. *)
shared == <<now, cfg, eng, starting, create_fails, saves, hist>>

(* Faulty: the task ends although guests are queued. *)
WorkerExitEarly ==
  /\ worker.pc = "top"
  /\ pending_hosts = {}
  /\ running' = FALSE
  /\ worker' = NoWorker
  /\ UNCHANGED <<shared, pending_hosts, pending_guests>>

(* Nothing is left: the task ends, still under the lock. *)
WorkerExit ==
  /\ worker.pc = "top"
  /\ NothingPending
  /\ running' = FALSE
  /\ worker' = NoWorker
  /\ UNCHANGED <<shared, pending_hosts, pending_guests>>

(* The host to handle: the lowest node that is due, else the host of the   *)
(* guest at the head of the queue.  The queue's order decides nothing but  *)
(* that, so any host with a queued guest may be the one.                   *)
NextHost(i) ==
  \/ i \in pending_hosts /\ \A j \in pending_hosts : i <= j
  \/ pending_hosts = {} /\ Queued(i) # {}

(* What ends up in the batch: every queued guest of the host, less the     *)
(* ones lost to a failed realloc.                                          *)
Batches(queue) ==
  IF Oom THEN {b \in [GuestIds -> UNION {0 .. queue[g] : g \in GuestIds}] :
                 \A g \in GuestIds : b[g] <= queue[g]}
         ELSE {queue}

(* Faulty: a node that is due is taken without its queued guests. *)
WorkerTakeNode(i) ==
  /\ worker.pc = "top"
  /\ NextHost(i)
  /\ worker' = [worker EXCEPT !.pc = "run", !.host = i, !.armed = cfg.armed,
                              !.h = cfg.hosts[i], !.node = (i \in pending_hosts),
                              !.batch = IF i \in pending_hosts
                                        THEN NoGuests ELSE pending_guests[i]]
  /\ pending_hosts' = pending_hosts \ {i}
  /\ pending_guests' = IF i \in pending_hosts THEN pending_guests
                       ELSE [pending_guests EXCEPT ![i] = NoGuests]
  /\ UNCHANGED <<shared, running>>

(* Take all the work of one host and copy the configuration. *)
WorkerTake(i) ==
  /\ worker.pc = "top"
  /\ NextHost(i)
  /\ \E b \in Batches(pending_guests[i]) :
       worker' = [worker EXCEPT !.pc = "run", !.host = i, !.armed = cfg.armed,
                                !.h = cfg.hosts[i], !.node = (i \in pending_hosts),
                                !.batch = b]
  /\ pending_hosts' = pending_hosts \ {i}
  /\ pending_guests' = [pending_guests EXCEPT ![i] = NoGuests]
  /\ UNCHANGED <<shared, running>>

InBatch == {g \in GuestIds : worker.batch[g] > 0}

workerOnly == <<shared, running, pending_hosts, pending_guests>>

(* run_host, nothing is sent: the slot was disabled or emptied, the        *)
(* feature is not armed (it says what would be done), or no certificate is *)
(* pinned (it says that too).                                              *)
RunNothing ==
  /\ worker.pc = "run"
  /\ \/ ~worker.h.enabled
     \/ ~worker.h.url
     \/ ~worker.armed
     \/ ~worker.h.pinned
  /\ worker' = TopOfLoop
  /\ UNCHANGED workerOnly

(* run_host goes on to the requests. *)
RunArmed ==
  /\ worker.pc = "run"
  /\ worker.h.enabled
  /\ worker.h.url
  /\ worker.armed
  /\ worker.h.pinned
  /\ worker' = [worker EXCEPT !.pc = "guests"]
  /\ UNCHANGED workerOnly

(* shutdown_guest, one request: guest g as a VM first, then, if the host   *)
(* answered that there is no such VM, as a container.                      *)
GuestPost(g, reply) ==
  /\ worker.pc = "guests"
  /\ IF worker.kind = 0 THEN g \in InBatch ELSE g = worker.guest
  /\ worker' = IF reply = "error" /\ worker.kind = 0
               THEN [worker EXCEPT !.kind = 1, !.guest = g]
               ELSE [worker EXCEPT !.kind = 0, !.guest = NoWorker.guest,
                                   !.batch = [worker.batch EXCEPT ![g] = @ - 1]]
  /\ UNCHANGED workerOnly

(* Faulty: the node's turn comes while guests are still to be stopped. *)
GuestsDoneEarly ==
  /\ worker.pc = "guests"
  /\ worker.kind = 0
  /\ worker.node
  /\ worker' = IF worker.h.shutdown_node
               THEN [worker EXCEPT !.pc = "node"]
               ELSE TopOfLoop
  /\ UNCHANGED workerOnly

(* The batch is done; the node is next if it is due and to be shut down. *)
GuestsDone ==
  /\ worker.pc = "guests"
  /\ worker.kind = 0
  /\ InBatch = {}
  /\ worker' = IF worker.node /\ worker.h.shutdown_node
               THEN [worker EXCEPT !.pc = "node"]
               ELSE TopOfLoop
  /\ UNCHANGED workerOnly

(* shutdown_node, one request: under the node's name first, then, if the   *)
(* host answered at all, as localhost.                                     *)
NodePost(reply) ==
  /\ worker.pc = "node"
  /\ \/ /\ reply = "ok"
        /\ worker' = TopOfLoop
     \/ /\ reply \in {"denied", "error"}
        /\ worker.kind = 0
        /\ ~worker.h.localhost
        /\ worker' = [worker EXCEPT !.kind = 1]
     \/ /\ reply = "unreachable" \/ worker.kind = 1 \/ worker.h.localhost
        /\ reply # "ok"
        /\ worker' = [worker EXCEPT !.kind = 0, !.pc = "gap"]
  /\ UNCHANGED workerOnly

(* Faulty: the attempts are not counted. *)
NodeRetryForever ==
  /\ worker.pc = "gap"
  /\ worker' = [worker EXCEPT !.pc = "node"]
  /\ UNCHANGED workerOnly

(* RETRY_GAP_MS later: the next attempt, or the end of them. *)
NodeRetry ==
  /\ worker.pc = "gap"
  /\ worker' = IF worker.attempt + 1 < NodeAttempts
               THEN [worker EXCEPT !.attempt = worker.attempt + 1, !.pc = "node"]
               ELSE TopOfLoop
  /\ UNCHANGED workerOnly

WorkerStep ==
  \/ WorkerExit
  \/ \E i \in Hosts : WorkerTake(i)
  \/ RunNothing
  \/ RunArmed
  \/ \E g \in GuestIds, reply \in Replies : GuestPost(g, reply)
  \/ GuestsDone
  \/ \E reply \in Replies : NodePost(reply)
  \/ NodeRetry

Next ==
  \/ \E obs \in Readings : Observe(obs)
  \/ StartWorker
  \/ StartFails
  \/ \E c \in Configs : Reconfigure(c)
  \/ Tick
  \/ WorkerStep

Spec == Init /\ [][Next]_vars

(* The scheduler runs a task that is ready, and every request ends: each   *)
(* read has IO_TIMEOUT_MS and the TCP stack gives a connection up.         *)
Fairness == WF_vars(StartWorker) /\ WF_vars(WorkerStep)
FairSpec == Spec /\ Fairness

-----------------------------------------------------------------------------
(* Fail-safe and never early.  A host fires only if its charge limit is    *)
(* met by the reading at hand, or if the last reading there was (perhaps   *)
(* before the link was lost) was Battery and no Line reading has come for  *)
(* at least its minutes.  A guest fires only on the same grounds, or with  *)
(* its node.  (trigger_met and the switch of pve_eval, against the         *)
(* readings themselves and across reconfigurations.)                       *)
Justified(t) ==
  \/ /\ t.on_battery_min > 0
     /\ hist'.last = Battery
     /\ now - hist'.battery_since >= t.on_battery_min
  \/ /\ hist'.obs.power = Battery
     /\ t.charge_pct > 0
     /\ hist'.obs.soc \in 0 .. t.charge_pct
FireJustified ==
  [][\A i \in Hosts :
       /\ i \in eng'.fired \ eng.fired => Justified(cfg.hosts[i])
       /\ \A g \in eng'.guest_fired[i] \ eng.guest_fired[i] :
            \/ Justified(cfg.guests[i].rule[g])
            \/ i \in eng'.fired \ eng.fired]_vars

(* A flapping supply cannot fire a host twice: a host fires again only     *)
(* after an unbroken run of Line readings at least mains_back_min long,    *)
(* whatever was saved in between.  What pve_eval does to a latch while the *)
(* feature is off is left open: the comment in it says that everything is  *)
(* forgotten, the code below the comment keeps the latches.                *)
FireOnce ==
  [][\A i \in Hosts : i \in eng'.fired \ eng.fired => i \notin hist.spent]_vars

(* A guest's latch ends only with such a run, or when the user takes the   *)
(* guest off the list (pve_engine_sync_guests carries it over otherwise);  *)
(* what a reading does to it while the feature is off is left open, too.   *)
GuestLatchHolds ==
  [][\A i \in Hosts : \A g \in eng.guest_fired[i] \ eng'.guest_fired[i] :
       \/ g \notin Configured(cfg', i)
       \/ ~cfg.enabled /\ hist'.seen
       \/ /\ hist'.obs.power = Line
          /\ cfg.mains_back_min > 0
          /\ now - hist'.line_since >= cfg.mains_back_min]_vars

(* No deadline is missed: once a reading has been folded in, no countdown  *)
(* on the status page stands at zero, neither a host's nor, before its     *)
(* host has fired, a guest's, because whatever has reached it has just     *)
(* fired.                                                                  *)
DeadlineFires ==
  hist.seen => \A i \in Hosts :
    /\ pve_countdown_s(cfg, eng, i, now) # 0
    /\ i \notin eng.fired =>
         \A g \in GuestIds : pve_guest_countdown_s(cfg, eng, i, g, now) # 0

(* The node going down takes every configured guest with it: when a host   *)
(* fires, each of its guests is latched by the end of the same step.       *)
SweepComplete ==
  [][\A i \in Hosts : i \in eng'.fired \ eng.fired =>
       Configured(cfg, i) \subseteq eng'.guest_fired[i]]_vars

(* A guest enters the queue exactly when its latch closes, once each time; *)
(* a stale fired_now flag never queues it again (pve_eval leaves the flag  *)
(* alone while the feature is off, and pve_shutdown_observe reads it).     *)
(* Only a failed realloc may lose an entry.                                *)
QueueMatchesLatch ==
  [][\A i \in Hosts, g \in GuestIds :
       LET added  == pending_guests'[i][g] - pending_guests[i][g]
           closed == g \in eng'.guest_fired[i] \ eng.guest_fired[i]
       IN /\ added > 0 => closed /\ added = 1
          /\ closed => Oom \/ added = 1]_vars

(* Guests before their node: while a host's latch is closed, a guest of    *)
(* it still in the queue waits together with its node, so the worker takes *)
(* both in one batch and never sends the node off ahead of a guest.        *)
GuestsBeforeNode ==
  \A i \in Hosts : i \in eng.fired /\ Queued(i) # {} => i \in pending_hosts

(* One worker at a time, and no work without one: P.running says exactly   *)
(* that a worker exists or is about to be created, never both, and work    *)
(* sits in the queue without a worker only after an xTaskCreate failed.    *)
WorkerAccounted ==
  /\ running <=> starting \/ worker.pc # "none"
  /\ ~(starting /\ worker.pc # "none")
  /\ NothingPending \/ running \/ create_fails > 0

(* Everything queued is taken up: unless creating the worker has failed,   *)
(* no node and no guest stays in the queue for ever.                       *)
Drained ==
  \A i \in Hosts : (i \in pending_hosts \/ Queued(i) # {})
                     ~> \/ i \notin pending_hosts /\ Queued(i) = {}
                        \/ create_fails > 0

(* The refinement mapping: the orders are what P's queues hold, and the    *)
(* host in hand is the one in the worker's locals.  Which kind or name is  *)
(* being tried, and which attempt it is, are the worker's own business.    *)
HandOf(w) ==
  IF w.pc \in {"none", "top"} THEN {}
  ELSE {[host |-> w.host, node |-> w.node, guests |-> w.batch,
         stage |-> CASE w.pc = "run" -> "taken"
                     [] w.pc = "guests" -> "guests"
                     [] w.pc \in {"node", "gap"} -> "node"]}
Orders == INSTANCE ShutdownOrders WITH
  Lossy <- Oom, due <- pending_hosts, owed <- pending_guests, hand <- HandOf(worker)

(* From the firing to the last request, across observers, failed task      *)
(* creations, reconfigurations and retries, the orders fare as             *)
(* ShutdownOrders says: none is lost (but to a failed realloc), carried    *)
(* out twice, mixed up with another host's, dropped once its host's first  *)
(* request is made or, for a node, carried out ahead of its guests.        *)
OrdersCarriedOut == Orders!OrdersSpec

=============================================================================
