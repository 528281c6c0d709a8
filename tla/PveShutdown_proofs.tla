------------------------ MODULE PveShutdown_proofs ------------------------
(***************************************************************************)
(* Proofs about PveShutdown, for any number of hosts and guests, any       *)
(* configurations, any readings and any bounds.  The last one is that the  *)
(* queues and the worker implement ShutdownOrders.                         *)
(***************************************************************************)
EXTENDS PveShutdown, TLAPS

(* What the engine returns has the engine's type. *)
LEMMA FoldPowerType ==
  ASSUME NEW e \in Engine, NEW o \in Obs, NEW t \in Nat
  PROVE  FoldPower(e, o, t) \in Engine
BY DEF FoldPower, Engine, Obs, Power

LEMMA DueGuestsType ==
  ASSUME NEW c \in Config, NEW e \in Engine, NEW o \in Obs, NEW t \in Nat,
         NEW i \in Hosts
  PROVE  /\ DueGuests(c, e, o, t, i) \in SUBSET GuestIds
         /\ HeldGuests(c, e, t, i) \in SUBSET GuestIds
BY DEF DueGuests, HeldGuests, Configured, Engine, Config, GuestList

LEMMA LatchType ==
  ASSUME NEW c \in Config, NEW e \in Engine, NEW o \in Obs, NEW t \in Nat
  PROVE  Latch(c, e, o, t) \in Engine
<1>1. /\ DueHosts(c, e, o, t) \in SUBSET Hosts
      /\ (IF MainsBack(c, e, t) THEN {} ELSE e.fired) \in SUBSET Hosts
  BY DEF DueHosts, Live, Engine
<1>2. [i \in Hosts |-> DueGuests(c, e, o, t, i)] \in [Hosts -> SUBSET GuestIds]
  BY DueGuestsType
<1>3. [i \in Hosts |-> HeldGuests(c, e, t, i) \cup DueGuests(c, e, o, t, i)]
        \in [Hosts -> SUBSET GuestIds]
  BY DueGuestsType
<1> QED BY <1>1, <1>2, <1>3 DEF Latch, Engine

LEMMA EvalType ==
  ASSUME NEW c \in Config, NEW e \in Engine, NEW o \in Obs, NEW t \in Nat
  PROVE  /\ pve_eval(c, e, o, t) \in Engine
         /\ pve_fire(c, e, o, t) \in SUBSET Hosts
<1>1. FoldPower(e, o, t) \in Engine
  BY FoldPowerType
<1>2. Latch(c, FoldPower(e, o, t), o, t) \in Engine
  BY <1>1, LatchType
<1>3. SwitchedOff(e) \in Engine
  BY DEF SwitchedOff, Engine
<1>4. pve_fire(c, e, o, t) \in SUBSET Hosts
  BY DEF pve_fire, DueHosts, Live
<1> QED BY <1>2, <1>3, <1>4 DEF pve_eval

LEMMA SyncType ==
  ASSUME NEW c \in Config, NEW e \in Engine
  PROVE  SyncGuests(e, c) \in Engine
BY DEF SyncGuests, Configured, Engine, Config, GuestList

(* The history and the locals of the worker have their types. *)
LEMMA RecordType ==
  ASSUME TypeOK, NEW o \in Obs, NEW f \in SUBSET Hosts
  PROVE  Record(o, f) \in History
<1>1. LineSince(o) \in Nat /\ BatterySince(o) \in Nat
  BY DEF TypeOK, History, LineSince, BatterySince
<1>2. (IF o.power = Unknown THEN hist.last ELSE o.power) \in Power
  BY DEF TypeOK, History, Obs
<1>3. ((IF MainsSteady(o) \/ ~cfg.enabled THEN {} ELSE hist.spent) \cup f) \in SUBSET Hosts
  BY DEF TypeOK, History
<1> QED BY <1>1, <1>2, <1>3 DEF Record, History

LEMMA NoWorkerType ==
  /\ NoGuests \in [GuestIds -> Nat]
  /\ NoWorker \in Worker
  /\ TopOfLoop \in Worker
  /\ NoWorker.pc = "none" /\ TopOfLoop.pc = "top"
<1>1. NoGuests \in [GuestIds -> Nat]
  BY DEF NoGuests
<1>2. NoHost \in Host
  BY MaxPctAssumption DEF NoHost, Host
<1>3. (CHOOSE i \in Hosts : TRUE) \in Hosts
  BY HostsAssumption
<1>4. (CHOOSE g \in GuestIds : TRUE) \in GuestIds
  BY GuestIdsAssumption
<1>5. 0 \in 0 .. NodeAttempts - 1
  BY NodeAttemptsAssumption
<1>6. NoWorker \in Worker /\ NoWorker.pc = "none"
  BY <1>1, <1>2, <1>3, <1>4, <1>5 DEF NoWorker, Worker, Kinds
<1>7. TopOfLoop \in Worker /\ TopOfLoop.pc = "top"
  BY <1>6 DEF TopOfLoop, Worker
<1> QED BY <1>1, <1>6, <1>7

-----------------------------------------------------------------------------
(* The type invariant, action by action. *)
LEMMA InitType == Init => TypeOK
<1> SUFFICES ASSUME Init PROVE TypeOK
  OBVIOUS
<1>1. cfg \in Config
  BY ConfigsAssumption DEF Init
<1>2. EmptyEngine \in Engine
  BY DEF EmptyEngine, Engine
<1>3. eng \in Engine
  BY <1>1, <1>2, SyncType DEF Init
<1>4. [power |-> Unknown, soc |-> -1] \in Obs
  BY MaxPctAssumption DEF Obs, Power, Soc
<1>5. hist \in History
  BY <1>4 DEF Init, History, Power
<1> QED BY <1>1, <1>3, <1>5, NoWorkerType DEF Init, TypeOK

LEMMA ObserveType ==
  ASSUME TypeOK, NEW o \in Readings, Observe(o)
  PROVE  TypeOK'
<1>1. o \in Obs
  BY ReadingsAssumption
<1>2. /\ pve_eval(cfg, eng, o, now) \in Engine
      /\ pve_fire(cfg, eng, o, now) \in SUBSET Hosts
  BY <1>1, EvalType DEF TypeOK
<1>3. pending_guests' \in [Hosts -> [GuestIds -> Nat]]
  BY DEF TypeOK, Observe
<1>4. hist' \in History
  BY <1>1, <1>2, RecordType DEF Observe
<1>5. /\ eng' \in Engine
      /\ pending_hosts' \in SUBSET Hosts
  BY <1>2 DEF Observe, TypeOK
<1>6. running' \in BOOLEAN /\ starting' \in BOOLEAN
  BY DEF Observe, TypeOK
<1> QED BY <1>3, <1>4, <1>5, <1>6 DEF TypeOK, Observe

(* What the type needs to be inductive: the guest in hand, tried as a      *)
(* container, is still in the batch, so counting it off stays in Nat.      *)
GuestInHand ==
  /\ worker.pc \notin {"guests", "node"} => worker.kind = 0
  /\ worker.pc = "guests" /\ worker.kind = 1 => worker.batch[worker.guest] > 0

LEMMA WorkerUpdate ==
  ASSUME NEW w \in Worker
  PROVE  /\ \A pc \in {"none", "top", "run", "guests", "node", "gap"} :
              /\ [w EXCEPT !.pc = pc] \in Worker
              /\ \A k \in Kinds : [w EXCEPT !.kind = k, !.pc = pc] \in Worker
              /\ \A n \in 0 .. NodeAttempts - 1 :
                   [w EXCEPT !.attempt = n, !.pc = pc] \in Worker
         /\ \A k \in Kinds :
              /\ [w EXCEPT !.kind = k] \in Worker
              /\ \A g \in GuestIds :
                   /\ [w EXCEPT !.kind = k, !.guest = g] \in Worker
                   /\ \A b \in [GuestIds -> Nat] :
                        [w EXCEPT !.kind = k, !.guest = g, !.batch = b] \in Worker
BY DEF Worker

LEMMA WorkerStepType ==
  ASSUME TypeOK, GuestInHand, WorkerStep
  PROVE  TypeOK'
<1>0. worker \in Worker /\ {0, 1} \subseteq Kinds
  BY DEF TypeOK, Kinds
<1>1. CASE WorkerExit
  BY <1>1, NoWorkerType DEF WorkerExit, TypeOK, shared
<1>2. CASE \E i \in Hosts : WorkerTake(i)
  <2>1. PICK i \in Hosts : WorkerTake(i)
    BY <1>2
  <2>2. PICK b \in Batches(pending_guests[i]) :
          worker' = [worker EXCEPT !.pc = "run", !.host = i, !.armed = cfg.armed,
                                   !.h = cfg.hosts[i], !.node = (i \in pending_hosts),
                                   !.batch = b]
    BY <2>1 DEF WorkerTake
  <2>3. b \in [GuestIds -> Nat]
    <3>1. pending_guests[i] \in [GuestIds -> Nat]
      BY DEF TypeOK
    <3> QED BY <3>1, <2>2 DEF Batches
  <2>4. cfg.hosts[i] \in Host /\ cfg.armed \in BOOLEAN
    BY DEF TypeOK, Config
  <2>5. worker' \in Worker
    <3>1. \A n \in BOOLEAN :
            [worker EXCEPT !.pc = "run", !.host = i, !.armed = cfg.armed,
                           !.h = cfg.hosts[i], !.node = n, !.batch = b] \in Worker
      BY <1>0, <2>3, <2>4 DEF Worker
    <3>2. (i \in pending_hosts) \in BOOLEAN
      OBVIOUS
    <3> QED BY <2>2, <3>1, <3>2, Zenon
  <2>6. pending_guests' \in [Hosts -> [GuestIds -> Nat]]
    BY <2>1, NoWorkerType DEF WorkerTake, TypeOK
  <2> QED BY <2>1, <2>5, <2>6 DEF WorkerTake, TypeOK, shared
<1>3. CASE RunNothing
  BY <1>3, NoWorkerType DEF RunNothing, TypeOK, workerOnly, shared
<1>4. CASE RunArmed
  BY <1>4 DEF RunArmed, TypeOK, workerOnly, shared, Worker
<1>5. CASE \E g \in GuestIds, reply \in Replies : GuestPost(g, reply)
  <2>1. PICK g \in GuestIds, reply \in Replies : GuestPost(g, reply)
    BY <1>5
  <2>2. worker.batch \in [GuestIds -> Nat] /\ worker.kind \in Kinds
    BY <1>0 DEF Worker
  <2>3. worker.batch[g] > 0
    BY <2>1, <2>2 DEF GuestPost, GuestInHand, InBatch, Kinds
  <2>4. [worker.batch EXCEPT ![g] = @ - 1] \in [GuestIds -> Nat]
    BY <2>2, <2>3
  <2>5. NoWorker.guest \in GuestIds
    BY NoWorkerType DEF Worker
  <2>6. worker' \in Worker
    <3>1. [worker EXCEPT !.kind = 1, !.guest = g] \in Worker
      BY <1>0, WorkerUpdate
    <3>2. [worker EXCEPT !.kind = 0, !.guest = NoWorker.guest,
                         !.batch = [worker.batch EXCEPT ![g] = @ - 1]] \in Worker
      BY <1>0, <2>4, <2>5, WorkerUpdate
    <3> QED BY <2>1, <3>1, <3>2 DEF GuestPost
  <2> QED BY <2>1, <2>6 DEF GuestPost, TypeOK, workerOnly, shared
<1>6. CASE GuestsDone
  <2>1. worker' \in Worker
    BY <1>0, <1>6, NoWorkerType, WorkerUpdate DEF GuestsDone
  <2> QED BY <1>6, <2>1 DEF GuestsDone, TypeOK, workerOnly, shared
<1>7. CASE \E reply \in Replies : NodePost(reply)
  <2>1. worker' \in Worker
    <3>1. /\ [worker EXCEPT !.kind = 1] \in Worker
          /\ [worker EXCEPT !.kind = 0, !.pc = "gap"] \in Worker
      BY <1>0, WorkerUpdate
    <3> QED BY <1>7, <3>1, NoWorkerType DEF NodePost
  <2> QED BY <1>7, <2>1 DEF NodePost, TypeOK, workerOnly, shared
<1>8. CASE NodeRetry
  <2>1. worker.attempt \in 0 .. NodeAttempts - 1
    BY <1>0 DEF Worker
  <2>2. CASE worker.attempt + 1 < NodeAttempts
    <3>1. worker.attempt + 1 \in 0 .. NodeAttempts - 1
      BY <2>1, <2>2, NodeAttemptsAssumption
    <3>2. worker' \in Worker
      BY <1>0, <1>8, <2>2, <3>1, WorkerUpdate DEF NodeRetry
    <3> QED BY <1>8, <3>2 DEF NodeRetry, TypeOK, workerOnly, shared
  <2>3. CASE ~(worker.attempt + 1 < NodeAttempts)
    BY <1>8, <2>3, NoWorkerType DEF NodeRetry, TypeOK, workerOnly, shared
  <2> QED BY <2>2, <2>3
<1> QED BY <1>1, <1>2, <1>3, <1>4, <1>5, <1>6, <1>7, <1>8 DEF WorkerStep

LEMMA GuestInHandStep ==
  ASSUME TypeOK, GuestInHand, [Next]_vars
  PROVE  GuestInHand'
<1>0. worker \in Worker
  BY DEF TypeOK
<1>1. NoWorker.kind = 0 /\ TopOfLoop.kind = 0
  BY DEF NoWorker, TopOfLoop
<1>2. CASE UNCHANGED worker
  BY <1>2 DEF GuestInHand
<1>3. CASE StartWorker \/ WorkerExit \/ RunNothing
  BY <1>1, <1>3, NoWorkerType DEF GuestInHand, StartWorker, WorkerExit, RunNothing
<1>4. CASE \E i \in Hosts : WorkerTake(i)
  BY <1>0, <1>4 DEF GuestInHand, WorkerTake, Worker
<1>5. CASE RunArmed
  BY <1>0, <1>5 DEF GuestInHand, RunArmed, Worker
<1>6. CASE \E g \in GuestIds, reply \in Replies : GuestPost(g, reply)
  <2>1. PICK g \in GuestIds, reply \in Replies : GuestPost(g, reply)
    BY <1>6
  <2>2. CASE reply = "error" /\ worker.kind = 0
    BY <1>0, <2>1, <2>2 DEF GuestInHand, GuestPost, Worker, InBatch
  <2>3. CASE ~(reply = "error" /\ worker.kind = 0)
    BY <1>0, <2>1, <2>3 DEF GuestInHand, GuestPost, Worker
  <2> QED BY <2>2, <2>3
<1>7. CASE GuestsDone
  <2>1. CASE worker.node /\ worker.h.shutdown_node
    BY <1>0, <1>7, <2>1 DEF GuestInHand, GuestsDone, Worker
  <2>2. CASE ~(worker.node /\ worker.h.shutdown_node)
    BY <1>1, <1>7, <2>2, NoWorkerType DEF GuestInHand, GuestsDone
  <2> QED BY <2>1, <2>2
<1>8. CASE \E reply \in Replies : NodePost(reply)
  <2>1. PICK reply \in Replies : NodePost(reply)
    BY <1>8
  <2> QED BY <1>0, <1>1, <2>1, NoWorkerType DEF GuestInHand, NodePost, Worker
<1>9. CASE NodeRetry
  <2>1. CASE worker.attempt + 1 < NodeAttempts
    BY <1>0, <1>9, <2>1 DEF GuestInHand, NodeRetry, Worker
  <2>2. CASE ~(worker.attempt + 1 < NodeAttempts)
    BY <1>1, <1>9, <2>2, NoWorkerType DEF GuestInHand, NodeRetry
  <2> QED BY <2>1, <2>2
<1> QED BY <1>2, <1>3, <1>4, <1>5, <1>6, <1>7, <1>8, <1>9
        DEF Next, WorkerStep, vars, Observe, StartFails, Reconfigure, Tick

LEMMA NextType ==
  ASSUME TypeOK, GuestInHand, [Next]_vars
  PROVE  TypeOK'
<1>1. CASE \E o \in Readings : Observe(o)
  BY <1>1, ObserveType
<1>2. CASE StartWorker
  BY <1>2, NoWorkerType DEF StartWorker, TypeOK
<1>3. CASE StartFails
  <2>1. create_fails' \in Nat
    BY <1>3 DEF StartFails, TypeOK
  <2> QED BY <1>3, <2>1, Zenon DEF StartFails, TypeOK
<1>4. CASE \E c \in Configs : Reconfigure(c)
  <2>1. PICK c \in Configs : Reconfigure(c)
    BY <1>4
  <2>2. c \in Config /\ SyncGuests(eng, c) \in Engine
    BY ConfigsAssumption, SyncType DEF TypeOK
  <2>3. hist' \in History
    BY <2>1 DEF Reconfigure, NotSeen, History, TypeOK
  <2> QED BY <2>1, <2>2, <2>3 DEF Reconfigure, TypeOK
<1>5. CASE Tick
  <2>1. hist' \in History
    BY <1>5 DEF Tick, NotSeen, History, TypeOK
  <2> QED BY <1>5, <2>1 DEF Tick, TypeOK
<1>6. CASE WorkerStep
  BY <1>6, WorkerStepType
<1>7. CASE UNCHANGED vars
  BY <1>7 DEF vars, TypeOK
<1> QED BY <1>1, <1>2, <1>3, <1>4, <1>5, <1>6, <1>7 DEF Next

(* The type invariant: every field of P, of the engine and of the worker's *)
(* locals keeps its type.  The attempt counter of shutdown_node stays      *)
(* below NODE_ATTEMPTS, and shutdown_guest never counts a guest out of a   *)
(* batch it is not in.                                                     *)
THEOREM TypeCorrect == Spec => []TypeOK
<1>1. Init => TypeOK /\ GuestInHand
  <2>1. Init => GuestInHand
    BY DEF Init, GuestInHand, NoWorker
  <2> QED BY <2>1, InitType
<1>2. TypeOK /\ GuestInHand /\ [Next]_vars => (TypeOK /\ GuestInHand)'
  BY NextType, GuestInHandStep
<1> QED BY <1>1, <1>2, PTL DEF Spec

-----------------------------------------------------------------------------
(* What one call of pve_eval does, on and off. *)
LEMMA EvalOn ==
  ASSUME NEW c \in Config, NEW e \in Engine, NEW o \in Obs, NEW t \in Nat,
         c.enabled
  PROVE  LET f == FoldPower(e, o, t)
             r == pve_eval(c, e, o, t)
         IN /\ r.on_battery = f.on_battery
            /\ r.on_battery_since = f.on_battery_since
            /\ r.on_mains = f.on_mains
            /\ r.mains_since = f.mains_since
            /\ r.known = e.known
            /\ r.fired = (IF MainsBack(c, f, t) THEN {} ELSE e.fired)
                           \cup DueHosts(c, f, o, t)
            /\ \A i \in Hosts :
                 /\ r.guest_fired[i] = HeldGuests(c, f, t, i) \cup DueGuests(c, f, o, t, i)
                 /\ r.fired_now[i] = DueGuests(c, f, o, t, i)
            /\ pve_fire(c, e, o, t) = DueHosts(c, f, o, t)
            /\ f.fired = e.fired /\ f.guest_fired = e.guest_fired /\ f.known = e.known
<1>1. FoldPower(e, o, t) \in Engine
  BY FoldPowerType
<1>2. /\ FoldPower(e, o, t).fired = e.fired
      /\ FoldPower(e, o, t).guest_fired = e.guest_fired
      /\ FoldPower(e, o, t).known = e.known
  BY DEF FoldPower, Engine
<1>3. pve_eval(c, e, o, t) = Latch(c, FoldPower(e, o, t), o, t)
  BY DEF pve_eval
<1>4. pve_fire(c, e, o, t) = DueHosts(c, FoldPower(e, o, t), o, t)
  BY DEF pve_fire
<1>5. ASSUME NEW f \in Engine
      PROVE  LET r == Latch(c, f, o, t)
             IN /\ r.on_battery = f.on_battery
                /\ r.on_battery_since = f.on_battery_since
                /\ r.on_mains = f.on_mains
                /\ r.mains_since = f.mains_since
                /\ r.known = f.known
                /\ r.fired = (IF MainsBack(c, f, t) THEN {} ELSE f.fired)
                               \cup DueHosts(c, f, o, t)
                /\ \A i \in Hosts :
                     /\ r.guest_fired[i] = HeldGuests(c, f, t, i) \cup DueGuests(c, f, o, t, i)
                     /\ r.fired_now[i] = DueGuests(c, f, o, t, i)
  BY DEF Latch, Engine
<1> QED BY <1>1, <1>2, <1>3, <1>4, <1>5

LEMMA EvalOff ==
  ASSUME NEW c \in Config, NEW e \in Engine, NEW o \in Obs, NEW t \in Nat,
         ~c.enabled
  PROVE  LET r == pve_eval(c, e, o, t)
         IN /\ ~r.on_battery /\ ~r.on_mains
            /\ r.known = e.known /\ r.fired = e.fired
            /\ r.guest_fired = e.guest_fired /\ r.fired_now = e.fired_now
            /\ pve_fire(c, e, o, t) = {}
BY DEF pve_eval, pve_fire, SwitchedOff, Engine

(* A host that is latched, or not enabled, fires neither itself nor any of *)
(* its guests.                                                             *)
LEMMA LatchedIsSilent ==
  ASSUME NEW c \in Config, NEW e \in Engine, NEW o \in Obs, NEW t \in Nat,
         NEW i \in Hosts, i \in e.fired
  PROVE  i \notin DueHosts(c, e, o, t) /\ DueGuests(c, e, o, t, i) = {}
BY DEF DueHosts, DueGuests, Live

(* The engine holds state for exactly the configured guests, and while the *)
(* feature is off no fired_now flag is up: pve_eval returns before its     *)
(* loop clears them, so this rests on pve_engine_sync_guests.              *)
EngineInv ==
  /\ \A i \in Hosts : eng.known[i] = Configured(cfg, i)
  /\ ~cfg.enabled => \A i \in Hosts : eng.fired_now[i] = {}

LEMMA EngineInvStep ==
  ASSUME TypeOK, EngineInv, [Next]_vars
  PROVE  EngineInv'
<1>1. CASE UNCHANGED <<cfg, eng>>
  BY <1>1 DEF EngineInv, Configured
<1>2. CASE \E o \in Readings : Observe(o)
  <2>1. PICK o \in Readings : Observe(o)
    BY <1>2
  <2>2. o \in Obs
    BY ReadingsAssumption
  <2>3. CASE cfg.enabled
    BY <2>1, <2>2, <2>3, EvalOn DEF EngineInv, Observe, Configured, TypeOK
  <2>4. CASE ~cfg.enabled
    BY <2>1, <2>2, <2>4, EvalOff DEF EngineInv, Observe, Configured, TypeOK
  <2> QED BY <2>3, <2>4
<1>3. CASE \E c \in Configs : Reconfigure(c)
  BY <1>3 DEF EngineInv, Reconfigure, SyncGuests, Configured, TypeOK, Engine
<1> QED BY <1>1, <1>2, <1>3
        DEF Next, vars, StartWorker, StartFails, Tick, WorkerStep, WorkerExit,
            WorkerTake, RunNothing, RunArmed, GuestPost, GuestsDone, NodePost,
            NodeRetry, workerOnly, shared

LEMMA InitEngineInv == Init => EngineInv
<1> SUFFICES ASSUME Init PROVE EngineInv
  OBVIOUS
<1>1. cfg \in Config /\ EmptyEngine \in Engine
  BY ConfigsAssumption DEF Init, EmptyEngine, Engine
<1> QED BY <1>1 DEF Init, EngineInv, SyncGuests, Configured, Engine

(* The facts every other proof starts from. *)
Base == TypeOK /\ GuestInHand /\ EngineInv

LEMMA BaseInit == Init => Base
<1>1. Init => GuestInHand
  BY DEF Init, GuestInHand, NoWorker
<1> QED BY <1>1, InitType, InitEngineInv DEF Base

LEMMA BaseStep == Base /\ [Next]_vars => Base'
BY NextType, GuestInHandStep, EngineInvStep DEF Base

(* What an observation does to the queue: only the guests whose fired_now  *)
(* flag it raised go in, and none does while nothing fires.                *)
LEMMA ObserveQueue ==
  ASSUME TypeOK, NEW o \in Readings, Observe(o), NEW i \in Hosts, NEW g \in GuestIds
  PROVE  /\ pending_guests'[i][g] # pending_guests[i][g] =>
              /\ g \in eng'.fired_now[i]
              /\ pending_guests'[i][g] = pending_guests[i][g] + 1
         /\ g \in eng'.fired_now[i] =>
              Oom \/ pending_guests'[i][g] = pending_guests[i][g] + 1
<1>1. eng'.fired_now = pve_eval(cfg, eng, o, now).fired_now
  BY DEF Observe
<1>2. PICK lost \in Losses(eng'.fired_now) :
        pending_guests' = [j \in Hosts |-> [k \in GuestIds |->
          IF k \in eng'.fired_now[j] \ lost[j] THEN pending_guests[j][k] + 1
                                               ELSE pending_guests[j][k]]]
  BY <1>1 DEF Observe
<1>3. ~Oom => lost[i] = {}
  BY <1>2 DEF Losses
<1> QED BY <1>2, <1>3 DEF TypeOK

-----------------------------------------------------------------------------
LEMMA AccountedStep ==
  ASSUME TypeOK, WorkerAccounted, [Next]_vars
  PROVE  WorkerAccounted'
<1> USE DEF WorkerAccounted
<1>1. CASE \E o \in Readings : Observe(o)
  <2>1. PICK o \in Readings : Observe(o)
    BY <1>1
  <2> DEFINE any == \/ pve_fire(cfg, eng, o, now) # {}
                    \/ \E i \in Hosts : eng'.fired_now[i] # {}
  <2>2. /\ running' = (running \/ any)
        /\ starting' = (starting \/ (any /\ ~running))
        /\ worker' = worker /\ create_fails' = create_fails
    BY <2>1 DEF Observe
  <2>3. ASSUME NothingPending, ~any
        PROVE  NothingPending'
    <3>1. pending_hosts' = {}
      BY <2>1, <2>3 DEF Observe, NothingPending
    <3>2. \A i \in Hosts, g \in GuestIds : pending_guests'[i][g] = pending_guests[i][g]
      BY <2>1, <2>3, ObserveQueue
    <3> QED BY <2>3, <3>1, <3>2 DEF NothingPending, Queued
  <2> HIDE DEF any
  <2> QED BY <2>2, <2>3 DEF TypeOK
<1>2. CASE StartWorker
  <2>1. UNCHANGED NothingPending
    BY <1>2 DEF StartWorker, NothingPending, Queued
  <2> QED BY <1>2, <2>1, NoWorkerType DEF StartWorker
<1>3. CASE StartFails
  BY <1>3 DEF StartFails, TypeOK
<1>4. CASE UNCHANGED <<running, starting, pending_hosts, pending_guests, worker, create_fails>>
  BY <1>4 DEF NothingPending, Queued
<1>5. CASE WorkerExit
  <2>1. NothingPending'
    BY <1>5 DEF WorkerExit, NothingPending, Queued
  <2> QED BY <1>5, <2>1, NoWorkerType DEF WorkerExit, shared
<1>6. CASE WorkerStep /\ ~WorkerExit
  <2>1. /\ worker.pc # "none" /\ worker'.pc # "none"
        /\ UNCHANGED <<running, starting, create_fails>>
    <3>0. worker \in Worker
      BY DEF TypeOK
    <3>1. CASE \E i \in Hosts : WorkerTake(i)
      BY <3>0, <3>1 DEF WorkerTake, Worker, shared
    <3>2. CASE RunNothing \/ RunArmed \/ GuestsDone
      BY <3>0, <3>2, NoWorkerType
      DEF RunNothing, RunArmed, GuestsDone, Worker, workerOnly, shared
    <3>3. CASE \E g \in GuestIds, reply \in Replies : GuestPost(g, reply)
      BY <3>0, <3>3 DEF GuestPost, Worker, workerOnly, shared
    <3>4. CASE \E reply \in Replies : NodePost(reply)
      <4>1. PICK reply \in Replies : NodePost(reply)
        BY <3>4
      <4> QED BY <3>0, <4>1, NoWorkerType DEF NodePost, Worker, workerOnly, shared
    <3>5. CASE NodeRetry
      BY <3>0, <3>5, NoWorkerType DEF NodeRetry, Worker, workerOnly, shared
    <3> QED BY <1>6, <3>1, <3>2, <3>3, <3>4, <3>5 DEF WorkerStep
  <2> QED BY <2>1
<1> QED BY <1>1, <1>2, <1>3, <1>4, <1>5, <1>6
        DEF Next, vars, Reconfigure, Tick

(* One worker at a time, and no work without one: the flag P.running, set  *)
(* by an observer before it creates the task and cleared by the task       *)
(* itself, is right whatever the interleaving, and only a failed           *)
(* xTaskCreate strands queued work.                                        *)
THEOREM WorkerIsAccounted == Spec => []WorkerAccounted
<1>1. Init => WorkerAccounted
  <2> SUFFICES ASSUME Init PROVE WorkerAccounted
    OBVIOUS
  <2>1. NothingPending
    BY DEF Init, NothingPending, Queued, NoGuests
  <2> QED BY <2>1, NoWorkerType DEF Init, WorkerAccounted
<1>2. TypeOK /\ WorkerAccounted /\ [Next]_vars => WorkerAccounted'
  BY AccountedStep
<1> QED BY <1>1, <1>2, TypeCorrect, PTL DEF Spec

-----------------------------------------------------------------------------
LEMMA BeforeNodeStep ==
  ASSUME Base, GuestsBeforeNode, [Next]_vars
  PROVE  GuestsBeforeNode'
<1> USE DEF GuestsBeforeNode
<1>0. TypeOK
  BY DEF Base
<1>1. CASE \E o \in Readings : Observe(o)
  <2>1. PICK o \in Readings : Observe(o)
    BY <1>1
  <2>2. o \in Obs /\ now \in Nat /\ cfg \in Config /\ eng \in Engine
    BY <1>0, ReadingsAssumption DEF TypeOK
  <2> SUFFICES ASSUME NEW i \in Hosts, i \in eng'.fired, Queued(i)' # {},
                      i \notin pve_fire(cfg, eng, o, now)
               PROVE  i \in pending_hosts'
    BY <2>1 DEF Observe
  <2>3. i \in eng.fired /\ eng'.fired_now[i] = {}
    <3>1. CASE cfg.enabled
      <4> DEFINE f == FoldPower(eng, o, now)
      <4>1. f \in Engine
        BY <2>2, FoldPowerType
      <4>2. /\ eng'.fired = (IF MainsBack(cfg, f, now) THEN {} ELSE eng.fired)
                              \cup pve_fire(cfg, eng, o, now)
            /\ eng'.fired_now[i] = DueGuests(cfg, f, o, now, i)
            /\ f.fired = eng.fired
        BY <2>1, <2>2, <3>1, EvalOn DEF Observe
      <4> HIDE DEF f
      <4>3. i \in eng.fired
        BY <4>2
      <4> QED BY <2>2, <4>1, <4>2, <4>3, LatchedIsSilent
    <3>2. CASE ~cfg.enabled
      BY <2>1, <2>2, <3>2, EvalOff DEF Observe, Base, EngineInv
    <3> QED BY <3>1, <3>2
  <2>4. Queued(i) # {}
    BY <1>0, <2>1, <2>3, ObserveQueue DEF Queued
  <2> QED BY <2>1, <2>3, <2>4 DEF Observe
<1>2. CASE \E c \in Configs : Reconfigure(c)
  <2>1. PICK c \in Configs : Reconfigure(c)
    BY <1>2
  <2>2. eng'.fired = eng.fired
    BY <1>0, <2>1 DEF Reconfigure, SyncGuests, TypeOK, Engine
  <2> QED BY <2>1, <2>2 DEF Reconfigure, Queued
<1>3. CASE \E i \in Hosts : WorkerTake(i)
  <2>1. PICK i \in Hosts : WorkerTake(i)
    BY <1>3
  <2>2. Queued(i)' = {}
    BY <1>0, <2>1 DEF WorkerTake, Queued, NoGuests, TypeOK
  <2>3. \A j \in Hosts \ {i} : Queued(j)' = Queued(j)
    BY <1>0, <2>1 DEF WorkerTake, Queued, TypeOK
  <2> QED BY <2>1, <2>2, <2>3 DEF WorkerTake, shared
<1>4. CASE UNCHANGED <<eng, pending_hosts, pending_guests>>
  BY <1>4 DEF Queued
<1> QED BY <1>1, <1>2, <1>3, <1>4
        DEF Next, vars, StartWorker, StartFails, Tick, WorkerStep, WorkerExit,
            RunNothing, RunArmed, GuestPost, GuestsDone, NodePost, NodeRetry,
            workerOnly, shared

(* Guests before their node: a latched host never has a guest in the queue *)
(* without its node, so worker_task, which takes a host's node and guests  *)
(* in one pass, never shuts the node down ahead of a guest of it.          *)
THEOREM GuestsGoBeforeNode == Spec => []GuestsBeforeNode
<1>1. Init => GuestsBeforeNode
  BY DEF Init, GuestsBeforeNode, Queued, NoGuests
<1>2. Base /\ GuestsBeforeNode /\ [Next]_vars => GuestsBeforeNode'
  BY BeforeNodeStep
<1> QED BY <1>1, <1>2, BaseInit, BaseStep, PTL DEF Spec

-----------------------------------------------------------------------------
(* The engine's two clocks against the readings themselves: neither runs   *)
(* longer than the readings justify, whatever was saved in between, and a  *)
(* host whose outage is not over is still latched.                         *)
ClockInv ==
  /\ hist.battery_since <= now
  /\ hist.line_since <= now
  /\ eng.on_battery => hist.last = Battery /\ hist.battery_since <= eng.on_battery_since
  /\ eng.on_mains => hist.obs.power = Line /\ hist.line_since <= eng.mains_since
  /\ hist.spent \subseteq eng.fired

(* The clocks once a reading is folded in. *)
LEMMA FoldedClocks ==
  ASSUME TypeOK, ClockInv, NEW o \in Obs
  PROVE  LET f == FoldPower(eng, o, now)
         IN /\ f.on_battery => /\ (IF o.power = Unknown THEN hist.last ELSE o.power) = Battery
                               /\ BatterySince(o) <= f.on_battery_since
            /\ f.on_mains => /\ o.power = Line
                             /\ LineSince(o) <= f.mains_since
            /\ BatterySince(o) <= now /\ LineSince(o) <= now
            /\ ~(f.on_battery /\ f.on_mains)
            /\ MainsBack(cfg, f, now) => MainsSteady(o)
<1> DEFINE f == FoldPower(eng, o, now)
<1>1. eng \in Engine /\ now \in Nat /\ hist \in History /\ cfg \in Config
  BY DEF TypeOK
<1>2. /\ f.on_battery <=> (o.power = Battery) \/ (o.power = Unknown /\ eng.on_battery)
      /\ f.on_battery_since = (IF o.power = Battery /\ ~eng.on_battery
                               THEN now ELSE eng.on_battery_since)
      /\ f.on_mains <=> (o.power = Line)
      /\ f.mains_since = (IF o.power = Line /\ ~eng.on_mains
                          THEN now ELSE eng.mains_since)
  BY <1>1 DEF FoldPower, Engine
<1>3. /\ hist.battery_since \in Nat /\ hist.line_since \in Nat
      /\ eng.on_battery_since \in Nat /\ eng.mains_since \in Nat
      /\ cfg.mains_back_min \in Nat
  BY <1>1 DEF History, Engine, Config
<1> HIDE DEF f
<1>4. BatterySince(o) <= now /\ LineSince(o) <= now
  BY <1>1, <1>3 DEF BatterySince, LineSince, ClockInv
<1>5. f.on_battery => /\ (IF o.power = Unknown THEN hist.last ELSE o.power) = Battery
                      /\ BatterySince(o) <= f.on_battery_since
  BY <1>1, <1>2, <1>3 DEF BatterySince, ClockInv, Battery, Line, Unknown
<1>6. f.on_mains => o.power = Line /\ LineSince(o) <= f.mains_since
  BY <1>1, <1>2, <1>3 DEF LineSince, ClockInv
<1>7. ~(f.on_battery /\ f.on_mains)
  BY <1>2 DEF Battery, Line, Unknown
<1>8. MainsBack(cfg, f, now) => MainsSteady(o)
  <2>1. f.on_mains => f.mains_since \in Nat /\ LineSince(o) \in Nat
    BY <1>1, <1>2, <1>3 DEF LineSince
  <2> QED BY <1>1, <1>3, <1>6, <2>1 DEF MainsBack, MainsSteady
<1> QED BY <1>4, <1>5, <1>6, <1>7, <1>8 DEF f

LEMMA ClockStep ==
  ASSUME TypeOK, ClockInv, [Next]_vars
  PROVE  ClockInv'
<1>0. eng \in Engine /\ now \in Nat /\ hist \in History /\ cfg \in Config
  BY DEF TypeOK
<1>1. CASE \E o \in Readings : Observe(o)
  <2>1. PICK o \in Readings : Observe(o)
    BY <1>1
  <2>2. o \in Obs
    BY ReadingsAssumption
  <2>3. /\ hist'.battery_since = BatterySince(o)
        /\ hist'.line_since = LineSince(o)
        /\ hist'.obs = o
        /\ hist'.last = (IF o.power = Unknown THEN hist.last ELSE o.power)
        /\ hist'.spent = (IF MainsSteady(o) \/ ~cfg.enabled THEN {} ELSE hist.spent)
                           \cup pve_fire(cfg, eng, o, now)
        /\ now' = now
        /\ eng' = pve_eval(cfg, eng, o, now)
    BY <2>1 DEF Observe, Record
  <2>4. hist'.battery_since <= now /\ hist'.line_since <= now
    BY <2>2, <2>3, FoldedClocks
  <2>5. CASE cfg.enabled
    <3>1. LET f == FoldPower(eng, o, now)
          IN /\ eng'.on_battery = f.on_battery
             /\ eng'.on_battery_since = f.on_battery_since
             /\ eng'.on_mains = f.on_mains
             /\ eng'.mains_since = f.mains_since
             /\ eng'.fired = (IF MainsBack(cfg, f, now) THEN {} ELSE eng.fired)
                               \cup pve_fire(cfg, eng, o, now)
      BY <1>0, <2>2, <2>3, <2>5, EvalOn
    <3>2. hist'.spent \subseteq eng'.fired
      BY <2>2, <2>3, <2>5, <3>1, FoldedClocks DEF ClockInv
    <3>3. /\ eng'.on_battery => hist'.last = Battery /\ hist'.battery_since <= eng'.on_battery_since
          /\ eng'.on_mains => hist'.obs.power = Line /\ hist'.line_since <= eng'.mains_since
      BY <2>2, <2>3, <3>1, FoldedClocks
    <3> QED BY <2>3, <2>4, <3>2, <3>3 DEF ClockInv
  <2>6. CASE ~cfg.enabled
    <3>1. ~eng'.on_battery /\ ~eng'.on_mains /\ eng'.fired = eng.fired
          /\ pve_fire(cfg, eng, o, now) = {}
      BY <1>0, <2>2, <2>3, <2>6, EvalOff
    <3> QED BY <2>3, <2>4, <2>6, <3>1 DEF ClockInv
  <2> QED BY <2>5, <2>6
<1>2. CASE \E c \in Configs : Reconfigure(c)
  BY <1>0, <1>2 DEF ClockInv, Reconfigure, SyncGuests, NotSeen, Engine, History
<1>3. CASE Tick
  BY <1>0, <1>3 DEF ClockInv, Tick, NotSeen, History
<1>4. CASE UNCHANGED <<now, eng, hist>>
  BY <1>4 DEF ClockInv
<1> QED BY <1>1, <1>2, <1>3, <1>4
        DEF Next, vars, StartWorker, StartFails, WorkerStep, WorkerExit, WorkerTake,
            RunNothing, RunArmed, GuestPost, GuestsDone, NodePost, NodeRetry,
            workerOnly, shared

(* The inductive invariant behind the properties of the engine. *)
IInv == Base /\ ClockInv

LEMMA IInvHolds == Spec => []IInv
<1>1. Init => ClockInv
  BY DEF Init, ClockInv, SyncGuests, EmptyEngine, Configured
<1>2. Base /\ ClockInv /\ [Next]_vars => ClockInv'
  BY ClockStep DEF Base
<1> QED BY <1>1, <1>2, BaseInit, BaseStep, PTL DEF Spec, IInv

(* Only an observation closes a latch, of a host or of a guest; it and a   *)
(* reconfiguration are all that touches the engine.                        *)
LEMMA OnlyObserveFires ==
  ASSUME TypeOK, [Next]_vars, ~\E o \in Readings : Observe(o)
  PROVE  /\ eng'.fired = eng.fired
         /\ \A i \in Hosts : eng'.guest_fired[i] \subseteq eng.guest_fired[i]
<1>0. eng \in Engine
  BY DEF TypeOK
<1>1. CASE \E c \in Configs : Reconfigure(c)
  BY <1>0, <1>1 DEF Reconfigure, SyncGuests, Engine
<1>2. CASE UNCHANGED eng
  BY <1>2
<1> QED BY <1>1, <1>2
        DEF Next, vars, StartWorker, StartFails, Tick, WorkerStep, WorkerExit,
            WorkerTake, RunNothing, RunArmed, GuestPost, GuestsDone, NodePost,
            NodeRetry, workerOnly, shared

(* A flapping supply cannot fire a host twice: pve_eval fires a host again *)
(* only after an unbroken run of Line readings at least mains_back_min     *)
(* long, or after the feature was off, whatever was saved in the meantime. *)
THEOREM FiresOnce == Spec => FireOnce
<1>1. IInv /\ [Next]_vars =>
        [\A i \in Hosts : i \in eng'.fired \ eng.fired => i \notin hist.spent]_vars
  BY DEF IInv, ClockInv
<1> QED BY <1>1, IInvHolds, PTL DEF Spec, FireOnce

-----------------------------------------------------------------------------
(* A trigger that is met on the engine's clocks is justified by the        *)
(* readings.                                                               *)
LEMMA MetIsJustified ==
  ASSUME TypeOK, ClockInv, NEW o \in Readings, Observe(o),
         NEW t, t.on_battery_min \in Nat, t.charge_pct \in Nat,
         TriggerMet(t, FoldPower(eng, o, now), o, now)
  PROVE  Justified(t)
<1> DEFINE f == FoldPower(eng, o, now)
<1>1. /\ o \in Obs /\ o.soc \in Int
      /\ eng \in Engine /\ now \in Nat /\ hist \in History
  BY ReadingsAssumption, MaxPctAssumption DEF TypeOK, Obs, Soc
<1>2. /\ hist'.obs = o
      /\ hist'.battery_since = BatterySince(o)
      /\ hist'.last = (IF o.power = Unknown THEN hist.last ELSE o.power)
  BY DEF Observe, Record
<1>3. f.on_battery => hist'.last = Battery /\ hist'.battery_since <= f.on_battery_since
  BY <1>1, <1>2, FoldedClocks
<1>4. f.on_battery_since \in Nat /\ BatterySince(o) \in Nat
  BY <1>1, FoldPowerType DEF Engine, BatterySince, History
<1> HIDE DEF f
<1>5. CASE t.on_battery_min > 0 /\ f.on_battery /\ now - f.on_battery_since >= t.on_battery_min
  <2>1. now - hist'.battery_since >= t.on_battery_min
    BY <1>1, <1>2, <1>3, <1>4, <1>5
  <2> QED BY <1>3, <1>5, <2>1 DEF Justified
<1>6. CASE o.power = Battery /\ t.charge_pct > 0 /\ o.soc >= 0 /\ o.soc <= t.charge_pct
  BY <1>1, <1>2, <1>6 DEF Justified
<1> QED BY <1>5, <1>6 DEF TriggerMet, f

(* Fail-safe and never early: what pve_eval fires, a host or a guest, is   *)
(* justified by the readings themselves, not only by the engine's clocks,  *)
(* and a lost link never starts a countdown.                               *)
THEOREM FiresAreJustified == Spec => FireJustified
<1> DEFINE P == \A i \in Hosts :
                  /\ i \in eng'.fired \ eng.fired => Justified(cfg.hosts[i])
                  /\ \A g \in eng'.guest_fired[i] \ eng.guest_fired[i] :
                       \/ Justified(cfg.guests[i].rule[g])
                       \/ i \in eng'.fired \ eng.fired
<1>1. IInv /\ [Next]_vars => [P]_vars
  <2> SUFFICES ASSUME IInv, [Next]_vars, NEW i \in Hosts
               PROVE  /\ i \in eng'.fired \ eng.fired => Justified(cfg.hosts[i])
                      /\ \A g \in eng'.guest_fired[i] \ eng.guest_fired[i] :
                           \/ Justified(cfg.guests[i].rule[g])
                           \/ i \in eng'.fired \ eng.fired
    OBVIOUS
  <2>0. /\ TypeOK /\ ClockInv
        /\ cfg \in Config /\ eng \in Engine /\ now \in Nat
    BY DEF IInv, Base, TypeOK
  <2>1. CASE ~\E o \in Readings : Observe(o)
    BY <2>0, <2>1, OnlyObserveFires
  <2>2. ASSUME NEW o \in Readings, Observe(o)
        PROVE  /\ i \in eng'.fired \ eng.fired => Justified(cfg.hosts[i])
               /\ \A g \in eng'.guest_fired[i] \ eng.guest_fired[i] :
                    \/ Justified(cfg.guests[i].rule[g])
                    \/ i \in eng'.fired \ eng.fired
    <3>0. o \in Obs /\ eng' = pve_eval(cfg, eng, o, now)
      BY <2>2, ReadingsAssumption DEF Observe
    <3>1. CASE ~cfg.enabled
      BY <2>0, <3>0, <3>1, EvalOff
    <3>2. CASE cfg.enabled
      <4> DEFINE f == FoldPower(eng, o, now)
      <4>1. /\ eng'.fired = (IF MainsBack(cfg, f, now) THEN {} ELSE eng.fired)
                              \cup DueHosts(cfg, f, o, now)
            /\ eng'.guest_fired[i] = HeldGuests(cfg, f, now, i) \cup DueGuests(cfg, f, o, now, i)
            /\ f.fired = eng.fired /\ f.guest_fired = eng.guest_fired
        BY <2>0, <3>0, <3>2, EvalOn
      <4>2. i \in DueHosts(cfg, f, o, now) =>
              /\ i \in eng'.fired \ eng.fired
              /\ Justified(cfg.hosts[i])
        <5>1. cfg.hosts[i].on_battery_min \in Nat /\ cfg.hosts[i].charge_pct \in Nat
          BY <2>0, MaxPctAssumption DEF Config, Host
        <5>2. i \in DueHosts(cfg, f, o, now) =>
                i \notin f.fired /\ TriggerMet(cfg.hosts[i], f, o, now)
          BY DEF DueHosts, Live
        <5> QED BY <2>0, <2>2, <4>1, <5>1, <5>2, MetIsJustified
      <4>3. \A g \in DueGuests(cfg, f, o, now, i) :
              Justified(cfg.guests[i].rule[g]) \/ i \in DueHosts(cfg, f, o, now)
        <5> SUFFICES ASSUME NEW g \in DueGuests(cfg, f, o, now, i),
                            i \notin DueHosts(cfg, f, o, now)
                     PROVE  Justified(cfg.guests[i].rule[g])
          OBVIOUS
        <5>1. g \in GuestIds /\ TriggerMet(cfg.guests[i].rule[g], f, o, now)
          BY <2>0 DEF DueGuests, Configured, Config, GuestList
        <5>2. /\ cfg.guests[i].rule[g].on_battery_min \in Nat
              /\ cfg.guests[i].rule[g].charge_pct \in Nat
          BY <2>0, <5>1, MaxPctAssumption DEF Config, GuestList, Trigger
        <5> QED BY <2>0, <2>2, <5>1, <5>2, MetIsJustified
      <4>4. HeldGuests(cfg, f, now, i) \subseteq eng.guest_fired[i]
        BY <4>1 DEF HeldGuests
      <4> HIDE DEF f
      <4> QED BY <4>1, <4>2, <4>3, <4>4
    <3> QED BY <3>1, <3>2
  <2> QED BY <2>1, <2>2
<1> QED BY <1>1, IInvHolds, PTL DEF Spec, FireJustified

-----------------------------------------------------------------------------
LEMMA DeadlineStep ==
  ASSUME IInv, DeadlineFires, [Next]_vars
  PROVE  DeadlineFires'
<1> USE DEF DeadlineFires
<1>0. /\ TypeOK /\ ClockInv
      /\ cfg \in Config /\ eng \in Engine /\ now \in Nat /\ hist \in History
  BY DEF IInv, Base, TypeOK
<1>1. CASE \E o \in Readings : Observe(o)
  <2>1. PICK o \in Readings : Observe(o)
    BY <1>1
  <2>2. /\ o \in Obs /\ now' = now /\ cfg' = cfg
        /\ eng' = pve_eval(cfg, eng, o, now)
    BY <2>1, ReadingsAssumption DEF Observe
  <2> SUFFICES ASSUME NEW i \in Hosts
               PROVE  /\ pve_countdown_s(cfg, eng', i, now) # 0
                      /\ i \notin eng'.fired =>
                           \A g \in GuestIds : pve_guest_countdown_s(cfg, eng', i, g, now) # 0
    BY <2>2
  <2>3. CASE ~cfg.enabled
    BY <2>3 DEF SPerMin, pve_countdown_s, pve_guest_countdown_s
  <2>4. CASE cfg.enabled
    <3> DEFINE f == FoldPower(eng, o, now)
               h == cfg.hosts[i]
    <3>1. /\ eng'.on_battery = f.on_battery
          /\ eng'.on_battery_since = f.on_battery_since
          /\ eng'.fired = (IF MainsBack(cfg, f, now) THEN {} ELSE eng.fired)
                            \cup DueHosts(cfg, f, o, now)
          /\ eng'.guest_fired[i] = HeldGuests(cfg, f, now, i) \cup DueGuests(cfg, f, o, now, i)
          /\ f.fired = eng.fired /\ f.known = eng.known
      BY <1>0, <2>2, <2>4, EvalOn
    <3>2. f \in Engine /\ f.on_battery_since \in Nat /\ h.on_battery_min \in Nat
      BY <1>0, <2>2, FoldPowerType DEF Engine, Config, Host
    <3>3. f.on_battery => ~MainsBack(cfg, f, now)
      BY <1>0, <2>2, FoldedClocks DEF MainsBack
    <3>4. ASSUME h.enabled, f.on_battery, i \notin eng'.fired
          PROVE  i \in Live(cfg, f)
      BY <3>1, <3>3, <3>4 DEF Live
    <3>5. ASSUME NEW t, t.on_battery_min \in Nat, t.on_battery_min > 0, f.on_battery,
                 ~TriggerMet(t, f, o, now)
          PROVE  f.on_battery_since + t.on_battery_min > now
      <4>1. ~(now - f.on_battery_since >= t.on_battery_min)
        BY <3>5 DEF TriggerMet
      <4> QED BY <1>0, <3>2, <3>5, <4>1
    <3>6. pve_countdown_s(cfg, eng', i, now) # 0
      <4>1. CASE ~h.enabled \/ h.on_battery_min = 0 \/ ~eng'.on_battery \/ i \in eng'.fired
        BY <4>1 DEF SPerMin, pve_countdown_s
      <4>2. CASE ~(~h.enabled \/ h.on_battery_min = 0 \/ ~eng'.on_battery \/ i \in eng'.fired)
        <5>1. ~TriggerMet(h, f, o, now)
          BY <3>1, <3>4, <4>2 DEF DueHosts
        <5>2. eng'.on_battery_since + h.on_battery_min > now
          BY <3>1, <3>2, <3>5, <4>2, <5>1
        <5>3. eng'.on_battery_since \in Nat
          BY <3>1, <3>2
        <5> HIDE DEF f
        <5> QED BY <1>0, <2>4, <3>2, <4>2, <5>2, <5>3 DEF SPerMin, pve_countdown_s
      <4> QED BY <4>1, <4>2
    <3>7. ASSUME i \notin eng'.fired, NEW g \in GuestIds
          PROVE  pve_guest_countdown_s(cfg, eng', i, g, now) # 0
      <4> DEFINE t == cfg.guests[i].rule[g]
      <4>1. CASE \/ ~h.enabled \/ ~eng'.on_battery \/ g \notin Configured(cfg, i)
                 \/ t.on_battery_min = 0 \/ g \in eng'.guest_fired[i]
        BY <4>1 DEF SPerMin, pve_guest_countdown_s
      <4>2. CASE ~(\/ ~h.enabled \/ ~eng'.on_battery \/ g \notin Configured(cfg, i)
                   \/ t.on_battery_min = 0 \/ g \in eng'.guest_fired[i])
        <5>1. i \in Live(cfg, f) /\ g \in Configured(cfg, i) \cap f.known[i]
              /\ g \notin HeldGuests(cfg, f, now, i) /\ g \notin DueGuests(cfg, f, o, now, i)
          BY <3>1, <3>4, <3>7, <4>2 DEF IInv, Base, EngineInv
        <5>2. ~TriggerMet(t, f, o, now)
          BY <5>1 DEF DueGuests
        <5>3. t.on_battery_min \in Nat
          BY <1>0 DEF Config, GuestList, Trigger
        <5>4. eng'.on_battery_since + t.on_battery_min > now
          BY <3>1, <3>5, <4>2, <5>2, <5>3
        <5>5. eng'.on_battery_since \in Nat
          BY <3>1, <3>2
        <5> HIDE DEF f
        <5> QED BY <1>0, <2>4, <4>2, <5>3, <5>4, <5>5 DEF SPerMin, pve_guest_countdown_s
      <4> QED BY <4>1, <4>2
    <3> QED BY <3>6, <3>7
  <2> QED BY <2>3, <2>4
<1>2. CASE (\E c \in Configs : Reconfigure(c)) \/ Tick
  BY <1>0, <1>2 DEF Reconfigure, Tick, NotSeen, History
<1>3. CASE UNCHANGED <<now, cfg, eng, hist>>
  BY <1>3 DEF SPerMin, pve_countdown_s, pve_guest_countdown_s, Configured
<1> QED BY <1>1, <1>2, <1>3
        DEF Next, vars, StartWorker, StartFails, WorkerStep, WorkerExit, WorkerTake,
            RunNothing, RunArmed, GuestPost, GuestsDone, NodePost, NodeRetry,
            workerOnly, shared

(* No deadline is missed: after any reading pve_eval has folded in, no     *)
(* countdown of a host, or of a guest of a host that has not fired, stands *)
(* at zero - what has reached it has fired.                                *)
THEOREM DeadlinesFire == Spec => []DeadlineFires
<1>1. Init => DeadlineFires
  <2>1. Init => hist.seen = FALSE
    BY DEF Init
  <2> QED BY <2>1, Zenon DEF DeadlineFires
<1>2. IInv /\ DeadlineFires /\ [Next]_vars => DeadlineFires'
  BY DeadlineStep
<1> QED BY <1>1, <1>2, IInvHolds, PTL DEF Spec

-----------------------------------------------------------------------------
(* The node going down takes every configured guest with it: the sweep at  *)
(* the end of pve_eval's loop finds engine state for each of them.         *)
THEOREM SweepIsComplete == Spec => SweepComplete
<1> DEFINE P == \A i \in Hosts : i \in eng'.fired \ eng.fired =>
                  Configured(cfg, i) \subseteq eng'.guest_fired[i]
<1>1. IInv /\ [Next]_vars => [P]_vars
  <2> SUFFICES ASSUME IInv, [Next]_vars, NEW i \in Hosts, i \in eng'.fired \ eng.fired
               PROVE  Configured(cfg, i) \subseteq eng'.guest_fired[i]
    OBVIOUS
  <2>0. /\ TypeOK /\ EngineInv
        /\ cfg \in Config /\ eng \in Engine /\ now \in Nat
    BY DEF IInv, Base, TypeOK
  <2>1. PICK o \in Readings : Observe(o)
    BY <2>0, OnlyObserveFires
  <2>2. o \in Obs /\ eng' = pve_eval(cfg, eng, o, now)
    BY <2>1, ReadingsAssumption DEF Observe
  <2>3. cfg.enabled
    BY <2>0, <2>2, EvalOff
  <2> DEFINE f == FoldPower(eng, o, now)
  <2>4. /\ eng'.fired = (IF MainsBack(cfg, f, now) THEN {} ELSE eng.fired)
                          \cup DueHosts(cfg, f, o, now)
        /\ eng'.guest_fired[i] = HeldGuests(cfg, f, now, i) \cup DueGuests(cfg, f, o, now, i)
        /\ f.known = eng.known
    BY <2>0, <2>2, <2>3, EvalOn
  <2> HIDE DEF f
  <2>5. i \in DueHosts(cfg, f, o, now) /\ f.known[i] = Configured(cfg, i)
    BY <2>0, <2>4 DEF EngineInv
  <2>6. i \in Live(cfg, f)
    BY <2>5 DEF DueHosts
  <2> QED BY <2>4, <2>5, <2>6 DEF DueGuests
<1> QED BY <1>1, IInvHolds, PTL DEF Spec, SweepComplete

(* A guest's latch ends only when the mains has been back, in an unbroken  *)
(* run of Line readings, for mains_back_min, when a reconfiguration takes  *)
(* the guest off the list, or (left open) on a reading with the feature    *)
(* off.                                                                    *)
THEOREM GuestLatchesHold == Spec => GuestLatchHolds
<1> DEFINE P == \A i \in Hosts : \A g \in eng.guest_fired[i] \ eng'.guest_fired[i] :
                  \/ g \notin Configured(cfg', i)
                  \/ ~cfg.enabled /\ hist'.seen
                  \/ /\ hist'.obs.power = Line
                     /\ cfg.mains_back_min > 0
                     /\ now - hist'.line_since >= cfg.mains_back_min
<1>1. IInv /\ [Next]_vars => [P]_vars
  <2> SUFFICES ASSUME IInv, [Next]_vars, NEW i \in Hosts,
                      NEW g \in eng.guest_fired[i] \ eng'.guest_fired[i]
               PROVE  \/ g \notin Configured(cfg', i)
                      \/ ~cfg.enabled /\ hist'.seen
                      \/ /\ hist'.obs.power = Line
                         /\ cfg.mains_back_min > 0
                         /\ now - hist'.line_since >= cfg.mains_back_min
    OBVIOUS
  <2>0. /\ TypeOK /\ ClockInv
        /\ cfg \in Config /\ eng \in Engine /\ now \in Nat
    BY DEF IInv, Base, TypeOK
  <2>1. CASE \E o \in Readings : Observe(o)
    <3>1. PICK o \in Readings : Observe(o)
      BY <2>1
    <3>2. /\ o \in Obs /\ eng' = pve_eval(cfg, eng, o, now)
          /\ hist'.obs = o /\ hist'.line_since = LineSince(o)
      BY <3>1, ReadingsAssumption DEF Observe, Record
    <3>3. cfg.enabled
      BY <2>0, <3>2, EvalOff
    <3> DEFINE f == FoldPower(eng, o, now)
    <3>4. /\ eng'.guest_fired[i] = HeldGuests(cfg, f, now, i) \cup DueGuests(cfg, f, o, now, i)
          /\ f.guest_fired = eng.guest_fired
      BY <2>0, <3>2, <3>3, EvalOn
    <3>5. MainsBack(cfg, f, now)
      BY <3>4 DEF HeldGuests
    <3> QED BY <2>0, <3>2, <3>5, FoldedClocks DEF MainsSteady
  <2>2. CASE \E c \in Configs : Reconfigure(c)
    BY <2>0, <2>2 DEF Reconfigure, SyncGuests, Engine
  <2>3. CASE UNCHANGED eng
    BY <2>3
  <2> QED BY <2>1, <2>2, <2>3
          DEF Next, vars, StartWorker, StartFails, Tick, WorkerStep, WorkerExit,
              WorkerTake, RunNothing, RunArmed, GuestPost, GuestsDone, NodePost,
              NodeRetry, workerOnly, shared
<1> QED BY <1>1, IInvHolds, PTL DEF Spec, GuestLatchHolds

(* A guest enters the queue exactly when its latch closes: a fired_now     *)
(* flag that pve_eval left standing never queues it a second time, and no  *)
(* closed latch goes unqueued unless a realloc failed.                     *)
THEOREM QueueFollowsLatch == Spec => QueueMatchesLatch
<1> DEFINE Added(i, g) == pending_guests'[i][g] - pending_guests[i][g]
           Closed(i, g) == g \in eng'.guest_fired[i] \ eng.guest_fired[i]
           P == \A i \in Hosts, g \in GuestIds :
                  LET added  == pending_guests'[i][g] - pending_guests[i][g]
                      closed == g \in eng'.guest_fired[i] \ eng.guest_fired[i]
                  IN /\ added > 0 => closed /\ added = 1
                     /\ closed => Oom \/ added = 1
<1>1. IInv /\ [Next]_vars => [P]_vars
  <2> SUFFICES ASSUME IInv, [Next]_vars, NEW i \in Hosts, NEW g \in GuestIds
               PROVE  /\ Added(i, g) > 0 => Closed(i, g) /\ Added(i, g) = 1
                      /\ Closed(i, g) => Oom \/ Added(i, g) = 1
    OBVIOUS
  <2>0. /\ TypeOK /\ EngineInv /\ ClockInv
        /\ cfg \in Config /\ eng \in Engine /\ now \in Nat
        /\ pending_guests[i][g] \in Nat
    BY DEF IInv, Base, TypeOK
  <2>1. CASE \E o \in Readings : Observe(o)
    <3>1. PICK o \in Readings : Observe(o)
      BY <2>1
    <3>2. o \in Obs /\ eng' = pve_eval(cfg, eng, o, now)
      BY <3>1, ReadingsAssumption DEF Observe
    <3>3. Closed(i, g) <=> g \in eng'.fired_now[i]
      <4>1. CASE ~cfg.enabled
        BY <2>0, <3>2, <4>1, EvalOff DEF EngineInv
      <4>2. CASE cfg.enabled
        <5> DEFINE f == FoldPower(eng, o, now)
        <5>1. /\ eng'.guest_fired[i] = HeldGuests(cfg, f, now, i) \cup DueGuests(cfg, f, o, now, i)
              /\ eng'.fired_now[i] = DueGuests(cfg, f, o, now, i)
              /\ f.guest_fired = eng.guest_fired
          BY <2>0, <3>2, <4>2, EvalOn
        <5>2. MainsBack(cfg, f, now) => ~f.on_battery /\ o.power = Line
          BY <2>0, <3>2, FoldedClocks DEF MainsBack
        <5> HIDE DEF f
        <5>3. MainsBack(cfg, f, now) => DueGuests(cfg, f, o, now, i) = {}
          BY <5>2 DEF DueGuests, DueHosts, TriggerMet, Line, Battery
        <5>4. DueGuests(cfg, f, o, now, i) \cap HeldGuests(cfg, f, now, i) = {}
          BY DEF DueGuests
        <5> QED BY <5>1, <5>3, <5>4 DEF HeldGuests
      <4> QED BY <4>1, <4>2
    <3>4. /\ pending_guests'[i][g] # pending_guests[i][g] =>
               g \in eng'.fired_now[i] /\ pending_guests'[i][g] = pending_guests[i][g] + 1
          /\ g \in eng'.fired_now[i] => Oom \/ pending_guests'[i][g] = pending_guests[i][g] + 1
      BY <2>0, <3>1, ObserveQueue
    <3> HIDE DEF Closed
    <3> QED BY <2>0, <3>3, <3>4
  <2>2. CASE ~\E o \in Readings : Observe(o)
    <3>1. ~Closed(i, g)
      BY <2>0, <2>2, OnlyObserveFires
    <3>2. pending_guests'[i][g] \in {0, pending_guests[i][g]}
      <4>1. CASE \E j \in Hosts : WorkerTake(j)
        BY <2>0, <4>1 DEF WorkerTake, NoGuests, TypeOK
      <4>2. CASE UNCHANGED pending_guests
        BY <4>2
      <4> QED BY <2>2, <4>1, <4>2
              DEF Next, vars, StartWorker, StartFails, Reconfigure, Tick, WorkerStep,
                  WorkerExit, RunNothing, RunArmed, GuestPost, GuestsDone, NodePost,
                  NodeRetry, workerOnly, shared
    <3> HIDE DEF Closed
    <3> QED BY <2>0, <3>1, <3>2
  <2> QED BY <2>1, <2>2
<1> QED BY <1>1, IInvHolds, PTL DEF Spec, QueueMatchesLatch

-----------------------------------------------------------------------------
(* The queues and the worker implement ShutdownOrders.  The worker is past *)
(* its batch of guests when it turns to the node, and nothing is in hand   *)
(* when a worker is started (that is what P.running is for).               *)
BatchBeforeNode ==
  worker.pc \in {"node", "gap"} => worker.batch = NoGuests

LEMMA BatchDone ==
  ASSUME TypeOK, InBatch = {}
  PROVE  worker.batch = NoGuests
<1>1. worker.batch \in [GuestIds -> Nat]
  BY DEF TypeOK, Worker
<1> QED BY <1>1 DEF InBatch, NoGuests

LEMMA BatchBeforeNodeStep ==
  ASSUME TypeOK, BatchBeforeNode, [Next]_vars
  PROVE  BatchBeforeNode'
<1> USE DEF BatchBeforeNode
<1>0. worker \in Worker
  BY DEF TypeOK
<1>1. CASE UNCHANGED worker
  BY <1>1
<1>2. CASE StartWorker \/ WorkerExit \/ RunNothing
  BY <1>2, NoWorkerType DEF StartWorker, WorkerExit, RunNothing
<1>3. CASE \E i \in Hosts : WorkerTake(i)
  BY <1>0, <1>3 DEF WorkerTake, Worker
<1>4. CASE RunArmed
  BY <1>0, <1>4 DEF RunArmed, Worker
<1>5. CASE \E g \in GuestIds, reply \in Replies : GuestPost(g, reply)
  <2>1. worker'.pc = "guests"
    BY <1>0, <1>5 DEF GuestPost, Worker
  <2> QED BY <2>1
<1>6. CASE GuestsDone
  <2>1. worker.batch = NoGuests
    BY <1>6, BatchDone DEF GuestsDone
  <2>2. CASE worker' = [worker EXCEPT !.pc = "node"]
    BY <1>0, <2>1, <2>2 DEF Worker
  <2> QED BY <1>6, <2>2, NoWorkerType DEF GuestsDone
<1>7. CASE \E reply \in Replies : NodePost(reply)
  <2>1. PICK reply \in Replies : NodePost(reply)
    BY <1>7
  <2> QED BY <1>0, <2>1, NoWorkerType DEF NodePost, Worker
<1>8. CASE NodeRetry
  <2>1. CASE worker' = [worker EXCEPT !.attempt = worker.attempt + 1, !.pc = "node"]
    BY <1>0, <1>8, <2>1 DEF NodeRetry, Worker
  <2> QED BY <1>8, <2>1, NoWorkerType DEF NodeRetry
<1> QED BY <1>1, <1>2, <1>3, <1>4, <1>5, <1>6, <1>7, <1>8
        DEF Next, WorkerStep, vars, Observe, StartFails, Reconfigure, Tick

(* What is in hand, by where the worker is. *)
AtStage(w, s) == [host |-> w.host, node |-> w.node, guests |-> w.batch, stage |-> s]

LEMMA HandIs ==
  ASSUME NEW w
  PROVE  /\ w.pc \in {"none", "top"} => HandOf(w) = {}
         /\ w.pc = "run" => HandOf(w) = {AtStage(w, "taken")}
         /\ w.pc = "guests" => HandOf(w) = {AtStage(w, "guests")}
         /\ w.pc \in {"node", "gap"} => HandOf(w) = {AtStage(w, "node")}
<1>1. CASE w.pc \in {"none", "top"}
  BY <1>1 DEF HandOf
<1>2. CASE w.pc = "run"
  BY <1>2 DEF HandOf, AtStage
<1>3. CASE w.pc = "guests"
  BY <1>3 DEF HandOf, AtStage
<1>4. CASE w.pc \in {"node", "gap"}
  BY <1>4 DEF HandOf, AtStage
<1> QED BY <1>1, <1>2, <1>3, <1>4

(* An observation orders what it queues. *)
LEMMA ObserveOrders ==
  ASSUME TypeOK, NEW o \in Readings, Observe(o)
  PROVE  Orders!OrdersNext
<1> DEFINE fire == pve_fire(cfg, eng, o, now)
           fresh == pve_eval(cfg, eng, o, now).fired_now
<1>1. fire \in SUBSET Hosts /\ fresh \in [Hosts -> SUBSET GuestIds]
  <2>1. o \in Obs
    BY ReadingsAssumption
  <2>2. fire \in SUBSET Hosts /\ pve_eval(cfg, eng, o, now) \in Engine
    BY <2>1, EvalType DEF TypeOK
  <2> QED BY <2>2 DEF Engine
<1>2. PICK lost \in Losses(fresh) :
        pending_guests' = [i \in Hosts |-> [g \in GuestIds |->
          IF g \in fresh[i] \ lost[i] THEN pending_guests[i][g] + 1
                                      ELSE pending_guests[i][g]]]
  BY DEF Observe
<1>3. pending_hosts' = pending_hosts \cup fire /\ UNCHANGED worker
  BY DEF Observe
<1> DEFINE gs == [i \in Hosts |-> fresh[i] \ lost[i]]
<1> HIDE DEF fire, fresh
<1>4. gs \in [Hosts -> SUBSET GuestIds]
  BY <1>1
<1>5. pending_guests' = [i \in Hosts |-> [g \in GuestIds |->
        IF g \in gs[i] THEN pending_guests[i][g] + 1 ELSE pending_guests[i][g]]]
  BY <1>2
<1> HIDE DEF gs
<1>6. \E ns \in SUBSET Hosts, xs \in [Hosts -> SUBSET GuestIds] : Orders!Order(ns, xs)
  BY <1>1, <1>3, <1>4, <1>5 DEF Orders!Order
<1> QED BY <1>6, Zenon DEF Orders!OrdersNext

(* worker_task takes one host's orders in hand. *)
LEMMA TakeOrders ==
  ASSUME TypeOK, NEW i \in Hosts, WorkerTake(i)
  PROVE  Orders!Take(i)
<1>0. worker \in Worker
  BY DEF TypeOK
<1>1. HandOf(worker) = {}
  BY HandIs DEF WorkerTake
<1>2. i \in pending_hosts \/ pending_guests[i] # Orders!None
  BY DEF WorkerTake, NextHost, Queued, Orders!None
<1>3. PICK b \in Batches(pending_guests[i]) :
        worker' = [worker EXCEPT !.pc = "run", !.host = i, !.armed = cfg.armed,
                                 !.h = cfg.hosts[i], !.node = (i \in pending_hosts),
                                 !.batch = b]
  BY DEF WorkerTake
<1>4. b \in Orders!Arrivals(pending_guests[i])
  BY <1>3 DEF Batches, Orders!Arrivals
<1>5. /\ worker'.pc = "run" /\ worker'.host = i /\ worker'.batch = b
      /\ worker'.node = (i \in pending_hosts)
  BY <1>0, <1>3 DEF Worker
<1>6. HandOf(worker') = {[host |-> i, node |-> i \in pending_hosts, guests |-> b, stage |-> "taken"]}
  <2>1. HandOf(worker') = {AtStage(worker', "taken")}
    BY <1>5, HandIs
  <2> QED BY <1>5, <2>1 DEF AtStage
<1>7. /\ pending_hosts' = pending_hosts \ {i}
      /\ pending_guests' = [pending_guests EXCEPT ![i] = Orders!None]
  BY DEF WorkerTake, NoGuests, Orders!None
<1> QED BY <1>1, <1>2, <1>4, <1>6, <1>7, Zenon DEF Orders!Take

(* run_host and what it calls: every request is a step of the orders or    *)
(* none at all.                                                            *)
LEMMA HandStep ==
  ASSUME TypeOK, GuestInHand, BatchBeforeNode, WorkerStep,
         ~\E i \in Hosts : WorkerTake(i)
  PROVE  Orders!OrdersNext \/ UNCHANGED Orders!ovars
<1>0. worker \in Worker /\ NoGuests = Orders!None
  BY DEF TypeOK, NoGuests, Orders!None
<1>1. UNCHANGED <<pending_hosts, pending_guests>>
  BY DEF WorkerStep, WorkerExit, RunNothing, RunArmed, GuestPost, GuestsDone,
         NodePost, NodeRetry, workerOnly
<1>2. ASSUME HandOf(worker') = HandOf(worker)
      PROVE  UNCHANGED Orders!ovars
  BY <1>1, <1>2 DEF Orders!ovars
<1>t. HandOf(TopOfLoop) = {} /\ HandOf(NoWorker) = {}
  BY HandIs, NoWorkerType
<1>f. ASSUME worker.pc \in {"guests", "node", "gap"}, worker.batch = NoGuests,
             worker' = TopOfLoop
      PROVE  Orders!Finish
  <2>1. PICK s \in {"guests", "node"} : HandOf(worker) = {AtStage(worker, s)}
    BY <1>f, HandIs
  <2>2. AtStage(worker, s).stage = s /\ AtStage(worker, s).guests = Orders!None
    BY <1>0, <1>f DEF AtStage
  <2> QED BY <1>1, <1>f, <1>t, <2>1, <2>2 DEF Orders!Finish
<1>3. CASE WorkerExit
  BY <1>2, <1>3, <1>t, HandIs DEF WorkerExit
<1>4. CASE RunNothing
  <2>1. HandOf(worker) = {AtStage(worker, "taken")} /\ HandOf(worker') = {}
    BY <1>4, <1>t, HandIs DEF RunNothing
  <2>2. AtStage(worker, "taken").stage = "taken"
    BY DEF AtStage
  <2>3. Orders!Refuse
    BY <1>1, <2>1, <2>2 DEF Orders!Refuse
  <2> QED BY <2>3 DEF Orders!OrdersNext
<1>5. CASE RunArmed
  <2>1. /\ HandOf(worker) = {AtStage(worker, "taken")}
        /\ worker'.pc = "guests" /\ AtStage(worker', "guests") = AtStage(worker, "guests")
    BY <1>0, <1>5, HandIs DEF RunArmed, Worker, AtStage
  <2>2. HandOf(worker') = {AtStage(worker, "guests")}
    BY <2>1, HandIs
  <2>3. /\ AtStage(worker, "taken").stage = "taken"
        /\ AtStage(worker, "guests") = [AtStage(worker, "taken") EXCEPT !.stage = "guests"]
    BY DEF AtStage
  <2>4. Orders!Begin
    BY <1>1, <2>1, <2>2, <2>3 DEF Orders!Begin
  <2> QED BY <2>4 DEF Orders!OrdersNext
<1>6. CASE \E g \in GuestIds, reply \in Replies : GuestPost(g, reply)
  <2>1. PICK g \in GuestIds, reply \in Replies : GuestPost(g, reply)
    BY <1>6
  <2>2. worker.pc = "guests" /\ HandOf(worker) = {AtStage(worker, "guests")}
    BY <2>1, HandIs DEF GuestPost
  <2>3. CASE reply = "error" /\ worker.kind = 0
    <3>1. worker'.pc = "guests" /\ AtStage(worker', "guests") = AtStage(worker, "guests")
      BY <1>0, <2>1, <2>3 DEF GuestPost, Worker, AtStage
    <3> QED BY <1>2, <2>2, <3>1, HandIs
  <2>4. CASE ~(reply = "error" /\ worker.kind = 0)
    <3>1. worker.batch \in [GuestIds -> Nat] /\ worker.kind \in Kinds
      BY <1>0 DEF Worker
    <3>2. worker.batch[g] > 0
      BY <2>1, <3>1 DEF GuestPost, GuestInHand, InBatch, Kinds
    <3>3. /\ worker'.pc = "guests" /\ worker'.host = worker.host /\ worker'.node = worker.node
          /\ worker'.batch = [worker.batch EXCEPT ![g] = @ - 1]
      BY <1>0, <2>1, <2>4 DEF GuestPost, Worker
    <3> DEFINE j == AtStage(worker, "guests")
    <3>4. /\ j.stage = "guests" /\ j.guests[g] > 0
          /\ AtStage(worker', "guests") = [j EXCEPT !.guests[g] = @ - 1]
      BY <3>2, <3>3 DEF AtStage
    <3>5. HandOf(worker') = {AtStage(worker', "guests")}
      BY <3>3, HandIs
    <3> HIDE DEF j
    <3>6. HandOf(worker) = {j}
      BY <2>2 DEF j
    <3>7. Orders!StopGuest(g)
      BY <1>1, <3>4, <3>5, <3>6 DEF Orders!StopGuest
    <3> QED BY <3>7 DEF Orders!OrdersNext
  <2> QED BY <2>3, <2>4
<1>7. CASE GuestsDone
  <2>1. worker.batch = NoGuests /\ worker.pc = "guests"
    BY <1>7, BatchDone DEF GuestsDone
  <2>2. CASE worker.node /\ worker.h.shutdown_node
    <3>1. worker'.pc = "node" /\ AtStage(worker', "node") = AtStage(worker, "node")
      BY <1>0, <1>7, <2>2 DEF GuestsDone, Worker, AtStage
    <3> DEFINE j == AtStage(worker, "guests")
    <3>2. /\ j.stage = "guests" /\ j.guests = Orders!None /\ j.node
          /\ AtStage(worker, "node") = [j EXCEPT !.stage = "node"]
      <4>1. j.stage = "guests" /\ j.guests = worker.batch /\ j.node = worker.node
        BY DEF AtStage
      <4>2. AtStage(worker, "node") = [j EXCEPT !.stage = "node"]
        BY DEF AtStage
      <4> QED BY <1>0, <2>1, <2>2, <4>1, <4>2, Zenon
    <3>3. HandOf(worker) = {j} /\ HandOf(worker') = {AtStage(worker, "node")}
      BY <2>1, <3>1, HandIs
    <3> HIDE DEF j
    <3>4. Orders!StopNode
      BY <1>1, <3>2, <3>3 DEF Orders!StopNode
    <3> QED BY <3>4 DEF Orders!OrdersNext
  <2>3. CASE worker' = TopOfLoop
    BY <1>f, <2>1, <2>3 DEF Orders!OrdersNext
  <2> QED BY <1>7, <2>2, <2>3 DEF GuestsDone
<1>8. ASSUME worker.pc \in {"node", "gap"}, worker'.pc \in {"node", "gap"},
             AtStage(worker', "node") = AtStage(worker, "node")
      PROVE  UNCHANGED Orders!ovars
  BY <1>2, <1>8, HandIs
<1>9. CASE \E reply \in Replies : NodePost(reply)
  <2>1. PICK reply \in Replies : NodePost(reply)
    BY <1>9
  <2>2. CASE worker' = TopOfLoop
    BY <1>f, <2>1, <2>2 DEF NodePost, BatchBeforeNode, Orders!OrdersNext
  <2>3. CASE \/ worker' = [worker EXCEPT !.kind = 1]
             \/ worker' = [worker EXCEPT !.kind = 0, !.pc = "gap"]
    <3>1. worker'.pc \in {"node", "gap"} /\ AtStage(worker', "node") = AtStage(worker, "node")
      BY <1>0, <2>1, <2>3 DEF NodePost, Worker, AtStage
    <3> QED BY <1>8, <2>1, <3>1 DEF NodePost
  <2> QED BY <2>1, <2>2, <2>3 DEF NodePost
<1>10. CASE NodeRetry
  <2>1. CASE worker' = TopOfLoop
    BY <1>f, <1>10, <2>1 DEF NodeRetry, BatchBeforeNode, Orders!OrdersNext
  <2>2. CASE worker' = [worker EXCEPT !.attempt = worker.attempt + 1, !.pc = "node"]
    <3>1. worker'.pc \in {"node", "gap"} /\ AtStage(worker', "node") = AtStage(worker, "node")
      BY <1>0, <2>2 DEF Worker, AtStage
    <3> QED BY <1>8, <1>10, <3>1 DEF NodeRetry
  <2> QED BY <1>10, <2>1, <2>2 DEF NodeRetry
<1> QED BY <1>3, <1>4, <1>5, <1>6, <1>7, <1>9, <1>10 DEF WorkerStep

LEMMA OrdersStep ==
  ASSUME TypeOK, GuestInHand, WorkerAccounted, BatchBeforeNode, [Next]_vars
  PROVE  [Orders!OrdersNext]_(Orders!ovars)
<1>1. CASE \E o \in Readings : Observe(o)
  BY <1>1, ObserveOrders
<1>2. CASE \E i \in Hosts : WorkerTake(i)
  <2>1. PICK i \in Hosts : Orders!Take(i)
    BY <1>2, TakeOrders
  <2> QED BY <2>1 DEF Orders!OrdersNext
<1>3. CASE WorkerStep /\ ~\E i \in Hosts : WorkerTake(i)
  BY <1>3, HandStep
<1>4. CASE StartWorker
  <2>1. worker.pc = "none" /\ worker' = TopOfLoop
    BY <1>4 DEF StartWorker, WorkerAccounted
  <2>2. HandOf(worker) = {} /\ HandOf(worker') = {}
    BY <2>1, HandIs, NoWorkerType
  <2> QED BY <1>4, <2>2 DEF StartWorker, Orders!ovars
<1>5. CASE UNCHANGED <<pending_hosts, pending_guests, worker>>
  BY <1>5 DEF Orders!ovars
<1> QED BY <1>1, <1>2, <1>3, <1>4, <1>5
        DEF Next, vars, StartFails, Reconfigure, Tick

LEMMA OrdersStart == Init => Orders!OrdersInit
<1> SUFFICES ASSUME Init PROVE Orders!OrdersInit
  OBVIOUS
<1>1. HandOf(worker) = {}
  BY HandIs, NoWorkerType DEF Init
<1> QED BY <1>1 DEF Init, NoGuests, Orders!OrdersInit, Orders!None

(* pve_shutdown_observe, worker_task and run_host implement                *)
(* ShutdownOrders, for any number of hosts and guests: one host at a time, *)
(* all that was ordered for it, every guest asked before its node, nothing *)
(* dropped half way, whatever is observed, saved or fails meanwhile.       *)
THEOREM WorkerCarriesOutOrders == Spec => OrdersCarriedOut
<1>1. Init => BatchBeforeNode
  BY NoWorkerType DEF Init, BatchBeforeNode
<1>2. TypeOK /\ GuestInHand /\ WorkerAccounted /\ BatchBeforeNode /\ [Next]_vars
        => BatchBeforeNode' /\ [Orders!OrdersNext]_(Orders!ovars)
  BY BatchBeforeNodeStep, OrdersStep
<1>3. Base => TypeOK /\ GuestInHand
  BY DEF Base
<1> QED BY <1>1, <1>2, <1>3, OrdersStart, BaseInit, BaseStep, WorkerIsAccounted, PTL
        DEF Spec, OrdersCarriedOut, Orders!OrdersSpec
=============================================================================
