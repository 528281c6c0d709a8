------------------------------- MODULE BtPoll -------------------------------
(***************************************************************************)
(* The poll loop of the Bluetooth link: bluetti_ble.c, with the Modbus     *)
(* half of bt_session.c.                                                   *)
(*                                                                         *)
(* Three tasks share the struct b: the NimBLE host task (connect,          *)
(* disconnect, notifications), the timer task (poll_timer_cb) and the web  *)
(* server's task (the controls).  The timer callback is split where it     *)
(* holds no lock: it checks, picks a request, sends it, and only then      *)
(* marks it as in flight, so an answer may overtake the mark.              *)
(*                                                                         *)
(* Time is abstract: overdue says that REQ_TIMEOUT_US has passed since the *)
(* request marked in flight was sent.  A field is its register address;    *)
(* its value is abstracted to "has been decoded on this link".             *)
(***************************************************************************)
EXTENDS Integers, Sequences, FiniteSets

CONSTANTS
  Common,         \* the plan of an unrecognised unit, a sequence of registers
  Extra,          \* what the plan of a known model has besides
  ControlPlan,    \* what it has besides when controls are on
  Writeable,      \* the control registers: some of Extra, all of ControlPlan
  DeviceType,     \* REG_DEVICE_TYPE, the register that names the model
  Values,         \* the values the user may write to a control
  PollFailLimit,  \* POLL_FAIL_LIMIT
  QueueSize,      \* slots of write_queue
  MaxAir,         \* bound: requests the unit has yet to answer
  SendFails       \* may the Bluetooth stack refuse a write?

(* The registers of a plan, and all that may be polled. *)
Fields(p) == {p[k] : k \in 1 .. Len(p)}
Regs == Fields(Common) \cup Fields(Extra) \cup Fields(ControlPlan)

ASSUME PlanAssumption ==
  /\ Regs \subseteq Nat \ {0}
  /\ Common \in Seq(Regs) /\ Extra \in Seq(Regs) /\ ControlPlan \in Seq(Regs)
  /\ DeviceType \in Fields(Common)
  /\ Writeable \subseteq Fields(Extra) \cup Fields(ControlPlan)
ASSUME LimitAssumption ==
  /\ PollFailLimit \in Nat \ {0} /\ MaxAir \in Nat \ {0}
  /\ QueueSize \in Nat /\ QueueSize >= Cardinality(Writeable)
ASSUME FlagAssumption == SendFails \in BOOLEAN

VARIABLES
  link,          \* down; setup: connected, no session yet; ready; closing
  device,        \* the identified model: none, generic or model
  controls,      \* b.cfg.controls
  plan,          \* b.plan, of length plan_n
  plan_i,        \* the next field to read
  sweep_reads,   \* fields asked for since the plan was built, up to plan_n
  sweep_done,    \* b.state.sweep_done
  known,         \* the registers with a decoded value in b.state
  in_flight,     \* b.req_in_flight
  overdue,       \* REQ_TIMEOUT_US has passed since req_sent_us
  poll_fails,    \* b.poll_fails
  queue,         \* b.write_queue
  job,           \* the timer callback between its critical sections
  pending_addr,  \* the session's label for the next response
  air,           \* requests sent on this link that the unit has yet to answer
  tardy,         \* history: a request of this link was given up too early
  asked,         \* history: fields picked since the plan was built
  newest         \* history: the last value accepted for each control

radio == <<link, device>>
sweep == <<plan, plan_i, sweep_reads, asked>>
state == <<sweep_done, known>>
request == <<in_flight, overdue, poll_fails>>
user == <<controls, queue, newest>>
vars == <<radio, sweep, state, request, user, job, pending_addr, air, tardy>>

NoReg == 0
NoJob == [pc |-> "idle", write |-> FALSE, reg |-> NoReg, val |-> 0]
Job == [pc : {"idle", "pick", "send", "mark"}, write : BOOLEAN,
        reg : Regs \cup {NoReg}, val : Values \cup {0}]
Request == [write : BOOLEAN, reg : Regs]

TypeOK ==
  /\ link \in {"down", "setup", "ready", "closing"}
  /\ device \in {"none", "generic", "model"}
  /\ controls \in BOOLEAN
  /\ plan \in Seq(Regs)
  /\ plan_i \in Nat /\ (plan # <<>> => plan_i < Len(plan))
  /\ sweep_reads \in 0 .. Len(plan)
  /\ sweep_done \in BOOLEAN
  /\ known \subseteq Regs
  /\ in_flight \in BOOLEAN /\ overdue \in BOOLEAN
  /\ poll_fails \in 0 .. PollFailLimit - 1
  /\ queue \in Seq([reg : Writeable, val : Values])
  /\ job \in Job
  /\ pending_addr \in Regs \cup {NoReg}
  /\ air \in Seq(Request)
  /\ tardy \in BOOLEAN
  /\ asked \subseteq Regs
  /\ newest \in [Writeable -> Values \cup {0}]

(* bt_regs_plan *)
bt_regs_plan(dev, with_controls) ==
  IF dev = "model" THEN Common \o Extra \o (IF with_controls THEN ControlPlan ELSE <<>>)
                   ELSE Common

(* Faulty: the count of the old plan's reads is kept. *)
RebuildKeepsCount(p) ==
  /\ plan' = p
  /\ plan_i' = 0
  /\ sweep_reads' = IF sweep_reads <= Len(p) THEN sweep_reads ELSE Len(p)
  /\ asked' = {}

(* A new plan: the sweep starts over. *)
Rebuild(p) ==
  /\ plan' = p
  /\ plan_i' = 0
  /\ sweep_reads' = 0
  /\ asked' = {}

Init ==
  /\ link = "down" /\ device = "none"
  /\ controls \in BOOLEAN
  /\ plan = <<>> /\ plan_i = 0 /\ sweep_reads = 0 /\ asked = {}
  /\ sweep_done = FALSE /\ known = {}
  /\ in_flight = FALSE /\ overdue = FALSE /\ poll_fails = 0
  /\ queue = <<>> /\ newest = [r \in Writeable |-> 0]
  /\ job = NoJob /\ pending_addr = NoReg /\ air = <<>>
  /\ tardy = FALSE

-----------------------------------------------------------------------------
(* The host task.  BLE_GAP_EVENT_CONNECT: everything but the write queue   *)
(* starts anew.                                                            *)
Connected ==
  /\ link = "down"
  /\ link' = "setup"
  /\ device' = "none"
  /\ Rebuild(<<>>)
  /\ in_flight' = FALSE
  /\ poll_fails' = 0
  /\ known' = {}
  /\ sweep_done' = FALSE
  /\ UNCHANGED <<overdue, user, job, pending_addr, air, tardy>>

(* on_sub: notifications are live, the common fields are the plan. *)
OnSub ==
  /\ link = "setup"
  /\ plan = <<>>
  /\ Rebuild(bt_regs_plan("generic", FALSE))
  /\ poll_fails' = 0
  /\ in_flight' = FALSE
  /\ UNCHANGED <<radio, state, overdue, user, job, pending_addr, air, tardy>>

(* The key exchange is over, or was given up for plain Modbus. *)
SessionReady ==
  /\ link = "setup"
  /\ plan # <<>>
  /\ link' = "ready"
  /\ UNCHANGED <<device, sweep, state, request, user, job, pending_addr, air, tardy>>

(* BLE_GAP_EVENT_DISCONNECT, after a drop of ours or at any moment. *)
Disconnected ==
  /\ link # "down"
  /\ link' = "down"
  /\ device' = "none"
  /\ air' = <<>> /\ tardy' = FALSE
  /\ UNCHANGED <<sweep, state, request, user, job, pending_addr>>

(* session_regs: data comes back for the oldest read and is decoded under  *)
(* the address of the latest request, if the value makes sense (ok) and    *)
(* the model has such a field.  The first device type decoded identifies   *)
(* the unit (data of another register is no known model) and rebuilds the  *)
(* plan.                                                                   *)
Answer(ok, model) ==
  /\ air # <<>>
  /\ ~Head(air).write
  /\ link \in {"ready", "closing"}
  /\ IF ok /\ device = "none" /\ pending_addr = DeviceType
     THEN /\ device' = IF Head(air).reg = DeviceType THEN model ELSE "generic"
          /\ Rebuild(bt_regs_plan(device', controls))
     ELSE UNCHANGED <<device, sweep>>
  /\ known' = IF ok /\ pending_addr \in Fields(bt_regs_plan(device, TRUE))
              THEN known \cup {pending_addr} ELSE known
  /\ sweep_done' = (plan' # <<>> /\ sweep_reads' >= Len(plan'))
  /\ in_flight' = FALSE
  /\ poll_fails' = 0
  /\ air' = Tail(air)
  /\ UNCHANGED <<link, overdue, user, job, pending_addr, tardy>>

(* session_ack: a write is echoed, or rejected with an exception. *)
Ack ==
  /\ air # <<>>
  /\ Head(air).write
  /\ link \in {"ready", "closing"}
  /\ in_flight' = FALSE
  /\ poll_fails' = 0
  /\ air' = Tail(air)
  /\ UNCHANGED <<radio, sweep, state, overdue, user, job, pending_addr, tardy>>

(* handle_modbus, a read is answered with an exception: it is logged. *)
Exception ==
  /\ air # <<>>
  /\ ~Head(air).write
  /\ link \in {"ready", "closing"}
  /\ air' = Tail(air)
  /\ UNCHANGED <<radio, sweep, state, in_flight, overdue, poll_fails, user,
                 job, pending_addr, tardy>>

(* The unit never answers a request. *)
Lost ==
  /\ air # <<>>
  /\ air' = Tail(air)
  /\ UNCHANGED <<radio, sweep, state, in_flight, overdue, poll_fails, user, job,
                 pending_addr, tardy>>

(* REQ_TIMEOUT_US passes, and the answer may still come. *)
Expire ==
  /\ in_flight
  /\ ~overdue
  /\ overdue' = TRUE
  /\ tardy' = (tardy \/ air # <<>>)
  /\ UNCHANGED <<radio, sweep, state, in_flight, poll_fails, user, job,
                 pending_addr, air>>

-----------------------------------------------------------------------------
(* The timer task.  Faulty: does not hold off while a request is out. *)
PollableAlways == job.pc = "idle" /\ link = "ready" /\ plan # <<>>

(* poll_timer_cb goes past its early returns. *)
Pollable ==
  /\ job.pc = "idle"
  /\ link = "ready"
  /\ plan # <<>>
  /\ in_flight => overdue

(* One more read has gone unanswered. *)
Fails == poll_fails + (IF in_flight THEN 1 ELSE 0)

(* Faulty: the failures are counted and nothing is done about them. *)
PollDropNever ==
  /\ Pollable
  /\ Fails >= PollFailLimit
  /\ in_flight' = FALSE
  /\ poll_fails' = 0
  /\ UNCHANGED <<link, device, sweep, state, overdue, user, job, pending_addr, air, tardy>>

(* Too many in a row: drop the link. *)
PollDrop ==
  /\ Pollable
  /\ Fails >= PollFailLimit
  /\ link' = "closing"
  /\ in_flight' = FALSE
  /\ poll_fails' = 0
  /\ UNCHANGED <<device, sweep, state, overdue, user, job, pending_addr, air, tardy>>

(* Otherwise it goes on to pick a request. *)
PollTick ==
  /\ Pollable
  /\ Fails < PollFailLimit
  /\ in_flight' = FALSE
  /\ poll_fails' = Fails
  /\ job' = [NoJob EXCEPT !.pc = "pick"]
  /\ UNCHANGED <<radio, sweep, state, overdue, user, pending_addr, air, tardy>>

(* Faulty: the write keeps its slot in the queue. *)
PickWriteKeeps ==
  /\ job.pc = "pick"
  /\ queue # <<>>
  /\ job' = [pc |-> "send", write |-> TRUE, reg |-> Head(queue).reg, val |-> Head(queue).val]
  /\ UNCHANGED <<radio, sweep, state, request, user, pending_addr, air, tardy>>

(* A queued control write goes first ... *)
PickWrite ==
  /\ job.pc = "pick"
  /\ queue # <<>>
  /\ job' = [pc |-> "send", write |-> TRUE, reg |-> Head(queue).reg, val |-> Head(queue).val]
  /\ queue' = Tail(queue)
  /\ UNCHANGED <<radio, sweep, state, request, controls, newest, pending_addr, air, tardy>>

(* Faulty: the index into the plan does not wrap. *)
PickReadNoWrap ==
  /\ job.pc = "pick"
  /\ queue = <<>>
  /\ plan # <<>>
  /\ job' = [job EXCEPT !.pc = "send", !.reg = plan[plan_i + 1]]
  /\ plan_i' = plan_i + 1
  /\ sweep_reads' = IF sweep_reads < Len(plan) THEN sweep_reads + 1 ELSE sweep_reads
  /\ asked' = asked \cup {plan[plan_i + 1]}
  /\ UNCHANGED <<radio, plan, state, request, user, pending_addr, air, tardy>>

(* ... then the next field of the plan ... *)
PickRead ==
  /\ job.pc = "pick"
  /\ queue = <<>>
  /\ plan # <<>>
  /\ job' = [job EXCEPT !.pc = "send", !.reg = plan[plan_i + 1]]
  /\ plan_i' = (plan_i + 1) % Len(plan)
  /\ sweep_reads' = IF sweep_reads < Len(plan) THEN sweep_reads + 1 ELSE sweep_reads
  /\ asked' = asked \cup {plan[plan_i + 1]}
  /\ UNCHANGED <<radio, plan, state, request, user, pending_addr, air, tardy>>

(* ... unless a new link has emptied the plan since the check. *)
PickNothing ==
  /\ job.pc = "pick"
  /\ queue = <<>>
  /\ plan = <<>>
  /\ job' = NoJob
  /\ UNCHANGED <<radio, sweep, state, request, user, pending_addr, air, tardy>>

(* bt_session_read_regs or bt_session_write_reg: the request goes out and  *)
(* its address becomes the label ...                                       *)
Send ==
  /\ job.pc = "send"
  /\ link = "ready"
  /\ Len(air) < MaxAir
  /\ pending_addr' = job.reg
  /\ air' = Append(air, [write |-> job.write, reg |-> job.reg])
  /\ job' = [job EXCEPT !.pc = "mark"]
  /\ UNCHANGED <<radio, sweep, state, request, user, tardy>>

(* ... or does not: the session is gone, or the stack refuses the write. *)
SendFailed ==
  /\ job.pc = "send"
  /\ \/ /\ link # "ready"
        /\ UNCHANGED pending_addr
     \/ /\ link = "ready"
        /\ SendFails
        /\ pending_addr' = job.reg
  /\ job' = NoJob
  /\ UNCHANGED <<radio, sweep, state, request, user, air, tardy>>

(* req_in_flight and req_sent_us, set when the request is already out. *)
Mark ==
  /\ job.pc = "mark"
  /\ in_flight' = TRUE
  /\ overdue' = FALSE
  /\ job' = NoJob
  /\ UNCHANGED <<radio, sweep, state, poll_fails, user, pending_addr, air, tardy>>

-----------------------------------------------------------------------------
(* The web server's task. *)

(* bluetti_ble_set_controls *)
SetControls(on) ==
  /\ controls' = on
  /\ queue' = IF on THEN queue ELSE <<>>
  /\ IF device # "none" THEN Rebuild(bt_regs_plan(device, on)) ELSE UNCHANGED sweep
  /\ UNCHANGED <<radio, state, request, newest, job, pending_addr, air, tardy>>

(* The slot of register r in the queue, 0 if it has none. *)
Slot(r) ==
  IF \E k \in 1 .. Len(queue) : queue[k].reg = r
  THEN CHOOSE k \in 1 .. Len(queue) : queue[k].reg = r
  ELSE 0

(* Faulty: a second write to a register gets a slot of its own. *)
EnqueueAgain(r, v) == Append(queue, [reg |-> r, val |-> v])

(* The queue with a write of v to r: the newest value takes the slot the   *)
(* register already has.                                                   *)
Enqueue(r, v) ==
  IF Slot(r) = 0 THEN Append(queue, [reg |-> r, val |-> v])
                 ELSE [queue EXCEPT ![Slot(r)].val = v]

(* bluetti_ble_write_control, past its refusals: controls are on, the unit *)
(* is known to have them, and this one has been read back.                 *)
WriteControl(r, v) ==
  /\ controls
  /\ link = "ready"
  /\ device = "model"
  /\ r \in known
  /\ Slot(r) # 0 \/ Len(queue) < QueueSize
  /\ queue' = Enqueue(r, v)
  /\ newest' = [newest EXCEPT ![r] = v]
  /\ UNCHANGED <<radio, sweep, state, request, controls, job, pending_addr, air, tardy>>

Host == \/ Connected \/ OnSub \/ SessionReady \/ Disconnected
        \/ \E ok \in BOOLEAN, model \in {"generic", "model"} : Answer(ok, model)
        \/ Ack \/ Exception
Timer == PollDrop \/ PollTick \/ PickWrite \/ PickRead \/ PickNothing
         \/ Send \/ SendFailed \/ Mark
Http == \/ \E on \in BOOLEAN : SetControls(on)
        \/ \E r \in Writeable, v \in Values : WriteControl(r, v)
Next == Host \/ Timer \/ Http \/ Lost \/ Expire

Spec == Init /\ [][Next]_vars

(* The poll timer keeps ticking while the link is up, time passes, and a   *)
(* request is answered or lost.                                            *)
Fairness ==
  /\ WF_vars(Timer)
  /\ WF_vars(Expire)
  /\ WF_vars(Lost)
FairSpec == Spec /\ Fairness

-----------------------------------------------------------------------------
(* One request at a time, correctly labelled: on a link where the unit has *)
(* answered within the timeout or not at all, no second request goes out   *)
(* before the first is answered or given up, so what comes back is decoded *)
(* under its own address - although an answer may overtake the in-flight   *)
(* mark, the link may drop at any step and the plan may change under the   *)
(* timer.  (The first answer that is later than that is decoded under the  *)
(* next request's address.)                                                *)
OneRequest ==
  ~tardy => /\ Len(air) <= 1
            /\ air # <<>> => Head(air).reg = pending_addr

(* The sweep is never declared done early: when sweep_done rises, every    *)
(* field of the plan then in force has been asked for since the plan was   *)
(* built, whatever rebuilt it and wherever in the sweep that happened.     *)
SweepAsked ==
  [][sweep_done' /\ ~sweep_done => Fields(plan') \subseteq asked']_vars

(* The write queue holds each register at most once, with the newest value *)
(* accepted for it, so it never needs more slots than there are controls   *)
(* and an old value is never sent after a newer one.                       *)
QueueHoldsNewest ==
  /\ \A j, k \in 1 .. Len(queue) : queue[j].reg = queue[k].reg => j = k
  /\ \A k \in 1 .. Len(queue) : queue[k].val = newest[queue[k].reg]

(* The refinement mapping: what waits is what write_queue holds, the write *)
(* taken up is the one between the pick and the send, and what was sent is *)
(* what the unit has yet to answer.                                        *)
Writes == INSTANCE ControlWrites WITH
  Controls <- Writeable,
  Registers <- Regs,
  MayRefuse <- SendFails,
  allowed <- controls,
  up <- (link = "ready"),
  sent <- air,
  waiting <- {queue[k] : k \in 1 .. Len(queue)},
  going <- IF job.write /\ job.pc = "send" THEN {[reg |-> job.reg, val |-> job.val]} ELSE {}

(* Writes are the ones of ControlWrites: the queue with its reused slots,  *)
(* picked from one task and filled and emptied from another, drops a write *)
(* that waits only for a newer value of its own control or when controls   *)
(* are switched off, and keeps it through lost links; the write picked is  *)
(* sent once, and is given up only if the session is gone by then or the   *)
(* stack refuses it.  (It is then not tried again, so this is weaker than  *)
(* CONFIGURING.md's "each one is actually sent".)                          *)
LatestWrites == Writes!WritesSpec

(* A session that has wedged does not hold the link: a link that stays up  *)
(* keeps answering, because PollFailLimit timeouts in a row drop it - or   *)
(* the stack keeps refusing to send, and then nothing is timed.            *)
AnswersOrDrops ==
  <>[](link = "ready") =>
    []<><<\/ Ack \/ SendFailed
         \/ \E ok \in BOOLEAN, m \in {"generic", "model"} : Answer(ok, m)>>_vars

-----------------------------------------------------------------------------
(* What the header says, and the code does not do.                         *)

(* bluetti_ble.h, of sweep_done: "Every field of the current polling plan  *)
(* has been read at least once since this link came up."  The code counts  *)
(* the fields it picks: a read that is refused by the stack, lost,         *)
(* answered with an exception or with a value that makes no sense counts   *)
(* as well.                                                                *)
SweepRead == [][sweep_done' /\ ~sweep_done => Fields(plan') \subseteq known']_vars
=============================================================================
