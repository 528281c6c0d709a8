---------------------------- MODULE BtPoll_proofs ----------------------------
(***************************************************************************)
(* Proofs about BtPoll, for every plan, set of controls and limit: the     *)
(* state is well typed, there is one request at a time, the write queue    *)
(* holds the newest values and implements ControlWrites, and the sweep is  *)
(* never declared done early.                                              *)
(* At the end, proofs about the other half of bluetti_ble.c, BleLink.      *)
(*                                                                         *)
(* The four groups of variables (the sweep, the write queue, the timer's   *)
(* job, the request under way) are disturbed by different actions, so each *)
(* part of the inductive invariant has a lemma of its own, which names the *)
(* actions that disturb it; a frame lemma says that the others do not.     *)
(***************************************************************************)
EXTENDS BtPoll, BleLink, SequenceTheorems, FiniteSetTheorems, TLAPS

(* The parts of TypeOK. *)
RadioOK ==
  /\ link \in {"down", "setup", "ready", "closing"}
  /\ device \in {"none", "generic", "model"}
SweepOK ==
  /\ plan \in Seq(Regs)
  /\ plan_i \in Nat /\ (plan # <<>> => plan_i < Len(plan))
  /\ sweep_reads \in 0 .. Len(plan)
  /\ asked \subseteq Regs
StateOK == sweep_done \in BOOLEAN /\ known \subseteq Regs
RequestOK ==
  /\ in_flight \in BOOLEAN /\ overdue \in BOOLEAN
  /\ poll_fails \in 0 .. PollFailLimit - 1
UserOK ==
  /\ controls \in BOOLEAN
  /\ queue \in Seq([reg : Writeable, val : Values])
  /\ newest \in [Writeable -> Values \cup {0}]
AirOK ==
  /\ pending_addr \in Regs \cup {NoReg}
  /\ air \in Seq(Request)
  /\ tardy \in BOOLEAN

(* A request on its way out has a register; before, there is none yet. *)
JobOK ==
  /\ job \in Job
  /\ job.pc \in {"send", "mark"} => job.reg \in Regs
  /\ job.pc = "pick" => ~job.write

(* The fields picked since the plan was built are the first sweep_reads of *)
(* it, in order, until all of them have been.                              *)
SweepInOrder ==
  /\ \A k \in 1 .. sweep_reads : plan[k] \in asked
  /\ sweep_reads < Len(plan) => plan_i = sweep_reads

(* Without a live session nothing is in the air.  On a link that has had   *)
(* no late answer there is at most one request, it is the one pending_addr *)
(* names, and it is about to be marked or is marked and not yet overdue:   *)
(* that keeps the next tick away.                                          *)
AirInHand ==
  /\ link \in {"down", "setup"} => air = <<>>
  /\ ~tardy /\ air # <<>> =>
       /\ Len(air) = 1
       /\ air[1].reg = pending_addr
       /\ job.pc = "mark" \/ (job.pc = "idle" /\ in_flight /\ ~overdue)

Typed == RadioOK /\ SweepOK /\ StateOK /\ RequestOK /\ UserOK /\ AirOK /\ JobOK
IInv == Typed /\ SweepInOrder /\ AirInHand /\ QueueHoldsNewest

-----------------------------------------------------------------------------
(* Plans, and the index that wraps round. *)

LEMMA RegsNotNone == NoReg \notin Regs
  BY PlanAssumption DEF NoReg

LEMMA CommonNotEmpty == Common # <<>>
  BY PlanAssumption DEF Fields

LEMMA FieldsOfPlan ==
  ASSUME NEW p \in Seq(Regs)
  PROVE  Fields(p) \subseteq Regs
  BY ElementOfSeq DEF Fields

LEMMA PlanTyped ==
  ASSUME NEW dev, NEW on
  PROVE  bt_regs_plan(dev, on) \in Seq(Regs) /\ bt_regs_plan(dev, on) # <<>>
<1>1. Common \in Seq(Regs) /\ Extra \in Seq(Regs) /\ ControlPlan \in Seq(Regs)
  BY PlanAssumption
<1>2. Common # <<>>
  BY CommonNotEmpty
<1> DEFINE last == IF on THEN ControlPlan ELSE <<>>
<1>3. last \in Seq(Regs)
  BY <1>1
<1>4. Common \o Extra \in Seq(Regs) /\ Common \o Extra # <<>>
  BY <1>1, <1>2, ConcatProperties, ConcatEqualIffEmpty
<1>5. (Common \o Extra) \o last \in Seq(Regs) /\ (Common \o Extra) \o last # <<>>
  <2> HIDE DEF last
  <2> QED
    BY <1>3, <1>4, ConcatProperties, ConcatEqualIffEmpty
<1> QED
  BY <1>1, <1>2, <1>5 DEF bt_regs_plan

LEMMA Wraps ==
  ASSUME NEW n \in Nat \ {0}, NEW i \in 0 .. n - 1
  PROVE  (i + 1) % n = IF i + 1 = n THEN 0 ELSE i + 1
<1>1. CASE i + 1 = n
  BY <1>1, Z3
<1>2. CASE i + 1 < n
  BY <1>2, Z3
<1> QED
  BY <1>1, <1>2

LEMMA TailOfOne ==
  ASSUME NEW S, NEW q \in Seq(S), Len(q) = 1
  PROVE  Tail(q) = <<>>
<1> DEFINE t == Tail(q)
<1>1. q # <<>>
  OBVIOUS
<1>2. t \in Seq(S) /\ Len(t) = 0
  BY <1>1, HeadTailProperties
<1> HIDE DEF t
<1>3. t # <<>> => Len(t) \in Nat \ {0}
  BY <1>2, EmptySeq
<1>4. t = <<>>
  BY <1>2, <1>3
<1> QED
  BY <1>4 DEF t

(* A plan that has just been built. *)
LEMMA RebuildInv ==
  ASSUME NEW p \in Seq(Regs), Rebuild(p)
  PROVE  SweepOK' /\ SweepInOrder'
<1>1. plan' = p /\ plan_i' = 0 /\ sweep_reads' = 0 /\ asked' = {}
  BY DEF Rebuild
<1>2. Len(p) \in Nat /\ (p # <<>> => Len(p) > 0)
  BY EmptySeq
<1> QED
  BY <1>1, <1>2 DEF SweepOK, SweepInOrder

-----------------------------------------------------------------------------
LEMMA InitInv == Init => IInv
<1> SUFFICES ASSUME Init PROVE IInv
  OBVIOUS
<1>1. RadioOK /\ StateOK
  BY DEF Init, RadioOK, StateOK
<1>2. SweepOK /\ SweepInOrder
  BY DEF Init, SweepOK, SweepInOrder
<1>3. RequestOK
  <2>1. in_flight \in BOOLEAN /\ overdue \in BOOLEAN
    BY Zenon DEF Init
  <2>2. poll_fails \in 0 .. PollFailLimit - 1
    BY LimitAssumption DEF Init
  <2> QED
    BY <2>1, <2>2, Zenon DEF RequestOK
<1>4. UserOK /\ QueueHoldsNewest
  BY DEF Init, UserOK, QueueHoldsNewest
<1>5. AirOK
  <2>1. tardy \in BOOLEAN
    BY Zenon DEF Init
  <2>2. pending_addr = NoReg /\ air \in Seq(Request)
    BY EmptySeq DEF Init
  <2> QED
    BY <2>1, <2>2, Zenon DEF AirOK
<1>6. JobOK
  BY DEF Init, JobOK, Job, NoJob
<1>7. AirInHand
  BY DEF Init, AirInHand
<1> QED
  BY <1>1, <1>2, <1>3, <1>4, <1>5, <1>6, <1>7 DEF IInv, Typed

(* What each action leaves alone. *)
LEMMA RadioFrame ==
  [Next]_vars =>
    \/ UNCHANGED radio
    \/ Connected \/ SessionReady \/ Disconnected \/ PollDrop
    \/ \E ok \in BOOLEAN, m \in {"generic", "model"} : Answer(ok, m)
  BY DEF Next, vars, Host, Timer, Http, OnSub, Ack, Exception, Lost, Expire, PollTick,
         PickWrite, PickRead, PickNothing, Send, SendFailed, Mark, SetControls,
         WriteControl, radio

LEMMA SweepFrame ==
  [Next]_vars =>
    \/ UNCHANGED sweep
    \/ Connected \/ OnSub \/ PickRead \/ \E on \in BOOLEAN : SetControls(on)
    \/ \E ok \in BOOLEAN, m \in {"generic", "model"} : Answer(ok, m)
  BY DEF Next, vars, Host, Timer, Http, SessionReady, Disconnected, Ack, Exception, Lost,
         Expire, PollDrop, PollTick, PickWrite, PickNothing, Send, SendFailed, Mark,
         WriteControl, sweep

LEMMA StateFrame ==
  [Next]_vars =>
    \/ UNCHANGED state
    \/ Connected
    \/ \E ok \in BOOLEAN, m \in {"generic", "model"} : Answer(ok, m)
  BY DEF Next, vars, Host, Timer, Http, OnSub, SessionReady, Disconnected, Ack, Exception,
         Lost, Expire, PollDrop, PollTick, PickWrite, PickRead, PickNothing, Send,
         SendFailed, Mark, SetControls, WriteControl, state

LEMMA RequestFrame ==
  [Next]_vars =>
    \/ UNCHANGED request
    \/ Connected \/ OnSub \/ Ack \/ Expire \/ PollDrop \/ PollTick \/ Mark
    \/ \E ok \in BOOLEAN, m \in {"generic", "model"} : Answer(ok, m)
  BY DEF Next, vars, Host, Timer, Http, SessionReady, Disconnected, Exception, Lost,
         PickWrite, PickRead, PickNothing, Send, SendFailed, SetControls, WriteControl,
         request

LEMMA UserFrame ==
  [Next]_vars =>
    \/ UNCHANGED user
    \/ PickWrite
    \/ \E on \in BOOLEAN : SetControls(on)
    \/ \E r \in Writeable, v \in Values : WriteControl(r, v)
  BY DEF Next, vars, Host, Timer, Http, Connected, OnSub, SessionReady, Disconnected,
         Answer, Ack, Exception, Lost, Expire, PollDrop, PollTick, PickRead, PickNothing,
         Send, SendFailed, Mark, user

LEMMA JobFrame ==
  [Next]_vars =>
    \/ UNCHANGED job
    \/ PollTick \/ PickWrite \/ PickRead \/ PickNothing \/ Send \/ SendFailed \/ Mark
  BY DEF Next, vars, Host, Timer, Http, Connected, OnSub, SessionReady, Disconnected,
         Answer, Ack, Exception, Lost, Expire, PollDrop, SetControls, WriteControl

LEMMA AirFrame ==
  [Next]_vars =>
    \/ UNCHANGED <<pending_addr, air, tardy>>
    \/ Disconnected \/ Ack \/ Exception \/ Lost \/ Expire \/ Send \/ SendFailed
    \/ \E ok \in BOOLEAN, m \in {"generic", "model"} : Answer(ok, m)
  BY DEF Next, vars, Host, Timer, Http, Connected, OnSub, SessionReady, PollDrop, PollTick,
         PickWrite, PickRead, PickNothing, Mark, SetControls, WriteControl

-----------------------------------------------------------------------------
(* The inductive step, one part of the invariant at a time. *)

LEMMA RadioStep == Typed /\ [Next]_vars => RadioOK'
<1> SUFFICES ASSUME Typed, [Next]_vars PROVE RadioOK'
  OBVIOUS
<1>1. CASE UNCHANGED radio
  BY <1>1 DEF Typed, RadioOK, radio
<1>2. CASE Connected \/ SessionReady \/ Disconnected \/ PollDrop
  BY <1>2 DEF Typed, RadioOK, Connected, SessionReady, Disconnected, PollDrop
<1>3. ASSUME NEW ok \in BOOLEAN, NEW m \in {"generic", "model"}, Answer(ok, m)
      PROVE  RadioOK'
  BY <1>3, Zenon DEF Typed, RadioOK, Answer
<1> QED
  BY <1>1, <1>2, <1>3, RadioFrame

LEMMA SweepStep == Typed /\ SweepInOrder /\ [Next]_vars => SweepOK' /\ SweepInOrder'
<1> SUFFICES ASSUME Typed, SweepInOrder, [Next]_vars PROVE SweepOK' /\ SweepInOrder'
  OBVIOUS
<1>0. ASSUME UNCHANGED sweep PROVE SweepOK' /\ SweepInOrder'
  BY <1>0 DEF Typed, SweepOK, SweepInOrder, sweep
<1>1. CASE Connected
  BY <1>1, RebuildInv, EmptySeq DEF Connected
<1>2. CASE OnSub
  BY <1>2, RebuildInv, PlanTyped DEF OnSub
<1>3. CASE PickRead
  <2>0. /\ plan \in Seq(Regs) /\ plan_i \in Nat /\ plan_i < Len(plan)
        /\ sweep_reads \in 0 .. Len(plan) /\ asked \subseteq Regs
        /\ \A k \in 1 .. sweep_reads : plan[k] \in asked
        /\ sweep_reads < Len(plan) => plan_i = sweep_reads
    BY <1>3 DEF PickRead, Typed, SweepOK, SweepInOrder
  <2>1. Len(plan) \in Nat \ {0} /\ plan[plan_i + 1] \in Regs
    BY <2>0, ElementOfSeq
  <2>2. /\ plan' = plan
        /\ plan_i' = (plan_i + 1) % Len(plan)
        /\ sweep_reads' = IF sweep_reads < Len(plan) THEN sweep_reads + 1 ELSE sweep_reads
        /\ asked' = asked \cup {plan[plan_i + 1]}
    BY <1>3 DEF PickRead
  <2>3. plan_i' = IF plan_i + 1 = Len(plan) THEN 0 ELSE plan_i + 1
    BY <2>0, <2>1, <2>2, Wraps
  <2>4. SweepOK'
    BY <2>0, <2>1, <2>2, <2>3 DEF SweepOK
  <2>5. \A k \in 1 .. sweep_reads' : plan'[k] \in asked'
    BY <2>0, <2>1, <2>2
  <2>6. sweep_reads' < Len(plan') => plan_i' = sweep_reads'
    BY <2>0, <2>1, <2>2, <2>3
  <2> QED
    BY <2>4, <2>5, <2>6 DEF SweepInOrder
<1>4. ASSUME NEW on \in BOOLEAN, SetControls(on) PROVE SweepOK' /\ SweepInOrder'
  <2>1. CASE device # "none"
    BY <1>4, <2>1, RebuildInv, PlanTyped DEF SetControls
  <2>2. CASE device = "none"
    BY <1>0, <1>4, <2>2 DEF SetControls
  <2> QED
    BY <2>1, <2>2
<1>5. ASSUME NEW ok \in BOOLEAN, NEW m \in {"generic", "model"}, Answer(ok, m)
      PROVE  SweepOK' /\ SweepInOrder'
  <2>1. Rebuild(bt_regs_plan(device', controls)) \/ UNCHANGED sweep
    BY <1>5 DEF Answer
  <2> QED
    BY <1>0, <2>1, RebuildInv, PlanTyped
<1> QED
  BY <1>0, <1>1, <1>2, <1>3, <1>4, <1>5, SweepFrame

LEMMA StateStep == Typed /\ [Next]_vars => StateOK'
<1> SUFFICES ASSUME Typed, [Next]_vars PROVE StateOK'
  OBVIOUS
<1>1. CASE UNCHANGED state
  BY <1>1 DEF Typed, StateOK, state
<1>2. CASE Connected
  BY <1>2, Zenon DEF StateOK, Connected
<1>3. ASSUME NEW ok \in BOOLEAN, NEW m \in {"generic", "model"}, Answer(ok, m)
      PROVE  StateOK'
  <2>1. known \subseteq Regs
    BY DEF Typed, StateOK
  <2>2. Fields(bt_regs_plan(device, TRUE)) \subseteq Regs
    BY PlanTyped, FieldsOfPlan
  <2>3. known' \subseteq Regs
    BY <1>3, <2>1, <2>2, Zenon DEF Answer
  <2>4. sweep_done' \in BOOLEAN
    BY <1>3, Zenon DEF Answer
  <2> QED
    BY <2>3, <2>4 DEF StateOK
<1> QED
  BY <1>1, <1>2, <1>3, StateFrame

LEMMA RequestStep == Typed /\ [Next]_vars => RequestOK'
<1> SUFFICES ASSUME Typed, [Next]_vars PROVE RequestOK'
  OBVIOUS
<1>0. /\ in_flight \in BOOLEAN /\ overdue \in BOOLEAN
      /\ poll_fails \in 0 .. PollFailLimit - 1 /\ PollFailLimit \in Nat \ {0}
  BY LimitAssumption DEF Typed, RequestOK
<1>1. ASSUME poll_fails' = 0 PROVE poll_fails' \in 0 .. PollFailLimit - 1
  BY <1>0, <1>1
<1>2. CASE UNCHANGED request
  BY <1>0, <1>2 DEF RequestOK, request
<1>3. CASE Connected \/ OnSub \/ Ack \/ PollDrop
  <2>1. in_flight' = FALSE /\ overdue' = overdue /\ poll_fails' = 0
    BY <1>3, Zenon DEF Connected, OnSub, Ack, PollDrop
  <2> QED
    BY <1>0, <1>1, <2>1, Zenon DEF RequestOK
<1>4. CASE Expire \/ Mark
  BY <1>0, <1>4, Zenon DEF RequestOK, Expire, Mark
<1>5. CASE PollTick
  <2>1. in_flight' = FALSE /\ overdue' = overdue /\ poll_fails' = Fails
    BY <1>5, Zenon DEF PollTick
  <2>2. Fails \in 0 .. PollFailLimit - 1
    BY <1>0, <1>5 DEF PollTick, Fails
  <2> QED
    BY <1>0, <2>1, <2>2, Zenon DEF RequestOK
<1>6. ASSUME NEW ok \in BOOLEAN, NEW m \in {"generic", "model"}, Answer(ok, m)
      PROVE  RequestOK'
  <2>1. in_flight' = FALSE /\ overdue' = overdue /\ poll_fails' = 0
    BY <1>6, Zenon DEF Answer
  <2> QED
    BY <1>0, <1>1, <2>1, Zenon DEF RequestOK
<1> QED
  BY <1>2, <1>3, <1>4, <1>5, <1>6, RequestFrame

LEMMA JobStep == Typed /\ [Next]_vars => JobOK'
<1> SUFFICES ASSUME Typed, [Next]_vars PROVE JobOK'
  OBVIOUS
<1>0. JobOK /\ job \in Job /\ (job.pc \in {"send", "mark"} => job.reg \in Regs)
  BY DEF Typed, JobOK
<1>n. ASSUME job' = NoJob PROVE JobOK'
  BY <1>n DEF JobOK, Job, NoJob
<1>1. CASE UNCHANGED job
  BY <1>0, <1>1 DEF JobOK
<1>2. CASE PollTick
  BY <1>2 DEF PollTick, JobOK, Job, NoJob
<1>3. CASE PickWrite
  <2>1. Head(queue) \in [reg : Writeable, val : Values]
    BY <1>3, HeadTailProperties DEF PickWrite, Typed, UserOK
  <2>2. Writeable \subseteq Regs
    BY PlanAssumption DEF Regs
  <2> QED
    BY <1>3, <2>1, <2>2 DEF PickWrite, JobOK, Job
<1>4. CASE PickRead
  <2>1. plan[plan_i + 1] \in Regs
    BY <1>4, ElementOfSeq DEF PickRead, Typed, SweepOK
  <2> QED
    BY <1>0, <1>4, <2>1 DEF PickRead, JobOK, Job
<1>5. CASE PickNothing \/ SendFailed \/ Mark
  BY <1>n, <1>5 DEF PickNothing, SendFailed, Mark
<1>6. CASE Send
  BY <1>0, <1>6 DEF Send, JobOK, Job
<1> QED
  BY <1>1, <1>2, <1>3, <1>4, <1>5, <1>6, JobFrame

LEMMA AirStep == Typed /\ [Next]_vars => AirOK'
<1> SUFFICES ASSUME Typed, [Next]_vars PROVE AirOK'
  OBVIOUS
<1>0. /\ pending_addr \in Regs \cup {NoReg} /\ air \in Seq(Request) /\ tardy \in BOOLEAN
      /\ job \in Job /\ (job.pc = "send" => job.reg \in Regs)
  BY DEF Typed, AirOK, JobOK
<1>1. CASE UNCHANGED <<pending_addr, air, tardy>>
  BY <1>0, <1>1 DEF AirOK
<1>2. CASE Disconnected
  <2>1. air' \in Seq(Request) /\ tardy' = FALSE /\ pending_addr' = pending_addr
    BY <1>2, EmptySeq DEF Disconnected
  <2> QED
    BY <1>0, <2>1, Zenon DEF AirOK
<1>3. ASSUME air # <<>>, air' = Tail(air), UNCHANGED <<pending_addr, tardy>>
      PROVE  AirOK'
  BY <1>0, <1>3, HeadTailProperties DEF AirOK
<1>4. CASE Ack \/ Exception \/ Lost
  BY <1>3, <1>4 DEF Ack, Exception, Lost
<1>5. CASE Expire
  BY <1>0, <1>5, Zenon DEF Expire, AirOK
<1>6. CASE Send
  <2>1. [write |-> job.write, reg |-> job.reg] \in Request
    BY <1>0, <1>6 DEF Send, Request, Job
  <2>2. air' \in Seq(Request) /\ pending_addr' \in Regs /\ tardy' = tardy
    BY <1>0, <1>6, <2>1, AppendProperties DEF Send
  <2> QED
    BY <1>0, <2>2 DEF AirOK
<1>7. CASE SendFailed
  BY <1>0, <1>7 DEF SendFailed, AirOK
<1>8. ASSUME NEW ok \in BOOLEAN, NEW m \in {"generic", "model"}, Answer(ok, m)
      PROVE  AirOK'
  BY <1>3, <1>8 DEF Answer
<1> QED
  BY <1>1, <1>2, <1>4, <1>5, <1>6, <1>7, <1>8, AirFrame

(* The queue.  A register has at most one slot, which Slot finds. *)
LEMMA SlotFinds ==
  ASSUME UserOK, NEW r
  PROVE  /\ Slot(r) = 0 => \A k \in 1 .. Len(queue) : queue[k].reg # r
         /\ Slot(r) # 0 => Slot(r) \in 1 .. Len(queue) /\ queue[Slot(r)].reg = r
<1>1. CASE \E k \in 1 .. Len(queue) : queue[k].reg = r
  <2>1. Slot(r) \in 1 .. Len(queue) /\ queue[Slot(r)].reg = r
    BY <1>1 DEF Slot
  <2>2. Slot(r) # 0
    BY <2>1
  <2> QED
    BY <2>1, <2>2
<1>2. CASE ~ \E k \in 1 .. Len(queue) : queue[k].reg = r
  BY <1>2 DEF Slot
<1> QED
  BY <1>1, <1>2

LEMMA EnqueueInv ==
  ASSUME UserOK, QueueHoldsNewest, NEW r \in Writeable, NEW v \in Values,
         queue' = Enqueue(r, v), newest' = [newest EXCEPT ![r] = v], controls' = controls
  PROVE  UserOK' /\ QueueHoldsNewest'
<1> DEFINE Entry == [reg : Writeable, val : Values]
<1>0. queue \in Seq(Entry) /\ newest \in [Writeable -> Values \cup {0}] /\ controls \in BOOLEAN
  BY DEF UserOK
<1>1. /\ \A j, k \in 1 .. Len(queue) : queue[j].reg = queue[k].reg => j = k
      /\ \A k \in 1 .. Len(queue) : queue[k].val = newest[queue[k].reg]
  BY DEF QueueHoldsNewest
<1>2. \A k \in 1 .. Len(queue) : queue[k] \in Entry
  BY <1>0, ElementOfSeq
<1>3. newest' \in [Writeable -> Values \cup {0}]
  BY <1>0
<1>4. CASE Slot(r) = 0
  <2> DEFINE e == [reg |-> r, val |-> v]
  <2>1. e \in Entry /\ queue' = Append(queue, e)
    BY <1>4 DEF Enqueue
  <2>2. /\ queue' \in Seq(Entry) /\ Len(queue') = Len(queue) + 1
        /\ \A k \in 1 .. Len(queue) : queue'[k] = queue[k]
        /\ queue'[Len(queue) + 1] = e
    BY <1>0, <2>1, AppendProperties
  <2>3. \A k \in 1 .. Len(queue) : queue[k].reg # r
    BY <1>4, SlotFinds
  <2>4. \A k \in 1 .. Len(queue') : k = Len(queue) + 1 \/ k \in 1 .. Len(queue)
    BY <1>0, <2>2
  <2>5. \A j, k \in 1 .. Len(queue') : queue'[j].reg = queue'[k].reg => j = k
    BY <1>1, <2>2, <2>3, <2>4
  <2>6. \A k \in 1 .. Len(queue') : queue'[k].val = newest'[queue'[k].reg]
    BY <1>0, <1>1, <1>2, <2>2, <2>3, <2>4
  <2> QED
    BY <1>0, <1>3, <2>2, <2>5, <2>6 DEF UserOK, QueueHoldsNewest
<1>5. CASE Slot(r) # 0
  <2> DEFINE n == Slot(r)
             e == [queue[n] EXCEPT !.val = v]
  <2>1. n \in 1 .. Len(queue) /\ queue[n].reg = r
    BY <1>5, SlotFinds
  <2>2. e \in Entry /\ e.reg = r /\ e.val = v
    BY <1>2, <2>1
  <2>3. queue' = [queue EXCEPT ![n] = e]
    BY <1>5 DEF Enqueue
  <2> HIDE DEF n, e
  <2>4. /\ queue' \in Seq(Entry) /\ Len(queue') = Len(queue)
        /\ \A k \in 1 .. Len(queue) : queue'[k] = IF k = n THEN e ELSE queue[k]
    BY <1>0, <2>1, <2>2, <2>3, ExceptSeq
  <2>5. \A k \in 1 .. Len(queue) : queue'[k].reg = queue[k].reg
    BY <2>1, <2>2, <2>4
  <2>6. \A j, k \in 1 .. Len(queue') : queue'[j].reg = queue'[k].reg => j = k
    BY <1>1, <2>4, <2>5
  <2>7. \A k \in 1 .. Len(queue') : queue'[k].val = newest'[queue'[k].reg]
    BY <1>0, <1>1, <1>2, <2>1, <2>2, <2>4
  <2> QED
    BY <1>0, <1>3, <2>4, <2>6, <2>7 DEF UserOK, QueueHoldsNewest
<1> QED
  BY <1>4, <1>5

LEMMA UserStep == Typed /\ QueueHoldsNewest /\ [Next]_vars => UserOK' /\ QueueHoldsNewest'
<1> SUFFICES ASSUME Typed, QueueHoldsNewest, [Next]_vars PROVE UserOK' /\ QueueHoldsNewest'
  OBVIOUS
<1>0. UserOK
  BY DEF Typed
<1>1. CASE UNCHANGED user
  BY <1>0, <1>1 DEF UserOK, QueueHoldsNewest, user
<1>2. CASE PickWrite
  <2>1. /\ queue' \in Seq([reg : Writeable, val : Values])
        /\ Len(queue') = Len(queue) - 1
        /\ \A k \in 1 .. Len(queue') : queue'[k] = queue[k + 1]
    BY <1>0, <1>2, HeadTailProperties DEF UserOK, PickWrite
  <2>2. UserOK'
    BY <1>0, <1>2, <2>1 DEF UserOK, PickWrite
  <2>3. QueueHoldsNewest'
    BY <1>0, <1>2, <2>1 DEF UserOK, QueueHoldsNewest, PickWrite
  <2> QED
    BY <2>2, <2>3
<1>3. ASSUME NEW on \in BOOLEAN, SetControls(on) PROVE UserOK' /\ QueueHoldsNewest'
  <2>1. controls' \in BOOLEAN /\ newest' = newest /\ (queue' = queue \/ queue' = <<>>)
    BY <1>3, Zenon DEF SetControls
  <2>2. QueueHoldsNewest'
    BY <2>1 DEF QueueHoldsNewest
  <2>3. queue' \in Seq([reg : Writeable, val : Values])
    BY <1>0, <2>1, EmptySeq DEF UserOK
  <2> QED
    BY <1>0, <2>1, <2>2, <2>3 DEF UserOK
<1>4. ASSUME NEW r \in Writeable, NEW v \in Values, WriteControl(r, v)
      PROVE  UserOK' /\ QueueHoldsNewest'
  BY <1>0, <1>4, EnqueueInv DEF WriteControl
<1> QED
  BY <1>1, <1>2, <1>3, <1>4, UserFrame

(* The request under way. *)
LEMMA AirInHandStep == Typed /\ AirInHand /\ [Next]_vars => AirInHand'
<1> SUFFICES ASSUME Typed, AirInHand, [Next]_vars PROVE AirInHand'
  OBVIOUS
<1>0. /\ air \in Seq(Request) /\ tardy \in BOOLEAN /\ in_flight \in BOOLEAN
      /\ overdue \in BOOLEAN /\ job \in Job
  BY DEF Typed, AirOK, RequestOK, JobOK
<1>1. /\ link \in {"down", "setup"} => air = <<>>
      /\ ~tardy /\ air # <<>> =>
           /\ Len(air) = 1 /\ air[1].reg = pending_addr
           /\ job.pc = "mark" \/ (job.pc = "idle" /\ in_flight /\ ~overdue)
  BY DEF AirInHand
<1>e. ASSUME air' = <<>> PROVE AirInHand'
  BY <1>e DEF AirInHand
<1>t. ASSUME air # <<>>, air' = Tail(air), tardy' = tardy, link' = link PROVE AirInHand'
  <2>1. Len(air) = 1 => Tail(air) = <<>>
    BY <1>0, TailOfOne
  <2> QED
    BY <1>1, <1>t, <1>e, <2>1 DEF AirInHand
<1>2. CASE Connected \/ OnSub \/ Disconnected
  <2>1. air' = <<>>
    BY <1>1, <1>2 DEF Connected, OnSub, Disconnected
  <2> QED
    BY <1>e, <2>1
<1>3. ASSUME NEW ok \in BOOLEAN, NEW m \in {"generic", "model"}, Answer(ok, m)
      PROVE  AirInHand'
  BY <1>3, <1>t DEF Answer
<1>4. CASE Ack \/ Exception \/ Lost
  BY <1>4, <1>t DEF Ack, Exception, Lost, radio
<1>5. CASE SessionReady
  <2>1. air' = <<>>
    BY <1>1, <1>5 DEF SessionReady
  <2> QED
    BY <1>e, <2>1
<1>6. CASE Expire
  <2>1. air # <<>> => tardy'
    BY <1>6, Zenon DEF Expire
  <2>2. air' = air /\ link' = link
    BY <1>6 DEF Expire, radio
  <2> QED
    BY <1>1, <1>e, <2>1, <2>2 DEF AirInHand
<1>7. CASE PollDrop \/ PollTick
  <2>1. job.pc = "idle" /\ (in_flight => overdue) /\ link = "ready"
    BY <1>7 DEF PollDrop, PollTick, Pollable
  <2>2. air' = air /\ tardy' = tardy /\ link' \in {"ready", "closing"}
    BY <1>7, <2>1 DEF PollDrop, PollTick, radio
  <2>3. ~tardy => air = <<>>
    BY <1>1, <2>1
  <2> QED
    BY <2>2, <2>3 DEF AirInHand
<1>8. CASE PickWrite \/ PickRead \/ PickNothing \/ SendFailed
  <2>1. job.pc \in {"pick", "send"}
    BY <1>8 DEF PickWrite, PickRead, PickNothing, SendFailed
  <2>2. air' = air /\ tardy' = tardy /\ link' = link
    BY <1>8 DEF PickWrite, PickRead, PickNothing, SendFailed, radio
  <2>3. ~tardy => air = <<>>
    BY <1>1, <2>1
  <2> QED
    BY <1>1, <2>2, <2>3 DEF AirInHand
<1>9. CASE Send
  <2>1. job.pc = "send" /\ link = "ready" /\ link' = link /\ tardy' = tardy
    BY <1>9 DEF Send, radio
  <2>2. ~tardy => air = <<>>
    BY <1>1, <2>1
  <2>3. air = <<>> => Len(air') = 1 /\ air'[1].reg = pending_addr'
    BY <1>0, <1>9 DEF Send
  <2>4. job'.pc = "mark"
    BY <1>0, <1>9 DEF Send, Job
  <2> QED
    BY <2>1, <2>2, <2>3, <2>4 DEF AirInHand
<1>10. CASE Mark
  <2>1. job' = NoJob /\ in_flight' /\ ~overdue'
    BY <1>10, Zenon DEF Mark
  <2>2. air' = air /\ tardy' = tardy /\ link' = link /\ pending_addr' = pending_addr
    BY <1>10 DEF Mark, radio
  <2> QED
    BY <1>1, <2>1, <2>2 DEF AirInHand, NoJob
<1>11. ASSUME UNCHANGED <<link, air, tardy, pending_addr, job, in_flight, overdue>>
       PROVE  AirInHand'
  BY <1>1, <1>11 DEF AirInHand
<1>12. CASE \E on \in BOOLEAN : SetControls(on)
  BY <1>11, <1>12 DEF SetControls, radio, request
<1>13. CASE \E r \in Writeable, v \in Values : WriteControl(r, v)
  BY <1>11, <1>13 DEF WriteControl, radio, request
<1>14. CASE UNCHANGED vars
  BY <1>11, <1>14 DEF vars, radio, request
<1> QED
  BY <1>2, <1>3, <1>4, <1>5, <1>6, <1>7, <1>8, <1>9, <1>10, <1>12, <1>13, <1>14
     DEF Next, Host, Timer, Http

LEMMA NextInv == IInv /\ [Next]_vars => IInv'
  BY RadioStep, SweepStep, StateStep, RequestStep, JobStep, AirStep, UserStep,
     AirInHandStep, Zenon DEF IInv, Typed

LEMMA Invariant == Spec => []IInv
  BY InitInv, NextInv, PTL DEF Spec

-----------------------------------------------------------------------------
(* The struct b and the timer callback's locals keep their types through   *)
(* every interleaving of the three tasks: no index beyond the plan, no     *)
(* count beyond its limit, no request without a register.                  *)
THEOREM PollTyped == Spec => []TypeOK
<1>1. IInv => TypeOK
  BY Zenon DEF IInv, Typed, TypeOK, RadioOK, SweepOK, StateOK, RequestOK, UserOK, AirOK, JobOK
<1> QED
  BY <1>1, Invariant, PTL

(* On a link without a late answer there is at most one request, and its   *)
(* answer is decoded under its own address (poll_timer_cb,                 *)
(* bt_session_read_regs, session_regs).                                    *)
THEOREM RequestsOneByOne == Spec => []OneRequest
<1>1. IInv => OneRequest
  <2> SUFFICES ASSUME IInv, ~tardy
               PROVE  Len(air) <= 1 /\ (air # <<>> => Head(air).reg = pending_addr)
    BY DEF OneRequest
  <2>1. air \in Seq(Request)
    BY DEF IInv, Typed, AirOK
  <2>2. air # <<>> => Len(air) = 1 /\ air[1].reg = pending_addr
    BY DEF IInv, AirInHand
  <2> QED
    BY <2>1, <2>2
<1> QED
  BY <1>1, Invariant, PTL

(* The write queue holds each control once, with the newest value accepted *)
(* for it (bluetti_ble_write_control).                                     *)
THEOREM QueueIsNewest == Spec => []QueueHoldsNewest
<1>1. IInv => QueueHoldsNewest
  BY DEF IInv
<1> QED
  BY <1>1, Invariant, PTL

LEMMA FieldsFinite ==
  ASSUME NEW p \in Seq(Regs)
  PROVE  IsFiniteSet(Fields(p))
<1>1. p \in Surjection(1 .. Len(p), Fields(p))
  BY DEF Fields, Surjection
<1>2. IsFiniteSet(1 .. Len(p))
  BY FS_Interval
<1> QED
  BY <1>1, <1>2, FS_Surjection

(* No write to a control is refused for want of a slot: the test for a     *)
(* full write_queue in bluetti_ble_write_control never succeeds, because a *)
(* queue without the register has a slot to spare for it.                  *)
THEOREM SlotToSpare ==
  Spec => [](\A r \in Writeable : Slot(r) # 0 \/ Len(queue) < QueueSize)
<1>1. IInv => \A r \in Writeable : Slot(r) # 0 \/ Len(queue) < QueueSize
  <2> SUFFICES ASSUME IInv, NEW r \in Writeable, Slot(r) = 0
               PROVE  Len(queue) < QueueSize
    OBVIOUS
  <2> DEFINE Others == Writeable \ {r}
             Places == 1 .. Len(queue)
             f == [k \in Places |-> queue[k].reg]
  <2>1. UserOK /\ QueueHoldsNewest
    BY DEF IInv, Typed
  <2>2. queue \in Seq([reg : Writeable, val : Values]) /\ Len(queue) \in Nat
    BY <2>1 DEF UserOK
  <2>3. \A k \in Places : queue[k].reg \in Writeable /\ queue[k].reg # r
    <3>1. \A k \in Places : queue[k] \in [reg : Writeable, val : Values]
      BY <2>2, ElementOfSeq
    <3>2. \A k \in Places : queue[k].reg # r
      BY <2>1, SlotFinds
    <3> QED
      BY <3>1, <3>2
  <2>4. f \in Injection(Places, Others)
    BY <2>1, <2>3 DEF Injection, IsInjective, QueueHoldsNewest
  <2>5. IsFiniteSet(Writeable)
    <3>1. IsFiniteSet(Fields(Extra)) /\ IsFiniteSet(Fields(ControlPlan))
      BY PlanAssumption, FieldsFinite
    <3>2. IsFiniteSet(Fields(Extra) \cup Fields(ControlPlan))
      BY <3>1, FS_Union
    <3> QED
      BY <3>2, PlanAssumption, FS_Subset
  <2>6. /\ IsFiniteSet(Others)
        /\ Cardinality(Others) = Cardinality(Writeable) - 1
        /\ Cardinality(Writeable) \in Nat
    <3>1. IsFiniteSet(Others) /\ Cardinality(Others) = Cardinality(Writeable) - 1
      BY <2>5, FS_RemoveElement
    <3> QED
      BY <2>5, <3>1, FS_CardinalityType, Zenon
  <2>7. Cardinality(Places) = Len(queue)
    <3> HIDE DEF f, Others
    <3> DEFINE n == Len(queue)
    <3>1. n \in Int /\ 1 \in Int /\ Cardinality(1 .. n) = IF 1 > n THEN 0 ELSE n - 1 + 1
      BY <2>2, FS_Interval
    <3> QED
      BY <2>2, <3>1
  <2>8. Cardinality(Places) <= Cardinality(Others)
    <3> HIDE DEF f, Places, Others
    <3> QED
      BY <2>4, <2>6, FS_Injection
  <2> QED
    BY <2>2, <2>6, <2>7, <2>8, LimitAssumption
<1> QED
  BY <1>1, Invariant, PTL

(* sweep_done rises only when every field of the plan then in force has    *)
(* been asked for since it was built (session_regs).                       *)
THEOREM SweepsAreWhole == Spec => SweepAsked
<1>1. IInv /\ IInv' /\ [Next]_vars =>
        [sweep_done' /\ ~sweep_done => Fields(plan') \subseteq asked']_vars
  <2> SUFFICES ASSUME IInv, IInv', [Next]_vars, sweep_done', ~sweep_done
               PROVE  Fields(plan') \subseteq asked'
    OBVIOUS
  <2>1. sweep_done' = sweep_done
        \/ \E ok \in BOOLEAN, m \in {"generic", "model"} : Answer(ok, m)
    BY StateFrame, Zenon DEF state, Connected
  <2>2. PICK ok \in BOOLEAN, m \in {"generic", "model"} : Answer(ok, m)
    BY <2>1
  <2>3. sweep_reads' >= Len(plan')
    BY <2>2, Zenon DEF Answer
  <2>4. plan' \in Seq(Regs) /\ sweep_reads' \in 0 .. Len(plan')
    BY DEF IInv, Typed, SweepOK
  <2>5. \A k \in 1 .. Len(plan') : plan'[k] \in asked'
    BY <2>3, <2>4 DEF IInv, SweepInOrder
  <2> QED
    BY <2>5 DEF Fields
<1> QED
  BY <1>1, Invariant, PTL DEF Spec, SweepAsked
-----------------------------------------------------------------------------
(* The write queue implements ControlWrites.  Slots come and go in order   *)
(* and are reused; as a set of writes the queue does what ControlWrites    *)
(* says, because no register has two slots.                                *)
Waiting == {queue[k] : k \in 1 .. Len(queue)}
Going == IF job.write /\ job.pc = "send" THEN {[reg |-> job.reg, val |-> job.val]} ELSE {}
OneSlotEach == \A j, k \in 1 .. Len(queue) : queue[j].reg = queue[k].reg => j = k

LEMMA AskEntries ==
  ASSUME UserOK, OneSlotEach, NEW r \in Writeable, NEW v \in Values, queue' = Enqueue(r, v)
  PROVE  Waiting' = {w \in Waiting : w.reg # r} \cup {[reg |-> r, val |-> v]}
<1> DEFINE Entry == [reg : Writeable, val : Values]
           e == [reg |-> r, val |-> v]
<1>0. queue \in Seq(Entry) /\ Len(queue) \in Nat
  BY LenProperties DEF UserOK
<1>1. \A k \in 1 .. Len(queue) : queue[k] \in Entry
  BY <1>0, ElementOfSeq
<1>2. CASE Slot(r) = 0
  <2>1. e \in Entry /\ queue' = Append(queue, e)
    BY <1>2 DEF Enqueue
  <2>2. /\ Len(queue') = Len(queue) + 1
        /\ \A k \in 1 .. Len(queue) : queue'[k] = queue[k]
        /\ queue'[Len(queue) + 1] = e
    BY <1>0, <2>1, AppendProperties
  <2>3. \A k \in 1 .. Len(queue) : queue[k].reg # r
    BY <1>2, SlotFinds
  <2> HIDE DEF e
  <2>4. Waiting' = Waiting \cup {e}
    BY <1>0, <2>2 DEF Waiting
  <2>5. {w \in Waiting : w.reg # r} = Waiting
    BY <2>3 DEF Waiting
  <2> QED
    BY <2>4, <2>5 DEF e
<1>3. CASE Slot(r) # 0
  <2> DEFINE n == Slot(r)
             f == [queue[n] EXCEPT !.val = v]
  <2>1. n \in 1 .. Len(queue) /\ queue[n].reg = r
    BY <1>3, SlotFinds
  <2>2. f \in Entry /\ f = e
    BY <1>1, <2>1
  <2>3. queue' = [queue EXCEPT ![n] = f]
    BY <1>3 DEF Enqueue
  <2> HIDE DEF n, f
  <2>4. /\ Len(queue') = Len(queue)
        /\ \A k \in 1 .. Len(queue) : queue'[k] = IF k = n THEN e ELSE queue[k]
    BY <1>0, <2>1, <2>2, <2>3, ExceptSeq
  <2>5. \A k \in 1 .. Len(queue) : queue[k].reg # r <=> k # n
    BY <2>1 DEF OneSlotEach
  <2> HIDE DEF e
  <2>6. ASSUME NEW w PROVE w \in Waiting' <=> w = e \/ (w \in Waiting /\ w.reg # r)
    BY <2>1, <2>4, <2>5 DEF Waiting
  <2>7. Waiting' = {w \in Waiting : w.reg # r} \cup {e}
    BY <2>6
  <2> QED
    BY <2>7 DEF e
<1> QED
  BY <1>2, <1>3

LEMMA TakeEntries ==
  ASSUME UserOK, OneSlotEach, queue # <<>>, queue' = Tail(queue)
  PROVE  /\ Head(queue) \in Waiting /\ Head(queue) \in [reg : Writeable, val : Values]
         /\ Waiting' = Waiting \ {Head(queue)}
<1> DEFINE Entry == [reg : Writeable, val : Values]
<1>1. /\ queue \in Seq(Entry) /\ Len(queue) \in Nat \ {0} /\ Head(queue) = queue[1]
      /\ Len(queue') = Len(queue) - 1
      /\ \A k \in 1 .. Len(queue') : queue'[k] = queue[k + 1]
  BY HeadTailProperties, LenProperties, EmptySeq DEF UserOK
<1>2. 1 \in 1 .. Len(queue) /\ queue[1] \in Entry
  <2> HIDE DEF Entry
  <2>1. 1 \in 1 .. Len(queue)
    BY <1>1
  <2> QED
    BY <1>1, <2>1, ElementOfSeq
<1>3. \A k \in 1 .. Len(queue) : k # 1 <=> queue[k] # queue[1]
  <2> SUFFICES ASSUME NEW k \in 1 .. Len(queue)
               PROVE  k # 1 <=> queue[k] # queue[1]
    OBVIOUS
  <2>1. queue[k].reg = queue[1].reg => k = 1
    BY <1>2 DEF OneSlotEach
  <2> QED
    BY <2>1
<1>4. \A k \in 1 .. Len(queue) : k # 1 => k - 1 \in 1 .. Len(queue') /\ queue'[k - 1] = queue[k]
  <2> SUFFICES ASSUME NEW k \in 1 .. Len(queue), k # 1
               PROVE  k - 1 \in 1 .. Len(queue') /\ queue'[k - 1] = queue[k]
    OBVIOUS
  <2>1. k - 1 \in 1 .. Len(queue') /\ (k - 1) + 1 = k
    BY <1>1
  <2> QED
    BY <1>1, <2>1
<1>5. \A k \in 1 .. Len(queue') : k + 1 \in 1 .. Len(queue) /\ k + 1 # 1
  BY <1>1
<1>6. ASSUME NEW w PROVE w \in Waiting' <=> w \in Waiting /\ w # queue[1]
  <2>1. ASSUME w \in Waiting' PROVE w \in Waiting /\ w # queue[1]
    BY <1>1, <1>3, <1>5, <2>1 DEF Waiting
  <2>2. ASSUME w \in Waiting, w # queue[1] PROVE w \in Waiting'
    <3>1. PICK k \in 1 .. Len(queue) : w = queue[k]
      BY <2>2 DEF Waiting
    <3>2. k - 1 \in 1 .. Len(queue') /\ queue'[k - 1] = w
      BY <1>4, <2>2, <3>1
    <3> QED
      BY <3>2 DEF Waiting
  <2> QED
    BY <2>1, <2>2
<1> QED
  BY <1>1, <1>2, <1>6 DEF Waiting

(* A step that leaves the controls, the queue and the write in hand alone. *)
LEMMA ElsewhereStep ==
  ASSUME controls' = controls, Waiting' = Waiting, Going' = Going,
         \/ air' = air \/ air' = <<>>
         \/ air # <<>> /\ air' = Tail(air) /\ link' = link
         \/ link' = link /\ \E r \in Regs : air' = Append(air, [write |-> FALSE, reg |-> r])
  PROVE  Writes!WritesNext
<1>1. ((link = "ready")') \in BOOLEAN
  OBVIOUS
<1>2. link' = link => (link = "ready")' = (link = "ready")
  OBVIOUS
<1>3. Writes!Elsewhere
  <2>1. CASE air' = air \/ air' = <<>>
    BY <1>1, <2>1 DEF Writes!Elsewhere, Waiting, Going
  <2>2. CASE air # <<>> /\ air' = Tail(air) /\ link' = link
    BY <1>2, <2>2 DEF Writes!Elsewhere, Waiting, Going
  <2>3. CASE link' = link /\ \E r \in Regs : air' = Append(air, [write |-> FALSE, reg |-> r])
    BY <1>2, <2>3 DEF Writes!Elsewhere, Writes!OnAir, Waiting, Going
  <2> QED
    BY <2>1, <2>2, <2>3
<1> QED
  BY <1>3 DEF Writes!WritesNext

LEMMA WritesStep == IInv /\ [Next]_vars => [Writes!WritesNext]_(Writes!wvars)
<1> SUFFICES ASSUME IInv, [Next]_vars PROVE Writes!WritesNext
  OBVIOUS
<1>0. UserOK /\ OneSlotEach /\ JobOK
  BY DEF IInv, Typed, QueueHoldsNewest, OneSlotEach
<1>1. ASSUME UNCHANGED queue PROVE Waiting' = Waiting
  BY <1>1 DEF Waiting
<1>2. ASSUME UNCHANGED job PROVE Going' = Going
  BY <1>2 DEF Going
<1>3. ASSUME NEW r \in Writeable, NEW v \in Values, WriteControl(r, v)
      PROVE  Writes!WritesNext
  <2>1. Waiting' = {w \in Waiting : w.reg # r} \cup {[reg |-> r, val |-> v]}
    BY <1>0, <1>3, AskEntries DEF WriteControl
  <2>2. Going' = Going
    BY <1>2, <1>3 DEF WriteControl
  <2>3. /\ controls /\ controls' = controls
        /\ link = "ready" /\ link' = "ready" /\ air' = air
    BY <1>3 DEF WriteControl, radio
  <2>4. Writes!Ask(r, v)
    BY <2>1, <2>2, <2>3 DEF Writes!Ask, Writes!Write, Waiting, Going
  <2> QED
    BY <2>4 DEF Writes!WritesNext
<1>4. CASE PickWrite
  <2>1. /\ Head(queue) \in Waiting /\ Head(queue) \in [reg : Writeable, val : Values]
        /\ Waiting' = Waiting \ {Head(queue)}
    BY <1>0, <1>4, TakeEntries DEF PickWrite
  <2>2. Going = {}
    BY <1>4 DEF PickWrite, Going
  <2>3. Going' = {Head(queue)}
    <3>1. job' = [pc |-> "send", write |-> TRUE, reg |-> Head(queue).reg, val |-> Head(queue).val]
      BY <1>4 DEF PickWrite
    <3>2. [reg |-> Head(queue).reg, val |-> Head(queue).val] = Head(queue)
      BY <2>1
    <3> QED
      BY <3>1, <3>2 DEF Going
  <2>4. controls' = controls /\ link' = link /\ air' = air
    BY <1>4 DEF PickWrite, radio
  <2>5. \E w \in Waiting : Writes!TakeUp(w)
    BY <2>1, <2>2, <2>3, <2>4 DEF Writes!TakeUp, Waiting, Going
  <2> QED
    BY <2>5, Zenon DEF Writes!WritesNext, Waiting
<1>5. ASSUME NEW on \in BOOLEAN, SetControls(on)
      PROVE  Writes!WritesNext
  <2>1. Going' = Going /\ controls' = on /\ link' = link /\ air' = air
    BY <1>2, <1>5 DEF SetControls, radio
  <2>2. Waiting' = IF on THEN Waiting ELSE {}
    BY <1>1, <1>5 DEF SetControls, Waiting
  <2>3. Writes!Allow(on)
    BY <2>1, <2>2 DEF Writes!Allow, Waiting, Going
  <2> QED
    BY <2>3 DEF Writes!WritesNext
<1>6. CASE Send /\ job.write
  <2>1. Waiting' = Waiting /\ Going' = {} /\ controls' = controls /\ link' = link
    BY <1>0, <1>1, <1>6 DEF Send, Going, Job, JobOK, user, radio
  <2>2. /\ link = "ready" /\ Going = {[reg |-> job.reg, val |-> job.val]}
        /\ air' = Append(air, [write |-> TRUE, reg |-> job.reg])
    <3>1. job.write = TRUE
      BY <1>0, <1>6 DEF Job, JobOK
    <3> QED
      BY <1>6, <3>1 DEF Send, Going
  <2>3. [reg |-> job.reg, val |-> job.val].reg = job.reg
    OBVIOUS
  <2>4. \E w \in Going : Writes!Deliver(w)
    BY <2>1, <2>2, <2>3 DEF Writes!Deliver, Writes!OnAir, Waiting, Going
  <2> QED
    BY <2>4, Zenon DEF Writes!WritesNext, Going
<1>7. CASE Send /\ ~job.write
  <2>1. Waiting' = Waiting /\ controls' = controls /\ link' = link
    BY <1>1, <1>7 DEF Send, user, radio
  <2>2. Going' = {} /\ Going = {}
    BY <1>0, <1>7 DEF Send, Going, Job, JobOK
  <2>3. \E r \in Regs : air' = Append(air, [write |-> FALSE, reg |-> r])
    <3>1. job.write = FALSE /\ job.reg \in Regs
      BY <1>0, <1>7 DEF Send, Job, JobOK
    <3> QED
      BY <1>7, <3>1 DEF Send
  <2> QED
    BY <2>1, <2>2, <2>3, ElsewhereStep
<1>8. CASE SendFailed
  <2>1. /\ Waiting' = Waiting /\ controls' = controls /\ link' = link /\ air' = air
        /\ Going' = {} /\ (link # "ready" \/ SendFails)
    BY <1>1, <1>8 DEF SendFailed, NoJob, Going, user, radio
  <2>2. CASE Going = {}
    BY <2>1, <2>2, ElsewhereStep
  <2>3. CASE Going # {}
    <3>1. Writes!GiveUp
      BY <2>1, <2>3 DEF Writes!GiveUp, Waiting, Going
    <3> QED
      BY <3>1 DEF Writes!WritesNext
  <2> QED
    BY <2>2, <2>3
<1>9. CASE PollTick \/ PickRead \/ PickNothing \/ Mark
  <2>1. Waiting' = Waiting /\ controls' = controls /\ air' = air
    BY <1>1, <1>9 DEF PollTick, PickRead, PickNothing, Mark, user
  <2>2. Going = {}
    BY <1>9 DEF PollTick, Pollable, PickRead, PickNothing, Mark, Going
  <2>3. Going' = {}
    <3>1. CASE PickRead
      <4>1. ~job'.write
        BY <1>0, <3>1 DEF PickRead, JobOK, Job
      <4> QED
        BY <4>1 DEF Going
    <3>2. CASE PollTick \/ PickNothing \/ Mark
      BY <3>2 DEF PollTick, PickNothing, Mark, NoJob, Going
    <3> QED
      BY <1>9, <3>1, <3>2
  <2> QED
    BY <2>1, <2>2, <2>3, ElsewhereStep
<1>10. CASE UNCHANGED job /\ UNCHANGED user
  <2>1. controls' = controls /\ Waiting' = Waiting /\ Going' = Going
    BY <1>1, <1>2, <1>10 DEF user
  <2>2. CASE Disconnected \/ Expire \/ UNCHANGED <<pending_addr, air, tardy>>
    <3>1. air' = air \/ air' = <<>>
      BY <2>2 DEF Disconnected, Expire
    <3> QED
      BY <2>1, <3>1, ElsewhereStep
  <2>3. CASE Ack \/ Exception \/ Lost
    <3>1. air # <<>> /\ air' = Tail(air) /\ link' = link
      BY <2>3 DEF Ack, Exception, Lost, radio
    <3> QED
      BY <2>1, <3>1, ElsewhereStep
  <2>4. ASSUME NEW ok \in BOOLEAN, NEW m \in {"generic", "model"}, Answer(ok, m)
        PROVE  Writes!WritesNext
    <3>1. air # <<>> /\ air' = Tail(air) /\ link' = link
      BY <2>4 DEF Answer
    <3> QED
      BY <2>1, <3>1, ElsewhereStep
  <2> QED
    BY <1>6, <1>7, <1>8, <2>2, <2>3, <2>4, AirFrame
<1> QED
  BY <1>3, <1>4, <1>5, <1>6, <1>7, <1>8, <1>9, <1>10, JobFrame, UserFrame

LEMMA WritesStart == Init => Writes!WritesInit
  BY DEF Init, NoJob, Writes!WritesInit

(* bluetti_ble_write_control, the pick in poll_timer_cb and                *)
(* bluetti_ble_set_controls implement ControlWrites, for any number of     *)
(* controls, values and queue slots: a write that waits is dropped only    *)
(* for a newer value of its own register or when controls are switched     *)
(* off, never by a lost link or another control's writes; it is taken up   *)
(* once, and then sent, or given up because the session is gone or the     *)
(* stack refuses it.                                                       *)
THEOREM QueueImplementsWrites == Spec => LatestWrites
  BY WritesStart, WritesStep, Invariant, PTL DEF Spec, LatestWrites, Writes!WritesSpec

-----------------------------------------------------------------------------
(***************************************************************************)
(* The other half of bluetti_ble.c: who has the radio (BleLink), for any   *)
(* number of page scans and faults.                                        *)
(***************************************************************************)
(* The scan timer against b.mode.  Nobody scans before bluetti_ble_start   *)
(* is over; while the timer is armed or about to be, or its callback is    *)
(* about to put the mode back, the mode is not CONNECT; and a scan that    *)
(* begins in between has no link to go back to.                            *)
ScanInv ==
  /\ main = "starting" =>
       /\ mode = "IDLE" /\ ~armed /\ tmr = "idle" /\ page = "idle"
       /\ gap = "idle" /\ host = "idle" /\ ~linked /\ ~connected
  /\ armed \/ tmr = "stop" \/ page = "claimed" => mode # "CONNECT"
  /\ armed /\ tmr = "stop" /\ mode = "SCAN" => ~resume
  /\ page \in {"noted", "claimed"} /\ resume => ~armed /\ tmr # "stop"

(* When nothing is at work on the unit, a task is about to see to it: the  *)
(* host task in try_connect, or the timer task in start_connect_scan.  A   *)
(* link that b.connected denies is being ended, or poll_timer_cb is about  *)
(* to.                                                                     *)
WorkInv ==
  /\ mode = "CONNECT" /\ synced /\ ~linked /\ gap = "idle"
       => host = "connect" \/ tmr = "resume"
  /\ linked /\ ~connected => closing \/ tmr = "drop"

RadioInv == BleTypeOK /\ ScanInv /\ WorkInv

LEMMA RadioInit == BleInit => RadioInv
<1> SUFFICES ASSUME BleInit PROVE RadioInv
  OBVIOUS
<1>1. scans \in 0 .. MaxScans /\ faults \in 0 .. MaxFaults
  BY BleLinkAssumption DEF BleInit
<1>2. BleTypeOK
  BY <1>1, Zenon DEF BleInit, BleTypeOK
<1>3. ScanInv /\ WorkInv
  BY DEF BleInit, ScanInv, WorkInv
<1> QED
  BY <1>2, <1>3 DEF RadioInv

LEMMA ScanStep == RadioInv /\ [BleNext]_blevars => ScanInv'
<1> SUFFICES ASSUME RadioInv, [BleNext]_blevars PROVE ScanInv'
  OBVIOUS
<1> USE DEF blelink, task, count, ScanInv, RadioInv
<1>1. CASE UNCHANGED blevars
  BY <1>1, Zenon DEF blevars
<1>2. CASE Start
  BY <1>2, Zenon DEF Start
<1>3. CASE PageAsks
  BY <1>3, Zenon DEF PageAsks
<1>4. CASE PageNotes
  BY <1>4, Zenon DEF PageNotes
<1>13. CASE PageClaims
  BY <1>13, Zenon DEF PageClaims
<1>14. CASE PageArms
  BY <1>14, Zenon DEF PageArms
<1>5. CASE PageLooks \/ PageTakes
  BY <1>5 DEF PageLooks, PageTakes
<1>6. CASE TimerCancels
  BY <1>6, Zenon DEF TimerCancels
<1>7. CASE TimerStops
  BY <1>7 DEF TimerStops
<1>8. CASE TimerResumes
  BY <1>8, Zenon DEF TimerResumes
<1>9. CASE HostTask \/ ConnectFails \/ LinkLost \/ HostSyncFails
  <2>1. UNCHANGED <<main, mode, armed, tmr, page, resume>>
    BY <1>9 DEF HostTask, FoundTarget, TryConnect, ConnectSucceeds, Terminated,
                HostSync, HostSyncFails, ConnectFails, LinkLost, LinkGone
  <2>2. main = "starting" => UNCHANGED <<gap, host, linked, connected>>
    <3>1. main = "starting" =>
            /\ ~FoundTarget /\ ~TryConnect /\ ~ConnectSucceeds
            /\ ~ConnectFails /\ ~LinkGone
      BY DEF FoundTarget, TryConnect, ConnectSucceeds, ConnectFails, LinkGone
    <3>2. HostSync \/ HostSyncFails \/ main # "starting"
      BY <1>9, <3>1 DEF HostTask, Terminated, LinkLost
    <3>3. ASSUME main = "starting" PROVE Continue(mode, gap, TRUE) = gap
      BY <3>3 DEF Continue, ConnectScan
    <3> QED
      BY <3>2, <3>3 DEF HostSync, HostSyncFails
  <2>3. main = "starting" =>
          /\ mode = "IDLE" /\ ~armed /\ tmr = "idle" /\ page = "idle"
          /\ gap = "idle" /\ host = "idle" /\ ~linked /\ ~connected
    OBVIOUS
  <2>4. main' = "starting" =>
          /\ mode' = "IDLE" /\ ~armed' /\ tmr' = "idle" /\ page' = "idle"
          /\ gap' = "idle" /\ host' = "idle" /\ ~linked' /\ ~connected'
    BY <2>1, <2>2, <2>3
  <2> QED
    BY <2>1, <2>4
<1>10. CASE HostReset
  BY <1>10, Zenon DEF HostReset
<1>11. CASE PollDrops
  BY <1>11, Zenon DEF PollDrops
<1>12. CASE PollTerminates
  BY <1>12, Zenon DEF PollTerminates
<1> QED
  BY <1>1, <1>2, <1>3, <1>4, <1>5, <1>6, <1>7, <1>8, <1>9, <1>10, <1>11, <1>12,
     <1>13, <1>14
     DEF BleNext, PageTask, TimerTask, Disturbance

LEMMA WorkStep == RadioInv /\ [BleNext]_blevars => WorkInv'
<1> SUFFICES ASSUME RadioInv, [BleNext]_blevars PROVE WorkInv'
  OBVIOUS
<1> USE DEF blelink, task, count, ScanInv, WorkInv, RadioInv,
            Disc, Cancel, ConnectScan, Continue
<1>1. CASE UNCHANGED blevars
  BY <1>1 DEF blevars
<1>2. CASE Start
  BY <1>2 DEF Start
<1>3. CASE PageAsks \/ PageNotes \/ PageClaims \/ PageArms \/ PageLooks
  BY <1>3 DEF PageAsks, PageNotes, PageClaims, PageArms, PageLooks
<1>4. CASE PageTakes
  BY <1>4 DEF PageTakes
<1>5. CASE TimerTask
  BY <1>5 DEF TimerTask, TimerCancels, TimerStops, TimerResumes, PollTerminates
<1>6. CASE FoundTarget \/ TryConnect
  BY <1>6 DEF FoundTarget, TryConnect
<1>7. CASE ConnectSucceeds \/ ConnectFails
  BY <1>7 DEF ConnectSucceeds, ConnectFails
<1>8. CASE LinkLost \/ Terminated
  BY <1>8 DEF LinkLost, Terminated, LinkGone
<1>9. CASE HostReset \/ HostSync \/ HostSyncFails \/ PollDrops
  BY <1>9 DEF HostReset, HostSync, HostSyncFails, PollDrops, BleTypeOK
<1> QED
  BY <1>1, <1>2, <1>3, <1>4, <1>5, <1>6, <1>7, <1>8, <1>9
     DEF BleNext, PageTask, HostTask, Disturbance

LEMMA RadioTyped ==
  RadioInv /\ [BleNext]_blevars => BleTypeOK'
<1> SUFFICES ASSUME BleTypeOK, [BleNext]_blevars PROVE BleTypeOK'
  BY DEF RadioInv
<1> USE DEF BleNext, Start, PageTask, PageAsks, PageNotes, PageClaims, PageArms,
            PageLooks, PageTakes, TimerTask, TimerCancels, TimerStops, TimerResumes,
            PollDrops, PollTerminates, HostTask, FoundTarget, TryConnect,
            ConnectSucceeds, Terminated, HostSync, HostSyncFails, Disturbance,
            ConnectFails, LinkLost, LinkGone, HostReset, blelink, task, count, blevars
<1>1. mode' \in {"IDLE", "SCAN", "CONNECT"}
  BY DEF BleTypeOK
<1>2. gap' \in {"idle", "disc", "conn"}
  BY DEF BleTypeOK, Disc, Cancel, ConnectScan, Continue
<1>3. resume' \in BOOLEAN /\ synced' \in BOOLEAN /\ armed' \in BOOLEAN
  BY DEF BleTypeOK
<1>4. \/ connected' = connected /\ linked' = linked /\ closing' = closing
      \/ connected' = connected /\ linked' = linked /\ closing' = linked
      \/ connected' = TRUE /\ linked' = TRUE /\ closing' = closing
      \/ connected' = FALSE /\ linked' = FALSE /\ closing' = FALSE
      \/ connected' = FALSE /\ linked' = linked /\ closing' = closing
  OBVIOUS
<1>5. scanCut' \in BOOLEAN
  BY DEF BleTypeOK
<1>6. mode' = "SCAN" => armed' \/ tmr' = "stop" \/ page' = "claimed"
  BY DEF BleTypeOK
<1>10. due' \in BOOLEAN /\ (synced' => ~due')
  <2>1. \/ UNCHANGED <<synced, due>>
        \/ due' = TRUE /\ synced' = FALSE
        \/ due' = FALSE
    OBVIOUS
  <2>2. due \in BOOLEAN /\ (synced => ~due)
    BY Zenon DEF BleTypeOK
  <2>3. CASE UNCHANGED <<synced, due>>
    <3>1. synced' = synced /\ due' = due
      BY <2>3
    <3> QED
      BY <3>1, <2>2
  <2>4. CASE due' = TRUE /\ synced' = FALSE
    BY <2>4
  <2>5. CASE due' = FALSE
    BY <2>5
  <2> QED
    BY <2>1, <2>3, <2>4, <2>5
<1>7. /\ main' \in {"starting", "started", "failed"}
      /\ page' \in {"idle", "asked", "noted", "claimed", "mode", "terminate", "disc"}
      /\ tmr' \in {"idle", "stop", "resume", "drop"}
      /\ host' \in {"idle", "connect"}
  <2>1. main' \in {"starting", "started", "failed"}
    BY DEF BleTypeOK
  <2>2. page' \in {"idle", "asked", "noted", "claimed", "mode", "terminate", "disc"}
    BY DEF BleTypeOK
  <2>3. tmr' \in {"idle", "stop", "resume", "drop"}
    BY DEF BleTypeOK
  <2>4. host' \in {"idle", "connect"}
    BY DEF BleTypeOK
  <2> QED
    BY <2>1, <2>2, <2>3, <2>4
<1>8. scans' \in 0 .. MaxScans /\ faults' \in 0 .. MaxFaults
  <2>1. scans' = scans \/ (scans < MaxScans /\ scans' = scans + 1)
    OBVIOUS
  <2>2. faults' = faults \/ (faults < MaxFaults /\ faults' = faults + 1)
    OBVIOUS
  <2>3. scans \in 0 .. MaxScans /\ faults \in 0 .. MaxFaults
    BY DEF BleTypeOK
  <2> QED
    BY <2>1, <2>2, <2>3, BleLinkAssumption
<1> HIDE DEF BleNext, blevars
<1>9. /\ connected' \in BOOLEAN /\ linked' \in BOOLEAN /\ closing' \in BOOLEAN
      /\ connected' \/ closing' => linked'
  <2>1. /\ connected \in BOOLEAN /\ linked \in BOOLEAN /\ closing \in BOOLEAN
        /\ connected \/ closing => linked
    BY Zenon DEF BleTypeOK
  <2>2. CASE connected' = connected /\ linked' = linked /\ closing' = closing
    BY <2>1, <2>2, Zenon
  <2>3. CASE connected' = connected /\ linked' = linked /\ closing' = linked
    BY <2>1, <2>3, Zenon
  <2>4. CASE connected' = TRUE /\ linked' = TRUE /\ closing' = closing
    BY <2>1, <2>4, Zenon
  <2>5. CASE connected' = FALSE /\ linked' = FALSE /\ closing' = FALSE
    BY <2>5, Zenon
  <2>6. CASE connected' = FALSE /\ linked' = linked /\ closing' = closing
    BY <2>1, <2>6, Zenon
  <2> QED
    BY <1>4, <2>2, <2>3, <2>4, <2>5, <2>6, Zenon
<1> QED
  BY <1>1, <1>2, <1>3, <1>5, <1>6, <1>7, <1>8, <1>9, <1>10 DEF BleTypeOK

LEMMA BleStep == RadioInv /\ [BleNext]_blevars => RadioInv'
BY ScanStep, WorkStep, RadioTyped DEF RadioInv

LEMMA RadioInvariant == BleSpec => []RadioInv
<1>1. BleInit => RadioInv
  BY RadioInit
<1>2. RadioInv /\ [BleNext]_blevars => RadioInv'
  BY BleStep
<1> QED
  BY <1>1, <1>2, PTL DEF BleSpec

(* b.mode and the rest of what the three tasks share is well typed, a link *)
(* is only closed while it is there, and a scan from the page always has   *)
(* its end in sight: the timer is armed or about to be, or its callback at *)
(* work (bluetti_ble_scan, scan_timer_cb).                                 *)
THEOREM LinkTyped == BleSpec => []BleTypeOK
<1>1. RadioInv => BleTypeOK
  BY DEF RadioInv
<1> QED
  BY <1>1, RadioInvariant, PTL

(* However page scans, their timer, lost and silent links, failed attempts *)
(* and host resets interleave, a bridge that is meant to be on its unit    *)
(* and has no task half-way has the link or is ending it, or a discovery   *)
(* or connection attempt is under way: no start_disc is refused for good.  *)
THEOREM RadioNeverIdle == BleSpec => []RadioAtWork
<1>1. RadioInv => RadioAtWork
  BY DEF RadioInv, WorkInv, RadioAtWork, Settled
<1> QED
  BY <1>1, RadioInvariant, PTL
=============================================================================
