----------------------------- MODULE Setup_proofs -----------------------------
(***************************************************************************)
(* Proofs about Setup and the Wi-Fi manager under it, for any number of    *)
(* networks, connect_tasks, retries and events under way: BIT_CONNECTED is *)
(* the truth once its events are handled, the next attempt to join is then *)
(* in sight, and setup ends with a lease.                                  *)
(*                                                                         *)
(* The bit follows the link through a queue, so the invariant speaks of    *)
(* what the bit will be (After).  A lease is followed from the radio to    *)
(* flash: the events, the bits, the caller's result and the task about to  *)
(* store each mean that one was held (NoSign).                             *)
(***************************************************************************)
EXTENDS Setup, SequenceTheorems, TLAPS

(* What BIT_CONNECTED will be once every event under way is handled.  It   *)
(* is true only with the link up, and follows a link that is up unless a   *)
(* caller has just cleared the bits and not yet dropped the link.          *)
Kicking == \E c \in Callers : caller[c] = "kick"
After(q, bit) == IF q = <<>> THEN bit ELSE q[Len(q)] = "ip"
BitInv ==
  /\ After(events, bits.connected) => link.phase = "up"
  /\ link.phase = "up" /\ ~Kicking => After(events, bits.connected)

(* Until a lease is held nothing can look like one: the link, the bit, the *)
(* events under way, a caller's result, a connect_task about to store; and *)
(* what only connect_task does after one has not been done.                *)
NoSign ==
  /\ link.phase # "up" /\ ~bits.connected
  /\ \A i \in 1 .. Len(events) : events[i] # "ip"
  /\ \A c \in Callers : caller[c] # "ok"
  /\ \A t \in Tasks : task[t] # "store"
Unstored == main = "portal" => nvs = Blank \/ nvs.mode = "ap"
LeaseInv == ~leased => NoSign /\ main # "teardown" /\ Unstored

IInv == TypeOK /\ BitInv /\ RetryInSight /\ LeaseInv

-----------------------------------------------------------------------------
LEMMA InitInv == Init => IInv
<1> SUFFICES ASSUME Init PROVE IInv
  OBVIOUS
<1>0. MaxRetry \in Nat \ {0} /\ FbTicks \in Nat \ {0} /\ MaxEvents \in Nat \ {0}
  BY WifiAssumption
<1>1. cfg \in Settings /\ pending \in Settings /\ nvs \in Settings
  <2>1. Blank \in Settings /\ \A n \in Networks : At(n) \in Settings
    BY DEF Settings, Blank, At
  <2> QED
    BY <2>1 DEF Init
<1>2. WifiTypeOK
  <2>1. /\ ap \in BOOLEAN /\ want \in BOOLEAN
        /\ refused \in BOOLEAN /\ leased \in BOOLEAN
    BY Zenon DEF Init, WifiInit
  <2>2. /\ air \subseteq Networks /\ timer \in {"none", "off", "armed"}
        /\ conf \in Networks \cup {NoNet}
        /\ link \in [phase : {"idle", "connecting", "up"}, net : Networks \cup {NoNet}]
        /\ caller \in [Callers -> {"idle", "kick", "wait", "ok", "failed", "timeout"}]
    BY DEF Init, WifiInit, NoLink
  <2>3. bits \in [connected : BOOLEAN, failed : BOOLEAN]
    BY DEF Init, WifiInit
  <2>4. /\ events \in Seq({"disc", "ip"}) /\ Len(events) <= MaxEvents
        /\ retries \in 0 .. MaxRetry + 1
        /\ fb \in [enabled : BOOLEAN, up : BOOLEAN, down : 0 .. FbTicks]
    BY <1>0 DEF Init, WifiInit
  <2> QED
    BY <2>1, <2>2, <2>3, <2>4 DEF WifiTypeOK
<1>3. TypeOK
  BY <1>1, <1>2 DEF Init, TypeOK
<1>4. BitInv
  BY DEF Init, WifiInit, NoLink, BitInv, After
<1>6. LeaseInv
  <2>1. NoSign
    BY DEF Init, WifiInit, NoLink, NoSign
  <2> QED
    BY <2>1 DEF Init, LeaseInv, Unstored, Blank
<1>7. RetryInSight
  BY DEF Init, WifiInit, RetryInSight
<1> QED
  BY <1>3, <1>4, <1>6, <1>7 DEF IInv

-----------------------------------------------------------------------------
(* What a step may do to each variable. *)

LEMMA Changes ==
  ASSUME [Next]_vars
  PROVE  /\ air' = air \/ air' \in SUBSET Networks
         /\ leased' = leased \/ leased' = TRUE
         /\ refused' = refused \/ refused' = FALSE \/ refused' = TRUE
         /\ conf' = conf \/ conf' = cfg.net \/ conf' = pending.net
         /\ \/ link' = link \/ link' = [link EXCEPT !.phase = "up"] \/ link' = NoLink
            \/ link' = [phase |-> "connecting", net |-> conf]
         /\ \/ events' = events \/ (events # <<>> /\ events' = Tail(events))
            \/ \E e \in {"disc", "ip"} : Posts /\ events' = Append(events, e)
         /\ \/ bits' = bits \/ bits' = [bits EXCEPT !.failed = FALSE]
            \/ \E b \in BOOLEAN : bits' = [connected |-> b, failed |-> FALSE]
            \/ bits' = [connected |-> FALSE,
                        failed |-> bits.failed \/ (want /\ retries + 1 = MaxRetry)]
         /\ want' = want \/ want' = TRUE
         /\ \/ retries' = retries \/ retries' = 0
            \/ retries <= MaxRetry /\ retries' = retries + 1
         /\ timer' = timer \/ timer' = "off" \/ timer' = "armed"
         /\ ap' = ap \/ ap' = FALSE \/ ap' = TRUE
         /\ \/ fb' = fb \/ \E e \in BOOLEAN : fb' = [fb EXCEPT !.enabled = e]
            \/ fb' = [fb EXCEPT !.up = FALSE, !.down = 0] \/ fb' = [fb EXCEPT !.down = 0]
            \/ fb.down + 1 < FbTicks /\ fb' = [fb EXCEPT !.down = @ + 1]
            \/ fb' = [fb EXCEPT !.up = TRUE, !.down = FbTicks]
         /\ \/ caller' = caller
            \/ caller' = Woken("ok") \/ caller' = Woken("failed")
            \/ \E c \in Callers, x \in {"kick", "wait", "ok", "failed", "timeout"} :
                 caller' = [caller EXCEPT ![c] = x]
<1> USE DEF Next, WifiStep, Radio, AirChanges, LinkJoins, LinkFails, OnEvent,
            OnDisconnected, ReconnectLater, RetriesUp, OnGotIp, RetryTimer,
            FallbackTick, FallbackDrops, FallbackIdles, FallbackCounts, FallbackFails,
            FallbackRaises, StaKick, StaTimeout, MainJoins,
            MainArms, FormRefused, FormAp, FormStation, TaskStep, TaskConnects, TaskFails,
            TaskTakes, TaskStores, PortalCloses, StaConnect, ApStop, SetFallbackAp,
            Disconnects, radio, wvars, vars
<1>1. air' = air \/ air' \in SUBSET Networks
  OBVIOUS
<1>2. leased' = leased \/ leased' = TRUE
  OBVIOUS
<1>13. refused' = refused \/ refused' = FALSE \/ refused' = TRUE
  BY DEF Connects
<1>3. conf' = conf \/ conf' = cfg.net \/ conf' = pending.net
  OBVIOUS
<1>4. \/ link' = link \/ link' = [link EXCEPT !.phase = "up"] \/ link' = NoLink
      \/ link' = [phase |-> "connecting", net |-> conf]
  BY DEF Connects, NoLink
<1>5. \/ events' = events \/ (events # <<>> /\ events' = Tail(events))
      \/ \E e \in {"disc", "ip"} : Posts /\ events' = Append(events, e)
  OBVIOUS
<1>6. \/ bits' = bits \/ bits' = [bits EXCEPT !.failed = FALSE]
      \/ \E b \in BOOLEAN : bits' = [connected |-> b, failed |-> FALSE]
      \/ bits' = [connected |-> FALSE,
                  failed |-> bits.failed \/ (want /\ retries + 1 = MaxRetry)]
  OBVIOUS
<1>7. want' = want \/ want' = TRUE
  OBVIOUS
<1>8. \/ retries' = retries \/ retries' = 0
      \/ retries <= MaxRetry /\ retries' = retries + 1
  OBVIOUS
<1>9. timer' = timer \/ timer' = "off" \/ timer' = "armed"
  OBVIOUS
<1>10. ap' = ap \/ ap' = FALSE \/ ap' = TRUE
  OBVIOUS
<1>11. \/ fb' = fb \/ \E e \in BOOLEAN : fb' = [fb EXCEPT !.enabled = e]
       \/ fb' = [fb EXCEPT !.up = FALSE, !.down = 0] \/ fb' = [fb EXCEPT !.down = 0]
       \/ fb.down + 1 < FbTicks /\ fb' = [fb EXCEPT !.down = @ + 1]
       \/ fb' = [fb EXCEPT !.up = TRUE, !.down = FbTicks]
  OBVIOUS
<1>12. \/ caller' = caller
       \/ caller' = Woken("ok") \/ caller' = Woken("failed")
       \/ \E c \in Callers, x \in {"kick", "wait", "ok", "failed", "timeout"} :
            caller' = [caller EXCEPT ![c] = x]
  BY SetupAssumption
<1> QED
  BY <1>1, <1>2, <1>3, <1>4, <1>5, <1>6, <1>7, <1>8, <1>9, <1>10, <1>11, <1>12, <1>13

LEMMA WifiTyped == TypeOK /\ [Next]_vars => WifiTypeOK'
<1> SUFFICES ASSUME TypeOK, [Next]_vars PROVE WifiTypeOK'
  OBVIOUS
<1>0. MaxRetry \in Nat \ {0} /\ FbTicks \in Nat \ {0} /\ MaxEvents \in Nat \ {0}
  BY WifiAssumption
<1>1. air' \subseteq Networks /\ timer' \in {"none", "off", "armed"}
  BY Changes DEF TypeOK, WifiTypeOK
<1>2. conf' \in Networks \cup {NoNet}
  BY Changes DEF TypeOK, WifiTypeOK, Settings
<1>3. link' \in [phase : {"idle", "connecting", "up"}, net : Networks \cup {NoNet}]
  <2>1. /\ link \in [phase : {"idle", "connecting", "up"}, net : Networks \cup {NoNet}]
        /\ conf \in Networks \cup {NoNet}
    BY DEF TypeOK, WifiTypeOK
  <2>2. \/ link' = link \/ link' = [link EXCEPT !.phase = "up"] \/ link' = NoLink
        \/ link' = [phase |-> "connecting", net |-> conf]
    BY Changes
  <2> QED
    BY <2>1, <2>2 DEF NoLink
<1>4. events' \in Seq({"disc", "ip"}) /\ Len(events') <= MaxEvents
  <2>1. events \in Seq({"disc", "ip"}) /\ Len(events) <= MaxEvents /\ Len(events) \in Nat
    BY LenProperties DEF TypeOK, WifiTypeOK
  <2>2. \/ events' = events \/ (events # <<>> /\ events' = Tail(events))
        \/ \E e \in {"disc", "ip"} : Len(events) < MaxEvents /\ events' = Append(events, e)
    BY Changes DEF Posts
  <2>3. CASE events # <<>> /\ events' = Tail(events)
    <3>1. events' \in Seq({"disc", "ip"}) /\ Len(events') = Len(events) - 1
      BY <2>1, <2>3, HeadTailProperties
    <3> QED
      BY <1>0, <2>1, <3>1
  <2>4. ASSUME NEW e \in {"disc", "ip"}, Len(events) < MaxEvents, events' = Append(events, e)
        PROVE  events' \in Seq({"disc", "ip"}) /\ Len(events') <= MaxEvents
    <3>1. events' \in Seq({"disc", "ip"}) /\ Len(events') = Len(events) + 1
      BY <2>1, <2>4, AppendProperties
    <3> QED
      BY <1>0, <2>1, <2>4, <3>1
  <2> QED
    BY <2>1, <2>2, <2>3, <2>4
<1>5. bits' \in [connected : BOOLEAN, failed : BOOLEAN]
  <2>1. bits \in [connected : BOOLEAN, failed : BOOLEAN]
    BY DEF TypeOK, WifiTypeOK
  <2> DEFINE f == bits.failed \/ (want /\ retries + 1 = MaxRetry)
  <2>2. f \in BOOLEAN
    BY Zenon
  <2>3. \/ bits' = bits \/ bits' = [bits EXCEPT !.failed = FALSE]
        \/ \E b \in BOOLEAN : bits' = [connected |-> b, failed |-> FALSE]
        \/ bits' = [connected |-> FALSE, failed |-> f]
    BY Changes
  <2> HIDE DEF f
  <2>4. [connected |-> FALSE, failed |-> f] \in [connected : BOOLEAN, failed : BOOLEAN]
    BY <2>2
  <2>5. CASE bits' = [bits EXCEPT !.failed = FALSE]
    BY <2>1, <2>5
  <2>6. CASE \E b \in BOOLEAN : bits' = [connected |-> b, failed |-> FALSE]
    BY <2>6
  <2>7. CASE bits' = [connected |-> FALSE, failed |-> f]
    BY <2>4, <2>7
  <2> QED
    BY <2>1, <2>3, <2>5, <2>6, <2>7
<1>6. want' \in BOOLEAN /\ ap' \in BOOLEAN /\ refused' \in BOOLEAN /\ leased' \in BOOLEAN
  <2>1. want \in BOOLEAN /\ ap \in BOOLEAN /\ refused \in BOOLEAN /\ leased \in BOOLEAN
    BY DEF TypeOK, WifiTypeOK
  <2>2. /\ want' = want \/ want' = TRUE
        /\ ap' = ap \/ ap' = FALSE \/ ap' = TRUE
        /\ refused' = refused \/ refused' = FALSE \/ refused' = TRUE
        /\ leased' = leased \/ leased' = TRUE
    BY Changes
  <2> QED
    BY <2>1, <2>2, Zenon
<1>7. retries' \in 0 .. MaxRetry + 1
  <2>1. retries \in 0 .. MaxRetry + 1
    BY DEF TypeOK, WifiTypeOK
  <2>2. \/ retries' = retries \/ retries' = 0
        \/ retries <= MaxRetry /\ retries' = retries + 1
    BY Changes
  <2> QED
    BY <1>0, <2>1, <2>2
<1>8. fb' \in [enabled : BOOLEAN, up : BOOLEAN, down : 0 .. FbTicks]
  <2>1. fb \in [enabled : BOOLEAN, up : BOOLEAN, down : 0 .. FbTicks]
    BY DEF TypeOK, WifiTypeOK
  <2>2. fb.down + 1 < FbTicks => fb.down + 1 \in 0 .. FbTicks
    BY <1>0, <2>1
  <2>3. 0 \in 0 .. FbTicks /\ FbTicks \in 0 .. FbTicks
    BY <1>0
  <2>4. \/ fb' = fb \/ \E e \in BOOLEAN : fb' = [fb EXCEPT !.enabled = e]
        \/ fb' = [fb EXCEPT !.up = FALSE, !.down = 0] \/ fb' = [fb EXCEPT !.down = 0]
        \/ fb.down + 1 < FbTicks /\ fb' = [fb EXCEPT !.down = @ + 1]
        \/ fb' = [fb EXCEPT !.up = TRUE, !.down = FbTicks]
    BY Changes
  <2> QED
    BY <2>1, <2>2, <2>3, <2>4
<1>9. caller' \in [Callers -> {"idle", "kick", "wait", "ok", "failed", "timeout"}]
  <2>1. caller \in [Callers -> {"idle", "kick", "wait", "ok", "failed", "timeout"}]
    BY DEF TypeOK, WifiTypeOK
  <2>2. \/ caller' = caller
        \/ caller' = Woken("ok") \/ caller' = Woken("failed")
        \/ \E c \in Callers, x \in {"kick", "wait", "ok", "failed", "timeout"} :
             caller' = [caller EXCEPT ![c] = x]
    BY Changes
  <2>3. \A x \in {"ok", "failed"} :
          Woken(x) \in [Callers -> {"idle", "kick", "wait", "ok", "failed", "timeout"}]
    BY <2>1 DEF Woken
  <2> QED
    BY <2>1, <2>2, <2>3
<1> QED
  BY <1>1, <1>2, <1>3, <1>4, <1>5, <1>6, <1>7, <1>8, <1>9 DEF WifiTypeOK

LEMMA TypesStep == TypeOK /\ [Next]_vars => TypeOK'
<1> SUFFICES ASSUME TypeOK, [Next]_vars PROVE TypeOK'
  OBVIOUS
<1>0. /\ cfg \in Settings /\ pending \in Settings /\ nvs \in Settings
      /\ main \in {"portal", "teardown", "boot", "arm", "run", "rebooting"}
      /\ pstate \in {"IDLE", "CONNECTING", "CONNECTED", "FAILED"}
      /\ task \in [Tasks -> {"none", "start", "connect", "store", "over"}]
  BY DEF TypeOK
<1>1. ASSUME NEW p \in Settings, NEW n \in Networks
      PROVE  /\ [p EXCEPT !.mode = "ap"] \in Settings
             /\ [p EXCEPT !.provisioned = TRUE] \in Settings
             /\ [p EXCEPT !.mode = "station", !.net = n] \in Settings
  BY DEF Settings
<1>2. \A p \in Settings : [p EXCEPT !.mode = "ap"] \in Settings
                             /\ [p EXCEPT !.provisioned = TRUE] \in Settings
  BY DEF Settings
<1> SUFFICES /\ cfg' \in Settings /\ pending' \in Settings /\ nvs' \in Settings
             /\ main' \in {"portal", "teardown", "boot", "arm", "run", "rebooting"}
             /\ pstate' \in {"IDLE", "CONNECTING", "CONNECTED", "FAILED"}
             /\ task' \in [Tasks -> {"none", "start", "connect", "store", "over"}]
  BY WifiTyped DEF TypeOK
<1>4. CASE UNCHANGED svars
  BY <1>0, <1>4 DEF svars
<1>5. CASE MainJoins \/ (\E enabled \in BOOLEAN : MainArms(enabled)) \/ PortalCloses
  BY <1>0, <1>5 DEF MainJoins, MainArms, PortalCloses
<1>6. CASE FormRefused
  BY <1>0, <1>6 DEF FormRefused, Form
<1>7. CASE FormAp
  <2>1. /\ pending' = [cfg EXCEPT !.mode = "ap"] /\ cfg' = [pending' EXCEPT !.provisioned = TRUE]
        /\ nvs' \in {nvs, cfg'} /\ main' \in {main, "rebooting"} /\ UNCHANGED <<pstate, task>>
    BY <1>7 DEF FormAp, Form
  <2>2. pending' \in Settings /\ cfg' \in Settings
    BY <1>0, <1>2, <2>1
  <2> QED
    BY <1>0, <2>1, <2>2
<1>8. ASSUME NEW t \in Tasks, NEW n \in Networks, FormStation(t, n)
      PROVE  /\ cfg' \in Settings /\ pending' \in Settings /\ nvs' \in Settings
             /\ main' \in {"portal", "teardown", "boot", "arm", "run", "rebooting"}
             /\ pstate' \in {"IDLE", "CONNECTING", "CONNECTED", "FAILED"}
             /\ task' \in [Tasks -> {"none", "start", "connect", "store", "over"}]
  <2>1. pending' \in Settings
    BY <1>0, <1>1, <1>8 DEF FormStation, Form
  <2> QED
    BY <1>0, <1>8, <2>1 DEF FormStation
<1>9. ASSUME NEW t \in Tasks, TaskStep(t)
      PROVE  /\ cfg' \in Settings /\ pending' \in Settings /\ nvs' \in Settings
             /\ main' \in {"portal", "teardown", "boot", "arm", "run", "rebooting"}
             /\ pstate' \in {"IDLE", "CONNECTING", "CONNECTED", "FAILED"}
             /\ task' \in [Tasks -> {"none", "start", "connect", "store", "over"}]
  <2>1. CASE TaskConnects(t) \/ TaskFails(t) \/ TaskStores(t)
    BY <1>0, <2>1 DEF TaskConnects, TaskFails, TaskStores
  <2>2. CASE TaskTakes(t)
    BY <1>0, <1>2, <2>2 DEF TaskTakes
  <2> QED
    BY <1>9, <2>1, <2>2 DEF TaskStep
<1> QED
  BY <1>4, <1>5, <1>6, <1>7, <1>8, <1>9 DEF Next, vars

-----------------------------------------------------------------------------
(* BIT_CONNECTED. *)

LEMMA AfterAppend ==
  ASSUME NEW q \in Seq({"disc", "ip"}), NEW e \in {"disc", "ip"}, NEW b
  PROVE  After(Append(q, e), b) <=> e = "ip"
<1> DEFINE r == Append(q, e)
<1>1. Len(q) \in Nat /\ Len(r) = Len(q) + 1 /\ r[Len(q) + 1] = e /\ r # <<>>
  BY AppendProperties, LenProperties
<1> HIDE DEF r
<1>2. After(r, b) <=> e = "ip"
  BY <1>1 DEF After
<1> QED
  BY <1>2 DEF r

LEMMA AfterTail ==
  ASSUME NEW q \in Seq({"disc", "ip"}), q # <<>>, NEW b, NEW d
  PROVE  /\ Head(q) = "ip" /\ d = TRUE => (After(Tail(q), d) <=> After(q, b))
         /\ Head(q) = "disc" /\ d = FALSE => (After(Tail(q), d) <=> After(q, b))
<1> DEFINE r == Tail(q)
<1>1. /\ Len(q) \in Nat \ {0} /\ Len(r) = Len(q) - 1 /\ r \in Seq({"disc", "ip"})
      /\ \A i \in 1 .. Len(r) : r[i] = q[i + 1]
  BY HeadTailProperties, LenProperties, EmptySeq
<1>2. Head(q) = q[1]
  BY HeadTailProperties
<1> HIDE DEF r
<1>3. After(q, b) <=> q[Len(q)] = "ip"
  BY DEF After
<1>4. CASE r = <<>>
  <2>1. Len(q) = 1
    BY <1>1, <1>4
  <2> QED
    BY <1>2, <1>3, <1>4, <2>1 DEF After, r
<1>5. CASE r # <<>>
  <2>1. Len(r) \in 1 .. Len(r) /\ Len(r) + 1 = Len(q)
    BY <1>1, <1>5, EmptySeq
  <2>2. r[Len(r)] = q[Len(q)]
    BY <1>1, <2>1
  <2>3. After(r, d) <=> r[Len(r)] = "ip"
    BY <1>5 DEF After
  <2> QED
    BY <1>3, <2>2, <2>3 DEF r
<1> QED
  BY <1>4, <1>5

(* What a step may do to the link, its events and the bit. *)
LEMMA BitChanges ==
  ASSUME TypeOK, [Next]_vars
  PROVE  \/ /\ link' = link /\ events' = events /\ bits'.connected = bits.connected
            /\ \A c \in Callers : caller[c] = "kick" => caller'[c] = "kick"
         \/ /\ link'.phase = "up" /\ events' = Append(events, "ip")
         \/ /\ link'.phase # "up" /\ events' = Append(events, "disc")
         \/ /\ link.phase # "up" /\ link'.phase # "up"
            /\ events' = events /\ bits'.connected = bits.connected
         \/ /\ events # <<>> /\ events' = Tail(events)
            /\ link'.phase = "up" <=> link.phase = "up"
            /\ bits'.connected = (Head(events) = "ip")
            /\ \A c \in Callers : caller[c] = "kick" => caller'[c] = "kick"
         \/ /\ link' = link /\ events' = events /\ bits'.connected = FALSE
            /\ \E c \in Callers : caller'[c] = "kick"
<1> USE DEF wvars
<1>0. /\ link \in [phase : {"idle", "connecting", "up"}, net : Networks \cup {NoNet}]
      /\ caller \in [Callers -> {"idle", "kick", "wait", "ok", "failed", "timeout"}]
      /\ bits \in [connected : BOOLEAN, failed : BOOLEAN]
  BY DEF TypeOK, WifiTypeOK
<1>1. CASE UNCHANGED vars \/ AirChanges \/ FallbackIdles \/ FallbackCounts
        \/ FallbackFails \/ FallbackRaises
  BY <1>1 DEF vars, radio, AirChanges, FallbackIdles, FallbackCounts, FallbackFails,
              FallbackRaises
<1>2. CASE LinkJoins
  BY <1>0, <1>2 DEF LinkJoins
<1>3. CASE LinkFails
  BY <1>3 DEF LinkFails, NoLink
<1>4. ASSUME OnEvent
      PROVE  /\ events # <<>> /\ events' = Tail(events)
             /\ link'.phase = "up" <=> link.phase = "up"
             /\ bits'.connected = (Head(events) = "ip")
             /\ \A c \in Callers : caller[c] = "kick" => caller'[c] = "kick"
  <2>1. CASE OnDisconnected
    <3>1. /\ events # <<>> /\ events' = Tail(events) /\ Head(events) = "disc"
          /\ bits'.connected = FALSE
          /\ caller' = caller \/ caller' = Woken("failed")
      BY <2>1 DEF OnDisconnected, RetriesUp
    <3>2. link'.phase = "up" <=> link.phase = "up"
      BY <2>1 DEF OnDisconnected, ReconnectLater, Connects
    <3> QED
      BY <1>0, <3>1, <3>2 DEF Woken
  <2>2. CASE OnGotIp
    BY <1>0, <2>2 DEF OnGotIp, Woken, radio
  <2> QED
    BY <1>4, <2>1, <2>2 DEF OnEvent
<1>5. ASSUME RetryTimer
      PROVE  \/ link' = link /\ events' = events /\ bits' = bits /\ caller' = caller
             \/ /\ link.phase # "up" /\ link'.phase # "up"
                /\ events' = events /\ bits' = bits
  BY <1>5 DEF RetryTimer, Connects
<1>6. ASSUME NEW f, ApStop(f)
      PROVE  \/ /\ link'.phase # "up" /\ events' = Append(events, "disc")
             \/ /\ link.phase # "up" /\ link'.phase # "up"
                /\ events' = events /\ bits'.connected = bits.connected
  <2>1. bits'.connected = bits.connected
    BY <1>0, <1>6 DEF ApStop
  <2>2. link'.phase # "up"
    BY <1>6 DEF ApStop, Connects, NoLink
  <2> QED
    BY <1>6, <2>1, <2>2 DEF ApStop, Disconnects
<1>7. ASSUME NEW c \in Callers, StaKick(c)
      PROVE  \/ /\ link'.phase # "up" /\ events' = Append(events, "disc")
             \/ /\ link.phase # "up" /\ link'.phase # "up"
                /\ events' = events /\ bits'.connected = bits.connected
  BY <1>7 DEF StaKick, Disconnects, Connects, NoLink
<1>8. ASSUME NEW c \in Callers, StaTimeout(c)
      PROVE  /\ link' = link /\ events' = events /\ bits'.connected = bits.connected
             /\ \A d \in Callers : caller[d] = "kick" => caller'[d] = "kick"
  BY <1>0, <1>8 DEF StaTimeout, radio
<1>9. ASSUME NEW c \in Callers, NEW n, StaConnect(c, n)
      PROVE  /\ link' = link /\ events' = events /\ bits'.connected = FALSE
             /\ \E d \in Callers : caller'[d] = "kick"
  BY <1>0, <1>9 DEF StaConnect
<1>10. ASSUME NEW e, MainArms(e)
       PROVE  link' = link /\ events' = events /\ bits' = bits /\ caller' = caller
  BY <1>10 DEF MainArms, SetFallbackAp, radio
<1>11. CASE FormRefused \/ FormAp \/ \E t \in Tasks, n \in Networks : FormStation(t, n)
  BY <1>11 DEF FormRefused, FormAp, FormStation
<1>12. ASSUME NEW t \in Tasks, TaskFails(t) \/ TaskTakes(t) \/ TaskStores(t)
       PROVE  link' = link /\ events' = events /\ bits' = bits /\ caller' = caller
  BY <1>12 DEF TaskFails, TaskTakes, TaskStores
<1>13. CASE FallbackDrops
  BY <1>13, <1>6 DEF FallbackDrops
<1>14. CASE PortalCloses
  BY <1>14, <1>6 DEF PortalCloses
<1>15. CASE MainJoins
  BY <1>15, <1>9, SetupAssumption DEF MainJoins
<1>16. ASSUME NEW t \in Tasks, TaskConnects(t)
       PROVE  /\ link' = link /\ events' = events /\ bits'.connected = FALSE
              /\ \E d \in Callers : caller'[d] = "kick"
  BY <1>16, <1>9, SetupAssumption DEF TaskConnects
<1>17. CASE WifiStep
  BY <1>17, <1>1, <1>2, <1>3, <1>4, <1>5, <1>7, <1>8, <1>13
     DEF WifiStep, Radio, FallbackTick
<1>18. CASE \E t \in Tasks : TaskStep(t)
  BY <1>18, <1>12, <1>16 DEF TaskStep
<1> QED
  BY <1>1, <1>10, <1>11, <1>14, <1>15, <1>17, <1>18 DEF Next

LEMMA BitStep == TypeOK /\ BitInv /\ [Next]_vars => BitInv'
<1> SUFFICES ASSUME TypeOK, BitInv, [Next]_vars PROVE BitInv'
  OBVIOUS
<1>0. events \in Seq({"disc", "ip"}) /\ bits.connected \in BOOLEAN
  BY DEF TypeOK, WifiTypeOK
<1>1. /\ After(events, bits.connected) => link.phase = "up"
      /\ link.phase = "up" /\ ~Kicking => After(events, bits.connected)
  BY DEF BitInv
<1> SUFFICES /\ After(events', bits'.connected) => link'.phase = "up"
             /\ link'.phase = "up" /\ ~Kicking' => After(events', bits'.connected)
  BY DEF BitInv, After
<1>2. CASE /\ link' = link /\ events' = events /\ bits'.connected = bits.connected
           /\ \A c \in Callers : caller[c] = "kick" => caller'[c] = "kick"
  BY <1>1, <1>2 DEF Kicking
<1>3. CASE link'.phase = "up" /\ events' = Append(events, "ip")
  <2>1. After(events', bits'.connected)
    BY <1>0, <1>3, AfterAppend
  <2> QED
    BY <1>3, <2>1
<1>4. CASE link'.phase # "up" /\ events' = Append(events, "disc")
  <2>1. ~After(events', bits'.connected)
    BY <1>0, <1>4, AfterAppend
  <2> QED
    BY <1>4, <2>1
<1>5. CASE /\ link.phase # "up" /\ link'.phase # "up"
           /\ events' = events /\ bits'.connected = bits.connected
  BY <1>1, <1>5
<1>6. CASE /\ events # <<>> /\ events' = Tail(events)
           /\ link'.phase = "up" <=> link.phase = "up"
           /\ bits'.connected = (Head(events) = "ip")
           /\ \A c \in Callers : caller[c] = "kick" => caller'[c] = "kick"
  <2>1. Head(events) \in {"disc", "ip"}
    BY <1>0, <1>6, HeadTailProperties
  <2>2. After(events', bits'.connected) <=> After(events, bits.connected)
    BY <1>0, <1>6, <2>1, AfterTail
  <2> QED
    BY <1>1, <1>6, <2>2 DEF Kicking
<1>7. CASE /\ link' = link /\ events' = events /\ bits'.connected = FALSE
           /\ \E c \in Callers : caller'[c] = "kick"
  <2>1. After(events, FALSE) => After(events, bits.connected)
    BY DEF After
  <2> QED
    BY <1>1, <1>7, <2>1 DEF Kicking
<1> QED
  BY <1>2, <1>3, <1>4, <1>5, <1>6, <1>7, BitChanges

-----------------------------------------------------------------------------
(* The next attempt. *)

LEMMA AppendNotEmpty ==
  ASSUME NEW q \in Seq({"disc", "ip"}), NEW e \in {"disc", "ip"}
  PROVE  Append(q, e) # <<>>
<1> DEFINE r == Append(q, e)
<1>1. Len(q) \in Nat /\ Len(r) = Len(q) + 1
  BY AppendProperties, LenProperties
<1> HIDE DEF r
<1>2. r # <<>>
  BY <1>1
<1> QED
  BY <1>2 DEF r

(* What a step may do to a wanted station: nothing, handle an event (a     *)
(* lost link arms the timer), or give it something to wait for.            *)
LEMMA RetryChanges ==
  ASSUME TypeOK, [Next]_vars
  PROVE  \/ /\ link' = link /\ events' = events /\ want' = want /\ timer' = timer
            /\ refused' = refused
            /\ \A c \in Callers : caller[c] = "kick" => caller'[c] = "kick"
         \/ /\ events # <<>> /\ events' = Tail(events) /\ link' = link
            /\ Head(events) = "ip"
         \/ timer' = "armed" \/ refused'
         \/ events' # <<>>
         \/ link'.phase # "idle"
         \/ \E c \in Callers : caller'[c] = "kick"
         \/ ~want'
<1> USE DEF wvars
<1>0. /\ events \in Seq({"disc", "ip"})
      /\ caller \in [Callers -> {"idle", "kick", "wait", "ok", "failed", "timeout"}]
  BY DEF TypeOK, WifiTypeOK
<1>1. CASE UNCHANGED vars \/ AirChanges \/ FallbackIdles \/ FallbackCounts
        \/ FallbackFails \/ FallbackRaises
  BY <1>1 DEF vars, radio, AirChanges, FallbackIdles, FallbackCounts, FallbackFails,
              FallbackRaises
<1>2. CASE LinkJoins \/ LinkFails
  BY <1>0, <1>2, AppendNotEmpty DEF LinkJoins, LinkFails
<1>3. ASSUME OnDisconnected
      PROVE  ~want' \/ timer' = "armed" \/ link'.phase # "idle" \/ refused'
  BY <1>3 DEF OnDisconnected, RetriesUp, ReconnectLater, Connects
<1>4. CASE OnGotIp
  BY <1>4 DEF OnGotIp, radio
<1>5. ASSUME RetryTimer PROVE ~want' \/ link'.phase # "idle" \/ refused'
  BY <1>5 DEF RetryTimer, Connects
<1>6. ASSUME NEW f, ApStop(f) PROVE link'.phase # "idle" \/ ~want' \/ refused'
  BY <1>6 DEF ApStop, Connects, NoLink
<1>7. ASSUME NEW c \in Callers, StaKick(c) PROVE link'.phase # "idle" \/ refused'
  BY <1>7 DEF StaKick, Connects, NoLink
<1>8. ASSUME NEW c \in Callers, StaTimeout(c)
      PROVE  /\ link' = link /\ events' = events /\ want' = want /\ timer' = timer
             /\ refused' = refused
             /\ \A d \in Callers : caller[d] = "kick" => caller'[d] = "kick"
  BY <1>0, <1>8 DEF StaTimeout, radio
<1>9. ASSUME NEW c \in Callers, NEW n, StaConnect(c, n)
      PROVE  \E d \in Callers : caller'[d] = "kick"
  BY <1>0, <1>9 DEF StaConnect
<1>10. ASSUME NEW e, MainArms(e)
       PROVE  /\ link' = link /\ events' = events /\ want' = want /\ timer' = timer
              /\ refused' = refused
              /\ caller' = caller
  BY <1>10 DEF MainArms, SetFallbackAp, radio
<1>11. CASE FormRefused \/ FormAp \/ \E t \in Tasks, n \in Networks : FormStation(t, n)
  BY <1>11 DEF FormRefused, FormAp, FormStation
<1>12. ASSUME NEW t \in Tasks, TaskFails(t) \/ TaskTakes(t) \/ TaskStores(t)
       PROVE  /\ link' = link /\ events' = events /\ want' = want /\ timer' = timer
              /\ refused' = refused
              /\ caller' = caller
  BY <1>12 DEF TaskFails, TaskTakes, TaskStores
<1>13. CASE FallbackDrops \/ PortalCloses
  BY <1>13, <1>6 DEF FallbackDrops, PortalCloses
<1>14. CASE MainJoins
  BY <1>14, <1>9, SetupAssumption DEF MainJoins
<1>15. ASSUME NEW t \in Tasks, TaskConnects(t)
       PROVE  \E d \in Callers : caller'[d] = "kick"
  BY <1>15, <1>9, SetupAssumption DEF TaskConnects
<1>16. CASE WifiStep
  BY <1>16, <1>1, <1>2, <1>3, <1>4, <1>5, <1>7, <1>8, <1>13
     DEF WifiStep, Radio, OnEvent, FallbackTick
<1>17. CASE \E t \in Tasks : TaskStep(t)
  BY <1>17, <1>12, <1>15 DEF TaskStep
<1> QED
  BY <1>1, <1>10, <1>11, <1>13, <1>14, <1>16, <1>17 DEF Next

LEMMA RetryStep == TypeOK /\ BitInv /\ RetryInSight /\ [Next]_vars => RetryInSight'
<1> SUFFICES ASSUME TypeOK, BitInv, RetryInSight, [Next]_vars,
                    want', events' = <<>>, \A c \in Callers : caller'[c] # "kick",
                    link'.phase = "idle", ~refused'
             PROVE  timer' = "armed"
  BY DEF RetryInSight
<1>1. CASE /\ link' = link /\ events' = events /\ want' = want /\ timer' = timer
           /\ refused' = refused
           /\ \A c \in Callers : caller[c] = "kick" => caller'[c] = "kick"
  BY <1>1, Zenon DEF RetryInSight
(* The last event under way: had it been an address, the link would be up. *)
<1>2. ~ /\ events # <<>> /\ events' = Tail(events) /\ link' = link
         /\ Head(events) = "ip"
  <2> SUFFICES ASSUME events # <<>>, events' = Tail(events), link' = link, Head(events) = "ip"
               PROVE  FALSE
    OBVIOUS
  <2>1. events \in Seq({"disc", "ip"})
    BY DEF TypeOK, WifiTypeOK
  <2>2. After(Tail(events), TRUE) <=> After(events, bits.connected)
    BY <2>1, AfterTail
  <2>3. After(events, bits.connected)
    BY <2>2 DEF After
  <2> QED
    BY <2>3 DEF BitInv
<1> QED
  BY <1>1, <1>2, RetryChanges

-----------------------------------------------------------------------------
(* What setup stores. *)

(* A step of the Wi-Fi manager, or a call into it, makes no sign of a      *)
(* lease but by taking one.                                                *)
LEMMA NoSignKept ==
  ASSUME TypeOK, NoSign, UNCHANGED task, ~leased',
         \/ WifiStep
         \/ \E f : ApStop(f)
         \/ \E c \in Callers, n \in Networks \cup {NoNet} : StaConnect(c, n)
  PROVE  NoSign'
<1>0. /\ link.phase # "up" /\ bits.connected = FALSE
      /\ \A i \in 1 .. Len(events) : events[i] # "ip"
      /\ \A c \in Callers : caller[c] # "ok"
      /\ \A t \in Tasks : task[t] # "store"
  BY DEF NoSign, TypeOK, WifiTypeOK
<1>1. /\ caller \in [Callers -> {"idle", "kick", "wait", "ok", "failed", "timeout"}]
      /\ bits \in [connected : BOOLEAN, failed : BOOLEAN]
      /\ events \in Seq({"disc", "ip"})
  BY DEF TypeOK, WifiTypeOK
<1> SUFFICES /\ link'.phase # "up" /\ bits'.connected = FALSE
             /\ \A i \in 1 .. Len(events') : events'[i] # "ip"
             /\ \A c \in Callers : caller'[c] # "ok"
  BY <1>0 DEF NoSign
(* "disc" brings no sign. *)
<1>2. ASSUME events' = Append(events, "disc")
      PROVE  \A i \in 1 .. Len(events') : events'[i] # "ip"
  <2> DEFINE q == Append(events, "disc")
  <2>1. /\ Len(q) = Len(events) + 1 /\ Len(events) \in Nat
        /\ \A i \in 1 .. Len(events) : q[i] = events[i]
        /\ q[Len(events) + 1] = "disc"
    BY <1>1, AppendProperties, LenProperties
  <2>2. events' = q
    BY <1>2
  <2> HIDE DEF q
  <2>3. \A i \in 1 .. Len(q) : q[i] # "ip"
    BY <1>0, <2>1
  <2> QED
    BY <2>2, <2>3
<1>3. ASSUME Disconnects
      PROVE  \A i \in 1 .. Len(events') : events'[i] # "ip"
  BY <1>0, <1>2, <1>3 DEF Disconnects
<1>4. CASE AirChanges \/ FallbackIdles \/ FallbackCounts \/ FallbackFails \/ FallbackRaises
  BY <1>0, <1>4
     DEF AirChanges, FallbackIdles, FallbackCounts, FallbackFails, FallbackRaises, radio
<1>5. ~LinkJoins
  BY DEF LinkJoins
<1>6. CASE LinkFails
  <2>1. /\ link' = NoLink /\ events' = Append(events, "disc") /\ UNCHANGED <<bits, caller>>
    BY <1>6 DEF LinkFails
  <2> QED
    BY <1>0, <1>2, <2>1 DEF NoLink
<1>7. CASE OnDisconnected
  <2>1. /\ events # <<>> /\ events' = Tail(events) /\ bits'.connected = FALSE
        /\ caller' = caller \/ caller' = Woken("failed")
    BY <1>7 DEF OnDisconnected, RetriesUp
  <2>2. link'.phase # "up"
    BY <1>0, <1>7 DEF OnDisconnected, ReconnectLater, Connects
  <2>3. \A c \in Callers : caller'[c] # "ok"
    BY <1>0, <1>1, <2>1 DEF Woken
  <2>4. /\ Len(events') = Len(events) - 1 /\ Len(events) \in Nat \ {0}
        /\ \A i \in 1 .. Len(events') : events'[i] = events[i + 1]
    BY <1>1, <2>1, HeadTailProperties, LenProperties, EmptySeq
  <2>5. \A i \in 1 .. Len(events') : events'[i] # "ip"
    BY <1>0, <2>4
  <2> QED
    BY <2>1, <2>2, <2>3, <2>5
<1>8. ~OnGotIp
  <2> SUFFICES ASSUME OnGotIp PROVE FALSE
    OBVIOUS
  <2>1. 1 \in 1 .. Len(events) /\ events[1] = "ip"
    BY <1>1, HeadTailProperties, LenProperties, EmptySeq DEF OnGotIp
  <2> QED
    BY <1>0, <2>1
<1>9. CASE RetryTimer
  BY <1>0, <1>9 DEF RetryTimer, Connects
<1>10. ASSUME NEW f, ApStop(f)
       PROVE  /\ link'.phase # "up" /\ bits'.connected = FALSE
              /\ \A i \in 1 .. Len(events') : events'[i] # "ip"
              /\ \A c \in Callers : caller'[c] # "ok"
  <2>1. bits'.connected = FALSE /\ UNCHANGED caller /\ Disconnects
    BY <1>0, <1>1, <1>10 DEF ApStop
  <2>2. link'.phase # "up"
    BY <1>10 DEF ApStop, Connects, NoLink
  <2> QED
    BY <1>0, <1>3, <2>1, <2>2
<1>11. ASSUME NEW c \in Callers, StaKick(c)
       PROVE  /\ link'.phase # "up" /\ bits'.connected = FALSE
              /\ \A i \in 1 .. Len(events') : events'[i] # "ip"
              /\ \A d \in Callers : caller'[d] # "ok"
  <2>1. UNCHANGED bits /\ Disconnects
    BY <1>11 DEF StaKick
  <2>2. link'.phase # "up"
    BY <1>11 DEF StaKick, Connects, NoLink
  <2>3. \A d \in Callers : caller'[d] # "ok"
    BY <1>0, <1>1, <1>11 DEF StaKick
  <2> QED
    BY <1>0, <1>3, <2>1, <2>2, <2>3
<1>12. ASSUME NEW c \in Callers, StaTimeout(c)
       PROVE  /\ UNCHANGED <<link, bits, events>>
              /\ \A d \in Callers : caller'[d] # "ok"
  BY <1>0, <1>1, <1>12 DEF StaTimeout, radio
<1>13. ASSUME NEW c \in Callers, NEW n, StaConnect(c, n)
       PROVE  /\ UNCHANGED <<link, events>> /\ bits'.connected = FALSE
              /\ \A d \in Callers : caller'[d] # "ok"
  BY <1>0, <1>1, <1>13 DEF StaConnect
<1>14. CASE FallbackDrops
  BY <1>10, <1>14 DEF FallbackDrops
<1>15. CASE WifiStep
  BY <1>0, <1>4, <1>5, <1>6, <1>7, <1>8, <1>9, <1>11, <1>12, <1>14, <1>15
     DEF WifiStep, Radio, OnEvent, FallbackTick
<1> QED
  BY <1>0, <1>10, <1>13, <1>15

LEMMA LeaseStep == TypeOK /\ LeaseInv /\ [Next]_vars => LeaseInv'
<1> SUFFICES ASSUME TypeOK, LeaseInv, [Next]_vars, ~leased'
             PROVE  NoSign' /\ (main # "teardown")' /\ Unstored'
  BY DEF LeaseInv
<1>0. ~leased
  <2>1. leased' = leased \/ leased' = TRUE
    BY Changes
  <2> QED
    BY <2>1, Zenon
<1>1. NoSign /\ main # "teardown" /\ Unstored
  BY <1>0 DEF LeaseInv
<1>2. task \in [Tasks -> {"none", "start", "connect", "store", "over"}] /\ cfg \in Settings
      /\ pending \in Settings
  BY DEF TypeOK
<1>3. ASSUME UNCHANGED wvars, \A t \in Tasks : task'[t] # "store"
      PROVE  NoSign'
  BY <1>1, <1>3 DEF NoSign, wvars
<1>4. CASE UNCHANGED vars
  BY <1>1, <1>3, <1>4 DEF vars, svars, NoSign, Unstored
<1>5. CASE WifiStep /\ UNCHANGED svars
  BY <1>1, <1>5, NoSignKept DEF svars, Unstored
<1>6. CASE MainJoins
  <2>1. \E c \in Callers, n \in Networks \cup {NoNet} : StaConnect(c, n)
    BY <1>2, <1>6, SetupAssumption DEF MainJoins, Settings
  <2>2. NoSign'
    BY <1>1, <1>6, <2>1, NoSignKept DEF MainJoins
  <2> QED
    BY <1>6, <2>2 DEF MainJoins, Unstored
<1>7. ASSUME NEW e \in BOOLEAN, MainArms(e)
      PROVE  NoSign' /\ (main # "teardown")' /\ Unstored'
  <2>1. UNCHANGED <<link, bits, events, caller, task>> /\ main' = "run"
    BY <1>7 DEF MainArms, SetFallbackAp, radio
  <2> QED
    BY <1>1, <2>1 DEF NoSign, Unstored
<1>8. CASE FormRefused
  BY <1>1, <1>3, <1>8 DEF FormRefused, NoSign, Unstored
<1>9. CASE FormAp
  <2>1. /\ UNCHANGED <<wvars, task>> /\ main' \in {main, "rebooting"}
        /\ main' = "rebooting" \/ nvs' = nvs
    BY <1>9 DEF FormAp
  <2> QED
    BY <1>1, <1>3, <2>1 DEF NoSign, Unstored
<1>10. ASSUME NEW t \in Tasks, NEW n \in Networks, FormStation(t, n)
       PROVE  NoSign' /\ (main # "teardown")' /\ Unstored'
  <2>1. UNCHANGED <<wvars, main, nvs>> /\ task' = [task EXCEPT ![t] = "start"]
    BY <1>10 DEF FormStation
  <2>2. \A u \in Tasks : task'[u] # "store"
    BY <1>1, <1>2, <2>1 DEF NoSign
  <2> QED
    BY <1>1, <1>3, <2>1, <2>2 DEF Unstored
<1>11. ASSUME NEW t \in Tasks, TaskStep(t)
       PROVE  NoSign' /\ (main # "teardown")' /\ Unstored'
  <2>1. ~TaskTakes(t) /\ ~TaskStores(t)
    BY <1>1, SetupAssumption DEF TaskTakes, TaskStores, NoSign
  <2>2. CASE TaskFails(t)
    <3>1. UNCHANGED <<wvars, main, nvs>> /\ task' = [task EXCEPT ![t] = "over"]
      BY <2>2 DEF TaskFails
    <3>2. \A u \in Tasks : task'[u] # "store"
      BY <1>1, <1>2, <3>1 DEF NoSign
    <3> QED
      BY <1>1, <1>3, <3>1, <3>2 DEF Unstored
  <2>3. CASE TaskConnects(t)
    <3>1. /\ UNCHANGED <<main, nvs, link, events>> /\ bits'.connected = FALSE
          /\ task' = [task EXCEPT ![t] = "connect"]
          /\ caller' = [caller EXCEPT ![t] = "kick"]
      BY <2>3 DEF TaskConnects, StaConnect
    <3>2. \A u \in Tasks : task'[u] # "store"
      BY <1>1, <1>2, <3>1 DEF NoSign
    <3>3. \A c \in Callers : caller'[c] # "ok"
      BY <1>1, <3>1 DEF NoSign, TypeOK, WifiTypeOK
    <3>4. NoSign'
      BY <1>1, <3>1, <3>2, <3>3 DEF NoSign
    <3> QED
      BY <1>1, <3>1, <3>4 DEF Unstored
  <2> QED
    BY <1>11, <2>1, <2>2, <2>3 DEF TaskStep
<1>12. ~PortalCloses
  BY <1>1 DEF PortalCloses
<1> QED
  BY <1>4, <1>5, <1>6, <1>7, <1>8, <1>9, <1>10, <1>11, <1>12 DEF Next

-----------------------------------------------------------------------------
LEMMA NextInv == IInv /\ [Next]_vars => IInv'
BY TypesStep, BitStep, RetryStep, LeaseStep DEF IInv

LEMMA Invariant == Spec => []IInv
BY InitInv, NextInv, PTL DEF Spec

(* The states of app_main, provisioning.c and wifi_mgr.c are the ones      *)
(* their types allow, with any number of connect_tasks inside              *)
(* wifi_mgr_sta_connect at once; the supervisor's down_ms never runs past  *)
(* after_ms.                                                               *)
THEOREM SetupTyped == Spec => []TypeOK
<1>1. IInv => TypeOK
  BY DEF IInv
<1> QED
  BY <1>1, Invariant, PTL

(* BIT_CONNECTED (on_event, wifi_mgr_sta_connect) is the truth whenever    *)
(* no event is under way and no caller is between clearing the bits and    *)
(* dropping the link.                                                      *)
THEOREM BitIsTruth == Spec => []BitTellsTruth
<1>1. IInv => BitTellsTruth
  <2> SUFFICES ASSUME IInv, events = <<>>, \A c \in Callers : caller[c] # "kick"
               PROVE  bits.connected <=> link.phase = "up"
    BY DEF BitTellsTruth
  <2>1. /\ After(events, bits.connected) => link.phase = "up"
        /\ link.phase = "up" => After(events, bits.connected)
    BY DEF IInv, BitInv, Kicking
  <2>2. After(events, bits.connected) <=> bits.connected
    BY DEF After
  <2> QED
    BY <2>1, <2>2
<1> QED
  BY <1>1, Invariant, PTL

(* A station that is wanted has a link, an attempt under way or the retry  *)
(* timer armed, whenever the events are handled and no call is half way:   *)
(* however reconnect_later, retry_timer_cb, wifi_mgr_ap_stop, the fallback *)
(* task and the callers interleave, none of them takes away the last of    *)
(* the three.  NeverStranded rests on it.                                  *)
THEOREM NextAttemptInSight == Spec => []RetryInSight
<1>1. IInv => RetryInSight
  BY DEF IInv
<1> QED
  BY <1>1, Invariant, PTL

(* The portal closes, and connect_task stores a station's settings, only   *)
(* after the station held a lease, with any number of forms and tasks at   *)
(* once, and however late an attempt's events come.                        *)
THEOREM SetupEndsWithALease == Spec => []SetupHadALease
<1>1. IInv => SetupHadALease
  <2> SUFFICES ASSUME IInv, ~leased PROVE ~(main = "teardown" \/
                 (main = "portal" /\ nvs.mode = "station" /\ nvs.provisioned))
    BY DEF SetupHadALease
  <2> QED
    BY DEF IInv, LeaseInv, Unstored, Blank
<1> QED
  BY <1>1, Invariant, PTL
===============================================================================
