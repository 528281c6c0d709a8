---------------------------- MODULE Bridge_proofs ----------------------------
(***************************************************************************)
(* Proofs about Bridge, for every set of readings: the state is well       *)
(* typed, no outage is made up of missing data, and battery.runtime and LB *)
(* agree.  At the end, proofs about Notify, which the bridge calls: the    *)
(* alerts tell the truth.                                                  *)
(*                                                                         *)
(* NoFalseOutage and RuntimeAgrees speak about moments at which the host   *)
(* task is between two frames.  Before that, while a frame is being        *)
(* published, the outputs it has not yet reached may say anything, and     *)
(* those it has reached say what the frame says, or what the staleness     *)
(* task, which never says "on battery", has put there since.  Shown and    *)
(* Justified say how far that is for each place in bluetti_cb.             *)
(***************************************************************************)
EXTENDS Bridge, Notify, SequenceTheorems, TLAPS

(* The parts of TypeOK. *)
InputsOK ==
  /\ connected \in BOOLEAN /\ fresh \in BOOLEAN
  /\ state \in Readings \cup {NoReading}
BleOK == ble \in [pc : {"idle", "led", "vars", "power", "status", "notify", "wait", "unknown"},
                  st : Readings \cup {NoReading}]
StaleOK == stale \in [pc : {"sleep", "led", "status", "driver", "notify", "observe"},
                      old : BOOLEAN, says : Status]
OutputsOK ==
  /\ status \in Status /\ alerted \in Status
  /\ runtime \in Minutes
  /\ driver \in {"none", "updated", "connected-no-data", "disconnected"}
  /\ led \in {"linked", "boot"}
  /\ observed \in Observations /\ newest \in Observations
  /\ runtime_low \in BOOLEAN

(* The frame being published, and the power it reports. *)
InHand ==
  /\ ble.pc # "idle" => newest = Says(ble.st)
  /\ ble.pc \in {"power", "status", "notify"} => ble.st.sweep_done
  /\ ble.pc \in {"wait", "unknown"} => ~ble.st.sweep_done

(* battery.runtime and ups.status against the frame last taken. *)
Shown ==
  /\ ble.pc \notin {"led", "vars"} => runtime = Runtime(ble.st)
  /\ ble.pc \in {"idle", "unknown", "notify"} => (status = "OB" => StatusOf(ble.st) = "OB")

(* Whatever says "on battery" has the newest frame behind it. *)
Justified ==
  /\ ble.pc \in {"idle", "unknown", "notify"} =>
       (status \in {"OB", "OB LB"} => newest = "battery")
  /\ ble.pc \in {"idle", "status", "notify"} =>
       (observed = "battery" => newest = "battery")

IInv == InputsOK /\ BleOK /\ StaleOK /\ OutputsOK /\ InHand /\ Shown /\ Justified

LEMMA TypeParts == TypeOK <=> InputsOK /\ BleOK /\ StaleOK /\ OutputsOK
  BY Zenon DEF TypeOK, InputsOK, BleOK, StaleOK, OutputsOK

LEMMA NoReadingTyped == NoReading \in Reading
  BY DEF NoReading, Reading, Minutes

LEMMA ReadingsTyped == \A r \in Readings \cup {NoReading} : r \in Reading
  BY NoReadingTyped, BridgeAssumption, Zenon

LEMMA InitInv == Init => IInv
<1> SUFFICES ASSUME Init PROVE IInv
  OBVIOUS
<1>1. InputsOK
  BY DEF Init, InputsOK
<1>2. BleOK
  BY DEF Init, BleOK
<1>3. StaleOK
  BY DEF Init, StaleOK, Status
<1>4. OutputsOK
  BY DEF Init, OutputsOK, Status, Minutes, Observations
<1>5. InHand
  BY DEF Init, InHand
<1>6. Shown
  BY DEF Init, Shown, NoReading, Runtime
<1>7. Justified
  BY DEF Init, Justified
<1> QED
  BY <1>1, <1>2, <1>3, <1>4, <1>5, <1>6, <1>7 DEF IInv

LEMMA NextInv == IInv /\ [Next]_vars => IInv'
<1> SUFFICES ASSUME IInv, [Next]_vars PROVE IInv'
  OBVIOUS
<1>0. InputsOK /\ BleOK /\ StaleOK /\ OutputsOK /\ InHand /\ Shown /\ Justified
  BY DEF IInv
<1>r. ble.st \in Reading
  BY <1>0, ReadingsTyped DEF BleOK
<1>1. CASE LinkUp
  <2>1. InputsOK'
    BY <1>0, <1>1 DEF LinkUp, InputsOK
  <2>2. BleOK' /\ StaleOK' /\ OutputsOK'
    BY <1>0, <1>1 DEF LinkUp, BleOK, StaleOK, OutputsOK
  <2>3. InHand' /\ Shown' /\ Justified'
    BY <1>0, <1>1 DEF LinkUp, InHand, Shown, Justified, StatusOf
  <2> QED
    BY <2>1, <2>2, <2>3 DEF IInv
<1>2. CASE LinkDown
  <2>1. InputsOK'
    BY <1>0, <1>2 DEF LinkDown, InputsOK
  <2>2. BleOK' /\ StaleOK' /\ OutputsOK'
    BY <1>0, <1>2 DEF LinkDown, BleOK, StaleOK, OutputsOK
  <2>3. InHand' /\ Shown' /\ Justified'
    BY <1>0, <1>2 DEF LinkDown, InHand, Shown, Justified, StatusOf
  <2> QED
    BY <2>1, <2>2, <2>3 DEF IInv
<1>3. CASE Ages
  <2>1. InputsOK'
    BY <1>0, <1>3 DEF Ages, InputsOK
  <2>2. BleOK' /\ StaleOK' /\ OutputsOK'
    BY <1>0, <1>3 DEF Ages, BleOK, StaleOK, OutputsOK
  <2>3. InHand' /\ Shown' /\ Justified'
    BY <1>0, <1>3 DEF Ages, InHand, Shown, Justified, StatusOf
  <2> QED
    BY <2>1, <2>2, <2>3 DEF IInv
<1>4. CASE BleLed
  <2>1. BleOK'
    BY <1>0, <1>4 DEF BleLed, BleOK
  <2>2. OutputsOK'
    BY <1>0, <1>4 DEF BleLed, OutputsOK
  <2>3. InHand'
    BY <1>0, <1>4 DEF BleLed, InHand, BleOK
  <2>4. Shown'
    BY <1>0, <1>4 DEF BleLed, Shown, BleOK
  <2>5. Justified'
    BY <1>0, <1>4 DEF BleLed, Justified, BleOK
  <2>6. InputsOK' /\ StaleOK'
    BY <1>0, <1>4 DEF BleLed, InputsOK, StaleOK
  <2> QED
    BY <2>1, <2>2, <2>3, <2>4, <2>5, <2>6 DEF IInv
<1>5. CASE BlePublish
  <2>1. BleOK'
    BY <1>0, <1>5 DEF BlePublish, BleOK
  <2>2. OutputsOK'
    BY <1>0, <1>5, <1>r DEF BlePublish, OutputsOK, Runtime, Minutes, Reading
  <2>3. InHand'
    BY <1>0, <1>5 DEF BlePublish, InHand, BleOK
  <2>4. Shown'
    BY <1>0, <1>5 DEF BlePublish, Shown, BleOK
  <2>5. Justified'
    BY <1>0, <1>5 DEF BlePublish, Justified, BleOK
  <2>6. InputsOK' /\ StaleOK'
    BY <1>0, <1>5 DEF BlePublish, InputsOK, StaleOK
  <2> QED
    BY <2>1, <2>2, <2>3, <2>4, <2>5, <2>6 DEF IInv
<1>6. CASE BleWait
  <2>1. BleOK'
    BY <1>0, <1>6 DEF BleWait, BleOK
  <2>2. OutputsOK'
    BY <1>0, <1>6 DEF BleWait, OutputsOK, Status
  <2>3. InHand'
    BY <1>0, <1>6 DEF BleWait, InHand, BleOK
  <2>4. Shown'
    BY <1>0, <1>6 DEF BleWait, Shown, BleOK
  <2>5. Justified'
    BY <1>0, <1>6 DEF BleWait, Justified, BleOK
  <2>6. InputsOK' /\ StaleOK'
    BY <1>0, <1>6 DEF BleWait, InputsOK, StaleOK
  <2> QED
    BY <2>1, <2>2, <2>3, <2>4, <2>5, <2>6 DEF IInv
<1>7. CASE BleUnknown
  <2>1. BleOK'
    BY <1>0, <1>7 DEF BleUnknown, BleOK
  <2>2. OutputsOK'
    BY <1>0, <1>7 DEF BleUnknown, OutputsOK, Observations
  <2>3. InHand'
    BY <1>0, <1>7 DEF BleUnknown, InHand, BleOK
  <2>4. Shown'
    BY <1>0, <1>7 DEF BleUnknown, Shown, BleOK, StatusOf
  <2>5. Justified'
    BY <1>0, <1>7 DEF BleUnknown, Justified, BleOK
  <2>6. InputsOK' /\ StaleOK'
    BY <1>0, <1>7 DEF BleUnknown, InputsOK, StaleOK
  <2> QED
    BY <2>1, <2>2, <2>3, <2>4, <2>5, <2>6 DEF IInv
<1>8. CASE BleObserve
  <2>1. BleOK'
    BY <1>0, <1>8 DEF BleObserve, BleOK
  <2>2. OutputsOK'
    BY <1>0, <1>8 DEF BleObserve, OutputsOK, Observations
  <2>3. InHand'
    BY <1>0, <1>8 DEF BleObserve, InHand, BleOK
  <2>4. Shown'
    BY <1>0, <1>8 DEF BleObserve, Shown, BleOK
  <2>5. Justified'
    BY <1>0, <1>8 DEF BleObserve, Justified, InHand, BleOK, Says
  <2>6. InputsOK' /\ StaleOK'
    BY <1>0, <1>8 DEF BleObserve, InputsOK, StaleOK
  <2> QED
    BY <2>1, <2>2, <2>3, <2>4, <2>5, <2>6 DEF IInv
<1>9. CASE BleStatus
  <2>1. BleOK'
    BY <1>0, <1>9 DEF BleStatus, BleOK
  <2>2. OutputsOK'
    BY <1>0, <1>9 DEF BleStatus, OutputsOK, StatusOf, Status
  <2>3. InHand'
    BY <1>0, <1>9 DEF BleStatus, InHand, BleOK
  <2>4. Shown'
    BY <1>0, <1>9 DEF BleStatus, Shown, BleOK, StatusOf
  <2>5. Justified'
    BY <1>0, <1>9 DEF BleStatus, Justified, InHand, BleOK, StatusOf, Says
  <2>6. InputsOK' /\ StaleOK'
    BY <1>0, <1>9 DEF BleStatus, InputsOK, StaleOK
  <2> QED
    BY <2>1, <2>2, <2>3, <2>4, <2>5, <2>6 DEF IInv
<1>10. CASE BleNotify
  <2>1. BleOK'
    BY <1>0, <1>10 DEF BleNotify, BleOK
  <2>2. OutputsOK'
    BY <1>0, <1>10 DEF BleNotify, OutputsOK, StatusOf, Status
  <2>3. InHand'
    BY <1>0, <1>10 DEF BleNotify, InHand, BleOK
  <2>4. Shown'
    BY <1>0, <1>10 DEF BleNotify, Shown, BleOK, StatusOf
  <2>5. Justified'
    BY <1>0, <1>10 DEF BleNotify, Justified, BleOK
  <2>6. InputsOK' /\ StaleOK'
    BY <1>0, <1>10 DEF BleNotify, InputsOK, StaleOK
  <2> QED
    BY <2>1, <2>2, <2>3, <2>4, <2>5, <2>6 DEF IInv
<1>11. CASE StaleLook
  <2>1. StaleOK'
    BY <1>0, <1>11 DEF StaleLook, StaleOK
  <2>2. InputsOK' /\ BleOK' /\ OutputsOK'
    BY <1>0, <1>11 DEF StaleLook, InputsOK, BleOK, OutputsOK
  <2>3. InHand' /\ Shown' /\ Justified'
    BY <1>0, <1>11 DEF StaleLook, InHand, Shown, Justified, StatusOf
  <2> QED
    BY <2>1, <2>2, <2>3 DEF IInv
<1>12. CASE StaleLed
  <2>1. StaleOK'
    BY <1>0, <1>12 DEF StaleLed, StaleOK
  <2>2. OutputsOK'
    BY <1>0, <1>12 DEF StaleLed, OutputsOK
  <2>3. InputsOK' /\ BleOK'
    BY <1>0, <1>12 DEF StaleLed, InputsOK, BleOK
  <2>4. InHand' /\ Shown' /\ Justified'
    BY <1>0, <1>12 DEF StaleLed, InHand, Shown, Justified, StatusOf
  <2> QED
    BY <2>1, <2>2, <2>3, <2>4 DEF IInv
<1>13. CASE StaleStatus
  <2>1. StaleOK'
    BY <1>0, <1>13 DEF StaleStatus, StaleOK, Status
  <2>2. OutputsOK'
    BY <1>0, <1>13 DEF StaleStatus, OutputsOK, Status
  <2>3. Shown'
    BY <1>0, <1>13 DEF StaleStatus, Shown, BleOK
  <2>4. Justified'
    BY <1>0, <1>13 DEF StaleStatus, Justified, BleOK
  <2>5. InputsOK' /\ BleOK' /\ InHand'
    BY <1>0, <1>13 DEF StaleStatus, InputsOK, BleOK, InHand
  <2> QED
    BY <2>1, <2>2, <2>3, <2>4, <2>5 DEF IInv
<1>14. CASE StaleDriver
  <2>1. StaleOK'
    BY <1>0, <1>14 DEF StaleDriver, StaleOK
  <2>2. OutputsOK'
    BY <1>0, <1>14 DEF StaleDriver, OutputsOK
  <2>3. InputsOK' /\ BleOK'
    BY <1>0, <1>14 DEF StaleDriver, InputsOK, BleOK
  <2>4. InHand' /\ Shown' /\ Justified'
    BY <1>0, <1>14 DEF StaleDriver, InHand, Shown, Justified, StatusOf
  <2> QED
    BY <2>1, <2>2, <2>3, <2>4 DEF IInv
<1>15. CASE StaleNotify
  <2>1. StaleOK'
    BY <1>0, <1>15 DEF StaleNotify, StaleOK
  <2>2. OutputsOK'
    BY <1>0, <1>15 DEF StaleNotify, OutputsOK, StaleOK
  <2>3. InputsOK' /\ BleOK'
    BY <1>0, <1>15 DEF StaleNotify, InputsOK, BleOK
  <2>4. InHand' /\ Shown' /\ Justified'
    BY <1>0, <1>15 DEF StaleNotify, InHand, Shown, Justified, StatusOf
  <2> QED
    BY <2>1, <2>2, <2>3, <2>4 DEF IInv
<1>16. CASE StaleObserve
  <2>1. StaleOK'
    BY <1>0, <1>16 DEF StaleObserve, StaleOK
  <2>2. OutputsOK'
    BY <1>0, <1>16 DEF StaleObserve, OutputsOK, Observations
  <2>3. Justified'
    BY <1>0, <1>16 DEF StaleObserve, Justified, BleOK
  <2>4. InputsOK' /\ BleOK' /\ InHand' /\ Shown'
    BY <1>0, <1>16 DEF StaleObserve, InputsOK, BleOK, InHand, Shown, StatusOf
  <2> QED
    BY <2>1, <2>2, <2>3, <2>4 DEF IInv
<1>17. ASSUME NEW r \in Readings, Frame(r) PROVE IInv'
  <2>1. InputsOK'
    BY <1>0, <1>17, ReadingsTyped DEF Frame, InputsOK
  <2>2. BleOK'
    BY <1>0, <1>17, ReadingsTyped DEF Frame, BleOK
  <2>3. OutputsOK'
    BY <1>0, <1>17 DEF Frame, OutputsOK, Says, Observations
  <2>4. InHand'
    BY <1>0, <1>17 DEF Frame, InHand, BleOK
  <2>5. Shown'
    BY <1>0, <1>17 DEF Frame, Shown, BleOK
  <2>6. Justified'
    BY <1>0, <1>17 DEF Frame, Justified, BleOK
  <2>7. StaleOK'
    BY <1>0, <1>17 DEF Frame, StaleOK
  <2> QED
    BY <2>1, <2>2, <2>3, <2>4, <2>5, <2>6, <2>7 DEF IInv
<1>18. CASE UNCHANGED vars
  <2>1. InputsOK' /\ BleOK' /\ StaleOK' /\ OutputsOK'
    BY <1>0, <1>18 DEF vars, InputsOK, BleOK, StaleOK, OutputsOK
  <2>2. InHand' /\ Shown' /\ Justified'
    BY <1>0, <1>18 DEF vars, InHand, Shown, Justified, StatusOf
  <2> QED
    BY <2>1, <2>2 DEF IInv
<1> QED
  BY <1>1, <1>2, <1>3, <1>4, <1>5, <1>6, <1>7, <1>8, <1>9, <1>10, <1>11, <1>12, <1>13, <1>14, <1>15, <1>16, <1>17, <1>18 DEF Next, BleStep, StaleStep

LEMMA AlwaysInv == Spec => []IInv
  BY InitInv, NextInv, PTL DEF Spec

(* The state of both publishing tasks and of what they publish is well     *)
(* typed (main.c).                                                         *)
THEOREM BridgeTyped == Spec => []TypeOK
<1>1. IInv => TypeOK
  BY TypeParts DEF IInv
<1> QED
  BY <1>1, AlwaysInv, PTL

(* Neither an unread register nor the staleness task makes an outage out   *)
(* of missing data (publish_nut_from_bluetti, staleness_task).             *)
THEOREM NoOutageMadeUp == Spec => []NoFalseOutage
<1>1. IInv => NoFalseOutage
  BY DEF IInv, Justified, NoFalseOutage
<1> QED
  BY <1>1, AlwaysInv, PTL

(* A unit that estimates its own runtime never shows OB without LB next to *)
(* a runtime at or below battery.runtime.low (publish_nut_from_bluetti).   *)
THEOREM RuntimeAgreesWithLB == Spec => []RuntimeAgrees
<1>1. IInv => RuntimeAgrees
  BY DEF IInv, Shown, RuntimeAgrees, Runtime, StatusOf
<1> QED
  BY <1>1, AlwaysInv, PTL
-----------------------------------------------------------------------------
(***************************************************************************)
(* The other end of notify_ups_status: the alerts (Notify), for any number *)
(* of calling tasks, settings, charges, queue depth and attempts.          *)
(***************************************************************************)
(* Delivering s, the chat goes from knowing t to knowing x. *)
Said(s) == {k \in 1 .. Len(s) : s[k] \in Edges}
Tells(s, t, x) ==
  \/ Said(s) = {} /\ x = t
  \/ \E k \in Said(s) : (\A j \in Said(s) : j <= k) /\ x = s[k]

(* While nothing has slipped, at most one call is in progress, and what is *)
(* owed to the chat ends with the state of the power: the one stored, or   *)
(* the one that call is about to store.                                    *)
Alone(c) == call[c] # NotCalled /\ \A d \in Callers \ {c} : call[d] = NotCalled
ToldInv ==
  ~slipped =>
    \/ Quiet /\ Tells(Owed, told, power)
    \/ \E c \in Callers : Alone(c) /\ Tells(Owed, told, PowerOf(call[c]))

(* A worker that is at work has a message in hand. *)
WorkerHolds == worker # Idle => worker.msg \in Messages

AlertInv == NotifyTypeOK /\ WorkerHolds /\ ToldInv

-----------------------------------------------------------------------------
(* What a sequence of messages tells. *)

LEMMA TellsOne ==
  /\ \A t : Tells(<<>>, t, t) /\ Tells(<<"note">>, t, t)
  /\ \A m \in Edges : \A t : Tells(<<m>>, t, m)
<1>1. "note" \notin Edges
  BY DEF Edges
<1>2. Said(<<>>) = {} /\ Said(<<"note">>) = {}
  BY <1>1 DEF Said
<1>3. ASSUME NEW m \in Edges, NEW t PROVE Tells(<<m>>, t, m)
  <2>1. Said(<<m>>) = {1} /\ <<m>>[1] = m
    BY <1>3 DEF Said
  <2> QED
    BY <2>1 DEF Tells
<1> QED
  BY <1>2, <1>3 DEF Tells

LEMMA TellsConcat ==
  ASSUME NEW s \in Seq(Messages), NEW u \in Seq(Messages), NEW t, NEW x, NEW y,
         Tells(u, y, x), Said(u) # {} \/ Tells(s, t, y)
  PROVE  Tells(s \o u, t, x)
<1> DEFINE r == s \o u
<1>1. /\ Len(s) \in Nat /\ Len(u) \in Nat /\ Len(r) = Len(s) + Len(u)
      /\ \A i \in 1 .. Len(s) + Len(u) :
           r[i] = IF i <= Len(s) THEN s[i] ELSE u[i - Len(s)]
  BY ConcatProperties, LenProperties
<1> HIDE DEF r
<1>2. \A i \in 1 .. Len(s) : i \in Said(r) <=> i \in Said(s)
  BY <1>1 DEF Said
<1>3. \A i \in 1 .. Len(u) : i + Len(s) \in Said(r) <=> i \in Said(u)
  <2> SUFFICES ASSUME NEW i \in 1 .. Len(u)
               PROVE  i + Len(s) \in Said(r) <=> i \in Said(u)
    OBVIOUS
  <2>1. /\ i + Len(s) \in 1 .. Len(s) + Len(u) /\ ~(i + Len(s) <= Len(s))
        /\ (i + Len(s)) - Len(s) = i
    BY <1>1
  <2>2. r[i + Len(s)] = u[i]
    BY <1>1, <2>1
  <2> QED
    BY <1>1, <2>1, <2>2 DEF Said
<1>4. \A i \in Said(r) : i \in Said(s) \/ (i - Len(s) \in Said(u) /\ i > Len(s))
  BY <1>1 DEF Said
<1>5. Said(s) \subseteq 1 .. Len(s) /\ Said(u) \subseteq 1 .. Len(u) /\ Said(r) \subseteq 1 .. Len(r)
  BY DEF Said
<1>6. CASE Said(u) = {} /\ x = y
  <2>1. Said(r) = Said(s)
    BY <1>1, <1>2, <1>4, <1>5, <1>6
  <2>2. \A k \in Said(s) : r[k] = s[k]
    BY <1>1, <1>5
  <2>3. Tells(r, t, y)
    BY <1>6, <2>1, <2>2 DEF Tells
  <2> QED
    BY <1>6, <2>3 DEF r
<1>7. ASSUME NEW k \in Said(u), \A j \in Said(u) : j <= k, x = u[k]
      PROVE  Tells(r, t, x)
  <2>1. k \in 1 .. Len(u) /\ k + Len(s) \in Said(r)
    BY <1>3, <1>5, <1>7
  <2>2. r[k + Len(s)] = u[k]
    <3>1. /\ k + Len(s) \in 1 .. Len(s) + Len(u) /\ ~(k + Len(s) <= Len(s))
          /\ (k + Len(s)) - Len(s) = k
      BY <1>1, <2>1
    <3> QED
      BY <1>1, <3>1
  <2>3. \A j \in Said(r) : j <= k + Len(s)
    BY <1>1, <1>4, <1>5, <1>7, <2>1
  <2> QED
    BY <1>7, <2>1, <2>2, <2>3 DEF Tells
<1> QED
  BY <1>6, <1>7 DEF Tells, r

(* The first message is delivered. *)
LEMMA TellsRest ==
  ASSUME NEW m \in Messages, NEW u \in Seq(Messages), NEW t, NEW x,
         Tells(<<m>> \o u, t, x)
  PROVE  Tells(u, IF m \in Edges THEN m ELSE t, x)
<1> DEFINE r == <<m>> \o u
<1>1. /\ Len(u) \in Nat /\ Len(r) = 1 + Len(u) /\ r[1] = m
      /\ \A i \in 1 .. Len(u) : r[i + 1] = u[i]
  <2>1. <<m>> \in Seq(Messages) /\ Len(<<m>>) = 1 /\ <<m>>[1] = m
    OBVIOUS
  <2>2. /\ Len(u) \in Nat /\ Len(r) = 1 + Len(u)
        /\ \A i \in 1 .. 1 + Len(u) : r[i] = IF i <= 1 THEN m ELSE u[i - 1]
    BY <2>1, ConcatProperties, LenProperties
  <2> HIDE DEF r
  <2> QED
    BY <2>2
<1> HIDE DEF r
<1>2. 1 \in Said(r) <=> m \in Edges
  BY <1>1 DEF Said
<1>3. \A i \in 1 .. Len(u) : i + 1 \in Said(r) <=> i \in Said(u)
  BY <1>1 DEF Said
<1>4. Said(u) \subseteq 1 .. Len(u) /\ Said(r) \subseteq 1 .. Len(u) + 1
  BY <1>1 DEF Said
<1>5. Tells(r, t, x)
  BY DEF r
<1>6. CASE Said(r) = {} /\ x = t
  <2>1. Said(u) = {} /\ m \notin Edges
    BY <1>2, <1>3, <1>4, <1>6
  <2> QED
    BY <1>6, <2>1 DEF Tells
<1>7. ASSUME NEW k \in Said(r), \A j \in Said(r) : j <= k, x = r[k]
      PROVE  Tells(u, IF m \in Edges THEN m ELSE t, x)
  <2>1. CASE k = 1
    <3>1. m \in Edges /\ x = m
      BY <1>1, <1>2, <1>7, <2>1
    <3>2. Said(u) = {}
      BY <1>1, <1>3, <1>4, <1>7, <2>1
    <3> QED
      BY <3>1, <3>2 DEF Tells
  <2>2. CASE k # 1
    <3>1. k - 1 \in 1 .. Len(u) /\ (k - 1) + 1 = k
      BY <1>1, <1>4, <2>2
    <3>2. k - 1 \in Said(u) /\ r[k] = u[k - 1]
      BY <1>1, <1>3, <3>1
    <3>3. \A j \in Said(u) : j <= k - 1
      BY <1>1, <1>3, <1>4, <1>7, <3>1
    <3> QED
      BY <1>7, <3>2, <3>3 DEF Tells
  <2> QED
    BY <2>1, <2>2
<1> QED
  BY <1>5, <1>6, <1>7 DEF Tells

(* WillBeTold is what is told. *)
LEMMA WillTell == ASSUME NEW x, Tells(Owed, told, x) PROVE WillBeTold = x
<1> DEFINE said == {k \in 1 .. Len(Owed) : Owed[k] \in Edges}
           last == CHOOSE k \in said : \A j \in said : j <= k
<1>1. said = Said(Owed)
  BY DEF Said
<1>2. WillBeTold = IF said = {} THEN told ELSE Owed[last]
  BY DEF WillBeTold
<1>3. CASE said = {} /\ x = told
  BY <1>2, <1>3
<1>4. ASSUME NEW k \in said, \A j \in said : j <= k, x = Owed[k]
      PROVE  WillBeTold = x
  <2>1. last \in said /\ \A j \in said : j <= last
    BY <1>4
  <2>2. last \in Int /\ k \in Int
    BY <2>1, <1>4
  <2>3. last = k
    <3> HIDE DEF last
    <3> QED
      BY <1>4, <2>1, <2>2
  <2> QED
    BY <1>2, <1>4, <2>3
<1> QED
  BY <1>1, <1>3, <1>4 DEF Tells

-----------------------------------------------------------------------------
(* The queue (notify_send): it never grows beyond QUEUE_DEPTH, and takes   *)
(* what fits of the messages, the first ones first.                        *)

LEMMA SendKeeps ==
  ASSUME NotifyTypeOK, NEW ms \in Seq(Messages), NotifySend(ms)
  PROVE  /\ q' \in Seq(Messages) /\ Len(q') <= QueueDepth
         /\ \E k \in 0 .. Len(ms) :
              /\ q' = q \o SubSeq(ms, 1, k)
              /\ SubSeq(ms, 1, k) \in Seq(Messages)
              /\ Len(q) < QueueDepth /\ Len(ms) > 0 => k > 0
<1> DEFINE all == q \o ms
           n == IF Len(all) < QueueDepth THEN Len(all) ELSE QueueDepth
           k == n - Len(q)
           us == SubSeq(ms, 1, k)
<1>1. q \in Seq(Messages) /\ QueueDepth \in Nat \ {0} /\ Len(q) <= QueueDepth
  BY NotifyAssumption DEF NotifyTypeOK
<1>2. /\ all \in Seq(Messages) /\ Len(all) = Len(q) + Len(ms)
      /\ Len(q) \in Nat /\ Len(ms) \in Nat
      /\ \A i \in 1 .. Len(q) + Len(ms) :
           all[i] = IF i <= Len(q) THEN q[i] ELSE ms[i - Len(q)]
  BY <1>1, ConcatProperties, LenProperties
<1>3. q' = SubSeq(all, 1, n)
  BY DEF NotifySend
<1> HIDE DEF all
<1>5. /\ n \in Nat /\ n <= QueueDepth /\ n <= Len(all) /\ n >= Len(q)
      /\ k \in 0 .. Len(ms) /\ (Len(q) < QueueDepth /\ Len(ms) > 0 => k > 0)
      /\ n = Len(q) + k
  BY <1>1, <1>2
<1> HIDE DEF n, k
<1>6. \A i \in 1 .. n : all[i] \in Messages
  BY <1>2, <1>5, ElementOfSeq
<1>7. /\ q' \in Seq(Messages) /\ Len(q') = IF 1 <= n THEN n - 1 + 1 ELSE 0
      /\ \A i \in 1 .. n - 1 + 1 : q'[i] = all[1 + i - 1]
  BY <1>3, <1>5, <1>6, SubSeqProperties
<1>8. Len(q') <= QueueDepth /\ Len(q') = n
  BY <1>1, <1>5, <1>7
<1>9. \A i \in 1 .. k : ms[i] \in Messages
  BY <1>2, <1>5, ElementOfSeq
<1>10. /\ us \in Seq(Messages) /\ Len(us) = IF 1 <= k THEN k - 1 + 1 ELSE 0
       /\ \A i \in 1 .. k - 1 + 1 : us[i] = ms[1 + i - 1]
  BY <1>5, <1>9, SubSeqProperties
<1> HIDE DEF us
<1>11. /\ Len(us) = k /\ \A i \in 1 .. k : us[i] = ms[i]
  <2>1. \A i \in 1 .. k : i \in 1 .. k - 1 + 1 /\ 1 + i - 1 = i
    BY <1>5
  <2> QED
    BY <1>5, <1>10, <2>1
<1>12. \A i \in 1 .. n : q'[i] = all[i]
  <2>1. \A i \in 1 .. n : i \in 1 .. n - 1 + 1 /\ 1 + i - 1 = i
    BY <1>5
  <2> QED
    BY <1>7, <2>1
<1> DEFINE r == q \o us
<1>13. /\ r \in Seq(Messages) /\ Len(r) = n
       /\ \A i \in 1 .. n : r[i] = IF i <= Len(q) THEN q[i] ELSE us[i - Len(q)]
  BY <1>1, <1>5, <1>10, <1>11, ConcatProperties, LenProperties
<1> HIDE DEF r
<1>14. ASSUME NEW i \in 1 .. n PROVE q'[i] = r[i]
  <2>1. CASE i <= Len(q)
    BY <1>2, <1>5, <1>12, <1>13, <2>1
  <2>2. CASE i > Len(q)
    <3>1. i - Len(q) \in 1 .. k /\ i \in 1 .. Len(q) + Len(ms) /\ ~(i <= Len(q))
      BY <1>2, <1>5, <2>2
    <3> QED
      BY <1>2, <1>11, <1>12, <1>13, <3>1
  <2> QED
    BY <1>2, <1>5, <2>1, <2>2
<1>15. q' = r
  BY <1>7, <1>8, <1>13, <1>14, SeqEqual
<1> QED
  BY <1>5, <1>7, <1>8, <1>10, <1>15 DEF r, us

(* What notify_ups_status queues, as three parts. *)
EdgePart(s) == Edge(power, PowerOf(s))
LowPart(s) == IF LowEdge(s = "OB LB", PowerOf(s)) THEN <<"note">> ELSE <<>>
ReminderPart(s, soc) == IF Reminds(PowerOf(s), soc) THEN <<"note">> ELSE <<>>
Queued(s, soc) == EdgePart(s) \o LowPart(s) \o ReminderPart(s, soc)

(* An announcement, if there is one, comes first, and only notes follow. *)
LEMMA QueuedShape ==
  ASSUME NEW s, NEW soc
  PROVE  /\ Queued(s, soc) \in Seq(Messages)
         /\ EdgePart(s) \in {<<>>, <<PowerOf(s)>>}
         /\ EdgePart(s) = <<>> =>
              \A i \in 1 .. Len(Queued(s, soc)) : Queued(s, soc)[i] \notin Edges
         /\ EdgePart(s) # <<>> =>
              /\ Len(Queued(s, soc)) > 0
              /\ Queued(s, soc)[1] = PowerOf(s) /\ PowerOf(s) \in Edges
              /\ \A i \in 1 .. Len(Queued(s, soc)) :
                   i # 1 => Queued(s, soc)[i] \notin Edges
<1> DEFINE m == PowerOf(s)
<1>1. m \in Edges /\ "note" \in Messages /\ Edges \subseteq Messages /\ "note" \notin Edges
  BY DEF PowerOf, Messages, Edges
<1>2. EdgePart(s) = <<>> \/ EdgePart(s) = <<m>>
  BY DEF EdgePart, Edge, EdgeMessage
<1>3. LowPart(s) \in {<<>>, <<"note">>} /\ ReminderPart(s, soc) \in {<<>>, <<"note">>}
  BY DEF LowPart, ReminderPart
<1> HIDE DEF m
<1>4. CASE EdgePart(s) = <<>>
  <2>1. \/ Queued(s, soc) = <<>> \o <<>> \o <<>>
        \/ Queued(s, soc) = <<>> \o <<>> \o <<"note">>
        \/ Queued(s, soc) = <<>> \o <<"note">> \o <<>>
        \/ Queued(s, soc) = <<>> \o <<"note">> \o <<"note">>
    BY <1>3, <1>4, Zenon DEF Queued
  <2>2. Queued(s, soc) \in {<<>>, <<"note">>, <<"note", "note">>}
    BY <2>1
  <2>3. /\ Queued(s, soc) \in Seq(Messages)
        /\ \A i \in 1 .. Len(Queued(s, soc)) : Queued(s, soc)[i] = "note"
    <3>1. CASE Queued(s, soc) = <<>>
      <4>1. 1 .. Len(Queued(s, soc)) = {} /\ Queued(s, soc) \in Seq(Messages)
        BY <3>1
      <4> QED
        BY <4>1
    <3>2. CASE Queued(s, soc) = <<"note">>
      BY <1>1, <3>2
    <3>3. CASE Queued(s, soc) = <<"note", "note">>
      BY <1>1, <3>3
    <3> QED
      BY <2>2, <3>1, <3>2, <3>3
  <2> QED
    BY <1>1, <1>4, <2>3
<1>5. CASE EdgePart(s) = <<m>>
  <2>1. \/ Queued(s, soc) = <<m>> \o <<>> \o <<>>
        \/ Queued(s, soc) = <<m>> \o <<>> \o <<"note">>
        \/ Queued(s, soc) = <<m>> \o <<"note">> \o <<>>
        \/ Queued(s, soc) = <<m>> \o <<"note">> \o <<"note">>
    BY <1>3, <1>5, Zenon DEF Queued
  <2>2. Queued(s, soc) \in {<<m>>, <<m, "note">>, <<m, "note", "note">>}
    BY <2>1
  <2> QED
    BY <1>1, <1>5, <2>2 DEF m
<1> QED
  BY <1>2, <1>4, <1>5

LEMMA AlertInit == NotifyInit => AlertInv
<1> SUFFICES ASSUME NotifyInit PROVE AlertInv
  OBVIOUS
<1>1. QueueDepth \in Nat \ {0} /\ SendAttempts \in Nat \ {0}
  BY NotifyAssumption
<1>2. NotifyTypeOK
  <2>1. cfg \in Config
    BY DEF NotifyInit, Config
  <2>2. low_batt \in BOOLEAN /\ recent \in BOOLEAN /\ slipped \in BOOLEAN
    BY Zenon DEF NotifyInit
  <2>3. worker \in [msg : Messages \cup {NoMessage}, attempt : 0 .. SendAttempts - 1]
    BY <1>1 DEF NotifyInit, Idle
  <2>4. q \in Seq(Messages) /\ Len(q) <= QueueDepth /\ decile \in -1 .. 10
    BY <1>1 DEF NotifyInit
  <2>5. /\ power \in Power /\ last_event \in Power /\ told \in Power
        /\ call \in [Callers -> UpsStatus \cup {NotCalled}]
    BY DEF NotifyInit, Power
  <2> QED
    BY <2>1, <2>2, <2>3, <2>4, <2>5 DEF NotifyTypeOK
<1>3. Tells(Owed, told, power)
  <2>1. Owed = <<>> /\ told = power
    BY DEF NotifyInit, Owed
  <2> QED
    BY <2>1, TellsOne
<1>4. Quiet
  BY DEF NotifyInit, Quiet
<1>5. ToldInv
  BY <1>3, <1>4 DEF ToldInv
<1>6. WorkerHolds
  BY DEF WorkerHolds, NotifyInit
<1> QED
  BY <1>2, <1>5, <1>6 DEF AlertInv

(* What a call to notify_ups_status does. *)
LEMMA CallDoes ==
  ASSUME NEW c \in Callers, NEW s \in UpsStatus, NEW soc \in Charges, NotifyEdges(c, s, soc)
  PROVE  /\ NotifySend(Queued(s, soc))
         /\ call[c] = NotCalled /\ cfg.enabled
         /\ call' = [call EXCEPT ![c] = s]
         /\ LET now == PowerOf(s)
                passes == now # power /\ power # "UNKNOWN" /\ GuardAllows(now)
            IN  /\ last_event' = IF passes THEN now ELSE last_event
                /\ recent' = (recent \/ passes)
                /\ slipped' = IF Quiet /\ now = power THEN slipped
                              ELSE ~(Quiet /\ EdgePart(s) # <<>> /\ Len(q) < QueueDepth)
                /\ decile' = CASE now # "BATTERY" -> -1
                               [] now = "BATTERY" /\ ~cfg.on_battery_pct -> decile
                               [] OTHER -> IF decile < 0 \/ Decile(soc) < decile
                                           THEN Decile(soc) ELSE decile
         /\ UNCHANGED <<cfg, power, low_batt, worker, told>>
BY DEF NotifyEdges, Announced, Queued, EdgePart, LowPart, ReminderPart

LEMMA AlertTyped == AlertInv /\ [NotifyNext]_nvars => NotifyTypeOK'
<1> SUFFICES ASSUME NotifyTypeOK, WorkerHolds, [NotifyNext]_nvars PROVE NotifyTypeOK'
  BY DEF AlertInv
<1>0. /\ cfg \in Config /\ power \in Power /\ last_event \in Power
      /\ low_batt \in BOOLEAN /\ recent \in BOOLEAN /\ decile \in -1 .. 10
      /\ call \in [Callers -> UpsStatus \cup {NotCalled}]
      /\ q \in Seq(Messages) /\ Len(q) <= QueueDepth
      /\ worker \in [msg : Messages \cup {NoMessage}, attempt : 0 .. SendAttempts - 1]
      /\ told \in Power /\ slipped \in BOOLEAN
  BY DEF NotifyTypeOK
<1>1. \A s : PowerOf(s) \in {"LINE", "BATTERY", "OFFLINE"}
  BY DEF PowerOf
<1>2. {"LINE", "BATTERY", "OFFLINE"} \subseteq Power
  BY DEF Power
<1>3. Idle \in [msg : Messages \cup {NoMessage}, attempt : 0 .. SendAttempts - 1]
  BY NotifyAssumption DEF Idle
<1>4. CASE UNCHANGED nvars
  BY <1>0, <1>4 DEF NotifyTypeOK, nvars
<1>5. ASSUME NEW c \in Callers, NEW s \in UpsStatus, NEW soc \in Charges, NotifyEdges(c, s, soc)
      PROVE  NotifyTypeOK'
  <2> DEFINE now == PowerOf(s)
             passes == now # power /\ power # "UNKNOWN" /\ GuardAllows(now)
             heard == Quiet /\ EdgePart(s) # <<>> /\ Len(q) < QueueDepth
  <2>1. now \in Power
    BY <1>1, <1>2
  <2>2. /\ last_event' = IF passes THEN now ELSE last_event
        /\ recent' = (recent \/ passes)
        /\ call' = [call EXCEPT ![c] = s]
        /\ UNCHANGED <<cfg, power, low_batt, worker, told>>
    BY <1>5, CallDoes
  <2>3. slipped' = IF Quiet /\ now = power THEN slipped ELSE ~heard
    BY <1>5, CallDoes
  <2>4. decile' \in -1 .. 10
    <3>1. Decile(soc) \in 0 .. 10
      <4>1. soc \in -1 .. 100
        BY <1>5, NotifyAssumption
      <4> QED
        BY <4>1 DEF Decile
    <3>2. decile' \in {-1, decile, Decile(soc)}
      BY <1>5, CallDoes
    <3> QED
      BY <1>0, <3>1, <3>2
  <2>5. q' \in Seq(Messages) /\ Len(q') <= QueueDepth
    BY <1>5, CallDoes, QueuedShape, SendKeeps
  <2> HIDE DEF now, passes, heard
  <2>6. recent' \in BOOLEAN /\ slipped' \in BOOLEAN
    BY <1>0, <2>2, <2>3, Zenon
  <2>7. last_event' \in Power
    BY <1>0, <2>1, <2>2
  <2>8. call' \in [Callers -> UpsStatus \cup {NotCalled}]
    BY <1>0, <2>2
  <2> QED
    BY <1>0, <2>2, <2>4, <2>5, <2>6, <2>7, <2>8 DEF NotifyTypeOK
<1>6. ASSUME NEW c \in Callers, NotifyCommit(c) PROVE NotifyTypeOK'
  <2>1. power' \in Power
    BY <1>1, <1>2, <1>6 DEF NotifyCommit
  <2>2. low_batt' \in BOOLEAN
    BY <1>6, Zenon DEF NotifyCommit
  <2>3. call' \in [Callers -> UpsStatus \cup {NotCalled}]
    BY <1>0, <1>6 DEF NotifyCommit
  <2> QED
    BY <1>0, <1>6, <2>1, <2>2, <2>3 DEF NotifyCommit, NotifyTypeOK
<1>7. ASSUME NEW c \in Configs, NotifyReconfigure(c) PROVE NotifyTypeOK'
  BY <1>0, <1>7, NotifyAssumption DEF NotifyReconfigure, NotifyTypeOK
<1>8. CASE GuardExpires
  BY <1>0, <1>8 DEF GuardExpires, NotifyTypeOK
<1>9. CASE PveEvent
  <2>1. <<"note">> \in Seq(Messages)
    BY DEF Messages
  <2>2. q' \in Seq(Messages) /\ Len(q') <= QueueDepth
    BY <1>9, <2>1, SendKeeps DEF PveEvent
  <2> QED
    BY <1>0, <1>9, <2>2 DEF PveEvent, NotifyTypeOK
<1>10. CASE WorkerReceive
  <2>1. /\ Head(q) \in Messages /\ q' \in Seq(Messages) /\ Len(q') = Len(q) - 1
        /\ Len(q) \in Nat
    BY <1>0, <1>10, HeadTailProperties, LenProperties DEF WorkerReceive
  <2>2. worker' \in [msg : Messages \cup {NoMessage}, attempt : 0 .. SendAttempts - 1]
    BY <1>10, <2>1, NotifyAssumption DEF WorkerReceive
  <2>3. Len(q') <= QueueDepth
    BY <1>0, <2>1, NotifyAssumption
  <2> QED
    BY <1>0, <1>10, <2>1, <2>2, <2>3 DEF WorkerReceive, NotifyTypeOK
<1>11. CASE WorkerDiscards
  <2>1. slipped' \in BOOLEAN
    BY <1>11, Zenon DEF WorkerDiscards
  <2> QED
    BY <1>0, <1>3, <1>11, <2>1 DEF WorkerDiscards, NotifyTypeOK
<1>12. CASE WorkerDelivers
  <2>1. Edges \subseteq Power
    BY DEF Edges, Power
  <2>2. told' \in Power
    BY <1>0, <1>12, <2>1 DEF WorkerDelivers
  <2> QED
    BY <1>0, <1>3, <1>12, <2>2 DEF WorkerDelivers, NotifyTypeOK
<1>13. CASE WorkerFails
  <2>1. worker' \in [msg : Messages \cup {NoMessage}, attempt : 0 .. SendAttempts - 1]
    BY <1>0, <1>3, <1>13, NotifyAssumption DEF WorkerFails
  <2>2. slipped' \in BOOLEAN
    BY <1>13, Zenon DEF WorkerFails
  <2> QED
    BY <1>0, <1>13, <2>1, <2>2 DEF WorkerFails, NotifyTypeOK
<1> QED
  BY <1>4, <1>5, <1>6, <1>7, <1>8, <1>9, <1>10, <1>11, <1>12, <1>13 DEF NotifyNext, WorkerStep
-----------------------------------------------------------------------------
(* What is owed to the chat, step by step. *)

LEMMA OwedGrows ==
  ASSUME NotifyTypeOK, WorkerHolds, NEW ms \in Seq(Messages), q' = q \o ms, worker' = worker
  PROVE  Owed \in Seq(Messages) /\ Owed' = Owed \o ms
<1>1. q \in Seq(Messages)
  BY DEF NotifyTypeOK
<1>2. CASE worker = Idle
  BY <1>1, <1>2 DEF Owed, Idle
<1>3. CASE worker # Idle
  <2>1. Owed = <<worker.msg>> \o q /\ Owed' = <<worker.msg>> \o (q \o ms)
    BY <1>3 DEF Owed, Idle
  <2>2. <<worker.msg>> \in Seq(Messages)
    BY <1>3 DEF WorkerHolds
  <2>3. /\ <<worker.msg>> \o q \in Seq(Messages)
        /\ (<<worker.msg>> \o q) \o ms = <<worker.msg>> \o (q \o ms)
    BY <1>1, <2>2, ConcatProperties, ConcatAssociative
  <2> QED
    BY <2>1, <2>3
<1> QED
  BY <1>2, <1>3

(* Messages are queued: without an announcement nothing new is told; with  *)
(* one that comes first and fits, that is the last thing told.             *)
LEMMA SendTells ==
  ASSUME NotifyTypeOK, WorkerHolds, NEW ms \in Seq(Messages), NotifySend(ms),
         worker' = worker, NEW t
  PROVE  /\ (\A i \in 1 .. Len(ms) : ms[i] \notin Edges) =>
              \A y : Tells(Owed, t, y) => Tells(Owed', t, y)
         /\ /\ Len(q) < QueueDepth /\ Len(ms) > 0 /\ ms[1] \in Edges
            /\ \A i \in 1 .. Len(ms) : i # 1 => ms[i] \notin Edges
            => Tells(Owed', t, ms[1])
<1>1. PICK k \in 0 .. Len(ms) :
        /\ q' = q \o SubSeq(ms, 1, k)
        /\ SubSeq(ms, 1, k) \in Seq(Messages)
        /\ Len(q) < QueueDepth /\ Len(ms) > 0 => k > 0
  BY SendKeeps
<1> DEFINE us == SubSeq(ms, 1, k)
<1>2. /\ Len(ms) \in Nat /\ \A i \in 1 .. Len(ms) : ms[i] \in Messages
  BY ElementOfSeq, LenProperties
<1>3. /\ Len(us) = k /\ \A i \in 1 .. k : us[i] = ms[i]
  <2>1. /\ Len(us) = (IF 1 <= k THEN k - 1 + 1 ELSE 0)
        /\ \A i \in 1 .. k - 1 + 1 : us[i] = ms[1 + i - 1]
    <3>1. \A i \in 1 .. k : ms[i] \in Messages
      BY <1>2
    <3> QED
      BY <1>2, <3>1, SubSeqProperties
  <2> HIDE DEF us
  <2>2. \A i \in 1 .. k : i \in 1 .. k - 1 + 1 /\ 1 + i - 1 = i
    BY <1>2
  <2> QED
    BY <1>2, <2>1, <2>2
<1>4. us \in Seq(Messages) /\ Owed \in Seq(Messages) /\ Owed' = Owed \o us
  BY <1>1, OwedGrows
<1> HIDE DEF us
<1>5. ASSUME \A i \in 1 .. Len(ms) : ms[i] \notin Edges, NEW y, Tells(Owed, t, y)
      PROVE  Tells(Owed', t, y)
  <2>1. Said(us) = {}
    BY <1>2, <1>3, <1>5 DEF Said
  <2>2. Tells(us, y, y)
    BY <2>1 DEF Tells
  <2> QED
    BY <1>4, <1>5, <2>2, TellsConcat
<1>6. ASSUME Len(q) < QueueDepth, Len(ms) > 0, ms[1] \in Edges,
             \A i \in 1 .. Len(ms) : i # 1 => ms[i] \notin Edges
      PROVE  Tells(Owed', t, ms[1])
  <2>1. k > 0
    BY <1>1, <1>6
  <2>2. Said(us) = {1} /\ us[1] = ms[1]
    BY <1>2, <1>3, <1>6, <2>1 DEF Said
  <2>3. Tells(us, t, ms[1]) /\ Said(us) # {}
    BY <2>2 DEF Tells
  <2> QED
    BY <1>4, <2>3, TellsConcat
<1> QED
  BY <1>5, <1>6

(* A call with N to itself: unless it slips, what is owed ends with the    *)
(* change it will store.                                                   *)
LEMMA CallTells ==
  ASSUME AlertInv, Quiet,
         NEW c \in Callers, NEW s \in UpsStatus, NEW soc \in Charges,
         NotifyEdges(c, s, soc), ~slipped'
  PROVE  Tells(Owed', told', PowerOf(s))
<1> DEFINE ms == Queued(s, soc)
           now == PowerOf(s)
<1>1. /\ NotifySend(ms) /\ worker' = worker /\ told' = told
      /\ slipped' = IF now = power THEN slipped
                    ELSE ~(EdgePart(s) # <<>> /\ Len(q) < QueueDepth)
  BY CallDoes
<1>2. NotifyTypeOK /\ WorkerHolds /\ ToldInv
  BY DEF AlertInv
<1>3. \A d \in Callers : ~Alone(d)
  BY DEF Quiet, Alone
<1>4. CASE now = power
  <2>1. Tells(Owed, told, now)
    BY <1>1, <1>2, <1>3, <1>4 DEF ToldInv
  <2>2. EdgePart(s) = <<>>
    BY <1>4 DEF EdgePart, Edge
  <2> HIDE DEF ms, now
  <2>3. ms \in Seq(Messages) /\ \A i \in 1 .. Len(ms) : ms[i] \notin Edges
    BY <2>2, QueuedShape DEF ms
  <2> QED
    BY <1>1, <1>2, <2>1, <2>3, SendTells DEF now
<1>5. CASE now # power
  <2>1. EdgePart(s) # <<>> /\ Len(q) < QueueDepth
    BY <1>1, <1>5
  <2> HIDE DEF ms
  <2>2. /\ ms \in Seq(Messages) /\ Len(ms) > 0 /\ ms[1] = now /\ now \in Edges
        /\ \A i \in 1 .. Len(ms) : i # 1 => ms[i] \notin Edges
    BY <2>1, QueuedShape DEF ms
  <2> HIDE DEF now
  <2>4. Tells(Owed', told, ms[1])
    BY <1>1, <1>2, <2>1, <2>2, SendTells
  <2> QED
    BY <1>1, <2>2, <2>4 DEF now
<1> QED
  BY <1>4, <1>5

LEMMA ToldStep ==
  AlertInv /\ [NotifyNext]_nvars => (WorkerHolds /\ ToldInv)'
<1> SUFFICES ASSUME AlertInv, [NotifyNext]_nvars PROVE (WorkerHolds /\ ToldInv)'
  OBVIOUS
<1>0. NotifyTypeOK /\ WorkerHolds /\ ToldInv
  BY DEF AlertInv
<1>1. /\ q \in Seq(Messages) /\ call \in [Callers -> UpsStatus \cup {NotCalled}]
      /\ NotCalled \notin UpsStatus
  BY <1>0 DEF NotifyTypeOK, UpsStatus, NotCalled
(* Steps that leave what is owed, or tell some of it, and change no call. *)
<1>2. ASSUME UNCHANGED <<power, call>>, ~slipped' => ~slipped,
             \A x : ~slipped' /\ Tells(Owed, told, x) => Tells(Owed', told', x)
      PROVE  ToldInv'
  <2>1. Quiet' = Quiet /\ \A c \in Callers : Alone(c)' <=> Alone(c)
    BY <1>2 DEF Quiet, Alone
  <2> QED
    BY <1>0, <1>2, <2>1 DEF ToldInv
<1>3. ASSUME UNCHANGED <<q, worker>> PROVE Owed' = Owed /\ WorkerHolds'
  BY <1>0, <1>3 DEF Owed, WorkerHolds
<1>4. CASE UNCHANGED nvars
  BY <1>2, <1>3, <1>4 DEF nvars
<1>5. ASSUME NEW c \in Callers, NEW s \in UpsStatus, NEW soc \in Charges, NotifyEdges(c, s, soc)
      PROVE  (WorkerHolds /\ ToldInv)'
  <2>1. WorkerHolds'
    BY <1>0, <1>5, CallDoes DEF WorkerHolds
  <2>2. call' = [call EXCEPT ![c] = s] /\ call[c] = NotCalled
    BY <1>5, CallDoes
  <2>3. ASSUME ~slipped' PROVE Quiet
    BY <1>5, <2>3, CallDoes
  <2>4. ASSUME ~slipped' PROVE Alone(c)' /\ call'[c] = s
    BY <1>1, <2>2, <2>3, <2>4 DEF Alone, Quiet
  <2>5. ASSUME ~slipped' PROVE Tells(Owed', told', PowerOf(s))
    BY <1>5, <2>3, <2>5, CallTells
  <2> QED
    BY <2>1, <2>4, <2>5 DEF ToldInv
<1>6. ASSUME NEW c \in Callers, NotifyCommit(c) PROVE (WorkerHolds /\ ToldInv)'
  <2>1. Owed' = Owed /\ WorkerHolds' /\ told' = told /\ slipped' = slipped
    BY <1>3, <1>6 DEF NotifyCommit
  <2>2. /\ power' = PowerOf(call[c]) /\ call' = [call EXCEPT ![c] = NotCalled]
        /\ call[c] # NotCalled
    BY <1>6 DEF NotifyCommit
  <2>3. ASSUME NEW d \in Callers, Alone(d) PROVE d = c
    BY <2>2, <2>3 DEF Alone
  <2>4. ASSUME ~slipped' PROVE Quiet' /\ Tells(Owed, told, PowerOf(call[c]))
    <3>1. Alone(c) /\ Tells(Owed, told, PowerOf(call[c]))
      BY <1>0, <2>1, <2>2, <2>3, <2>4 DEF ToldInv, Quiet
    <3> QED
      BY <1>1, <2>2, <3>1 DEF Alone, Quiet
  <2> QED
    BY <2>1, <2>2, <2>4 DEF ToldInv
<1>7. ASSUME NEW c \in Configs, NotifyReconfigure(c) PROVE (WorkerHolds /\ ToldInv)'
  BY <1>2, <1>3, <1>7 DEF NotifyReconfigure
<1>8. CASE GuardExpires
  BY <1>2, <1>3, <1>8 DEF GuardExpires
<1>9. CASE PveEvent
  <2>1. <<"note">> \in Seq(Messages) /\ \A i \in 1 .. Len(<<"note">>) : <<"note">>[i] \notin Edges
    BY DEF Messages, Edges
  <2>2. WorkerHolds'
    BY <1>0, <1>9 DEF PveEvent, WorkerHolds
  <2>3. NotifySend(<<"note">>) /\ UNCHANGED <<power, call, worker, told, slipped>>
    BY <1>9 DEF PveEvent
  <2>4. \A x : Tells(Owed, told, x) => Tells(Owed', told', x)
    BY <1>0, <2>1, <2>3, SendTells
  <2> QED
    BY <1>2, <2>2, <2>3, <2>4
<1>10. CASE WorkerReceive
  <2>1. Head(q) \in Messages /\ q = <<Head(q)>> \o Tail(q)
    <3>1. /\ q # <<>> /\ Head(q) \in Messages /\ Head(q) = q[1]
          /\ Tail(q) = SubSeq(q, 2, Len(q)) /\ SubSeq(q, 1, Len(q)) = q
      BY <1>1, <1>10, HeadTailProperties, TailIsSubSeq, SubSeqFull DEF WorkerReceive
    <3>2. 1 \in 1 .. Len(q) /\ Len(q) \in 1 .. Len(q) /\ 1 + 1 = 2
      BY <1>1, <3>1, EmptySeq, LenProperties
    <3>3. SubSeq(q, 1, Len(q)) = <<q[1]>> \o SubSeq(q, 1 + 1, Len(q))
      BY <1>1, <3>2, SubSeqRecursiveFirst
    <3> QED
      BY <3>1, <3>2, <3>3
  <2>2. worker' = [msg |-> Head(q), attempt |-> 0] /\ q' = Tail(q) /\ worker = Idle
    BY <1>10 DEF WorkerReceive
  <2>3. worker' # Idle /\ worker'.msg = Head(q)
    BY <2>1, <2>2 DEF Idle, NoMessage, Messages, Edges
  <2>4. Owed' = Owed
    BY <2>1, <2>2, <2>3 DEF Owed, Idle
  <2>5. WorkerHolds'
    BY <2>1, <2>3 DEF WorkerHolds
  <2> QED
    BY <1>2, <1>10, <2>4, <2>5 DEF WorkerReceive
(* The message in hand is dropped, and it is not the newest announcement. *)
<1>14. ASSUME NEW x, worker # Idle, ~HoldsNewest, Tells(Owed, told, x)
       PROVE  Tells(q, told, x)
  <2>1. Owed = <<worker.msg>> \o q
    BY <1>14 DEF Owed
  <2>2. worker.msg \in Messages
    BY <1>0, <1>14 DEF WorkerHolds
  <2>3. Tells(q, IF worker.msg \in Edges THEN worker.msg ELSE told, x)
    BY <1>1, <1>14, <2>1, <2>2, TellsRest
  <2>4. worker.msg \notin Edges \/ Said(q) # {}
    BY <1>14 DEF HoldsNewest, Said
  <2> QED
    BY <2>3, <2>4 DEF Tells
<1>11. CASE WorkerDiscards
  <2>1. /\ worker # Idle /\ worker' = Idle /\ UNCHANGED <<q, power, call, told>>
        /\ slipped' = (slipped \/ HoldsNewest)
    BY <1>11 DEF WorkerDiscards
  <2>2. WorkerHolds' /\ Owed' = q
    BY <2>1 DEF WorkerHolds, Owed
  <2> QED
    BY <1>2, <1>14, <2>1, <2>2
<1>12. CASE WorkerDelivers
  <2>1. /\ worker # Idle /\ worker' = Idle /\ q' = q
        /\ told' = IF worker.msg \in Edges THEN worker.msg ELSE told
        /\ UNCHANGED <<power, call, slipped>>
    BY <1>12 DEF WorkerDelivers
  <2>2. WorkerHolds'
    BY <2>1 DEF WorkerHolds, Idle
  <2>3. Owed = <<worker.msg>> \o q /\ Owed' = q
    BY <2>1 DEF Owed, Idle
  <2>4. worker.msg \in Messages
    BY <1>0, <2>1 DEF WorkerHolds
  <2>5. ASSUME NEW x, Tells(Owed, told, x) PROVE Tells(Owed', told', x)
    <3>1. Tells(q, IF worker.msg \in Edges THEN worker.msg ELSE told, x)
      BY <1>1, <2>3, <2>4, <2>5, TellsRest
    <3> QED
      BY <2>1, <2>3, <3>1
  <2> QED
    BY <1>2, <2>1, <2>2, <2>5
<1>13. CASE WorkerFails
  <2>1. /\ worker # Idle /\ UNCHANGED <<q, power, call, told>>
        /\ \/ worker'.msg = worker.msg /\ worker' # Idle /\ slipped' = slipped
           \/ worker' = Idle /\ slipped' = (slipped \/ HoldsNewest)
    <3>1. worker.msg # NoMessage /\ worker \in [msg : Messages \cup {NoMessage}, attempt : 0 .. SendAttempts - 1]
      BY <1>0, <1>13 DEF WorkerFails, WorkerHolds, NotifyTypeOK, NoMessage, Messages, Edges
    <3>2. \A k : [worker EXCEPT !.attempt = k] # Idle /\ [worker EXCEPT !.attempt = k].msg = worker.msg
      BY <3>1 DEF Idle
    <3>3. CASE worker.attempt + 1 >= SendAttempts
      BY <1>13, <3>3, Zenon DEF WorkerFails
    <3>4. CASE ~(worker.attempt + 1 >= SendAttempts)
      <4>1. /\ worker' = [worker EXCEPT !.attempt = @ + 1] /\ worker # Idle
            /\ slipped' = (slipped \/ FALSE) /\ UNCHANGED <<q, power, call, told>>
        BY <1>13, <3>4 DEF WorkerFails
      <4>2. slipped' = slipped
        BY <1>0, <4>1 DEF NotifyTypeOK
      <4> QED
        BY <3>2, <4>1, <4>2
    <3> QED
      BY <3>3, <3>4
  <2>2. WorkerHolds'
    BY <1>0, <2>1 DEF WorkerHolds, Idle
  <2>3. CASE worker'.msg = worker.msg /\ worker' # Idle /\ slipped' = slipped
    <3>1. Owed' = Owed
      BY <2>1, <2>3 DEF Owed, Idle
    <3> QED
      BY <1>2, <2>1, <2>2, <2>3, <3>1
  <2>4. CASE worker' = Idle /\ slipped' = (slipped \/ HoldsNewest)
    <3>1. Owed' = q
      BY <2>1, <2>4 DEF Owed
    <3> QED
      BY <1>2, <1>14, <2>1, <2>2, <2>4, <3>1
  <2> QED
    BY <2>1, <2>3, <2>4
<1> QED
  BY <1>4, <1>5, <1>6, <1>7, <1>8, <1>9, <1>10, <1>11, <1>12, <1>13 DEF NotifyNext, WorkerStep

-----------------------------------------------------------------------------
LEMMA AlertInvariant == NotifySpec => []AlertInv
<1>1. NotifyInit => AlertInv
  BY AlertInit
<1>2. AlertInv /\ [NotifyNext]_nvars => AlertInv'
  BY AlertTyped, ToldStep DEF AlertInv
<1> QED
  BY <1>1, <1>2, PTL DEF NotifySpec

(* The alerts' state is well typed: the queue of notify_send never exceeds *)
(* QUEUE_DEPTH, N.batt_decile is -1 or a decile, and the worker never      *)
(* counts more than SEND_ATTEMPTS attempts.                                *)
THEOREM AlertsTyped == NotifySpec => []NotifyTypeOK
<1>1. AlertInv => NotifyTypeOK
  BY DEF AlertInv
<1> QED
  BY <1>1, AlertInvariant, PTL

(* However the calls to notify_ups_status, the repeat guard, the settings  *)
(* and the worker interleave: once one call alone has seen a change and    *)
(* queued its alert, the newest alert in the chat or on its way there is   *)
(* about the state N.power is in, until that alert itself is lost or a     *)
(* change goes unannounced -- whatever was dropped or confused before.     *)
THEOREM ChatIsToldTheTruth == NotifySpec => []ChatTruthful
<1>1. AlertInv => ChatTruthful
  <2> SUFFICES ASSUME AlertInv, Quiet, ~slipped PROVE WillBeTold = power
    BY DEF ChatTruthful
  <2>1. \A c \in Callers : ~Alone(c)
    BY DEF Quiet, Alone
  <2> QED
    BY <2>1, WillTell DEF AlertInv, ToldInv
<1> QED
  BY <1>1, AlertInvariant, PTL
=============================================================================
