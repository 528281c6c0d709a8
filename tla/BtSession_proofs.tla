--------------------------- MODULE BtSession_proofs ---------------------------
(***************************************************************************)
(* Proofs about BtSession, for every set of unit keys and every bound: the *)
(* session is well typed, a secure session has the unit's secret unless it *)
(* refused the unit's last key, and no unit is spoken to in plain Modbus   *)
(* before its own link's fallback timer has run out, save by a callback    *)
(* that was half-way when the link came.                                   *)
(*                                                                         *)
(* Agreement is a fact about messages that cross: the unit may present a   *)
(* new key while our answer to the last one is under way.  The inductive   *)
(* invariant says what every message under way knows (RxInv, TxInv) and    *)
(* that the unit's present key is the last one in rx, or else the one the  *)
(* session has (PeerInv).                                                  *)
(***************************************************************************)
EXTENDS BtSession, SequenceTheorems, TLAPS

(* The types alone. *)
RadioOK == link \in {"down", "up", "sub", "closing"} /\ links \in Challenges
UsOK == s \in Session /\ host \in {"idle", "sent"} /\ made \in Nat /\ spurned \in BOOLEAN
CountsOK == fails \in 0 .. MaxFails /\ junk \in 0 .. MaxJunk
ClockOK ==
  armed \in BOOLEAN /\ timer \in {"idle", "fall"} /\ fell \in BOOLEAN /\ late \in BOOLEAN
WireOK == unit \in Unit /\ rx \in Seq(Message) /\ tx \in Seq(Answer)
Typed == RadioOK /\ UsOK /\ CountsOK /\ ClockOK /\ WireOK

(* The unit has presented a key on this link. *)
Keyed == {"keyed", "locked", "refused"}

(* What is under way in q, from unit u on link n: messages belong to the   *)
(* link; a key or an acceptance has been sent in a phase that has it; the  *)
(* last key is the unit's present one; nothing but noise follows an        *)
(* acceptance.                                                             *)
FromThis(q, u, n) ==
  \A i \in 1 .. Len(q) :
    /\ q[i].iv = n
    /\ q[i].type = "pubkey" => u.phase \in Keyed
    /\ q[i].type = "ok" => u.phase = "locked"
    /\ q[i].type = "pubkey" =>
         q[i].key = u.key \/ \E j \in i + 1 .. Len(q) : q[j].type = "pubkey"
    /\ q[i].type = "ok" => \A j \in i + 1 .. Len(q) : q[j].type \notin {"pubkey", "ok"}
RxInv ==
  /\ link \in {"down", "up"} => rx = <<>>
  /\ FromThis(rx, unit, links)

UnitInv ==
  /\ link \in {"down", "up"} => unit.phase = "quiet"
  /\ unit.phase # "quiet" => unit.encrypts

(* What we have under way in q, with session t on link n: an answer to the *)
(* challenge means that the session has this link's challenge, a key of    *)
(* ours is its one keypair.                                                *)
FromUs(q, t, n) ==
  \A i \in 1 .. Len(q) :
    /\ q[i].type = "creply" => t.have_unsecure /\ t.iv = n
    /\ q[i].type = "pubreply" => q[i].pub = t.kp /\ t.kp # NoKey

(* The same goes for what the unit has accepted, and for the reply kept in *)
(* case it asks again.                                                     *)
TxInv ==
  /\ link \in {"down", "up"} => tx = <<>>
  /\ FromUs(tx, s, links)
  /\ unit.phase \in Keyed => s.have_unsecure /\ s.iv = links
  /\ unit.phase = "locked" => unit.lock = s.kp /\ s.kp # NoKey
  /\ s.pubkey_reply # NoReply =>
       s.pubkey_reply.type = "pubreply" /\ s.pubkey_reply.pub = s.kp /\ s.kp # NoKey

(* Without a key on its way, the session has the unit's, unless it refused *)
(* that one.                                                               *)
PeerInv ==
  unit.phase \in Keyed /\ (\A i \in 1 .. Len(rx) : rx[i].type # "pubkey") =>
    s.plain \/ spurned \/ s.peer_pub = unit.key

(* A secret is the unit's, and nothing under way will change it. *)
SecretInv ==
  /\ s.have_secure =>
       /\ unit.phase = "locked" /\ s.secure_key[1] = unit.lock
       /\ spurned \/ s.secure_key = <<unit.lock, unit.key>>
       /\ \A i \in 1 .. Len(rx) : rx[i].type \notin {"pubkey", "ok"}
  /\ ~s.have_secure => s.secure_key = NoSecret

(* A fallback, done or about to be, is this link's, or was under way when  *)
(* the link came.                                                          *)
PlainInv == s.plain \/ timer = "fall" => fell \/ late

IInv == Typed /\ RxInv /\ UnitInv /\ TxInv /\ PeerInv /\ SecretInv /\ PlainInv

-----------------------------------------------------------------------------
LEMMA InitInv == Init => IInv
<1> SUFFICES ASSUME Init PROVE IInv
  OBVIOUS
<1>1. RadioOK /\ CountsOK
  BY BoundsAssumption DEF Init, RadioOK, CountsOK, Challenges
<1>2. UsOK
  <2>1. s \in Session /\ host \in {"idle", "sent"} /\ made \in Nat
    BY BoundsAssumption
       DEF Init, Session, States, Challenges, Answer, NoReply, NoSecret, NoKey
  <2>2. spurned \in BOOLEAN
    BY Zenon DEF Init
  <2> QED
    BY <2>1, <2>2 DEF UsOK
<1>3. ClockOK
  BY Zenon DEF Init, ClockOK
<1>4. WireOK
  BY EmptySeq DEF Init, WireOK, Unit, NoKey
<1>5. RxInv /\ UnitInv /\ TxInv
  BY DEF Init, RxInv, FromThis, UnitInv, TxInv, FromUs, Keyed
<1>6. PeerInv /\ SecretInv
  BY DEF Init, PeerInv, SecretInv, Keyed
<1>7. PlainInv
  BY Zenon DEF Init, PlainInv
<1> QED
  BY <1>1, <1>2, <1>3, <1>4, <1>5, <1>6, <1>7 DEF IInv, Typed

-----------------------------------------------------------------------------
(* Types. *)

LEMMA ResetTyped ==
  ASSUME NEW t \in Session
  PROVE  bt_session_reset(t) \in Session
<1>1. NoReply \in Answer
  BY BoundsAssumption DEF NoReply, Answer, Challenges, NoKey
<1>2. NoSecret \in Nat \X (UnitKeys \cup {NoKey}) /\ NoKey \in Nat
  BY DEF NoSecret, NoKey
<1> QED
  BY <1>1, <1>2 DEF bt_session_reset, Session, States

LEMMA FromUnitTyped ==
  ASSUME links \in Challenges, NEW k \in UnitKeys \cup {NoKey},
         NEW t \in {"challenge", "pubkey", "ok", "rejected", "accepted", "junk"}
  PROVE  FromUnit(t, k) \in Message
  BY DEF FromUnit, Message

LEMMA TransmitTyped ==
  ASSUME NEW m \in Answer, NEW sent \in BOOLEAN, Transmit(m, sent),
         tx \in Seq(Answer), fails \in 0 .. MaxFails
  PROVE  tx' \in Seq(Answer) /\ fails' \in 0 .. MaxFails
<1>1. CASE sent
  BY <1>1, AppendProperties DEF Transmit
<1>2. CASE ~sent
  BY <1>2, BoundsAssumption DEF Transmit
<1> QED
  BY <1>1, <1>2

LEMMA AppendTwo ==
  ASSUME NEW S, NEW q \in Seq(S), NEW a \in S, NEW b \in S
  PROVE  /\ q \o <<a, b>> \in Seq(S)
         /\ Len(q \o <<a, b>>) = Len(q) + 2
         /\ \A i \in 1 .. Len(q) : (q \o <<a, b>>)[i] = q[i]
         /\ (q \o <<a, b>>)[Len(q) + 1] = a
         /\ (q \o <<a, b>>)[Len(q) + 2] = b
<1> DEFINE t == <<a, b>>
<1>1. t \in Seq(S) /\ Len(t) = 2 /\ t[1] = a /\ t[2] = b
  OBVIOUS
<1> HIDE DEF t
<1>2. /\ q \o t \in Seq(S) /\ Len(q \o t) = Len(q) + Len(t)
      /\ \A i \in 1 .. Len(q) + Len(t) :
           (q \o t)[i] = IF i <= Len(q) THEN q[i] ELSE t[i - Len(q)]
  BY <1>1, ConcatProperties
<1>3. Len(q) \in Nat
  BY LenProperties
<1>4. \A i \in 1 .. Len(q) : (q \o t)[i] = q[i]
  BY <1>1, <1>2, <1>3
<1>5. (q \o t)[Len(q) + 1] = a /\ (q \o t)[Len(q) + 2] = b
  BY <1>1, <1>2, <1>3
<1> QED
  BY <1>1, <1>2, <1>4, <1>5 DEF t

LEMMA FeedTyped == Typed /\ Feed => Typed'
<1> SUFFICES ASSUME Typed, Feed PROVE Typed'
  OBVIOUS
<1>0. /\ s \in Session /\ host \in {"idle", "sent"} /\ made \in Nat
      /\ fails \in 0 .. MaxFails /\ rx \in Seq(Message) /\ tx \in Seq(Answer)
      /\ junk \in 0 .. MaxJunk /\ unit \in Unit
  BY DEF Typed, UsOK, CountsOK, WireOK
<1>s. spurned \in BOOLEAN
  BY DEF Typed, UsOK
<1>1. Feeding
  BY DEF Feed, OnChallenge, OnRepeatedPubkey, OnPeerPubkey, OnPubkeyUnverified,
         OnPubkeyNoKeypair, OnPubkeyUnsigned, PubkeyFails, OnPubkeyAccepted,
         OnPubkeyRefused, FeedIgnored
<1>2. Head(rx) \in Message /\ rx' \in Seq(Message)
  BY <1>0, <1>1, HeadTailProperties DEF Feeding
<1>3. RadioOK' /\ ClockOK' /\ unit' = unit /\ junk' = junk
  BY <1>1 DEF Typed, RadioOK, ClockOK, Feeding, radio, clock
<1> SUFFICES UsOK' /\ fails' \in 0 .. MaxFails /\ tx' \in Seq(Answer)
  BY <1>0, <1>2, <1>3 DEF Typed, CountsOK, WireOK
<1>4. ASSUME NEW sent \in BOOLEAN, OnChallenge(sent)
      PROVE  UsOK' /\ fails' \in 0 .. MaxFails /\ tx' \in Seq(Answer)
  <2>1. [type |-> "creply", pub |-> NoKey, iv |-> Head(rx).iv] \in Answer
    BY <1>2 DEF Message, Answer, NoKey
  <2>2. UsOK'
    BY <1>0, <1>s, <1>2, <1>4 DEF OnChallenge, UsOK, Session, States, Message
  <2> QED
    BY <1>0, <1>4, <2>1, <2>2, TransmitTyped DEF OnChallenge
<1>5. ASSUME NEW sent \in BOOLEAN, OnRepeatedPubkey(sent)
      PROVE  UsOK' /\ fails' \in 0 .. MaxFails /\ tx' \in Seq(Answer)
  <2>1. s.pubkey_reply \in Answer
    BY <1>0 DEF Session
  <2> QED
    BY <1>0, <1>5, <2>1, TransmitTyped DEF OnRepeatedPubkey, UsOK
<1>6. Keypair(s) \in Nat /\ s.kp \in Nat /\ s.iv \in Challenges
  BY <1>0 DEF Keypair, Session
<1>7. ASSUME NEW sent \in BOOLEAN, OnPeerPubkey(sent)
      PROVE  UsOK' /\ fails' \in 0 .. MaxFails /\ tx' \in Seq(Answer)
  <2> DEFINE reply == [type |-> "pubreply", pub |-> Keypair(s), iv |-> s.iv]
  <2>1. reply \in Answer
    BY <1>6 DEF Answer
  <2>2. /\ s' = [s EXCEPT !.peer_pub = Head(rx).key, !.kp = Keypair(s),
                          !.pubkey_reply = reply,
                          !.state = IF sent THEN "PUBKEY" ELSE "FAILED"]
        /\ made' \in {Keypair(s), made} /\ host' = host /\ Transmit(reply, sent)
        /\ spurned' = FALSE
    BY <1>7 DEF OnPeerPubkey
  <2> HIDE DEF reply
  <2>3. s' \in Session
    BY <1>0, <1>2, <1>6, <2>1, <2>2 DEF Session, States, Message
  <2> QED
    BY <1>0, <1>6, <2>1, <2>2, <2>3, TransmitTyped DEF UsOK
<1>8. CASE OnPubkeyUnverified \/ OnPubkeyNoKeypair \/ OnPubkeyUnsigned
  <2>1. fails < MaxFails /\ fails' = fails + 1 /\ tx' = tx /\ host' = host
    BY <1>8 DEF OnPubkeyUnverified, OnPubkeyNoKeypair, OnPubkeyUnsigned, PubkeyFails
  <2>2. s' \in Session
    BY <1>0, <1>2, <1>6, <1>8
       DEF OnPubkeyUnverified, OnPubkeyNoKeypair, OnPubkeyUnsigned, Session, States, Message
  <2>3. made' \in Nat /\ spurned' \in BOOLEAN
    BY <1>0, <1>6, <1>8 DEF OnPubkeyUnverified, OnPubkeyNoKeypair, OnPubkeyUnsigned
  <2>4. fails' \in 0 .. MaxFails
    BY <1>0, <2>1, BoundsAssumption
  <2> QED
    BY <1>0, <2>1, <2>2, <2>3, <2>4 DEF UsOK
<1>9. CASE OnPubkeyAccepted
  BY <1>0, <1>s, <1>9 DEF OnPubkeyAccepted, UsOK, Session, States
<1>10. CASE OnPubkeyRefused
  <2>1. UsOK' /\ tx' = tx
    BY <1>0, <1>s, <1>10 DEF OnPubkeyRefused, UsOK, Session, States
  <2>2. fails' \in 0 .. MaxFails
    BY <1>0, <1>10, BoundsAssumption DEF OnPubkeyRefused
  <2> QED
    BY <1>0, <2>1, <2>2
<1>11. CASE FeedIgnored
  BY <1>0, <1>s, <1>11 DEF FeedIgnored, us, UsOK
<1> QED
  BY <1>4, <1>5, <1>7, <1>8, <1>9, <1>10, <1>11 DEF Feed

LEMMA UnitTyped ==
  ASSUME Typed, UNCHANGED <<radio, us, clock>>, unit' \in Unit, rx' \in Seq(Message),
         tx' \in Seq(Answer), junk' \in 0 .. MaxJunk
  PROVE  Typed'
  BY DEF Typed, RadioOK, UsOK, CountsOK, ClockOK, WireOK, radio, us, clock

LEMMA TypesStep == Typed /\ [Next]_vars => Typed'
<1> SUFFICES ASSUME Typed, [Next]_vars PROVE Typed'
  OBVIOUS
<1>0. /\ link \in {"down", "up", "sub", "closing"} /\ links \in Challenges
      /\ s \in Session /\ host \in {"idle", "sent"} /\ made \in Nat
      /\ fails \in 0 .. MaxFails /\ junk \in 0 .. MaxJunk
      /\ armed \in BOOLEAN /\ timer \in {"idle", "fall"} /\ fell \in BOOLEAN
      /\ late \in BOOLEAN /\ spurned \in BOOLEAN
      /\ unit \in Unit /\ rx \in Seq(Message) /\ tx \in Seq(Answer)
  BY DEF Typed, RadioOK, UsOK, CountsOK, ClockOK, WireOK
<1>1. CASE Connected
  <2>1. RadioOK'
    BY <1>0, <1>1, BoundsAssumption DEF Connected, RadioOK, Challenges
  <2>2. UsOK' /\ CountsOK' /\ WireOK'
    BY <1>0, <1>1, ResetTyped DEF Connected, UsOK, CountsOK, WireOK
  <2>3. ClockOK'
    BY <1>0, <1>1, Zenon DEF Connected, ClockOK
  <2> QED
    BY <2>1, <2>2, <2>3 DEF Typed
<1>2. CASE OnSub \/ PollDrop
  <2>1. RadioOK' /\ UsOK' /\ CountsOK' /\ WireOK'
    BY <1>0, <1>2 DEF OnSub, PollDrop, us, RadioOK, UsOK, CountsOK, WireOK
  <2>2. ClockOK'
    BY <1>0, <1>2, Zenon DEF OnSub, PollDrop, clock, ClockOK
  <2> QED
    BY <2>1, <2>2 DEF Typed
<1>3. CASE Disconnected
  <2>1. unit' \in Unit
    BY <1>0, <1>3 DEF Disconnected, Unit, NoKey
  <2>2. UsOK' /\ CountsOK' /\ RadioOK'
    BY <1>0, <1>3, ResetTyped DEF Disconnected, RadioOK, UsOK, CountsOK
  <2>3. rx' \in Seq(Message) /\ tx' \in Seq(Answer)
    BY <1>3, EmptySeq DEF Disconnected
  <2>4. ClockOK'
    BY <1>0, <1>3, Zenon DEF Disconnected, ClockOK
  <2> QED
    BY <2>1, <2>2, <2>3, <2>4 DEF Typed, WireOK
<1>4. CASE KexExpires
  <2>1. RadioOK' /\ UsOK' /\ CountsOK' /\ WireOK'
    BY <1>0, <1>4 DEF KexExpires, radio, us, RadioOK, UsOK, CountsOK, WireOK
  <2>2. ClockOK'
    BY <1>0, <1>4, Zenon DEF KexExpires, ClockOK
  <2> QED
    BY <2>1, <2>2 DEF Typed
<1>5. CASE KexFalls \/ ChallengeAnswered
  <2>1. s' \in Session
    BY <1>0, <1>5 DEF KexFalls, ChallengeAnswered, Session, States
  <2>2. RadioOK' /\ UsOK' /\ CountsOK' /\ WireOK'
    BY <1>0, <1>5, <2>1
       DEF KexFalls, ChallengeAnswered, radio, RadioOK, UsOK, CountsOK, WireOK
  <2>3. ClockOK'
    BY <1>0, <1>5 DEF KexFalls, ChallengeAnswered, clock, ClockOK
  <2> QED
    BY <2>2, <2>3 DEF Typed
<1>6. CASE Feed
  BY <1>6, FeedTyped
<1>7. NoKey \in UnitKeys \cup {NoKey}
  OBVIOUS
<1>8. CASE UnitChallenges
  <2>1. unit' \in Unit
    BY <1>0, <1>8 DEF UnitChallenges, Unit
  <2>2. rx' \in Seq(Message)
    BY <1>0, <1>7, <1>8, FromUnitTyped, AppendProperties DEF UnitChallenges
  <2> QED
    BY <1>0, <1>8, <2>1, <2>2, UnitTyped DEF UnitChallenges, UnitAlone
<1>9. ASSUME NEW k \in UnitKeys, UnitPresents(k) PROVE Typed'
  <2>1. unit' \in Unit
    BY <1>0, <1>9 DEF UnitPresents, Unit
  <2>2. FromUnit("accepted", NoKey) \in Message /\ FromUnit("pubkey", k) \in Message
    BY <1>0, <1>7, FromUnitTyped
  <2>3. rx' \in Seq(Message)
    BY <1>0, <1>9, <2>2, AppendTwo DEF UnitPresents
  <2>4. tx' \in Seq(Answer)
    BY <1>0, <1>9, HeadTailProperties DEF UnitPresents
  <2> QED
    BY <1>0, <1>9, <2>1, <2>3, <2>4, UnitTyped DEF UnitPresents, UnitAlone
<1>10. ASSUME NEW k \in UnitKeys, UnitAsks(k) PROVE Typed'
  <2>1. unit' \in Unit
    BY <1>0, <1>10 DEF UnitAsks, Unit
  <2>2. rx' \in Seq(Message)
    BY <1>0, <1>10, FromUnitTyped, AppendProperties DEF UnitAsks
  <2> QED
    BY <1>0, <1>10, <2>1, <2>2, UnitTyped DEF UnitAsks, UnitAlone
<1>11. CASE UnitLocks \/ UnitRejects \/ UnitIgnores
  <2>1. tx # <<>> /\ tx' = Tail(tx) /\ junk' = junk /\ UNCHANGED <<radio, us, clock>>
    BY <1>11 DEF UnitLocks, UnitRejects, UnitIgnores, UnitReads, UnitAlone
  <2>2. Head(tx) \in Answer /\ tx' \in Seq(Answer)
    BY <1>0, <2>1, HeadTailProperties
  <2>3. unit' \in Unit
    BY <1>0, <1>11, <2>2 DEF UnitLocks, UnitRejects, UnitIgnores, Unit, Answer
  <2>4. FromUnit("ok", NoKey) \in Message /\ FromUnit("rejected", NoKey) \in Message
    BY <1>0, <1>7, FromUnitTyped
  <2>5. rx' \in Seq(Message)
    <3>1. \A m \in Message : Append(rx, m) \in Seq(Message)
      BY <1>0, AppendProperties
    <3> QED
      BY <1>0, <1>11, <2>4, <3>1, Zenon DEF UnitLocks, UnitRejects, UnitIgnores
  <2> QED
    BY <1>0, <2>1, <2>2, <2>3, <2>5, UnitTyped
<1>12. CASE UnitStray
  <2>1. junk' \in 0 .. MaxJunk
    BY <1>0, <1>12, BoundsAssumption DEF UnitStray
  <2>2. rx' \in Seq(Message)
    BY <1>0, <1>7, <1>12, FromUnitTyped, AppendProperties DEF UnitStray
  <2> QED
    BY <1>0, <1>12, <2>1, <2>2, UnitTyped DEF UnitStray, UnitAlone
<1>13. CASE UNCHANGED vars
  BY <1>13, UnitTyped, <1>0 DEF vars
<1> QED
  BY <1>1, <1>2, <1>3, <1>4, <1>5, <1>6, <1>8, <1>9, <1>10, <1>11, <1>12, <1>13 DEF Next

-----------------------------------------------------------------------------
(* What the unit has sent. *)

LEMMA FromThisTail ==
  ASSUME NEW q \in Seq(Message), q # <<>>, NEW u, NEW n, FromThis(q, u, n)
  PROVE  FromThis(Tail(q), u, n)
<1> DEFINE t == Tail(q)
<1>1. /\ Len(q) \in Nat /\ Len(t) = Len(q) - 1
      /\ \A i \in 1 .. Len(t) : t[i] = q[i + 1]
  BY HeadTailProperties, LenProperties
<1> HIDE DEF t
<1>2. ASSUME NEW i \in 1 .. Len(t)
      PROVE  /\ t[i].iv = n
             /\ t[i].type = "pubkey" => u.phase \in Keyed
             /\ t[i].type = "ok" => u.phase = "locked"
             /\ t[i].type = "pubkey" =>
                  t[i].key = u.key \/ \E j \in i + 1 .. Len(t) : t[j].type = "pubkey"
             /\ t[i].type = "ok" =>
                  \A j \in i + 1 .. Len(t) : t[j].type \notin {"pubkey", "ok"}
  <2>1. i + 1 \in 1 .. Len(q) /\ t[i] = q[i + 1]
    BY <1>1
  <2>2. ASSUME NEW j \in i + 2 .. Len(q), q[j].type = "pubkey"
        PROVE  \E k \in i + 1 .. Len(t) : t[k].type = "pubkey"
    <3>1. j - 1 \in i + 1 .. Len(t) /\ t[j - 1] = q[j]
      BY <1>1, <2>1
    <3> QED
      BY <2>2, <3>1
  <2>3. \A j \in i + 1 .. Len(t) : j + 1 \in i + 2 .. Len(q) /\ t[j] = q[j + 1]
    BY <1>1, <2>1
  <2>4. /\ q[i + 1].iv = n
        /\ q[i + 1].type = "pubkey" => u.phase \in Keyed
        /\ q[i + 1].type = "ok" => u.phase = "locked"
        /\ q[i + 1].type = "pubkey" =>
             \/ q[i + 1].key = u.key
             \/ \E j \in (i + 1) + 1 .. Len(q) : q[j].type = "pubkey"
        /\ q[i + 1].type = "ok" =>
             \A j \in (i + 1) + 1 .. Len(q) : q[j].type \notin {"pubkey", "ok"}
    BY <2>1 DEF FromThis
  <2>5. (i + 1) + 1 = i + 2
    BY <1>1
  <2> QED
    BY <2>1, <2>2, <2>3, <2>4, <2>5
<1>3. FromThis(t, u, n)
  BY <1>2 DEF FromThis
<1> QED
  BY <1>3 DEF t

LEMMA FromThisAppend ==
  ASSUME NEW q \in Seq(Message), NEW m \in Message, NEW u, NEW v, NEW n,
         FromThis(q, u, n), m.iv = n,
         m.type = "pubkey" => v.phase \in Keyed /\ m.key = v.key,
         m.type = "ok" => v.phase = "locked",
         m.type \in {"pubkey", "ok"} => u.phase # "locked",
         u.phase \in Keyed => v.phase \in Keyed,
         u.phase = "locked" => v.phase = "locked",
         m.type = "pubkey" \/ v.key = u.key \/ u.phase \notin Keyed
  PROVE  FromThis(Append(q, m), v, n)
<1> DEFINE t == Append(q, m)
<1>1. /\ Len(q) \in Nat /\ Len(t) = Len(q) + 1 /\ t[Len(q) + 1] = m
      /\ \A i \in 1 .. Len(q) : t[i] = q[i]
  BY AppendProperties, LenProperties
<1> HIDE DEF t
<1>2. ASSUME NEW i \in 1 .. Len(t)
      PROVE  /\ t[i].iv = n
             /\ t[i].type = "pubkey" => v.phase \in Keyed
             /\ t[i].type = "ok" => v.phase = "locked"
             /\ t[i].type = "pubkey" =>
                  t[i].key = v.key \/ \E j \in i + 1 .. Len(t) : t[j].type = "pubkey"
             /\ t[i].type = "ok" =>
                  \A j \in i + 1 .. Len(t) : t[j].type \notin {"pubkey", "ok"}
  <2>1. CASE i = Len(q) + 1
    BY <1>1, <2>1
  <2>2. CASE i \in 1 .. Len(q)
    <3>1. t[i] = q[i]
      BY <1>1, <2>2
    <3>2. /\ q[i].iv = n
          /\ q[i].type = "pubkey" => u.phase \in Keyed
          /\ q[i].type = "ok" => u.phase = "locked"
          /\ q[i].type = "pubkey" =>
               q[i].key = u.key \/ \E j \in i + 1 .. Len(q) : q[j].type = "pubkey"
          /\ q[i].type = "ok" =>
               \A j \in i + 1 .. Len(q) : q[j].type \notin {"pubkey", "ok"}
      BY <2>2 DEF FromThis
    <3>3. \A j \in i + 1 .. Len(q) : j \in i + 1 .. Len(t) /\ t[j] = q[j]
      BY <1>1, <2>2
    <3>4. m.type = "pubkey" => \E j \in i + 1 .. Len(t) : t[j].type = "pubkey"
      BY <1>1, <2>2
    <3>5. \A j \in i + 1 .. Len(t) : j \in i + 1 .. Len(q) \/ t[j] = m
      BY <1>1, <2>2
    <3> QED
      BY <3>1, <3>2, <3>3, <3>4, <3>5
  <2> QED
    BY <1>1, <2>1, <2>2
<1>3. FromThis(t, v, n)
  BY <1>2 DEF FromThis
<1> QED
  BY <1>3 DEF t

LEMMA AppendTwice ==
  ASSUME NEW S, NEW q \in Seq(S), NEW a \in S, NEW b \in S
  PROVE  q \o <<a, b>> = Append(Append(q, a), b)
<1> DEFINE r == q \o <<a, b>>
           t == Append(q, a)
           w == Append(t, b)
<1>1. /\ r \in Seq(S) /\ Len(r) = Len(q) + 2
      /\ \A i \in 1 .. Len(q) : r[i] = q[i]
      /\ r[Len(q) + 1] = a /\ r[Len(q) + 2] = b
  BY AppendTwo
<1>2. /\ t \in Seq(S) /\ Len(t) = Len(q) + 1
      /\ \A i \in 1 .. Len(q) : t[i] = q[i]
      /\ t[Len(q) + 1] = a
  BY AppendProperties
<1>3. /\ w \in Seq(S) /\ Len(w) = Len(t) + 1
      /\ \A i \in 1 .. Len(t) : w[i] = t[i]
      /\ w[Len(t) + 1] = b
  <2> HIDE DEF t
  <2> QED
    BY <1>2, AppendProperties
<1>4. Len(q) \in Nat
  BY LenProperties
<1> HIDE DEF r, t, w
<1>5. \A i \in 1 .. Len(r) : r[i] = w[i]
  <2> SUFFICES ASSUME NEW i \in 1 .. Len(r) PROVE r[i] = w[i]
    OBVIOUS
  <2>1. CASE i \in 1 .. Len(q)
    BY <1>1, <1>2, <1>3, <1>4, <2>1
  <2>2. CASE i = Len(q) + 1
    BY <1>1, <1>2, <1>3, <1>4, <2>2
  <2>3. CASE i = Len(q) + 2
    BY <1>1, <1>2, <1>3, <1>4, <2>3
  <2> QED
    BY <1>1, <1>4, <2>1, <2>2, <2>3
<1>6. r = w
  BY <1>1, <1>2, <1>3, <1>4, <1>5, SeqEqual
<1> QED
  BY <1>6 DEF r, t, w

LEMMA FeedIsFeeding == Feed => Feeding
  BY DEF Feed, OnChallenge, OnRepeatedPubkey, OnPeerPubkey, OnPubkeyUnverified,
         OnPubkeyNoKeypair, OnPubkeyUnsigned, PubkeyFails, OnPubkeyAccepted,
         OnPubkeyRefused, FeedIgnored

LEMMA RxStep == Typed /\ RxInv /\ UnitInv /\ TxInv /\ [Next]_vars => RxInv'
<1> SUFFICES ASSUME Typed, RxInv, UnitInv, TxInv, [Next]_vars PROVE RxInv'
  OBVIOUS
<1>0. rx \in Seq(Message) /\ tx \in Seq(Answer) /\ unit \in Unit /\ links \in Challenges
  BY DEF Typed, RadioOK, WireOK
<1>1. /\ link \in {"down", "up"} => rx = <<>> /\ tx = <<>> /\ unit.phase = "quiet"
      /\ FromThis(rx, unit, links)
  BY DEF RxInv, UnitInv, TxInv
<1>e. ASSUME rx' = <<>> PROVE RxInv'
  BY <1>e DEF RxInv, FromThis
<1>u. ASSUME UNCHANGED <<links, unit, rx>>, link' = link \/ link' = "closing" PROVE RxInv'
  BY <1>1, <1>u DEF RxInv
<1>m. \A t \in {"challenge", "pubkey", "ok", "rejected", "accepted", "junk"},
         k \in UnitKeys \cup {NoKey} :
        /\ FromUnit(t, k) \in Message
        /\ FromUnit(t, k).type = t /\ FromUnit(t, k).key = k /\ FromUnit(t, k).iv = links
  BY <1>0 DEF FromUnit, Message
<1>2. CASE Connected \/ OnSub \/ Disconnected
  BY <1>1, <1>2, <1>e DEF Connected, OnSub, Disconnected
<1>3. CASE PollDrop \/ KexExpires \/ KexFalls \/ ChallengeAnswered \/ UnitIgnores
  BY <1>3, <1>u DEF PollDrop, KexExpires, KexFalls, ChallengeAnswered, UnitIgnores,
                    UnitAlone, radio
<1>4. CASE Feed
  <2>1. rx # <<>> /\ rx' = Tail(rx) /\ UNCHANGED <<link, links, unit>>
        /\ link \in {"sub", "closing"}
    BY <1>4, FeedIsFeeding DEF Feeding, radio
  <2>2. FromThis(rx', unit', links')
    BY <1>0, <1>1, <2>1, FromThisTail
  <2> QED
    BY <2>1, <2>2 DEF RxInv
<1>5. CASE UnitChallenges
  <2> DEFINE m == FromUnit("challenge", NoKey)
  <2>1. /\ rx' = Append(rx, m) /\ unit' = [unit EXCEPT !.phase = "challenged"]
        /\ UNCHANGED <<link, links>> /\ link = "sub" /\ unit.phase = "quiet"
    BY <1>5 DEF UnitChallenges, UnitAlone, radio
  <2>2. m \in Message /\ m.type = "challenge" /\ m.iv = links
    BY <1>m
  <2> HIDE DEF m
  <2>3. FromThis(Append(rx, m), unit', links)
    BY <1>0, <1>1, <2>1, <2>2, FromThisAppend DEF Keyed
  <2> QED
    BY <2>1, <2>3 DEF RxInv
<1>6. ASSUME NEW k \in UnitKeys, UnitPresents(k) PROVE RxInv'
  <2> DEFINE a == FromUnit("accepted", NoKey)
             b == FromUnit("pubkey", k)
             q == Append(rx, a)
  <2>1. /\ rx' = rx \o <<a, b>> /\ unit' = [unit EXCEPT !.phase = "keyed", !.key = k]
        /\ UNCHANGED <<link, links>> /\ tx # <<>> /\ unit.phase = "challenged"
    BY <1>6 DEF UnitPresents, UnitAlone, radio
  <2>2. a \in Message /\ a.type = "accepted" /\ a.iv = links
    BY <1>m
  <2>3. b \in Message /\ b.type = "pubkey" /\ b.key = k /\ b.iv = links
    BY <1>m
  <2> HIDE DEF a, b
  <2>4. FromThis(q, unit, links) /\ q \in Seq(Message)
    BY <1>0, <1>1, <2>2, FromThisAppend, AppendProperties
  <2>5. rx' = Append(q, b)
    BY <1>0, <2>1, <2>2, <2>3, AppendTwice
  <2> HIDE DEF q
  <2>6. unit'.phase = "keyed" /\ unit'.key = k
    BY <1>0, <2>1 DEF Unit
  <2>7. FromThis(Append(q, b), unit', links)
    BY <2>1, <2>3, <2>4, <2>6, FromThisAppend DEF Keyed
  <2>8. link' \notin {"down", "up"}
    BY <1>1, <2>1
  <2> QED
    BY <2>1, <2>5, <2>7, <2>8 DEF RxInv
<1>7. ASSUME NEW k \in UnitKeys, UnitAsks(k) PROVE RxInv'
  <2> DEFINE m == FromUnit("pubkey", k)
  <2>1. /\ rx' = Append(rx, m) /\ unit' = [unit EXCEPT !.key = k]
        /\ UNCHANGED <<link, links>> /\ link = "sub" /\ unit.phase = "keyed"
    BY <1>7 DEF UnitAsks, UnitAlone, radio
  <2>2. m \in Message /\ m.type = "pubkey" /\ m.key = k /\ m.iv = links
    BY <1>m
  <2>3. unit'.phase = "keyed" /\ unit'.key = k
    BY <1>0, <2>1 DEF Unit
  <2> HIDE DEF m
  <2>4. FromThis(Append(rx, m), unit', links)
    BY <1>0, <1>1, <2>1, <2>2, <2>3, FromThisAppend DEF Keyed
  <2> QED
    BY <2>1, <2>4 DEF RxInv
<1>8. CASE UnitLocks
  <2> DEFINE m == FromUnit("ok", NoKey)
  <2>1. /\ rx' = Append(rx, m)
        /\ unit' = [unit EXCEPT !.phase = "locked", !.lock = Head(tx).pub]
        /\ UNCHANGED <<link, links>> /\ tx # <<>> /\ unit.phase = "keyed"
    BY <1>8 DEF UnitLocks, UnitReads, UnitAlone, radio
  <2>2. m \in Message /\ m.type = "ok" /\ m.iv = links
    BY <1>m
  <2>3. unit'.phase = "locked" /\ unit'.key = unit.key
    BY <1>0, <2>1 DEF Unit
  <2> HIDE DEF m
  <2>4. FromThis(Append(rx, m), unit', links)
    BY <1>0, <1>1, <2>1, <2>2, <2>3, FromThisAppend DEF Keyed
  <2>5. link' \notin {"down", "up"}
    BY <1>1, <2>1
  <2> QED
    BY <2>1, <2>4, <2>5 DEF RxInv
<1>9. CASE UnitRejects
  <2> DEFINE m == FromUnit("rejected", NoKey)
  <2>1. /\ rx' = Append(rx, m) /\ unit' = [unit EXCEPT !.phase = "refused"]
        /\ UNCHANGED <<link, links>> /\ tx # <<>> /\ unit.phase = "keyed"
    BY <1>9 DEF UnitRejects, UnitReads, UnitAlone, radio
  <2>2. m \in Message /\ m.type = "rejected" /\ m.iv = links
    BY <1>m
  <2>3. unit'.phase = "refused" /\ unit'.key = unit.key
    BY <1>0, <2>1 DEF Unit
  <2> HIDE DEF m
  <2>4. FromThis(Append(rx, m), unit', links)
    BY <1>0, <1>1, <2>1, <2>2, <2>3, FromThisAppend DEF Keyed
  <2>5. link' \notin {"down", "up"}
    BY <1>1, <2>1
  <2> QED
    BY <2>1, <2>4, <2>5 DEF RxInv
<1>10. CASE UnitStray
  <2> DEFINE m == FromUnit("junk", NoKey)
  <2>1. /\ rx' = Append(rx, m) /\ UNCHANGED <<unit, link, links>> /\ link = "sub"
    BY <1>10 DEF UnitStray, UnitAlone, radio
  <2>2. m \in Message /\ m.type = "junk" /\ m.iv = links
    BY <1>m
  <2> HIDE DEF m
  <2>3. FromThis(Append(rx, m), unit, links)
    BY <1>0, <1>1, <2>1, <2>2, FromThisAppend
  <2> QED
    BY <2>1, <2>3 DEF RxInv
<1>11. CASE UNCHANGED vars
  BY <1>11, <1>u DEF vars, radio
<1> QED
  BY <1>2, <1>3, <1>4, <1>5, <1>6, <1>7, <1>8, <1>9, <1>10, <1>11 DEF Next

LEMMA UnitStep == Typed /\ RxInv /\ UnitInv /\ TxInv /\ [Next]_vars => UnitInv'
<1> SUFFICES ASSUME Typed, RxInv, UnitInv, TxInv, [Next]_vars PROVE UnitInv'
  OBVIOUS
<1>0. unit \in Unit
  BY DEF Typed, WireOK
<1>1. /\ link \in {"down", "up"} => unit.phase = "quiet" /\ tx = <<>>
      /\ unit.phase # "quiet" => unit.encrypts
  BY DEF UnitInv, TxInv
<1>2. ASSUME unit' = unit, link' = link \/ link' \in {"sub", "closing"} PROVE UnitInv'
  BY <1>1, <1>2 DEF UnitInv
<1>3. CASE Connected
  BY <1>1, <1>3 DEF Connected, UnitInv
<1>4. CASE Disconnected
  BY <1>0, <1>4 DEF Disconnected, UnitInv, Unit
<1>5. CASE OnSub \/ PollDrop \/ KexExpires \/ KexFalls \/ ChallengeAnswered \/ UnitIgnores
           \/ UnitStray
  BY <1>2, <1>5 DEF OnSub, PollDrop, KexExpires, KexFalls, ChallengeAnswered, UnitIgnores,
                    UnitStray, UnitAlone, radio
<1>6. CASE Feed
  BY <1>2, <1>6, FeedIsFeeding DEF Feeding, radio
<1>7. CASE UnitChallenges
  BY <1>0, <1>7 DEF UnitChallenges, UnitAlone, radio, UnitInv, Unit
<1>8. ASSUME NEW k \in UnitKeys, UnitPresents(k) \/ UnitAsks(k) PROVE UnitInv'
  BY <1>0, <1>1, <1>8 DEF UnitPresents, UnitAsks, UnitAlone, radio, UnitInv, Unit
<1>9. CASE UnitLocks \/ UnitRejects
  BY <1>0, <1>1, <1>9 DEF UnitLocks, UnitRejects, UnitReads, UnitAlone, radio, UnitInv, Unit
<1>10. CASE UNCHANGED vars
  BY <1>2, <1>10 DEF vars, radio
<1> QED
  BY <1>3, <1>4, <1>5, <1>6, <1>7, <1>8, <1>9, <1>10 DEF Next

(* The fallback. *)
LEMMA FeedKeepsPlain == Typed /\ Feed => s'.plain = s.plain
<1> SUFFICES ASSUME Typed, Feed PROVE s'.plain = s.plain
  OBVIOUS
<1>0. s \in Session
  BY DEF Typed, UsOK
<1>1. CASE OnPubkeyUnverified \/ OnPubkeyNoKeypair \/ OnPubkeyUnsigned
  BY <1>0, <1>1 DEF OnPubkeyUnverified, OnPubkeyNoKeypair, OnPubkeyUnsigned, Session
<1>2. ASSUME NEW sent \in BOOLEAN,
             OnChallenge(sent) \/ OnRepeatedPubkey(sent) \/ OnPeerPubkey(sent)
      PROVE  s'.plain = s.plain
  BY <1>0, <1>2 DEF OnChallenge, OnRepeatedPubkey, OnPeerPubkey, Session
<1>3. CASE OnPubkeyAccepted \/ OnPubkeyRefused \/ FeedIgnored
  BY <1>0, <1>3 DEF OnPubkeyAccepted, OnPubkeyRefused, FeedIgnored, us, Session
<1> QED
  BY <1>1, <1>2, <1>3 DEF Feed

LEMMA PlainStep == Typed /\ PlainInv /\ [Next]_vars => PlainInv'
<1> SUFFICES ASSUME Typed, PlainInv, [Next]_vars PROVE PlainInv'
  OBVIOUS
<1>0. s \in Session
  BY DEF Typed, UsOK
<1>1. s.plain \/ timer = "fall" => fell \/ late
  BY DEF PlainInv
<1>2. ASSUME s'.plain = s.plain, UNCHANGED <<timer, fell, late>> PROVE PlainInv'
  BY <1>1, <1>2 DEF PlainInv
<1>3. CASE Connected \/ Disconnected
  <2>1. s'.plain = FALSE
    BY <1>0, <1>3 DEF Connected, Disconnected, bt_session_reset, Session
  <2>2. timer' = timer /\ (UNCHANGED <<fell, late>> \/ late' = (timer = "fall"))
    BY <1>3 DEF Connected, Disconnected
  <2> QED
    BY <1>1, <2>1, <2>2 DEF PlainInv
<1>4. CASE KexExpires
  BY <1>4, Zenon DEF KexExpires, PlainInv
<1>5. CASE KexFalls
  BY <1>1, <1>5, Zenon DEF KexFalls, PlainInv
<1>6. CASE Feed
  BY <1>2, <1>6, FeedIsFeeding, FeedKeepsPlain DEF Feeding, clock
<1>7. CASE ChallengeAnswered
  BY <1>0, <1>2, <1>7 DEF ChallengeAnswered, clock, Session
<1>8. CASE OnSub \/ PollDrop
  BY <1>2, <1>8 DEF OnSub, PollDrop, us, clock
<1>9. CASE UnitChallenges \/ UnitLocks \/ UnitRejects \/ UnitIgnores \/ UnitStray
  BY <1>2, <1>9 DEF UnitChallenges, UnitLocks, UnitRejects, UnitIgnores, UnitStray,
                    UnitAlone, us, clock
<1>10. ASSUME NEW k \in UnitKeys, UnitPresents(k) \/ UnitAsks(k) PROVE PlainInv'
  BY <1>2, <1>10 DEF UnitPresents, UnitAsks, UnitAlone, us, clock
<1>11. CASE UNCHANGED vars
  BY <1>2, <1>11 DEF vars, us, clock
<1> QED
  BY <1>3, <1>4, <1>5, <1>6, <1>7, <1>8, <1>9, <1>10, <1>11 DEF Next

-----------------------------------------------------------------------------
(* What we have sent. *)

LEMMA FromUsTail ==
  ASSUME NEW q \in Seq(Answer), q # <<>>, NEW t, NEW n, FromUs(q, t, n)
  PROVE  FromUs(Tail(q), t, n)
<1> DEFINE r == Tail(q)
<1>1. /\ Len(q) \in Nat /\ Len(r) = Len(q) - 1
      /\ \A i \in 1 .. Len(r) : r[i] = q[i + 1]
  BY HeadTailProperties, LenProperties
<1> HIDE DEF r
<1>2. \A i \in 1 .. Len(r) : i + 1 \in 1 .. Len(q)
  BY <1>1
<1>3. FromUs(r, t, n)
  BY <1>1, <1>2 DEF FromUs
<1> QED
  BY <1>3 DEF r

LEMMA FromUsAppend ==
  ASSUME NEW q \in Seq(Answer), NEW m \in Answer, NEW t, NEW n, FromUs(q, t, n),
         m.type = "creply" => t.have_unsecure /\ t.iv = n,
         m.type = "pubreply" => m.pub = t.kp /\ t.kp # NoKey
  PROVE  FromUs(Append(q, m), t, n)
<1> DEFINE r == Append(q, m)
<1>1. /\ Len(q) \in Nat /\ Len(r) = Len(q) + 1 /\ r[Len(q) + 1] = m
      /\ \A i \in 1 .. Len(q) : r[i] = q[i]
  BY AppendProperties, LenProperties
<1> HIDE DEF r
<1>2. \A i \in 1 .. Len(r) : i \in 1 .. Len(q) \/ i = Len(q) + 1
  BY <1>1
<1>3. FromUs(r, t, n)
  BY <1>1, <1>2 DEF FromUs
<1> QED
  BY <1>3 DEF r

(* Transmit sends m, or fails to. *)
LEMMA TransmitFromUs ==
  ASSUME NEW m \in Answer, NEW sent \in BOOLEAN, Transmit(m, sent), tx \in Seq(Answer),
         NEW t, NEW n, FromUs(tx, t, n),
         m.type = "creply" => t.have_unsecure /\ t.iv = n,
         m.type = "pubreply" => m.pub = t.kp /\ t.kp # NoKey
  PROVE  FromUs(tx', t, n)
<1>1. tx' = tx \/ tx' = Append(tx, m)
  BY DEF Transmit
<1> QED
  BY <1>1, FromUsAppend

(* The head of rx is this link's. *)
LEMMA HeadOfRx ==
  ASSUME Typed, RxInv, rx # <<>>
  PROVE  /\ Head(rx) \in Message /\ Head(rx) = rx[1] /\ 1 \in 1 .. Len(rx)
         /\ Head(rx).iv = links
<1>1. rx \in Seq(Message)
  BY DEF Typed, WireOK
<1>2. Head(rx) \in Message /\ Head(rx) = rx[1] /\ 1 \in 1 .. Len(rx)
  BY <1>1, HeadTailProperties
<1> QED
  BY <1>2 DEF RxInv, FromThis

LEMMA TxFeed == Typed /\ RxInv /\ TxInv /\ Feed => TxInv'
<1> SUFFICES ASSUME Typed, RxInv, TxInv, Feed PROVE TxInv'
  OBVIOUS
<1>0. s \in Session /\ tx \in Seq(Answer) /\ made \in Nat /\ links \in Challenges
  BY DEF Typed, RadioOK, UsOK, WireOK
<1>1. rx # <<>> /\ link \in {"sub", "closing"} /\ UNCHANGED <<link, links, unit>>
  BY FeedIsFeeding DEF Feeding, radio
<1>2. /\ FromUs(tx, s, links)
      /\ unit.phase \in Keyed => s.have_unsecure /\ s.iv = links
      /\ unit.phase = "locked" => unit.lock = s.kp /\ s.kp # NoKey
      /\ s.pubkey_reply # NoReply =>
           s.pubkey_reply.type = "pubreply" /\ s.pubkey_reply.pub = s.kp /\ s.kp # NoKey
  BY DEF TxInv
<1>3. Head(rx) \in Message /\ Head(rx).iv = links
  BY <1>1, HeadOfRx
<1> SUFFICES /\ FromUs(tx', s', links)
             /\ unit.phase \in Keyed => s'.have_unsecure /\ s'.iv = links
             /\ unit.phase = "locked" => unit.lock = s'.kp /\ s'.kp # NoKey
             /\ s'.pubkey_reply # NoReply =>
                  /\ s'.pubkey_reply.type = "pubreply" /\ s'.pubkey_reply.pub = s'.kp
                  /\ s'.kp # NoKey
  BY <1>1 DEF TxInv
<1>4. ASSUME NEW sent \in BOOLEAN, OnChallenge(sent)
      PROVE  /\ FromUs(tx', s', links)
             /\ s'.have_unsecure /\ s'.iv = links
             /\ s'.kp = s.kp /\ s'.pubkey_reply = s.pubkey_reply
  <2> DEFINE m == [type |-> "creply", pub |-> NoKey, iv |-> Head(rx).iv]
  <2>1. m \in Answer /\ m.type = "creply"
    BY <1>3 DEF Answer, Message, NoKey
  <2>2. s'.have_unsecure /\ s'.iv = links /\ s'.kp = s.kp /\ s'.pubkey_reply = s.pubkey_reply
    BY <1>0, <1>3, <1>4 DEF OnChallenge, Session
  <2>3. FromUs(tx, s', links)
    BY <1>2, <2>2 DEF FromUs
  <2>4. Transmit(m, sent)
    BY <1>4 DEF OnChallenge
  <2> HIDE DEF m
  <2>5. FromUs(tx', s', links)
    BY <1>0, <2>1, <2>2, <2>3, <2>4, TransmitFromUs
  <2> QED
    BY <2>2, <2>5
<1>5. ASSUME NEW sent \in BOOLEAN, OnRepeatedPubkey(sent)
      PROVE  FromUs(tx', s', links) /\ s' = s
  <2>1. s.pubkey_reply \in Answer
    BY <1>0 DEF Session
  <2>2. Transmit(s.pubkey_reply, sent) /\ s.pubkey_reply # NoReply /\ s' = s
    BY <1>5 DEF OnRepeatedPubkey, IsRepeat
  <2> QED
    BY <1>0, <1>2, <2>1, <2>2, TransmitFromUs
(* A new keypair comes only when there was none, and then nobody has one. *)
<1>6. ASSUME NEW kp \in {s.kp, Keypair(s)}, s'.kp = kp, s'.have_unsecure = s.have_unsecure,
             s'.iv = s.iv
      PROVE  /\ FromUs(tx, s', links)
             /\ unit.phase = "locked" => unit.lock = s'.kp /\ s'.kp # NoKey
             /\ s.pubkey_reply # NoReply => s'.kp = s.kp
  <2>1. s.kp # NoKey => s'.kp = s.kp
    BY <1>6 DEF Keypair
  <2> QED
    BY <1>2, <1>6, <2>1 DEF FromUs
<1>7. ASSUME NEW sent \in BOOLEAN, OnPeerPubkey(sent)
      PROVE  /\ FromUs(tx', s', links)
             /\ s'.have_unsecure = s.have_unsecure /\ s'.iv = s.iv
             /\ unit.phase = "locked" => unit.lock = s'.kp /\ s'.kp # NoKey
             /\ s'.pubkey_reply.type = "pubreply" /\ s'.pubkey_reply.pub = s'.kp
             /\ s'.kp # NoKey
  <2> DEFINE m == [type |-> "pubreply", pub |-> Keypair(s), iv |-> s.iv]
  <2>1. Keypair(s) \in Nat /\ Keypair(s) # NoKey /\ s.iv \in Challenges
    BY <1>0 DEF Keypair, Session, NoKey
  <2>2. m \in Answer /\ m.type = "pubreply" /\ m.pub = Keypair(s)
    BY <2>1 DEF Answer
  <2>3. /\ s' = [s EXCEPT !.peer_pub = Head(rx).key, !.kp = Keypair(s),
                          !.pubkey_reply = m,
                          !.state = IF sent THEN "PUBKEY" ELSE "FAILED"]
        /\ Transmit(m, sent)
    BY <1>7 DEF OnPeerPubkey
  <2> HIDE DEF m
  <2>4. /\ s'.kp = Keypair(s) /\ s'.have_unsecure = s.have_unsecure /\ s'.iv = s.iv
        /\ s'.pubkey_reply = m
    BY <1>0, <2>3 DEF Session
  <2>5. /\ FromUs(tx, s', links)
        /\ unit.phase = "locked" => unit.lock = s'.kp /\ s'.kp # NoKey
    BY <1>6, <2>4
  <2>6. FromUs(tx', s', links)
    BY <1>0, <2>1, <2>2, <2>3, <2>4, <2>5, TransmitFromUs
  <2> QED
    BY <2>1, <2>2, <2>4, <2>5, <2>6
<1>8. CASE OnPubkeyUnverified \/ OnPubkeyNoKeypair \/ OnPubkeyUnsigned
  <2>1. /\ s'.kp \in {s.kp, Keypair(s)}
        /\ s'.have_unsecure = s.have_unsecure /\ s'.iv = s.iv
        /\ s'.pubkey_reply = s.pubkey_reply
    BY <1>0, <1>8 DEF OnPubkeyUnverified, OnPubkeyNoKeypair, OnPubkeyUnsigned, Session
  <2>2. tx' = tx
    BY <1>8 DEF OnPubkeyUnverified, OnPubkeyNoKeypair, OnPubkeyUnsigned, PubkeyFails
  <2> QED
    BY <1>2, <1>6, <2>1, <2>2
<1>9. CASE OnPubkeyAccepted \/ OnPubkeyRefused \/ FeedIgnored
  <2>1. /\ s'.kp = s.kp /\ s'.have_unsecure = s.have_unsecure /\ s'.iv = s.iv
        /\ s'.pubkey_reply = s.pubkey_reply /\ tx' = tx
    BY <1>0, <1>9 DEF OnPubkeyAccepted, OnPubkeyRefused, FeedIgnored, us, Session
  <2> QED
    BY <1>2, <2>1 DEF FromUs
<1> QED
  BY <1>2, <1>4, <1>5, <1>7, <1>8, <1>9 DEF Feed
LEMMA TxStep == Typed /\ RxInv /\ UnitInv /\ TxInv /\ [Next]_vars => TxInv'
<1> SUFFICES ASSUME Typed, RxInv, UnitInv, TxInv, [Next]_vars PROVE TxInv'
  OBVIOUS
<1>0. s \in Session /\ tx \in Seq(Answer) /\ unit \in Unit
  BY DEF Typed, UsOK, WireOK
<1>1. /\ link \in {"down", "up"} => tx = <<>> /\ unit.phase = "quiet"
      /\ FromUs(tx, s, links)
      /\ unit.phase \in Keyed => s.have_unsecure /\ s.iv = links
      /\ unit.phase = "locked" => unit.lock = s.kp /\ s.kp # NoKey
      /\ s.pubkey_reply # NoReply =>
           s.pubkey_reply.type = "pubreply" /\ s.pubkey_reply.pub = s.kp /\ s.kp # NoKey
  BY DEF UnitInv, TxInv
(* The link comes or goes: nothing is under way. *)
<1>2. CASE Connected \/ Disconnected
  <2>1. tx' = <<>> /\ unit'.phase = "quiet" /\ s' = bt_session_reset(s)
    BY <1>0, <1>1, <1>2 DEF Connected, Disconnected, Unit
  <2>2. s'.pubkey_reply = NoReply
    BY <1>0, <2>1 DEF bt_session_reset, Session
  <2>3. FromUs(tx', s', links')
    BY <2>1 DEF FromUs
  <2> QED
    BY <2>1, <2>2, <2>3 DEF TxInv, Keyed
(* Steps of ours that leave the keys, the wire and the unit alone. *)
<1>3. ASSUME s'.have_unsecure = s.have_unsecure, s'.iv = s.iv, s'.kp = s.kp,
             s'.pubkey_reply = s.pubkey_reply, UNCHANGED <<links, unit, tx>>,
             link' = link \/ link' \in {"sub", "closing"}
      PROVE  TxInv'
  <2>1. FromUs(tx', s', links')
    BY <1>1, <1>3 DEF FromUs
  <2> QED
    BY <1>1, <1>3, <2>1 DEF TxInv
<1>4. CASE OnSub \/ PollDrop \/ KexExpires
  BY <1>3, <1>4 DEF OnSub, PollDrop, KexExpires, us, radio
<1>5. CASE KexFalls \/ ChallengeAnswered
  <2>1. /\ s'.have_unsecure = s.have_unsecure /\ s'.iv = s.iv /\ s'.kp = s.kp
        /\ s'.pubkey_reply = s.pubkey_reply
    BY <1>0, <1>5 DEF KexFalls, ChallengeAnswered, Session
  <2> QED
    BY <1>3, <1>5, <2>1 DEF KexFalls, ChallengeAnswered, radio
<1>6. CASE Feed
  BY <1>6, TxFeed
(* The unit reads the message at the head of tx, or adds to rx. *)
<1>7. ASSUME UNCHANGED <<link, links, s>>, tx' = tx \/ (tx # <<>> /\ tx' = Tail(tx)),
             link \in {"down", "up"} => tx' = tx,
             unit'.phase \in Keyed => s.have_unsecure /\ s.iv = links,
             unit'.phase = "locked" => unit'.lock = s.kp /\ s.kp # NoKey
      PROVE  TxInv'
  <2>1. FromUs(tx', s, links)
    BY <1>0, <1>1, <1>7, FromUsTail
  <2> QED
    BY <1>1, <1>7, <2>1 DEF TxInv
<1>8. ASSUME tx # <<>>
      PROVE  /\ Head(tx).type = "creply" => s.have_unsecure /\ s.iv = links
             /\ Head(tx).type = "pubreply" => Head(tx).pub = s.kp /\ s.kp # NoKey
             /\ link \notin {"down", "up"}
  <2>1. Head(tx) = tx[1] /\ 1 \in 1 .. Len(tx)
    BY <1>0, <1>8, HeadTailProperties
  <2> QED
    BY <1>1, <1>8, <2>1 DEF FromUs
<1>9. CASE UnitChallenges
  <2>1. unit'.phase = "challenged"
    BY <1>0, <1>9 DEF UnitChallenges, Unit
  <2>2. UNCHANGED <<link, links, s, tx>>
    BY <1>9 DEF UnitChallenges, UnitAlone, radio, us
  <2> QED
    BY <1>7, <2>1, <2>2, Zenon DEF Keyed
<1>10. ASSUME NEW k \in UnitKeys, UnitPresents(k) PROVE TxInv'
  <2>1. unit'.phase = "keyed"
    BY <1>0, <1>10 DEF UnitPresents, Unit
  <2> QED
    BY <1>7, <1>8, <1>10, <2>1 DEF UnitPresents, UnitAlone, radio, us
<1>11. ASSUME NEW k \in UnitKeys, UnitAsks(k) PROVE TxInv'
  <2>1. unit'.phase = "keyed" /\ unit.phase \in Keyed
    BY <1>0, <1>11 DEF UnitAsks, Unit, Keyed
  <2>2. UNCHANGED <<link, links, s, tx>>
    BY <1>11 DEF UnitAsks, UnitAlone, radio, us
  <2> QED
    BY <1>1, <1>7, <2>1, <2>2, Zenon
<1>12. CASE UnitLocks
  <2>1. unit'.phase = "locked" /\ unit'.lock = Head(tx).pub /\ unit.phase \in Keyed
    BY <1>0, <1>12 DEF UnitLocks, Unit, Keyed
  <2> QED
    BY <1>1, <1>7, <1>8, <1>12, <2>1 DEF UnitLocks, UnitReads, UnitAlone, radio, us
<1>13. CASE UnitRejects
  <2>1. unit'.phase = "refused" /\ unit.phase \in Keyed
    BY <1>0, <1>13 DEF UnitRejects, Unit, Keyed
  <2> QED
    BY <1>1, <1>7, <1>8, <1>13, <2>1 DEF UnitRejects, UnitReads, UnitAlone, radio, us
<1>14. CASE UnitIgnores
  BY <1>1, <1>7, <1>8, <1>14 DEF UnitIgnores, UnitReads, UnitAlone, radio, us
<1>15. CASE UnitStray
  <2>1. UNCHANGED <<link, links, s, tx, unit>>
    BY <1>15 DEF UnitStray, UnitAlone, radio, us
  <2> QED
    BY <1>1, <1>7, <2>1, Zenon
<1>16. CASE UNCHANGED vars
  BY <1>3, <1>16 DEF vars, radio, us
<1> QED
  BY <1>2, <1>4, <1>5, <1>6, <1>9, <1>10, <1>11, <1>12, <1>13, <1>14, <1>15, <1>16
     DEF Next

-----------------------------------------------------------------------------
(* The keys both sides hold. *)

(* A queue and its tail, an appended queue: what their entries are. *)
LEMMA TailEntries ==
  ASSUME NEW q \in Seq(Message), q # <<>>
  PROVE  /\ \A i \in 1 .. Len(Tail(q)) : i + 1 \in 1 .. Len(q) /\ Tail(q)[i] = q[i + 1]
         /\ \A j \in 1 .. Len(q) : j # 1 => j - 1 \in 1 .. Len(Tail(q))
                                       /\ q[j] = Tail(q)[j - 1]
<1> DEFINE t == Tail(q)
<1>1. /\ Len(q) \in Nat /\ Len(t) = Len(q) - 1
      /\ \A i \in 1 .. Len(t) : t[i] = q[i + 1]
  BY HeadTailProperties, LenProperties
<1> HIDE DEF t
<1>2. \A i \in 1 .. Len(t) : i + 1 \in 1 .. Len(q) /\ t[i] = q[i + 1]
  BY <1>1
<1>3. ASSUME NEW j \in 1 .. Len(q), j # 1 PROVE j - 1 \in 1 .. Len(t) /\ q[j] = t[j - 1]
  <2>1. j - 1 \in 1 .. Len(t) /\ (j - 1) + 1 = j
    BY <1>1, <1>3
  <2> QED
    BY <1>1, <2>1
<1> QED
  BY <1>2, <1>3 DEF t

LEMMA AppendEntries ==
  ASSUME NEW q \in Seq(Message), NEW m \in Message
  PROVE  /\ \A i \in 1 .. Len(q) : i \in 1 .. Len(Append(q, m)) /\ Append(q, m)[i] = q[i]
         /\ \A i \in 1 .. Len(Append(q, m)) :
              i \in 1 .. Len(q) \/ Append(q, m)[i] = m
         /\ \E i \in 1 .. Len(Append(q, m)) : Append(q, m)[i] = m
<1> DEFINE r == Append(q, m)
<1>1. /\ Len(q) \in Nat /\ Len(r) = Len(q) + 1 /\ r[Len(q) + 1] = m
      /\ \A i \in 1 .. Len(q) : r[i] = q[i]
  BY AppendProperties, LenProperties
<1> HIDE DEF r
<1>2. \A i \in 1 .. Len(r) : i \in 1 .. Len(q) \/ i = Len(q) + 1
  BY <1>1
<1>3. Len(q) + 1 \in 1 .. Len(r) /\ \A i \in 1 .. Len(q) : i \in 1 .. Len(r)
  BY <1>1
<1> QED
  BY <1>1, <1>2, <1>3 DEF r

(* What a message does to the secret and to the unit's key as we have it. *)
LEMMA FeedEffect ==
  ASSUME Typed, Feed
  PROVE  /\ \/ s'.have_secure = s.have_secure /\ s'.secure_key = s.secure_key
            \/ OnPubkeyAccepted
         /\ Head(rx).type # "pubkey" => s'.peer_pub = s.peer_pub /\ spurned' = spurned
         /\ Head(rx).type = "pubkey" /\ Handled => spurned' \/ s'.peer_pub = Head(rx).key
<1>0. s \in Session
  BY DEF Typed, UsOK
<1>1. ASSUME NEW sent \in BOOLEAN, OnChallenge(sent)
      PROVE  /\ s'.have_secure = s.have_secure /\ s'.secure_key = s.secure_key
             /\ s'.peer_pub = s.peer_pub /\ Head(rx).type = "challenge"
             /\ spurned' = spurned
  BY <1>0, <1>1 DEF OnChallenge, Session
<1>2. ASSUME NEW sent \in BOOLEAN, OnRepeatedPubkey(sent)
      PROVE  s' = s /\ Head(rx).type = "pubkey" /\ s.peer_pub = Head(rx).key
  BY <1>2 DEF OnRepeatedPubkey, IsRepeat
<1>3. ASSUME NEW sent \in BOOLEAN, OnPeerPubkey(sent)
      PROVE  /\ s'.have_secure = s.have_secure /\ s'.secure_key = s.secure_key
             /\ s'.peer_pub = Head(rx).key /\ Head(rx).type = "pubkey"
  BY <1>0, <1>3 DEF OnPeerPubkey, Session
<1>4. CASE OnPubkeyUnverified \/ OnPubkeyNoKeypair \/ OnPubkeyUnsigned
  <2>1. /\ s'.have_secure = s.have_secure /\ s'.secure_key = s.secure_key
        /\ spurned' \/ s'.peer_pub = Head(rx).key
    BY <1>0, <1>4 DEF OnPubkeyUnverified, OnPubkeyNoKeypair, OnPubkeyUnsigned, Session
  <2>2. Head(rx).type = "pubkey"
    BY <1>4 DEF OnPubkeyUnverified, OnPubkeyNoKeypair, OnPubkeyUnsigned, PubkeyFails
  <2> QED
    BY <2>1, <2>2
<1>5. CASE OnPubkeyAccepted
  BY <1>0, <1>5 DEF OnPubkeyAccepted, Session
<1>6. CASE OnPubkeyRefused
  BY <1>0, <1>6 DEF OnPubkeyRefused, Session
<1>7. CASE FeedIgnored
  BY <1>7 DEF FeedIgnored, us
<1> QED
  BY <1>1, <1>2, <1>3, <1>4, <1>5, <1>6, <1>7 DEF Feed

LEMMA PeerFeed == Typed /\ RxInv /\ TxInv /\ PeerInv /\ SecretInv /\ Feed => PeerInv'
<1> SUFFICES ASSUME Typed, RxInv, TxInv, PeerInv, SecretInv, Feed,
                    unit'.phase \in Keyed,
                    \A i \in 1 .. Len(rx') : rx'[i].type # "pubkey"
             PROVE  s'.plain \/ spurned' \/ s'.peer_pub = unit'.key
  BY DEF PeerInv
<1>1. rx # <<>> /\ rx' = Tail(rx) /\ UNCHANGED <<links, unit>> /\ rx \in Seq(Message)
  BY FeedIsFeeding DEF Feeding, radio, Typed, WireOK
<1>2. s'.plain = s.plain
  BY FeedKeepsPlain
<1>3. Head(rx) = rx[1] /\ 1 \in 1 .. Len(rx) /\ Head(rx).iv = links /\ Len(rx) \in Nat
  BY <1>1, HeadOfRx, LenProperties
<1>4. \A j \in 1 .. Len(rx) : j # 1 => rx[j].type # "pubkey"
  <2> SUFFICES ASSUME NEW j \in 1 .. Len(rx), j # 1 PROVE rx[j].type # "pubkey"
    OBVIOUS
  <2>1. j - 1 \in 1 .. Len(Tail(rx)) /\ rx[j] = Tail(rx)[j - 1]
    BY <1>1, TailEntries, Zenon
  <2>2. j - 1 \in 1 .. Len(rx') /\ rx[j] = rx'[j - 1]
    BY <1>1, <2>1, Zenon
  <2> QED
    BY <2>2, Zenon
<1>5. CASE Head(rx).type # "pubkey"
  <2>1. \A i \in 1 .. Len(rx) : rx[i].type # "pubkey"
    BY <1>3, <1>4, <1>5
  <2> QED
    BY <1>1, <1>2, <1>5, <2>1, FeedEffect DEF PeerInv
<1>6. CASE Head(rx).type = "pubkey" /\ ~s.plain
  <2>1. rx[1].key = unit.key \/ \E j \in 1 + 1 .. Len(rx) : rx[j].type = "pubkey"
    BY <1>3, <1>6 DEF RxInv, FromThis
  <2>2. rx[1].key = unit.key
    BY <1>3, <1>4, <2>1
  <2>3. ~s.have_secure
    BY <1>3, <1>6 DEF SecretInv
  <2>4. s.have_unsecure /\ s.iv = links
    BY <1>1 DEF TxInv
  <2>5. Handled
    BY <1>3, <1>6, <2>3, <2>4 DEF Handled, Handshaking, Legible
  <2> QED
    BY <1>1, <1>3, <1>6, <2>2, <2>5, FeedEffect
<1> QED
  BY <1>2, <1>5, <1>6

LEMMA PeerStep ==
  Typed /\ RxInv /\ UnitInv /\ TxInv /\ PeerInv /\ SecretInv /\ [Next]_vars => PeerInv'
<1> SUFFICES ASSUME Typed, RxInv, UnitInv, TxInv, PeerInv, SecretInv, [Next]_vars
             PROVE  PeerInv'
  OBVIOUS
<1>0. s \in Session /\ unit \in Unit /\ rx \in Seq(Message) /\ links \in Challenges
  BY DEF Typed, RadioOK, UsOK, WireOK
<1>1. CASE Connected \/ Disconnected
  <2>1. unit'.phase = "quiet"
    BY <1>0, <1>1 DEF Connected, Disconnected, UnitInv, Unit
  <2> QED
    BY <2>1 DEF PeerInv, Keyed
<1>2. ASSUME UNCHANGED <<unit, rx, spurned>>, s'.plain = s.plain,
             s'.peer_pub = s.peer_pub
      PROVE  PeerInv'
  BY <1>2 DEF PeerInv
<1>3. CASE OnSub \/ PollDrop \/ KexExpires \/ UnitIgnores
  BY <1>2, <1>3 DEF OnSub, PollDrop, KexExpires, UnitIgnores, UnitAlone, us
<1>4. CASE KexFalls
  <2>1. s'.plain
    BY <1>0, <1>4 DEF KexFalls, Session
  <2> QED
    BY <2>1 DEF PeerInv
<1>5. CASE ChallengeAnswered
  BY <1>0, <1>2, <1>5 DEF ChallengeAnswered, Session
<1>6. CASE Feed
  BY <1>6, PeerFeed
<1>7. CASE UnitChallenges
  <2>1. unit'.phase = "challenged"
    BY <1>0, <1>7 DEF UnitChallenges, Unit
  <2> QED
    BY <2>1 DEF PeerInv, Keyed
(* A key is under way again. *)
<1>8. ASSUME NEW k \in UnitKeys, UnitPresents(k) \/ UnitAsks(k) PROVE PeerInv'
  <2> DEFINE a == FromUnit("accepted", NoKey)
             b == FromUnit("pubkey", k)
             q == Append(rx, a)
  <2>1. a \in Message /\ b \in Message /\ b.type = "pubkey"
    BY <1>0, FromUnitTyped DEF FromUnit
  <2>2. rx' = rx \o <<a, b>> \/ rx' = Append(rx, b)
    BY <1>8 DEF UnitPresents, UnitAsks
  <2> HIDE DEF a, b
  <2>3. q \in Seq(Message) /\ (rx' = Append(q, b) \/ rx' = Append(rx, b))
    BY <1>0, <2>1, <2>2, AppendTwice, AppendProperties
  <2> HIDE DEF q
  <2>4. \E i \in 1 .. Len(rx') : rx'[i] = b
    BY <1>0, <2>1, <2>3, AppendEntries
  <2> QED
    BY <2>1, <2>4 DEF PeerInv
(* Something else is: the keys stand. *)
<1>9. CASE UnitLocks \/ UnitRejects \/ UnitStray
  <2>1. /\ s' = s /\ spurned' = spurned /\ unit'.key = unit.key
        /\ unit'.phase \in Keyed => unit.phase \in Keyed
    BY <1>0, <1>9 DEF UnitLocks, UnitRejects, UnitStray, UnitAlone, us, Unit, Keyed
  <2>2. PICK t \in {"ok", "rejected", "junk"} : rx' = Append(rx, FromUnit(t, NoKey))
    BY <1>9 DEF UnitLocks, UnitRejects, UnitStray
  <2> DEFINE m == FromUnit(t, NoKey)
  <2>3. m \in Message
    BY <1>0, FromUnitTyped
  <2> HIDE DEF m
  <2>4. \A i \in 1 .. Len(rx) : i \in 1 .. Len(rx') /\ rx'[i] = rx[i]
    BY <1>0, <2>2, <2>3, AppendEntries DEF m
  <2> QED
    BY <2>1, <2>4 DEF PeerInv
<1>10. CASE UNCHANGED vars
  BY <1>2, <1>10 DEF vars, us
<1> QED
  BY <1>1, <1>3, <1>4, <1>5, <1>6, <1>7, <1>8, <1>9, <1>10 DEF Next

(* The secret is made of the unit's last key and of our only one. *)
LEMMA SecretFeed == Typed /\ RxInv /\ TxInv /\ PeerInv /\ SecretInv /\ Feed => SecretInv'
<1> SUFFICES ASSUME Typed, RxInv, TxInv, PeerInv, SecretInv, Feed PROVE SecretInv'
  OBVIOUS
<1>0. s \in Session /\ unit \in Unit /\ rx \in Seq(Message)
  BY DEF Typed, UsOK, WireOK
<1>1. rx # <<>> /\ rx' = Tail(rx) /\ UNCHANGED <<links, unit>>
  BY FeedIsFeeding DEF Feeding, radio
<1>2. Head(rx) = rx[1] /\ 1 \in 1 .. Len(rx) /\ Len(rx) \in Nat
  BY <1>0, <1>1, HeadOfRx, LenProperties
<1>3. \A i \in 1 .. Len(rx') : i + 1 \in 1 .. Len(rx) /\ rx'[i] = rx[i + 1]
  BY <1>0, <1>1, TailEntries
<1>4. CASE s'.have_secure = s.have_secure /\ s'.secure_key = s.secure_key
  <2>1. s.have_secure => Head(rx).type # "pubkey"
    BY <1>2 DEF SecretInv
  <2>2. s.have_secure => spurned' = spurned
    BY <2>1, FeedEffect
  <2> QED
    BY <1>1, <1>3, <1>4, <2>2 DEF SecretInv
<1>5. CASE OnPubkeyAccepted
  <2>1. Head(rx).type = "ok" /\ ~s.plain
    BY <1>5 DEF OnPubkeyAccepted, Handshaking
  <2>2. /\ unit.phase = "locked"
        /\ \A j \in 1 + 1 .. Len(rx) : rx[j].type \notin {"pubkey", "ok"}
    BY <1>2, <2>1 DEF RxInv, FromThis
  <2>3. \A i \in 1 .. Len(rx) : rx[i].type # "pubkey"
    BY <1>2, <2>1, <2>2
  <2>4. (spurned \/ s.peer_pub = unit.key) /\ s.kp = unit.lock
    BY <2>1, <2>2, <2>3 DEF PeerInv, TxInv, Keyed
  <2>5. s'.have_secure /\ s'.secure_key = <<s.kp, s.peer_pub>> /\ spurned' = spurned
    BY <1>0, <1>5 DEF OnPubkeyAccepted, Session
  <2>6. \A i \in 1 .. Len(rx') : i + 1 \in 1 + 1 .. Len(rx)
    BY <1>2, <1>3
  <2>7. \A i \in 1 .. Len(rx') : rx'[i].type \notin {"pubkey", "ok"}
    BY <1>3, <2>2, <2>6
  <2> QED
    BY <1>1, <2>2, <2>4, <2>5, <2>7 DEF SecretInv
<1> QED
  BY <1>4, <1>5, FeedEffect

LEMMA SecretStep ==
  Typed /\ RxInv /\ TxInv /\ PeerInv /\ SecretInv /\ [Next]_vars => SecretInv'
<1> SUFFICES ASSUME Typed, RxInv, TxInv, PeerInv, SecretInv, [Next]_vars PROVE SecretInv'
  OBVIOUS
<1>0. s \in Session /\ rx \in Seq(Message) /\ links \in Challenges
  BY DEF Typed, RadioOK, UsOK, WireOK
<1>1. CASE Connected \/ Disconnected
  <2>1. s' = bt_session_reset(s)
    BY <1>1 DEF Connected, Disconnected
  <2>2. s'.have_secure = FALSE /\ s'.secure_key = NoSecret
    BY <1>0, <2>1 DEF bt_session_reset, Session
  <2> QED
    BY <2>2 DEF SecretInv
<1>2. ASSUME UNCHANGED <<unit, rx, spurned>>, s'.have_secure = s.have_secure,
             s'.secure_key = s.secure_key
      PROVE  SecretInv'
  BY <1>2 DEF SecretInv
<1>3. CASE OnSub \/ PollDrop \/ KexExpires \/ UnitIgnores
  BY <1>2, <1>3 DEF OnSub, PollDrop, KexExpires, UnitIgnores, UnitAlone, us
<1>4. CASE KexFalls \/ ChallengeAnswered
  BY <1>0, <1>2, <1>4 DEF KexFalls, ChallengeAnswered, Session
<1>5. CASE Feed
  BY <1>5, SecretFeed
(* A unit that has settled says no more about keys. *)
<1>6. ASSUME s' = s, unit.phase # "locked" PROVE SecretInv'
  BY <1>6 DEF SecretInv
<1>7. CASE UnitChallenges \/ UnitLocks \/ UnitRejects
  BY <1>6, <1>7 DEF UnitChallenges, UnitLocks, UnitRejects, UnitAlone, us
<1>8. ASSUME NEW k \in UnitKeys, UnitPresents(k) \/ UnitAsks(k) PROVE SecretInv'
  BY <1>6, <1>8 DEF UnitPresents, UnitAsks, UnitAlone, us
<1>9. CASE UnitStray
  <2> DEFINE m == FromUnit("junk", NoKey)
  <2>1. m \in Message /\ m.type = "junk"
    BY <1>0, FromUnitTyped DEF FromUnit
  <2>2. rx' = Append(rx, m) /\ UNCHANGED <<unit, s, spurned>>
    BY <1>9 DEF UnitStray, UnitAlone, us
  <2> HIDE DEF m
  <2>3. \A i \in 1 .. Len(rx') :
          (i \in 1 .. Len(rx) /\ rx'[i] = rx[i]) \/ rx'[i] = m
    BY <1>0, <2>1, <2>2, AppendEntries
  <2> QED
    BY <2>1, <2>2, <2>3 DEF SecretInv
<1>10. CASE UNCHANGED vars
  BY <1>2, <1>10 DEF vars, us
<1> QED
  BY <1>1, <1>3, <1>4, <1>5, <1>7, <1>8, <1>9, <1>10 DEF Next

-----------------------------------------------------------------------------
LEMMA NextInv == IInv /\ [Next]_vars => IInv'
  BY TypesStep, RxStep, UnitStep, TxStep, PeerStep, SecretStep, PlainStep DEF IInv

LEMMA Invariant == Spec => []IInv
  BY InitInv, NextInv, PTL DEF Spec

(* The session, the wire and the unit stay well typed, and the session     *)
(* has a secret exactly when have_secure says so, together with the        *)
(* keypair it came from.                                                   *)
THEOREM SessionTyped == Spec => []TypeOK
<1>1. IInv => TypeOK
  <2> SUFFICES ASSUME IInv PROVE TypeOK
    OBVIOUS
  <2>1. s.have_secure => s.kp # NoKey /\ s.secure_key[1] = s.kp
    BY DEF IInv, SecretInv, TxInv
  <2>2. s.have_secure <=> s.secure_key # NoSecret
    BY <2>1 DEF IInv, SecretInv, NoSecret
  <2> QED
    BY <2>1, <2>2 DEF IInv, Typed, RadioOK, UsOK, CountsOK, ClockOK, WireOK, TypeOK
<1> QED
  BY <1>1, Invariant, PTL

(* on_pubkey_accepted computes the secret from whatever keys the session   *)
(* has at that moment, while the unit may have asked several times and     *)
(* changed its key: every secure session has the unit's secret all the     *)
(* same, for any number of links, requests and lost transmissions, unless  *)
(* the last key the unit has shown failed its signature check.             *)
THEOREM SecretsAgree == Spec => []SecureAgrees
<1>1. IInv => SecureAgrees
  <2> SUFFICES ASSUME IInv, s.have_secure, ~s.plain, ~spurned PROVE Agree
    BY DEF SecureAgrees, bt_session_ready
  <2>1. unit.phase = "locked" /\ s.secure_key = <<unit.lock, unit.key>>
    BY DEF IInv, SecretInv
  <2>2. unit.encrypts
    BY <2>1 DEF IInv, UnitInv
  <2> QED
    BY <2>1, <2>2 DEF Agree
<1> QED
  BY <1>1, Invariant, PTL

(* kex_timer_cb may lose the processor between its test and its write, so  *)
(* that the write comes after the reset at BLE_GAP_EVENT_DISCONNECT: the   *)
(* reset at CONNECT keeps that fallback from the next link, whose own      *)
(* timer has not run out.  Only a write still to come when the next link   *)
(* is there gets past it.                                                  *)
THEOREM NoEarlyPlain == Spec => []PlainOnThisLink
<1>1. IInv => PlainOnThisLink
  BY DEF IInv, PlainInv, PlainOnThisLink
<1> QED
  BY <1>1, Invariant, PTL
=============================================================================
