------------------------------ MODULE BtSession ------------------------------
(***************************************************************************)
(* The key exchange of bt_session.c and the fallback to plain Modbus.      *)
(*                                                                         *)
(* The unit drives the exchange: challenge, our answer, its public key,    *)
(* ours, acceptance.  The NimBLE host task handles its messages; the timer *)
(* task runs kex_timer_cb, which declares the unit a plain one when no     *)
(* challenge has come.  Nothing locks the session.  Two handlers are split *)
(* where the other task can see them half done: on_challenge transmits     *)
(* before it leaves IDLE, kex_timer_cb tests for IDLE before it writes.    *)
(*                                                                         *)
(* A challenge is the number of the link it was made on and a keypair its  *)
(* serial number: both are random and so fresh.  A message under the       *)
(* handshake key carries the challenge that key is derived from, and is    *)
(* garbage under any other.  A secret is the pair of public keys it is     *)
(* computed from.  The unit is external: what it may do is what the code's *)
(* comments say it does.                                                   *)
(***************************************************************************)
EXTENDS Integers, Sequences

CONSTANTS
  UnitKeys,   \* the public keys the unit may present
  MaxLinks,   \* bound: links made
  MaxAir,     \* bound: messages under way, both directions
  MaxFails,   \* bound: transmissions or key operations that fail
  MaxJunk     \* bound: handshake frames that handle_kex ignores

ASSUME KeysAssumption == UnitKeys # {} /\ UnitKeys \subseteq Nat \ {0}
ASSUME BoundsAssumption ==
  /\ MaxLinks \in Nat /\ MaxFails \in Nat /\ MaxJunk \in Nat
  /\ MaxAir \in Nat /\ MaxAir >= 2

VARIABLES
  link,    \* down; up: connected; sub: notifications live; closing: dropped by us
  links,   \* links made so far
  s,       \* the struct bt_session
  host,    \* the host task: idle, or sent: inside on_challenge, after the tx
  armed,   \* kex_timer is running
  timer,   \* the timer task: idle, or fall: about to write the fallback
  made,    \* keypairs generated so far
  fails,   \* failures so far
  unit,    \* the power station
  rx,      \* from the unit, in order
  tx,      \* to the unit, in order
  junk,    \* ignored frames sent so far
  spurned, \* history: the signature on the key last shown did not verify
  fell,    \* history: the fallback timer ran out on this link
  late     \* history: this link came while timer was at "fall"

radio == <<link, links>>
us == <<s, host, made, fails, spurned>>
clock == <<armed, timer, fell, late>>
vars == <<radio, us, clock, unit, rx, tx, junk>>

NoKey == 0
NoSecret == <<NoKey, NoKey>>
NoReply == [type |-> "pubreply", pub |-> NoKey, iv |-> 0]

States == {"IDLE", "CHALLENGE", "PUBKEY", "READY", "FAILED"}
Challenges == 0 .. MaxLinks
Message == [type : {"challenge", "pubkey", "ok", "rejected", "accepted", "junk"},
            iv : Challenges, key : UnitKeys \cup {NoKey}]
Answer == [type : {"creply", "pubreply"}, pub : Nat, iv : Challenges]
Session == [state : States, plain : BOOLEAN, have_unsecure : BOOLEAN, iv : Challenges,
            have_secure : BOOLEAN, secure_key : Nat \X (UnitKeys \cup {NoKey}),
            peer_pub : UnitKeys \cup {NoKey}, kp : Nat, pubkey_reply : Answer]
Unit == [encrypts : BOOLEAN, prompt : BOOLEAN, lock : Nat, key : UnitKeys \cup {NoKey},
         phase : {"quiet", "challenged", "keyed", "locked", "refused"}]

(* The types; a session has a secret exactly when it says so, and then has *)
(* the keypair it came from.                                               *)
TypeOK ==
  /\ link \in {"down", "up", "sub", "closing"} /\ links \in Challenges
  /\ s \in Session
  /\ s.have_secure <=> s.secure_key # NoSecret
  /\ s.have_secure => s.kp # NoKey
  /\ host \in {"idle", "sent"}
  /\ armed \in BOOLEAN /\ timer \in {"idle", "fall"}
  /\ made \in Nat /\ fails \in 0 .. MaxFails /\ junk \in 0 .. MaxJunk
  /\ unit \in Unit
  /\ rx \in Seq(Message) /\ tx \in Seq(Answer)
  /\ spurned \in BOOLEAN /\ fell \in BOOLEAN /\ late \in BOOLEAN

bt_session_ready == s.state = "READY" /\ (s.have_secure \/ s.plain)

(* Faulty: the keypair and the cached reply outlive the link. *)
ResetKeepsReply(t) ==
  [t EXCEPT !.state = "IDLE", !.plain = FALSE, !.have_unsecure = FALSE,
            !.have_secure = FALSE, !.secure_key = NoSecret]

(* The IV and the unit's key stay behind. *)
bt_session_reset(t) ==
  [t EXCEPT !.kp = NoKey, !.state = "IDLE", !.plain = FALSE, !.have_unsecure = FALSE,
            !.have_secure = FALSE, !.pubkey_reply = NoReply, !.secure_key = NoSecret]

Init ==
  /\ link = "down" /\ links = 0
  /\ s = [state |-> "IDLE", plain |-> FALSE, have_unsecure |-> FALSE, iv |-> 0,
          have_secure |-> FALSE, secure_key |-> NoSecret, peer_pub |-> NoKey,
          kp |-> NoKey, pubkey_reply |-> NoReply]
  /\ host = "idle" /\ armed = FALSE /\ timer = "idle" /\ made = 0 /\ fails = 0
  /\ unit \in [encrypts : BOOLEAN, prompt : BOOLEAN, lock : {NoKey}, key : {NoKey},
               phase : {"quiet"}]
  /\ rx = <<>> /\ tx = <<>> /\ junk = 0
  /\ spurned = FALSE /\ fell = FALSE /\ late = FALSE

-----------------------------------------------------------------------------
(* The link, on the host task. *)

(* Faulty: the session is reset only when the link goes down. *)
ConnectedAsIs ==
  /\ link = "down" /\ links < MaxLinks
  /\ link' = "up" /\ links' = links + 1
  /\ fell' = FALSE /\ late' = (timer = "fall")
  /\ UNCHANGED <<us, armed, timer, unit, rx, tx, junk>>

(* BLE_GAP_EVENT_CONNECT; kex_timer_cb may be anywhere by then. *)
Connected ==
  /\ link = "down" /\ links < MaxLinks
  /\ link' = "up" /\ links' = links + 1
  /\ s' = bt_session_reset(s)
  /\ spurned' = FALSE /\ fell' = FALSE /\ late' = (timer = "fall")
  /\ UNCHANGED <<host, made, fails, armed, timer, unit, rx, tx, junk>>

(* on_sub: notifications are live; the fallback timer starts. *)
OnSub ==
  /\ link = "up" /\ host = "idle"
  /\ link' = "sub" /\ armed' = TRUE
  /\ UNCHANGED <<links, us, timer, fell, late, unit, rx, tx, junk>>

(* BLE_GAP_EVENT_DISCONNECT; the unit starts over with the next link. *)
Disconnected ==
  /\ link # "down" /\ host = "idle"
  /\ link' = "down" /\ armed' = FALSE
  /\ s' = bt_session_reset(s)
  /\ unit' = [unit EXCEPT !.phase = "quiet", !.lock = NoKey, !.key = NoKey]
  /\ rx' = <<>> /\ tx' = <<>>
  /\ UNCHANGED <<links, host, made, fails, spurned, timer, fell, late, junk>>

(* poll_timer_cb drops a link on which a ready session gets no answers. *)
PollDrop ==
  /\ link = "sub" /\ bt_session_ready
  /\ link' = "closing"
  /\ UNCHANGED <<links, us, clock, unit, rx, tx, junk>>

-----------------------------------------------------------------------------
(* The fallback, on the timer task. *)

(* kex_timer_cb up to the tests for IDLE.  A prompt unit's challenge has   *)
(* been answered before the 15 s are over.                                 *)
KexExpires ==
  /\ armed /\ timer = "idle"
  /\ unit.prompt /\ unit.encrypts => s.state # "IDLE"
  /\ armed' = FALSE
  /\ fell' = TRUE
  /\ timer' = IF link \in {"up", "sub"} /\ s.state = "IDLE" THEN "fall" ELSE "idle"
  /\ UNCHANGED <<radio, us, late, unit, rx, tx, junk>>

(* bt_session_use_plain, past its test. *)
KexFalls ==
  /\ timer = "fall"
  /\ timer' = "idle"
  /\ s' = [s EXCEPT !.plain = TRUE, !.state = "READY"]
  /\ UNCHANGED <<radio, host, made, fails, spurned, armed, fell, late, unit, rx, tx, junk>>

-----------------------------------------------------------------------------
(* bt_session_feed, on the host task. *)

(* session_tx: sent says whether the stack took the message. *)
Transmit(m, sent) ==
  IF sent THEN link = "sub" /\ tx' = Append(tx, m) /\ UNCHANGED fails
          ELSE /\ UNCHANGED tx
               /\ IF link = "sub" THEN fails < MaxFails /\ fails' = fails + 1
                                  ELSE UNCHANGED fails

(* The message in hand, on a session that is neither plain nor secure yet. *)
Feeding ==
  /\ host = "idle" /\ link \in {"sub", "closing"} /\ rx # <<>>
  /\ rx' = Tail(rx)
  /\ UNCHANGED <<radio, clock, unit, junk>>
Handshaking == ~s.plain /\ ~s.have_secure
Legible == s.have_unsecure /\ Head(rx).iv = s.iv
Handled ==
  /\ Handshaking
  /\ \/ Head(rx).type = "challenge"
     \/ Head(rx).type \in {"pubkey", "ok", "rejected"} /\ Legible

(* on_challenge, up to the reply. *)
OnChallenge(sent) ==
  /\ Feeding /\ Handshaking /\ Head(rx).type = "challenge"
  /\ Transmit([type |-> "creply", pub |-> NoKey, iv |-> Head(rx).iv], sent)
  /\ s' = [s EXCEPT !.iv = Head(rx).iv, !.have_unsecure = TRUE,
                    !.state = IF sent THEN @ ELSE "FAILED"]
  /\ host' = IF sent THEN "sent" ELSE "idle"
  /\ UNCHANGED <<made, spurned>>

(* on_challenge, after the reply. *)
ChallengeAnswered ==
  /\ host = "sent"
  /\ host' = "idle"
  /\ s' = [s EXCEPT !.state = "CHALLENGE"]
  /\ UNCHANGED <<radio, made, fails, spurned, clock, unit, rx, tx, junk>>

(* Faulty: a new keypair for every request. *)
NewKeypair(t) == made + 1

(* One ephemeral keypair per session. *)
Keypair(t) == IF t.kp # NoKey THEN t.kp ELSE made + 1

(* on_peer_pubkey, a key it has answered before: the same reply again. *)
IsRepeat == s.kp # NoKey /\ s.pubkey_reply # NoReply /\ s.peer_pub = Head(rx).key
OnRepeatedPubkey(sent) ==
  /\ Feeding /\ Handshaking /\ Legible /\ Head(rx).type = "pubkey" /\ IsRepeat
  /\ Transmit(s.pubkey_reply, sent)
  /\ spurned' = FALSE
  /\ UNCHANGED <<s, host, made>>

(* on_peer_pubkey, a key it has not seen. *)
OnPeerPubkey(sent) ==
  LET kp == Keypair(s)
      reply == [type |-> "pubreply", pub |-> kp, iv |-> s.iv]
  IN /\ Feeding /\ Handshaking /\ Legible /\ Head(rx).type = "pubkey" /\ ~IsRepeat
     /\ Transmit(reply, sent)
     /\ s' = [s EXCEPT !.peer_pub = Head(rx).key, !.kp = kp, !.pubkey_reply = reply,
                       !.state = IF sent THEN "PUBKEY" ELSE "FAILED"]
     /\ made' = IF kp > made THEN kp ELSE made
     /\ spurned' = FALSE
     /\ UNCHANGED host

(* on_peer_pubkey gives up on a key it has not seen, at one of its steps. *)
PubkeyFails ==
  /\ Feeding /\ Handshaking /\ Legible /\ Head(rx).type = "pubkey" /\ ~IsRepeat
  /\ fails < MaxFails /\ fails' = fails + 1
  /\ UNCHANGED <<host, tx>>

(* The signature on the key does not verify: the key is not taken over. *)
OnPubkeyUnverified ==
  /\ PubkeyFails
  /\ s' = [s EXCEPT !.state = "FAILED"]
  /\ spurned' = TRUE
  /\ UNCHANGED made

(* It is taken over, and there is no keypair to answer with. *)
OnPubkeyNoKeypair ==
  /\ PubkeyFails
  /\ s.kp = NoKey
  /\ s' = [s EXCEPT !.peer_pub = Head(rx).key, !.state = "FAILED"]
  /\ spurned' = FALSE
  /\ UNCHANGED made

(* Our key cannot be exported, signed, framed or wrapped: the keypair stays. *)
OnPubkeyUnsigned ==
  /\ PubkeyFails
  /\ s' = [s EXCEPT !.peer_pub = Head(rx).key, !.kp = Keypair(s), !.state = "FAILED"]
  /\ made' = IF Keypair(s) > made THEN Keypair(s) ELSE made
  /\ spurned' = FALSE

(* on_pubkey_accepted: the secret is made of the keys as they are now. *)
OnPubkeyAccepted ==
  /\ Feeding /\ Handshaking /\ Legible /\ Head(rx).type = "ok"
  /\ s' = [s EXCEPT !.secure_key = <<s.kp, s.peer_pub>>, !.have_secure = TRUE,
                    !.state = "READY"]
  /\ UNCHANGED <<host, made, fails, spurned, tx>>

(* on_pubkey_accepted: our key is refused, or the secret cannot be computed. *)
OnPubkeyRefused ==
  /\ Feeding /\ Handshaking /\ Legible
  /\ \/ Head(rx).type = "rejected" /\ UNCHANGED fails
     \/ Head(rx).type = "ok" /\ fails < MaxFails /\ fails' = fails + 1
  /\ s' = [s EXCEPT !.state = "FAILED"]
  /\ UNCHANGED <<host, made, spurned, tx>>

(* What feed and handle_kex log or drop: an acknowledgement, a frame that  *)
(* is not well formed or not legible, handshake bytes on a plain or a      *)
(* secure session.                                                         *)
FeedIgnored ==
  /\ Feeding /\ ~Handled
  /\ UNCHANGED <<us, tx>>

Feed ==
  \/ \E sent \in BOOLEAN : OnChallenge(sent) \/ OnRepeatedPubkey(sent) \/ OnPeerPubkey(sent)
  \/ OnPubkeyUnverified \/ OnPubkeyNoKeypair \/ OnPubkeyUnsigned
  \/ OnPubkeyAccepted \/ OnPubkeyRefused \/ FeedIgnored

-----------------------------------------------------------------------------
(* The unit. *)

FromUnit(type, key) == [type |-> type, iv |-> links, key |-> key]
Room(n) == Len(rx) + Len(tx) + n <= MaxAir
UnitAlone == UNCHANGED <<radio, us, clock>>

(* An encrypting unit opens the exchange once notifications are live. *)
UnitChallenges ==
  /\ link = "sub" /\ unit.encrypts /\ unit.phase = "quiet" /\ Room(1)
  /\ unit' = [unit EXCEPT !.phase = "challenged"]
  /\ rx' = Append(rx, FromUnit("challenge", NoKey))
  /\ UnitAlone /\ UNCHANGED <<tx, junk>>

(* The answer is right: "challenge accepted", and its public key. *)
UnitPresents(k) ==
  /\ tx # <<>> /\ Head(tx).type = "creply" /\ unit.phase = "challenged" /\ Room(1)
  /\ tx' = Tail(tx)
  /\ unit' = [unit EXCEPT !.phase = "keyed", !.key = k]
  /\ rx' = rx \o <<FromUnit("accepted", NoKey), FromUnit("pubkey", k)>>
  /\ UnitAlone /\ UNCHANGED junk

(* It asks again, with the same key or a new one. *)
UnitAsks(k) ==
  /\ link = "sub" /\ unit.phase = "keyed" /\ Room(1)
  /\ unit' = [unit EXCEPT !.key = k]
  /\ rx' = Append(rx, FromUnit("pubkey", k))
  /\ UnitAlone /\ UNCHANGED <<tx, junk>>

(* It settles for one of our replies. *)
UnitReads == tx # <<>> /\ Head(tx).type = "pubreply" /\ tx' = Tail(tx)
UnitLocks ==
  /\ UnitReads /\ unit.phase = "keyed" /\ Head(tx).iv = links
  /\ unit' = [unit EXCEPT !.phase = "locked", !.lock = Head(tx).pub]
  /\ rx' = Append(rx, FromUnit("ok", NoKey))
  /\ UnitAlone /\ UNCHANGED junk

UnitRejects ==
  /\ UnitReads /\ unit.phase = "keyed" /\ Head(tx).iv = links
  /\ unit' = [unit EXCEPT !.phase = "refused"]
  /\ rx' = Append(rx, FromUnit("rejected", NoKey))
  /\ UnitAlone /\ UNCHANGED junk

(* A reply it passes over, or cannot read. *)
UnitIgnores == UnitReads /\ UnitAlone /\ UNCHANGED <<unit, rx, junk>>

(* A stray frame: a bad checksum, a type handle_kex does not know. *)
UnitStray ==
  /\ link = "sub" /\ junk < MaxJunk /\ Room(1)
  /\ junk' = junk + 1
  /\ rx' = Append(rx, FromUnit("junk", NoKey))
  /\ UnitAlone /\ UNCHANGED <<unit, tx>>

Next ==
  \/ Connected \/ OnSub \/ Disconnected \/ PollDrop
  \/ KexExpires \/ KexFalls
  \/ Feed \/ ChallengeAnswered
  \/ UnitChallenges \/ \E k \in UnitKeys : UnitPresents(k) \/ UnitAsks(k)
  \/ UnitLocks \/ UnitRejects \/ UnitIgnores \/ UnitStray

Spec == Init /\ [][Next]_vars

(* Both sides can read each other. *)
Agree ==
  IF unit.encrypts THEN /\ s.have_secure /\ ~s.plain /\ unit.phase = "locked"
                        /\ s.secure_key = <<unit.lock, unit.key>>
                   ELSE s.plain

(* The tasks run, the timer runs out, unanswered reads drop the link, and  *)
(* the unit goes on: it opens, asks again while nothing is under way, and  *)
(* does not pass over every reply for ever.                                *)
Fairness ==
  /\ WF_vars(Feed) /\ WF_vars(ChallengeAnswered)
  /\ WF_vars(KexExpires) /\ WF_vars(KexFalls)
  /\ WF_vars(PollDrop /\ ~Agree) /\ WF_vars(link = "closing" /\ Disconnected)
  /\ WF_vars(UnitChallenges) /\ WF_vars(\E k \in UnitKeys : UnitPresents(k))
  /\ WF_vars(rx = <<>> /\ tx = <<>> /\ \E k \in UnitKeys : UnitAsks(k))
  /\ WF_vars(UnitIgnores) /\ SF_vars(UnitLocks)

FairSpec == Spec /\ Fairness

-----------------------------------------------------------------------------
(* A secure session has the secret the unit has, although the unit asks    *)
(* for our key several times, may change its own, and picks which of our   *)
(* replies to settle for (the comments at pubkey_reply and on_peer_pubkey).*)
(* Excepted is a unit whose last key we refused and that settles for a     *)
(* reply all the same: FAILED is not final, and its "ok" then makes a      *)
(* secret of the key before (spurned).                                     *)
SecureAgrees == bt_session_ready /\ ~s.plain /\ ~spurned => Agree

(* No unit is spoken to in plain Modbus before the fallback timer of its   *)
(* own link has run out: a fallback decided while the last link went down  *)
(* does not leak into the next (bt_session_reset on connect).  The code    *)
(* has one way around that: kex_timer_cb between its test and its write    *)
(* all the while the last link ends and this one comes (late).             *)
PlainOnThisLink == link \in {"sub", "closing"} /\ s.plain => fell \/ late

(* On a link that stays up, a unit that is plain or opens in time ends up  *)
(* for good with a session both sides understand, or with a failed one.    *)
HandshakeEnds ==
  <>[](link = "sub") /\ (unit.encrypts => unit.prompt)
    => <>[]((bt_session_ready /\ Agree) \/ s.state = "FAILED")

=============================================================================
