---------------------------- MODULE Admin_proofs -----------------------------
(***************************************************************************)
(* Proofs about Admin, for every set of values, layouts and number of      *)
(* requests: the state is well typed and the admin pages are served        *)
(* exactly when a network is configured (TypeOK), the services run what    *)
(* flash holds (RunsWhatIsSaved), and nothing is armed that the user did   *)
(* not arm (ArmedByUser).                                                  *)
(*                                                                         *)
(* RunsWhatIsSaved speaks about moments between two requests.  While one   *)
(* is handled, memory, flash and services differ in what they missed       *)
(* before, in what the section of the request is about and in nothing      *)
(* else: Follows says so.  ArmedByUser needs the same of every place the   *)
(* flag passes through, flash included: OnlyIfAsked.                       *)
(***************************************************************************)
EXTENDS Admin, TLAPS

(* The parts of TypeOK. *)
MemoryOK == cfg \in Config
FlashOK == blob \in Blob \cup {Absent} /\ guests \in Setting
RunOK == run \in Running
HttpType == [pc : {"setup", "idle", "guests", "assign", "save", "apply", "erase", "erased"},
             section : Sections, pending : Config, was : BOOLEAN, rules : Setting]
HttpOK == http \in HttpType
FlagsOK ==
  /\ rebooting \in BOOLEAN /\ posts \in 0 .. MaxPosts
  /\ dead \subseteq Services /\ missed \subseteq Services
  /\ unsaved \in BOOLEAN /\ userArmed \in BOOLEAN
Served == http.pc = "setup" <=> cfg.net = None

(* What memory holds once the handler at work has assigned. *)
New == IF http.pc \in {"guests", "assign"} THEN http.pending ELSE cfg

(* No form leaves the device without a network; only one has guest rules. *)
Networked ==
  /\ http.pc \in {"guests", "assign"} => http.pending.net # None
  /\ http.pc = "guests" => http.section = "pve"

(* Flash and memory agree but between Assign and Save, and after a save    *)
(* that failed.                                                            *)
Stored ==
  /\ ~unsaved /\ http.pc \in {"idle", "guests", "assign"} => cfg = Loaded(blob)
  /\ http.pc = "apply" /\ ~unsaved => blob = Saved(cfg)
  /\ http.pc = "apply" /\ http.section # "live" => ~unsaved

(* The services follow, but for what they missed and what the request at   *)
(* work is about.                                                          *)
Handling == http.pc \in {"guests", "assign", "save", "apply"}
Touched == IF Handling THEN About(http.section) ELSE {}
Apart == missed \cup Touched
Follows ==
  ~rebooting /\ (http.pc = "idle" \/ Handling) =>
    /\ "net" \in Apart \/ run.net = New.net
    /\ "nut" \in Apart \/ run.nut = New.nut
    /\ "pve" \in Apart \/ run.pve = New.pve
    /\ "guests" \in Apart \/ run.guests = guests
    /\ "tg" \in Apart \/ run.tg = New.tg
    /\ (Handling /\ http.section = "live") \/ run.live = New.live
    /\ Handling => "nut" \in missed \/ http.was = run.nut

(* What did not start has missed everything. *)
DeadMissed ==
  /\ dead \subseteq missed /\ "guests" \notin dead
  /\ "pve" \in dead => "guests" \in missed

(* Wherever the armed flag is set, the user has asked for it. *)
OnlyIfAsked ==
  /\ cfg.pve.armed => userArmed
  /\ New.pve.armed => userArmed
  /\ Loaded(blob).pve.armed => userArmed
  /\ run.pve.armed => userArmed /\ "pve" \notin dead

IInv ==
  /\ MemoryOK /\ FlashOK /\ RunOK /\ HttpOK /\ FlagsOK
  /\ Served /\ Networked /\ Stored /\ Follows /\ DeadMissed /\ OnlyIfAsked

LEMMA TypeParts ==
  TypeOK <=> MemoryOK /\ FlashOK /\ RunOK /\ HttpOK /\ FlagsOK /\ Served
  BY Zenon DEF TypeOK, MemoryOK, FlashOK, RunOK, HttpOK, HttpType, FlagsOK, Served

-----------------------------------------------------------------------------
(* What the operators return. *)
LEMMA DefaultsTyped == PveDefaults \in Pve /\ Defaults \in Config
<1>1. PveDefaults \in Pve
  BY DEF PveDefaults, Pve, Host, Setting
<1> QED
  BY <1>1 DEF Defaults, Config, Setting

LEMMA IdleTyped ==
  /\ Idle \in [pc : {"idle"}, section : Sections, pending : Config, was : BOOLEAN, rules : Setting]
  /\ InSetup \in [pc : {"setup"}, section : Sections, pending : Config, was : BOOLEAN, rules : Setting]
  BY DefaultsTyped DEF Idle, InSetup, Sections, Setting

LEMMA LoadedTyped ==
  ASSUME NEW b \in Blob \cup {Absent}
  PROVE  Loaded(b) \in Config
<1>1. CASE b = Absent
  BY <1>1, DefaultsTyped DEF Loaded, Absent, Current
<1>2. CASE b \in Blob
  <2>1. b.version \in Nat /\ b.cfg \in Config
    BY <1>2 DEF Blob
  <2> QED
    BY <2>1, DefaultsTyped DEF Loaded, Config
<1> QED
  BY <1>1, <1>2

LEMMA LoadedAbsent == Loaded(Absent) = Defaults
  BY DEF Loaded, Absent, Current

LEMMA LoadedSaved ==
  ASSUME NEW c \in Config
  PROVE  Saved(c) \in Blob /\ Loaded(Saved(c)) = c
<1>1. Saved(c) \in Blob /\ Saved(c).version = 18 /\ Saved(c).cfg = c
  BY DEF Saved, Blob, Current
<1>2. (c.nut \/ 18 < 15) = c.nut
  <2>1. ~(18 < 15)
    OBVIOUS
  <2>2. c.nut \in BOOLEAN
    BY DEF Config
  <2> QED
    BY <2>1, <2>2, Zenon
<1>3. Loaded(Saved(c)) = [c EXCEPT !.pve = c.pve, !.nut = (c.nut \/ 18 < 15)]
  BY <1>1 DEF Loaded, Current
<1>4. Loaded(Saved(c)) = [c EXCEPT !.pve = c.pve, !.nut = c.nut]
  BY <1>2, <1>3
<1> QED
  BY <1>1, <1>4 DEF Config

LEMMA StartedTyped ==
  ASSUME NEW c \in Config, NEW g \in Setting, NEW f \in SUBSET Services
  PROVE  Started(c, g, f) \in Running
<1>1. c.nut \in BOOLEAN
  BY DEF Config
<1>2. ("nut" \notin f /\ c.nut) \in BOOLEAN
  BY Zenon
<1> QED
  BY <1>2, DefaultsTyped DEF Started, Running, Config, Setting

(* A service that started runs what it was given. *)
LEMMA StartedParts ==
  ASSUME NEW c \in Config, NEW g \in Setting, NEW f \in SUBSET Services
  PROVE  LET r == Started(c, g, f)
         IN  /\ "net" \in f \/ r.net = c.net
             /\ "nut" \in f \/ r.nut = c.nut
             /\ "pve" \in f \/ r.pve = c.pve
             /\ "guests" \in f \/ r.guests = g
             /\ "tg" \in f \/ r.tg = c.tg
             /\ r.live = c.live
             /\ r.pve.armed => c.pve.armed /\ "pve" \notin f
<1> DEFINE r == Started(c, g, f)
           n == "nut" \notin f /\ c.nut
<1>1. n \in BOOLEAN /\ ("nut" \in f \/ n = c.nut)
  <2>1. c.nut \in BOOLEAN
    BY DEF Config
  <2> QED
    BY <2>1, Zenon
<1>2. r.nut = n
  BY DEF Started
<1> HIDE DEF n
<1>3. /\ "net" \in f \/ r.net = c.net
      /\ "pve" \in f \/ r.pve = c.pve
      /\ "guests" \in f \/ r.guests = g
      /\ "tg" \in f \/ r.tg = c.tg
      /\ r.live = c.live
  BY DEF Started
<1>4. "pve" \in f => ~r.pve.armed
  BY DEF Started, PveDefaults
<1> QED
  BY <1>1, <1>2, <1>3, <1>4

LEMMA FailuresTyped ==
  ASSUME NEW f \in Failures
  PROVE  f \in SUBSET Services /\ ("pve" \in f => "guests" \in f)
  BY AdminAssumption DEF Failures

(* What the sections are about. *)
LEMMA AboutParts ==
  ASSUME NEW s \in Sections
  PROVE  /\ About(s) \subseteq Services
         /\ "net" \in About(s) <=> s = "net"
         /\ "nut" \in About(s) <=> s = "integrations"
         /\ "pve" \in About(s) <=> s \in {"pve", "integrations"}
         /\ "guests" \in About(s) <=> s \in {"pve", "integrations"}
         /\ "tg" \in About(s) <=> s \in {"notify", "integrations"}
<1>1. /\ About("net") = {"net"}
      /\ About("integrations") = {"nut", "pve", "guests", "tg"}
      /\ About("pve") = {"pve", "guests"}
      /\ About("notify") = {"tg"}
      /\ About("auth") = {} /\ About("live") = {} /\ About("reset") = {}
  BY DEF About
<1> QED
  BY <1>1 DEF Sections, Services

-----------------------------------------------------------------------------
(* However the device comes up, it runs what it has loaded. *)
LEMMA BootsInv ==
  ASSUME FlagsOK, NEW b \in Blob \cup {Absent}, NEW g \in Setting,
         Boots(b, g), blob' = b, guests' = g,
         userArmed' \in BOOLEAN, Loaded(b).pve.armed => userArmed'
  PROVE  IInv'
<1> DEFINE c == Loaded(b)
<1>0. c \in Config /\ cfg' = c
  BY LoadedTyped DEF Boots
<1>a. /\ c.net = None => http' = InSetup
      /\ c.net # None => http' = Idle
  BY DEF Boots
<1>c. PICK f \in SUBSET Services :
        /\ "pve" \in f => "guests" \in f
        /\ \/ c.net = None /\ run' = Started(Defaults, None, f)
           \/ c.net # None /\ run' = Started(c, g, f)
        /\ dead' = f \ {"guests"} /\ missed' = f
  BY FailuresTyped DEF Boots
<1>b. /\ InSetup.pc = "setup" /\ Idle.pc = "idle"
      /\ None \in Setting /\ Defaults \in Config
  BY DefaultsTyped DEF InSetup, Idle, Setting
<1> HIDE DEF c
<1>1. MemoryOK' /\ FlashOK'
  BY <1>0 DEF MemoryOK, FlashOK
<1>2. RunOK'
  BY <1>0, <1>c, <1>b, StartedTyped DEF RunOK
<1>3. HttpOK'
  BY <1>a, IdleTyped DEF HttpOK, HttpType
<1>4. FlagsOK' /\ DeadMissed'
  BY <1>c DEF FlagsOK, Boots, DeadMissed
<1>5. Served' /\ Networked'
  BY <1>0, <1>a, <1>b DEF Served, Networked
<1>6. Stored'
  BY <1>0, <1>a, <1>b DEF Stored, c
<1>8. New' = c
  BY <1>0, <1>a, <1>b DEF New
<1>7. Follows'
  <2> SUFFICES ASSUME http'.pc = "idle" PROVE Follows'
    BY <1>a, <1>b DEF Follows, Handling
  <2>1. run' = Started(c, g, f) /\ Apart' = f /\ ~Handling'
    BY <1>a, <1>b, <1>c DEF Apart, Touched, Handling
  <2> QED
    BY <1>0, <1>8, <2>1, StartedParts DEF Follows
<1>9. /\ run'.pve.armed => "pve" \notin f
      /\ run'.pve.armed => c.pve.armed
  <2>1. ~Defaults.pve.armed
    BY DEF Defaults, PveDefaults
  <2> QED
    BY <1>0, <1>b, <1>c, <2>1, StartedParts
<1>10. OnlyIfAsked'
  BY <1>0, <1>8, <1>9, <1>c DEF OnlyIfAsked, c
<1> QED
  BY <1>1, <1>2, <1>3, <1>4, <1>5, <1>6, <1>7, <1>10 DEF IInv

LEMMA InitInv == Init => IInv
<1> SUFFICES ASSUME Init PROVE IInv
  OBVIOUS
<1>0. PICK v \in Versions, net \in Values, armed \in BOOLEAN, rule \in Setting, f \in Failures :
        /\ blob = [Saved([Defaults EXCEPT !.net = net, !.auth = net,
                      !.pve = [enabled |-> TRUE, armed |-> armed,
                               host |-> [on |-> rule # None, rule |-> rule]]])
                    EXCEPT !.version = v]
        /\ guests = IF v >= 12 THEN rule ELSE None
        /\ cfg = Loaded(blob)
        /\ Loaded(blob).net = None => f = {}
        /\ run = IF Loaded(blob).net = None THEN Started(Defaults, None, f)
                 ELSE Started(Loaded(blob), guests, f)
        /\ dead = f \ {"guests"} /\ missed = f
        /\ http = IF Loaded(blob).net = None THEN InSetup ELSE Idle
        /\ rebooting = FALSE /\ posts = 0 /\ unsaved = FALSE
        /\ userArmed = (armed /\ v \in 12 .. Current)
  BY Zenon DEF Init
<1> DEFINE p == [enabled |-> TRUE, armed |-> armed, host |-> [on |-> rule # None, rule |-> rule]]
           d == [Defaults EXCEPT !.net = net, !.auth = net, !.pve = p]
<1>a. p \in Pve /\ p.armed = armed
  BY DEF Pve, Host
<1>b. d \in Config /\ d.pve = p
  BY <1>a, DefaultsTyped DEF Config, Setting
<1>c. v \in Nat /\ blob = [version |-> v, cfg |-> d]
  BY <1>0, AdminAssumption DEF Saved
<1> HIDE DEF p, d
<1>d. blob \in Blob /\ blob.version = v /\ blob.cfg = d
  BY <1>b, <1>c DEF Blob
<1>e. Loaded(blob).pve.armed => armed /\ v \in 12 .. Current
  BY <1>a, <1>b, <1>c, <1>d DEF Loaded, Config, Current, Defaults, PveDefaults
<1>f. cfg \in Config /\ None \in Setting /\ guests \in Setting
  BY <1>0, <1>d, LoadedTyped DEF Setting
<1>g. /\ cfg.net = None => run = Started(Defaults, None, f) /\ http = InSetup
      /\ cfg.net # None => run = Started(cfg, guests, f) /\ http = Idle
      /\ InSetup.pc = "setup" /\ Idle.pc = "idle"
  BY <1>0 DEF InSetup, Idle
<1>h. f \in SUBSET Services /\ ("pve" \in f => "guests" \in f)
  BY FailuresTyped
<1>1. MemoryOK /\ FlashOK
  BY <1>d, <1>f DEF MemoryOK, FlashOK
<1>2. RunOK
  BY <1>f, <1>g, <1>h, DefaultsTyped, StartedTyped DEF RunOK
<1>3. HttpOK
  BY <1>g, IdleTyped DEF HttpOK, HttpType
<1>4. FlagsOK /\ DeadMissed
  <2>1. posts \in 0 .. MaxPosts
    BY <1>0, AdminAssumption
  <2>2. rebooting \in BOOLEAN /\ unsaved \in BOOLEAN /\ userArmed \in BOOLEAN
    BY <1>0, Zenon
  <2> QED
    BY <1>0, <1>h, <2>1, <2>2 DEF FlagsOK, DeadMissed
<1>5. Served /\ Networked
  BY <1>g DEF Served, Networked
<1>6. Stored
  BY <1>0, <1>g DEF Stored
<1>8. New = cfg
  BY <1>g DEF New
<1>7. Follows
  <2> SUFFICES ASSUME http.pc = "idle" PROVE Follows
    BY <1>g DEF Follows, Handling
  <2>1. run = Started(cfg, guests, f) /\ Apart = f /\ ~Handling
    BY <1>0, <1>g DEF Apart, Touched, Handling
  <2> QED
    BY <1>f, <1>h, <1>8, <2>1, StartedParts DEF Follows
<1>i. run.pve.armed => "pve" \notin f /\ cfg.pve.armed
  <2>1. ~Defaults.pve.armed
    BY DEF Defaults, PveDefaults
  <2> QED
    BY <1>f, <1>g, <1>h, <2>1, DefaultsTyped, StartedParts
<1>9. OnlyIfAsked
  BY <1>0, <1>e, <1>8, <1>i DEF OnlyIfAsked
<1> QED
  BY <1>1, <1>2, <1>3, <1>4, <1>5, <1>6, <1>7, <1>9 DEF IInv

(* A form is taken: the handler will change what its section is about. *)
LEMMA BeginInv ==
  ASSUME IInv, NEW h \in HttpType, Begin(h), h.pc \in {"guests", "assign"},
         UNCHANGED <<cfg, blob, guests, run, rebooting, dead, unsaved, missed>>,
         userArmed' \in BOOLEAN, userArmed => userArmed',
         h.was = cfg.nut, h.pending.net # None, h.pc = "guests" => h.section = "pve",
         h.pending.pve.armed => userArmed',
         h.section # "net" => h.pending.net = cfg.net,
         h.section # "integrations" => h.pending.nut = cfg.nut,
         h.section \notin {"pve", "integrations"} => h.pending.pve = cfg.pve,
         h.section \notin {"notify", "integrations"} => h.pending.tg = cfg.tg,
         h.section # "live" => h.pending.live = cfg.live
  PROVE  IInv'
<1>0. /\ http.pc = "idle" /\ http' = h
      /\ posts < MaxPosts /\ posts' = posts + 1
  BY DEF Begin
<1>1. MemoryOK' /\ FlashOK' /\ RunOK'
  BY DEF IInv, MemoryOK, FlashOK, RunOK
<1>2. HttpOK' /\ Networked'
  BY <1>0 DEF HttpOK, Networked
<1>3. FlagsOK' /\ DeadMissed'
  <2>1. posts' \in 0 .. MaxPosts
    BY <1>0, AdminAssumption DEF IInv, FlagsOK
  <2> QED
    BY <2>1 DEF IInv, FlagsOK, DeadMissed
<1>4. Served'
  BY <1>0 DEF IInv, Served
<1>5. Stored'
  BY <1>0 DEF IInv, Stored
<1>6. New' = h.pending
  BY <1>0 DEF New
<1>7. Follows'
  <2> SUFFICES ASSUME ~rebooting PROVE Follows'
    BY DEF Follows
  <2>1. New = cfg /\ Apart = missed /\ ~Handling
    BY <1>0 DEF New, Apart, Touched, Handling
  <2>2. /\ "net" \in missed \/ run.net = cfg.net
        /\ "nut" \in missed \/ run.nut = cfg.nut
        /\ "pve" \in missed \/ run.pve = cfg.pve
        /\ "guests" \in missed \/ run.guests = guests
        /\ "tg" \in missed \/ run.tg = cfg.tg
        /\ run.live = cfg.live
    BY <1>0, <2>1 DEF IInv, Follows
  <2>3. Apart' = missed \cup About(h.section) /\ Handling'
    BY <1>0 DEF Apart, Touched, Handling
  <2>4. h.section \in Sections
    BY DEF HttpType
  <2>5. /\ "net" \in About(h.section) \/ h.pending.net = cfg.net
        /\ "nut" \in About(h.section) \/ h.pending.nut = cfg.nut
        /\ "pve" \in About(h.section) \/ h.pending.pve = cfg.pve
        /\ "tg" \in About(h.section) \/ h.pending.tg = cfg.tg
    BY <2>4, AboutParts
  <2> QED
    BY <1>0, <1>6, <2>2, <2>3, <2>5 DEF Follows
<1>8. OnlyIfAsked'
  BY <1>6 DEF IInv, OnlyIfAsked
<1> QED
  BY <1>1, <1>2, <1>3, <1>4, <1>5, <1>7, <1>8 DEF IInv

LEMMA HandlerTyped ==
  ASSUME MemoryOK, NEW pc \in {"guests", "assign", "save", "erase"},
         NEW s \in Sections, NEW c \in Config
  PROVE  LET h == Handler(pc, s, c)
         IN  /\ h \in HttpType /\ h.pc = pc /\ h.section = s /\ h.pending = c
             /\ h.was = cfg.nut
  BY DEF MemoryOK, Handler, HttpType, Config, Setting

(* h_admin_reconfigure and h_admin_credentials *)
LEMMA FormInv ==
  ASSUME IInv,
         \/ \E v \in Values : PostNet(v) \/ PostNotify(v) \/ PostCredentials(v)
         \/ \E nut, pve \in BOOLEAN, tg \in Setting : PostIntegrations(nut, pve, tg)
         \/ \E armed \in BOOLEAN, row \in {"set", "off", "removed"}, v \in Values,
               g \in Setting : PostPve(armed, row, v, g)
  PROVE  IInv'
<1>0. /\ MemoryOK /\ userArmed \in BOOLEAN
      /\ http.pc = "idle" => cfg.net # None
      /\ cfg.pve.armed => userArmed
  BY DEF IInv, FlagsOK, Served, OnlyIfAsked
<1>a. /\ cfg \in Config /\ cfg.pve \in Pve /\ cfg.pve.host \in Host
      /\ None \in Setting /\ None \notin Values /\ Values \subseteq Setting
      /\ {"net", "integrations", "pve", "notify", "auth"} \subseteq Sections
  BY <1>0, AdminAssumption DEF MemoryOK, Config, Pve, Setting, Sections
<1>1. ASSUME NEW v \in Values, PostNet(v) PROVE IInv'
  <2> DEFINE c == [cfg EXCEPT !.net = v]
             h == Handler("assign", "net", c)
  <2>1. /\ c \in Config /\ c.net = v /\ c.nut = cfg.nut /\ c.pve = cfg.pve
        /\ c.tg = cfg.tg /\ c.live = cfg.live
    BY <1>a DEF Config
  <2>2. h \in HttpType /\ h.pc = "assign" /\ h.section = "net" /\ h.pending = c /\ h.was = cfg.nut
    BY <1>0, <1>a, <2>1, HandlerTyped
  <2>3. Begin(h) /\ UNCHANGED <<cfg, blob, guests, run, rebooting, dead, unsaved, missed, userArmed>>
    BY <1>1 DEF PostNet
  <2> HIDE DEF c, h
  <2> QED
    BY <1>0, <1>a, <2>1, <2>2, <2>3, BeginInv
<1>2. ASSUME NEW v \in Values, PostNotify(v) PROVE IInv'
  <2> DEFINE c == [cfg EXCEPT !.tg = v]
             h == Handler("assign", "notify", c)
  <2>1. /\ c \in Config /\ c.net = cfg.net /\ c.nut = cfg.nut /\ c.pve = cfg.pve
        /\ c.live = cfg.live
    BY <1>a DEF Config
  <2>2. h \in HttpType /\ h.pc = "assign" /\ h.section = "notify" /\ h.pending = c /\ h.was = cfg.nut
    BY <1>0, <1>a, <2>1, HandlerTyped
  <2>3. Begin(h) /\ UNCHANGED <<cfg, blob, guests, run, rebooting, dead, unsaved, missed, userArmed>>
    BY <1>2 DEF PostNotify
  <2>4. cfg.net # None
    BY <1>0, <2>3 DEF Begin
  <2> HIDE DEF c, h
  <2> QED
    BY <1>0, <2>1, <2>2, <2>3, <2>4, BeginInv
<1>3. ASSUME NEW v \in Values, PostCredentials(v) PROVE IInv'
  <2> DEFINE c == [cfg EXCEPT !.auth = v]
             h == Handler("assign", "auth", c)
  <2>1. /\ c \in Config /\ c.net = cfg.net /\ c.nut = cfg.nut /\ c.pve = cfg.pve
        /\ c.tg = cfg.tg /\ c.live = cfg.live
    BY <1>a DEF Config
  <2>2. h \in HttpType /\ h.pc = "assign" /\ h.section = "auth" /\ h.pending = c /\ h.was = cfg.nut
    BY <1>0, <1>a, <2>1, HandlerTyped
  <2>3. Begin(h) /\ UNCHANGED <<cfg, blob, guests, run, rebooting, dead, unsaved, missed, userArmed>>
    BY <1>3 DEF PostCredentials
  <2>4. cfg.net # None
    BY <1>0, <2>3 DEF Begin
  <2> HIDE DEF c, h
  <2> QED
    BY <1>0, <2>1, <2>2, <2>3, <2>4, BeginInv
<1>4. ASSUME NEW nut \in BOOLEAN, NEW pve \in BOOLEAN, NEW tg \in Setting,
             PostIntegrations(nut, pve, tg)
      PROVE  IInv'
  <2> DEFINE c == [cfg EXCEPT !.nut = nut, !.pve.enabled = pve, !.tg = tg]
             h == Handler("assign", "integrations", c)
  <2>1. [cfg.pve EXCEPT !.enabled = pve] \in Pve /\ [cfg.pve EXCEPT !.enabled = pve].armed = cfg.pve.armed
    BY <1>a DEF Pve
  <2>2. /\ c \in Config /\ c.net = cfg.net /\ c.live = cfg.live
        /\ c.pve = [cfg.pve EXCEPT !.enabled = pve]
    BY <1>a, <2>1 DEF Config
  <2>3. h \in HttpType /\ h.pc = "assign" /\ h.section = "integrations" /\ h.pending = c /\ h.was = cfg.nut
    BY <1>0, <1>a, <2>2, HandlerTyped
  <2>4. Begin(h) /\ UNCHANGED <<cfg, blob, guests, run, rebooting, dead, unsaved, missed, userArmed>>
    BY <1>4 DEF PostIntegrations
  <2>5. cfg.net # None
    BY <1>0, <2>4 DEF Begin
  <2> HIDE DEF c, h
  <2> QED
    BY <1>0, <2>1, <2>2, <2>3, <2>4, <2>5, BeginInv
<1>5. ASSUME NEW armed \in BOOLEAN, NEW row \in {"set", "off", "removed"}, NEW v \in Values,
             NEW g \in Setting, PostPve(armed, row, v, g)
      PROVE  IInv'
  <2> DEFINE form == IF cfg.pve.enabled THEN HostFromForm(row, v) ELSE cfg.pve.host
             c == [cfg EXCEPT !.pve.armed = armed, !.pve.host = form]
             p == [cfg.pve EXCEPT !.armed = armed, !.host = form]
             at == IF cfg.pve.enabled /\ row # "off" THEN "guests" ELSE "assign"
             rules == IF cfg.pve.enabled THEN GuestsFromForm(row, g) ELSE None
             h == [Handler(at, "pve", c) EXCEPT !.rules = rules]
  <2>1. HostFromForm(row, v) \in Host
    BY <1>a DEF HostFromForm, PveDefaults, Host
  <2>2. form \in Host /\ rules \in Setting /\ at \in {"guests", "assign"}
    BY <1>a, <2>1 DEF GuestsFromForm
  <2>3. p \in Pve /\ p.armed = armed
    BY <1>a, <2>2 DEF Pve
  <2>4. Begin(h) /\ userArmed' = (userArmed \/ armed) /\ UNCHANGED <<cfg, blob, guests, run, rebooting, dead, unsaved, missed>>
    BY <1>5 DEF PostPve
  <2> HIDE DEF form, at, rules
  <2>5. /\ c \in Config /\ c.net = cfg.net /\ c.nut = cfg.nut /\ c.tg = cfg.tg
        /\ c.live = cfg.live /\ c.pve = p
    BY <1>a, <2>3 DEF Config
  <2>6. h \in HttpType /\ h.pc = at /\ h.section = "pve" /\ h.pending = c /\ h.was = cfg.nut
    <3>1. /\ Handler(at, "pve", c) \in HttpType /\ Handler(at, "pve", c).pc = at
          /\ Handler(at, "pve", c).section = "pve" /\ Handler(at, "pve", c).pending = c
          /\ Handler(at, "pve", c).was = cfg.nut
      BY <1>0, <1>a, <2>2, <2>5, HandlerTyped
    <3> QED
      BY <2>2, <3>1 DEF HttpType
  <2>7. cfg.net # None
    BY <1>0, <2>4 DEF Begin
  <2>8. userArmed' \in BOOLEAN /\ (userArmed => userArmed') /\ (armed => userArmed')
    BY <1>0, <2>4, Zenon
  <2> HIDE DEF c, h, p
  <2> QED
    BY <2>2, <2>3, <2>4, <2>5, <2>6, <2>7, <2>8, BeginInv
<1> QED
  BY <1>1, <1>2, <1>3, <1>4, <1>5

LEMMA NextInv == IInv /\ [Next]_vars => IInv'
<1> SUFFICES ASSUME IInv, [Next]_vars PROVE IInv'
  OBVIOUS
<1>0. /\ MemoryOK /\ FlashOK /\ RunOK /\ HttpOK /\ FlagsOK
      /\ Served /\ Networked /\ Stored /\ Follows /\ DeadMissed /\ OnlyIfAsked
  BY DEF IInv
<1>a. "idle" = Idle.pc /\ Idle \in HttpType
  BY IdleTyped DEF Idle, HttpType
<1>c. http.section \in Sections /\ http.pending \in Config
  BY <1>0 DEF HttpOK, HttpType
<1>b. cfg \in Config /\ Saved(cfg) \in Blob /\ Loaded(Saved(cfg)) = cfg
  BY <1>0, LoadedSaved DEF MemoryOK
<1>1. CASE \/ \E v \in Values : PostNet(v) \/ PostNotify(v) \/ PostCredentials(v)
           \/ \E nut, pve \in BOOLEAN, tg \in Setting : PostIntegrations(nut, pve, tg)
           \/ \E armed \in BOOLEAN, row \in {"set", "off", "removed"}, v \in Values,
                 g \in Setting : PostPve(armed, row, v, g)
  BY <1>1, FormInv
<1>2. ASSUME NEW v \in Values, PostLive(v) PROVE IInv'
  <2> DEFINE h == Handler("save", "live", cfg)
  <2>1. h \in HttpType /\ h.pc = "save" /\ h.section = "live" /\ h.was = cfg.nut
    BY <1>0, <1>b, HandlerTyped DEF Sections
  <2>2. http.pc = "idle" /\ http' = h /\ posts' = posts + 1 /\ posts < MaxPosts
    BY <1>2 DEF PostLive, Begin
  <2>3. UNCHANGED <<blob, guests, run, rebooting, dead, unsaved, missed, userArmed>>
    BY <1>2 DEF PostLive
  <2>4. /\ cfg' \in Config /\ cfg'.net = cfg.net /\ cfg'.nut = cfg.nut
        /\ cfg'.pve = cfg.pve /\ cfg'.tg = cfg.tg
    BY <1>b, <1>2 DEF PostLive, Config, Setting
  <2> HIDE DEF h
  <2>5. MemoryOK' /\ FlashOK' /\ RunOK' /\ HttpOK' /\ Served' /\ Networked'
    BY <1>0, <2>1, <2>2, <2>3, <2>4 DEF MemoryOK, FlashOK, RunOK, HttpOK, Served, Networked
  <2>6. FlagsOK' /\ DeadMissed'
    BY <1>0, <2>2, <2>3, AdminAssumption DEF FlagsOK, DeadMissed
  <2>7. New' = cfg' /\ Stored'
    BY <2>1, <2>2 DEF New, Stored
  <2>8. Follows'
    <3> SUFFICES ASSUME ~rebooting PROVE Follows'
      BY <2>3 DEF Follows
    <3>1. New = cfg /\ Apart = missed /\ missed \subseteq Apart'
      BY <2>2, <2>3 DEF New, Apart, Touched, Handling
    <3>2. /\ "net" \in missed \/ run.net = cfg.net
          /\ "nut" \in missed \/ run.nut = cfg.nut
          /\ "pve" \in missed \/ run.pve = cfg.pve
          /\ "guests" \in missed \/ run.guests = guests
          /\ "tg" \in missed \/ run.tg = cfg.tg
      BY <1>0, <2>2, <3>1 DEF Follows
    <3>3. Handling' /\ http'.section = "live"
      BY <2>1, <2>2 DEF Handling
    <3> QED
      BY <2>1, <2>2, <2>3, <2>4, <2>7, <3>1, <3>2, <3>3 DEF Follows
  <2>9. OnlyIfAsked'
    BY <1>0, <2>3, <2>4, <2>7 DEF OnlyIfAsked
  <2> QED
    BY <2>5, <2>6, <2>7, <2>8, <2>9 DEF IInv
<1>3. CASE PostReset
  <2> DEFINE h == Handler("erase", "reset", cfg)
  <2>1. h \in HttpType /\ h.pc = "erase"
    BY <1>0, <1>b, HandlerTyped DEF Sections
  <2>2. /\ http.pc = "idle" /\ http' = h /\ posts' = posts + 1 /\ posts < MaxPosts
        /\ UNCHANGED <<cfg, blob, guests, run, rebooting, dead, unsaved, missed, userArmed>>
    BY <1>3 DEF PostReset, Begin
  <2> HIDE DEF h
  <2>3. MemoryOK' /\ FlashOK' /\ RunOK' /\ HttpOK' /\ Served' /\ Networked' /\ Stored' /\ Follows'
    BY <1>0, <2>1, <2>2
       DEF MemoryOK, FlashOK, RunOK, HttpOK, Served, Networked, Stored, Follows, Handling
  <2>4. FlagsOK' /\ DeadMissed'
    BY <1>0, <2>2, AdminAssumption DEF FlagsOK, DeadMissed
  <2>5. OnlyIfAsked'
    BY <1>0, <2>1, <2>2 DEF OnlyIfAsked, New
  <2> QED
    BY <2>3, <2>4, <2>5 DEF IInv
<1>4. CASE PostReboot
  <2>0. /\ rebooting' \in BOOLEAN /\ (~rebooting' => ~rebooting)
        /\ posts < MaxPosts /\ posts' = posts + 1
        /\ UNCHANGED <<cfg, blob, guests, run, http, dead, unsaved, missed, userArmed>>
    <3>1. rebooting \in BOOLEAN /\ (rebooting' = TRUE \/ rebooting' = rebooting)
      BY <1>0, <1>4 DEF PostReboot, FlagsOK
    <3>2. rebooting' \in BOOLEAN /\ (~rebooting' => ~rebooting)
      BY <3>1, Zenon
    <3> QED
      BY <1>4, <3>2 DEF PostReboot
  <2>1. FlagsOK' /\ DeadMissed'
    BY <1>0, <2>0, AdminAssumption DEF FlagsOK, DeadMissed
  <2>2. MemoryOK' /\ FlashOK' /\ RunOK' /\ HttpOK' /\ Served' /\ Networked' /\ Stored'
    BY <1>0, <1>4 DEF PostReboot, MemoryOK, FlashOK, RunOK, HttpOK, Served, Networked, Stored
  <2>3. Follows' /\ OnlyIfAsked'
    BY <1>0, <2>0 DEF Follows, OnlyIfAsked, New, Apart, Touched, Handling
  <2> QED
    BY <2>1, <2>2, <2>3 DEF IInv
<1>5. CASE SaveGuests
  <2>1. /\ http.pc = "guests" /\ http' = [http EXCEPT !.pc = "assign"]
        /\ guests' \in {guests, http.rules}
        /\ UNCHANGED <<cfg, blob, run, rebooting, dead, posts, unsaved, missed, userArmed>>
    BY <1>5 DEF SaveGuests
  <2>2. http'.pc = "assign" /\ http'.section = http.section /\ http'.pending = http.pending
        /\ http'.was = http.was /\ http' \in HttpType /\ http.rules \in Setting
    BY <1>0, <2>1 DEF HttpOK, HttpType
  <2>3. MemoryOK' /\ FlashOK' /\ RunOK' /\ HttpOK' /\ FlagsOK' /\ DeadMissed'
    BY <1>0, <2>1, <2>2 DEF MemoryOK, FlashOK, RunOK, HttpOK, FlagsOK, DeadMissed
  <2>4. New' = New /\ New = http.pending
    BY <2>1, <2>2 DEF New
  <2>5. Served' /\ Networked' /\ OnlyIfAsked'
    BY <1>0, <2>1, <2>2, <2>4 DEF Served, Networked, OnlyIfAsked
  <2>6. Stored'
    BY <1>0, <2>1, <2>2 DEF Stored
  <2>7. Follows'
    <3>1. Apart' = Apart /\ Handling /\ Handling' /\ "guests" \in Apart
      BY <1>0, <1>c, <2>1, <2>2, AboutParts DEF Apart, Touched, Handling, Networked
    <3> QED
      BY <1>0, <2>1, <2>2, <2>4, <3>1 DEF Follows
  <2> QED
    BY <2>3, <2>5, <2>6, <2>7 DEF IInv
<1>6. CASE Assign
  <2>1. /\ http.pc = "assign" /\ http' = [http EXCEPT !.pc = "save"] /\ cfg' = http.pending
        /\ UNCHANGED <<blob, guests, run, rebooting, posts, dead, unsaved, missed, userArmed>>
    BY <1>6 DEF Assign
  <2>2. http'.pc = "save" /\ http'.section = http.section /\ http'.was = http.was
        /\ http' \in HttpType /\ http.pending \in Config
    BY <1>0, <2>1 DEF HttpOK, HttpType
  <2>3. MemoryOK' /\ FlashOK' /\ RunOK' /\ HttpOK' /\ FlagsOK' /\ DeadMissed'
    BY <1>0, <2>1, <2>2 DEF MemoryOK, FlashOK, RunOK, HttpOK, FlagsOK, DeadMissed
  <2>4. New' = New /\ New = http.pending
    BY <2>1, <2>2 DEF New
  <2>5. Served' /\ Networked' /\ Stored' /\ OnlyIfAsked'
    BY <1>0, <2>1, <2>2, <2>4 DEF Served, Networked, Stored, OnlyIfAsked
  <2>6. Follows'
    <3>1. Apart' = Apart /\ Handling /\ Handling'
      BY <2>1, <2>2 DEF Apart, Touched, Handling
    <3> QED
      BY <1>0, <2>1, <2>2, <2>4, <3>1 DEF Follows
  <2> QED
    BY <2>3, <2>5, <2>6 DEF IInv
<1>7. CASE Save
  <2> DEFINE a == [http EXCEPT !.pc = "apply"]
  <2>1. /\ http.pc = "save"
        /\ UNCHANGED <<cfg, guests, run, rebooting, dead, posts, userArmed>>
        /\ \/ blob' = Saved(cfg) /\ http' = a /\ unsaved' = FALSE /\ missed' = missed
           \/ /\ blob' \in {blob, Saved(cfg)} /\ unsaved' = TRUE
              /\ missed' = missed \cup About(http.section)
              /\ \/ http.section = "live" /\ http' = a
                 \/ http.section # "live" /\ http' = Idle
    BY <1>7 DEF Save
  <2>2. a.pc = "apply" /\ a.section = http.section /\ a.was = http.was /\ a \in HttpType
    BY <1>0 DEF HttpOK, HttpType
  <2> HIDE DEF a
  <2>3. /\ http'.pc \in {"apply", "idle"} /\ http' \in HttpType
        /\ http'.pc = "apply" => http'.section = http.section /\ http'.was = http.was
        /\ http'.pc = "idle" => missed' = missed \cup About(http.section) /\ unsaved'
        /\ missed \subseteq missed' /\ missed' \subseteq missed \cup About(http.section)
        /\ http'.pc = "idle" => http.section # "live"
    BY <1>a, <2>1, <2>2
  <2>4. MemoryOK' /\ FlashOK' /\ RunOK' /\ HttpOK' /\ FlagsOK' /\ DeadMissed'
    BY <1>0, <1>b, <1>c, <2>1, <2>3, AboutParts
       DEF MemoryOK, FlashOK, RunOK, HttpOK, FlagsOK, DeadMissed
  <2>5. New' = cfg /\ New = cfg
    BY <2>1, <2>3 DEF New
  <2>6. Served' /\ Networked'
    BY <1>0, <2>1, <2>3 DEF Served, Networked
  <2>7. Stored'
    BY <1>a, <2>1, <2>2 DEF Stored
  <2>8. Follows'
    <3>1. Apart \subseteq Apart' /\ Handling /\ (Handling' <=> http'.pc = "apply")
      BY <2>1, <2>3 DEF Apart, Touched, Handling
    <3> QED
      BY <1>0, <2>1, <2>3, <2>5, <3>1 DEF Follows
  <2>9. OnlyIfAsked'
    BY <1>0, <1>b, <2>1, <2>5 DEF OnlyIfAsked
  <2> QED
    BY <2>4, <2>6, <2>7, <2>8, <2>9 DEF IInv
<1>8. CASE Apply
  <2> DEFINE sec == http.section
  <2>0. PICK loaded \in BOOLEAN, created \in BOOLEAN :
          /\ Applies(loaded)
          /\ rebooting' = (rebooting \/ (Restarts /\ created))
          /\ missed' = (missed \ Told(loaded))
                        \cup (IF ToPve /\ ~loaded THEN {"guests"} ELSE {})
                        \cup (IF Restarts /\ ~created THEN About(sec) \cap {"net", "nut"}
                              ELSE {})
    BY <1>8 DEF Apply
  <2>1. /\ http.pc = "apply" /\ http' = Idle
        /\ UNCHANGED <<cfg, blob, guests, dead, posts, unsaved>>
        /\ userArmed' = IF sec = "pve" THEN cfg.pve.armed ELSE userArmed
    BY <1>8 DEF Apply
  <2>2. /\ run' \in Running /\ run'.net = run.net /\ run'.nut = run.nut
        /\ run'.pve = (IF ToPve THEN cfg.pve ELSE run.pve)
        /\ run'.guests = (IF ~ToPve THEN run.guests ELSE IF loaded THEN guests ELSE None)
        /\ run'.tg = (IF ToTg THEN cfg.tg ELSE run.tg)
        /\ run'.live = (IF sec = "live" THEN cfg.live ELSE run.live)
    <3> DEFINE g == IF ~ToPve THEN run.guests ELSE IF loaded THEN guests ELSE None
    <3>1. run' = [run EXCEPT !.pve = IF ToPve THEN cfg.pve ELSE @, !.guests = g,
                             !.tg = IF ToTg THEN cfg.tg ELSE @,
                             !.live = IF sec = "live" THEN cfg.live ELSE @]
      BY <2>0 DEF Applies
    <3>2. run \in Running /\ cfg \in Config /\ g \in Setting
      BY <1>0 DEF RunOK, Running, MemoryOK, FlashOK, Setting
    <3> HIDE DEF g
    <3>3. /\ run' \in Running /\ run'.net = run.net /\ run'.nut = run.nut
          /\ run'.pve = (IF ToPve THEN cfg.pve ELSE run.pve)
          /\ run'.guests = g
          /\ run'.tg = (IF ToTg THEN cfg.tg ELSE run.tg)
          /\ run'.live = (IF sec = "live" THEN cfg.live ELSE run.live)
      BY <3>1, <3>2 DEF Running, Config
    <3> QED
      BY <3>3 DEF g
  <2>3. /\ rebooting' \in BOOLEAN /\ userArmed' \in BOOLEAN
        /\ ~rebooting' => ~rebooting /\ (Restarts => ~created)
    <3>1. cfg.pve.armed \in BOOLEAN
      BY <1>b DEF Config, Pve
    <3> QED
      BY <1>0, <2>0, <2>1, <3>1, Zenon DEF FlagsOK
  <2>4. New' = cfg /\ New = cfg
    BY <1>a, <2>1 DEF New
  <2>5. /\ "net" \in missed' <=> "net" \in missed \/ (Restarts /\ ~created /\ sec = "net")
        /\ "nut" \in missed' <=> "nut" \in missed
                                   \/ (Restarts /\ ~created /\ sec = "integrations")
        /\ "pve" \in missed' <=> "pve" \in missed /\ ~ToPve
        /\ "guests" \in missed' <=> (ToPve /\ ~loaded) \/ ("guests" \in missed /\ ~ToPve)
        /\ "tg" \in missed' <=> "tg" \in missed /\ ~ToTg
        /\ missed' \subseteq Services
    <3> DEFINE told == Told(loaded)
               late == IF ToPve /\ ~loaded THEN {"guests"} ELSE {}
               due == IF Restarts /\ ~created THEN About(sec) \cap {"net", "nut"} ELSE {}
    <3>1. /\ "net" \notin told /\ "nut" \notin told
          /\ "pve" \in told <=> ToPve
          /\ "guests" \in told <=> ToPve /\ loaded
          /\ "tg" \in told <=> ToTg
      BY DEF Told
    <3>2. /\ late \subseteq {"guests"} /\ ("guests" \in late <=> ToPve /\ ~loaded)
      OBVIOUS
    <3>3. /\ due \subseteq {"net", "nut"}
          /\ "net" \in due <=> Restarts /\ ~created /\ sec = "net"
          /\ "nut" \in due <=> Restarts /\ ~created /\ sec = "integrations"
      BY <1>c, AboutParts
    <3>4. missed' = (missed \ told) \cup late \cup due
      BY <2>0
    <3>5. missed \subseteq Services
      BY <1>0 DEF FlagsOK
    <3> HIDE DEF told, late, due
    <3> QED
      BY <3>1, <3>2, <3>3, <3>4, <3>5 DEF Services
  <2>6. MemoryOK' /\ FlashOK' /\ RunOK' /\ HttpOK' /\ FlagsOK'
    BY <1>0, <1>a, <2>1, <2>2, <2>3, <2>5 DEF MemoryOK, FlashOK, RunOK, HttpOK, FlagsOK
  <2>7. DeadMissed'
    <3>1. /\ dead \subseteq Services /\ dead \subseteq missed /\ "guests" \notin dead
          /\ "pve" \in dead => "guests" \in missed
          /\ dead' = dead
      BY <1>0, <2>1 DEF DeadMissed, FlagsOK
    <3> QED
      BY <2>5, <3>1 DEF DeadMissed, ToPve, ToTg, Services
  <2>8. Served' /\ Networked'
    BY <1>0, <1>a, <2>1 DEF Served, Networked
  <2>9. Stored'
    BY <1>0, <1>a, <1>b, <2>1 DEF Stored
  <2>10. Follows'
    <3> SUFFICES ASSUME ~rebooting' PROVE Follows'
      BY DEF Follows
    <3>0. ~rebooting /\ Handling /\ ~Handling' /\ Apart' = missed'
          /\ Apart = missed \cup About(sec)
      BY <1>a, <2>1, <2>3 DEF Handling, Apart, Touched
    <3>1. /\ "net" \in missed \/ sec = "net" \/ run.net = cfg.net
          /\ "nut" \in missed \/ sec = "integrations" \/ run.nut = cfg.nut
          /\ "pve" \in missed \/ sec \in {"pve", "integrations"} \/ run.pve = cfg.pve
          /\ "guests" \in missed \/ sec \in {"pve", "integrations"} \/ run.guests = guests
          /\ "tg" \in missed \/ sec \in {"notify", "integrations"} \/ run.tg = cfg.tg
          /\ sec = "live" \/ run.live = cfg.live
          /\ "nut" \in missed \/ http.was = run.nut
      BY <1>0, <1>c, <2>4, <3>0, AboutParts DEF Follows
    <3>2. "net" \in missed' \/ run'.net = cfg.net
      BY <2>2, <2>3, <2>5, <3>1 DEF Restarts
    <3>3. "nut" \in missed' \/ run'.nut = cfg.nut
      BY <2>2, <2>3, <2>5, <3>1 DEF Restarts
    <3>4. /\ "pve" \in missed' \/ run'.pve = cfg.pve
          /\ "guests" \in missed' \/ run'.guests = guests
      BY <1>0, <2>2, <2>5, <3>1 DEF ToPve, DeadMissed
    <3>5. "tg" \in missed' \/ run'.tg = cfg.tg
      BY <1>0, <2>2, <2>5, <3>1 DEF ToTg, DeadMissed
    <3>6. run'.live = cfg.live
      BY <2>2, <3>1
    <3> QED
      BY <2>1, <2>4, <3>0, <3>2, <3>3, <3>4, <3>5, <3>6 DEF Follows
  <2>11. OnlyIfAsked'
    <3>1. run'.pve.armed => "pve" \notin dead
      BY <1>0, <2>2 DEF OnlyIfAsked, ToPve
    <3>2. CASE sec = "pve"
      <4>1. blob = Saved(cfg)
        BY <1>0, <2>1, <3>2 DEF Stored
      <4>2. run'.pve.armed => cfg.pve.armed
        BY <2>2, <3>1, <3>2 DEF ToPve
      <4> QED
        BY <1>b, <2>1, <2>4, <3>1, <3>2, <4>1, <4>2 DEF OnlyIfAsked
    <3>3. CASE sec # "pve"
      BY <1>0, <2>1, <2>2, <2>4, <3>1, <3>3 DEF OnlyIfAsked
    <3> QED
      BY <3>2, <3>3
  <2> QED
    BY <2>6, <2>7, <2>8, <2>9, <2>10, <2>11 DEF IInv
<1>9. CASE Erase
  <2>1. /\ http.pc = "erase" /\ http' = [http EXCEPT !.pc = "erased"]
        /\ guests' \in {guests, None}
        /\ UNCHANGED <<cfg, blob, run, rebooting, posts, dead, unsaved, missed, userArmed>>
    BY <1>9 DEF Erase
  <2>2. http'.pc = "erased" /\ http' \in HttpType
    BY <1>0, <2>1 DEF HttpOK, HttpType
  <2>3. MemoryOK' /\ FlashOK' /\ RunOK' /\ HttpOK' /\ FlagsOK' /\ DeadMissed'
    BY <1>0, <2>1, <2>2 DEF MemoryOK, FlashOK, RunOK, HttpOK, FlagsOK, DeadMissed, Setting
  <2>4. New' = New
    BY <2>1, <2>2 DEF New
  <2>5. Served' /\ Networked' /\ Stored' /\ Follows' /\ OnlyIfAsked'
    BY <1>0, <2>1, <2>2, <2>4
       DEF Served, Networked, Stored, Follows, Handling, OnlyIfAsked
  <2> QED
    BY <2>3, <2>5 DEF IInv
<1>10. CASE EraseBlob
  <2>1. /\ blob' \in {blob, Absent} /\ Boots(blob', guests) /\ guests' = guests
        /\ userArmed' = (userArmed /\ blob' # Absent)
    BY <1>10 DEF EraseBlob
  <2>2. /\ blob' \in Blob \cup {Absent} /\ guests \in Setting
    BY <1>0, <2>1 DEF FlashOK
  <2>3. userArmed' \in BOOLEAN /\ (Loaded(blob').pve.armed => userArmed')
    <3>1. ~Defaults.pve.armed
      BY DEF Defaults, PveDefaults
    <3> QED
      BY <1>0, <2>1, <3>1, LoadedAbsent, Zenon DEF OnlyIfAsked, FlagsOK
  <2> QED
    BY <1>0, <2>1, <2>2, <2>3, BootsInv
<1>11. CASE Restart
  BY <1>0, <1>11, BootsInv DEF Restart, FlashOK, FlagsOK, OnlyIfAsked
<1>12. CASE PowerCut
  <2>1. CASE Boots(blob, guests) /\ UNCHANGED <<blob, guests, userArmed>>
    BY <1>0, <2>1, BootsInv DEF FlashOK, FlagsOK, OnlyIfAsked
  <2>2. CASE blob' = Absent /\ guests' = None /\ userArmed' = FALSE /\ Boots(Absent, None)
    <3>1. None \in Setting /\ ~Loaded(Absent).pve.armed
      BY LoadedAbsent DEF Defaults, PveDefaults, Setting
    <3> QED
      BY <1>0, <2>2, <3>1, BootsInv
  <2> QED
    BY <1>12, <2>1, <2>2 DEF PowerCut
<1>13. ASSUME NEW v \in Values, Provisioned(v) PROVE IInv'
  <2> DEFINE c == [cfg EXCEPT !.net = v, !.auth = v]
  <2>1. c \in Config /\ c.net = v /\ c.pve = cfg.pve
    BY <1>b DEF Config, Setting
  <2>2. /\ http.pc = "setup" /\ http' = Idle /\ cfg' = c
        /\ UNCHANGED <<guests, rebooting, posts, userArmed>>
    BY <1>13 DEF Provisioned
  <2>3. /\ blob' \in {blob, Saved(c)} /\ unsaved' \in BOOLEAN
        /\ ~unsaved' => blob' = Saved(c)
    BY <1>13 DEF Provisioned
  <2>4. PICK f \in SUBSET Services :
          /\ "pve" \in f => "guests" \in f
          /\ run' = Started(c, guests, f) /\ dead' = f \ {"guests"} /\ missed' = f
    BY <1>13, FailuresTyped DEF Provisioned
  <2> HIDE DEF c
  <2>5. Saved(c) \in Blob /\ Loaded(Saved(c)) = c /\ guests \in Setting
    BY <1>0, <2>1, LoadedSaved DEF FlashOK
  <2>6. run' \in Running
    BY <2>1, <2>4, <2>5, StartedTyped
  <2>7. MemoryOK' /\ FlashOK' /\ RunOK' /\ HttpOK' /\ FlagsOK' /\ DeadMissed'
    BY <1>0, <1>a, <2>1, <2>2, <2>3, <2>4, <2>5, <2>6
       DEF MemoryOK, FlashOK, RunOK, HttpOK, FlagsOK, DeadMissed
  <2>8. Served' /\ Networked'
    BY <1>a, <2>1, <2>2, AdminAssumption DEF Served, Networked
  <2>9. New' = c /\ Apart' = f /\ ~Handling'
    BY <1>a, <2>2, <2>4 DEF New, Apart, Touched, Handling
  <2>10. Stored'
    BY <1>a, <2>2, <2>3, <2>5 DEF Stored
  <2>11. Follows'
    BY <1>a, <2>1, <2>2, <2>4, <2>5, <2>9, StartedParts DEF Follows
  <2>12. run'.pve.armed => c.pve.armed /\ "pve" \notin f
    BY <2>1, <2>4, <2>5, StartedParts
  <2>13. OnlyIfAsked'
    BY <1>0, <2>1, <2>2, <2>3, <2>4, <2>5, <2>9, <2>12 DEF OnlyIfAsked
  <2> QED
    BY <2>7, <2>8, <2>10, <2>11, <2>13 DEF IInv
<1>14. CASE UNCHANGED vars
  <2>1. MemoryOK' /\ FlashOK' /\ RunOK' /\ HttpOK' /\ FlagsOK' /\ DeadMissed'
    BY <1>0, <1>14 DEF vars, MemoryOK, FlashOK, RunOK, HttpOK, FlagsOK, DeadMissed
  <2>2. Served' /\ Networked' /\ Stored' /\ Follows' /\ OnlyIfAsked'
    BY <1>0, <1>14
       DEF vars, Served, Networked, Stored, Follows, OnlyIfAsked, New, Apart, Touched, Handling
  <2> QED
    BY <2>1, <2>2 DEF IInv
<1> QED
  BY <1>1, <1>2, <1>3, <1>4, <1>5, <1>6, <1>7, <1>8, <1>9, <1>10, <1>11, <1>12,
     <1>13, <1>14 DEF Next, Post

LEMMA AlwaysInv == Spec => []IInv
  BY InitInv, NextInv, PTL DEF Spec

(* The settings in memory, in flash and in use are well typed, and the     *)
(* admin pages are served exactly when a network is configured.            *)
THEOREM AdminTyped == Spec => []TypeOK
<1>1. IInv => TypeOK
  BY TypeParts DEF IInv
<1> QED
  BY <1>1, AlwaysInv, PTL

(* Between two requests and with no restart due, memory is what a power    *)
(* cut would bring back unless the last save failed, and each service runs *)
(* what memory holds for it unless it missed it: through failed saves,     *)
(* failed starts and restarts that could not be scheduled, which put no    *)
(* other service out of step (h_admin_reconfigure, app_config_save,        *)
(* app_config_load, start_services).                                       *)
THEOREM SavedIsRunning == Spec => []RunsWhatIsSaved
<1>1. IInv => RunsWhatIsSaved
  BY DEF IInv, Stored, Follows, RunsWhatIsSaved, New, Apart, Touched, Handling
<1> QED
  BY <1>1, AlwaysInv, PTL

(* Through every layout, failed write, power cut and factory reset the     *)
(* shutdown engine is armed only if a form said so (app_config_load,       *)
(* h_admin_reconfigure).                                                   *)
THEOREM UserArmsIt == Spec => []ArmedByUser
<1>1. IInv => ArmedByUser
  BY DEF IInv, OnlyIfAsked, ArmedByUser
<1> QED
  BY <1>1, AlwaysInv, PTL
=============================================================================
