------------------------------- MODULE Admin --------------------------------
(***************************************************************************)
(* Settings: the copy in memory (s_cfg, which P.cfg points to), the copy   *)
(* in flash (app_config.c, and one blob of guest rules beside it), and     *)
(* what the services run with.  The handlers of the admin pages            *)
(* (provisioning.c) run on the web server's one task and touch the three   *)
(* one after the other; the power may fail, and a restart that was asked   *)
(* for may come, between any two of those.                                 *)
(*                                                                         *)
(* Of the settings the model keeps, per way of taking effect:              *)
(*   net          the sections bluetti, nut and wifi: after a restart      *)
(*   nut          nut_enabled: after a restart                             *)
(*   pve          pve.enabled, pve.armed and the hosts, here one           *)
(*   tg           the Telegram settings                                    *)
(*   live         the light, the controls, the log level: at once          *)
(*   auth         the admin login: read from memory at each use            *)
(* A request that is refused changes nothing and is not a step.  Whether   *)
(* a request carries a live session is left out.                           *)
(***************************************************************************)
EXTENDS Integers

CONSTANTS
  Values,        \* what a setting may be set to
  None,          \* not set
  Versions,      \* layouts of the blob an update may find: CFG_VERSION
                 \* is Current, and a blob may be newer
  MayFail,       \* the services whose start may fail
  MaxPosts       \* bound: requests handled

Current == 18    \* CFG_VERSION
(* What start_services starts; the guest rules, which it loads, with them. *)
Services == {"net", "nut", "pve", "guests", "tg"}

ASSUME AdminAssumption ==
  /\ None \notin Values /\ MayFail \subseteq Services
  /\ Versions \subseteq Nat /\ MaxPosts \in Nat

VARIABLES
  cfg,           \* s_cfg
  blob,          \* "cfg" in flash: version and settings, or absent
  guests,        \* "pveg0" in flash: the host's guest rules
  run,           \* what the services were last given
  http,          \* the handler at work, with P.pending
  rebooting,     \* a reboot_after_delay task exists
  dead,          \* the services that did not start; nothing reaches them
  posts,
  unsaved,       \* history: the last app_config_save failed
  missed,        \* history: what the services were not told of, because its
                 \* form was answered with a 500, a start or a load failed, or
                 \* the restart could not be scheduled
  userArmed      \* history: the user asked for the shutdown to be armed

vars == <<cfg, blob, guests, run, http, rebooting, dead, posts, unsaved, missed, userArmed>>

Setting == Values \cup {None}
Host == [on : BOOLEAN, rule : Setting]
Pve == [enabled : BOOLEAN, armed : BOOLEAN, host : Host]
Config == [net : Setting, nut : BOOLEAN, pve : Pve, tg : Setting,
           live : Setting, auth : Setting]
Blob == [version : Nat, cfg : Config]
Running == [net : Setting, nut : BOOLEAN, pve : Pve, guests : Setting,
            tg : Setting, live : Setting]
Absent == [version |-> 0]
Sections == {"net", "integrations", "pve", "notify", "auth", "live", "reset"}

(* The admin pages are served exactly when there is a network configured.  *)
TypeOK ==
  /\ cfg \in Config
  /\ http.pc = "setup" <=> cfg.net = None
  /\ blob \in Blob \cup {Absent}
  /\ guests \in Setting
  /\ run \in Running
  /\ http \in [pc : {"setup", "idle", "guests", "assign", "save", "apply",
                     "erase", "erased"},
               section : Sections, pending : Config, was : BOOLEAN,
               rules : Setting]
  /\ rebooting \in BOOLEAN /\ posts \in 0 .. MaxPosts
  /\ dead \subseteq Services /\ missed \subseteq Services
  /\ unsaved \in BOOLEAN /\ userArmed \in BOOLEAN

-----------------------------------------------------------------------------
(* app_config_pve_defaults, app_config_defaults *)
PveDefaults == [enabled |-> FALSE, armed |-> FALSE, host |-> [on |-> FALSE, rule |-> None]]
Defaults == [net |-> None, nut |-> FALSE, pve |-> PveDefaults, tg |-> None,
             live |-> None, auth |-> None]

(* Faulty: the Proxmox block of every layout is taken as it is. *)
LoadedWhole(b) ==
  IF b.version \in 3 .. Current THEN b.cfg ELSE Defaults
(* app_config_load: a blob that is too old, or newer than the firmware, is *)
(* as none; up to version 11 the Proxmox block cannot be read; NUT had no  *)
(* switch before version 15.                                               *)
Loaded(b) ==
  IF b.version \notin 3 .. Current THEN Defaults
  ELSE [b.cfg EXCEPT !.pve = IF b.version <= 11 THEN PveDefaults ELSE @,
                     !.nut = @ \/ b.version < 15]

(* start_services.  A start that fails is logged or not even that; without *)
(* memory the guest rules are as none.                                     *)
Failures == {f \in SUBSET MayFail : "pve" \in f => "guests" \in f}
Started(c, g, failed) ==
  [net |-> IF "net" \in failed THEN None ELSE c.net,
   nut |-> "nut" \notin failed /\ c.nut,
   pve |-> IF "pve" \in failed THEN PveDefaults ELSE c.pve,
   guests |-> IF "guests" \in failed THEN None ELSE g,
   tg |-> IF "tg" \in failed THEN None ELSE c.tg,
   live |-> c.live]
Idle == [pc |-> "idle", section |-> "net", pending |-> Defaults, was |-> FALSE,
         rules |-> None]
InSetup == [Idle EXCEPT !.pc = "setup"]
Saved(c) == [version |-> Current, cfg |-> c]

(* app_main, from app_config_load to provisioning_admin_start.  A device   *)
(* that is not provisioned stops half-way, in the setup portal.            *)
Boots(b, g) ==
  LET c == Loaded(b)
  IN  /\ cfg' = c
      /\ \/ /\ c.net = None
            /\ run' = Started(Defaults, None, {}) /\ dead' = {} /\ missed' = {}
            /\ http' = InSetup
         \/ /\ c.net # None
            /\ \E f \in Failures :
                 run' = Started(c, g, f) /\ dead' = f \ {"guests"} /\ missed' = f
            /\ http' = Idle
      /\ rebooting' = FALSE /\ unsaved' = FALSE /\ UNCHANGED posts

(* A device with a blob of some layout, used before; where the layout is   *)
(* another the bytes of the Proxmox block mean nothing.                    *)
Init ==
  \E v \in Versions, net \in Values, armed \in BOOLEAN, rule \in Setting, f \in Failures :
    LET b == Saved([Defaults EXCEPT !.net = net, !.auth = net,
                      !.pve = [enabled |-> TRUE, armed |-> armed,
                               host |-> [on |-> rule # None, rule |-> rule]]])
        c == Loaded(blob)
    IN  /\ blob = [b EXCEPT !.version = v]
        /\ guests = IF v >= 12 THEN rule ELSE None
        /\ cfg = c
        /\ c.net = None => f = {}
        /\ run = IF c.net = None THEN Started(Defaults, None, f) ELSE Started(c, guests, f)
        /\ dead = f \ {"guests"} /\ missed = f
        /\ http = IF c.net = None THEN InSetup ELSE Idle
        /\ rebooting = FALSE /\ posts = 0 /\ unsaved = FALSE
        /\ userArmed = (armed /\ v \in 12 .. Current)

-----------------------------------------------------------------------------
(* A handler begins: REQUIRE_AUTH has let it pass, the body is read, and   *)
(* P.pending is the copy in memory with the form's fields.                 *)
Begin(handler) ==
  /\ http.pc = "idle" /\ posts < MaxPosts
  /\ posts' = posts + 1
  /\ http' = handler
Handler(pc, section, pending) ==
  [pc |-> pc, section |-> section, pending |-> pending, was |-> cfg.nut, rules |-> None]

(* h_admin_reconfigure, sections bluetti, nut and wifi *)
PostNet(v) ==
  /\ Begin(Handler("assign", "net", [cfg EXCEPT !.net = v]))
  /\ UNCHANGED <<cfg, blob, guests, run, rebooting, dead, unsaved, missed, userArmed>>

PostIntegrations(nut, pve, tg) ==
  /\ Begin(Handler("assign", "integrations",
             [cfg EXCEPT !.nut = nut, !.pve.enabled = pve, !.tg = tg]))
  /\ UNCHANGED <<cfg, blob, guests, run, rebooting, dead, unsaved, missed, userArmed>>

PostNotify(v) ==
  /\ Begin(Handler("assign", "notify", [cfg EXCEPT !.tg = v]))
  /\ UNCHANGED <<cfg, blob, guests, run, rebooting, dead, unsaved, missed, userArmed>>

(* pve_host_from_form: the row is filled in, switched off, or removed. *)
HostFromForm(row, v) ==
  IF row = "removed" THEN PveDefaults.host ELSE [on |-> row = "set", rule |-> v]

(* pve_guests_from_form: the guest rules of a row that is filled in; those *)
(* of a removed one are erased.                                            *)
GuestsFromForm(row, g) == IF row = "set" THEN g ELSE None

(* Section pve.  The host and its guest rules are read from the form only  *)
(* while the feature is on; a row switched off keeps its rules in flash.   *)
PostPve(armed, row, v, g) ==
  LET form == IF cfg.pve.enabled THEN HostFromForm(row, v) ELSE cfg.pve.host
  IN  /\ Begin([Handler(IF cfg.pve.enabled /\ row # "off" THEN "guests" ELSE "assign",
                        "pve", [cfg EXCEPT !.pve.armed = armed, !.pve.host = form])
                EXCEPT !.rules = IF cfg.pve.enabled THEN GuestsFromForm(row, g) ELSE None])
      /\ userArmed' = (userArmed \/ armed)
      /\ UNCHANGED <<cfg, blob, guests, run, rebooting, dead, unsaved, missed>>

(* h_admin_credentials *)
PostCredentials(v) ==
  /\ Begin(Handler("assign", "auth", [cfg EXCEPT !.auth = v]))
  /\ UNCHANGED <<cfg, blob, guests, run, rebooting, dead, unsaved, missed, userArmed>>

(* h_led_toggle, h_controls_enable, h_loglevel_set: straight into P.cfg *)
PostLive(v) ==
  /\ Begin(Handler("save", "live", cfg))
  /\ cfg' = [cfg EXCEPT !.live = v]
  /\ UNCHANGED <<blob, guests, run, rebooting, dead, unsaved, missed, userArmed>>

(* h_factory_reset *)
PostReset ==
  /\ Begin(Handler("erase", "reset", cfg))
  /\ UNCHANGED <<cfg, blob, guests, run, rebooting, dead, unsaved, missed, userArmed>>

(* h_admin_reboot: whether the task could be created is not looked at. *)
PostReboot ==
  /\ http.pc = "idle" /\ posts < MaxPosts
  /\ posts' = posts + 1
  /\ rebooting' \in {TRUE, rebooting}
  /\ UNCHANGED <<cfg, blob, guests, run, http, dead, unsaved, missed, userArmed>>

-----------------------------------------------------------------------------
(* app_config_pve_guests_save; its result is ignored. *)
SaveGuests ==
  /\ http.pc = "guests"
  /\ guests' \in {guests, http.rules}
  /\ http' = [http EXCEPT !.pc = "assign"]
  /\ UNCHANGED <<cfg, blob, run, rebooting, dead, posts, unsaved, missed, userArmed>>

(* *P.cfg = P.pending *)
Assign ==
  /\ http.pc = "assign"
  /\ cfg' = http.pending
  /\ http' = [http EXCEPT !.pc = "save"]
  /\ UNCHANGED <<blob, guests, run, rebooting, posts, dead, unsaved, missed, userArmed>>

(* What the services must be told of, per section. *)
About(section) ==
  CASE section = "net" -> {"net"}
    [] section = "integrations" -> {"nut", "pve", "guests", "tg"}
    [] section = "pve" -> {"pve", "guests"}
    [] section = "notify" -> {"tg"}
    [] OTHER -> {}

(* app_config_save.  When it fails (what was set may be in flash all the   *)
(* same) the reply is a 500 and nothing is applied, save for the settings  *)
(* that are applied at once.                                               *)
Save ==
  /\ http.pc = "save"
  /\ \/ /\ blob' = Saved(cfg)
        /\ http' = [http EXCEPT !.pc = "apply"]
        /\ unsaved' = FALSE /\ UNCHANGED missed
     \/ /\ blob' \in {blob, Saved(cfg)}
        /\ http' = IF http.section = "live" THEN [http EXCEPT !.pc = "apply"] ELSE Idle
        /\ unsaved' = TRUE /\ missed' = missed \cup About(http.section)
  /\ UNCHANGED <<cfg, guests, run, rebooting, dead, posts, userArmed>>

(* Faulty: only Wi-Fi, the unit and the NUT settings are worth a restart. *)
RestartsForNet == http.section = "net"
(* Sections that only a restart applies; NUT's switch when it has changed. *)
Restarts ==
  \/ http.section = "net"
  \/ http.section = "integrations" /\ cfg.nut # http.was

(* The end of the handlers: pve_shutdown_reconfigure, with the guest rules *)
(* read back from flash (none, without memory), notify_reconfigure, the    *)
(* light and the controls; a service that did not start takes nothing.     *)
(* Then reboot_after_delay, if its task can be created: nobody looks.      *)
ToPve == http.section \in {"pve", "integrations"} /\ "pve" \notin dead
ToTg == http.section \in {"notify", "integrations"} /\ "tg" \notin dead
Applies(loaded) ==
  run' = [run EXCEPT !.pve = IF ToPve THEN cfg.pve ELSE @,
                     !.guests = IF ~ToPve THEN @ ELSE IF loaded THEN guests ELSE None,
                     !.tg = IF ToTg THEN cfg.tg ELSE @,
                     !.live = IF http.section = "live" THEN cfg.live ELSE @]
Told(loaded) == (IF ToPve THEN {"pve"} ELSE {}) \cup (IF ToTg THEN {"tg"} ELSE {})
                \cup (IF ToPve /\ loaded THEN {"guests"} ELSE {})
Apply ==
  /\ http.pc = "apply"
  /\ \E loaded \in BOOLEAN, created \in BOOLEAN :
       /\ Applies(loaded)
       /\ rebooting' = (rebooting \/ (Restarts /\ created))
       /\ missed' = (missed \ Told(loaded))
                     \cup (IF ToPve /\ ~loaded THEN {"guests"} ELSE {})
                     \cup (IF Restarts /\ ~created THEN About(http.section) \cap {"net", "nut"}
                           ELSE {})
  /\ userArmed' = IF http.section = "pve" THEN cfg.pve.armed ELSE userArmed
  /\ http' = Idle
  /\ UNCHANGED <<cfg, blob, guests, dead, posts, unsaved>>

(* app_config_erase: the guest rules first, then the settings; failures    *)
(* are ignored.                                                            *)
Erase ==
  /\ http.pc = "erase"
  /\ guests' \in {guests, None}
  /\ http' = [http EXCEPT !.pc = "erased"]
  /\ UNCHANGED <<cfg, blob, run, rebooting, posts, dead, unsaved, missed, userArmed>>

(* h_factory_reset goes on to esp_restart, half a second later. *)
EraseBlob ==
  /\ http.pc = "erased"
  /\ blob' \in {blob, Absent}
  /\ Boots(blob', guests)
  /\ userArmed' = (userArmed /\ blob' # Absent)
  /\ UNCHANGED guests

-----------------------------------------------------------------------------
(* reboot_after_delay *)
Restart ==
  /\ rebooting
  /\ Boots(blob, guests)
  /\ UNCHANGED <<blob, guests, userArmed>>

(* The power fails, at any point; the reset button may be held down when   *)
(* it comes back (reset_button_held), which erases both.                   *)
PowerCut ==
  \/ /\ Boots(blob, guests)
     /\ UNCHANGED <<blob, guests, userArmed>>
  \/ /\ blob' = Absent /\ guests' = None /\ userArmed' = FALSE
     /\ Boots(Absent, None)

(* Setup (module Setup) ends: connect_task or h_provision stores the       *)
(* network, whether or not the write succeeds, and app_main goes on.       *)
Provisioned(v) ==
  /\ http.pc = "setup"
  /\ LET c == [cfg EXCEPT !.net = v, !.auth = v]
     IN  /\ cfg' = c
         /\ \/ blob' = Saved(c) /\ unsaved' = FALSE
            \/ blob' \in {blob, Saved(c)} /\ unsaved' = TRUE
         /\ \E f \in Failures :
              run' = Started(c, guests, f) /\ dead' = f \ {"guests"} /\ missed' = f
  /\ http' = Idle
  /\ UNCHANGED <<guests, rebooting, posts, userArmed>>

Post ==
  \/ \E v \in Values : PostNet(v) \/ PostNotify(v) \/ PostCredentials(v) \/ PostLive(v)
  \/ \E nut, pve \in BOOLEAN, tg \in Setting : PostIntegrations(nut, pve, tg)
  \/ \E armed \in BOOLEAN, row \in {"set", "off", "removed"}, v \in Values,
        g \in Setting : PostPve(armed, row, v, g)
  \/ PostReset \/ PostReboot

Next ==
  \/ Post
  \/ SaveGuests \/ Assign \/ Save \/ Apply \/ Erase \/ EraseBlob
  \/ Restart \/ PowerCut
  \/ \E v \in Values : Provisioned(v)

Spec == Init /\ [][Next]_vars

-----------------------------------------------------------------------------
(* What was saved is what runs: when no request is being handled and no    *)
(* restart is under way, memory is what a power cut would bring back,      *)
(* unless the last save failed; and each service works with what memory    *)
(* and flash hold for it, unless it missed that.  A failure stays with     *)
(* what it is about: a form answered with a 500, a service that did not    *)
(* start, guest rules that could not be loaded or a restart that could not *)
(* be scheduled puts no other service out of step, and the next form for   *)
(* the same thing puts it right (but for NUT's switch: a form that leaves  *)
(* it as it is schedules no restart).  Nothing is said of guest rules and  *)
(* settings coming from the same form: the power may fail between the two. *)
RunsWhatIsSaved ==
  http.pc = "idle" /\ ~rebooting =>
    /\ unsaved \/ cfg = Loaded(blob)
    /\ "net" \in missed \/ run.net = cfg.net
    /\ "nut" \in missed \/ run.nut = cfg.nut
    /\ "pve" \in missed \/ run.pve = cfg.pve
    /\ "guests" \in missed \/ run.guests = guests
    /\ "tg" \in missed \/ run.tg = cfg.tg
    /\ run.live = cfg.live

(* "Nothing is powered off until the user arms it" (app_config_defaults),  *)
(* across old layouts, failed writes, restarts and factory resets: the     *)
(* running engine is armed only if a form said so.                         *)
ArmedByUser == run.pve.armed => userArmed
=============================================================================
