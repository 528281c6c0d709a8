-------------------------------- MODULE Ota ---------------------------------
(***************************************************************************)
(* Firmware updates: h_ota (an upload, on the web server's one task),      *)
(* ota_gh_start and ota_task (a download, on a task of its own), and the   *)
(* confirmation at the end of app_main.  Both writers write the slot that  *)
(* is not running, without knowing of each other, and both ask for a       *)
(* restart 1.2 s after they are done.  The power may fail at any point.    *)
(*                                                                         *)
(* esp_ota_* and the bootloader are external.  An image is Chunks pieces;  *)
(* writing over a piece that was not erased leaves garbage, as NOR flash   *)
(* does, unless the bytes are the same.  Refused requests change nothing   *)
(* and are not steps.                                                      *)
(***************************************************************************)
EXTENDS Integers

CONSTANTS
  Images,     \* valid firmware images
  Files,      \* what may be uploaded or downloaded: Images and others
  None,
  Chunks      \* pieces per image

Blank == "blank"        \* erased flash
Garbage == "garbage"

ASSUME OtaAssumption ==
  /\ Images \subseteq Files /\ Images # {}
  /\ None \notin Files /\ Blank \notin Files /\ Garbage \notin Files
  /\ Chunks \in Nat \ {0}

VARIABLES
  flash,      \* the contents of the two application slots
  run,        \* the slot that runs
  boot,       \* the slot otadata selects
  trial,      \* the running image is ESP_OTA_IMG_PENDING_VERIFY
  writer,     \* h_ota and ota_task: where, with which file, how much of it
  gstate,     \* G.state
  rebooting   \* reboot_task, or ota_task's last lines, will restart soon

vars == <<flash, run, boot, trial, writer, gstate, rebooting>>

Slots == {0, 1}
Pieces == 1 .. Chunks
Content == Files \cup {Blank, Garbage}
Writers == {"upload", "gh"}
NotWriting == [pc |-> "idle", file |-> None, n |-> 0]

TypeOK ==
  /\ flash \in [Slots -> [Pieces -> Content]]
  /\ run \in Slots /\ boot \in Slots /\ trial \in BOOLEAN
  /\ writer \in [Writers -> [pc : {"idle", "open", "writing", "erased", "valid"},
                             file : Files \cup {None}, n : 0 .. Chunks]]
  /\ \A w \in Writers : writer[w].pc # "idle" => writer[w].file \in Files
  /\ gstate \in {"IDLE", "RUNNING", "DONE", "FAILED"}
  /\ rebooting \in BOOLEAN

(* esp_ota_get_next_update_partition *)
Target == 1 - run
Whole(slot, i) == \A k \in Pieces : flash[slot][k] = i
Valid(slot) == \E i \in Images : Whole(slot, i)
ImageIn(slot) == CHOOSE i \in Images : Whole(slot, i)

(* A device as it was first flashed: ota_0 runs, ota_1 is empty. *)
Init ==
  /\ \E i \in Images : flash = [s \in Slots |-> [k \in Pieces |-> IF s = 0 THEN i ELSE Blank]]
  /\ run = 0 /\ boot = 0 /\ trial = FALSE
  /\ writer = [w \in Writers |-> NotWriting]
  /\ gstate = "IDLE" /\ rebooting = FALSE

-----------------------------------------------------------------------------
Erased == [flash EXCEPT ![Target] = [k \in Pieces |-> Blank]]
Writing(f) == [pc |-> "writing", file |-> f, n |-> 0]

(* Faulty: the spare slot is erased while it may still be needed. *)
UploadBeginOnTrial(f) ==
  /\ writer["upload"].pc = "idle"
  /\ flash' = Erased
  /\ writer' = [writer EXCEPT !["upload"] = Writing(f)]
  /\ UNCHANGED <<run, boot, trial, gstate, rebooting>>

(* h_ota up to esp_ota_begin, which erases the slot (as much of it as the  *)
(* upload is long, and no more is read back) and refuses while the         *)
(* running image is on trial.                                              *)
UploadBegin(f) ==
  /\ writer["upload"].pc = "idle" /\ ~trial
  /\ flash' = Erased
  /\ writer' = [writer EXCEPT !["upload"] = Writing(f)]
  /\ UNCHANGED <<run, boot, trial, gstate, rebooting>>

(* h_update_install and ota_gh_start, on the web server's task, which an   *)
(* upload occupies.  Only RUNNING is refused.                              *)
GhStart(f) ==
  /\ writer["upload"].pc = "idle"
  /\ gstate # "RUNNING"
  /\ \/ /\ gstate' = "RUNNING"
        /\ writer' = [writer EXCEPT !["gh"] = [pc |-> "open", file |-> f, n |-> 0]]
     \/ gstate' = "FAILED" /\ UNCHANGED writer        \* xTaskCreate fails
  /\ UNCHANGED <<flash, run, boot, trial, rebooting>>

(* ota_task: the first esp_https_ota_perform calls esp_ota_begin, with     *)
(* bulk_flash_erase unset: nothing is erased yet.                          *)
GhBegin ==
  /\ writer["gh"].pc = "open" /\ ~trial
  /\ writer' = [writer EXCEPT !["gh"] = Writing(writer["gh"].file)]
  /\ UNCHANGED <<flash, run, boot, trial, gstate, rebooting>>

(* esp_https_ota_perform erases what it is about to write over. *)
GhErase ==
  LET n == writer["gh"].n + 1
  IN  /\ writer["gh"].pc = "writing" /\ n <= Chunks
      /\ flash' = [flash EXCEPT ![Target][n] = Blank]
      /\ writer' = [writer EXCEPT !["gh"].pc = "erased"]
      /\ UNCHANGED <<run, boot, trial, gstate, rebooting>>

(* esp_ota_write, for either: each handle has its own offset. *)
Programmed(old, new) == IF old \in {Blank, new} THEN new ELSE Garbage
Write(w) ==
  LET n == writer[w].n + 1
  IN  /\ writer[w].pc = (IF w = "gh" THEN "erased" ELSE "writing") /\ n <= Chunks
      /\ flash' = [flash EXCEPT ![Target][n] = Programmed(@, writer[w].file)]
      /\ writer' = [writer EXCEPT ![w].n = n, ![w].pc = "writing"]
      /\ UNCHANGED <<run, boot, trial, gstate, rebooting>>

(* Everything was received; esp_ota_end or esp_https_ota_finish reads the  *)
(* slot back and checks it.                                                *)
Validate(w) ==
  /\ writer[w].pc = "writing" /\ writer[w].n = Chunks
  /\ Valid(Target)
  /\ writer' = [writer EXCEPT ![w].pc = "valid"]
  /\ UNCHANGED <<flash, run, boot, trial, gstate, rebooting>>

(* esp_ota_set_boot_partition, and the restart is under way. *)
SetBoot(w) ==
  /\ writer[w].pc = "valid"
  /\ boot' = Target
  /\ rebooting' = TRUE
  /\ writer' = [writer EXCEPT ![w] = NotWriting]
  /\ gstate' = IF w = "gh" THEN "DONE" ELSE gstate
  /\ UNCHANGED <<flash, run, trial>>

(* A stalled or broken transfer, a refused esp_ota_begin, write or image:  *)
(* esp_ota_abort, set_fail.                                                *)
Fail(w) ==
  /\ writer[w].pc # "idle"
  /\ writer' = [writer EXCEPT ![w] = NotWriting]
  /\ gstate' = IF w = "gh" THEN "FAILED" ELSE gstate
  /\ UNCHANGED <<flash, run, boot, trial, rebooting>>

-----------------------------------------------------------------------------
(* The end of app_main: services are up, "OTA image confirmed valid". *)
MarkValid ==
  /\ trial
  /\ trial' = FALSE
  /\ UNCHANGED <<flash, run, boot, writer, gstate, rebooting>>

(* Faulty: a new image counts as good from its first start. *)
ResetUntried ==
  LET next == IF boot # run /\ Valid(boot) THEN Target ELSE run
  IN  /\ run' = next /\ boot' = next
      /\ trial' = FALSE
      /\ writer' = [w \in Writers |-> NotWriting]
      /\ gstate' = "IDLE" /\ rebooting' = FALSE
      /\ UNCHANGED flash

(* esp_restart, a crash or a power cut; then the bootloader.  It goes back *)
(* from an image that was not confirmed, and skips one that is not valid.  *)
Reset ==
  LET next == IF trial \/ (boot # run /\ Valid(boot)) THEN Target ELSE run
  IN  /\ run' = next /\ boot' = next
      /\ trial' = (~trial /\ next # run)
      /\ writer' = [w \in Writers |-> NotWriting]
      /\ gstate' = "IDLE" /\ rebooting' = FALSE
      /\ UNCHANGED flash

Next ==
  \/ \E f \in Files : UploadBegin(f) \/ GhStart(f)
  \/ GhBegin \/ GhErase
  \/ \E w \in Writers : Write(w) \/ Validate(w) \/ SetBoot(w) \/ Fail(w)
  \/ MarkValid \/ Reset

Spec == Init /\ [][Next]_vars

-----------------------------------------------------------------------------
(* The device can always start: the running slot holds a whole image, and, *)
(* until that image is confirmed, so does the slot to fall back on -- with *)
(* both writers at work and the power failing at any point.                *)
AlwaysBootable == Valid(run) /\ (trial => Valid(Target))

(* The refinement mapping: the good image is the one to fall back on, and  *)
(* an image is pending when otadata selects a slot that holds a whole one. *)
Update == INSTANCE AtomicUpdate WITH
  runs <- ImageIn(run),
  good <- ImageIn(IF trial THEN Target ELSE run),
  pending <- IF ~trial /\ boot # run /\ Valid(boot) THEN ImageIn(boot) ELSE None

(* Updates are atomic (AtomicUpdate): what runs after a restart is the     *)
(* last confirmed image or one that arrived whole, however the transfers,  *)
(* the restarts and the confirmation interleave.                           *)
AtomicUpdates == Update!UpdateSpec
=============================================================================
