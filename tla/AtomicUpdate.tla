---------------------------- MODULE AtomicUpdate ----------------------------
(***************************************************************************)
(* What a firmware update promises, without flash, slots or tasks          *)
(* (ota_github.h: the image lands in the spare slot and a build that will  *)
(* not boot is rolled back).  The device runs a whole image.  A new image  *)
(* may be pending, which takes effect at a restart; it is then on trial,   *)
(* and gives way to the last good image unless it is confirmed.            *)
(***************************************************************************)
CONSTANTS
  Images,     \* the whole, valid firmware images
  None        \* no image is pending (None \notin Images)

VARIABLES
  runs,       \* the image that runs
  good,       \* the last image that was confirmed
  trial,      \* runs has not been confirmed
  pending     \* the image the next restart tries, or None

uvars == <<runs, good, trial, pending>>

UpdateInit ==
  /\ runs \in Images /\ good = runs
  /\ trial = FALSE /\ pending = None

(* An image arrives, or one that had arrived is lost again; never while    *)
(* the good image is needed to fall back on.                               *)
SetPending ==
  /\ ~trial
  /\ pending' \in Images \cup {None}
  /\ UNCHANGED <<runs, good, trial>>

Confirm ==
  /\ trial
  /\ good' = runs /\ trial' = FALSE
  /\ UNCHANGED <<runs, pending>>

Restart ==
  /\ runs' = IF ~trial /\ pending # None THEN pending ELSE good
  /\ trial' = (~trial /\ pending # None)
  /\ pending' = None
  /\ UNCHANGED good

UpdateNext == SetPending \/ Confirm \/ Restart

UpdateSpec == UpdateInit /\ [][UpdateNext]_uvars
=============================================================================
