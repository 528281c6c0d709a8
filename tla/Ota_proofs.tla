----------------------------- MODULE Ota_proofs -----------------------------
(***************************************************************************)
(* For every set of images and files and every number of pieces: the       *)
(* device can always start, and updates are atomic.                        *)
(***************************************************************************)
EXTENDS Ota, TLAPS

(* While an image is on trial nothing writes the slot to fall back on, and *)
(* otadata selects the image on trial.                                     *)
TrialIsQuiet ==
  trial => /\ boot = run
           /\ \A w \in Writers : writer[w].pc \in {"idle", "open"}
IInv == TypeOK /\ AlwaysBootable /\ TrialIsQuiet

-----------------------------------------------------------------------------
(* The other slot is the other one. *)
LEMMA TwoSlots == ASSUME run \in Slots
                  PROVE  Target \in Slots /\ Target # run /\ Slots = {run, Target}
  BY DEF Slots, Target

(* A slot that holds a whole image holds one only (there is a first        *)
(* piece), so that reading it back gives that image.                       *)
LEMMA OneImage ==
  ASSUME NEW c, NEW i \in Images, \A k \in Pieces : c[k] = i
  PROVE  (CHOOSE j \in Images : \A k \in Pieces : c[k] = j) = i
<1>1. 1 \in Pieces
  BY OtaAssumption DEF Pieces
<1>2. \A j \in Images : (\A k \in Pieces : c[k] = j) <=> j = i
  BY <1>1
<1> QED
  BY <1>2

(* Every write and every erasure stays inside the spare slot. *)
LEMMA SpareOnly ==
  ASSUME TypeOK, NEW n \in Pieces, NEW x \in Content
  PROVE  LET new == [flash EXCEPT ![Target][n] = x]
         IN  /\ new \in [Slots -> [Pieces -> Content]]
             /\ new[run] = flash[run]
<1>1. run \in Slots /\ Target \in Slots /\ Target # run
  BY TwoSlots DEF TypeOK
<1>2. [flash[Target] EXCEPT ![n] = x] \in [Pieces -> Content]
  BY <1>1 DEF TypeOK
<1> QED
  BY <1>1, <1>2 DEF TypeOK

(* What esp_ota_write leaves of a piece. *)
LEMMA WriteSpares ==
  ASSUME TypeOK, NEW n \in Pieces, NEW f \in Files
  PROVE  LET new == [flash EXCEPT ![Target][n] = Programmed(@, f)]
         IN  /\ new \in [Slots -> [Pieces -> Content]]
             /\ new[run] = flash[run]
<1>1. Target \in Slots /\ flash \in [Slots -> [Pieces -> Content]]
  BY TwoSlots DEF TypeOK
<1> DEFINE x == Programmed(flash[Target][n], f)
<1>2. x \in Content
  BY <1>1 DEF Programmed, Content
<1> HIDE DEF x
<1>3. LET new == [flash EXCEPT ![Target][n] = x]
      IN  new \in [Slots -> [Pieces -> Content]] /\ new[run] = flash[run]
  BY <1>2, SpareOnly
<1>4. [flash EXCEPT ![Target][n] = Programmed(@, f)] = [flash EXCEPT ![Target][n] = x]
  BY <1>1 DEF x
<1> QED
  BY <1>3, <1>4

-----------------------------------------------------------------------------
LEMMA InitIInv == Init => IInv
<1> SUFFICES ASSUME Init PROVE IInv
  OBVIOUS
<1>1. TypeOK
  <2>1. flash \in [Slots -> [Pieces -> Content]]
    BY OtaAssumption DEF Init, Slots, Content
  <2>2. NotWriting \in [pc : {"idle", "open", "writing", "erased", "valid"},
                        file : Files \cup {None}, n : 0 .. Chunks]
    BY OtaAssumption DEF NotWriting
  <2>3. \A w \in Writers : writer[w].pc = "idle"
    BY DEF Init, NotWriting
  <2> QED
    BY <2>1, <2>2, <2>3 DEF Init, TypeOK, Slots
<1>2. AlwaysBootable
  BY DEF Init, AlwaysBootable, Valid, Whole, Slots
<1>3. TrialIsQuiet
  BY DEF Init, TrialIsQuiet
<1> QED
  BY <1>1, <1>2, <1>3 DEF IInv

(* A step that leaves the running slot as it was, and does not happen on   *)
(* trial, keeps the device bootable.                                       *)
LEMMA KeepsBootable ==
  ASSUME AlwaysBootable, run' = run, flash'[run] = flash[run],
         trial' = FALSE
  PROVE  AlwaysBootable'
  BY DEF AlwaysBootable, Valid, Whole

LEMMA StepIInv == IInv /\ [Next]_vars => IInv'
<1> SUFFICES ASSUME IInv, [Next]_vars PROVE IInv'
  OBVIOUS
<1> USE DEF IInv
<1>0. run \in Slots /\ Target \in Slots /\ Target # run /\ Erased \in [Slots -> [Pieces -> Content]]
      /\ Erased[run] = flash[run]
  BY TwoSlots DEF TypeOK, Erased, Content
<1>1. ASSUME NEW f \in Files, UploadBegin(f) PROVE IInv'
  <2>1. TypeOK'
    BY <1>1, <1>0, OtaAssumption DEF UploadBegin, TypeOK, Writers, Writing
  <2>2. AlwaysBootable'
    BY <1>1, <1>0, KeepsBootable DEF UploadBegin, TypeOK
  <2>3. TrialIsQuiet'
    BY <1>1 DEF UploadBegin, TrialIsQuiet
  <2> QED
    BY <2>1, <2>2, <2>3
<1>2. ASSUME NEW f \in Files, GhStart(f) PROVE IInv'
  <2>1. TypeOK'
    BY <1>2, OtaAssumption DEF GhStart, TypeOK, Writers
  <2>2. AlwaysBootable'
    BY <1>2 DEF GhStart, AlwaysBootable, Valid, Whole, Target
  <2>3. TrialIsQuiet'
    BY <1>2 DEF GhStart, TrialIsQuiet, TypeOK, Writers
  <2> QED
    BY <2>1, <2>2, <2>3
<1>3. CASE GhBegin
  <2>1. writer["gh"].file \in Files
    BY <1>3 DEF GhBegin, TypeOK, Writers
  <2>2. TypeOK'
    BY <1>3, <1>0, <2>1, OtaAssumption DEF GhBegin, TypeOK, Writers, Writing
  <2>3. AlwaysBootable'
    BY <1>3, KeepsBootable DEF GhBegin, TypeOK
  <2>4. TrialIsQuiet'
    BY <1>3 DEF GhBegin, TrialIsQuiet
  <2> QED
    BY <2>2, <2>3, <2>4
<1>11. CASE GhErase
  <2>1. writer["gh"].n + 1 \in Pieces /\ trial = FALSE /\ Blank \in Content
    BY <1>11 DEF GhErase, TypeOK, Pieces, TrialIsQuiet, Writers, Content
  <2>2. flash' \in [Slots -> [Pieces -> Content]] /\ flash'[run] = flash[run]
    BY <1>11, <2>1, SpareOnly DEF GhErase
  <2>3. TypeOK'
    BY <1>11, <2>1, <2>2 DEF GhErase, TypeOK, Writers, Pieces
  <2>4. AlwaysBootable'
    BY <1>11, <2>1, <2>2, KeepsBootable DEF GhErase
  <2>5. TrialIsQuiet'
    BY <1>11, <2>1 DEF GhErase, TrialIsQuiet
  <2> QED
    BY <2>3, <2>4, <2>5
<1>4. ASSUME NEW w \in Writers, Write(w) PROVE IInv'
  <2>1. writer[w].file \in Files /\ writer[w].n + 1 \in Pieces /\ trial = FALSE
    BY <1>4 DEF Write, TypeOK, Pieces, TrialIsQuiet
  <2>2. flash' \in [Slots -> [Pieces -> Content]] /\ flash'[run] = flash[run]
    BY <1>4, <2>1, WriteSpares DEF Write
  <2>3. TypeOK'
    BY <1>4, <2>1, <2>2 DEF Write, TypeOK, Writers, Pieces
  <2>4. AlwaysBootable'
    BY <1>4, <2>1, <2>2, KeepsBootable DEF Write
  <2>5. TrialIsQuiet'
    BY <1>4, <2>1 DEF Write, TrialIsQuiet
  <2> QED
    BY <2>3, <2>4, <2>5
<1>5. ASSUME NEW w \in Writers, Validate(w) PROVE IInv'
  <2>1. trial = FALSE
    BY <1>5 DEF Validate, TrialIsQuiet, TypeOK
  <2>2. TypeOK'
    BY <1>5 DEF Validate, TypeOK, Writers
  <2>3. AlwaysBootable'
    BY <1>5 DEF Validate, AlwaysBootable, Valid, Whole, Target
  <2>4. TrialIsQuiet'
    BY <1>5, <2>1 DEF Validate, TrialIsQuiet
  <2> QED
    BY <2>2, <2>3, <2>4
<1>6. ASSUME NEW w \in Writers, SetBoot(w) PROVE IInv'
  <2>1. trial = FALSE
    BY <1>6 DEF SetBoot, TrialIsQuiet, TypeOK
  <2>2. TypeOK'
    BY <1>6, <1>0, OtaAssumption DEF SetBoot, TypeOK, Writers, NotWriting
  <2>3. AlwaysBootable'
    BY <1>6 DEF SetBoot, AlwaysBootable, Valid, Whole, Target
  <2>4. TrialIsQuiet'
    BY <1>6, <2>1 DEF SetBoot, TrialIsQuiet
  <2> QED
    BY <2>2, <2>3, <2>4
<1>7. ASSUME NEW w \in Writers, Fail(w) PROVE IInv'
  <2>1. TypeOK'
    BY <1>7, OtaAssumption DEF Fail, TypeOK, Writers, NotWriting
  <2>2. AlwaysBootable'
    BY <1>7 DEF Fail, AlwaysBootable, Valid, Whole, Target
  <2>3. TrialIsQuiet'
    BY <1>7 DEF Fail, TrialIsQuiet, TypeOK, NotWriting
  <2> QED
    BY <2>1, <2>2, <2>3
<1>8. CASE MarkValid
  <2>1. TypeOK'
    BY <1>8 DEF MarkValid, TypeOK
  <2>2. AlwaysBootable'
    BY <1>8 DEF MarkValid, AlwaysBootable, Valid, Whole, Target
  <2>3. TrialIsQuiet'
    BY <1>8 DEF MarkValid, TrialIsQuiet
  <2> QED
    BY <2>1, <2>2, <2>3
<1>9. CASE Reset
  <2>1. TypeOK'
    <3>1. NotWriting \in [pc : {"idle", "open", "writing", "erased", "valid"},
                          file : Files \cup {None}, n : 0 .. Chunks]
      BY OtaAssumption DEF NotWriting
    <3>2. \A w \in Writers : writer'[w].pc = "idle"
      BY <1>9 DEF Reset, NotWriting
    <3>3. run' \in Slots /\ boot' \in Slots /\ trial' \in BOOLEAN
      BY <1>9, <1>0 DEF Reset
    <3> QED
      BY <1>9, <3>1, <3>2, <3>3 DEF Reset, TypeOK
  <2>2. TrialIsQuiet'
    BY <1>9 DEF Reset, TrialIsQuiet, NotWriting
  <2>3. AlwaysBootable'
    <3>1. boot # run => boot = Target
      BY <1>0 DEF TypeOK, Slots, Target
    <3>2. Valid(run')
      BY <1>9, <3>1 DEF Reset, AlwaysBootable
    <3>3. trial' => run' = Target /\ Valid(run)
      BY <1>9 DEF Reset, AlwaysBootable, TypeOK
    <3>4. trial' => Target' = run
      BY <3>3, <1>0 DEF Target, Slots
    <3>5. Valid(run)' /\ (trial' => Valid(Target)')
      BY <1>9, <3>2, <3>3, <3>4 DEF Reset, Valid, Whole
    <3> QED
      BY <3>5 DEF AlwaysBootable
  <2> QED
    BY <2>1, <2>2, <2>3
<1>10. CASE UNCHANGED vars
  BY <1>10 DEF vars, TypeOK, AlwaysBootable, TrialIsQuiet, Valid, Whole, Target
<1> QED
  BY <1>1, <1>2, <1>3, <1>4, <1>5, <1>6, <1>7, <1>8, <1>9, <1>10, <1>11 DEF Next

LEMMA IInvAlways == Spec => []IInv
  BY InitIInv, StepIInv, PTL DEF Spec

(* Type correctness of h_ota, ota_task and the slots they share. *)
THEOREM OtaTyped == Spec => []TypeOK
<1>1. IInv => TypeOK
  BY DEF IInv
<1> QED
  BY <1>1, IInvAlways, PTL

(* With h_ota and ota_task writing at once and the power failing at any    *)
(* point, the running slot always holds a whole image, and so does the     *)
(* other one as long as it may be rolled back to.                          *)
THEOREM OtaAlwaysBootable == Spec => []AlwaysBootable
<1>1. IInv => AlwaysBootable
  BY DEF IInv
<1> QED
  BY <1>1, IInvAlways, PTL
-----------------------------------------------------------------------------
(* The refinement mapping of Ota, by name. *)
Runs == ImageIn(run)
Good == ImageIn(IF trial THEN Target ELSE run)
Pending == IF ~trial /\ boot # run /\ Valid(boot) THEN ImageIn(boot) ELSE None

(* Reading a valid slot gives one of the images. *)
LEMMA ReadBack == ASSUME NEW s, Valid(s) PROVE ImageIn(s) \in Images /\ Whole(s, ImageIn(s))
  BY DEF Valid, ImageIn

(* A slot that did not change, and held a whole image, reads the same. *)
LEMMA ReadsSame ==
  ASSUME NEW s, NEW t, Valid(s), flash'[t] = flash[s]
  PROVE  (CHOOSE i \in Images : \A k \in Pieces : flash'[t][k] = i) = ImageIn(s)
<1>1. ImageIn(s) \in Images /\ \A k \in Pieces : flash'[t][k] = ImageIn(s)
  BY ReadBack DEF Whole
<1> QED
  BY <1>1, OneImage

(* Off trial, a step that leaves run, trial and the running slot alone at  *)
(* most changes what is pending.                                           *)
LEMMA OnlyPending ==
  ASSUME IInv, ~trial, trial' = trial, run' = run, flash'[run] = flash[run]
  PROVE  Update!SetPending
<1>1. Runs' = Runs
  BY ReadsSame DEF IInv, AlwaysBootable, Runs, ImageIn, Whole
<1>2. Good' = Good
  BY ReadsSame DEF IInv, AlwaysBootable, Good, ImageIn, Whole
<1>3. Pending' \in Images \cup {None}
  <2>1. Valid(boot)' => ImageIn(boot)' \in Images
    BY DEF Valid, ImageIn
  <2> QED
    BY <2>1 DEF Pending
<1> QED
  BY <1>1, <1>2, <1>3 DEF Update!SetPending, Runs, Good, Pending

(* A step that touches neither the slots nor what is selected is none. *)
LEMMA NothingMoves ==
  ASSUME UNCHANGED <<flash, run, boot, trial>>
  PROVE  UNCHANGED Update!uvars
  BY DEF Update!uvars, ImageIn, Whole, Valid, Target

LEMMA StepRefines == IInv /\ [Next]_vars => [Update!UpdateNext]_(Update!uvars)
<1> SUFFICES ASSUME IInv, [Next]_vars
             PROVE  Update!UpdateNext \/ UNCHANGED Update!uvars
  OBVIOUS
<1>0. run \in Slots /\ Target \in Slots /\ Target # run /\ Erased[run] = flash[run]
  BY TwoSlots DEF IInv, TypeOK, Erased
<1>1. ASSUME NEW f \in Files, UploadBegin(f) PROVE Update!SetPending
  BY <1>1, <1>0, OnlyPending DEF UploadBegin
<1>2. CASE GhBegin
  BY <1>2, NothingMoves DEF GhBegin
<1>10. CASE GhErase
  <2>1. writer["gh"].n + 1 \in Pieces /\ ~trial /\ Blank \in Content
    BY <1>10 DEF GhErase, IInv, TypeOK, Pieces, TrialIsQuiet, Writers, Content
  <2>2. flash'[run] = flash[run]
    BY <1>10, <2>1, SpareOnly DEF GhErase, IInv
  <2>3. Update!SetPending
    BY <1>10, <2>1, <2>2, OnlyPending DEF GhErase
  <2> QED
    BY <2>3 DEF Update!UpdateNext
<1>3. ASSUME NEW w \in Writers, Write(w) PROVE Update!SetPending
  <2>1. writer[w].file \in Files /\ writer[w].n + 1 \in Pieces /\ ~trial
    BY <1>3 DEF Write, IInv, TypeOK, Pieces, TrialIsQuiet
  <2>2. flash'[run] = flash[run]
    BY <1>3, <2>1, WriteSpares DEF Write, IInv
  <2> QED
    BY <1>3, <2>1, <2>2, OnlyPending DEF Write
<1>4. ASSUME NEW w \in Writers, SetBoot(w) PROVE Update!SetPending
  <2>1. ~trial
    BY <1>4 DEF SetBoot, IInv, TrialIsQuiet
  <2> QED
    BY <1>4, <2>1, OnlyPending DEF SetBoot
<1>5. CASE MarkValid
  <2>1. boot = run
    BY <1>5 DEF MarkValid, IInv, TrialIsQuiet
  <2>2. Runs' = Runs /\ Pending' = Pending
    BY <1>5, <2>1 DEF MarkValid, Runs, Pending, ImageIn, Whole
  <2>3. Good' = Runs
    BY <1>5 DEF MarkValid, Good, Runs, ImageIn, Whole
  <2>4. Update!Confirm
    BY <1>5, <2>2, <2>3 DEF Update!Confirm, MarkValid, Runs, Pending, Good
  <2> QED
    BY <2>4 DEF Update!UpdateNext
<1>6. CASE Reset
  <2>0. Valid(run) /\ (trial => Valid(Target)) /\ (boot # run => boot = Target)
    BY <1>0 DEF IInv, AlwaysBootable, TypeOK, Slots, Target
  <2>1. flash' = flash /\ boot' = run'
    BY <1>6 DEF Reset
  <2>2. ASSUME NEW s, Valid(s), run' = s PROVE Runs' = ImageIn(s)
    BY <2>2, <2>1, ReadsSame DEF Runs, ImageIn, Whole
  <2>3. Pending' = None
    BY <2>1 DEF Pending
  <2>4. CASE trial
    <3>1. run' = Target /\ trial' = FALSE
      BY <1>6, <2>4 DEF Reset
    <3>2. Runs' = Good
      BY <2>0, <2>2, <2>4, <3>1 DEF Good
    <3>3. Good' = Good
      BY <3>1, <3>2 DEF Good, Runs
    <3> QED
      BY <2>3, <2>4, <3>1, <3>2, <3>3
         DEF Update!UpdateNext, Update!Restart, Runs, Good, Pending
  <2>5. CASE ~trial /\ Pending = None
    <3>1. ~(boot # run /\ Valid(boot))
      BY <2>5, ReadBack, OtaAssumption DEF Pending
    <3>2. run' = run /\ trial' = FALSE
      BY <1>6, <2>5, <3>1 DEF Reset
    <3>3. Runs' = Good /\ Good' = Good
      BY <2>0, <2>2, <2>5, <3>2 DEF Good, Runs
    <3> QED
      BY <2>3, <2>5, <3>2, <3>3 DEF Update!UpdateNext, Update!Restart, Runs, Good, Pending
  <2>6. CASE ~trial /\ Pending # None
    <3>1. boot # run /\ Valid(boot) /\ boot = Target
      BY <2>6, <2>0 DEF Pending
    <3>2. run' = Target /\ trial' = TRUE
      BY <1>6, <1>0, <2>6, <3>1 DEF Reset
    <3>3. Runs' = Pending
      BY <2>2, <2>6, <3>1, <3>2 DEF Pending
    <3>4. Target' = run
      BY <1>0, <3>2 DEF Target, Slots
    <3>5. Good' = Good
      <4>1. (CHOOSE i \in Images : \A k \in Pieces : flash'[run][k] = i) = ImageIn(run)
        BY <2>0, <2>1, ReadsSame
      <4>2. Good' = (CHOOSE i \in Images : \A k \in Pieces : flash'[run][k] = i)
        BY <3>2, <3>4 DEF Good, ImageIn, Whole
      <4>3. Good = ImageIn(run)
        BY <2>6 DEF Good
      <4> QED
        BY <4>1, <4>2, <4>3
    <3> QED
      BY <2>3, <2>6, <3>2, <3>3, <3>5
         DEF Update!UpdateNext, Update!Restart, Runs, Good, Pending
  <2> QED
    BY <2>4, <2>5, <2>6
<1>7. ASSUME NEW f \in Files, GhStart(f) PROVE UNCHANGED Update!uvars
  BY <1>7, NothingMoves DEF GhStart
<1>8. ASSUME NEW w \in Writers, Validate(w) \/ Fail(w) PROVE UNCHANGED Update!uvars
  BY <1>8, NothingMoves DEF Validate, Fail
<1>9. CASE UNCHANGED vars
  BY <1>9, NothingMoves DEF vars
<1> QED
  BY <1>1, <1>2, <1>3, <1>4, <1>5, <1>6, <1>7, <1>8, <1>9, <1>10 DEF Next, Update!UpdateNext

LEMMA InitRefines == Init => Update!UpdateInit
<1> SUFFICES ASSUME Init PROVE Update!UpdateInit
  OBVIOUS
<1>1. Valid(run) /\ ~trial /\ boot = run
  BY InitIInv DEF Init, IInv, AlwaysBootable
<1>2. Runs \in Images /\ Good = Runs /\ Pending = None
  BY <1>1, ReadBack DEF Runs, Good, Pending
<1> QED
  BY <1>1, <1>2, OtaAssumption DEF Init, Update!UpdateInit, Runs, Good, Pending

(* h_ota, ota_task, the bootloader's roll-back and the confirmation in     *)
(* app_main implement the atomic update of AtomicUpdate: what runs after a *)
(* restart is the last confirmed image or one that arrived whole.          *)
THEOREM OtaRefinesAtomicUpdate == Spec => AtomicUpdates
  BY InitRefines, StepRefines, IInvAlways, PTL DEF Spec, AtomicUpdates, Update!UpdateSpec
=============================================================================
