--------------------------- MODULE ControlWrites ---------------------------
(***************************************************************************)
(* What becomes of a write to a control, without polls or a queue with     *)
(* slots (bluetti_ble.h: a write is queued and sent on the next poll tick, *)
(* and confirmed later).  It may be asked for while controls are allowed   *)
(* and the link is up.  It stops waiting in three ways only: a newer value *)
(* for its register replaces it, it is taken up, or the controls are       *)
(* switched off.  The write taken up goes out once; it is given up only    *)
(* when the link is not up or the Bluetooth stack refuses it.  Reads and   *)
(* answers, and a link that comes and goes, touch none of this.            *)
(***************************************************************************)
EXTENDS Sequences

CONSTANTS
  Controls,   \* the registers that may be written
  Values,     \* what may be written to them
  Registers,  \* all that may be asked for
  MayRefuse   \* may the stack refuse to send?

VARIABLES
  allowed,    \* are controls on?
  up,         \* is there a session to send on?
  waiting,    \* the writes that wait
  going,      \* the one that has been taken up, if any
  sent        \* the requests on the air, oldest first

wvars == <<allowed, up, waiting, going, sent>>

Write(r, v) == [reg |-> r, val |-> v]
OnAir(w, r) == [write |-> w, reg |-> r]

WritesInit ==
  /\ allowed \in BOOLEAN /\ up = FALSE
  /\ waiting = {} /\ going = {} /\ sent = <<>>

(* The newest value replaces one that still waits. *)
Ask(r, v) ==
  /\ allowed /\ up
  /\ waiting' = {w \in waiting : w.reg # r} \cup {Write(r, v)}
  /\ UNCHANGED <<allowed, up, going, sent>>

TakeUp(w) ==
  /\ going = {}
  /\ waiting' = waiting \ {w}
  /\ going' = {w}
  /\ UNCHANGED <<allowed, up, sent>>

Deliver(w) ==
  /\ up
  /\ going' = {}
  /\ sent' = Append(sent, OnAir(TRUE, w.reg))
  /\ UNCHANGED <<allowed, up, waiting>>

(* Nothing tries again: the user sees the control unchanged. *)
GiveUp ==
  /\ going # {} /\ (~up \/ MayRefuse)
  /\ going' = {}
  /\ UNCHANGED <<allowed, up, waiting, sent>>

(* Switching off forgets what waits; what has been taken up still goes. *)
Allow(on) ==
  /\ allowed' = on
  /\ waiting' = IF on THEN waiting ELSE {}
  /\ UNCHANGED <<up, going, sent>>

(* A read goes out, a request is answered or lost, the link comes or goes. *)
Elsewhere ==
  /\ \/ /\ \E r \in Registers : sent' = Append(sent, OnAir(FALSE, r))
        /\ UNCHANGED up
     \/ /\ sent # <<>> /\ sent' = Tail(sent)
        /\ UNCHANGED up
     \/ /\ sent' \in {sent, <<>>}
        /\ up' \in BOOLEAN
  /\ UNCHANGED <<allowed, waiting, going>>

WritesNext ==
  \/ \E r \in Controls, v \in Values : Ask(r, v)
  \/ \E w \in waiting : TakeUp(w)
  \/ \E w \in going : Deliver(w)
  \/ GiveUp
  \/ \E on \in BOOLEAN : Allow(on)
  \/ Elsewhere

WritesSpec == WritesInit /\ [][WritesNext]_wvars
=============================================================================
