------------------------------ MODULE MCBtPoll ------------------------------
(* A small instance of BtPoll: registers under their own addresses.        *)
EXTENDS BtPoll

(* The device type for every unit; for a known model the discharge floor   *)
(* (2022), a control that is always polled; a switch (2011) when controls  *)
(* are on.                                                                 *)
ShortCommon == <<110>>
ShortExtra == <<2022>>
ShortControls == <<2011>>

(* The same with AC input power (146), which the mains is inferred from. *)
MainsCommon == <<146, 110>>
=============================================================================
