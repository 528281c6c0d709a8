------------------------------ MODULE MCBridge ------------------------------
(* The bridge with a few telling readings. *)
EXTENDS Bridge

Unread == [valid |-> TRUE, sweep_done |-> FALSE, ac |-> FALSE,
           low |-> FALSE, minutes |-> "none", derived |-> "none"]
OnMains == [Unread EXCEPT !.sweep_done = TRUE, !.ac = TRUE, !.derived = "long"]
OnBattery == [Unread EXCEPT !.sweep_done = TRUE, !.minutes = "long", !.derived = "long"]
RunningOut == [OnBattery EXCEPT !.minutes = "short"]
(* No estimate of its own, and a short runtime by capacity and load. *)
Derived == [OnBattery EXCEPT !.minutes = "none", !.derived = "short"]
Low == [OnBattery EXCEPT !.low = TRUE]
FewReadings == {Unread, OnMains, OnBattery, RunningOut, Derived, Low}
=============================================================================
