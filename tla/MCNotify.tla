------------------------------ MODULE MCNotify ------------------------------
(* Alerts with everything on, and switched off and on again. *)
EXTENDS Notify

AllOn == [enabled |-> TRUE, on_power |-> TRUE, on_low_batt |-> TRUE,
          on_link |-> TRUE, on_battery_pct |-> TRUE]
FewConfigs == {AllOn, [AllOn EXCEPT !.enabled = FALSE, !.on_battery_pct = FALSE]}
=============================================================================
