---------------------------- MODULE MCNutServer -----------------------------
(* One accepted login, and a table with one seeded variable. *)
EXTENDS NutServer

SeedStatus == <<"ups.status">>
GoodLogin == {<<"a", "p">>}
=============================================================================
