------------------------------ MODULE MCAdmin -------------------------------
(* Admin for TLC: the values of a setting are interchangeable. *)
EXTENDS Admin, TLC

ValueSymmetry == Permutations(Values)
=============================================================================
