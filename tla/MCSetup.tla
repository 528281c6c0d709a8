------------------------------ MODULE MCSetup -------------------------------
(* Two connect_tasks. *)
EXTENDS Setup

SetupTasks == {"t1", "t2"}
SetupCallers == SetupTasks \cup {"main"}
=============================================================================
