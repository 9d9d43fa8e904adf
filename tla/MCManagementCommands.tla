------------------------ MODULE MCManagementCommands ------------------------
(* Instance of ManagementCommands for TLC. *)
EXTENDS ManagementCommands

MCPosition == {"EURUSD", "GBPUSD"}
MCMultiples == {5, 6, 10, 12}
=============================================================================
