--------------------------- MODULE MCDroneRegistry ---------------------------
(***************************************************************************)
(* The instances of DroneRegistry that TLC checks.                         *)
(***************************************************************************)
EXTENDS DroneRegistry
=============================================================================
