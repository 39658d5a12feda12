-------------------------- MODULE MCTelemetryIngest --------------------------
(***************************************************************************)
(* The instance of TelemetryIngest that TLC checks: every packet is of one *)
(* drone, the device may be provisioned to it or to the other one.         *)
(***************************************************************************)
EXTENDS TelemetryIngest, TLC

CONSTANTS d1

AllOfOneDrone == [p \in Packets |-> d1]

PacketSymmetry == Permutations(Packets)
=============================================================================
