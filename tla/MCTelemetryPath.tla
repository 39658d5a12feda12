--------------------------- MODULE MCTelemetryPath ---------------------------
(***************************************************************************)
(* The instances of TelemetryPath that TLC checks.                         *)
(***************************************************************************)
EXTENDS TelemetryPath, TLC

(* Handlers are alike, and so are secrets.                                  *)
Symmetry == Permutations(Handlers) \cup Permutations(Secrets)
=============================================================================
