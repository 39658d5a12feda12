----------------------------- MODULE MCDemoReset -----------------------------
(***************************************************************************)
(* The instances of DemoReset that TLC checks.                             *)
(***************************************************************************)
EXTENDS DemoReset
=============================================================================
