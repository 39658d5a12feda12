---------------------------- MODULE MCLinkMonitor ----------------------------
(***************************************************************************)
(* The instance of LinkMonitor that TLC checks.                            *)
(***************************************************************************)
EXTENDS LinkMonitor
=============================================================================
