------------------------- MODULE MCInterceptControl -------------------------
(***************************************************************************)
(* The instances of InterceptControl that TLC checks: a .cfg names the     *)
(* requests, and which kinds of them arrive.                               *)
(***************************************************************************)
EXTENDS InterceptControl
=============================================================================
