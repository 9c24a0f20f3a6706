----------------------------- MODULE MCStartup -----------------------------
(***************************************************************************)
(* A small instance of Startup for TLC: the service and one more process   *)
(* for what the operator starts beside it.                                 *)
(***************************************************************************)
EXTENDS Startup

CONSTANTS p1, p2
=============================================================================
