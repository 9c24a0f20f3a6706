-------------------------- MODULE MCTunnelSession --------------------------
(***************************************************************************)
(* A small instance of TunnelSession for TLC.                              *)
(***************************************************************************)
EXTENDS TunnelSession

CONSTANT c1
=============================================================================
