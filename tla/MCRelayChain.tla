---------------------------- MODULE MCRelayChain ----------------------------
(***************************************************************************)
(* Small instances of RelayChain for TLC.                                  *)
(***************************************************************************)
EXTENDS RelayChain, TLC

CONSTANTS a, b, c, d

\* All relays but the device's own are interchangeable.
Interchangeable == Permutations(Relays \ {Home})
=============================================================================
