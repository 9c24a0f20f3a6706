--------------------------- MODULE MCUpstreamLink ---------------------------
(***************************************************************************)
(* Small instances of UpstreamLink for TLC.                                *)
(***************************************************************************)
EXTENDS UpstreamLink

CONSTANTS k1, k2, r1, r2
=============================================================================
