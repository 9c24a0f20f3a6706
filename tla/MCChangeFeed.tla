---------------------------- MODULE MCChangeFeed ----------------------------
(***************************************************************************)
(* Small instances of ChangeFeed for TLC.                                  *)
(***************************************************************************)
EXTENDS ChangeFeed

CONSTANTS d1, d2, w1, b, c, u

\* A device of this relay's own, one behind another relay, and one whose chain runs through the upstream.
MCChains == {<<b>>, <<b, c>>, <<b, u>>}
=============================================================================
