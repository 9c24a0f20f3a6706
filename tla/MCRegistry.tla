----------------------------- MODULE MCRegistry -----------------------------
(***************************************************************************)
(* Small instances of Registry for TLC.                                    *)
(***************************************************************************)
EXTENDS Registry, TLC

CONSTANTS d1, l1, l2, a, b, c, k1, k2, t1, t2

\* Two overlapping tunnels of one desktop beside one link.
LinkAndDesktop == (k1 :> l1) @@ (t1 :> d1) @@ (t2 :> d1)

\* One link whose tunnels overlap: the new one registers before the old one has cleaned up.
OverlappingLink == (k1 :> l1) @@ (k2 :> l1)

\* A near chain, a longer one, and one that comes back through this relay.
MCVias == {<<b>>, <<b, c>>, <<b, a>>}

\* Chains that are all routable.
RoutableVias == {<<b>>, <<b, c>>}
=============================================================================
