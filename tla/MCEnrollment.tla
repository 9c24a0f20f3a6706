---------------------------- MODULE MCEnrollment ----------------------------
(***************************************************************************)
(* A small instance of Enrollment for TLC.                                 *)
(***************************************************************************)
EXTENDS Enrollment, TLC

CONSTANTS u1, c1, d1, d2, e1, e2, o1, t1, t2

\* Devices, requests and tunnels are interchangeable.
Interchangeable == Permutations(Devices) \cup Permutations(Enrollers)
                   \cup Permutations(Operators) \cup Permutations(Tunnels)

\* Bound: at most two enrollment requests and tunnels are under way at once.
TwoAtOnce ==
    Cardinality({e \in Enrollers : enroll[e] # IdleEnroller})
        + Cardinality({t \in Tunnels : tunnels[t] # IdleTunnel}) <= 2
=============================================================================
