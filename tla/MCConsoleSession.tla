-------------------------- MODULE MCConsoleSession --------------------------
(***************************************************************************)
(* Small instances of ConsoleSession for TLC.                              *)
(***************************************************************************)
EXTENDS ConsoleSession, TLC

CONSTANTS u1, t1, t2, r1, r2

\* Cookies and requests are interchangeable.
Interchangeable == Permutations(Tokens) \cup Permutations(Requests)
=============================================================================
