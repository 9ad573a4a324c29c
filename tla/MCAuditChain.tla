---------------------------- MODULE MCAuditChain ----------------------------
(* A small instance of AuditChain for TLC: two processes that share one     *)
(* database file, two seconds they may boot in, a buffer of two events.     *)
EXTENDS AuditChain, TLC

CONSTANTS p1, p2

MCProc == {p1, p2}

\* The processes are interchangeable.
MCSymmetry == Permutations(MCProc)
=============================================================================
