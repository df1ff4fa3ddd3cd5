----------------------------- MODULE MCJobTools -----------------------------
(***************************************************************************)
(* JobTools for TLC: two llama-server processes, so that another can be    *)
(* started while the shutdown still holds one; two tool sessions, so that  *)
(* one that was given up lives on beside the next.                         *)
(***************************************************************************)
EXTENDS JobTools

CONSTANTS p1, p2, s1, s2

MCProcs == {p1, p2}
MCSessions == {s1, s2}
=============================================================================
