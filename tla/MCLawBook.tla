----------------------------- MODULE MCLawBook ------------------------------
(***************************************************************************)
(* LawBook for TLC: three days of two ticks; a regulation comes into force *)
(* on the second day and another on the third.                             *)
(***************************************************************************)
EXTENDS LawBook, TLC

MCEffective == [l \in Laws |-> l]

Symmetry == Permutations(Callers)
=============================================================================
