---------------------------- MODULE MCDocuments ----------------------------
(***************************************************************************)
(* Documents for TLC: two trips, two values of the receipts, two versions. *)
(***************************************************************************)
EXTENDS Documents, TLC

CONSTANTS t1, t2, x1, x2, s1, s2

MCTrips == {t1, t2}
MCOneTrip == {t1}
MCValues == {x1, x2}
MCSettings == {s1, s2}
MCOneSetting == {s1}

Symmetry == Permutations(MCTrips) \cup Permutations(MCValues)
=============================================================================
