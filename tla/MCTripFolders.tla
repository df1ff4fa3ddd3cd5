--------------------------- MODULE MCTripFolders ---------------------------
(***************************************************************************)
(* TripFolders for TLC: two trips whose receipts suggest the same name,    *)
(* one thread that renames and one trash box: a trip that is renamed to    *)
(* the name a trashed one had, and a restore beside it, are reached.       *)
(***************************************************************************)
EXTENDS TripFolders, TLC

CONSTANTS x1, x2, b1, b2, i1, worker

MCTrips == {x1, x2}
MCOneTrip == {x1}
MCBases == {b1}
MCTwoBases == {b1, b2}
MCMovers == {worker}
MCBoxes == {i1}

Symmetry == Permutations(MCTrips)
=============================================================================
