----------------------------- MODULE MCTripJobs -----------------------------
(***************************************************************************)
(* TripJobs for TLC: a request on the event loop and one on a pool thread, *)
(* two trips, two jobs.                                                    *)
(***************************************************************************)
EXTENDS TripJobs

CONSTANTS l1, p1, x1, x2, j1, j2, b1

MCThreads == {l1, p1}
MCLoops == {l1}
MCTrips == {x1, x2}
MCUploaded == {x1}
MCOneJob == {j1}
MCTwoJobs == {j1, j2}
MCBases == {b1}
MCKinds == {"extract", "finalize", "law"}
MCNames == Names
MCResults == Names \cup {Document, Rules}
=============================================================================
