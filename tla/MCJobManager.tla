---------------------------- MODULE MCJobManager ----------------------------
(***************************************************************************)
(* JobManager for TLC: two addresses, two request threads and three jobs,  *)
(* enough for one job running, one in the queue and one between the table  *)
(* and the pool.                                                           *)
(***************************************************************************)
EXTENDS JobManager

CONSTANTS k1, k2, t1, t2, j1, j2, j3

MCKeys == {k1, k2}
MCThreads == {t1, t2}
MCJobs == {j1, j2, j3}
MCKinds == {"extract", "finalize"}
MCResults == {"value"}
=============================================================================
