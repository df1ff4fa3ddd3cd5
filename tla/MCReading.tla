----------------------------- MODULE MCReading ------------------------------
(***************************************************************************)
(* Reading for TLC: two trips that start with three receipt files between  *)
(* them, that of the second trip a duplicate of one of the first.  It has  *)
(* the same name, since nothing compares names of different trips.         *)
(***************************************************************************)
EXTENDS Reading, TLC

MCInit ==
    /\ Init
    /\ \E s, t \in Trips :
         /\ Cardinality(Files(s)) = 2 /\ Cardinality(Files(t)) = 1
         /\ \A f \in Files(t) : folder[s][f] = folder[t][f]

MCSpec == MCInit /\ [][Next]_vars

Symmetry == Permutations(Trips) \cup Permutations(Names) \cup Permutations(Contents \ Blank)
=============================================================================
