----------------------------- MODULE TripStore -----------------------------
(***************************************************************************)
(* What the application promises of the receipts of one traveller's trips, *)
(* without names, folders, boxes or threads: receipts that came in are     *)
(* kept until they are put into the trash, come back from there or are     *)
(* destroyed there, and destroyed ones are gone.  Trips of which one came  *)
(* into the folder of the other go together.                               *)
(***************************************************************************)

CONSTANT Trips

VARIABLE place

Places == {"nowhere", "kept", "trash", "gone"}

(* The application starts over the folders an earlier session left.        *)
StoreInit == place \in [Trips -> {"nowhere", "kept"}]

Change(S, from, to) ==
    /\ \A x \in S : place[x] = from
    /\ place' = [x \in Trips |-> IF x \in S THEN to ELSE place[x]]

Enter(x)   == Change({x}, "nowhere", "kept")
Discard(S) == Change(S, "kept", "trash")
Recover(S) == Change(S, "trash", "kept")
Destroy(S) == Change(S, "trash", "gone")

StoreNext ==
    \/ \E x \in Trips : Enter(x)
    \/ \E S \in SUBSET Trips : Discard(S) \/ Recover(S) \/ Destroy(S)

StoreSpec == StoreInit /\ [][StoreNext]_place
=============================================================================
