---------------------------- MODULE TripFolders ----------------------------
(***************************************************************************)
(* The folders of one traveller's trips, file operation by file operation  *)
(* (workspace.py): renaming a trip (move_trip, by the job thread and by    *)
(* the event loop, without any lock), the trash (trash_trip, restore_trip, *)
(* purge_trash, one at a time under out_lock), the writing of out/ by the  *)
(* pipeline (under the same lock), and the death of the process between    *)
(* any two file operations.                                                *)
(***************************************************************************)
EXTENDS Naturals, Sequences, FiniteSets

CONSTANTS Trips,    (* trips the first screen may create                   *)
          Bases,    (* "YYYY-MM-DD_destination" names                      *)
          MaxSuffix,(* the suffixes "_2" .. "_MaxSuffix" a name can get    *)
          Movers,   (* threads that rename: the job thread, the event loop *)
          Boxes,    (* trash ids                                           *)
          None

(* A folder name: a staging name (one per trip) or a dated base, with up   *)
(* to two suffixes (a trip restored beside its namesake gets another).     *)
Roots == Trips \cup Bases
Suffixes == 2..MaxSuffix
Names == {<<r>> : r \in Roots} \cup (Roots \X Suffixes) \cup (Roots \X Suffixes \X Suffixes)

ASSUME FolderAssumptions ==
    /\ MaxSuffix \in Nat
    /\ Trips \cap Bases = {}
    /\ None \notin Trips \cup Boxes \cup Names

VARIABLES data,     (* data/<traveler>/<name>: the trip kept there         *)
          out,      (* out/<traveler>/<name>: the trip it was written for  *)
          latest,   (* names with out/<traveler>/<name>/latest.json        *)
          renames,  (* out/.cache/renames.json                             *)
          box,      (* data/.trash/<id> and out/.trash/<id>                *)
          inside,   (* trips that ended up inside the folder of another    *)
          mover,    (* per thread: how far its move_trip is                *)
          tidy,     (* the trash operation under out_lock                  *)
          purged,   (* trips deleted for good                              *)
          torn,     (* the process has died at least once                  *)
          overlap   (* two operations have been under way together         *)

files == <<data, out, latest, renames, box, inside>>
vars == <<files, mover, tidy, purged, torn, overlap>>

NoBox == [made |-> FALSE, data |-> None, meta |-> None, out |-> None, latest |-> FALSE]
Still == [at |-> "idle", from |-> None, to |-> None, copy |-> None]
NoTidy == [at |-> "idle", box |-> None, name |-> None]

Renames == [Names -> Names \cup {None}]
NoRenames == [n \in Names |-> None]

TypeOK ==
    /\ data \in [Names -> Trips \cup {None}]
    /\ out \in [Names -> Trips \cup {None}]
    /\ latest \subseteq {n \in Names : out[n] # None}
    /\ renames \in Renames
    /\ box \in [Boxes -> [made : BOOLEAN, data : Trips \cup {None}, meta : Names \cup {None},
                         out : Trips \cup {None}, latest : BOOLEAN]]
    /\ inside \in [Trips -> Trips \cup {None}]
    /\ mover \in [Movers -> [at : {"idle", "data", "out", "read", "write"}, from : Names \cup {None},
                             to : Names \cup {None}, copy : Renames \cup {None}]]
    /\ tidy \in [at : {"idle", "trash", "trashout", "meta", "restore", "restoreout", "clean", "purge", "purgeout"},
                 box : Boxes \cup {None}, name : Names \cup {None}]
    /\ purged \subseteq Trips
    /\ torn \in BOOLEAN /\ overlap \in BOOLEAN

Init ==
    /\ data = [n \in Names |-> None]
    /\ out = [n \in Names |-> None]
    /\ latest = {}
    /\ renames = NoRenames
    /\ box = [i \in Boxes |-> NoBox]
    /\ inside = [x \in Trips |-> None]
    /\ mover = [m \in Movers |-> Still]
    /\ tidy = NoTidy
    /\ purged = {}
    /\ torn = FALSE
    /\ overlap = FALSE

-----------------------------------------------------------------------------
Quiet == tidy = NoTidy /\ \A m \in Movers : mover[m] = Still
Unlocked == tidy.at = "idle"    (* out_lock can be taken *)
Begins == overlap' = (overlap \/ ~Quiet)

(* Trips whose receipts are in a folder of data/ or of the trash ...       *)
Kept == {x \in Trips : (\E n \in Names : data[n] = x) \/ (\E i \in Boxes : box[i].data = x)}
(* ... or inside the folder of such a trip.                                *)
Exists(x) == x \in Kept \/ inside[x] \in Kept

(* unique_trip_id, and the loop of restore_trip: the name itself or, when  *)
(* that is taken, the first suffix that is not.  (Empty at the bound.)     *)
FirstFree(n, Taken) ==
    LET Nth(i) == IF i = 1 THEN n ELSE Append(n, i)
        free == {i \in 1..MaxSuffix : Nth(i) \in Names \ Taken}
    IN {Nth(i) : i \in {f \in free : \A g \in free : f <= g}}

InData == {n \in Names : data[n] # None}
InOut == {n \in Names : out[n] # None}

(* create_staging_trip.                                                    *)
Create(x) ==
    /\ ~Exists(x) /\ x \notin purged
    /\ data' = [data EXCEPT ![<<x>>] = x]
    /\ UNCHANGED <<out, latest, renames, box, inside, mover, tidy, purged, torn, overlap>>

(* extract_trip or finalize_trip under out_lock, as one step: the work     *)
(* directory is that of the receipts in the folder, documents come beside. *)
WriteOut(n, docs) ==
    /\ Unlocked
    /\ data[n] # None
    /\ out' = [out EXCEPT ![n] = data[n]]
    /\ latest' = IF docs THEN latest \cup {n} ELSE latest
    /\ Begins
    /\ UNCHANGED <<data, renames, box, inside, mover, tidy, purged, torn>>

-----------------------------------------------------------------------------
(* move_trip.                                                              *)
IsStaging(n) == n[1] \in Trips
WasAutoNamed(n) == \E k \in Names : renames[k] = n
NamedAfter(n, b) == n[1] = b /\ Len(n) <= 2

MAt(m, s) == mover[m].at = s
MGo(m, s) == mover' = [mover EXCEPT ![m].at = s]
MStop(m) == mover' = [mover EXCEPT ![m] = Still]

(* auto_rename and the checks at the head of move_trip.                    *)
MoveBegin(m, n, b) ==
    /\ MAt(m, "idle")
    /\ data[n] # None
    /\ IsStaging(n) \/ WasAutoNamed(n)
    /\ n \notin latest
    /\ ~NamedAfter(n, b)
    /\ \E to \in FirstFree(<<b>>, InData) :
         mover' = [mover EXCEPT ![m] = [at |-> "data", from |-> n, to |-> to, copy |-> None]]
    /\ Begins
    /\ UNCHANGED <<files, tidy, purged, torn>>

(* src.rename(dst); it raises when the folder is gone or the name taken.   *)
MoveData(m) ==
    /\ MAt(m, "data")
    /\ LET n == mover[m].from  to == mover[m].to IN
       IF data[n] # None /\ data[to] = None
       THEN data' = [data EXCEPT ![n] = None, ![to] = data[n]] /\ MGo(m, "out")
       ELSE UNCHANGED data /\ MStop(m)
    /\ UNCHANGED <<out, latest, renames, box, inside, tidy, purged, torn, overlap>>

(* Mutant: the undo leaves the folder under the new name as well.          *)
MoveOut_UndoCopies(m) ==
    /\ MAt(m, "out")
    /\ LET n == mover[m].from  to == mover[m].to IN
       \/ /\ out[n] = None
          /\ MGo(m, "read")
          /\ UNCHANGED <<data, out, latest>>
       \/ /\ out[n] # None /\ to \in latest
          /\ data' = IF data[n] = None THEN [data EXCEPT ![n] = data[to]] ELSE data
          /\ MStop(m)
          /\ UNCHANGED <<out, latest>>
       \/ /\ out[n] # None /\ to \notin latest
          /\ out' = [out EXCEPT ![n] = None, ![to] = out[n]]
          /\ latest' = IF n \in latest THEN (latest \ {n}) \cup {to} ELSE latest
          /\ MGo(m, "read")
          /\ UNCHANGED data
    /\ UNCHANGED <<renames, box, inside, tidy, purged, torn, overlap>>

(* The out/ directory follows.  Documents under the new name undo the move *)
(* of the receipts; other leftovers there are removed.                     *)
MoveOut(m) ==
    /\ MAt(m, "out")
    /\ LET n == mover[m].from  to == mover[m].to IN
       \/ /\ out[n] = None
          /\ MGo(m, "read")
          /\ UNCHANGED <<data, out, latest>>
       \/ /\ out[n] # None /\ to \in latest
          /\ data' = IF data[n] = None THEN [data EXCEPT ![n] = data[to], ![to] = None] ELSE data
          /\ MStop(m)
          /\ UNCHANGED <<out, latest>>
       \/ /\ out[n] # None /\ to \notin latest
          /\ out' = [out EXCEPT ![n] = None, ![to] = out[n]]
          /\ latest' = IF n \in latest THEN (latest \ {n}) \cup {to} ELSE latest
          /\ MGo(m, "read")
          /\ UNCHANGED data
    /\ UNCHANGED <<renames, box, inside, tidy, purged, torn, overlap>>

(* renames.json is read, and written back whole.                           *)
ReadRenames(m) ==
    /\ MAt(m, "read")
    /\ mover' = [mover EXCEPT ![m].at = "write", ![m].copy = renames]
    /\ UNCHANGED <<files, tidy, purged, torn, overlap>>

WriteRenames(m) ==
    /\ MAt(m, "write")
    /\ renames' = [mover[m].copy EXCEPT ![mover[m].from] = mover[m].to]
    /\ MStop(m)
    /\ UNCHANGED <<data, out, latest, box, inside, tidy, purged, torn, overlap>>

-----------------------------------------------------------------------------
(* The trash: one operation at a time, under out_lock.                     *)
TAt(s) == tidy.at = s
TGo(s) == tidy' = [tidy EXCEPT !.at = s]
TStop == tidy' = NoTidy
Take(s, i, n) == Unlocked /\ tidy' = [at |-> s, box |-> i, name |-> n] /\ Begins

(* trash_trip: a box of its own, the receipts, the out/ directory, and     *)
(* last the description that makes the entry visible.                      *)
TrashBegin(n, i) ==
    /\ data[n] # None
    /\ ~box[i].made /\ box[i].out = None
    /\ Take("trash", i, n)
    /\ box' = [box EXCEPT ![i].made = TRUE]
    /\ UNCHANGED <<data, out, latest, renames, inside, mover, purged, torn>>

(* Mutant: the folder is taken away before the box has it.                 *)
TrashData_Deletes ==
    /\ TAt("trash")
    /\ data' = [data EXCEPT ![tidy.name] = None]
    /\ TGo("trashout")
    /\ UNCHANGED <<box, out, latest, renames, inside, mover, purged, torn, overlap>>

TrashData ==
    /\ TAt("trash")
    /\ IF data[tidy.name] = None
       THEN UNCHANGED <<data, box>> /\ TStop
       ELSE /\ box' = [box EXCEPT ![tidy.box].data = data[tidy.name]]
            /\ data' = [data EXCEPT ![tidy.name] = None]
            /\ TGo("trashout")
    /\ UNCHANGED <<out, latest, renames, inside, mover, purged, torn, overlap>>

(* Mutant: the out/ directory is left where it was.                        *)
TrashOut_Forgotten ==
    /\ TAt("trashout")
    /\ TGo("meta")
    /\ UNCHANGED <<files, mover, purged, torn, overlap>>

TrashOut ==
    /\ TAt("trashout")
    /\ LET n == tidy.name IN
       /\ box' = [box EXCEPT ![tidy.box].out = out[n], ![tidy.box].latest = n \in latest]
       /\ out' = [out EXCEPT ![n] = None]
       /\ latest' = latest \ {n}
    /\ TGo("meta")
    /\ UNCHANGED <<data, renames, inside, mover, purged, torn, overlap>>

TrashMeta ==
    /\ TAt("meta")
    /\ box' = [box EXCEPT ![tidy.box].meta = tidy.name]
    /\ TStop
    /\ UNCHANGED <<data, out, latest, renames, inside, mover, purged, torn, overlap>>

(* restore_trip: the first name free in data/ and in out/.                 *)
RestoreBegin(i) ==
    /\ box[i].meta # None /\ box[i].data # None
    /\ \E target \in FirstFree(box[i].meta, InData \cup InOut) : Take("restore", i, target)
    /\ UNCHANGED <<files, mover, purged, torn>>

(* shutil.move: into the folder that a rename has made there meanwhile, if *)
(* one has.                                                                *)
Into(x, host) == [y \in Trips |-> IF y = x \/ inside[y] = x THEN host ELSE inside[y]]

(* Mutant: a folder that is in the way is replaced.                        *)
RestoreData_Over ==
    /\ TAt("restore")
    /\ data' = [data EXCEPT ![tidy.name] = box[tidy.box].data]
    /\ box' = [box EXCEPT ![tidy.box].data = None]
    /\ TGo("restoreout")
    /\ UNCHANGED <<inside, out, latest, renames, mover, purged, torn, overlap>>

RestoreData ==
    /\ TAt("restore")
    /\ LET x == box[tidy.box].data  n == tidy.name IN
       IF data[n] = None
       THEN data' = [data EXCEPT ![n] = x] /\ UNCHANGED inside
       ELSE inside' = Into(x, data[n]) /\ UNCHANGED data
    /\ box' = [box EXCEPT ![tidy.box].data = None]
    /\ TGo("restoreout")
    /\ UNCHANGED <<out, latest, renames, mover, purged, torn, overlap>>

(* The documents of the trip; beside those of the other trip when it was   *)
(* put into the folder of one (then no page finds them).                   *)
RestoreOut ==
    /\ TAt("restoreout")
    /\ LET b == box[tidy.box]  n == tidy.name IN
       IF b.out # None /\ out[n] = None
       THEN /\ out' = [out EXCEPT ![n] = b.out]
            /\ latest' = IF b.latest THEN latest \cup {n} ELSE latest
       ELSE UNCHANGED <<out, latest>>
    /\ box' = [box EXCEPT ![tidy.box].out = None, ![tidy.box].latest = FALSE]
    /\ TGo("clean")
    /\ UNCHANGED <<data, renames, inside, mover, purged, torn, overlap>>

(* Mutant: the box is not removed after the restore.                       *)
RestoreClean_LeavesBox ==
    /\ TAt("clean")
    /\ TStop
    /\ UNCHANGED <<files, mover, purged, torn, overlap>>

RestoreClean ==
    /\ TAt("clean")
    /\ box' = [box EXCEPT ![tidy.box] = NoBox]
    /\ TStop
    /\ UNCHANGED <<data, out, latest, renames, inside, mover, purged, torn, overlap>>

(* purge_trash: the receipts, then the out/ directory.                     *)
PurgeBegin(i) ==
    /\ box[i].made \/ box[i].out # None
    /\ Take("purge", i, None)
    /\ UNCHANGED <<files, mover, purged, torn>>

PurgeData ==
    /\ TAt("purge")
    /\ LET b == box[tidy.box] IN
       /\ purged' = purged \cup {x \in Trips : b.data # None /\ b.data \in {x, inside[x]}}
       /\ box' = [box EXCEPT ![tidy.box] = [NoBox EXCEPT !.out = b.out, !.latest = b.latest]]
    /\ TGo("purgeout")
    /\ UNCHANGED <<data, out, latest, renames, inside, mover, torn, overlap>>

PurgeOut ==
    /\ TAt("purgeout")
    /\ box' = [box EXCEPT ![tidy.box] = NoBox]
    /\ TStop
    /\ UNCHANGED <<data, out, latest, renames, inside, mover, purged, torn, overlap>>

-----------------------------------------------------------------------------
(* The process dies and is started again: the operations under way are     *)
(* forgotten, out_lock is free, and a renames.json that was being written  *)
(* may be cut short, which _read_renames reads as no renames at all.       *)
Crash ==
    /\ ~Quiet
    /\ mover' = [m \in Movers |-> Still]
    /\ tidy' = NoTidy
    /\ torn' = TRUE
    /\ renames' \in {renames} \cup (IF \E m \in Movers : MAt(m, "write") THEN {NoRenames} ELSE {})
    /\ UNCHANGED <<data, out, latest, box, inside, purged, overlap>>

MoverNext(m) ==
    \/ \E n \in Names, b \in Bases : MoveBegin(m, n, b)
    \/ MoveData(m) \/ MoveOut(m) \/ ReadRenames(m) \/ WriteRenames(m)

TidyNext ==
    \/ \E i \in Boxes : RestoreBegin(i) \/ PurgeBegin(i) \/ \E n \in Names : TrashBegin(n, i)
    \/ TrashData \/ TrashOut \/ TrashMeta
    \/ RestoreData \/ RestoreOut \/ RestoreClean
    \/ PurgeData \/ PurgeOut

Next ==
    \/ \E x \in Trips : Create(x)
    \/ \E n \in Names, docs \in BOOLEAN : WriteOut(n, docs)
    \/ \E m \in Movers : MoverNext(m)
    \/ TidyNext
    \/ Crash

Spec == Init /\ [][Next]_vars

-----------------------------------------------------------------------------
(* resolve_moved follows renames.json from an address until it ends or     *)
(* comes to an address it has followed before.                             *)
ResolveMoved(n) ==
    LET last == Cardinality(Names)
        Hop[k \in 0..last] ==
            IF k = 0 THEN n
            ELSE LET cur == Hop[k - 1] IN
                 IF renames[cur] = None \/ \E i \in 0..(k - 2) : Hop[i] = cur
                 THEN cur ELSE renames[cur]
    IN Hop[last]

(* Seen from far, the receipts of a trip are nowhere, in a folder of their *)
(* own or of another trip, in the trash likewise, or gone.                 *)
Holds(c, x) == c # None /\ c \in {x, inside[x]}
InFolders(x) == \E n \in Names : Holds(data[n], x)
InBoxes(x) == \E i \in Boxes : Holds(box[i].data, x)

Place == [x \in Trips |->
    IF InFolders(x) THEN "kept" ELSE IF InBoxes(x) THEN "trash" ELSE IF x \in purged THEN "gone" ELSE "nowhere"]

Store == INSTANCE TripStore WITH place <- Place

(* Whatever renames, trash operations and crashes come together, every     *)
(* file operation is a step of a trip from one place to the next, or none: *)
(* receipts leave the folders for the trash only, whole, and are destroyed *)
(* only there (trash_trip, restore_trip, purge_trash, move_trip).          *)
ImplementsStore == Store!StoreSpec

(* Receipts are never lost but by a purge, and a purge takes no receipts   *)
(* but those in the trash box: whatever a rename, a restore or a crash     *)
(* overwrites or removes on the way (move_trip, restore_trip).             *)
OnlyPurgeDestroys ==
    [][\A x \in Trips : Exists(x) =>
         \/ Exists(x)'
         \/ TAt("purge") /\ box[tidy.box].data \in {x, inside[x]}]_vars

(* The receipts of a trip are in one place.                                *)
OnePlace ==
    /\ \A m, n \in Names : data[m] = data[n] /\ data[m] # None => m = n
    /\ \A i, k \in Boxes : box[i].data = box[k].data /\ box[i].data # None => i = k
    /\ \A n \in Names, i \in Boxes : data[n] = box[i].data => data[n] = None
    /\ \A x \in Trips : inside[x] # None => x \notin Kept

(* Operations that do not overlap and that no crash cuts short leave the   *)
(* documents of a trip with its receipts, in data/ and in the trash.       *)
DocumentsStayWithReceipts ==
    Quiet /\ ~torn /\ ~overlap =>
        /\ \A n \in Names : out[n] \in {None, data[n]}
        /\ \A i \in Boxes : box[i].out \in {None, box[i].data}

(* Without a crash, a trip in the trash is on its list and can be restored *)
(* from it, and the list shows nothing else, whatever renames go on beside *)
(* (trash.json is written last and removed last).                          *)
TrashIsRestorable ==
    ~torn => \A i \in Boxes : tidy.box # i => (box[i].meta # None <=> box[i].data # None)

(* Finding: when a rename is done, the old address leads to the new one.   *)
OldAddressLeadsToNew ==
    [][\A m \in Movers, n, to \in Names :
         WriteRenames(m) /\ mover[m].from = n /\ mover[m].to = to => ResolveMoved(n)' = to]_vars
=============================================================================
