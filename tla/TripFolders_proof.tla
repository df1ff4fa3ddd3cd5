-------------------------- MODULE TripFolders_proof --------------------------
(***************************************************************************)
(* Proofs about the folders of the trips, for any numbers of trips, names, *)
(* threads and trash boxes: whatever renames, trash operations and crashes *)
(* come together, receipts are in one place and only a purge takes them    *)
(* away, and without a crash the trash can be restored from.               *)
(***************************************************************************)
EXTENDS TripFolders, TLAPS

(* What is under way: each operation has what it works on, and the box of  *)
(* the trash operation holds what its progress says.                       *)
MoverInv ==
    \A m \in Movers :
        /\ mover[m].at # "idle" => {mover[m].from, mover[m].to} \subseteq Names /\ mover[m].to[1] \in Bases
        /\ mover[m].at = "write" => mover[m].copy \in Renames

Box == box[tidy.box]

TidyInv ==
    /\ tidy.at = "idle" => tidy = NoTidy
    /\ tidy.at # "idle" => tidy.box \in Boxes
    /\ tidy.at \notin {"idle", "purge", "purgeout"} => tidy.name \in Names
    /\ \A i \in Boxes : ~box[i].made => box[i].data = None /\ box[i].meta = None
    /\ tidy.at = "trash" => Box.made /\ Box.data = None /\ Box.meta = None
    /\ tidy.at \in {"trashout", "meta"} => Box.made /\ Box.data # None /\ Box.meta = None
    /\ tidy.at = "restore" => Box.data # None
    /\ tidy.at \in {"restoreout", "clean"} => Box.data = None
    /\ tidy.at = "purgeout" => Box.data = None /\ Box.meta = None

(* A trip that is inside another's folder is there as long as that folder. *)
Hosted == \A x \in Trips : inside[x] # None => inside[x] \in Kept \/ x \in purged

(* The staging name of a trip comes into use with the trip.                *)
Started(x) == Exists(x) \/ x \in purged
UsedNames == InData \cup {box[i].meta : i \in Boxes} \cup {tidy.name} \cup {mover[m].from : m \in Movers}
NamesStarted == \A x \in Trips : <<x>> \in UsedNames => Started(x)

FoldersInv == TypeOK /\ MoverInv /\ TidyInv /\ OnePlace /\ Hosted /\ NamesStarted /\ TrashIsRestorable

-----------------------------------------------------------------------------
(* The names: FirstFree finds a name that is not taken, with the root of   *)
(* the name it was asked for; only that name itself can be a staging name. *)
LEMMA NameKinds == ASSUME NEW n \in Names, NEW i \in Suffixes
                   PROVE  Append(n, i)[1] = n[1] /\ \A x \in Trips : Append(n, i) # <<x>>
<1> DEFINE S == Roots \cup Suffixes
<1>1. n \in Seq(S) /\ Len(n) >= 1
  <2>1. ASSUME NEW r \in Roots, n = <<r>> PROVE <1>1
    BY <2>1
  <2>2. ASSUME NEW r \in Roots, NEW j \in Suffixes, n = <<r, j>> PROVE <1>1
    BY <2>2
  <2>3. ASSUME NEW r \in Roots, NEW j \in Suffixes, NEW k \in Suffixes, n = <<r, j, k>> PROVE <1>1
    BY <2>3
  <2>4. QED
    BY <2>1, <2>2, <2>3 DEF Names
<1>2. i \in S
  OBVIOUS
<1> HIDE DEF S
<1>3. Append(n, i)[1] = n[1] /\ Len(Append(n, i)) = Len(n) + 1
  BY <1>1, <1>2
<1>4. \A x : Len(<<x>>) = 1
  OBVIOUS
<1>5. Len(Append(n, i)) # 1
  BY <1>1, <1>3
<1>6. QED
  BY <1>3, <1>4, <1>5

LEMMA FreeNames ==
    ASSUME NEW n \in Names, NEW T, NEW t \in FirstFree(n, T)
    PROVE  t \in Names \ T /\ t[1] = n[1] /\ (t = n \/ \A x \in Trips : t # <<x>>)
<1>1. PICK i \in 1..MaxSuffix : t = (IF i = 1 THEN n ELSE Append(n, i)) /\ t \in Names \ T
  BY DEF FirstFree
<1>2. i # 1 => i \in Suffixes
  BY FolderAssumptions DEF Suffixes
<1>3. QED
  BY <1>1, <1>2, NameKinds

LEMMA RootNames == /\ \A r \in Roots : <<r>> \in Names /\ <<r>>[1] = r
                   /\ \A x \in Trips : x \notin Bases
BY FolderAssumptions DEF Names, Roots

-----------------------------------------------------------------------------
(* Types.                                                                  *)
BoxRecord == [made : BOOLEAN, data : Trips \cup {None}, meta : Names \cup {None},
              out : Trips \cup {None}, latest : BOOLEAN]

MoveRecord == [at : {"idle", "data", "out", "read", "write"}, from : Names \cup {None},
               to : Names \cup {None}, copy : Renames \cup {None}]

LEMMA TypeInit == Init => TypeOK
<1> SUFFICES ASSUME Init PROVE TypeOK
  OBVIOUS
<1>1. NoRenames \in Renames
  BY DEF NoRenames, Renames
<1>2. NoBox \in BoxRecord
  BY Zenon DEF NoBox, BoxRecord
<1>3. Still \in MoveRecord
  BY DEF Still, MoveRecord
<1>4. box \in [Boxes -> BoxRecord] /\ mover \in [Movers -> MoveRecord]
  BY <1>2, <1>3 DEF Init
<1>5. QED
  BY <1>1, <1>4 DEF Init, TypeOK, NoTidy, BoxRecord, MoveRecord

LEMMA BoxUpdates ==
    ASSUME TypeOK, NEW i \in Boxes, NEW x \in Trips \cup {None}, NEW n \in Names \cup {None}, NEW l \in BOOLEAN
    PROVE  {[box EXCEPT ![i] = NoBox], [box EXCEPT ![i].made = TRUE], [box EXCEPT ![i].data = x],
            [box EXCEPT ![i].meta = n], [box EXCEPT ![i].out = x, ![i].latest = l],
            [box EXCEPT ![i] = [NoBox EXCEPT !.out = x, !.latest = l]]} \subseteq [Boxes -> BoxRecord]
<1>0. box \in [Boxes -> BoxRecord]
  BY DEF TypeOK, BoxRecord
<1>1. \A b \in BoxRecord : [box EXCEPT ![i] = b] \in [Boxes -> BoxRecord]
  BY <1>0
<1>2. NoBox \in BoxRecord
  BY Zenon DEF NoBox, BoxRecord
<1>3. \A b \in BoxRecord : [b EXCEPT !.out = x, !.latest = l] \in BoxRecord
  BY Zenon DEF BoxRecord
<1>4. [box[i] EXCEPT !.made = TRUE] \in BoxRecord
  BY <1>0, Zenon DEF BoxRecord
<1>5. [box[i] EXCEPT !.data = x] \in BoxRecord
  BY <1>0 DEF BoxRecord
<1>6. [box[i] EXCEPT !.meta = n] \in BoxRecord
  BY <1>0 DEF BoxRecord
<1>7. [box[i] EXCEPT !.out = x, !.latest = l] \in BoxRecord
  BY <1>0, <1>3
<1>8. [NoBox EXCEPT !.out = x, !.latest = l] \in BoxRecord
  BY <1>2, <1>3
<1>9. [box EXCEPT ![i].out = x, ![i].latest = l] = [box EXCEPT ![i] = [box[i] EXCEPT !.out = x, !.latest = l]]
  BY <1>0
<1>10. QED
  BY <1>1, <1>2, <1>4, <1>5, <1>6, <1>7, <1>8, <1>9

LEMMA MoverUpdates ==
    ASSUME TypeOK, NEW m \in Movers
    PROVE  /\ [mover EXCEPT ![m] = Still] \in [Movers -> MoveRecord]
           /\ \A s \in {"out", "read"} : [mover EXCEPT ![m].at = s] \in [Movers -> MoveRecord]
           /\ [mover EXCEPT ![m].at = "write", ![m].copy = renames] \in [Movers -> MoveRecord]
<1>1. mover \in [Movers -> MoveRecord] /\ renames \in Renames
  BY DEF TypeOK, MoveRecord
<1>2. \A r \in MoveRecord : [mover EXCEPT ![m] = r] \in [Movers -> MoveRecord]
  BY <1>1
<1>3. Still \in MoveRecord
  BY DEF Still, MoveRecord
<1>4. \A s \in {"out", "read"} : [mover[m] EXCEPT !.at = s] \in MoveRecord
  BY <1>1 DEF MoveRecord
<1>5. [mover[m] EXCEPT !.at = "write", !.copy = renames] \in MoveRecord
  BY <1>1 DEF MoveRecord
<1>6. [mover EXCEPT ![m].at = "write", ![m].copy = renames]
        = [mover EXCEPT ![m] = [mover[m] EXCEPT !.at = "write", !.copy = renames]]
  BY <1>1
<1>7. QED
  BY <1>2, <1>3, <1>4, <1>5, <1>6

LEMMA MoveTypes ==
    ASSUME TypeOK, MoverInv, NEW m \in Movers, MoverNext(m)
    PROVE  TypeOK'
<1>1. ASSUME NEW n \in Names, NEW b \in Bases, MoveBegin(m, n, b) PROVE TypeOK'
  <2>1. mover' \in [Movers -> MoveRecord]
    BY <1>1, FreeNames, RootNames DEF MoveBegin, TypeOK, MoveRecord, Roots
  <2>2. QED
    BY <1>1, <2>1 DEF MoveBegin, TypeOK, MoveRecord, files, Begins
<1>2. CASE MoveData(m)
  <2>1. mover' \in [Movers -> MoveRecord]
    BY <1>2, MoverUpdates DEF MoveData, MGo, MStop
  <2>2. data' \in [Names -> Trips \cup {None}]
    BY <1>2 DEF MoveData, MAt, MoverInv, TypeOK
  <2>3. QED
    BY <1>2, <2>1, <2>2 DEF MoveData, TypeOK, MoveRecord
<1>3. CASE MoveOut(m)
  <2>1. mover' \in [Movers -> MoveRecord]
    <3>1. mover' \in {[mover EXCEPT ![m] = Still], [mover EXCEPT ![m].at = "read"]}
      BY <1>3 DEF MoveOut, MGo, MStop
    <3>2. QED
      BY <3>1, MoverUpdates
  <2>2. /\ data' \in [Names -> Trips \cup {None}]
        /\ out' \in [Names -> Trips \cup {None}]
        /\ latest' \subseteq {n \in Names : out'[n] # None}
    BY <1>3 DEF MoveOut, MAt, MoverInv, TypeOK
  <2>3. QED
    BY <1>3, <2>1, <2>2 DEF MoveOut, TypeOK, MoveRecord
<1>4. CASE ReadRenames(m)
  <2>1. mover' \in [Movers -> MoveRecord]
    BY <1>4, MoverUpdates DEF ReadRenames
  <2>2. QED
    BY <1>4, <2>1 DEF ReadRenames, TypeOK, MoveRecord, files
<1>5. CASE WriteRenames(m)
  <2>1. mover' \in [Movers -> MoveRecord]
    BY <1>5 DEF WriteRenames, MStop, Still, TypeOK, MoveRecord
  <2>2. renames' \in Renames
    BY <1>5 DEF WriteRenames, MAt, MoverInv, TypeOK, Renames
  <2>3. QED
    BY <1>5, <2>1, <2>2 DEF WriteRenames, TypeOK, MoveRecord
<1>6. QED
  BY <1>1, <1>2, <1>3, <1>4, <1>5 DEF MoverNext

LEMMA TidyTypes ==
    ASSUME TypeOK, TidyInv, TidyNext
    PROVE  TypeOK'
<1> DEFINE TidyRecord == [at : {"idle", "trash", "trashout", "meta", "restore", "restoreout", "clean", "purge", "purgeout"},
                          box : Boxes \cup {None}, name : Names \cup {None}]
<1>1. ASSUME NEW i \in Boxes, RestoreBegin(i) PROVE TypeOK'
  <2>1. box[i].meta \in Names
    BY <1>1 DEF RestoreBegin, TypeOK
  <2>2. tidy' \in TidyRecord
    BY <1>1, <2>1, FreeNames DEF RestoreBegin, Take, TypeOK
  <2>3. QED
    BY <1>1, <2>2 DEF RestoreBegin, Take, Begins, TypeOK, files
<1>2. ASSUME NEW i \in Boxes, PurgeBegin(i) PROVE TypeOK'
  <2>1. tidy' \in TidyRecord
    BY <1>2 DEF PurgeBegin, Take, TypeOK
  <2>2. QED
    BY <1>2, <2>1 DEF PurgeBegin, Take, Begins, TypeOK, files
<1>3. ASSUME NEW i \in Boxes, NEW n \in Names, TrashBegin(n, i) PROVE TypeOK'
  <2>1. tidy' \in TidyRecord
    BY <1>3 DEF TrashBegin, Take, TypeOK
  <2>2. box' \in [Boxes -> BoxRecord]
    BY <1>3, BoxUpdates DEF TrashBegin
  <2>3. QED
    BY <1>3, <2>1, <2>2 DEF TrashBegin, Take, Begins, TypeOK, BoxRecord
<1>4. CASE TrashData
  <2>1. tidy' \in TidyRecord
    BY <1>4 DEF TrashData, TGo, TStop, NoTidy, TypeOK
  <2>2. tidy.box \in Boxes /\ tidy.name \in Names
    BY <1>4 DEF TrashData, TAt, TidyInv
  <2>3. box \in [Boxes -> BoxRecord] /\ data[tidy.name] \in Trips \cup {None}
    BY <2>2 DEF TypeOK, BoxRecord
  <2>4. box' \in [Boxes -> BoxRecord]
    <3>1. [box EXCEPT ![tidy.box].data = data[tidy.name]] \in [Boxes -> BoxRecord]
      BY <2>2, <2>3, BoxUpdates
    <3>2. QED
      BY <1>4, <2>3, <3>1 DEF TrashData
  <2>5. data' \in [Names -> Trips \cup {None}]
    BY <1>4, <2>2 DEF TrashData, TypeOK
  <2>6. QED
    BY <1>4, <2>1, <2>4, <2>5 DEF TrashData, TypeOK, BoxRecord
<1>5. CASE TrashOut
  <2>1. tidy' \in TidyRecord
    BY <1>5 DEF TrashOut, TGo, TypeOK
  <2>2. tidy.box \in Boxes /\ tidy.name \in Names
    BY <1>5 DEF TrashOut, TAt, TidyInv
  <2>3. box' \in [Boxes -> BoxRecord]
    <3>1. out[tidy.name] \in Trips \cup {None} /\ (tidy.name \in latest) \in BOOLEAN
      BY <2>2 DEF TypeOK
    <3>2. QED
      BY <1>5, <2>2, <3>1, BoxUpdates DEF TrashOut
  <2>4. out' \in [Names -> Trips \cup {None}] /\ latest' \subseteq {n \in Names : out'[n] # None}
    BY <1>5, <2>2 DEF TrashOut, TypeOK
  <2>5. QED
    BY <1>5, <2>1, <2>3, <2>4 DEF TrashOut, TypeOK, BoxRecord
<1>6. CASE TrashMeta
  <2>1. tidy.box \in Boxes /\ tidy.name \in Names
    BY <1>6 DEF TrashMeta, TAt, TidyInv
  <2>2. box' \in [Boxes -> BoxRecord]
    BY <1>6, <2>1, BoxUpdates DEF TrashMeta
  <2>3. QED
    BY <1>6, <2>2 DEF TrashMeta, TStop, NoTidy, TypeOK, BoxRecord
<1>7. CASE RestoreData
  <2>1. tidy' \in TidyRecord
    BY <1>7 DEF RestoreData, TGo, TypeOK
  <2>2. tidy.box \in Boxes /\ tidy.name \in Names
    BY <1>7 DEF RestoreData, TAt, TidyInv
  <2>3. box' \in [Boxes -> BoxRecord] /\ data' \in [Names -> Trips \cup {None}]
    BY <1>7, <2>2 DEF RestoreData, TypeOK, BoxRecord
  <2>4. inside' \in [Trips -> Trips \cup {None}]
    BY <1>7, <2>2 DEF RestoreData, Into, TypeOK
  <2>5. QED
    BY <1>7, <2>1, <2>3, <2>4 DEF RestoreData, TypeOK, BoxRecord
<1>8. CASE RestoreOut
  <2>1. tidy' \in TidyRecord
    BY <1>8 DEF RestoreOut, TGo, TypeOK
  <2>2. tidy.box \in Boxes /\ tidy.name \in Names
    BY <1>8 DEF RestoreOut, TAt, TidyInv
  <2>3. box' \in [Boxes -> BoxRecord]
    BY <1>8, <2>2, BoxUpdates DEF RestoreOut
  <2>4. out' \in [Names -> Trips \cup {None}] /\ latest' \subseteq {n \in Names : out'[n] # None}
    <3>1. Box.out \in Trips \cup {None}
      BY <2>2 DEF TypeOK, Box
    <3>2. QED
      BY <1>8, <2>2, <3>1 DEF RestoreOut, TypeOK, Box
  <2>5. QED
    BY <1>8, <2>1, <2>3, <2>4 DEF RestoreOut, TypeOK, BoxRecord
<1>9. CASE RestoreClean \/ PurgeOut
  <2>1. box' \in [Boxes -> BoxRecord]
    <3>1. tidy.box \in Boxes
      BY <1>9 DEF RestoreClean, PurgeOut, TAt, TidyInv
    <3>2. [box EXCEPT ![tidy.box] = NoBox] \in [Boxes -> BoxRecord]
      BY <3>1, BoxUpdates
    <3>3. QED
      BY <1>9, <3>2 DEF RestoreClean, PurgeOut
  <2>2. QED
    BY <1>9, <2>1 DEF RestoreClean, PurgeOut, TStop, NoTidy, TypeOK, BoxRecord
<1>10. CASE PurgeData
  <2>1. tidy' \in TidyRecord
    BY <1>10 DEF PurgeData, TGo, TypeOK
  <2>2. box' \in [Boxes -> BoxRecord]
    BY <1>10 DEF PurgeData, NoBox, TypeOK, BoxRecord
  <2>3. QED
    BY <1>10, <2>1, <2>2 DEF PurgeData, TypeOK, BoxRecord
<1>11. QED
  BY <1>1, <1>2, <1>3, <1>4, <1>5, <1>6, <1>7, <1>8, <1>9, <1>10 DEF TidyNext

LEMMA TypeNext ==
    ASSUME TypeOK, MoverInv, TidyInv, [Next]_vars
    PROVE  TypeOK'
<1>1. ASSUME NEW x \in Trips, Create(x) PROVE TypeOK'
  BY <1>1, RootNames DEF Create, TypeOK, Roots
<1>2. ASSUME NEW n \in Names, NEW docs \in BOOLEAN, WriteOut(n, docs) PROVE TypeOK'
  BY <1>2 DEF WriteOut, Begins, TypeOK
<1>3. CASE Crash
  BY <1>3 DEF Crash, Still, NoTidy, NoRenames, Renames, TypeOK
<1>4. CASE UNCHANGED vars
  BY <1>4 DEF vars, files, TypeOK
<1>5. QED
  BY <1>1, <1>2, <1>3, <1>4, MoveTypes, TidyTypes DEF Next

-----------------------------------------------------------------------------
(* What a step may do to the receipts: nothing, or one of these.           *)
SameBoxes == \A i \in Boxes : box'[i].data = box[i].data
InBox(i, x) == \A k \in Boxes : box'[k].data = (IF k = i THEN x ELSE box[k].data)

Unmoved == UNCHANGED <<data, inside, purged>> /\ SameBoxes

Created(x) ==
    /\ ~Started(x) /\ data[<<x>>] = None
    /\ data' = [data EXCEPT ![<<x>>] = x]
    /\ UNCHANGED <<inside, purged>> /\ SameBoxes

Relocated(a, b) ==
    /\ data[a] # None /\ data[b] = None
    /\ data' = [data EXCEPT ![a] = None, ![b] = data[a]]
    /\ UNCHANGED <<inside, purged>> /\ SameBoxes

Trashed(n, i) ==
    /\ data[n] # None /\ box[i].data = None
    /\ data' = [data EXCEPT ![n] = None]
    /\ UNCHANGED <<inside, purged>> /\ InBox(i, data[n])

Restored(i, n) ==
    /\ box[i].data # None /\ data[n] = None
    /\ data' = [data EXCEPT ![n] = box[i].data]
    /\ UNCHANGED <<inside, purged>> /\ InBox(i, None)

PutInside(i, n) ==
    /\ box[i].data # None /\ data[n] # None
    /\ inside' = Into(box[i].data, data[n])
    /\ UNCHANGED <<data, purged>> /\ InBox(i, None)

PurgedBox(i) ==
    /\ purged' = purged \cup {x \in Trips : box[i].data # None /\ box[i].data \in {x, inside[x]}}
    /\ UNCHANGED <<data, inside>> /\ InBox(i, None)

Effect ==
    \/ Unmoved
    \/ \E x \in Trips : Created(x)
    \/ \E a, b \in Names : Relocated(a, b)
    \/ \E n \in Names, i \in Boxes : Trashed(n, i) \/ Restored(i, n) \/ PutInside(i, n)
    \/ tidy.box \in Boxes /\ TAt("purge") /\ PurgedBox(tidy.box)

LEMMA MoveEffect == ASSUME TypeOK, MoverInv, NEW m \in Movers, MoverNext(m) PROVE Effect
<1>1. ASSUME NEW n \in Names, NEW b \in Bases, MoveBegin(m, n, b) PROVE Unmoved
  BY <1>1 DEF MoveBegin, files, Unmoved, SameBoxes
<1>2. CASE MoveData(m)
  <2>1. mover[m].from \in Names /\ mover[m].to \in Names
    BY <1>2 DEF MoveData, MAt, MoverInv
  <2>2. Unmoved \/ Relocated(mover[m].from, mover[m].to)
    BY <1>2, <2>1 DEF MoveData, Unmoved, Relocated, SameBoxes
  <2>3. QED
    BY <2>1, <2>2 DEF Effect
<1>3. CASE MoveOut(m)
  <2> DEFINE n == mover[m].from
             to == mover[m].to
  <2>1. n \in Names /\ to \in Names
    BY <1>3 DEF MoveOut, MAt, MoverInv
  <2>2. UNCHANGED <<inside, purged>> /\ SameBoxes
    BY <1>3 DEF MoveOut, SameBoxes
  <2>3. data' = data \/ (data[n] = None /\ data' = [data EXCEPT ![n] = data[to], ![to] = None])
    BY <1>3 DEF MoveOut
  <2>4. CASE data' = data
    BY <2>2, <2>4 DEF Effect, Unmoved
  <2>5. CASE data[n] = None /\ data' = [data EXCEPT ![n] = data[to], ![to] = None]
    <3>1. CASE data[to] = None
      BY <2>1, <2>2, <2>5, <3>1 DEF Effect, Unmoved, TypeOK
    <3>2. CASE data[to] # None
      <4>1. data' = [data EXCEPT ![to] = None, ![n] = data[to]]
        BY <2>1, <2>5, <3>2 DEF TypeOK
      <4>2. Relocated(to, n)
        BY <2>2, <2>5, <3>2, <4>1 DEF Relocated
      <4>3. QED
        BY <2>1, <4>2 DEF Effect
    <3>3. QED
      BY <3>1, <3>2
  <2>6. QED
    BY <2>3, <2>4, <2>5
<1>4. CASE ReadRenames(m) \/ WriteRenames(m)
  BY <1>4 DEF ReadRenames, WriteRenames, files, Effect, Unmoved, SameBoxes
<1>5. QED
  BY <1>1, <1>2, <1>3, <1>4 DEF MoverNext, Effect

LEMMA TidyEffect == ASSUME TypeOK, TidyInv, TidyNext PROVE Effect
<1>1. ASSUME NEW i \in Boxes, RestoreBegin(i) \/ PurgeBegin(i) PROVE Unmoved
  BY <1>1 DEF RestoreBegin, PurgeBegin, files, Unmoved, SameBoxes
<1>2. ASSUME NEW i \in Boxes, NEW n \in Names, TrashBegin(n, i) PROVE Unmoved
  BY <1>2 DEF TrashBegin, Unmoved, SameBoxes, TypeOK
<1>3. CASE TrashData
  <2>1. tidy.name \in Names /\ tidy.box \in Boxes /\ box[tidy.box].data = None
    BY <1>3 DEF TrashData, TAt, TidyInv, Box
  <2>2. Unmoved \/ Trashed(tidy.name, tidy.box)
    BY <1>3, <2>1 DEF TrashData, Unmoved, Trashed, SameBoxes, InBox, TypeOK
  <2>3. QED
    BY <2>1, <2>2 DEF Effect
<1>4. CASE TrashOut \/ TrashMeta \/ RestoreOut
  <2>1. SameBoxes
    BY <1>4 DEF TrashOut, TrashMeta, RestoreOut, SameBoxes, TypeOK
  <2>2. QED
    BY <1>4, <2>1 DEF TrashOut, TrashMeta, RestoreOut, Effect, Unmoved
<1>5. CASE RestoreClean \/ PurgeOut
  <2>1. tidy.box \in Boxes /\ box[tidy.box].data = None
    BY <1>5 DEF RestoreClean, PurgeOut, TAt, TidyInv, Box
  <2>2. SameBoxes
    BY <1>5, <2>1 DEF RestoreClean, PurgeOut, SameBoxes, TypeOK, NoBox
  <2>3. QED
    BY <1>5, <2>2 DEF RestoreClean, PurgeOut, Effect, Unmoved
<1>6. CASE RestoreData
  <2>1. tidy.name \in Names /\ tidy.box \in Boxes /\ box[tidy.box].data # None
    BY <1>6 DEF RestoreData, TAt, TidyInv, Box
  <2>2. InBox(tidy.box, None)
    BY <1>6, <2>1 DEF RestoreData, InBox, TypeOK
  <2>3. Restored(tidy.box, tidy.name) \/ PutInside(tidy.box, tidy.name)
    BY <1>6, <2>1, <2>2 DEF RestoreData, Restored, PutInside
  <2>4. QED
    BY <2>1, <2>3 DEF Effect
<1>7. CASE PurgeData
  <2>1. tidy.box \in Boxes
    BY <1>7 DEF PurgeData, TAt, TidyInv
  <2>2. InBox(tidy.box, None)
    BY <1>7, <2>1 DEF PurgeData, InBox, TypeOK, NoBox
  <2>3. PurgedBox(tidy.box)
    BY <1>7, <2>2 DEF PurgeData, PurgedBox
  <2>4. QED
    BY <1>7, <2>1, <2>3 DEF PurgeData, Effect
<1>8. QED
  BY <1>1, <1>2, <1>3, <1>4, <1>5, <1>6, <1>7 DEF TidyNext, Effect

LEMMA NextEffect == ASSUME TypeOK, MoverInv, TidyInv, NamesStarted, [Next]_vars PROVE Effect
<1>1. ASSUME NEW x \in Trips, Create(x) PROVE Created(x)
  <2>1. ~Started(x)
    BY <1>1 DEF Create, Started
  <2>2. data[<<x>>] = None
    BY <2>1, RootNames DEF NamesStarted, UsedNames, InData, Roots
  <2>3. QED
    BY <1>1, <2>1, <2>2 DEF Create, Created, SameBoxes
<1>2. ASSUME NEW n \in Names, NEW docs \in BOOLEAN, WriteOut(n, docs) PROVE Unmoved
  BY <1>2 DEF WriteOut, Unmoved, SameBoxes
<1>3. CASE Crash \/ UNCHANGED vars
  BY <1>3 DEF Crash, vars, files, Effect, Unmoved, SameBoxes
<1>4. QED
  BY <1>1, <1>2, <1>3, MoveEffect, TidyEffect DEF Next, Effect

-----------------------------------------------------------------------------
(* Each of these leaves the receipts of a trip in one place, and takes no  *)
(* trip's away but a purge those of its box.                               *)
PlacesInv == OnePlace /\ Hosted

Purges(x) == TAt("purge") /\ box[tidy.box].data \in {x, inside[x]}
NothingLost == \A x \in Trips : (Exists(x) => Exists(x)' \/ Purges(x)) /\ (Started(x) => Started(x)')

LEMMA WithoutMove ==
    ASSUME TypeOK, PlacesInv, Unmoved
    PROVE  PlacesInv' /\ NothingLost
<1>1. Kept' = Kept
  BY DEF Unmoved, SameBoxes, Kept
<1>2. PlacesInv'
  BY <1>1 DEF PlacesInv, OnePlace, Hosted, Unmoved, SameBoxes
<1>3. QED
  BY <1>1, <1>2 DEF NothingLost, Started, Exists, Unmoved

LEMMA AfterCreated ==
    ASSUME TypeOK, PlacesInv, NEW x \in Trips, Created(x)
    PROVE  PlacesInv' /\ NothingLost
<1>1. <<x>> \in Names /\ x # None /\ x \notin Kept /\ x \notin purged
  BY RootNames, FolderAssumptions DEF Roots, Created, Started, Exists
<1>2. \A n \in Names : data'[n] = IF n = <<x>> THEN x ELSE data[n]
  BY <1>1 DEF Created, TypeOK
<1>3. Kept' = Kept \cup {x}
  <2>1. x \in Kept'
    BY <1>1, <1>2 DEF Kept
  <2>2. ASSUME NEW y \in Trips, y # x PROVE y \in Kept' <=> y \in Kept
    <3>1. y # None /\ data[<<x>>] = None
      BY FolderAssumptions DEF Created
    <3>2. \A n \in Names : data'[n] = y <=> data[n] = y
      BY <1>2, <2>2, <3>1
    <3>3. QED
      BY <3>2 DEF Kept, Created, SameBoxes
  <2>3. Kept \subseteq Trips /\ Kept' \subseteq Trips
    BY DEF Kept
  <2>4. QED
    BY <2>1, <2>2, <2>3
<1>4. inside[x] = None
  BY <1>1 DEF PlacesInv, Hosted, Created, Started, Exists
<1>5. OnePlace'
  BY <1>1, <1>2, <1>3, <1>4 DEF PlacesInv, OnePlace, Kept, Created, SameBoxes
<1>6. Hosted'
  BY <1>3 DEF PlacesInv, Hosted, Created
<1>7. NothingLost
  BY <1>3 DEF NothingLost, Started, Exists, Created
<1>8. QED
  BY <1>5, <1>6, <1>7 DEF PlacesInv

LEMMA AfterRelocated ==
    ASSUME TypeOK, PlacesInv, NEW a \in Names, NEW b \in Names, Relocated(a, b)
    PROVE  PlacesInv' /\ NothingLost
<1>1. \A n \in Names : data'[n] = IF n = a THEN None ELSE IF n = b THEN data[a] ELSE data[n]
  BY DEF Relocated, TypeOK
<1>2. \A x \in Trips : x # None
  BY FolderAssumptions
<1>3. Kept' = Kept
  BY <1>1, <1>2 DEF Kept, Relocated, SameBoxes
<1>4. OnePlace'
  <2>1. \A m, n \in Names : data'[m] = data'[n] /\ data'[m] # None => m = n
    BY <1>1 DEF PlacesInv, OnePlace, Relocated
  <2>2. ASSUME NEW n \in Names, NEW i \in Boxes, data'[n] = box'[i].data PROVE data'[n] = None
    <3>1. box'[i].data = box[i].data
      BY DEF Relocated, SameBoxes
    <3>2. \A k \in Names : data[k] = box[i].data => data[k] = None
      BY DEF PlacesInv, OnePlace
    <3>3. QED
      BY <1>1, <2>2, <3>1, <3>2
  <2>3. QED
    BY <1>3, <2>1, <2>2 DEF PlacesInv, OnePlace, Relocated, SameBoxes
<1>5. QED
  BY <1>3, <1>4 DEF PlacesInv, Hosted, NothingLost, Started, Exists, Relocated

LEMMA AfterTrashed ==
    ASSUME TypeOK, PlacesInv, NEW n \in Names, NEW i \in Boxes, Trashed(n, i)
    PROVE  PlacesInv' /\ NothingLost
<1>1. \A k \in Names : data'[k] = IF k = n THEN None ELSE data[k]
  BY DEF Trashed, TypeOK
<1>2. \A x \in Trips : x # None
  BY FolderAssumptions
<1>3. Kept' = Kept
  BY <1>1, <1>2 DEF Kept, Trashed, InBox
<1>4. OnePlace'
  BY <1>1, <1>3 DEF PlacesInv, OnePlace, Trashed, InBox
<1>5. QED
  BY <1>3, <1>4 DEF PlacesInv, Hosted, NothingLost, Started, Exists, Trashed

LEMMA AfterRestored ==
    ASSUME TypeOK, PlacesInv, NEW n \in Names, NEW i \in Boxes, Restored(i, n)
    PROVE  PlacesInv' /\ NothingLost
<1>1. \A k \in Names : data'[k] = IF k = n THEN box[i].data ELSE data[k]
  BY DEF Restored, TypeOK
<1>2. \A x \in Trips : x # None
  BY FolderAssumptions
<1>3. Kept' = Kept
  BY <1>1, <1>2 DEF Kept, Restored, InBox
<1>4. OnePlace'
  BY <1>1, <1>3 DEF PlacesInv, OnePlace, Restored, InBox
<1>5. QED
  BY <1>3, <1>4 DEF PlacesInv, Hosted, NothingLost, Started, Exists, Restored

LEMMA AfterPutInside ==
    ASSUME TypeOK, PlacesInv, NEW n \in Names, NEW i \in Boxes, PutInside(i, n)
    PROVE  PlacesInv' /\ NothingLost
<1> DEFINE x == box[i].data
           host == data[n]
<1>1. x \in Trips /\ host \in Trips /\ x # host /\ x # None /\ host # None
  BY DEF PutInside, TypeOK, PlacesInv, OnePlace
<1>2. Kept' = Kept \ {x} /\ host \in Kept /\ x \in Kept
  <2>1. host \in Kept /\ x \in Kept
    BY <1>1 DEF Kept
  <2>2. x \notin Kept'
    BY <1>1 DEF Kept, PutInside, InBox, PlacesInv, OnePlace
  <2>3. ASSUME NEW y \in Trips, y # x PROVE y \in Kept' <=> y \in Kept
    BY <2>3, FolderAssumptions DEF Kept, PutInside, InBox
  <2>4. QED
    BY <2>1, <2>2, <2>3 DEF Kept
<1>3. \A y \in Trips : inside'[y] = IF y = x \/ inside[y] = x THEN host ELSE inside[y]
  BY DEF PutInside, Into
<1>4. OnePlace'
  <2>1. \A y \in Trips : inside'[y] # None => y \notin Kept'
    BY <1>1, <1>2, <1>3 DEF PlacesInv, OnePlace
  <2>2. QED
    BY <2>1 DEF PlacesInv, OnePlace, PutInside, InBox
<1>5. Hosted'
  BY <1>1, <1>2, <1>3 DEF PlacesInv, Hosted, PutInside
<1>6. NothingLost
  BY <1>1, <1>2, <1>3 DEF NothingLost, Started, Exists, PutInside
<1>7. QED
  BY <1>4, <1>5, <1>6 DEF PlacesInv

LEMMA AfterPurge ==
    ASSUME TypeOK, PlacesInv, tidy.box \in Boxes, TAt("purge"), PurgedBox(tidy.box)
    PROVE  PlacesInv' /\ NothingLost
<1> DEFINE x == box[tidy.box].data
<1>1. Kept' = Kept \ {x}
  BY FolderAssumptions DEF Kept, PurgedBox, InBox, PlacesInv, OnePlace
<1>2. OnePlace'
  BY <1>1 DEF PlacesInv, OnePlace, PurgedBox, InBox
<1>3. x = None => Kept' = Kept
  BY <1>1, FolderAssumptions DEF Kept
<1>4. \A y \in Trips : x # None /\ x \in {y, inside[y]} => y \in purged'
  BY DEF PurgedBox
<1>5. Hosted'
  BY <1>1, <1>3, <1>4 DEF PlacesInv, Hosted, PurgedBox
<1>6. NothingLost
  BY <1>1, <1>3, <1>4 DEF NothingLost, Started, Exists, PurgedBox, Purges
<1>7. QED
  BY <1>2, <1>5, <1>6 DEF PlacesInv

LEMMA AfterEffect == ASSUME TypeOK, PlacesInv, Effect PROVE PlacesInv' /\ NothingLost
BY WithoutMove, AfterCreated, AfterRelocated, AfterTrashed, AfterRestored, AfterPutInside, AfterPurge DEF Effect

-----------------------------------------------------------------------------
(* The renames under way.                                                  *)
LEMMA MoverNextInv == ASSUME TypeOK, MoverInv, [Next]_vars PROVE MoverInv'
<1>1. ASSUME NEW m \in Movers, MoverNext(m) PROVE MoverInv'
  <2>1. ASSUME NEW n \in Names, NEW b \in Bases, MoveBegin(m, n, b) PROVE MoverInv'
    <3>1. PICK to \in FirstFree(<<b>>, InData) :
            mover' = [mover EXCEPT ![m] = [at |-> "data", from |-> n, to |-> to, copy |-> None]]
      BY <2>1 DEF MoveBegin
    <3>2. to \in Names /\ to[1] = b
      BY <3>1, FreeNames, RootNames DEF Roots
    <3>3. QED
      BY <3>1, <3>2 DEF MoverInv, TypeOK
  <2>2. CASE MoveData(m) \/ MoveOut(m)
    <3>1. MAt(m, "data") \/ MAt(m, "out")
      BY <2>2 DEF MoveData, MoveOut
    <3>2. mover' \in {[mover EXCEPT ![m] = Still], [mover EXCEPT ![m].at = "read"], [mover EXCEPT ![m].at = "out"]}
      BY <2>2 DEF MoveData, MoveOut, MGo, MStop
    <3>3. QED
      BY <3>1, <3>2 DEF MoverInv, TypeOK, MAt, Still
  <2>3. CASE ReadRenames(m) \/ WriteRenames(m)
    <3>1. \A k \in Movers : mover'[k] \in {mover[k], Still}
                              \/ (mover[k].at = "read" /\ mover'[k] = [mover[k] EXCEPT !.at = "write", !.copy = renames])
      BY <2>3 DEF ReadRenames, WriteRenames, MAt, MStop, TypeOK
    <3>2. ASSUME NEW k \in Movers, mover[k].at = "read", mover'[k] = [mover[k] EXCEPT !.at = "write", !.copy = renames]
          PROVE  mover'[k].from = mover[k].from /\ mover'[k].to = mover[k].to /\ mover'[k].copy \in Renames
      BY <3>2 DEF TypeOK
    <3>3. SUFFICES ASSUME NEW k \in Movers
                   PROVE  /\ mover'[k].at # "idle" => {mover'[k].from, mover'[k].to} \subseteq Names /\ mover'[k].to[1] \in Bases
                          /\ mover'[k].at = "write" => mover'[k].copy \in Renames
      BY DEF MoverInv, Renames
    <3>4. CASE mover'[k] = mover[k]
      BY <3>4 DEF MoverInv
    <3>5. CASE mover'[k] = Still
      BY <3>5 DEF Still
    <3>6. CASE mover[k].at = "read" /\ mover'[k] = [mover[k] EXCEPT !.at = "write", !.copy = renames]
      <4>1. mover[k].at # "idle"
        BY <3>6
      <4>2. {mover[k].from, mover[k].to} \subseteq Names /\ mover[k].to[1] \in Bases
        BY <4>1 DEF MoverInv
      <4>3. QED
        BY <3>2, <3>6, <4>2
    <3>7. QED
      BY <3>1, <3>4, <3>5, <3>6
  <2>4. QED
    BY <1>1, <2>1, <2>2, <2>3 DEF MoverNext
<1>2. CASE Crash
  BY <1>2 DEF Crash, MoverInv, Still
<1>3. ASSUME NEW x \in Trips, Create(x) PROVE MoverInv'
  BY <1>3 DEF Create, MoverInv
<1>4. ASSUME NEW n \in Names, NEW docs \in BOOLEAN, WriteOut(n, docs) PROVE MoverInv'
  BY <1>4 DEF WriteOut, MoverInv
<1>5. CASE TidyNext
  <2>1. UNCHANGED mover
    BY <1>5 DEF TidyNext, RestoreBegin, PurgeBegin, TrashBegin, TrashData, TrashOut, TrashMeta,
                RestoreData, RestoreOut, RestoreClean, PurgeData, PurgeOut, files
  <2>2. QED
    BY <2>1 DEF MoverInv
<1>6. CASE UNCHANGED vars
  BY <1>6 DEF vars, files, MoverInv
<1>7. QED
  BY <1>1, <1>2, <1>3, <1>4, <1>5, <1>6 DEF Next

(* The trash operation under way, and the list of the trash.               *)
BoxesInv == TidyInv /\ TrashIsRestorable

LEMMA Beside == ASSUME BoxesInv, UNCHANGED <<box, tidy, torn>> PROVE BoxesInv'
BY DEF BoxesInv, TidyInv, TrashIsRestorable, Box, NoTidy

LEMMA TidyNextInv == ASSUME TypeOK, BoxesInv, TidyNext PROVE BoxesInv'
<1>0. None \notin Boxes /\ None \notin Names
  BY FolderAssumptions
<1>1. ASSUME NEW i \in Boxes, RestoreBegin(i) PROVE BoxesInv'
  <2>1. PICK t \in FirstFree(box[i].meta, InData \cup InOut) : Take("restore", i, t)
    BY <1>1 DEF RestoreBegin
  <2>2. t \in Names
    BY <1>1, <2>1, FreeNames DEF RestoreBegin, TypeOK
  <2>3. QED
    BY <1>0, <1>1, <2>1, <2>2 DEF RestoreBegin, Take, Unlocked, files, BoxesInv, TidyInv, TrashIsRestorable, Box, NoTidy
<1>2. ASSUME NEW i \in Boxes, PurgeBegin(i) PROVE BoxesInv'
  BY <1>0, <1>2 DEF PurgeBegin, Take, Unlocked, files, BoxesInv, TidyInv, TrashIsRestorable, Box, NoTidy
<1>3. ASSUME NEW i \in Boxes, NEW n \in Names, TrashBegin(n, i) PROVE BoxesInv'
  BY <1>0, <1>3 DEF TrashBegin, Take, Unlocked, TypeOK, BoxesInv, TidyInv, TrashIsRestorable, Box, NoTidy
<1>4. CASE TrashData
  BY <1>0, <1>4 DEF TrashData, TAt, TGo, TStop, TypeOK, BoxesInv, TidyInv, TrashIsRestorable, Box, NoTidy
<1>5. CASE TrashOut
  BY <1>0, <1>5 DEF TrashOut, TAt, TGo, TypeOK, BoxesInv, TidyInv, TrashIsRestorable, Box, NoTidy
<1>6. CASE TrashMeta
  BY <1>0, <1>6 DEF TrashMeta, TAt, TStop, TypeOK, BoxesInv, TidyInv, TrashIsRestorable, Box, NoTidy
<1>7. CASE RestoreData
  BY <1>0, <1>7 DEF RestoreData, TAt, TGo, TypeOK, BoxesInv, TidyInv, TrashIsRestorable, Box, NoTidy
<1>8. CASE RestoreOut
  BY <1>0, <1>8 DEF RestoreOut, TAt, TGo, TypeOK, BoxesInv, TidyInv, TrashIsRestorable, Box, NoTidy
<1>9. CASE RestoreClean \/ PurgeOut
  <2>1. tidy.box \in Boxes /\ tidy' = NoTidy /\ torn' = torn
    BY <1>9 DEF RestoreClean, PurgeOut, TAt, TStop, BoxesInv, TidyInv
  <2>2. \A i \in Boxes : box'[i] = IF i = tidy.box THEN NoBox ELSE box[i]
    BY <1>9, <2>1 DEF RestoreClean, PurgeOut, TypeOK
  <2>3. ~NoBox.made /\ NoBox.data = None /\ NoBox.meta = None
    BY DEF NoBox
  <2>4. TidyInv'
    BY <2>1, <2>2, <2>3 DEF BoxesInv, TidyInv, Box, NoTidy
  <2>5. TrashIsRestorable'
    BY <1>0, <2>1, <2>2, <2>3 DEF BoxesInv, TrashIsRestorable, NoTidy
  <2>6. QED
    BY <2>4, <2>5 DEF BoxesInv
<1>10. CASE PurgeData
  BY <1>0, <1>10 DEF PurgeData, TAt, TGo, TypeOK, BoxesInv, TidyInv, TrashIsRestorable, Box, NoTidy, NoBox
<1>11. QED
  BY <1>1, <1>2, <1>3, <1>4, <1>5, <1>6, <1>7, <1>8, <1>9, <1>10 DEF TidyNext

LEMMA BoxesNextInv == ASSUME TypeOK, BoxesInv, [Next]_vars PROVE BoxesInv'
<1>1. CASE Crash
  BY <1>1 DEF Crash, BoxesInv, TidyInv, TrashIsRestorable, Box, NoTidy
<1>2. ASSUME NEW x \in Trips, Create(x) PROVE BoxesInv'
  BY <1>2, Beside DEF Create
<1>3. ASSUME NEW n \in Names, NEW docs \in BOOLEAN, WriteOut(n, docs) PROVE BoxesInv'
  BY <1>3, Beside DEF WriteOut
<1>4. ASSUME NEW m \in Movers, MoverNext(m) PROVE BoxesInv'
  <2>1. UNCHANGED <<box, tidy, torn>>
    BY <1>4 DEF MoverNext, MoveBegin, MoveData, MoveOut, ReadRenames, WriteRenames, files
  <2>2. QED
    BY <2>1, Beside
<1>5. CASE UNCHANGED vars
  BY <1>5, Beside DEF vars, files
<1>6. QED
  BY <1>1, <1>2, <1>3, <1>4, <1>5, TidyNextInv DEF Next

-----------------------------------------------------------------------------
(* A step brings no staging name into use but that of a trip it creates.   *)
NoNewStaging == \A x \in Trips : <<x>> \in UsedNames' => <<x>> \in UsedNames \/ Started(x)'

LEMMA StagingIsName == \A x \in Trips : <<x>> \in Names /\ <<x>> # None /\ <<x>>[1] \notin Bases
BY RootNames, FolderAssumptions DEF Roots

LEMMA NoNewStagingMoves == ASSUME TypeOK, MoverInv, NEW m \in Movers, MoverNext(m) PROVE NoNewStaging
<1>1. ASSUME NEW n \in Names, NEW b \in Bases, MoveBegin(m, n, b) PROVE NoNewStaging
  <2>1. n \in InData
    BY <1>1 DEF MoveBegin, InData
  <2>2. \A k \in Movers : mover'[k].from = mover[k].from \/ mover'[k].from = n
    BY <1>1 DEF MoveBegin, TypeOK
  <2>3. UNCHANGED <<data, box, tidy>>
    BY <1>1 DEF MoveBegin, files
  <2>4. QED
    BY <2>1, <2>2, <2>3 DEF NoNewStaging, UsedNames, InData
<1>2. CASE MoveData(m) \/ MoveOut(m) \/ ReadRenames(m) \/ WriteRenames(m)
  <2> DEFINE from == mover[m].from
             to == mover[m].to
  <2>1. from \in Names /\ to \in Names /\ to[1] \in Bases
    BY <1>2 DEF MoveData, MoveOut, ReadRenames, WriteRenames, MAt, MoverInv
  <2>2. \A k \in Movers : mover'[k].from \in {mover[k].from, None}
    <3>1. mover' \in {[mover EXCEPT ![m] = Still], [mover EXCEPT ![m].at = "out"], [mover EXCEPT ![m].at = "read"],
                       [mover EXCEPT ![m].at = "write", ![m].copy = renames]}
      BY <1>2 DEF MoveData, MoveOut, ReadRenames, WriteRenames, MGo, MStop
    <3>2. QED
      <4>1. mover \in [Movers -> MoveRecord] /\ Still.from = None
        BY DEF TypeOK, MoveRecord, Still
      <4>2. CASE mover' = [mover EXCEPT ![m] = Still]
        BY <4>1, <4>2
      <4>3. ASSUME NEW s, mover' = [mover EXCEPT ![m].at = s] PROVE \A k \in Movers : mover'[k].from = mover[k].from
        BY <4>1, <4>3 DEF MoveRecord
      <4>4. CASE mover' = [mover EXCEPT ![m].at = "write", ![m].copy = renames]
        BY <4>1, <4>4 DEF MoveRecord
      <4>5. QED
        BY <3>1, <4>2, <4>3, <4>4
  <2>3. InData' \subseteq InData \cup {from, to}
    BY <1>2, <2>1 DEF MoveData, MoveOut, ReadRenames, WriteRenames, files, InData, TypeOK
  <2>4. UNCHANGED <<box, tidy>>
    BY <1>2 DEF MoveData, MoveOut, ReadRenames, WriteRenames, files
  <2>5. QED
    BY <2>1, <2>2, <2>3, <2>4, StagingIsName DEF NoNewStaging, UsedNames
<1>3. QED
  BY <1>1, <1>2 DEF MoverNext

LEMMA NoNewStagingTidy == ASSUME TypeOK, TidyInv, TidyNext PROVE NoNewStaging
<1>1. ASSUME NEW i \in Boxes, RestoreBegin(i) PROVE NoNewStaging
  <2>1. PICK t \in FirstFree(box[i].meta, InData \cup InOut) : Take("restore", i, t)
    BY <1>1 DEF RestoreBegin
  <2>2. box[i].meta \in Names
    BY <1>1 DEF RestoreBegin, TypeOK
  <2>3. t = box[i].meta \/ \A x \in Trips : t # <<x>>
    BY <2>1, <2>2, FreeNames
  <2>4. tidy'.name = t
    BY <2>1 DEF Take
  <2>5. UNCHANGED <<data, box, mover>>
    BY <1>1 DEF RestoreBegin, files
  <2>6. QED
    BY <2>3, <2>4, <2>5 DEF NoNewStaging, UsedNames, InData
<1>2. ASSUME NEW i \in Boxes, PurgeBegin(i) PROVE NoNewStaging
  BY <1>2, StagingIsName DEF PurgeBegin, Take, files, NoNewStaging, UsedNames, InData
<1>3. ASSUME NEW i \in Boxes, NEW n \in Names, TrashBegin(n, i) PROVE NoNewStaging
  <2>1. n \in InData
    BY <1>3 DEF TrashBegin, InData
  <2>2. \A k \in Boxes : box'[k].meta = box[k].meta
    BY <1>3 DEF TrashBegin, TypeOK
  <2>3. UNCHANGED <<data, mover>> /\ tidy'.name = n
    BY <1>3 DEF TrashBegin, Take
  <2>4. QED
    BY <2>1, <2>2, <2>3 DEF NoNewStaging, UsedNames, InData
<1>4. CASE TrashData \/ TrashOut \/ TrashMeta \/ RestoreData \/ RestoreOut \/ RestoreClean \/ PurgeData \/ PurgeOut
  <2>1. UNCHANGED mover /\ tidy'.name \in {tidy.name, None}
    BY <1>4 DEF TrashData, TrashOut, TrashMeta, RestoreData, RestoreOut, RestoreClean, PurgeData, PurgeOut,
                TGo, TStop, NoTidy, TypeOK
  <2>2. \A k \in Boxes : box'[k].meta \in {box[k].meta, tidy.name, None}
    <3>1. CASE TrashData \/ TrashOut \/ TrashMeta \/ RestoreData \/ RestoreOut
      BY <3>1 DEF TrashData, TrashOut, TrashMeta, RestoreData, RestoreOut, TypeOK
    <3>2. CASE RestoreClean \/ PurgeData \/ PurgeOut
      <4>1. NoBox.meta = None /\ \A x, l : [NoBox EXCEPT !.out = x, !.latest = l].meta = None
        BY DEF NoBox
      <4>2. box \in [Boxes -> BoxRecord]
        BY DEF TypeOK, BoxRecord
      <4>3. CASE RestoreClean \/ PurgeOut
        BY <4>1, <4>2, <4>3 DEF RestoreClean, PurgeOut
      <4>4. CASE PurgeData
        <5>1. box' = [box EXCEPT ![tidy.box] = [NoBox EXCEPT !.out = box[tidy.box].out, !.latest = box[tidy.box].latest]]
          BY <4>4 DEF PurgeData
        <5>2. \A k \in Boxes : box'[k].meta = IF k = tidy.box THEN None ELSE box[k].meta
          BY <4>1, <4>2, <5>1
        <5>3. QED
          BY <5>2
      <4>5. QED
        BY <3>2, <4>3, <4>4
    <3>3. QED
      BY <1>4, <3>1, <3>2
  <2>3. InData' \subseteq InData \cup {tidy.name}
    BY <1>4 DEF TrashData, TrashOut, TrashMeta, RestoreData, RestoreOut, RestoreClean, PurgeData, PurgeOut,
                files, InData, TypeOK
  <2>4. QED
    BY <2>1, <2>2, <2>3, StagingIsName DEF NoNewStaging, UsedNames
<1>5. QED
  BY <1>1, <1>2, <1>3, <1>4 DEF TidyNext

LEMMA NoNewStagingNext == ASSUME TypeOK, MoverInv, TidyInv, [Next]_vars PROVE NoNewStaging
<1>1. ASSUME NEW x \in Trips, Create(x) PROVE NoNewStaging
  <2>1. InData' \subseteq InData \cup {<<x>>}
    BY <1>1 DEF Create, InData, TypeOK
  <2>2. Started(x)'
    BY <1>1, StagingIsName DEF Create, Started, Exists, Kept, TypeOK
  <2>3. UNCHANGED <<box, mover, tidy>>
    BY <1>1 DEF Create
  <2>4. \A y \in Trips : <<y>> = <<x>> => y = x
    OBVIOUS
  <2>5. QED
    BY <2>1, <2>2, <2>3, <2>4 DEF NoNewStaging, UsedNames
<1>2. ASSUME NEW n \in Names, NEW docs \in BOOLEAN, WriteOut(n, docs) PROVE NoNewStaging
  BY <1>2 DEF WriteOut, NoNewStaging, UsedNames, InData
<1>3. CASE Crash
  <2>1. UNCHANGED <<data, box>> /\ tidy'.name = None /\ \A m \in Movers : mover'[m].from = None
    BY <1>3 DEF Crash, NoTidy, Still
  <2>2. QED
    BY <2>1, StagingIsName DEF NoNewStaging, UsedNames, InData
<1>4. CASE UNCHANGED vars
  BY <1>4 DEF vars, files, NoNewStaging, UsedNames, InData
<1>5. QED
  BY <1>1, <1>2, <1>3, <1>4, NoNewStagingMoves, NoNewStagingTidy DEF Next

-----------------------------------------------------------------------------
LEMMA FoldersInvInit == Init => FoldersInv
<1> SUFFICES ASSUME Init PROVE FoldersInv
  OBVIOUS
<1>1. TypeOK
  BY TypeInit
<1>2. MoverInv /\ TidyInv /\ TrashIsRestorable
  BY DEF Init, MoverInv, TidyInv, TrashIsRestorable, Box, NoBox, NoTidy, Still
<1>3. OnePlace /\ Hosted
  BY DEF Init, OnePlace, Hosted, NoBox
<1>4. NamesStarted
  BY StagingIsName DEF Init, NamesStarted, UsedNames, InData, NoBox, NoTidy, Still
<1>5. QED
  BY <1>1, <1>2, <1>3, <1>4 DEF FoldersInv

LEMMA FoldersInvNext == ASSUME FoldersInv, [Next]_vars PROVE FoldersInv' /\ NothingLost
<1>1. TypeOK'
  BY TypeNext DEF FoldersInv
<1>2. MoverInv'
  BY MoverNextInv DEF FoldersInv
<1>3. TidyInv' /\ TrashIsRestorable'
  BY BoxesNextInv DEF FoldersInv, BoxesInv
<1>4. OnePlace' /\ Hosted' /\ NothingLost
  BY NextEffect, AfterEffect DEF FoldersInv, PlacesInv
<1>5. NamesStarted'
  <2>1. NoNewStaging
    BY NoNewStagingNext DEF FoldersInv
  <2>2. SUFFICES ASSUME NEW x \in Trips, <<x>> \in UsedNames' PROVE Started(x)'
    BY DEF NamesStarted
  <2>3. <<x>> \in UsedNames => Started(x)
    BY DEF FoldersInv, NamesStarted
  <2>4. QED
    BY <1>4, <2>1, <2>2, <2>3 DEF NoNewStaging, NothingLost
<1>6. QED
  BY <1>1, <1>2, <1>3, <1>4, <1>5 DEF FoldersInv

(* The inductive invariant of the folders holds whatever renames, trash    *)
(* operations and crashes come together (workspace.py).                    *)
THEOREM FoldersInvariance == Spec => []FoldersInv
BY FoldersInvInit, FoldersInvNext, PTL DEF Spec

(* The state of the folders is well typed.                                 *)
THEOREM FoldersTypes == Spec => []TypeOK
BY FoldersInvariance, PTL DEF FoldersInv

(* The receipts of a trip are in one place (move_trip, restore_trip).      *)
THEOREM ReceiptsInOnePlace == Spec => []OnePlace
BY FoldersInvariance, PTL DEF FoldersInv

(* Without a crash a trip in the trash is on its list and can be restored. *)
THEOREM TrashRestores == Spec => []TrashIsRestorable
BY FoldersInvariance, PTL DEF FoldersInv

(* Nothing but a purge of its own box takes the receipts of a trip away.   *)
THEOREM ReceiptsAreKept == Spec => OnlyPurgeDestroys
<1>1. FoldersInv /\ [Next]_vars => [\A x \in Trips : Exists(x) =>
         \/ Exists(x)'
         \/ TAt("purge") /\ box[tidy.box].data \in {x, inside[x]}]_vars
  BY FoldersInvNext DEF NothingLost, Purges
<1>2. QED
  BY <1>1, FoldersInvariance, PTL DEF Spec, OnlyPurgeDestroys

-----------------------------------------------------------------------------
(* The documents, while no two operations have been under way together and *)
(* no crash has cut one short: those of the trip an operation is moving    *)
(* are still where its receipts were, all others are with the receipts.    *)
Alone ==
    /\ tidy = NoTidy \/ \A m \in Movers : mover[m] = Still
    /\ \A m, k \in Movers : mover[m] # Still /\ mover[k] # Still => m = k

Together(n) == out[n] \in {None, data[n]}
BoxTogether(i) == box[i].out \in {None, box[i].data}

LeftByMove(m, n) == mover[m].at = "out" /\ n = mover[m].from /\ out[n] = data[mover[m].to]
LeftByTrash(n) == tidy.at = "trashout" /\ n = tidy.name /\ out[n] = Box.data
LeftInBox(i) ==
    i = tidy.box /\ (tidy.at = "purgeout" \/ (tidy.at = "restoreout" /\ box[i].out = data[tidy.name]))

MoverDocs ==
    \A m \in Movers :
        /\ mover[m].at \in {"data", "out"} => out[mover[m].to] = None
        /\ mover[m].at = "out" => data[mover[m].from] = None

TidyDocs ==
    /\ tidy.at = "trashout" => data[tidy.name] = None
    /\ tidy.at \in {"trash", "trashout"} => Box.out = None
    /\ tidy.at = "restore" => data[tidy.name] = None
    /\ tidy.at \in {"restore", "restoreout"} => out[tidy.name] = None
    /\ tidy.at = "clean" => Box.out = None

DocsInv ==
    /\ Alone /\ MoverDocs /\ TidyDocs
    /\ \A n \in Names : Together(n) \/ LeftByTrash(n) \/ \E m \in Movers : LeftByMove(m, n)
    /\ \A i \in Boxes : BoxTogether(i) \/ LeftInBox(i)

Undisturbed == ~torn /\ ~overlap
DocumentsInv == FoldersInv /\ (Undisturbed => DocsInv)

LEMMA DocsQuiet ==
    ASSUME TypeOK, FoldersInv, DocsInv, Quiet
    PROVE  (\A n \in Names : Together(n)) /\ (\A i \in Boxes : BoxTogether(i))
BY FolderAssumptions DEF DocsInv, LeftByMove, LeftByTrash, LeftInBox, Quiet, NoTidy, Still

LEMMA OnlyMover ==
    ASSUME FoldersInv, DocsInv, NEW m \in Movers, mover[m].at # "idle"
    PROVE  /\ tidy = NoTidy /\ \A k \in Movers : k # m => mover[k] = Still
           /\ \A n \in Names : Together(n) \/ LeftByMove(m, n)
           /\ \A i \in Boxes : BoxTogether(i)
<1>1. tidy = NoTidy /\ \A k \in Movers : k # m => mover[k] = Still
  BY DEF DocsInv, Alone, Still
<1>2. QED
  BY <1>1, FolderAssumptions DEF DocsInv, LeftByMove, LeftByTrash, LeftInBox, NoTidy, Still

LEMMA OnlyTidy ==
    ASSUME FoldersInv, DocsInv, tidy.at # "idle"
    PROVE  /\ \A k \in Movers : mover[k] = Still
           /\ \A n \in Names : Together(n) \/ LeftByTrash(n)
           /\ \A i \in Boxes : BoxTogether(i) \/ LeftInBox(i)
<1>1. \A k \in Movers : mover[k] = Still
  BY DEF DocsInv, Alone, NoTidy
<1>2. QED
  BY <1>1 DEF DocsInv, LeftByMove, Still

LEMMA MoveDocs ==
    ASSUME FoldersInv, FoldersInv', DocsInv, NEW m \in Movers, MoverNext(m), Undisturbed'
    PROVE  DocsInv'
<1> DEFINE from == mover[m].from
           to == mover[m].to
<1>0. TypeOK /\ TypeOK' /\ UNCHANGED <<box, tidy>>
  BY DEF FoldersInv, MoverNext, MoveBegin, MoveData, MoveOut, ReadRenames, WriteRenames, files
<1>1. ASSUME NEW n \in Names, NEW b \in Bases, MoveBegin(m, n, b) PROVE DocsInv'
  <2>1. Quiet /\ tidy = NoTidy /\ \A k \in Movers : mover[k] = Still
    BY <1>1 DEF MoveBegin, Begins, Undisturbed, Quiet
  <2>2. PICK t \in FirstFree(<<b>>, InData) :
          mover' = [mover EXCEPT ![m] = [at |-> "data", from |-> n, to |-> t, copy |-> None]]
    BY <1>1 DEF MoveBegin
  <2>3. t \in Names /\ data[t] = None
    BY <2>2, FreeNames, RootNames DEF Roots, InData
  <2>4. UNCHANGED <<data, out>>
    BY <1>1 DEF MoveBegin, files
  <2>5. (\A k \in Names : Together(k)) /\ (\A i \in Boxes : BoxTogether(i))
    BY <1>0, <2>1, DocsQuiet
  <2>6. Alone' /\ TidyDocs'
    BY <1>0, <2>1, <2>2 DEF Alone, TidyDocs, NoTidy, TypeOK
  <2>7. MoverDocs'
    BY <1>0, <2>1, <2>2, <2>3, <2>4, <2>5 DEF MoverDocs, Together, Still, TypeOK
  <2>8. QED
    BY <1>0, <2>4, <2>5, <2>6, <2>7 DEF DocsInv, Together, BoxTogether
<1>2. ASSUME mover[m].at # "idle", UNCHANGED <<data, out>>,
             \A k \in Movers : mover'[k] = Still \/ (k = m /\ mover'[k].at \in {"read", "write"}),
             \A n \in Names : Together(n)
      PROVE  DocsInv'
  <2>1. tidy = NoTidy /\ \A i \in Boxes : BoxTogether(i)
    BY <1>2, OnlyMover
  <2>2. Alone' /\ TidyDocs' /\ MoverDocs'
    BY <1>0, <1>2, <2>1 DEF Alone, TidyDocs, MoverDocs, NoTidy, Still
  <2>3. QED
    BY <1>0, <1>2, <2>1, <2>2 DEF DocsInv, Together, BoxTogether
<1>3. CASE MoveData(m)
  <2>1. mover[m].at = "data" /\ mover[m].at # "idle" /\ from \in Names /\ to \in Names
    BY <1>3 DEF MoveData, MAt, FoldersInv, MoverInv
  <2>2. /\ tidy = NoTidy /\ \A k \in Movers : k # m => mover[k] = Still
        /\ (\A n \in Names : Together(n)) /\ (\A i \in Boxes : BoxTogether(i))
    BY <2>1, OnlyMover DEF LeftByMove
  <2>3. CASE UNCHANGED data /\ MStop(m)
    BY <1>0, <1>2, <1>3, <2>1, <2>2, <2>3 DEF MoveData, MStop, TypeOK
  <2>4. CASE data[from] # None /\ data[to] = None /\ data' = [data EXCEPT ![from] = None, ![to] = data[from]] /\ MGo(m, "out")
    <3>1. out[to] = None /\ UNCHANGED out
      BY <1>3, <2>1 DEF DocsInv, MoverDocs, MoveData
    <3>2. \A n \in Names : data'[n] = IF n = from THEN None ELSE IF n = to THEN data[from] ELSE data[n]
      BY <1>0, <2>1, <2>4 DEF TypeOK
    <3>3. mover'[m].at = "out" /\ mover'[m].from = from /\ mover'[m].to = to /\ \A k \in Movers : k # m => mover'[k] = Still
      BY <1>0, <2>2, <2>4 DEF MGo, TypeOK
    <3>4. Alone' /\ TidyDocs'
      BY <1>0, <2>2, <3>3 DEF Alone, TidyDocs, NoTidy
    <3>5. MoverDocs'
      <4>1. data'[from] = None
        BY <2>1, <3>2
      <4>2. \A k \in Movers : mover'[k].at \in {"data", "out"} => k = m
        BY <3>3 DEF Still
      <4>3. out'[mover'[m].to] = None /\ data'[mover'[m].from] = None
        BY <3>1, <3>3, <4>1
      <4>4. QED
        BY <4>2, <4>3 DEF MoverDocs
    <3>6. ASSUME NEW n \in Names PROVE Together(n)' \/ LeftByMove(m, n)'
      <4>1. out'[n] = out[n] /\ out[n] \in {None, data[n]}
        BY <2>2, <3>1 DEF Together
      <4>2. CASE n = to
        BY <3>1, <4>1, <4>2 DEF Together
      <4>3. CASE n = from /\ n # to
        <5>1. data'[mover'[m].to] = data[from]
          BY <2>1, <2>4, <3>2, <3>3
        <5>2. QED
          BY <3>3, <4>1, <4>3, <5>1 DEF Together, LeftByMove
      <4>4. CASE n # from /\ n # to
        BY <3>2, <4>1, <4>4 DEF Together
      <4>5. QED
        BY <4>2, <4>3, <4>4
    <3>7. QED
      BY <1>0, <2>2, <3>4, <3>5, <3>6 DEF DocsInv, BoxTogether
  <2>5. QED
    BY <1>3, <2>3, <2>4 DEF MoveData
<1>4. CASE MoveOut(m)
  <2>1. mover[m].at = "out" /\ mover[m].at # "idle" /\ from \in Names /\ to \in Names
    BY <1>4 DEF MoveOut, MAt, FoldersInv, MoverInv
  <2>2. /\ tidy = NoTidy /\ \A k \in Movers : k # m => mover[k] = Still
        /\ (\A n \in Names : Together(n) \/ LeftByMove(m, n)) /\ (\A i \in Boxes : BoxTogether(i))
    BY <2>1, OnlyMover
  <2>3. out[to] = None /\ data[from] = None /\ to \notin latest
    BY <1>0, <2>1 DEF DocsInv, MoverDocs, TypeOK
  <2>4. CASE out[from] = None /\ MGo(m, "read") /\ UNCHANGED <<data, out>>
    <3>1. \A n \in Names : Together(n)
      BY <2>2, <2>4 DEF LeftByMove, Together
    <3>2. QED
      BY <1>0, <1>2, <2>1, <2>2, <2>4, <3>1 DEF MGo, TypeOK
  <2>5. CASE out[from] # None /\ out' = [out EXCEPT ![from] = None, ![to] = out[from]] /\ MGo(m, "read") /\ UNCHANGED data
    <3>1. \A n \in Names : out'[n] = IF n = from THEN None ELSE IF n = to THEN out[from] ELSE out[n]
      BY <1>0, <2>1, <2>3, <2>5 DEF TypeOK
    <3>2. out[from] = data[to]
      BY <2>1, <2>2, <2>3, <2>5 DEF Together, LeftByMove
    <3>3. \A n \in Names : Together(n)'
      BY <2>2, <2>5, <3>1, <3>2 DEF Together, LeftByMove
    <3>4. mover'[m].at = "read" /\ \A k \in Movers : k # m => mover'[k] = Still
      BY <1>0, <2>2, <2>5 DEF MGo, TypeOK
    <3>5. Alone' /\ TidyDocs' /\ MoverDocs'
      BY <1>0, <2>2, <3>4 DEF Alone, TidyDocs, MoverDocs, NoTidy, Still
    <3>6. QED
      BY <1>0, <2>2, <3>3, <3>5 DEF DocsInv, BoxTogether
  <2>6. QED
    BY <1>4, <2>3, <2>4, <2>5 DEF MoveOut
<1>5. CASE ReadRenames(m) \/ WriteRenames(m)
  <2>1. mover[m].at \in {"read", "write"} /\ mover[m].at # "idle" /\ UNCHANGED <<data, out>>
    BY <1>5 DEF ReadRenames, WriteRenames, MAt, files
  <2>2. (\A k \in Movers : k # m => mover[k] = Still) /\ (\A n \in Names : Together(n))
    BY <2>1, OnlyMover DEF LeftByMove
  <2>3. \A k \in Movers : mover'[k] = Still \/ (k = m /\ mover'[k].at \in {"read", "write"})
    BY <1>0, <1>5, <2>2 DEF ReadRenames, WriteRenames, MStop, TypeOK
  <2>4. QED
    BY <1>2, <2>1, <2>2, <2>3
<1>6. QED
  BY <1>1, <1>3, <1>4, <1>5 DEF MoverNext

LEMMA TidyBeginDocs ==
    ASSUME FoldersInv, FoldersInv', DocsInv, Undisturbed', NEW i \in Boxes,
           RestoreBegin(i) \/ PurgeBegin(i) \/ \E n \in Names : TrashBegin(n, i)
    PROVE  DocsInv'
<1>0. TypeOK /\ TypeOK' /\ UNCHANGED <<data, out, mover>>
  BY DEF FoldersInv, RestoreBegin, PurgeBegin, TrashBegin, files
<1>1. Quiet /\ tidy = NoTidy /\ \A m \in Movers : mover[m] = Still
  BY DEF RestoreBegin, PurgeBegin, TrashBegin, Take, Begins, Undisturbed, Quiet
<1>2. (\A n \in Names : Together(n)) /\ (\A k \in Boxes : BoxTogether(k))
  BY <1>0, <1>1, DocsQuiet
<1>3. \A k \in Boxes : box'[k].out = box[k].out /\ box'[k].data = box[k].data
  BY <1>0 DEF RestoreBegin, PurgeBegin, TrashBegin, files, TypeOK
<1>4. Alone' /\ MoverDocs'
  BY <1>0, <1>1 DEF Alone, MoverDocs, Still
<1>5. TidyDocs'
  <2>1. CASE RestoreBegin(i)
    <3>1. PICK t \in FirstFree(box[i].meta, InData \cup InOut) : Take("restore", i, t)
      BY <2>1 DEF RestoreBegin
    <3>2. t \in Names /\ data[t] = None /\ out[t] = None
      BY <1>0, <2>1, <3>1, FreeNames DEF RestoreBegin, TypeOK, InData, InOut
    <3>3. QED
      BY <1>0, <3>1, <3>2 DEF Take, TidyDocs
  <2>2. CASE PurgeBegin(i)
    BY <2>2 DEF PurgeBegin, Take, TidyDocs
  <2>3. ASSUME NEW n \in Names, TrashBegin(n, i) PROVE TidyDocs'
    BY <1>3, <2>3 DEF TrashBegin, Take, TidyDocs, Box
  <2>4. QED
    BY <2>1, <2>2, <2>3
<1>6. QED
  BY <1>0, <1>2, <1>3, <1>4, <1>5 DEF DocsInv, Together, BoxTogether

LEMMA TidyStepDocs ==
    ASSUME FoldersInv, FoldersInv', DocsInv,
           TrashData \/ TrashOut \/ TrashMeta \/ RestoreData \/ RestoreOut \/ RestoreClean \/ PurgeData \/ PurgeOut
    PROVE  DocsInv'
<1> DEFINE n == tidy.name
           b == tidy.box
<1>0. TypeOK /\ TypeOK' /\ UNCHANGED mover /\ tidy.at # "idle" /\ b \in Boxes /\ (~TAt("purge") /\ ~TAt("purgeout") => n \in Names)
  BY DEF FoldersInv, TidyInv, TAt, TrashData, TrashOut, TrashMeta, RestoreData, RestoreOut, RestoreClean, PurgeData, PurgeOut
<1>1. /\ \A k \in Movers : mover[k] = Still
      /\ \A k \in Names : Together(k) \/ LeftByTrash(k)
      /\ \A i \in Boxes : BoxTogether(i) \/ LeftInBox(i)
  BY <1>0, OnlyTidy
<1>2. Alone' /\ MoverDocs'
  BY <1>0, <1>1 DEF Alone, MoverDocs, Still
<1>3. CASE TrashData
  <2>1. TAt("trash") /\ n \in Names /\ Box.data = None /\ Box.out = None /\ UNCHANGED out
    BY <1>0, <1>3 DEF TrashData, TAt, FoldersInv, TidyInv, DocsInv, TidyDocs
  <2>2. (\A k \in Names : Together(k)) /\ (\A i \in Boxes : BoxTogether(i))
    BY <1>1, <2>1 DEF TAt, LeftByTrash, LeftInBox
  <2>3. CASE UNCHANGED <<data, box>> /\ TStop
    <3>1. TidyDocs'
      BY <2>3 DEF TStop, NoTidy, TidyDocs
    <3>2. QED
      BY <1>2, <2>1, <2>2, <2>3, <3>1 DEF DocsInv, Together, BoxTogether
  <2>4. CASE /\ box' = [box EXCEPT ![tidy.box].data = data[tidy.name]]
             /\ data' = [data EXCEPT ![tidy.name] = None]
             /\ TGo("trashout")
    <3>1. /\ tidy'.at = "trashout" /\ tidy'.name = n /\ tidy'.box = b
          /\ \A k \in Names : data'[k] = IF k = n THEN None ELSE data[k]
          /\ \A i \in Boxes : box'[i].out = box[i].out /\ box'[i].data = IF i = b THEN data[n] ELSE box[i].data
      BY <1>0, <2>4 DEF TGo, TypeOK
    <3>2. TidyDocs'
      BY <1>0, <2>1, <3>1 DEF TidyDocs, Box
    <3>3. \A k \in Names : Together(k)' \/ LeftByTrash(k)'
      BY <1>0, <2>1, <2>2, <3>1 DEF Together, LeftByTrash, Box
    <3>4. \A i \in Boxes : BoxTogether(i)'
      BY <2>1, <2>2, <3>1 DEF BoxTogether, Box
    <3>5. QED
      BY <1>2, <3>2, <3>3, <3>4 DEF DocsInv
  <2>5. QED
    BY <1>3, <2>3, <2>4 DEF TrashData
<1>4. CASE TrashOut
  <2>1. TAt("trashout") /\ n \in Names /\ data[n] = None /\ UNCHANGED data
    BY <1>0, <1>4 DEF TrashOut, TAt, DocsInv, TidyDocs
  <2>2. /\ tidy'.at = "meta"
        /\ \A k \in Names : out'[k] = IF k = n THEN None ELSE out[k]
        /\ \A i \in Boxes : box'[i].data = box[i].data /\ box'[i].out = IF i = b THEN out[n] ELSE box[i].out
    BY <1>0, <1>4 DEF TrashOut, TGo, TypeOK
  <2>3. out[n] \in {None, Box.data}
    BY <1>1, <2>1 DEF Together, LeftByTrash
  <2>4. \A i \in Boxes : BoxTogether(i)'
    BY <1>1, <2>1, <2>2, <2>3 DEF BoxTogether, LeftInBox, TAt, Box
  <2>5. \A k \in Names : Together(k)'
    BY <1>1, <2>1, <2>2 DEF Together, LeftByTrash
  <2>6. QED
    BY <1>2, <2>2, <2>4, <2>5 DEF DocsInv, TidyDocs
<1>5. CASE TrashMeta
  <2>1. TAt("meta") /\ tidy' = NoTidy /\ UNCHANGED <<data, out>>
    BY <1>5 DEF TrashMeta, TStop
  <2>2. \A i \in Boxes : box'[i].data = box[i].data /\ box'[i].out = box[i].out
    BY <1>0, <1>5 DEF TrashMeta, TypeOK
  <2>3. QED
    BY <1>1, <1>2, <2>1, <2>2 DEF DocsInv, TidyDocs, Together, BoxTogether, LeftByTrash, LeftInBox, TAt, NoTidy
<1>6. CASE RestoreData
  <2>1. TAt("restore") /\ n \in Names /\ data[n] = None /\ out[n] = None /\ UNCHANGED out
    BY <1>0, <1>6 DEF RestoreData, TAt, DocsInv, TidyDocs
  <2>2. /\ tidy'.at = "restoreout" /\ tidy'.name = n /\ tidy'.box = b
        /\ \A k \in Names : data'[k] = IF k = n THEN Box.data ELSE data[k]
        /\ \A i \in Boxes : box'[i].out = box[i].out /\ box'[i].data = IF i = b THEN None ELSE box[i].data
    BY <1>0, <1>6, <2>1 DEF RestoreData, TGo, TypeOK, Box
  <2>3. TidyDocs'
    BY <2>1, <2>2 DEF TidyDocs
  <2>4. \A k \in Names : Together(k)'
    BY <1>1, <2>1, <2>2 DEF Together, LeftByTrash, TAt
  <2>5. \A i \in Boxes : BoxTogether(i)' \/ LeftInBox(i)'
    BY <1>1, <2>1, <2>2 DEF BoxTogether, LeftInBox, TAt, Box
  <2>6. QED
    BY <1>2, <2>3, <2>4, <2>5 DEF DocsInv
<1>7. CASE RestoreOut
  <2>1. TAt("restoreout") /\ n \in Names /\ out[n] = None /\ Box.data = None /\ UNCHANGED data
    BY <1>0, <1>7 DEF RestoreOut, TAt, DocsInv, TidyDocs, FoldersInv, TidyInv
  <2>2. /\ tidy'.at = "clean" /\ tidy'.box = b
        /\ \A k \in Names : out'[k] = IF k = n THEN Box.out ELSE out[k]
        /\ \A i \in Boxes : box'[i].data = box[i].data /\ box'[i].out = IF i = b THEN None ELSE box[i].out
    BY <1>0, <1>7, <2>1 DEF RestoreOut, TGo, TypeOK, Box
  <2>3. Box.out \in {None, data[n]}
    BY <1>0, <1>1, <2>1 DEF BoxTogether, LeftInBox, TAt, Box
  <2>4. TidyDocs'
    BY <1>0, <2>2 DEF TidyDocs, Box
  <2>5. \A k \in Names : Together(k)'
    BY <1>1, <2>1, <2>2, <2>3 DEF Together, LeftByTrash, TAt
  <2>6. \A i \in Boxes : BoxTogether(i)'
    BY <1>1, <2>2 DEF BoxTogether, LeftInBox
  <2>7. QED
    BY <1>2, <2>4, <2>5, <2>6 DEF DocsInv
<1>8. CASE RestoreClean \/ PurgeOut
  <2>1. tidy.at \in {"clean", "purgeout"} /\ tidy' = NoTidy /\ UNCHANGED <<data, out>>
    BY <1>8 DEF RestoreClean, PurgeOut, TStop, TAt
  <2>2. \A i \in Boxes : box'[i] = IF i = b THEN NoBox ELSE box[i]
    BY <1>0, <1>8 DEF RestoreClean, PurgeOut, TypeOK
  <2>3. \A k \in Names : Together(k)'
    BY <1>1, <2>1 DEF Together, LeftByTrash
  <2>4. \A i \in Boxes : BoxTogether(i)'
    BY <1>1, <2>2 DEF BoxTogether, LeftInBox, NoBox
  <2>5. QED
    BY <1>2, <2>1, <2>3, <2>4 DEF DocsInv, TidyDocs, NoTidy
<1>9. CASE PurgeData
  <2>1. TAt("purge") /\ tidy'.at = "purgeout" /\ tidy'.box = b /\ UNCHANGED <<data, out>>
    BY <1>0, <1>9 DEF PurgeData, TGo, TypeOK
  <2>2. \A i \in Boxes : i # b => box'[i] = box[i]
    BY <1>0, <1>9 DEF PurgeData, TypeOK
  <2>3. \A k \in Names : Together(k)'
    BY <1>1, <2>1 DEF Together, LeftByTrash, TAt
  <2>4. \A i \in Boxes : BoxTogether(i)' \/ LeftInBox(i)'
    BY <1>1, <2>1, <2>2 DEF BoxTogether, LeftInBox, TAt
  <2>5. QED
    BY <1>2, <2>1, <2>3, <2>4 DEF DocsInv, TidyDocs
<1>10. QED
  BY <1>3, <1>4, <1>5, <1>6, <1>7, <1>8, <1>9

LEMMA CreateDocs ==
    ASSUME FoldersInv, FoldersInv', DocsInv, NEW x \in Trips, Create(x)
    PROVE  DocsInv'
<1>0. TypeOK /\ UNCHANGED <<out, box, mover, tidy>>
  BY DEF FoldersInv, Create
<1>1. <<x>> \notin UsedNames
  BY DEF Create, FoldersInv, NamesStarted, Started
<1>2. /\ data[<<x>>] = None /\ tidy.name # <<x>> /\ \A m \in Movers : mover[m].from # <<x>>
      /\ \A m \in Movers : mover[m].at # "idle" => mover[m].to # <<x>>
  BY <1>1, StagingIsName DEF UsedNames, InData, FoldersInv, MoverInv
<1>3. \A n \in Names : n # <<x>> => data'[n] = data[n]
  BY <1>0 DEF Create, TypeOK
<1>4. out[<<x>>] = None
  BY <1>2, StagingIsName DEF DocsInv, Together, LeftByTrash, LeftByMove
<1>5. Alone'
  BY <1>0 DEF DocsInv, Alone, NoTidy, Still
<1>6. MoverDocs'
  <2>1. \A m \in Movers : mover[m].at = "out" => data'[mover[m].from] = data[mover[m].from]
    BY <1>2, <1>3 DEF FoldersInv, MoverInv
  <2>2. QED
    BY <1>0, <2>1 DEF DocsInv, MoverDocs
<1>7. tidy.at \in {"trashout", "restore", "restoreout"} => data'[tidy.name] = data[tidy.name]
  BY <1>2, <1>3 DEF FoldersInv, TidyInv
<1>8. TidyDocs'
  BY <1>0, <1>7 DEF DocsInv, TidyDocs, Box
<1>9. ASSUME NEW n \in Names PROVE Together(n)' \/ LeftByTrash(n)' \/ \E m \in Movers : LeftByMove(m, n)'
  <2>1. CASE Together(n)
    BY <1>0, <1>3, <1>4, <2>1 DEF Together
  <2>2. CASE LeftByTrash(n)
    BY <1>0, <2>2 DEF LeftByTrash, Box
  <2>3. ASSUME NEW m \in Movers, LeftByMove(m, n) PROVE LeftByMove(m, n)'
    <3>1. mover[m].to \in Names /\ mover[m].to # <<x>>
      BY <1>2, <2>3 DEF LeftByMove, FoldersInv, MoverInv
    <3>2. QED
      BY <1>0, <1>3, <2>3, <3>1 DEF LeftByMove
  <2>4. QED
    BY <2>1, <2>2, <2>3 DEF DocsInv
<1>10. \A i \in Boxes : BoxTogether(i)' \/ LeftInBox(i)'
  BY <1>0, <1>7 DEF DocsInv, BoxTogether, LeftInBox
<1>11. QED
  BY <1>5, <1>6, <1>8, <1>9, <1>10 DEF DocsInv

LEMMA WriteOutDocs ==
    ASSUME FoldersInv, FoldersInv', DocsInv, Undisturbed', NEW n \in Names, NEW docs \in BOOLEAN, WriteOut(n, docs)
    PROVE  DocsInv'
<1>0. TypeOK /\ UNCHANGED <<data, box, mover, tidy>>
  BY DEF FoldersInv, WriteOut
<1>1. Quiet /\ tidy = NoTidy /\ \A m \in Movers : mover[m] = Still
  BY DEF WriteOut, Begins, Undisturbed, Quiet
<1>2. (\A k \in Names : Together(k)) /\ (\A i \in Boxes : BoxTogether(i))
  BY <1>0, <1>1, DocsQuiet
<1>3. \A k \in Names : Together(k)'
  BY <1>0, <1>2 DEF WriteOut, Together, TypeOK
<1>4. Alone' /\ MoverDocs' /\ TidyDocs'
  BY <1>0, <1>1 DEF Alone, MoverDocs, TidyDocs, NoTidy, Still
<1>5. QED
  BY <1>0, <1>2, <1>3, <1>4 DEF DocsInv, BoxTogether

LEMMA DocumentsInvNext == ASSUME DocumentsInv, [Next]_vars PROVE DocumentsInv'
<1>1. FoldersInv /\ FoldersInv'
  BY FoldersInvNext DEF DocumentsInv
<1>2. SUFFICES ASSUME Undisturbed' PROVE DocsInv'
  BY <1>1 DEF DocumentsInv
<1>3. CASE UNCHANGED vars
  <2>1. DocsInv
    BY <1>2, <1>3 DEF DocumentsInv, Undisturbed, vars
  <2>2. QED
    BY <1>3, <2>1 DEF vars, files, DocsInv, Alone, MoverDocs, TidyDocs, Together, BoxTogether, LeftByTrash, LeftByMove, LeftInBox, Box, NoTidy, Still
<1>4. CASE Next
  <2>1. ~Crash
    BY <1>2 DEF Crash, Undisturbed
  <2>2. Undisturbed
    <3>1. torn' = torn
      BY <1>4, <2>1 DEF Next, Create, WriteOut, MoverNext, MoveBegin, MoveData, MoveOut, ReadRenames, WriteRenames,
         TidyNext, RestoreBegin, PurgeBegin, TrashBegin, TrashData, TrashOut, TrashMeta, RestoreData, RestoreOut,
         RestoreClean, PurgeData, PurgeOut
    <3>2. overlap' = overlap \/ overlap' = (overlap \/ ~Quiet)
      BY <1>4, <2>1 DEF Next, Create, WriteOut, MoverNext, MoveBegin, MoveData, MoveOut, ReadRenames, WriteRenames,
         TidyNext, RestoreBegin, PurgeBegin, TrashBegin, TrashData, TrashOut, TrashMeta, RestoreData, RestoreOut,
         RestoreClean, PurgeData, PurgeOut, Take, Begins
    <3>3. overlap => overlap'
      BY <3>2, Zenon
    <3>4. torn => torn'
      BY <3>1, Zenon
    <3>5. QED
      BY <1>2, <3>3, <3>4, Zenon DEF Undisturbed
  <2>3. DocsInv
    BY <2>2 DEF DocumentsInv
  <2>4. QED
    BY <1>1, <1>2, <1>4, <2>1, <2>3, MoveDocs, TidyBeginDocs, TidyStepDocs, CreateDocs, WriteOutDocs DEF Next, TidyNext
<1>5. QED
  BY <1>3, <1>4

LEMMA DocumentsInvInit == Init => DocumentsInv
<1>1. Init => DocsInv
  BY DEF Init, DocsInv, Alone, MoverDocs, TidyDocs, Together, BoxTogether, NoTidy, Still, NoBox
<1>2. QED
  BY <1>1, FoldersInvInit DEF DocumentsInv

(* Operations that do not overlap and that no crash cuts short leave the   *)
(* documents of a trip with its receipts (move_trip, trash_trip).          *)
THEOREM DocumentsFollowReceipts == Spec => []DocumentsStayWithReceipts
<1>1. DocumentsInv => DocumentsStayWithReceipts
  BY DocsQuiet DEF DocumentsInv, FoldersInv, Undisturbed, DocumentsStayWithReceipts, Together, BoxTogether
<1>2. QED
  BY <1>1, DocumentsInvInit, DocumentsInvNext, PTL DEF Spec

-----------------------------------------------------------------------------
(* The implementation of TripStore: each effect is one of its steps or     *)
(* none.  A trip that lies in another's folder has one folder or box that  *)
(* holds it, as any other has, and the other is no trip to come.           *)
HostsStarted == \A x \in Trips : inside[x] # None => Started(inside[x])
StoreInv == FoldersInv /\ HostsStarted

LEMMA StoreInvariance == Spec => []StoreInv
<1>1. Init => StoreInv
  BY FoldersInvInit DEF Init, StoreInv, HostsStarted
<1>2. ASSUME StoreInv, [Next]_vars PROVE StoreInv'
  <2>1. FoldersInv' /\ NothingLost
    BY <1>2, FoldersInvNext DEF StoreInv
  <2>2. TypeOK /\ PlacesInv /\ Effect
    BY <1>2, NextEffect DEF StoreInv, FoldersInv, PlacesInv
  <2>3. ASSUME NEW x \in Trips, inside'[x] # None PROVE inside'[x] \in Trips /\ Started(inside'[x])
    <3>1. inside'[x] = inside[x] \/ \E n \in Names : data[n] # None /\ inside'[x] = data[n]
      BY <2>2 DEF Effect, Unmoved, Created, Relocated, Trashed, Restored, PutInside, PurgedBox, Into
    <3>2. CASE inside'[x] = inside[x]
      BY <1>2, <2>2, <2>3, <3>2 DEF StoreInv, HostsStarted, TypeOK
    <3>3. CASE \E n \in Names : data[n] # None /\ inside'[x] = data[n]
      BY <2>2, <3>3 DEF TypeOK, Started, Exists, Kept
    <3>4. QED
      BY <3>1, <3>2, <3>3
  <2>4. QED
    BY <2>1, <2>3 DEF StoreInv, HostsStarted, NothingLost
<1>3. QED
  BY <1>1, <1>2, PTL DEF Spec
LEMMA OneHolder ==
    ASSUME TypeOK, PlacesInv, NEW x \in Trips,
           NEW c \in Kept, NEW d \in Kept, Holds(c, x), Holds(d, x)
    PROVE  c = d
BY FolderAssumptions DEF PlacesInv, OnePlace, Holds

LEMMA HoldersAreKept ==
    ASSUME TypeOK
    PROVE  /\ \A n \in Names : data[n] # None => data[n] \in Kept
           /\ \A i \in Boxes : box[i].data # None => box[i].data \in Kept
           /\ \A x \in Trips : Exists(x) <=> InFolders(x) \/ InBoxes(x)
<1>1. /\ \A n \in Names : data[n] # None => data[n] \in Kept
      /\ \A i \in Boxes : box[i].data # None => box[i].data \in Kept
  BY DEF TypeOK, Kept
<1>2. \A c \in Kept : c # None /\ ((\E n \in Names : data[n] = c) \/ \E i \in Boxes : box[i].data = c)
  BY FolderAssumptions DEF Kept
<1>3. QED
  BY <1>1, <1>2 DEF Exists, InFolders, InBoxes, Holds

(* No trip is in a folder and in the trash, or in two boxes.               *)
LEMMA OneSide ==
    ASSUME TypeOK, PlacesInv, NEW x \in Trips
    PROVE  /\ ~(InFolders(x) /\ InBoxes(x))
           /\ \A m, n \in Names : Holds(data[m], x) /\ Holds(data[n], x) => m = n
           /\ \A i, k \in Boxes : Holds(box[i].data, x) /\ Holds(box[k].data, x) => i = k
<1>1. \A n \in Names, i \in Boxes : ~(Holds(data[n], x) /\ Holds(box[i].data, x))
  <2> SUFFICES ASSUME NEW n \in Names, NEW i \in Boxes, Holds(data[n], x), Holds(box[i].data, x) PROVE FALSE
    OBVIOUS
  <2>1. data[n] = box[i].data /\ data[n] # None
    BY HoldersAreKept, OneHolder DEF Holds
  <2>2. QED
    BY <2>1 DEF PlacesInv, OnePlace
<1>2. ASSUME NEW m \in Names, NEW n \in Names, Holds(data[m], x), Holds(data[n], x) PROVE m = n
  <2>1. data[m] = data[n] /\ data[m] # None
    BY <1>2, HoldersAreKept, OneHolder DEF Holds
  <2>2. QED
    BY <2>1 DEF PlacesInv, OnePlace
<1>3. ASSUME NEW i \in Boxes, NEW k \in Boxes, Holds(box[i].data, x), Holds(box[k].data, x) PROVE i = k
  <2>1. box[i].data = box[k].data /\ box[i].data # None
    BY <1>3, HoldersAreKept, OneHolder DEF Holds
  <2>2. QED
    BY <2>1 DEF PlacesInv, OnePlace
<1>4. QED
  BY <1>1, <1>2, <1>3 DEF InFolders, InBoxes

LEMMA IsChange ==
    ASSUME NEW S \in SUBSET Trips, NEW from, NEW to, \A x \in S : Place[x] = from /\ Place'[x] = to,
           \A x \in Trips \ S : Place'[x] = Place[x]
    PROVE  Store!Change(S, from, to)
<1>1. Place' = [x \in Trips |-> IF x \in S THEN to ELSE Place[x]]
  BY DEF Place
<1>2. QED
  BY <1>1 DEF Store!Change

LEMMA SamePlaces ==
    ASSUME \A x \in Trips : Place'[x] = Place[x]
    PROVE  UNCHANGED Place
BY DEF Place


LEMMA PlaceIs ==
    ASSUME NEW x \in Trips
    PROVE  /\ Place[x] = IF InFolders(x) THEN "kept" ELSE IF InBoxes(x) THEN "trash"
                         ELSE IF x \in purged THEN "gone" ELSE "nowhere"
           /\ Place'[x] = IF InFolders(x)' THEN "kept" ELSE IF InBoxes(x)' THEN "trash"
                          ELSE IF x \in purged' THEN "gone" ELSE "nowhere"
BY DEF Place

LEMMA StoreWithoutMove == ASSUME Unmoved PROVE UNCHANGED Place
<1>1. ASSUME NEW x \in Trips PROVE InFolders(x)' = InFolders(x) /\ InBoxes(x)' = InBoxes(x)
  BY DEF InFolders, InBoxes, Holds, Unmoved, SameBoxes
<1>2. purged' = purged
  BY DEF Unmoved
<1>3. QED
  BY <1>1, <1>2, PlaceIs, SamePlaces

LEMMA StoreCreated ==
    ASSUME TypeOK, PlacesInv, HostsStarted, NEW x \in Trips, Created(x)
    PROVE  Store!Enter(x)
<1>1. <<x>> \in Names /\ x # None /\ ~Exists(x) /\ x \notin purged
  BY RootNames, FolderAssumptions DEF Roots, Created, Started
<1>2. /\ \A n \in Names : data'[n] = IF n = <<x>> THEN x ELSE data[n]
      /\ inside' = inside /\ purged' = purged /\ data[<<x>>] = None
  BY <1>1 DEF Created, TypeOK
<1>3. \A y \in Trips : inside[y] # x
  BY <1>1 DEF HostsStarted, Created
<1>4. \A y \in Trips : InBoxes(y)' = InBoxes(y)
  BY <1>2 DEF InBoxes, Holds, Created, SameBoxes
<1>5. ASSUME NEW y \in Trips, y # x PROVE InFolders(y)' = InFolders(y)
  BY <1>2, <1>3, <1>5 DEF InFolders, Holds
<1>6. InFolders(x)'
  BY <1>1, <1>2 DEF InFolders, Holds
<1>7. Place[x] = "nowhere" /\ Place'[x] = "kept"
  BY <1>1, <1>6, PlaceIs, HoldersAreKept
<1>8. \A y \in Trips \ {x} : Place'[y] = Place[y]
  BY <1>2, <1>4, <1>5, PlaceIs
<1>9. QED
  BY <1>7, <1>8, IsChange DEF Store!Enter

LEMMA StoreRelocated ==
    ASSUME TypeOK, NEW a \in Names, NEW b \in Names, Relocated(a, b)
    PROVE  UNCHANGED Place
<1>1. \A n \in Names : data'[n] = IF n = a THEN None ELSE IF n = b THEN data[a] ELSE data[n]
  BY DEF Relocated, TypeOK
<1>2. inside' = inside /\ purged' = purged /\ data[b] = None /\ a # b
  BY DEF Relocated
<1>3. \A x \in Trips : InFolders(x)' = InFolders(x)
  BY <1>1, <1>2 DEF InFolders, Holds
<1>4. \A x \in Trips : InBoxes(x)' = InBoxes(x)
  BY <1>2 DEF InBoxes, Holds, Relocated, SameBoxes
<1>5. QED
  BY <1>2, <1>3, <1>4, PlaceIs, SamePlaces

LEMMA StoreTrashed ==
    ASSUME TypeOK, PlacesInv, NEW n \in Names, NEW i \in Boxes, Trashed(n, i)
    PROVE  Store!StoreNext
<1> DEFINE S == {x \in Trips : Holds(data[n], x)}
<1>1. \A k \in Names : data'[k] = IF k = n THEN None ELSE data[k]
  BY DEF Trashed, TypeOK
<1>2. /\ inside' = inside /\ purged' = purged /\ box[i].data = None
      /\ \A k \in Boxes : box'[k].data = IF k = i THEN data[n] ELSE box[k].data
  BY DEF Trashed, InBox
<1>3. ASSUME NEW x \in S PROVE Place[x] = "kept" /\ Place'[x] = "trash"
  <2>1. InFolders(x) /\ ~InFolders(x)'
    BY <1>1, <1>2, OneSide DEF InFolders, Holds
  <2>2. InBoxes(x)'
    BY <1>2 DEF InBoxes, Holds
  <2>3. QED
    BY <2>1, <2>2, PlaceIs
<1>4. ASSUME NEW x \in Trips \ S PROVE Place'[x] = Place[x]
  <2>1. InFolders(x)' = InFolders(x)
    BY <1>1, <1>2 DEF InFolders, Holds
  <2>2. InBoxes(x)' = InBoxes(x)
    BY <1>2 DEF InBoxes, Holds
  <2>3. QED
    BY <1>2, <2>1, <2>2, PlaceIs
<1>5. Store!Change(S, "kept", "trash")
  <2> HIDE DEF S
  <2>1. S \in SUBSET Trips
    BY DEF S
  <2>2. QED
    BY <1>3, <1>4, <2>1, IsChange
<1>6. QED
  BY <1>5 DEF Store!StoreNext, Store!Discard

LEMMA StoreRestored ==
    ASSUME TypeOK, PlacesInv, NEW n \in Names, NEW i \in Boxes, Restored(i, n)
    PROVE  Store!StoreNext
<1> DEFINE S == {x \in Trips : Holds(box[i].data, x)}
<1>1. \A k \in Names : data'[k] = IF k = n THEN box[i].data ELSE data[k]
  BY DEF Restored, TypeOK
<1>2. /\ inside' = inside /\ purged' = purged /\ data[n] = None
      /\ \A k \in Boxes : box'[k].data = IF k = i THEN None ELSE box[k].data
  BY DEF Restored, InBox
<1>3. ASSUME NEW x \in S PROVE Place[x] = "trash" /\ Place'[x] = "kept"
  <2>1. InBoxes(x) /\ ~InFolders(x)
    BY OneSide DEF InBoxes
  <2>2. InFolders(x)'
    BY <1>1, <1>2 DEF InFolders, Holds
  <2>3. QED
    BY <2>1, <2>2, PlaceIs
<1>4. ASSUME NEW x \in Trips \ S PROVE Place'[x] = Place[x]
  <2>1. InFolders(x)' = InFolders(x)
    BY <1>1, <1>2 DEF InFolders, Holds
  <2>2. InBoxes(x)' = InBoxes(x)
    BY <1>2 DEF InBoxes, Holds
  <2>3. QED
    BY <1>2, <2>1, <2>2, PlaceIs
<1>5. Store!Change(S, "trash", "kept")
  <2> HIDE DEF S
  <2>1. S \in SUBSET Trips
    BY DEF S
  <2>2. QED
    BY <1>3, <1>4, <2>1, IsChange
<1>6. QED
  BY <1>5 DEF Store!StoreNext, Store!Recover

LEMMA StorePutInside ==
    ASSUME TypeOK, PlacesInv, NEW n \in Names, NEW i \in Boxes, PutInside(i, n)
    PROVE  Store!StoreNext
<1> DEFINE c == box[i].data
           host == data[n]
           S == {x \in Trips : Holds(c, x)}
<1>1. c # None /\ host # None
  BY DEF PutInside
<1>2. /\ data' = data /\ purged' = purged
      /\ \A k \in Boxes : box'[k].data = IF k = i THEN None ELSE box[k].data
      /\ \A y \in Trips : inside'[y] = IF y = c \/ inside[y] = c THEN host ELSE inside[y]
  BY DEF PutInside, InBox, Into
<1>3. ASSUME NEW x \in S PROVE Place[x] = "trash" /\ Place'[x] = "kept"
  <2>1. InBoxes(x) /\ ~InFolders(x)
    BY OneSide DEF InBoxes
  <2>2. inside'[x] = host
    BY <1>2 DEF Holds
  <2>3. InFolders(x)'
    BY <1>1, <1>2, <2>2 DEF InFolders, Holds
  <2>4. QED
    BY <2>1, <2>3, PlaceIs
<1>4. ASSUME NEW x \in Trips \ S PROVE Place'[x] = Place[x]
  <2>1. inside'[x] = inside[x]
    BY <1>1, <1>2 DEF Holds
  <2>2. InFolders(x)' = InFolders(x)
    BY <1>2, <2>1 DEF InFolders, Holds
  <2>3. InBoxes(x)' = InBoxes(x)
    BY <1>2, <2>1 DEF InBoxes, Holds
  <2>4. QED
    BY <1>2, <2>2, <2>3, PlaceIs
<1>5. Store!Change(S, "trash", "kept")
  <2> HIDE DEF S
  <2>1. S \in SUBSET Trips
    BY DEF S
  <2>2. QED
    BY <1>3, <1>4, <2>1, IsChange
<1>6. QED
  BY <1>5 DEF Store!StoreNext, Store!Recover

LEMMA StorePurged ==
    ASSUME TypeOK, PlacesInv, NEW i \in Boxes, PurgedBox(i)
    PROVE  Store!StoreNext
<1> DEFINE S == {x \in Trips : Holds(box[i].data, x)}
<1>1. /\ data' = data /\ inside' = inside
      /\ \A k \in Boxes : box'[k].data = IF k = i THEN None ELSE box[k].data
      /\ purged' = purged \cup S
  BY DEF PurgedBox, InBox, Holds
<1>2. \A x \in Trips : InFolders(x)' = InFolders(x)
  BY <1>1 DEF InFolders, Holds
<1>3. ASSUME NEW x \in S PROVE Place[x] = "trash" /\ Place'[x] = "gone"
  <2>1. InBoxes(x) /\ ~InFolders(x)
    BY OneSide DEF InBoxes
  <2>2. ~InBoxes(x)'
    BY <1>1, OneSide DEF InBoxes, Holds
  <2>3. QED
    BY <1>1, <1>2, <2>1, <2>2, PlaceIs
<1>4. ASSUME NEW x \in Trips \ S PROVE Place'[x] = Place[x]
  <2>1. InBoxes(x)' = InBoxes(x)
    BY <1>1 DEF InBoxes, Holds
  <2>2. QED
    BY <1>1, <1>2, <2>1, PlaceIs
<1>5. Store!Change(S, "trash", "gone")
  <2> HIDE DEF S
  <2>1. S \in SUBSET Trips
    BY DEF S
  <2>2. QED
    BY <1>3, <1>4, <2>1, IsChange
<1>6. QED
  BY <1>5 DEF Store!StoreNext, Store!Destroy

(* The folders implement TripStore: whatever renames, trash operations and *)
(* crashes come together, a trip goes from one place to the next only by   *)
(* a step that is meant to take it there.                                  *)
THEOREM FoldersKeepTheStore == Spec => ImplementsStore
<1>1. Init => Store!StoreInit
  <2> SUFFICES ASSUME Init PROVE Store!StoreInit
    OBVIOUS
  <2>1. ASSUME NEW x \in Trips PROVE Place[x] = "nowhere"
    BY PlaceIs DEF Init, InFolders, InBoxes, Holds, NoBox
  <2>2. QED
    BY <2>1 DEF Store!StoreInit, Place
<1>2. ASSUME StoreInv, [Next]_vars PROVE [Store!StoreNext]_Place
  <2>1. TypeOK /\ PlacesInv /\ HostsStarted /\ Effect
    BY <1>2, NextEffect DEF StoreInv, FoldersInv, PlacesInv
  <2>2. CASE \E x \in Trips : Created(x)
    BY <2>1, <2>2, StoreCreated DEF Store!StoreNext
  <2>3. QED
    BY <2>1, <2>2, StoreWithoutMove, StoreRelocated, StoreTrashed, StoreRestored, StorePutInside,
       StorePurged DEF Effect
<1>3. QED
  BY <1>1, <1>2, StoreInvariance, PTL DEF Spec, ImplementsStore, Store!StoreSpec

=============================================================================
