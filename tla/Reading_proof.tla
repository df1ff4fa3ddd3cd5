---------------------------- MODULE Reading_proof ---------------------------
(***************************************************************************)
(* Proofs about the reading of receipts (Reading), for any trips, files    *)
(* and contents, and any number of runs and of changes to the folders.     *)
(***************************************************************************)
EXTENDS Reading, TLAPS

(* The file at hand.                                                       *)
Hand == [name : Names \cup {None}, digest : Contents \cup {None}, moved : BOOLEAN]

(* Where a run stands: which files or digests it has left, and whether it  *)
(* has one of them at hand.                                                *)
PlaceOK ==
    /\ at = None => left = {} /\ file = NoFile /\ made = Empty
    /\ Hashing => left \subseteq Names
    /\ ~Hashing => file = NoFile
    /\ Phase("read") /\ at # None => left \subseteq DOMAIN Listed(at)
    /\ Phase("finalize") \/ Phase("raised") \/ Phase("idle") => at = None
    /\ file.name = None => file = NoFile

(* A listing that tells what each digest is.                               *)
Truthful(listing) == \A d \in DOMAIN listing : listing[d] = d

(* As long as no file was replaced between its hash and its image, the     *)
(* manifests, the images made and the cache tell what is there.            *)
Honest ==
    /\ \A t \in Trips : Truthful(Listed(t))
    /\ Truthful(cache)
    /\ Phase("ingest") => \A d \in DOMAIN made : made[d] \in {d, None}
    /\ Phase("ingest") /\ at # None /\ file.digest # None =>
         folder[at][file.name] \in {None, file.digest}

IInv == TypeOK /\ PlaceOK /\ HashesAreTrue /\ (~swapped => Honest)

-----------------------------------------------------------------------------
LEMMA ListingParts ==
  ASSUME NEW l \in Listings
  PROVE  /\ DOMAIN l \subseteq Contents
         /\ \A d \in DOMAIN l : l[d] \in Contents \cup {None, Failed}
<1>1. PICK D \in SUBSET Contents : l \in [D -> Contents \cup {None, Failed}]
  BY DEF Listings
<1>2. QED
  BY <1>1

LEMMA IsListing ==
  ASSUME NEW D \in SUBSET Contents, NEW l \in [D -> Contents \cup {None, Failed}]
  PROVE  l \in Listings
BY DEF Listings

LEMMA EmptyListing == Empty \in Listings /\ DOMAIN Empty = {}
<1>1. Empty \in [{} -> Contents \cup {None, Failed}]
  BY DEF Empty
<1>2. QED
  BY <1>1, IsListing DEF Empty

LEMMA WithListing ==
  ASSUME NEW l \in Listings, NEW d \in Contents, NEW x \in Contents \cup {None, Failed}
  PROVE  With(l, d, x) \in Listings
<1>1. DOMAIN l \cup {d} \in SUBSET Contents
  BY ListingParts
<1>2. With(l, d, x) \in [DOMAIN l \cup {d} -> Contents \cup {None, Failed}]
  BY ListingParts DEF With
<1>3. QED
  BY <1>1, <1>2, IsListing

LEMMA WithTruthful ==
  ASSUME NEW l, NEW d, Truthful(l)
  PROVE  Truthful(With(l, d, d))
BY DEF Truthful, With

LEMMA ListedListing ==
  ASSUME TypeOK, NEW t \in Trips
  PROVE  Listed(t) \in Listings
BY EmptyListing DEF TypeOK, Listed

(* What is listed stays when the manifest does.                            *)
LEMMA ListedStays ==
  ASSUME TypeOK, UNCHANGED manifest, NEW t
  PROVE  Listed(t)' = Listed(t)
BY DEF Listed

-----------------------------------------------------------------------------
LEMMA InitInv == Init => IInv
<1> SUFFICES ASSUME Init PROVE IInv
  OBVIOUS
<1> USE ReadingAssumptions
<1>1. TypeOK
  <2>1. Empty \in Listings
    BY EmptyListing
  <2>2. 0 \in 0..MaxChanges /\ 0 \in 0..MaxRuns
    OBVIOUS
  <2>3. NoRun \in [phase : Phases, batch : BOOLEAN,
                   trips : SUBSET Trips, todo : SUBSET Trips]
    BY DEF NoRun, Phases
  <2>4. NoFile \in Hand
    BY DEF NoFile, Hand
  <2>5. QED
    BY <2>1, <2>2, <2>3, <2>4 DEF Init, TypeOK, Hand
<1>2. PlaceOK
  BY DEF Init, PlaceOK, Phase, Hashing, NoRun, NoFile
<1>3. HashesAreTrue
  BY DEF Init, HashesAreTrue
<1>4. Honest
  <2>1. \A t \in Trips : Listed(t) = Empty
    BY DEF Init, Listed
  <2>2. QED
    BY <2>1 DEF Init, Honest, Truthful, Empty, Phase, NoRun
<1>5. QED
  BY <1>1, <1>2, <1>3, <1>4 DEF IInv

LEMMA PutInv ==
  ASSUME IInv, NEW t \in Trips, NEW f \in Names, NEW c \in Contents \cup {None}, Put(t, f, c)
  PROVE  IInv'
<1> USE ReadingAssumptions
<1>0. file' \in Hand /\ file'.name = file.name /\ file'.digest = file.digest
  <2>1. file \in Hand
    BY DEF IInv, TypeOK, Hand
  <2>2. (file.moved \/ (at = t /\ file.name = f)) \in BOOLEAN
    OBVIOUS
  <2>3. QED
    BY <2>1, <2>2 DEF Put, Hand
<1>1. TypeOK'
  <2>1. folder' \in [Trips -> [Names -> Contents \cup {None}]]
    BY DEF IInv, TypeOK, Put
  <2>2. hashes' \in [Trips -> [Names -> Contents \cup {None}]]
    BY DEF IInv, TypeOK, Put
  <2>3. changes' \in 0..MaxChanges
    BY DEF IInv, TypeOK, Put
  <2>4. swapped' \in BOOLEAN
    BY Zenon DEF IInv, TypeOK, Put
  <2>5. QED
    BY <1>0, <2>1, <2>2, <2>3, <2>4 DEF IInv, TypeOK, Put, disk, Hand
<1>2. PlaceOK'
  <2>1. UNCHANGED <<run, at, left, made, manifest>>
    BY DEF Put, disk
  <2>2. at = None \/ ~Hashing \/ file.name = None => file' = NoFile
    <3>1. at = None \/ ~Hashing \/ file.name = None => file = NoFile
      BY DEF IInv, PlaceOK
    <3>2. ASSUME file = NoFile PROVE file' = NoFile
      BY <3>2 DEF Put, NoFile
    <3>3. QED
      BY <3>1, <3>2
  <2>3. QED
    BY <1>0, <2>1, <2>2 DEF IInv, PlaceOK, Phase, Hashing, Listed
<1>3. HashesAreTrue'
  BY DEF IInv, TypeOK, HashesAreTrue, Put
<1>4. ASSUME ~swapped' PROVE Honest'
  <2>1. ~swapped /\ Honest
    BY <1>4 DEF IInv, TypeOK, Put
  <2>2. (\A u \in Trips : Truthful(Listed(u)))' /\ Truthful(cache)'
    BY <2>1 DEF Honest, Put, disk, Listed, Truthful
  <2>3. (Phase("ingest") => \A d \in DOMAIN made : made[d] \in {d, None})'
    BY <2>1 DEF Honest, Put, Phase
  <2>4. (Phase("ingest") /\ at # None /\ file.digest # None => folder[at][file.name] \in {None, file.digest})'
    <3>1. SUFFICES ASSUME Phase("ingest"), at # None, file.digest # None
                   PROVE  folder'[at][file.name] \in {None, file.digest}
      BY <1>0 DEF Put, Phase
    <3>2. folder[at][file.name] \in {None, file.digest} /\ file.name \in Names /\ at \in Trips
      BY <2>1, <3>1 DEF Honest, IInv, TypeOK, PlaceOK, NoFile
    <3>3. CASE at = t /\ file.name = f
      <4>1. c \in {None, file.digest}
        BY Zenon, <1>4, <3>1, <3>3 DEF Put
      <4>2. QED
        BY <3>2, <3>3, <4>1 DEF Put, IInv, TypeOK
    <3>4. CASE ~(at = t /\ file.name = f)
      BY <3>2, <3>4 DEF Put, IInv, TypeOK
    <3>5. QED
      BY <3>3, <3>4
  <2>5. QED
    BY <2>2, <2>3, <2>4 DEF Honest
<1>5. QED
  BY <1>1, <1>2, <1>3, <1>4 DEF IInv

LEMMA HashFileInv ==
  ASSUME IInv, NEW t \in Trips, NEW f \in Names, HashFile(t, f)
  PROVE  IInv'
<1>1. TypeOK'
  BY DEF IInv, TypeOK, HashFile, disk, bounds
<1>2. PlaceOK'
  BY DEF IInv, PlaceOK, HashFile, disk, Phase, Hashing, Listed
<1>3. HashesAreTrue'
  BY DEF IInv, TypeOK, HashesAreTrue, HashFile
<1>4. Honest' = Honest /\ swapped' = swapped
  BY DEF Honest, HashFile, disk, Phase, Listed, Truthful
<1>5. QED
  BY <1>1, <1>2, <1>3, <1>4 DEF IInv

-----------------------------------------------------------------------------
(* The steps that leave the folders, the files the run writes and the      *)
(* caches alone.                                                           *)
LEMMA QuietInv ==
  ASSUME IInv, TypeOK', PlaceOK', UNCHANGED <<folder, hashes, disk, swapped>>,
         file' = NoFile \/ ((Phase("ingest")' => Phase("ingest")) /\ UNCHANGED <<at, file>>),
         Phase("ingest")' => made' = Empty \/ (Phase("ingest") /\ UNCHANGED made)
  PROVE  IInv'
<1>1. HashesAreTrue'
  BY DEF IInv, HashesAreTrue
<1>2. ASSUME Honest PROVE Honest'
  <2>1. (\A t \in Trips : Truthful(Listed(t)))' /\ Truthful(cache)'
    BY <1>2 DEF Honest, disk, Listed, Truthful
  <2>2. (Phase("ingest") => \A d \in DOMAIN made : made[d] \in {d, None})'
    BY <1>2, EmptyListing DEF Honest
  <2>3. (Phase("ingest") /\ at # None /\ file.digest # None => folder[at][file.name] \in {None, file.digest})'
    BY <1>2 DEF Honest, NoFile
  <2>4. QED
    BY <2>1, <2>2, <2>3 DEF Honest
<1>3. QED
  BY <1>1, <1>2 DEF IInv

(* What a run that has ended, or has no trip at hand, has left.            *)
LEMMA AtNoneType ==
  ASSUME AtNone
  PROVE  /\ at' = None /\ left' \in (SUBSET Names) \cup (SUBSET Contents)
         /\ file' \in Hand /\ made' \in Listings
BY EmptyListing DEF AtNone, NoFile, Hand

LEMMA AtNonePlace == ASSUME AtNone PROVE PlaceOK'
BY DEF AtNone, PlaceOK, Phase, Hashing, NoFile

LEMMA EndType ==
  ASSUME End
  PROVE  /\ run' \in [phase : Phases, batch : BOOLEAN,
                      trips : SUBSET Trips, todo : SUBSET Trips]
         /\ outcome' \in [Trips -> {"none", "done", "error"}]
BY DEF End, NoRun, Phases

LEMMA EndInv ==
  ASSUME IInv, End, UNCHANGED <<folder, hashes, disk, bounds, ahead, swapped>>
  PROVE  IInv'
<1>1. TypeOK'
  BY AtNoneType, EndType DEF IInv, TypeOK, End, disk, bounds, Hand
<1>2. PlaceOK' /\ file' = NoFile /\ made' = Empty
  BY AtNonePlace DEF End, AtNone
<1>3. QED
  BY <1>1, <1>2, QuietInv

LEMMA StartInv ==
  ASSUME IInv, NEW S \in SUBSET Trips, NEW batch \in BOOLEAN, Start(S, batch)
  PROVE  IInv'
<1> USE ReadingAssumptions
<1>1. TypeOK'
  <2>1. at = None
    BY DEF IInv, PlaceOK, Start
  <2>2. run' \in [phase : Phases, batch : BOOLEAN,
                  trips : SUBSET Trips, todo : SUBSET Trips]
    BY DEF Start, Phases
  <2>3. runs' \in 0..MaxRuns
    BY DEF IInv, TypeOK, Start
  <2>4. QED
    BY <2>1, <2>2, <2>3 DEF IInv, TypeOK, Start, disk
<1>2. PlaceOK' /\ made' = Empty /\ file' = NoFile
  BY DEF IInv, PlaceOK, Start, Phase, Hashing
<1>3. QED
  BY <1>1, <1>2, QuietInv DEF Start

(* A batch goes on after a step that only its list of trips knows of.      *)
LEMMA GoOnType ==
  ASSUME TypeOK, NEW todo \in SUBSET Trips, NEW phase \in Phases
  PROVE  /\ [run EXCEPT !.todo = todo] \in
              [phase : Phases, batch : BOOLEAN,
               trips : SUBSET Trips, todo : SUBSET Trips]
         /\ [run EXCEPT !.phase = phase, !.todo = todo] \in
              [phase : Phases, batch : BOOLEAN,
               trips : SUBSET Trips, todo : SUBSET Trips]
BY DEF TypeOK

LEMMA TripFailsInv == ASSUME IInv, TripFails PROVE IInv'
<1>1. CASE End
  BY <1>1, EndInv DEF TripFails
<1>2. CASE /\ outcome' = [outcome EXCEPT ![at] = "error"]
           /\ run' = [run EXCEPT !.todo = @ \ {at}]
           /\ AtNone
  <2>1. run.todo \ {at} \in SUBSET Trips
    BY DEF IInv, TypeOK
  <2>2. TypeOK'
    BY <1>2, <2>1, GoOnType, AtNoneType DEF IInv, TypeOK, TripFails, disk, bounds, Hand
  <2>3. PlaceOK' /\ file' = NoFile /\ made' = Empty
    BY <1>2, AtNonePlace DEF AtNone
  <2>4. QED
    BY <2>2, <2>3, QuietInv DEF TripFails
<1>3. QED
  BY <1>1, <1>2 DEF TripFails

LEMMA IngestInv == ASSUME IInv, NEW t \in Trips, Ingest(t) PROVE IInv'
<1> USE ReadingAssumptions
<1>1. TypeOK'
  BY DEF IInv, TypeOK, Ingest, disk, bounds, Files
<1>2. PlaceOK' /\ file' = NoFile /\ made' = Empty
  BY DEF IInv, PlaceOK, Ingest, Phase, Hashing, Files
<1>3. QED
  BY <1>1, <1>2, QuietInv DEF Ingest

LEMMA EnsureVlmInv == ASSUME IInv, EnsureVlm PROVE IInv'
<1>1. CASE End
  BY <1>1, EndInv DEF EnsureVlm
<1>2. CASE /\ run' = [run EXCEPT !.phase = "read", !.todo = NotFailed]
           /\ UNCHANGED <<at, left, file, made, outcome>>
  <2>1. NotFailed \in SUBSET Trips
    BY DEF IInv, TypeOK, NotFailed
  <2>2. at = None
    BY DEF IInv, TypeOK, EnsureVlm
  <2>3. TypeOK'
    BY <1>2, <2>1, <2>2, GoOnType DEF IInv, TypeOK, EnsureVlm, disk, bounds, Phases
  <2>4. Phase("read")'
    BY <1>2 DEF Phase, IInv, TypeOK
  <2>5. PlaceOK'
    BY <1>2, <2>2, <2>4 DEF IInv, PlaceOK, Phase, Hashing
  <2>6. QED
    BY <1>2, <2>3, <2>4, <2>5, QuietInv DEF EnsureVlm, Phase
<1>3. QED
  BY <1>1, <1>2 DEF EnsureVlm

LEMMA PrepareInv == ASSUME IInv, NEW t \in Trips, Prepare(t) PROVE IInv'
<1> USE ReadingAssumptions
<1>1. DOMAIN Listed(t) \in SUBSET Contents
  BY ListedListing, ListingParts DEF IInv
<1>2. TypeOK'
  <2>1. left' = DOMAIN Listed(t) /\ at' \in run'.todo
    BY DEF Prepare
  <2>2. left' \in (SUBSET Names) \cup (SUBSET Contents)
    BY <1>1, <2>1
  <2>3. QED
    BY <2>1, <2>2 DEF IInv, TypeOK, Prepare, disk, bounds
<1>3. Listed(t)' = Listed(t)
  BY ListedStays DEF IInv, Prepare, disk
<1>4. PlaceOK' /\ file' = NoFile /\ ~Phase("ingest")'
  BY <1>3 DEF IInv, PlaceOK, Prepare, Phase, Hashing, Listed, disk
<1>5. QED
  BY <1>2, <1>4, QuietInv DEF Prepare

LEMMA AfterReadingInv == ASSUME IInv, AfterReading PROVE IInv'
<1> DEFINE all == {t \in Trips : Files(t) # {}}
<1>1. CASE End
  BY <1>1, EndInv DEF AfterReading
<1>2. CASE /\ run' = [run EXCEPT !.phase = "owners", !.todo = all]
           /\ UNCHANGED <<at, left, file, made, outcome>>
  <2>1. at = None
    BY DEF IInv, TypeOK, AfterReading
  <2>2. all \in SUBSET Trips
    OBVIOUS
  <2> HIDE DEF all
  <2>3. TypeOK'
    BY <1>2, <2>1, <2>2, GoOnType DEF IInv, TypeOK, AfterReading, disk, bounds, Phases
  <2>4. Phase("owners")'
    BY <1>2 DEF Phase, IInv, TypeOK
  <2>5. PlaceOK'
    BY <1>2, <2>1, <2>4 DEF IInv, PlaceOK, Phase, Hashing
  <2>6. QED
    BY <1>2, <2>3, <2>4, <2>5, QuietInv DEF AfterReading, Phase
<1>3. QED
  BY <1>1, <1>2 DEF AfterReading

LEMMA OwnersKnownInv == ASSUME IInv, OwnersKnown PROVE IInv'
<1>1. NotFailed \in SUBSET Trips
  BY DEF IInv, TypeOK, NotFailed
<1>2. at = None
  BY DEF IInv, TypeOK, OwnersKnown
<1>3. TypeOK'
  BY <1>1, <1>2, GoOnType DEF IInv, TypeOK, OwnersKnown, disk, bounds, Phases
<1>4. Phase("finalize")'
  BY DEF Phase, IInv, TypeOK, OwnersKnown
<1>5. PlaceOK'
  BY <1>2, <1>4 DEF IInv, PlaceOK, Phase, Hashing, OwnersKnown
<1>6. QED
  BY <1>3, <1>4, <1>5, QuietInv DEF OwnersKnown, Phase

LEMMA TripOwnedInv == ASSUME IInv, TripOwned PROVE IInv'
<1>1. run.todo \ {at} \in SUBSET Trips
  BY DEF IInv, TypeOK
<1>2. TypeOK'
  BY <1>1, GoOnType, AtNoneType DEF IInv, TypeOK, TripOwned, disk, bounds, Hand
<1>3. PlaceOK' /\ file' = NoFile /\ made' = Empty
  BY AtNonePlace DEF TripOwned, AtNone
<1>4. QED
  BY <1>2, <1>3, QuietInv DEF TripOwned

LEMMA OwnersRaiseInv == ASSUME IInv, OwnersRaise PROVE IInv'
<1>1. UNCHANGED <<folder, hashes, disk, outcome, bounds, ahead, swapped>> /\ AtNone
      /\ run' = [run EXCEPT !.phase = "raised", !.todo = {}]
  BY DEF OwnersRaise
<1>2. TypeOK'
  BY <1>1, GoOnType, AtNoneType DEF IInv, TypeOK, disk, bounds, Hand, Phases
<1>3. PlaceOK' /\ file' = NoFile /\ made' = Empty
  BY <1>1, AtNonePlace DEF AtNone
<1>4. QED
  BY <1>1, <1>2, <1>3, QuietInv

LEMMA OwnedInv == ASSUME IInv, NEW f \in Names, Owned(f) PROVE IInv'
<1> USE ReadingAssumptions
<1>1. /\ run.phase = "owners" /\ at # None /\ left \subseteq Names
      /\ left' = left \ {f} /\ file' = NoFile
      /\ UNCHANGED <<folder, hashes, disk, run, at, made, outcome, bounds, ahead, swapped>>
  BY DEF IInv, PlaceOK, Owned, Phase, Hashing
<1>2. TypeOK'
  BY <1>1 DEF IInv, TypeOK, disk, bounds, NoFile
<1>3. PlaceOK' /\ ~Phase("ingest")'
  BY <1>1 DEF IInv, PlaceOK, Phase, Hashing, Listed, disk
<1>4. QED
  BY <1>1, <1>2, <1>3, QuietInv

LEMMA FinalizeInv == ASSUME IInv, NEW t \in Trips, Finalize(t) PROVE IInv'
<1>1. at = None
  BY DEF IInv, PlaceOK, Finalize
<1>2. run.todo \ {t} \in SUBSET Trips
  BY DEF IInv, TypeOK
<1>3. outcome' \in [Trips -> {"none", "done", "error"}]
  BY DEF IInv, TypeOK, Finalize
<1>4. TypeOK'
  BY <1>1, <1>2, <1>3, GoOnType DEF IInv, TypeOK, Finalize, disk, bounds
<1>5. run'.phase = run.phase
  BY DEF IInv, TypeOK, Finalize
<1>6. PlaceOK'
  BY <1>1, <1>5 DEF IInv, PlaceOK, Finalize, Phase, Hashing
<1>7. QED
  BY <1>4, <1>5, <1>6, QuietInv DEF Finalize, Phase

LEMMA ReturnInv == ASSUME IInv, Return PROVE IInv'
BY EndInv DEF Return

-----------------------------------------------------------------------------
(* The steps of a file.                                                    *)
LEMMA StatInv == ASSUME IInv, NEW f \in Names, Stat(f) PROVE IInv'
<1> USE ReadingAssumptions
<1>1. at \in Trips /\ at # None
  BY DEF IInv, TypeOK, PlaceOK, Stat
<1>2. file' = [name |-> f, digest |-> hashes[at][f], moved |-> FALSE] /\ file' \in Hand
  BY <1>1 DEF IInv, TypeOK, Stat, Hand
<1>3. TypeOK'
  BY <1>2 DEF IInv, TypeOK, Stat, disk, bounds, Hand
<1>4. PlaceOK'
  <2>1. file'.name # None
    BY <1>2
  <2>2. QED
    BY <1>1, <2>1 DEF IInv, PlaceOK, Stat, Phase, Hashing, Listed, disk
<1>5. HashesAreTrue'
  BY DEF IInv, HashesAreTrue, Stat
<1>6. ASSUME Honest PROVE Honest'
  <2>1. (\A t \in Trips : Truthful(Listed(t)))' /\ Truthful(cache)'
    BY <1>6 DEF Honest, Stat, disk, Listed, Truthful
  <2>2. (Phase("ingest") => \A d \in DOMAIN made : made[d] \in {d, None})'
    BY <1>6 DEF Honest, Stat, Phase
  <2>3. (Phase("ingest") /\ at # None /\ file.digest # None => folder[at][file.name] \in {None, file.digest})'
    BY <1>1, <1>2 DEF IInv, HashesAreTrue, Stat
  <2>4. QED
    BY <2>1, <2>2, <2>3 DEF Honest
<1>7. QED
  BY <1>3, <1>4, <1>5, <1>6 DEF IInv, Stat

LEMMA HashInv == ASSUME IInv, Hash PROVE IInv'
<1> USE ReadingAssumptions
<1> DEFINE content == folder[at][file.name]
<1>1. /\ at \in Trips /\ at # None /\ Hashing /\ file.name \in Names
      /\ content \in Contents /\ content # None
  BY DEF IInv, TypeOK, PlaceOK, Hash, NoFile
<1>2. file' = [file EXCEPT !.digest = content]
  BY DEF Hash
<1>3. file' \in Hand /\ file'.name = file.name /\ file'.digest = content
  <2>1. file \in Hand
    BY DEF IInv, TypeOK, Hand
  <2> HIDE DEF content
  <2>2. QED
    BY <1>1, <1>2, <2>1 DEF Hand
<1>4. hashes' \in {hashes, [hashes EXCEPT ![at][file.name] = content]}
  BY DEF Hash
<1>5. TypeOK'
  <2>1. hashes' \in [Trips -> [Names -> Contents \cup {None}]]
    <3>1. hashes \in [Trips -> [Names -> Contents \cup {None}]]
      BY DEF IInv, TypeOK
    <3> HIDE DEF content
    <3>2. QED
      BY <1>1, <1>4, <3>1
  <2>2. QED
    BY <1>3, <2>1 DEF IInv, TypeOK, Hash, disk, bounds, Hand
<1>6. PlaceOK'
  <2>1. file'.name # None
    BY <1>1, <1>3
  <2>2. QED
    BY <1>1, <2>1 DEF IInv, PlaceOK, Hash, Phase, Hashing, Listed, disk
<1>7. HashesAreTrue'
  BY <1>1, <1>4 DEF IInv, TypeOK, HashesAreTrue, Hash
<1>8. ASSUME Honest PROVE Honest'
  <2>1. (\A t \in Trips : Truthful(Listed(t)))' /\ Truthful(cache)'
    BY <1>8 DEF Honest, Hash, disk, Listed, Truthful
  <2>2. (Phase("ingest") => \A d \in DOMAIN made : made[d] \in {d, None})'
    BY <1>8 DEF Honest, Hash, Phase
  <2>3. (Phase("ingest") /\ at # None /\ file.digest # None => folder[at][file.name] \in {None, file.digest})'
    BY <1>3 DEF Hash
  <2>4. QED
    BY <2>1, <2>2, <2>3 DEF Honest
<1>9. QED
  BY <1>5, <1>6, <1>7, <1>8 DEF IInv, Hash

LEMMA MakeImageInv == ASSUME IInv, MakeImage PROVE IInv'
<1> USE ReadingAssumptions
<1> DEFINE d == file.digest
           prev == Listed(at)
           content == folder[at][file.name]
<1>1. /\ at \in Trips /\ at # None /\ Phase("ingest") /\ d \in Contents
      /\ file.name \in Names /\ left \subseteq Names
  BY DEF IInv, TypeOK, PlaceOK, MakeImage, NoFile, Hashing
<1>2. made \in Listings /\ prev \in Listings /\ content \in Contents \cup {None}
  BY <1>1, ListedListing DEF IInv, TypeOK
<1>3. \/ made' = made
      \/ d \in DOMAIN prev /\ made' = With(made, d, prev[d])
      \/ made' = With(made, d, None)
      \/ content # None /\ made' = With(made, d, content)
  BY DEF MakeImage
<1>4. made' \in Listings
  <2>1. d \in DOMAIN prev => prev[d] \in Contents \cup {None, Failed}
    BY <1>2, ListingParts
  <2> HIDE DEF d, prev, content
  <2>2. QED
    BY <1>1, <1>2, <1>3, <2>1, WithListing
<1>5. TypeOK'
  <2>1. left' \in SUBSET Names
    BY <1>1 DEF MakeImage
  <2>2. left' \in (SUBSET Names) \cup (SUBSET Contents)
    BY <2>1
  <2>3. file' \in Hand
    BY DEF MakeImage, NoFile, Hand
  <2>4. QED
    BY <1>4, <2>2, <2>3 DEF IInv, TypeOK, MakeImage, disk, bounds, Hand
<1>6. PlaceOK'
  BY <1>1 DEF IInv, PlaceOK, MakeImage, Phase, Hashing, Listed, disk
<1>7. HashesAreTrue'
  BY DEF IInv, HashesAreTrue, MakeImage
<1>8. ASSUME Honest PROVE Honest'
  <2>1. (\A t \in Trips : Truthful(Listed(t)))' /\ Truthful(cache)'
    BY <1>8 DEF Honest, MakeImage, disk, Listed, Truthful
  <2>2. \A e \in DOMAIN made : made[e] \in {e, None}
    BY <1>1, <1>8 DEF Honest
  <2>3. d \in DOMAIN prev => prev[d] = d
    BY <1>1, <1>8 DEF Honest, Truthful
  <2>4. content # None => content = d
    BY <1>1, <1>8 DEF Honest
  <2>5. made' = made \/ (\E x \in {d, None} : made' = With(made, d, x))
    <3> HIDE DEF d, prev, content
    <3>1. QED
      BY <1>3, <2>3, <2>4
  <2>6. \A e \in DOMAIN made' : made'[e] \in {e, None}
    <3> HIDE DEF d
    <3>1. QED
      BY <2>2, <2>5 DEF With
  <2>7. (Phase("ingest") /\ at # None /\ file.digest # None => folder[at][file.name] \in {None, file.digest})'
    BY DEF MakeImage, NoFile
  <2>8. QED
    BY <2>1, <2>6, <2>7 DEF Honest
<1>9. QED
  BY <1>5, <1>6, <1>7, <1>8 DEF IInv, MakeImage

-----------------------------------------------------------------------------
(* The steps that write.                                                   *)
LEMMA WriteManifestInv == ASSUME IInv, WriteManifest PROVE IInv'
<1> USE ReadingAssumptions
<1> DEFINE D == {e \in DOMAIN made : made[e] # None}
           new == [d \in D |-> made[d]]
<1>1. at \in Trips /\ Phase("ingest") /\ run.todo \ {at} \in SUBSET Trips
  BY DEF IInv, TypeOK, WriteManifest, ManifestDue
<1>2. manifest' = [manifest EXCEPT ![at] = new]
  BY DEF WriteManifest
<1>3. new \in Listings
  <2>1. D \in SUBSET Contents /\ \A d \in D : made[d] \in Contents \cup {None, Failed}
    BY ListingParts DEF IInv, TypeOK
  <2>2. new \in [D -> Contents \cup {None, Failed}]
    BY <2>1
  <2> HIDE DEF new, D
  <2>3. QED
    BY <2>1, <2>2, IsListing
<1>4. TypeOK'
  <2> HIDE DEF new
  <2>1. manifest' \in [Trips -> Listings \cup {None, Torn}]
    BY <1>1, <1>2, <1>3 DEF IInv, TypeOK
  <2>2. ahead' \subseteq Trips
    BY <1>1 DEF IInv, TypeOK, WriteManifest
  <2>3. run' \in [phase : Phases, batch : BOOLEAN,
                  trips : SUBSET Trips, todo : SUBSET Trips]
    BY <1>1, GoOnType DEF IInv, WriteManifest, Phases
  <2>4. UNCHANGED <<folder, hashes, extracted, cache, outcome, bounds, swapped>> /\ AtNone
    BY DEF WriteManifest
  <2>5. QED
    BY <2>1, <2>2, <2>3, <2>4, AtNoneType DEF IInv, TypeOK, bounds, Hand
<1>5. PlaceOK' /\ file' = NoFile /\ made' = Empty
  BY AtNonePlace DEF WriteManifest, AtNone
<1>6. HashesAreTrue'
  BY DEF IInv, HashesAreTrue, WriteManifest
<1>7. ASSUME Honest PROVE Honest'
  <2>1. Truthful(new)
    BY <1>1, <1>7 DEF Honest, Truthful
  <2>2. ASSUME NEW t \in Trips PROVE Truthful(Listed(t)')
    <3>1. CASE t = at
      <4> HIDE DEF new
      <4>1. Listed(t)' \in {Empty, new}
        BY <1>1, <1>2, <3>1 DEF Listed, IInv, TypeOK
      <4>2. QED
        BY <2>1, <4>1, EmptyListing DEF Truthful
    <3>2. CASE t # at
      <4> HIDE DEF new
      <4>1. Listed(t)' = Listed(t)
        BY <1>2, <3>2 DEF Listed, IInv, TypeOK
      <4>2. QED
        BY <1>7, <4>1 DEF Honest
    <3>3. QED
      BY <3>1, <3>2
  <2>3. (\A t \in Trips : Truthful(Listed(t)))' /\ Truthful(cache)'
    BY <1>7, <2>2 DEF Honest, WriteManifest, Truthful
  <2>4. QED
    BY <1>5, <2>3, EmptyListing DEF Honest, NoFile
<1>8. QED
  BY <1>4, <1>5, <1>6, <1>7 DEF IInv, WriteManifest

LEMMA ReadInv == ASSUME IInv, NEW d \in Contents, Read(d) PROVE IInv'
<1> USE ReadingAssumptions
<1> DEFINE l == Listed(at)
<1>1. at \in Trips /\ at # None /\ Phase("read") /\ left \subseteq DOMAIN l /\ d \in DOMAIN l
  BY DEF IInv, TypeOK, PlaceOK, Read
<1>2. l \in Listings /\ l[d] \in Contents \cup {None, Failed}
  BY <1>1, ListedListing, ListingParts DEF IInv
<1>3. \/ cache' = cache /\ Cached(d) /\ made' = With(made, d, cache[d])
      \/ cache' = With(cache, d, l[d]) /\ made' = With(made, d, l[d])
      \/ cache' = cache /\ made' = With(made, d, Failed)
  BY DEF Read, Keep
<1>4. TypeOK'
  <2>1. Cached(d) => cache[d] \in Contents \cup {None, Failed}
    BY ListingParts DEF IInv, TypeOK, Cached
  <2>2. made \in Listings /\ cache \in Listings
    BY DEF IInv, TypeOK
  <2>3. made' \in Listings /\ cache' \in Listings
    <3> HIDE DEF l
    <3>1. QED
      BY <1>2, <1>3, <2>1, <2>2, WithListing
  <2>4. left' \in SUBSET Contents
    BY <1>1, <1>2, ListingParts DEF Read
  <2>5. QED
    BY <2>3, <2>4 DEF IInv, TypeOK, Read, bounds
<1>5. PlaceOK'
  <2>1. Listed(at)' = l
    BY <1>1 DEF Read, Listed
  <2>2. left' \subseteq left
    BY DEF Read
  <2>3. QED
    BY <1>1, <2>1, <2>2 DEF IInv, PlaceOK, Read, Phase, Hashing
<1>6. HashesAreTrue'
  BY DEF IInv, HashesAreTrue, Read
<1>7. ASSUME Honest PROVE Honest'
  <2>1. l[d] = d /\ Truthful(cache)
    BY <1>1, <1>7 DEF Honest, Truthful
  <2>2. Truthful(cache')
    <3> HIDE DEF l
    <3>1. QED
      BY <1>3, <2>1, WithTruthful
  <2>3. (\A t \in Trips : Truthful(Listed(t)))' /\ Truthful(cache)'
    BY <1>7, <2>2 DEF Honest, Read, Listed, Truthful
  <2>4. file' = NoFile /\ ~Phase("ingest")'
    BY <1>1 DEF IInv, PlaceOK, Read, Phase, Hashing
  <2>5. QED
    BY <2>3, <2>4 DEF Honest, NoFile
<1>8. QED
  BY <1>4, <1>5, <1>6, <1>7 DEF IInv, Read

LEMMA WriteExtractedInv == ASSUME IInv, WriteExtracted PROVE IInv'
<1>1. at \in Trips /\ run.todo \ {at} \in SUBSET Trips
  BY ReadingAssumptions DEF IInv, TypeOK, WriteExtracted, ExtractedDue
<1>2. TypeOK'
  <2>1. extracted' \in [Trips -> Listings \cup {None, Torn}]
    BY <1>1 DEF IInv, TypeOK, WriteExtracted
  <2>2. QED
    BY <1>1, <2>1, GoOnType, AtNoneType DEF IInv, TypeOK, WriteExtracted, bounds, Hand
<1>3. PlaceOK' /\ file' = NoFile /\ made' = Empty
  BY AtNonePlace DEF WriteExtracted, AtNone
<1>4. HashesAreTrue'
  BY DEF IInv, HashesAreTrue, WriteExtracted
<1>5. ASSUME Honest PROVE Honest'
  <2>1. (\A t \in Trips : Truthful(Listed(t)))' /\ Truthful(cache)'
    BY <1>5 DEF Honest, WriteExtracted, Listed, Truthful
  <2>2. QED
    BY <1>3, <2>1, EmptyListing DEF Honest, NoFile
<1>6. QED
  BY <1>2, <1>3, <1>4, <1>5 DEF IInv, WriteExtracted

(* A manifest cut short lists nothing.                                     *)
LEMMA CrashInv == ASSUME IInv, Crash PROVE IInv'
<1>1. /\ manifest' \in [Trips -> Listings \cup {None, Torn}]
      /\ \A t \in Trips : manifest'[t] \in {manifest[t], Torn}
  BY DEF IInv, TypeOK, Crash
<1>2. extracted' \in [Trips -> Listings \cup {None, Torn}]
  BY DEF IInv, TypeOK, Crash
<1>3. TypeOK'
  BY <1>1, <1>2, AtNoneType, EndType DEF IInv, TypeOK, Crash, End, bounds, Hand
<1>4. PlaceOK' /\ file' = NoFile /\ made' = Empty
  BY AtNonePlace DEF Crash, End, AtNone
<1>5. HashesAreTrue'
  BY DEF IInv, HashesAreTrue, Crash
<1>6. ASSUME Honest PROVE Honest'
  <2>1. \A t \in Trips : Listed(t)' \in {Listed(t), Empty}
    BY <1>1 DEF Listed
  <2>2. (\A t \in Trips : Truthful(Listed(t)))' /\ Truthful(cache)'
    BY <1>6, <2>1, EmptyListing DEF Honest, Crash, Truthful
  <2>3. QED
    BY <1>4, <2>2, EmptyListing DEF Honest, NoFile
<1>7. QED
  BY <1>3, <1>4, <1>5, <1>6 DEF IInv, Crash

LEMMA StutterInv == ASSUME IInv, UNCHANGED vars PROVE IInv'
<1>1. TypeOK'
  BY DEF IInv, TypeOK, vars, disk, bounds
<1>2. PlaceOK'
  BY DEF IInv, PlaceOK, vars, disk, Phase, Hashing, Listed
<1>3. QED
  BY <1>1, <1>2, QuietInv DEF vars, IInv, PlaceOK, Phase

LEMMA NextInv == IInv /\ [Next]_vars => IInv'
<1> SUFFICES ASSUME IInv, [Next]_vars PROVE IInv'
  OBVIOUS
<1>1. CASE \E t \in Trips, f \in Names :
             Delete(t, f) \/ \E c \in Contents : Upload(t, f, c) \/ Replace(t, f, c)
  BY <1>1, PutInv DEF Delete, Upload, Replace
<1>2. CASE \E t \in Trips, f \in Names : HashFile(t, f)
  BY <1>2, HashFileInv
<1>3. CASE \E S \in SUBSET Trips \ {{}}, batch \in BOOLEAN : Start(S, batch)
  BY <1>3, StartInv
<1>4. CASE RunStep
  BY <1>4, IngestInv, PrepareInv, FinalizeInv, StatInv, HashInv, MakeImageInv, WriteManifestInv,
     EnsureVlmInv, ReadInv, WriteExtractedInv, AfterReadingInv, OwnedInv, TripOwnedInv, OwnersRaiseInv,
     OwnersKnownInv, ReturnInv, TripFailsInv DEF RunStep
<1>5. CASE Crash
  BY <1>5, CrashInv
<1>6. CASE UNCHANGED vars
  BY <1>6, StutterInv
<1>7. QED
  BY <1>1, <1>2, <1>3, <1>4, <1>5, <1>6 DEF Next

-----------------------------------------------------------------------------
THEOREM Invariance == Spec => []IInv
BY InitInv, NextInv, PTL DEF Spec

(* Every variable of the reading keeps its type (ingest.py, extract.py,    *)
(* cache.py and the reading phases of pipeline.py).                        *)
THEOREM ReadingTyping == Spec => []TypeOK
<1>1. IInv => TypeOK
  BY DEF IInv
<1>2. QED
  BY <1>1, Invariance, PTL

(* The hash cache never has a wrong digest for a file as it is, whatever   *)
(* is uploaded, removed or replaced while it is hashed (HashCache.sha256). *)
THEOREM DigestsAreTrue == Spec => []HashesAreTrue
<1>1. IInv => HashesAreTrue
  BY DEF IInv
<1>2. QED
  BY <1>1, Invariance, PTL

(* The cache of readings has for each digest what was read of a receipt    *)
(* with that digest and never a failure, through failing receipts and      *)
(* trips, crashes and torn files, unless a file was replaced between its   *)
(* hash and its image (ExtractCache, ingest, _extract_group).              *)
THEOREM ReadingsAreTrue == Spec => []CacheIsTrue
<1>1. IInv => CacheIsTrue
  BY DEF IInv, Honest, Truthful, CacheIsTrue
<1>2. QED
  BY <1>1, Invariance, PTL

-----------------------------------------------------------------------------
(* The reading of a trip is settled when it is not older than the          *)
(* manifest and neither file is cut short.                                 *)
Settled(t) == t \notin ahead /\ manifest[t] # Torn /\ extracted[t] \notin {None, Torn}
ReadTruly(listing) == \A d \in DOMAIN listing : listing[d] \in {d, Failed}

Aligned == \A t \in Trips : Settled(t) => DOMAIN Shown(t) = DOMAIN Listed(t)
NothingSkipped == Phase("read") /\ at # None => DOMAIN made \cup left = DOMAIN Listed(at)
ReadHonestly == (\A t \in Trips : ReadTruly(Shown(t))) /\ (Phase("read") => ReadTruly(made))

(* What a run has done for a trip that did not fail, by its phase.         *)
Progress(t) ==
    /\ Phase("ingest") /\ t \notin run.todo => manifest[t] # Torn
    /\ Phase("read") => manifest[t] # Torn /\ (t \notin run.todo => Settled(t))
    /\ Phase("owners") \/ Phase("raised") => Settled(t)
    /\ Phase("finalize") => Settled(t) /\ (t \notin run.todo => outcome[t] = "done")

ReadingInv ==
    /\ IInv
    /\ Aligned /\ NothingSkipped
    /\ ~swapped => ReadHonestly
    /\ \A t \in run.trips : outcome[t] # "error" => Progress(t)
    /\ Phase("finalize") => run.todo \subseteq NotFailed

LEMMA ListingIsThere == \A l \in Listings : l # None /\ l # Torn
BY ReadingAssumptions

(* Three steps alone write what a reader of the folder sees.               *)
LEMMA FewWrite ==
  ASSUME [Next]_vars
  PROVE  UNCHANGED <<manifest, extracted, ahead>> \/ WriteManifest \/ WriteExtracted \/ Crash
<1>1. CASE \E t \in Trips, f \in Names :
             Delete(t, f) \/ \E c \in Contents : Upload(t, f, c) \/ Replace(t, f, c)
  BY <1>1 DEF Delete, Upload, Replace, Put, disk
<1>2. CASE \E t \in Trips, f \in Names : HashFile(t, f)
  BY <1>2 DEF HashFile, disk
<1>3. CASE \E S \in SUBSET Trips \ {{}}, batch \in BOOLEAN : Start(S, batch)
  BY <1>3 DEF Start, disk
<1>4. CASE \E t \in Trips : Ingest(t) \/ Prepare(t) \/ Finalize(t)
  BY <1>4 DEF Ingest, Prepare, Finalize, disk
<1>5. CASE (\E f \in Names : Stat(f) \/ Owned(f)) \/ Hash \/ MakeImage
  BY <1>5 DEF Stat, Owned, Hash, MakeImage, disk
<1>6. CASE EnsureVlm \/ AfterReading \/ Return \/ TripFails
  BY <1>6 DEF EnsureVlm, AfterReading, Return, TripFails, disk
<1>7. CASE \E d \in Contents : Read(d)
  BY <1>7 DEF Read
<1>8. CASE TripOwned \/ OwnersRaise \/ OwnersKnown
  BY <1>8 DEF TripOwned, OwnersRaise, OwnersKnown, disk
<1>9. CASE UNCHANGED vars
  BY <1>9 DEF vars, disk
<1>10. QED
  BY <1>1, <1>2, <1>3, <1>4, <1>5, <1>6, <1>7, <1>8, <1>9 DEF Next, RunStep

(* Two of them read: the others leave the trip at hand as it was, or are   *)
(* of another phase, or leave none at hand.                                *)
LEMMA FewRead ==
  ASSUME IInv, [Next]_vars
  PROVE  \/ at' = None \/ ~Phase("read")'
         \/ (\E t \in Trips : Prepare(t)) \/ (\E d \in Contents : Read(d))
         \/ UNCHANGED <<run, at, left, made, manifest, extracted>>
<1>1. CASE \E t \in Trips, f \in Names :
             Delete(t, f) \/ \E c \in Contents : Upload(t, f, c) \/ Replace(t, f, c)
  BY <1>1 DEF Delete, Upload, Replace, Put, disk
<1>2. CASE \E t \in Trips, f \in Names : HashFile(t, f)
  BY <1>2 DEF HashFile, disk
<1>3. CASE \E S \in SUBSET Trips \ {{}}, batch \in BOOLEAN : Start(S, batch)
  BY <1>3 DEF Start, Phase
<1>4. CASE (\E t \in Trips : Ingest(t)) \/ (\E f \in Names : Stat(f) \/ Owned(f))
  BY <1>4 DEF Ingest, Stat, Owned, Phase, Hashing
<1>5. CASE Hash \/ MakeImage
  BY <1>5 DEF Hash, MakeImage, Phase, Hashing, IInv, PlaceOK, NoFile
<1>6. CASE \E t \in Trips : Finalize(t)
  BY <1>6 DEF Finalize, IInv, PlaceOK
<1>7. CASE EnsureVlm \/ AfterReading
  BY <1>7 DEF EnsureVlm, AfterReading, End, AtNone, IInv, TypeOK
<1>8. CASE WriteManifest \/ WriteExtracted \/ Return \/ TripFails \/ Crash
  BY <1>8 DEF WriteManifest, WriteExtracted, Return, TripFails, Crash, End, AtNone
<1>9. CASE TripOwned \/ OwnersRaise \/ OwnersKnown
  BY <1>9 DEF TripOwned, OwnersRaise, OwnersKnown, AtNone, IInv, TypeOK
<1>10. CASE UNCHANGED vars
  BY <1>10 DEF vars, disk
<1>11. QED
  BY <1>1, <1>2, <1>3, <1>4, <1>5, <1>6, <1>7, <1>8, <1>9, <1>10 DEF Next, RunStep

LEMMA SwappedStays == ASSUME [Next]_vars, swapped PROVE swapped'
<1>1. CASE \E t \in Trips, f \in Names :
             Delete(t, f) \/ \E c \in Contents : Upload(t, f, c) \/ Replace(t, f, c)
  <2>1. ASSUME NEW t, NEW f, NEW c, Put(t, f, c) PROVE swapped'
    BY <2>1, Zenon DEF Put
  <2>2. QED
    BY <1>1, <2>1, Zenon DEF Delete, Upload, Replace
<1>2. CASE UNCHANGED swapped
  BY <1>2, Zenon
<1>3. CASE \E t \in Trips : Ingest(t) \/ Prepare(t) \/ Finalize(t)
  BY <1>3, Zenon DEF Ingest, Prepare, Finalize
<1>4. CASE (\E f \in Names : Stat(f) \/ Owned(f)) \/ (\E d \in Contents : Read(d)) \/ (\E t \in Trips, f \in Names : HashFile(t, f))
  BY <1>4, Zenon DEF Stat, Owned, Read, HashFile
<1>5. CASE Hash \/ MakeImage \/ WriteManifest \/ WriteExtracted
  BY <1>5, Zenon DEF Hash, MakeImage, WriteManifest, WriteExtracted
<1>6. CASE EnsureVlm \/ AfterReading \/ Return \/ TripFails \/ Crash
  BY <1>6, Zenon DEF EnsureVlm, AfterReading, Return, TripFails, Crash
<1>7. CASE \E S \in SUBSET Trips \ {{}}, batch \in BOOLEAN : Start(S, batch)
  BY <1>7, Zenon DEF Start
<1>8. CASE TripOwned \/ OwnersRaise \/ OwnersKnown
  BY <1>8, Zenon DEF TripOwned, OwnersRaise, OwnersKnown
<1>9. QED
  BY <1>1, <1>2, <1>3, <1>4, <1>5, <1>6, <1>7, <1>8, Zenon DEF Next, RunStep, vars

-----------------------------------------------------------------------------
LEMMA AlignedNext ==
  ASSUME ReadingInv, [Next]_vars
  PROVE  Aligned'
<1>0. TypeOK /\ IInv
  BY DEF ReadingInv, IInv
<1>1. CASE UNCHANGED <<manifest, extracted, ahead>>
  BY <1>1 DEF ReadingInv, Aligned, Settled, Shown, Listed
<1>2. CASE WriteManifest
  <2>1. at \in ahead' /\ extracted' = extracted /\ ahead \subseteq ahead'
    BY <1>2 DEF WriteManifest
  <2>2. \A t \in Trips \ {at} : manifest'[t] = manifest[t]
    BY <1>0, <1>2 DEF WriteManifest, TypeOK
  <2>3. QED
    BY <2>1, <2>2 DEF ReadingInv, Aligned, Settled, Shown, Listed
<1>3. CASE WriteExtracted
  <2>1. at \in Trips /\ manifest' = manifest /\ ahead' = ahead \ {at}
    BY <1>0, <1>3, ReadingAssumptions DEF WriteExtracted, ExtractedDue, TypeOK
  <2>2. extracted'[at] = made /\ \A t \in Trips \ {at} : extracted'[t] = extracted[t]
    BY <1>0, <1>3, <2>1 DEF WriteExtracted, TypeOK
  <2>3. DOMAIN made = DOMAIN Listed(at) /\ \A t \in Trips : t = at => Shown(t)' = made
    <3>1. made # None /\ made # Torn
      BY <1>0, ListingIsThere DEF TypeOK
    <3>2. DOMAIN made = DOMAIN Listed(at)
      BY <1>3 DEF ReadingInv, NothingSkipped, WriteExtracted, ExtractedDue
    <3>3. QED
      BY <2>2, <3>1, <3>2 DEF Shown
  <2>4. \A t \in Trips : Listed(t)' = Listed(t)
    BY <2>1 DEF Listed
  <2>5. \A t \in Trips \ {at} : Settled(t)' => Settled(t) /\ Shown(t)' = Shown(t)
    BY <2>1, <2>2 DEF Settled, Shown
  <2>6. ASSUME NEW t \in Trips, Settled(t)' PROVE DOMAIN Shown(t)' = DOMAIN Listed(t)'
    BY <2>3, <2>4, <2>5, <2>6 DEF ReadingInv, Aligned
  <2>7. QED
    BY <2>6 DEF Aligned
<1>4. CASE Crash
  <2>1. \A t \in Trips : manifest'[t] \in {manifest[t], Torn} /\ extracted'[t] \in {extracted[t], Torn}
    BY <1>0, <1>4 DEF Crash, TypeOK
  <2>2. ahead' = ahead
    BY <1>4 DEF Crash
  <2>3. QED
    BY <2>1, <2>2 DEF ReadingInv, Aligned, Settled, Shown, Listed
<1>5. QED
  BY <1>1, <1>2, <1>3, <1>4, FewWrite

LEMMA NothingSkippedNext ==
  ASSUME ReadingInv, [Next]_vars
  PROVE  NothingSkipped'
<1>0. IInv
  BY DEF ReadingInv
<1>1. CASE at' = None \/ ~Phase("read")'
  BY <1>1 DEF NothingSkipped, Phase
<1>2. ASSUME NEW t \in Trips, Prepare(t) PROVE NothingSkipped'
  <2>1. made = Empty /\ made' = made /\ at' = t /\ left' = DOMAIN Listed(t) /\ manifest' = manifest
    BY <1>0, <1>2 DEF Prepare, IInv, PlaceOK, disk
  <2>2. DOMAIN made = {}
    BY <2>1, EmptyListing
  <2>3. QED
    BY <2>1, <2>2 DEF NothingSkipped, Listed
<1>3. ASSUME NEW d \in Contents, Read(d) PROVE NothingSkipped'
  <2>1. /\ DOMAIN made' = DOMAIN made \cup {d} /\ d \in left /\ left' = left \ {d}
        /\ at' = at /\ manifest' = manifest /\ run' = run
    BY <1>3 DEF Read, With
  <2>2. Listed(at)' = Listed(at)
    BY <2>1 DEF Listed
  <2>3. QED
    BY <2>1, <2>2 DEF ReadingInv, NothingSkipped, Phase
<1>4. CASE UNCHANGED <<run, at, left, made, manifest, extracted>>
  BY <1>4 DEF ReadingInv, NothingSkipped, Phase, Listed
<1>5. QED
  BY <1>0, <1>1, <1>2, <1>3, <1>4, FewRead

LEMMA ReadHonestlyNext ==
  ASSUME ReadingInv, IInv', [Next]_vars, ~swapped'
  PROVE  ReadHonestly'
<1>0. IInv /\ TypeOK /\ Honest /\ ReadHonestly
  <2>1. ~swapped
    BY SwappedStays
  <2>2. QED
    BY <2>1 DEF ReadingInv, IInv
<1>1. ReadTruly(Empty)
  BY EmptyListing DEF ReadTruly
<1>2. ASSUME NEW t \in Trips PROVE ReadTruly(Shown(t))'
  <2>1. CASE extracted'[t] \in {extracted[t], None, Torn}
    <3>1. Shown(t)' \in {Shown(t), Empty}
      BY <2>1 DEF Shown
    <3>2. QED
      BY <1>0, <1>1, <3>1 DEF ReadHonestly, ReadTruly
  <2>2. CASE WriteExtracted
    <3>1. Phase("read") /\ extracted'[t] \in {extracted[t], made}
      BY <1>0, <2>2 DEF WriteExtracted, ExtractedDue, TypeOK
    <3>2. Shown(t)' \in {Shown(t), Empty, made}
      BY <3>1 DEF Shown
    <3>3. QED
      BY <1>0, <1>1, <3>1, <3>2 DEF ReadHonestly, ReadTruly
  <2>3. CASE WriteManifest \/ Crash
    <3>1. extracted'[t] \in {extracted[t], Torn}
      BY <1>0, <2>3 DEF WriteManifest, Crash, TypeOK
    <3>2. QED
      BY <2>1, <3>1
  <2>4. QED
    BY <2>1, <2>2, <2>3, FewWrite
<1>3. ASSUME Phase("read")' PROVE ReadTruly(made)'
  <2>1. CASE at' = None
    BY <1>1, <2>1 DEF IInv, PlaceOK, ReadTruly
  <2>2. ASSUME NEW t \in Trips, Prepare(t) PROVE ReadTruly(made)'
    BY <1>0, <2>2 DEF Prepare, ReadHonestly, ReadTruly
  <2>3. ASSUME NEW d \in Contents, Read(d) PROVE ReadTruly(made)'
    <3> DEFINE l == Listed(at)
    <3>1. Phase("read") /\ at \in Trips /\ d \in DOMAIN l
      BY <1>0, <2>3, ReadingAssumptions DEF Read, IInv, TypeOK, PlaceOK
    <3>2. l[d] = d /\ (Cached(d) => cache[d] = d)
      BY <1>0, <3>1 DEF Honest, Truthful, Cached
    <3>3. made' = With(made, d, d) \/ made' = With(made, d, Failed)
      <4>1. \/ Cached(d) /\ made' = With(made, d, cache[d])
            \/ made' = With(made, d, l[d])
            \/ made' = With(made, d, Failed)
        BY <2>3 DEF Read
      <4> HIDE DEF l
      <4>2. QED
        BY <3>2, <4>1
    <3>4. ReadTruly(made)
      BY <1>0, <3>1 DEF ReadHonestly
    <3>5. QED
      BY <3>3, <3>4 DEF ReadTruly, With
  <2>4. CASE UNCHANGED <<run, at, left, made, manifest, extracted>>
    BY <1>0, <1>3, <2>4 DEF ReadHonestly, ReadTruly, Phase
  <2>5. CASE ~Phase("read")'
    BY <1>3, <2>5
  <2>6. QED
    BY <1>0, <2>1, <2>2, <2>3, <2>4, <2>5, FewRead
<1>4. QED
  BY <1>2, <1>3 DEF ReadHonestly

-----------------------------------------------------------------------------
(* What the run has done of its trips.                                     *)
Progresses == \A t \in run.trips : outcome[t] # "error" => Progress(t)

LEMMA NoRunProgress ==
  ASSUME End
  PROVE  Progresses' /\ (Phase("finalize") => run.todo \subseteq NotFailed)'
BY DEF End, NoRun, Progresses, Phase

LEMMA ProgressNext ==
  ASSUME ReadingInv, [Next]_vars
  PROVE  Progresses' /\ (Phase("finalize") => run.todo \subseteq NotFailed)'
<1>0. IInv /\ TypeOK /\ Progresses
  BY DEF ReadingInv, IInv, Progresses
<1>1. CASE UNCHANGED <<run, outcome, manifest, extracted, ahead>>
  BY <1>1 DEF ReadingInv, Progresses, Progress, Settled, Phase, NotFailed
<1>2. CASE End
  BY <1>2, NoRunProgress
<1>3. ASSUME NEW S \in SUBSET Trips, NEW batch \in BOOLEAN, Start(S, batch)
      PROVE  Progresses' /\ (Phase("finalize") => run.todo \subseteq NotFailed)'
  BY <1>3 DEF Start, Progresses, Progress, Phase
<1>4. CASE /\ at # None /\ UNCHANGED <<manifest, extracted, ahead>>
           /\ outcome' = [outcome EXCEPT ![at] = "error"]
           /\ run' = [run EXCEPT !.todo = @ \ {at}]
  <2>1. /\ run'.phase = run.phase /\ run'.trips = run.trips /\ run'.todo = run.todo \ {at}
        /\ at \in Trips /\ ~Phase("finalize") /\ run.trips \subseteq Trips
    BY <1>0, <1>4 DEF IInv, TypeOK, PlaceOK
  <2>2. outcome'[at] = "error" /\ \A t \in Trips \ {at} : outcome'[t] = outcome[t]
    BY <1>0, <1>4, <2>1 DEF TypeOK
  <2>3. QED
    BY <1>0, <1>4, <2>1, <2>2 DEF Progresses, Progress, Settled, Phase
<1>5. CASE WriteManifest
  <2> DEFINE new == [d \in {e \in DOMAIN made : made[e] # None} |-> made[d]]
  <2>1. /\ run'.phase = "ingest" /\ run.phase = "ingest" /\ run'.trips = run.trips /\ run'.todo = run.todo \ {at}
        /\ at \in Trips /\ run.trips \subseteq Trips /\ outcome' = outcome
    BY <1>0, <1>5 DEF WriteManifest, ManifestDue, Phase, TypeOK
  <2>2. new # Torn
    <3>1. {e \in DOMAIN made : made[e] # None} \in SUBSET Contents
          /\ \A d \in DOMAIN made : made[d] \in Contents \cup {None, Failed}
      BY <1>0, ListingParts DEF TypeOK
    <3>2. new \in Listings
      BY <3>1, IsListing
    <3>3. QED
      BY <3>2, ListingIsThere
  <2>3. manifest'[at] = new /\ \A t \in Trips \ {at} : manifest'[t] = manifest[t]
    BY <1>0, <1>5, <2>1 DEF WriteManifest, TypeOK
  <2> HIDE DEF new
  <2>4. QED
    BY <1>0, <2>1, <2>2, <2>3 DEF Progresses, Progress, Phase
<1>6. CASE /\ Phase("ingest") /\ run.todo = {} /\ UNCHANGED <<manifest, extracted, ahead, outcome>>
           /\ run' = [run EXCEPT !.phase = "read", !.todo = NotFailed]
  <2>1. run'.phase = "read" /\ run'.trips = run.trips /\ run'.todo = NotFailed
    BY <1>0, <1>6 DEF TypeOK
  <2>2. QED
    BY <1>0, <1>6, <2>1 DEF Progresses, Progress, Phase, NotFailed
<1>7. CASE WriteExtracted
  <2>1. /\ run'.phase = "read" /\ run.phase = "read" /\ run'.trips = run.trips /\ run'.todo = run.todo \ {at}
        /\ at \in Trips /\ run.trips \subseteq Trips /\ outcome' = outcome /\ manifest' = manifest
        /\ ahead' = ahead \ {at}
    BY <1>0, <1>7 DEF WriteExtracted, ExtractedDue, Phase, TypeOK
  <2>2. extracted'[at] = made /\ \A t \in Trips \ {at} : extracted'[t] = extracted[t]
    BY <1>0, <1>7, <2>1 DEF WriteExtracted, TypeOK
  <2>3. made \notin {None, Torn}
    BY <1>0, ListingIsThere DEF TypeOK
  <2>4. ASSUME NEW t \in run.trips, outcome[t] # "error" PROVE Progress(t)'
    BY <1>0, <2>1, <2>2, <2>3, <2>4 DEF Progresses, Progress, Settled, Phase
  <2>5. QED
    BY <2>1, <2>4 DEF Progresses, Phase
<1>8. CASE /\ Phase("read") /\ run.todo = {} /\ UNCHANGED <<manifest, extracted, ahead, outcome>>
           /\ run' = [run EXCEPT !.phase = "owners", !.todo = {t \in Trips : Files(t) # {}}]
  <2>1. run'.phase = "owners" /\ run'.trips = run.trips
    BY <1>0, <1>8 DEF TypeOK
  <2>2. QED
    BY <1>0, <1>8, <2>1 DEF Progresses, Progress, Settled, Phase, NotFailed
<1>9. ASSUME NEW t \in Trips, Finalize(t)
      PROVE  Progresses' /\ (Phase("finalize") => run.todo \subseteq NotFailed)'
  <2>1. /\ run'.phase = "finalize" /\ run.phase = "finalize" /\ run'.trips = run.trips /\ run'.todo = run.todo \ {t}
        /\ run.trips \subseteq Trips /\ UNCHANGED <<manifest, extracted, ahead>>
    BY <1>0, <1>9 DEF Finalize, Phase, TypeOK, disk
  <2>2. t \in run.todo /\ run.todo \subseteq NotFailed
    BY <1>9 DEF Finalize, ReadingInv
  <2>3. outcome'[t] \in {"done", "error"} /\ \A u \in Trips \ {t} : outcome'[u] = outcome[u]
    BY <1>0, <1>9 DEF Finalize, TypeOK
  <2>4. ASSUME NEW u \in run.trips, outcome'[u] # "error" PROVE Progress(u)'
    <3>1. outcome[u] # "error"
      BY <2>1, <2>2, <2>3, <2>4 DEF NotFailed
    <3>2. Settled(u)
      BY <1>0, <2>1, <3>1 DEF Progresses, Progress, Phase
    <3>3. u \notin run'.todo => outcome'[u] = "done"
      BY <1>0, <2>1, <2>3, <2>4, <3>1 DEF Progresses, Progress, Phase
    <3>4. QED
      BY <2>1, <3>2, <3>3 DEF Progress, Settled, Phase
  <2>5. run'.todo \subseteq NotFailed'
    BY <2>1, <2>2, <2>3 DEF NotFailed
  <2>6. QED
    BY <2>1, <2>4, <2>5 DEF Progresses
<1>10. CASE \E t \in Trips, f \in Names :
             Delete(t, f) \/ \E c \in Contents : Upload(t, f, c) \/ Replace(t, f, c)
  BY <1>1, <1>10 DEF Delete, Upload, Replace, Put, disk
<1>11. CASE \/ \E t \in Trips : Ingest(t) \/ Prepare(t) \/ \E f \in Names : HashFile(t, f)
            \/ \E f \in Names : Stat(f) \/ Owned(f)
  BY <1>1, <1>11 DEF HashFile, Ingest, Prepare, Stat, Owned, disk
<1>12. CASE Hash \/ MakeImage \/ (\E d \in Contents : Read(d)) \/ UNCHANGED vars
  BY <1>1, <1>12 DEF Hash, MakeImage, Read, vars, disk
<1>13. CASE TripFails
  BY <1>2, <1>4, <1>13 DEF TripFails, disk
<1>14. CASE EnsureVlm
  BY <1>2, <1>6, <1>14 DEF EnsureVlm, disk
<1>15. CASE AfterReading
  BY <1>2, <1>8, <1>15 DEF AfterReading, disk
<1>16. CASE Return \/ Crash
  BY <1>2, <1>16 DEF Return, Crash
<1>17. CASE TripOwned
  <2>1. run'.phase = "owners" /\ run'.trips = run.trips /\ run.phase = "owners"
    BY <1>0, <1>17 DEF TripOwned, Phase, TypeOK
  <2>2. QED
    BY <1>0, <1>17, <2>1 DEF TripOwned, Progresses, Progress, Settled, Phase, disk
<1>18. CASE OwnersRaise
  <2>1. run'.phase = "raised" /\ run.phase = "owners" /\ run'.trips = run.trips
    BY <1>0, <1>18 DEF OwnersRaise, Phase, TypeOK
  <2>2. QED
    BY <1>0, <1>18, <2>1 DEF OwnersRaise, Progresses, Progress, Settled, Phase, disk
<1>19. CASE OwnersKnown
  <2>1. /\ run'.phase = "finalize" /\ run.phase = "owners" /\ run'.trips = run.trips
        /\ run'.todo = NotFailed /\ UNCHANGED <<outcome, manifest, extracted, ahead>>
    BY <1>0, <1>19 DEF OwnersKnown, Phase, TypeOK, disk
  <2>2. NotFailed' = NotFailed
    BY <2>1 DEF NotFailed
  <2>3. QED
    BY <1>0, <2>1, <2>2 DEF Progresses, Progress, Settled, Phase, NotFailed
<1>20. QED
  BY <1>3, <1>5, <1>7, <1>9, <1>10, <1>11, <1>12, <1>13, <1>14, <1>15, <1>16, <1>17, <1>18, <1>19
     DEF Next, RunStep

LEMMA ReadingInvariance == Spec => []ReadingInv
<1>1. Init => ReadingInv
  <2> SUFFICES ASSUME Init PROVE ReadingInv
    OBVIOUS
  <2>1. \A t \in Trips : extracted[t] = None /\ Shown(t) = Empty
    BY DEF Init, Shown
  <2>2. Aligned
    BY <2>1 DEF Aligned, Settled
  <2>3. ReadHonestly
    BY <2>1, EmptyListing DEF Init, ReadHonestly, ReadTruly
  <2>4. run.trips = {} /\ ~Phase("finalize") /\ at = None
    BY DEF Init, NoRun, Phase
  <2>5. QED
    BY <2>2, <2>3, <2>4, InitInv DEF ReadingInv, NothingSkipped
<1>2. ReadingInv /\ [Next]_vars => ReadingInv'
  <2> SUFFICES ASSUME ReadingInv, [Next]_vars PROVE ReadingInv'
    OBVIOUS
  <2>1. IInv'
    BY NextInv DEF ReadingInv
  <2>2. Aligned' /\ NothingSkipped'
    BY AlignedNext, NothingSkippedNext
  <2>3. ~swapped' => ReadHonestly'
    BY <2>1, ReadHonestlyNext
  <2>4. Progresses' /\ (Phase("finalize") => run.todo \subseteq NotFailed)'
    BY ProgressNext
  <2>5. QED
    BY <2>1, <2>2, <2>3, <2>4 DEF ReadingInv, Progresses
<1>3. QED
  BY <1>1, <1>2, PTL DEF Spec

(* A page that asks for no other reading shows the receipts that are in    *)
(* the folder, each read of its own file or marked as not read: the        *)
(* digests it compares are those of the files as they are, and a reading   *)
(* that is not behind its manifest has all of the manifest's receipts      *)
(* (service.py trip_status, _extract_group).                               *)
THEOREM PagesShowTheFolder == Spec => []ShownIsInFolder
<1>1. ReadingInv => ShownIsInFolder
  <2> SUFFICES ASSUME ReadingInv, NEW t \in Trips,
                      t \notin ahead, manifest[t] # Torn, extracted[t] \notin {None, Torn}, ~Stale(t)
               PROVE  /\ DOMAIN Shown(t) = Digests(t)
                      /\ ~swapped => \A d \in Digests(t) : Shown(t)[d] \in {d, Failed}
    BY DEF ShownIsInFolder
  <2>1. DOMAIN Shown(t) = DOMAIN Listed(t)
    BY DEF ReadingInv, Aligned, Settled
  <2>2. Digests(t) = DOMAIN Listed(t)
    <3>1. \A f \in Names : hashes[t][f] \in {None, folder[t][f]}
      BY DEF ReadingInv, IInv, HashesAreTrue
    <3>2. \A f \in Files(t) : (IF hashes[t][f] # None THEN hashes[t][f] ELSE folder[t][f]) = folder[t][f]
      BY <3>1 DEF Files
    <3>3. QED
      BY <3>2 DEF Stale, Digests
  <2>3. ASSUME ~swapped, NEW d \in Digests(t) PROVE Shown(t)[d] \in {d, Failed}
    BY <2>1, <2>2, <2>3 DEF ReadingInv, ReadHonestly, ReadTruly
  <2>4. QED
    BY <2>1, <2>2, <2>3
<1>2. QED
  BY <1>1, ReadingInvariance, PTL

(* A trip of a batch that failed neither while it was hashed nor while it  *)
(* was read has the reading of all that its manifest lists when the work   *)
(* is over, whichever trips and receipts failed before it, and an outcome  *)
(* too if the batch returns its results (run_batch, extract_receipts).     *)
(* That it returns them is not claimed: trip_file_owners may raise.        *)
THEOREM BatchesAccount == Spec => []EveryTripAccounted
<1>1. ReadingInv => EveryTripAccounted
  <2> SUFFICES ASSUME ReadingInv, Over, NEW t \in run.trips, outcome[t] # "error"
               PROVE  /\ Phase("finalize") => outcome[t] = "done"
                      /\ t \notin ahead
                      /\ extracted[t] # None /\ DOMAIN Shown(t) = DOMAIN Listed(t)
    BY DEF EveryTripAccounted
  <2>1. Settled(t) /\ (Phase("finalize") => outcome[t] = "done")
    BY DEF ReadingInv, Progress, Over
  <2>2. t \in Trips
    BY DEF ReadingInv, IInv, TypeOK
  <2>3. QED
    BY <2>1, <2>2 DEF ReadingInv, Aligned, Settled
<1>2. QED
  BY <1>1, ReadingInvariance, PTL
=============================================================================
