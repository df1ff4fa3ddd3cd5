------------------------------ MODULE Reading -------------------------------
(***************************************************************************)
(* How receipts are read (ingest.py, extract.py, cache.py, the hash cache  *)
(* of workspace.py, and the phases of pipeline.py extract_trip and         *)
(* run_batch that call them): the files of a trip are hashed and turned    *)
(* into images, manifest.json lists them, each receipt is looked up in the *)
(* cache or read by the local model, and receipts.extracted.json gets the  *)
(* result.  People put files into the folder and remove them meanwhile, a  *)
(* file or a receipt may fail, and the process may die at any step.  Runs  *)
(* hold out_lock, so they do not overlap.                                  *)
(***************************************************************************)
EXTENDS Naturals, FiniteSets

CONSTANTS Trips,
          Names,      (* of the files of a trip                            *)
          Contents,   (* of a file; a digest stands for the content        *)
          Blank,      (* those that are PDF files with no visible page     *)
          MaxChanges, (* bounds what people do to the folders              *)
          MaxRuns,    (* bounds the runs                                   *)
          None, Torn, Failed

(* What the listings may say of a digest.                                  *)
Listings == UNION {[D -> Contents \cup {None, Failed}] : D \in SUBSET Contents}

ASSUME ReadingAssumptions ==
    /\ MaxChanges \in Nat /\ MaxRuns \in Nat
    /\ Cardinality({None, Torn, Failed}) = 3
    /\ Blank \subseteq Contents
    /\ {None, Torn, Failed} \cap Contents = {} /\ None \notin Trips \cup Names
    /\ {None, Torn} \cap Listings = {}

VARIABLES folder,    (* data/: the content of each file                    *)
          hashes,    (* hashes.json: the digest stored with the present
                        size and time of each file.  (An entry that an
                        unflushed or an older copy of the cache loses is
                        only made again: that is left out.)                *)
          manifest,  (* manifest.json: what the image of each digest shows *)
          extracted, (* receipts.extracted.json: what was read of each     *)
          cache,     (* ExtractCache: what was read of each digest         *)
          run,       (* how far the run is, what it is for                 *)
          at,        (* the trip at hand                                   *)
          left,      (* its files to hash, or its digests to read          *)
          file,      (* the file at hand                                   *)
          made,      (* the images, or the readings, of the trip so far    *)
          outcome,   (* what became of each trip in the run                *)
          changes, runs,
          ahead,     (* history: trips with a newer manifest than reading  *)
          swapped    (* history: a file was replaced after a run had hashed
                        it and before the image was made                   *)

disk == <<manifest, extracted, cache>>
bounds == <<changes, runs>>
vars == <<folder, hashes, disk, run, at, left, file, made, outcome, bounds, ahead, swapped>>

(* A listing gives some digests what their image shows or was read as.     *)
Empty == [d \in {} |-> None]
With(listing, d, x) == [e \in DOMAIN listing \cup {d} |-> IF e = d THEN x ELSE listing[e]]

(* What manifest.json lists (_previous) and receipts.extracted.json shows. *)
Listed(t) == IF manifest[t] \in {None, Torn} THEN Empty ELSE manifest[t]
Shown(t) == IF extracted[t] \in {None, Torn} THEN Empty ELSE extracted[t]

(* ExtractCache: has and get, and put, which replaces a file of its own.   *)
Cached(d) == d \in DOMAIN cache
Keep(d, reading) == cache' = With(cache, d, reading)

Phases == {"idle", "ingest", "read", "owners", "finalize", "raised"}
NoRun == [phase |-> "idle", batch |-> FALSE, trips |-> {}, todo |-> {}]
NoFile == [name |-> None, digest |-> None, moved |-> FALSE]
Files(t) == {f \in Names : folder[t][f] # None}
Digests(t) == {folder[t][f] : f \in Files(t)}

Init ==
    /\ folder \in [Trips -> [Names -> Contents \cup {None}]]
    /\ hashes = [t \in Trips |-> [f \in Names |-> None]]
    /\ manifest = [t \in Trips |-> None] /\ extracted = [t \in Trips |-> None]
    /\ cache = Empty
    /\ run = NoRun /\ at = None /\ left = {} /\ file = NoFile /\ made = Empty
    /\ outcome = [t \in Trips |-> "none"]
    /\ changes = 0 /\ runs = 0
    /\ ahead = {} /\ swapped = FALSE

-----------------------------------------------------------------------------
Phase(p) == run.phase = p

(* A file of the folder becomes another one, or goes (c = None).  What     *)
(* hashes.json has of it no longer bears its size and time.                *)
Put(t, f, c) ==
    LET hand == at = t /\ file.name = f
        hashed == Phase("ingest") /\ hand /\ file.digest # None
    IN  /\ changes < MaxChanges
        /\ changes' = changes + 1
        /\ folder' = [folder EXCEPT ![t][f] = c]
        /\ hashes' = [hashes EXCEPT ![t][f] = None]
        /\ file' = [file EXCEPT !.moved = @ \/ hand]
        /\ swapped' = (swapped \/ (hashed /\ c \notin {None, file.digest}))
        /\ UNCHANGED <<disk, run, at, left, made, outcome, runs, ahead>>

(* save_files: a name that is taken by another receipt is left to it.      *)
Upload(t, f, c) == folder[t][f] \in {None, c} /\ Put(t, f, c)

(* delete_file.                                                            *)
Delete(t, f) == folder[t][f] # None /\ Put(t, f, None)

(* Somebody replaces a file in the folder itself.                          *)
Replace(t, f, c) == folder[t][f] \notin {None, c} /\ Put(t, f, c)

(* HashCache.sha256 of a page that shows a status or looks for duplicates, *)
(* here at once.  A page that meets a file it cannot open, or that is gone *)
(* since the folder was listed, raises and leaves nothing behind.          *)
HashFile(t, f) ==
    /\ hashes[t][f] # folder[t][f]
    /\ hashes' = [hashes EXCEPT ![t][f] = folder[t][f]]
    /\ UNCHANGED <<folder, disk, run, at, left, file, made, outcome, bounds, ahead, swapped>>

AtNone == at' = None /\ left' = {} /\ file' = NoFile /\ made' = Empty
NotFailed == {t \in run.trips : outcome[t] # "error"}

(* The run returns or raises; what it kept in memory is forgotten.         *)
End ==
    /\ run' = NoRun /\ AtNone
    /\ outcome' = [t \in Trips |-> "none"]

(* extract_trip of one trip, or run_batch of several; discover leaves out  *)
(* the trips without files.                                                *)
Start(S, batch) ==
    /\ Phase("idle") /\ runs < MaxRuns
    /\ \A t \in S : Files(t) # {}
    /\ batch \/ Cardinality(S) = 1
    /\ runs' = runs + 1
    /\ run' = [phase |-> "ingest", batch |-> batch, trips |-> S, todo |-> S]
    /\ UNCHANGED <<folder, hashes, disk, at, left, file, made, outcome, changes, ahead, swapped>>

(* Mutant: the first failure ends the phase.                               *)
TripFails_Stops ==
    /\ at # None /\ ~Phase("owners")
    /\ IF run.batch
       THEN /\ outcome' = [outcome EXCEPT ![at] = "error"]
            /\ run' = [run EXCEPT !.todo = {}]
            /\ AtNone
       ELSE End
    /\ UNCHANGED <<folder, hashes, disk, bounds, ahead, swapped>>

(* An error that is not of one receipt: a batch goes on with the next      *)
(* trip, extract_trip raises.                                              *)
TripFails ==
    /\ at # None /\ ~Phase("owners")
    /\ IF run.batch
       THEN /\ outcome' = [outcome EXCEPT ![at] = "error"]
            /\ run' = [run EXCEPT !.todo = @ \ {at}]
            /\ AtNone
       ELSE End
    /\ UNCHANGED <<folder, hashes, disk, bounds, ahead, swapped>>

-----------------------------------------------------------------------------
(* A run hashes files to read them, and once more to know which trips have *)
(* the same receipt (trip_file_owners).                                    *)
Hashing == Phase("ingest") \/ Phase("owners")

(* ingest, and trip_file_owners: the files of a trip, as the folder lists  *)
(* them at the beginning.                                                  *)
Ingest(t) ==
    /\ Hashing /\ at = None /\ t \in run.todo
    /\ at' = t
    /\ left' = Files(t)
    /\ UNCHANGED <<folder, hashes, disk, run, file, made, outcome, bounds, ahead, swapped>>

(* HashCache.sha256, first part: size and time, and what is stored with    *)
(* them.  A file that is gone raises: TripFails, OwnersRaise.              *)
Stat(f) ==
    /\ Hashing /\ file = NoFile /\ f \in left
    /\ folder[at][f] # None
    /\ file' = [name |-> f, digest |-> hashes[at][f], moved |-> FALSE]
    /\ UNCHANGED <<folder, hashes, disk, run, at, left, made, outcome, bounds, ahead, swapped>>

(* Mutant: the size and time stored are those after the reading.           *)
Hash_StatAfter ==
    /\ file.name # None /\ file.digest = None
    /\ \E c \in Contents :
         /\ IF file.moved THEN c \in Contents ELSE c = folder[at][file.name]
         /\ hashes' = [hashes EXCEPT ![at][file.name] = c]
         /\ file' = [file EXCEPT !.digest = c]
    /\ UNCHANGED <<folder, disk, run, at, left, made, outcome, bounds, ahead, swapped>>

(* The rest of it: the content is read, and its digest is stored with the  *)
(* size and time found before.                                             *)
Hash ==
    LET content == folder[at][file.name]
    IN  /\ file.name # None /\ file.digest = None
        /\ content # None
        /\ file' = [file EXCEPT !.digest = content]
        /\ hashes' = IF file.moved THEN hashes ELSE [hashes EXCEPT ![at][file.name] = content]
        /\ UNCHANGED <<folder, disk, run, at, left, made, outcome, bounds, ahead, swapped>>

(* A digest met before is a duplicate; images of the last manifest serve   *)
(* again; otherwise the file is read once more for its images, of which a  *)
(* blank one has none.                                                     *)
MakeImage ==
    LET d == file.digest
        prev == Listed(at)
        content == folder[at][file.name]
    IN  /\ Phase("ingest") /\ d # None
        /\ d \in DOMAIN made \cup DOMAIN prev \/ content # None
        /\ made' = CASE d \in DOMAIN made -> made
                     [] d \notin DOMAIN made /\ d \in DOMAIN prev -> With(made, d, prev[d])
                     [] d \notin DOMAIN made \cup DOMAIN prev /\ content \in Blank -> With(made, d, None)
                     [] OTHER -> With(made, d, content)
        /\ left' = left \ {file.name}
        /\ file' = NoFile
        /\ UNCHANGED <<folder, hashes, disk, run, at, outcome, bounds, ahead, swapped>>

ManifestDue == Phase("ingest") /\ at # None /\ left = {}

WriteManifest ==
    /\ ManifestDue
    /\ manifest' = [manifest EXCEPT ![at] = [d \in {e \in DOMAIN made : made[e] # None} |-> made[d]]]
    /\ ahead' = ahead \cup {at}
    /\ run' = [run EXCEPT !.todo = @ \ {at}]
    /\ AtNone
    /\ UNCHANGED <<folder, hashes, extracted, cache, outcome, bounds, swapped>>

-----------------------------------------------------------------------------
(* _ensure_vlm: with something to read and no local model the run raises.  *)
EnsureVlm ==
    /\ Phase("ingest") /\ run.todo = {}
    /\ \/ /\ run' = [run EXCEPT !.phase = "read", !.todo = NotFailed]
          /\ UNCHANGED <<at, left, file, made, outcome>>
       \/ /\ \E t \in NotFailed, d \in Contents : d \in DOMAIN Listed(t) /\ ~Cached(d)
          /\ End
    /\ UNCHANGED <<folder, hashes, disk, bounds, ahead, swapped>>

(* prepare_trip: the receipts of the images just made.                     *)
Prepare(t) ==
    /\ Phase("read") /\ at = None /\ t \in run.todo
    /\ at' = t
    /\ left' = DOMAIN Listed(t)
    /\ UNCHANGED <<folder, hashes, disk, run, file, made, outcome, bounds, ahead, swapped>>

(* Mutant: a receipt that could not be read is cached as such.             *)
Read_CachesFailure(d) ==
    /\ Phase("read") /\ d \in left
    /\ left' = left \ {d}
    /\ \E reading \in IF Cached(d) THEN {cache[d]} ELSE {Listed(at)[d], Failed} :
         made' = With(made, d, reading) /\ Keep(d, reading)
    /\ UNCHANGED <<folder, hashes, manifest, extracted, run, at, file, outcome, bounds, ahead, swapped>>

(* _extract_group: from the cache, or from the image by the model; what    *)
(* the model fails to read is marked and not cached.                       *)
Read(d) ==
    /\ Phase("read") /\ d \in left
    /\ left' = left \ {d}
    /\ IF Cached(d)
       THEN made' = With(made, d, cache[d]) /\ UNCHANGED cache
       ELSE \/ made' = With(made, d, Listed(at)[d]) /\ Keep(d, Listed(at)[d])
            \/ made' = With(made, d, Failed) /\ UNCHANGED cache
    /\ UNCHANGED <<folder, hashes, manifest, extracted, run, at, file, outcome, bounds, ahead, swapped>>

ExtractedDue == Phase("read") /\ at # None /\ left = {}

WriteExtracted ==
    /\ ExtractedDue
    /\ extracted' = [extracted EXCEPT ![at] = made]
    /\ ahead' = ahead \ {at}
    /\ run' = [run EXCEPT !.todo = @ \ {at}]
    /\ AtNone
    /\ UNCHANGED <<folder, hashes, manifest, cache, outcome, bounds, swapped>>

(* extract_trip returns; run_batch goes on to hash every file under data/, *)
(* of trips that are not in the batch, or have failed in it, too.          *)
AfterReading ==
    /\ Phase("read") /\ run.todo = {}
    /\ IF run.batch
       THEN /\ run' = [run EXCEPT !.phase = "owners", !.todo = {t \in Trips : Files(t) # {}}]
            /\ UNCHANGED <<at, left, file, made, outcome>>
       ELSE End
    /\ UNCHANGED <<folder, hashes, disk, bounds, ahead, swapped>>

(* trip_file_owners: a file has its digest, or went before _is_receipt     *)
(* looked at it.                                                           *)
Owned(f) ==
    /\ Phase("owners") /\ f \in left
    /\ (file.name = f /\ file.digest # None) \/ (file = NoFile /\ folder[at][f] = None)
    /\ left' = left \ {f}
    /\ file' = NoFile
    /\ UNCHANGED <<folder, hashes, disk, run, at, made, outcome, bounds, ahead, swapped>>

TripOwned ==
    /\ Phase("owners") /\ at # None /\ left = {}
    /\ run' = [run EXCEPT !.todo = @ \ {at}]
    /\ AtNone
    /\ UNCHANGED <<folder, hashes, disk, outcome, bounds, ahead, swapped>>

(* A file that went after _is_receipt, or cannot be opened, like one that  *)
(* made its trip fail before, raises outside every try: run_batch ends     *)
(* without results.                                                        *)
OwnersRaise ==
    /\ Phase("owners") /\ left # {} /\ file.digest = None
    /\ run' = [run EXCEPT !.phase = "raised", !.todo = {}]
    /\ AtNone
    /\ UNCHANGED <<folder, hashes, disk, outcome, bounds, ahead, swapped>>

OwnersKnown ==
    /\ Phase("owners") /\ run.todo = {}
    /\ run' = [run EXCEPT !.phase = "finalize", !.todo = NotFailed]
    /\ UNCHANGED <<folder, hashes, disk, at, left, file, made, outcome, bounds, ahead, swapped>>

(* finalize_trip (module Documents).                                       *)
Finalize(t) ==
    /\ Phase("finalize") /\ t \in run.todo
    /\ run' = [run EXCEPT !.todo = @ \ {t}]
    /\ \E o \in {"done", "error"} : outcome' = [outcome EXCEPT ![t] = o]
    /\ UNCHANGED <<folder, hashes, disk, at, left, file, made, bounds, ahead, swapped>>

(* The caller has the results, or the exception.                           *)
Over == (Phase("finalize") \/ Phase("raised")) /\ run.todo = {}

Return ==
    /\ Over
    /\ End
    /\ UNCHANGED <<folder, hashes, disk, bounds, ahead, swapped>>

(* The process dies.  manifest.json and receipts.extracted.json are        *)
(* written in place and may be left cut short; the caches are replaced.    *)
Crash ==
    /\ ~Phase("idle")
    /\ End
    /\ \/ UNCHANGED <<manifest, extracted>>
       \/ /\ ManifestDue
          /\ manifest' = [manifest EXCEPT ![at] = Torn]
          /\ UNCHANGED extracted
       \/ /\ ExtractedDue
          /\ extracted' = [extracted EXCEPT ![at] = Torn]
          /\ UNCHANGED manifest
    /\ UNCHANGED <<folder, hashes, cache, bounds, ahead, swapped>>

RunStep ==
    \/ \E t \in Trips : Ingest(t) \/ Prepare(t) \/ Finalize(t)
    \/ \E f \in Names : Stat(f) \/ Owned(f)
    \/ Hash \/ MakeImage \/ WriteManifest
    \/ EnsureVlm
    \/ \E d \in Contents : Read(d)
    \/ WriteExtracted \/ AfterReading
    \/ TripOwned \/ OwnersRaise \/ OwnersKnown \/ Return
    \/ TripFails

Next ==
    \/ \E t \in Trips, f \in Names :
         Delete(t, f) \/ \E c \in Contents : Upload(t, f, c) \/ Replace(t, f, c)
    \/ \E t \in Trips, f \in Names : HashFile(t, f)
    \/ \E S \in SUBSET Trips \ {{}}, batch \in BOOLEAN : Start(S, batch)
    \/ RunStep
    \/ Crash

Spec == Init /\ [][Next]_vars
-----------------------------------------------------------------------------
(* Mutant: the numbers of files and of images are compared.                *)
Stale_Count(t) == Cardinality(Files(t)) # Cardinality(DOMAIN Listed(t))

(* trip_status: the files are not those of the manifest.                   *)
Stale(t) ==
    LET Digest(f) == IF hashes[t][f] # None THEN hashes[t][f] ELSE folder[t][f]
    IN  {Digest(f) : f \in Files(t)} # DOMAIN Listed(t)

(* Every variable has a value that the code can give it: a listing is of   *)
(* digests, a trip at hand is one of the run's (ingest.py, extract.py).    *)
TypeOK ==
    /\ folder \in [Trips -> [Names -> Contents \cup {None}]]
    /\ hashes \in [Trips -> [Names -> Contents \cup {None}]]
    /\ manifest \in [Trips -> Listings \cup {None, Torn}]
    /\ extracted \in [Trips -> Listings \cup {None, Torn}]
    /\ cache \in Listings /\ made \in Listings
    /\ run \in [phase : Phases, batch : BOOLEAN,
                trips : SUBSET Trips, todo : SUBSET Trips]
    /\ at \in run.todo \cup {None}
    /\ left \in (SUBSET Names) \cup (SUBSET Contents)
    /\ file \in [name : Names \cup {None}, digest : Contents \cup {None}, moved : BOOLEAN]
    /\ outcome \in [Trips -> {"none", "done", "error"}]
    /\ changes \in 0..MaxChanges /\ runs \in 0..MaxRuns
    /\ ahead \subseteq Trips /\ swapped \in BOOLEAN

(* A digest stored for a file as it is now is that of its content, though  *)
(* files change while they are hashed (HashCache.sha256).                  *)
HashesAreTrue == \A t \in Trips, f \in Names : hashes[t][f] \in {None, folder[t][f]}

(* What the cache has for a digest was read of a receipt with that digest, *)
(* and never for want of an answer, whatever changed, failed or died       *)
(* meanwhile; but for a file replaced in the moment between its hash and   *)
(* its image (ExtractCache, ingest, _extract_group).                       *)
CacheIsTrue == ~swapped => \A d \in DOMAIN cache : cache[d] = d

(* When the page of a trip does not ask for another reading, the receipts  *)
(* it shows are those of the files in the folder, each read of its own     *)
(* file or marked as not read, whatever was added, removed or replaced,    *)
(* during a reading too.  It need not be so while the manifest is newer    *)
(* than the reading (service.py trip_status).                              *)
ShownIsInFolder ==
    \A t \in Trips :
        t \notin ahead /\ manifest[t] # Torn /\ extracted[t] \notin {None, Torn} /\ ~Stale(t) =>
            /\ DOMAIN Shown(t) = Digests(t)
            /\ ~swapped => \A d \in Digests(t) : Shown(t)[d] \in {d, Failed}

(* When the work of a batch is over, every trip that did not fail has a    *)
(* reading of all the files its manifest lists, and, if the batch returns  *)
(* its results, an outcome: a trip that fails while it is read, or a       *)
(* receipt the model cannot read, does not keep the other trips from that  *)
(* (run_batch, extract_receipts).  When trip_file_owners raises there are  *)
(* no results, but the readings are kept.                                  *)
EveryTripAccounted ==
    Over =>
        \A t \in run.trips :
            \/ outcome[t] = "error"
            \/ /\ Phase("finalize") => outcome[t] = "done"
               /\ t \notin ahead
               /\ extracted[t] # None /\ DOMAIN Shown(t) = DOMAIN Listed(t)
=============================================================================
