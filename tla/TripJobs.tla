------------------------------ MODULE TripJobs ------------------------------
(***************************************************************************)
(* The trips of one traveller under the web application: the requests      *)
(* (web/routes.py), the bodies of the jobs (web/actions.py, pipeline.py),  *)
(* the renaming of trip folders and the lock of out/, over the job table   *)
(* of JobManager.  A request names a trip by its folder name, checks that  *)
(* the folder is there, and acts later: asynchronous handlers read the     *)
(* body of the request in between, the others run on pool threads.  A job  *)
(* captures the folder name it was submitted with.                         *)
(***************************************************************************)
EXTENDS JobManager, FiniteSets

CONSTANTS Trips,      (* identities of trip folders: bounds the run        *)
          Uploaded,   (* the trips that the first screen creates           *)
          Bases,      (* "YYYY-MM-DD_destination" names a trip can get     *)
          MaxSuffix,  (* unique_trip_id tries base, base_2, ...      *)
          Loops       (* the threads whose handlers run on the event loop  *)

Staging(x) == <<x, 0>>
Dated == Bases \X (1..MaxSuffix)
(* What the other jobs answer with: a PipelineResult, a law serial number. *)
Document == <<"document">>
Rules == <<"rules">>
Names == {Staging(x) : x \in Trips} \cup Dated

(* Handlers on the event loop ("new" is the first screen, "info" stands    *)
(* for save_info and resolve) and on pool threads.                         *)
AsyncOps == {"new", "upload", "confirm", "info", "docinfo"}
SyncOps == {"read", "finalize", "review", "trash"}

ASSUME UploadedAreTrips == Uploaded \subseteq Trips
ASSUME NamesAreKeys == Keys = Names /\ Results = Names \cup {Document, Rules}
ASSUME KindsOfJobs == Kinds = {"extract", "finalize", "law"}
ASSUME LoopsAreThreads == Loops \subseteq Threads
(* The code has no last suffix: no trip runs out of names.                 *)
ASSUME SuffixesSuffice == IsFiniteSet(Trips) /\ MaxSuffix \in Nat /\ MaxSuffix > Cardinality(Trips)
ASSUME HoldersDiffer == None # "job" /\ None \notin Threads \cup Trips /\ "job" \notin Threads

VARIABLES folder,     (* data/<traveler>/<name>: the trip it holds         *)
          receipts,   (* trips with a receipt file                         *)
          unread,     (* trips with a file no job has listed yet           *)
          confirmed,  (* trips whose trip.yaml has both dates              *)
          out,        (* names with a directory out/<traveler>/<name>      *)
          extracted,  (* ... that holds work/receipts.extracted.json       *)
          latest,     (* ... that holds a latest.json                      *)
          renames,    (* out/.cache/renames.json                           *)
          created,    (* trips made by the first screen                    *)
          trashed,    (* trips in the trash                                *)
          lock,       (* who holds out/.lock                               *)
          step,       (* where the body of the running job is              *)
          target,     (* the name the body has chosen for the folder       *)
          req         (* per thread: the request it serves                 *)

dataVars == <<folder, receipts, unread, confirmed, created, trashed>>
outVars == <<out, extracted, latest, renames>>
bodyVars == <<step, target>>
tripVars == <<dataVars, outVars, lock, bodyVars, req>>
allVars == <<vars, tripVars>>

Idle == [step |-> "idle", op |-> None, name |-> None, to |-> None]
ReqSteps == {"idle", "checked", "submit", "rename", "move", "alias", "lock", "bin"}
BodySteps == {"idle", "lock", "list", "write", "rename", "move", "alias", "law", "return"}

TripsTypeOK ==
    /\ TypeOK
    /\ folder \in [Names -> Trips \cup {None}]
    /\ \A S \in {receipts, unread, confirmed, created, trashed} : S \subseteq Trips
    /\ out \subseteq Names
    /\ extracted \subseteq out /\ latest \subseteq out
    /\ renames \in [Names -> Names \cup {None}]
    /\ lock \in Threads \cup {"job", None}
    /\ step \in BodySteps
    /\ target \in Names \cup {None}
    /\ req \in [Threads -> [step : ReqSteps, op : AsyncOps \cup SyncOps \cup {None},
                            name : Names \cup {None}, to : Names \cup {None}]]

(* The application starts over the folders an earlier session left: some   *)
(* trips uploaded, some of them read.                                      *)
TripsInit ==
    /\ Init
    /\ created \in SUBSET Uploaded
    /\ folder = [n \in Names |-> IF \E x \in created : n = Staging(x) THEN n[1] ELSE None]
    /\ extracted \in SUBSET {Staging(x) : x \in created}
    /\ receipts = created
    /\ unread = {x \in created : Staging(x) \notin extracted}
    /\ confirmed = {} /\ trashed = {}
    /\ out = extracted /\ latest = {}
    /\ renames = [n \in Names |-> None]
    /\ lock = None
    /\ step = "idle"
    /\ target = None
    /\ req = [t \in Threads |-> Idle]

-----------------------------------------------------------------------------
(* Names.                                                                  *)
Fresh(x) == x \notin created \cup trashed /\ \A n \in Names : folder[n] # x

WasAutoNamed(n) == \E m \in Names : renames[m] = n

UniqueTripId(b) == <<b, CHOOSE i \in 1..MaxSuffix :
    /\ folder[<<b, i>>] = None
    /\ \A h \in 1..(i - 1) : folder[<<b, h>>] # None>>

(* auto_rename up to the call of move_trip: only a staging name or a name  *)
(* given automatically is replaced, never that of a documented trip, and   *)
(* never by another name of the same base.  None stands for "keep it".     *)
NewName(n, b) ==
    IF /\ b # None
       /\ n \notin Dated \/ WasAutoNamed(n)
       /\ n \notin latest
       /\ n[1] # b
    THEN UniqueTripId(b)
    ELSE None

(* move_trip after its check of latest.json.  It raises when the folder is *)
(* gone, the name is taken or documents are kept under the name; an        *)
(* undocumented out/ directory in the way is removed.                      *)
CanMove(n, nn) ==
    /\ folder[n] # None
    /\ folder[nn] = None
    /\ ~(n \in out /\ nn \in latest)

(* Of the names in S: out/ of n takes the place of what nn had, if n has   *)
(* an out/ directory at all.                                               *)
Moved(S, n, nn) ==
    IF n \notin out THEN S ELSE (S \ {n, nn}) \cup (IF n \in S THEN {nn} ELSE {})

Move(n, nn) ==
    /\ folder' = [folder EXCEPT ![n] = None, ![nn] = folder[n]]
    /\ out' = Moved(out, n, nn)
    /\ extracted' = Moved(extracted, n, nn)
    /\ latest' = Moved(latest, n, nn)
    /\ renames' = [renames EXCEPT ![n] = nn]

(* A write into data/<traveler>/<name>: _yaml_dump and save_files make the *)
(* missing directory, so the folder of a trip that moved comes back empty. *)
Written(n, x) ==
    /\ IF folder[n] # None THEN x = folder[n] ELSE Fresh(x)
    /\ folder' = [folder EXCEPT ![n] = x]

-----------------------------------------------------------------------------
(* Requests.  Handlers on the event loop give way to each other only while *)
(* they wait for the body of the request, in step "checked".               *)
OnTurn(t) == t \in Loops => \A u \in Loops \ {t} :
    req[u].step \in {"idle", "checked"} /\ pending[u] = None

At(t, s, ops) == req[t].step = s /\ req[t].op \in ops /\ OnTurn(t)

Go(t, s) == req' = [req EXCEPT ![t].step = s]
Reply(t) == req' = [req EXCEPT ![t] = Idle]

(* trip_status: the folder has files that the kept reading does not know.  *)
Stale(n) == n \in extracted /\ folder[n] \in unread

(* existing_trip found the folder (it answers 404 or redirects otherwise). *)
(* The guards on op are those the handlers read from the same TripSummary; *)
(* a stale trip's docinfo is saved like "info" and makes no documents.      *)
Arrive(t, op, n) ==
    /\ req[t] = Idle
    /\ pending[t] = None
    /\ op \in (IF t \in Loops THEN AsyncOps \ {"new"} ELSE SyncOps)
    /\ folder[n] # None
    /\ op = "read" => folder[n] \in receipts
    /\ op \in {"finalize", "docinfo"} => ~Stale(n)
    /\ req' = [req EXCEPT ![t] = [step |-> IF op \in {"read", "finalize"} THEN "submit" ELSE "checked", op |-> op, name |-> n, to |-> None]]
    /\ UNCHANGED <<vars, dataVars, outVars, lock, bodyVars>>

(* create_staging_trip: a folder of its own and the uploaded receipts.     *)
CreateStaging(t, x) ==
    /\ t \in Loops
    /\ req[t] = Idle
    /\ pending[t] = None
    /\ OnTurn(t)
    /\ x \in Uploaded /\ Fresh(x)
    /\ folder' = [folder EXCEPT ![Staging(x)] = x]
    /\ receipts' = receipts \cup {x}
    /\ unread' = unread \cup {x}
    /\ created' = created \cup {x}
    /\ req' = [req EXCEPT ![t] = [step |-> "submit", op |-> "new", name |-> Staging(x), to |-> None]]
    /\ UNCHANGED <<vars, confirmed, trashed, outVars, lock, bodyVars>>

(* save_files, then submit_extract; without a file in the form the folder  *)
(* is made all the same and nothing is submitted, and a file of another    *)
(* kind, or too large, is refused before.                                  *)
SaveFiles(t, x) ==
    /\ At(t, "checked", {"upload"})
    /\ \/ /\ Written(req[t].name, x)
          /\ \/ receipts' = receipts \cup {x} /\ unread' = unread \cup {x} /\ Go(t, "submit")
             \/ UNCHANGED <<receipts, unread>> /\ Reply(t)
       \/ UNCHANGED <<folder, receipts, unread>> /\ Reply(t)
    /\ UNCHANGED <<vars, confirmed, created, trashed, outVars, lock, bodyVars>>

(* save_trip_yaml.  The purpose of "docinfo" leaves the dates alone; the   *)
(* other forms may set or clear them.                                      *)
SaveTripYaml(t, x, dates) ==
    /\ At(t, "checked", {"confirm", "info", "docinfo"})
    /\ Written(req[t].name, x)
    /\ confirmed' = CASE req[t].op = "docinfo" -> confirmed
                      [] dates -> confirmed \cup {x}
                      [] OTHER -> confirmed \ {x}
    /\ CASE req[t].op = "confirm" -> Go(t, "rename")
         [] req[t].op = "docinfo" -> Go(t, "submit")
         [] OTHER -> Reply(t)
    /\ UNCHANGED <<vars, receipts, unread, created, trashed, outVars, lock, bodyVars>>

(* The review page of a trip that was read and has no active job submits a *)
(* "law" job when no rules are kept yet.                                   *)
ReviewPage(t) ==
    /\ At(t, "checked", {"review"})
    /\ \/ Reply(t)
       \/ ~Busy(req[t].name) /\ req[t].name \in extracted /\ Go(t, "submit")
    /\ UNCHANGED <<vars, dataVars, outVars, lock, bodyVars>>

KindOf(op) == CASE op \in {"new", "upload", "read"} -> "extract"
                [] op \in {"finalize", "docinfo"} -> "finalize"
                [] OTHER -> "law"

(* The job objects are used in a fixed order.                              *)
NextJob == LET free == {j \in Jobs : state[j] = "new"} IN
    IF free = {} THEN {} ELSE {CHOOSE j \in free : TRUE}

(* JobManager.submit under the address the request came with.              *)
Submit(t) ==
    /\ req[t].step = "submit"
    /\ OnTurn(t)
    /\ \/ SubmitExisting(t, req[t].name)
       \/ \E j \in NextJob : SubmitNew(t, req[t].name, KindOf(req[t].op), j)
    /\ Reply(t)
    /\ UNCHANGED <<dataVars, outVars, lock, bodyVars>>

PoolSubmit(t) == HandOver(t) /\ UNCHANGED tripVars

(* confirm_trip: auto_rename decides, moves the folder, and only then the  *)
(* job is made known under the new address.                                *)
ConfirmChoose(t, b) ==
    /\ At(t, "rename", {"confirm"})
    /\ LET nn == NewName(req[t].name, b) IN
       req' = [req EXCEPT ![t] = IF nn = None THEN Idle ELSE [@ EXCEPT !.step = "move", !.to = nn]]
    /\ UNCHANGED <<vars, dataVars, outVars, lock, bodyVars>>

ConfirmMove(t) ==
    /\ At(t, "move", {"confirm"})
    /\ IF CanMove(req[t].name, req[t].to)
       THEN Move(req[t].name, req[t].to) /\ Go(t, "alias")
       ELSE UNCHANGED <<folder, outVars>> /\ Reply(t)
    /\ UNCHANGED <<vars, receipts, unread, confirmed, created, trashed, lock, bodyVars>>

ConfirmAlias(t) ==
    /\ At(t, "alias", {"confirm"})
    /\ Alias(req[t].name, req[t].to)
    /\ Reply(t)
    /\ UNCHANGED <<dataVars, outVars, lock, bodyVars>>

(* trash: refused while the address has an active job, then under the lock *)
(* of out/, which a request never waits for (BusyError).                   *)
TrashCheck(t) ==
    /\ At(t, "checked", {"trash"})
    /\ IF Busy(req[t].name) THEN Reply(t) ELSE Go(t, "lock")
    /\ UNCHANGED <<vars, dataVars, outVars, lock, bodyVars>>

(* Mutant: the trash does not take the lock of out/.                       *)
TrashLock_NoLock(t) ==
    /\ At(t, "lock", {"trash"})
    /\ Go(t, "bin")
    /\ UNCHANGED <<vars, dataVars, outVars, lock, bodyVars>>

TrashLock(t) ==
    /\ At(t, "lock", {"trash"})
    /\ IF lock = None THEN lock' = t /\ Go(t, "bin") ELSE UNCHANGED lock /\ Reply(t)
    /\ UNCHANGED <<vars, dataVars, outVars, bodyVars>>

(* Mutant: the lock is not released when the folder is not found.          *)
TrashMove_KeepsLock(t) ==
    /\ At(t, "bin", {"trash"})
    /\ LET n == req[t].name IN
       IF folder[n] = None
       THEN UNCHANGED <<folder, trashed, out, extracted, latest, lock>>
       ELSE /\ folder' = [folder EXCEPT ![n] = None]
            /\ trashed' = trashed \cup {folder[n]}
            /\ out' = out \ {n}
            /\ extracted' = extracted \ {n}
            /\ latest' = latest \ {n}
            /\ lock' = None
    /\ Reply(t)
    /\ UNCHANGED <<vars, receipts, unread, confirmed, created, renames, bodyVars>>

(* Mutant: the folder is deleted instead.                                  *)
TrashMove_Deletes(t) ==
    /\ At(t, "bin", {"trash"})
    /\ LET n == req[t].name IN
       /\ folder' = [folder EXCEPT ![n] = None]
       /\ out' = out \ {n}
       /\ extracted' = extracted \ {n}
       /\ latest' = latest \ {n}
    /\ lock' = None
    /\ Reply(t)
    /\ UNCHANGED <<vars, receipts, unread, confirmed, created, trashed, renames, bodyVars>>

(* trash_trip: data and out folders go to the trash together; a folder     *)
(* that went away since the check is not found.                            *)
TrashMove(t) ==
    /\ At(t, "bin", {"trash"})
    /\ LET n == req[t].name IN
       IF folder[n] = None
       THEN UNCHANGED <<folder, trashed, out, extracted, latest>>
       ELSE /\ folder' = [folder EXCEPT ![n] = None]
            /\ trashed' = trashed \cup {folder[n]}
            /\ out' = out \ {n}
            /\ extracted' = extracted \ {n}
            /\ latest' = latest \ {n}
    /\ lock' = None
    /\ Reply(t)
    /\ UNCHANGED <<vars, receipts, unread, confirmed, created, renames, bodyVars>>

-----------------------------------------------------------------------------
(* The body of the running job.                                            *)
BodyStart ==
    /\ Start
    /\ step' = IF kind[Head(pool)] = "law" THEN "law" ELSE "lock"
    /\ target' = key[Head(pool)]
    /\ UNCHANGED <<dataVars, outVars, lock, req>>

(* out_lock at the head of extract_trip and run_batch; when it is held the *)
(* body raises BusyError (BodyFail).                                       *)
BodyLock ==
    /\ step = "lock"
    /\ lock = None
    /\ lock' = "job"
    /\ step' = "list"
    /\ UNCHANGED <<vars, dataVars, outVars, target, req>>

(* find_job or discover, and ingest: lists the receipt files of the folder *)
(* and opens its work directory.                                           *)
BodyList ==
    /\ step = "list"
    /\ folder[key[worker]] \in receipts
    /\ unread' = unread \ {folder[key[worker]]}
    /\ out' = out \cup {key[worker]}
    /\ step' = "write"
    /\ UNCHANGED <<vars, folder, receipts, confirmed, created, trashed, extracted, latest, renames, lock, target, req>>

(* extract_trip: the values read go to the work directory, made again when *)
(* it was moved away; then the lock is released.                           *)
WriteWork ==
    /\ step = "write"
    /\ kind[worker] = "extract"
    /\ out' = out \cup {key[worker]}
    /\ extracted' = extracted \cup {key[worker]}
    /\ lock' = None
    /\ step' = "rename"
    /\ UNCHANGED <<vars, dataVars, latest, renames, target, req>>

(* run_batch: the documents and latest.json.  They need the images in the  *)
(* work directory, so a folder moved away fails the body.                  *)
WriteDocument ==
    /\ step = "write"
    /\ kind[worker] = "finalize"
    /\ key[worker] \in out
    /\ extracted' = extracted \cup {key[worker]}
    /\ latest' = latest \cup {key[worker]}
    /\ lock' = None
    /\ step' = "return"
    /\ UNCHANGED <<vars, dataVars, out, renames, target, req>>

(* do_extract: unless the dates are confirmed, the folder gets the name    *)
(* that the receipts suggest.                                              *)
BodyChoose(b) ==
    /\ step = "rename"
    /\ LET n == key[worker]
           keep == folder[n] \in confirmed \cup {None}
           nn == IF keep THEN None ELSE NewName(n, b)
       IN /\ step' = IF nn = None THEN "return" ELSE "move"
          /\ target' = IF nn = None THEN n ELSE nn
    /\ UNCHANGED <<vars, dataVars, outVars, lock, req>>

(* Mutant: the job is not made known under the new address.                *)
BodyMove_NoAlias ==
    /\ step = "move"
    /\ CanMove(key[worker], target)
    /\ Move(key[worker], target)
    /\ step' = "return"
    /\ UNCHANGED <<vars, receipts, unread, confirmed, created, trashed, lock, target, req>>

BodyMove ==
    /\ step = "move"
    /\ CanMove(key[worker], target)
    /\ Move(key[worker], target)
    /\ step' = "alias"
    /\ UNCHANGED <<vars, receipts, unread, confirmed, created, trashed, lock, target, req>>

(* The work of submit_extract after do_extract: the new address.           *)
BodyAlias ==
    /\ step = "alias"
    /\ Alias(key[worker], target)
    /\ step' = "return"
    /\ UNCHANGED <<dataVars, outVars, lock, target, req>>

Value == CASE kind[worker] = "extract" -> target
           [] kind[worker] = "finalize" -> Document
           [] OTHER -> Rules

BodyReturn ==
    /\ step \in {"return", "law"}
    /\ Return(Value)
    /\ step' = "return"
    /\ UNCHANGED <<dataVars, outVars, lock, target, req>>

BodyDone ==
    /\ MarkDone
    /\ step' = "idle"
    /\ target' = None
    /\ UNCHANGED <<dataVars, outVars, lock, req>>

(* Mutant: the lock outlives an exception.                                 *)
BodyFail_KeepsLock ==
    /\ step \in {"lock", "list", "write", "rename", "move", "law"}
    /\ Fail
    /\ step' = "idle"
    /\ target' = None
    /\ UNCHANGED <<dataVars, outVars, lock, req>>

(* Any step of the body may raise (the AI, the document tools, a file that *)
(* is gone, BusyError); out_lock is released on the way out.               *)
BodyFail ==
    /\ step \in {"lock", "list", "write", "rename", "move", "law"}
    /\ Fail
    /\ step' = "idle"
    /\ target' = None
    /\ lock' = IF lock = "job" THEN None ELSE lock
    /\ UNCHANGED <<dataVars, outVars, req>>

-----------------------------------------------------------------------------
RequestNext(t) ==
    \/ ReviewPage(t) \/ Submit(t) \/ PoolSubmit(t)
    \/ \E b \in Bases \cup {None} : ConfirmChoose(t, b)
    \/ ConfirmMove(t) \/ ConfirmAlias(t)
    \/ TrashCheck(t) \/ TrashLock(t) \/ TrashMove(t)
    \/ \E x \in Trips : SaveFiles(t, x) \/ \E d \in BOOLEAN : SaveTripYaml(t, x, d)

BodyNext ==
    \/ BodyStart \/ BodyLock \/ BodyList \/ WriteWork \/ WriteDocument
    \/ \E b \in Bases \cup {None} : BodyChoose(b)
    \/ BodyMove \/ BodyAlias \/ BodyReturn \/ BodyDone \/ BodyFail

TripsNext ==
    \/ \E t \in Threads :
          \/ \E op \in AsyncOps \cup SyncOps, n \in Names : Arrive(t, op, n)
          \/ \E x \in Trips : CreateStaging(t, x)
          \/ RequestNext(t)
    \/ BodyNext

TripsSpec == TripsInit /\ [][TripsNext]_allVars

(* A handler that has started and the worker thread go on; no request has  *)
(* to come.                                                                *)
TripsFairness == WF_allVars(BodyNext) /\ \A t \in Threads : WF_allVars(RequestNext(t))

TripsFairSpec == TripsSpec /\ TripsFairness

-----------------------------------------------------------------------------
(* Where the receipts of a trip are, seen from far.                        *)
TripPlace == [x \in Trips |->
    IF x \in trashed THEN "trash" ELSE IF \E n \in Names : folder[n] = x THEN "kept" ELSE "nowhere"]

Store == INSTANCE TripStore WITH place <- TripPlace

(* Whatever requests and jobs interleave, a trip is neither lost nor       *)
(* written over: one that came in stays in data/ under one name after the  *)
(* other until it is put into the trash (move_trip, trash_trip, and        *)
(* add_files or save_trip_yaml of a trip that was moved away meanwhile).   *)
ImplementsStore == Store!StoreSpec

(* While a job holds the lock of out/ and works on a trip, nobody moves    *)
(* that trip to the trash: trash_trip takes the same lock (out_lock).      *)
NoTrashUnderWork ==
    [][\A x \in trashed' \ trashed :
         ~(step \in {"list", "write"} /\ folder[key[worker]] = x)]_allVars

(* The lock belongs to the body that is between BodyLock and its release,  *)
(* or to a request about to move a folder, and to nobody else.             *)
LockOwned ==
    /\ lock = "job" <=> step \in {"list", "write"}
    /\ \A t \in Threads : lock = t <=> req[t].step = "bin"

(* "Try again later" is never forever: whoever holds the lock of out/      *)
(* releases it, also when the work raises (BusyError, out_lock).           *)
LockIsReleased == lock # None ~> lock = None

(* Whoever asks under the address a finished reading answers with finds a  *)
(* job there: the alias comes before the job is done, so a page that is    *)
(* redirected to the new address shows how its reading went.               *)
NewAddressKnowsJob == \A j \in Jobs :
    state[j] = "done" /\ kind[j] = "extract" => table[result[j]] # None

(* Finding: receipts added to a trip are read, unless a job fails: the     *)
(* comment of add_files says that an upload is read right away.  (NextJob  *)
(* = {}: the run has no job object left.)                                  *)
UploadsAreRead == \A t \in Loops, x \in Trips :
    req[t].op = "upload" /\ req[t].step = "submit" /\ folder[req[t].name] = x
    ~> x \in trashed \/ x \notin unread \/ NextJob = {} \/ \E j \in Jobs : state[j] = "error"

(* Finding: only the first screen makes a trip folder; a request for a     *)
(* folder that is gone is answered 404 or sent to the new address.         *)
OnlyFirstScreenCreates == \A n \in Names : folder[n] # None => folder[n] \in created
=============================================================================
