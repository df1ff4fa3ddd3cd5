# receipt-evidence in TLA+

`receipt-evidence` (Python, `src/src/receipt_evidence/`) reads the receipts of business trips with an AI on the
user's own computer, judges them by the rules for the travel expenses of public officials, and writes a document per
trip. A small web application on 127.0.0.1 drives it; one worker thread does the long work; everything is kept in
files under `data/` (what people give) and `out/` (what the program makes).

This directory holds TLA+ modules of the parts whose behaviour depends on the order of steps, TLC configurations
that check them on small instances, and TLAPS proofs of the results that should hold for every instance. Source
paths below are relative to `src/src/receipt_evidence/`.

Contents: [1 The system](#1-the-system) - [2 Modules](#2-modules-and-how-they-follow-the-code) -
[3 Runs](#3-runs-what-is-checked-and-what-it-shows) - [4 Bounds](#4-bounds) - [5 Fairness](#5-fairness) -
[6 Proofs](#6-proofs) - [7 Findings](#7-findings) - [8 What the code does not prevent](#8-what-the-code-does-not-prevent) -
[9 Not modelled](#9-not-modelled) - [10 Plan](#10-plan)

## 1 The system

```
 browser -> web/routes.py --submit--> web/jobs.py --worker thread--> web/actions.py
              |   (event loop: async handlers;                          |
              |    thread pool: the others)                             v
              |                                           pipeline.py run_batch / extract_trip
              v                                             |        |           |
        web/service.py  <---- data/, out/ ---->  workspace.py     rules.py    versioning.py, export.py
        (trip.yaml, overrides.yaml,              (rename, trash,  validate.py  (v<n>/, latest.json,
         result.json, stage)                      out_lock)                     result.json)
                                                            |
                             web/vlm_process.py (llama-server)   mcp_client.py (tool servers)
```

| Component | State it keeps | Operations | What is hard | What makes it correct |
|---|---|---|---|---|
| Job manager, `web/jobs.py` | table address -> latest job; the pool's queue; each job's state and result | submit, alias, get, worker, shutdown | hand-over to the pool after the lock is released; results written without the lock | no job lost or run twice; `done` implies a result; jobs end; one job at a time |
| Requests and job bodies, `web/routes.py`, `web/actions.py`, `web/app.py` | steps of each handler; the folder name a job captured | upload, save, confirm, trash, submit; extract, law, finalize | an `await` between check and use; the folder moves under a job; out_lock | no trash under work; the lock is released; the new address knows the job |
| Trip folders, `workspace.py` | folders of `data/` and `out/`, `renames.json`, trash boxes with `trash.json` | create, move_trip, trash_trip, restore_trip, purge_trash | several file operations per step, a crash between any two, renames outside the lock | receipts in one place, destroyed only by a purge; documents stay with their receipts; the trash list is right |
| Pipeline and versions, `pipeline.py`, `versioning.py`, `export.py` | `out/<trip>/v<n>/`, `latest.json`, `result.json`, the batch in progress | run_batch phases, plan_version, export, verify, finalize_trip | inputs edited while a run is under way, tools that fail, a process that dies between two files | the history is whole, published versions are kept, no version for nothing, runs end |
| Local AI, `web/vlm_process.py`, `vlm_server.py` | field `_proc`; the llama-server processes | ensure_ready, stop | started by the job, stopped by job and shutdown, on two threads without a lock; a server of the user's on the port | never two servers; none of ours left when no job runs |
| Tool servers, `mcp_client.py` | thread, loop and queue of a lazy session | enter, call, exit; the session thread | every wait may run out; a session ends at any time | what is left was told to stop; no call waits on a dead session; jobs end |
| Corrections and rules, `rules.py`, `validate.py`, part of `workspace.py` | extraction, `overrides.yaml`, decisions, `trip.yaml` | save_override, save_decision, settings | edits in any order over warnings and verdicts of earlier values | nothing paid twice; no more nights than the trip has; nothing above its claim; rounding |
| Law of travel expenses, `law.py` | snapshots of regulations, `status.json`, `amendments.json` | get_law_book (a daily check), load_law_book, peek_law_book, for_date | checks in two processes without a common lock, across midnight, with failures and crashes between three files | today's online book is today's regulation; a trip is judged by that of its first day; every regulation is announced; a check finds its book |
| Reading and its caches, `ingest.py`, `extract.py`, `cache.py`, `HashCache` | `hashes.json`, `manifest.json`, readings by digest, `receipts.extracted.json` | ingest, extract_receipts, extract_trip, run_batch; upload and deletion of files | files change at every step of a reading; one receipt or one trip fails; a process that dies between two files | stored digests and readings are true; the page asks for a reading when it shows other receipts than the folder has; every trip of a batch accounted for |

The interactions: a request submits a job under the address `traveler/trip`; the job body renames the folder when the
dates on the receipts are known and makes itself known under the new address (`alias`); it takes `out/.lock` for as long
as it writes under `out/`, which trash and restore take too and a rename does not; inside `deps.clients()` it starts the
local AI and calls tool servers; the pages derive a trip's stage from the times of the files. `PROJECT.json` lists every
component, and under `hazards` each place where this can go wrong, with the properties that would show it.

## 2 Modules, and how they follow the code

One action is one step of a thread between two points where another thread, or the death of the process, can be
observed; guards come from the code's conditions and early returns. `PROJECT.json` maps every definition to its lines.
Definitions whose name has a suffix after an underscore (`Start_TwoWorkers`, comment "Mutant") are not part of any
specification: each is a plausible bug, and the property named for it in `PROJECT.json` fails under it.

- **`JobBoard`**: what a job manager promises, with no table, pool or threads: a job waits, runs and is finished,
  and no more than one runs at a time.
- **`JobManager`** (`web/jobs.py`): `table` is `_jobs`, `pool` the executor's queue, `pending` the job that a thread has
  put in the table under the lock and not yet handed to the pool, `state`/`result` the fields the worker writes without
  a lock. `SubmitNew` and `SubmitExisting` are the part of `submit` under the lock, `HandOver` is `pool.submit`,
  `Start`, `Return`, `MarkDone` and `Fail` are `_run`, `Shutdown` is `shutdown`. `ImplementsBoard` instantiates
  `JobBoard` with the refinement mapping `phase <- Phase(state)`.
- **`TripStore`**: what is promised of the receipts of a trip, with no names, folders, boxes or threads: they come in, are
  kept, go to the trash and back, and are destroyed there only. Both of the next modules implement it (`ImplementsStore`):
  `TripJobs` with a rename or a trash as one step and all the requests beside it, `TripFolders` file operation by file
  operation and through crashes.
- **`TripJobs`** extends `JobManager` with the trips: a request (`req`) arrives, checks that the folder is there,
  waits for its form (async handlers, one at a time on the event loop between two awaits: `OnTurn`) and acts; a job body
  goes through `lock`, `list`, `write`, `rename`, `move`, `alias`, `return`. Folder names are staging names or a dated
  base with a suffix. Trips that earlier sessions left behind, already read or not, are initial states. A rename or a
  trash is one step here; `TripFolders` has their file operations.
- **`TripFolders`** (`workspace.py`): the same folders, file operation by file operation, with movers (job thread, event
  loop) that take no lock, one tidier (trash, restore, purge) under it, and `Crash` between any two steps. `inside` is
  the trip that `shutil.move` put inside another's folder. `torn` and `overlap` are history: an operation was cut
  short, two operations overlapped.
- **`Reading`** (`ingest.py`, `extract.py`, `cache.py`, `HashCache`, and the phases of `pipeline.py` that call them):
  a run hashes the files of a trip (`Stat`, `Hash`: size and time first, the content later), makes their images,
  writes `manifest.json`, looks each receipt up in the cache or reads it (`Read`), and writes
  `receipts.extracted.json`. `Put` is a change of one file between any two steps: by `Upload`, `Delete`, or by hand
  (`Replace`). A digest stands for the content of a file; an image and a reading are the content they were made of.
  `HashFile` is a page that hashes a file. `ahead` and `swapped` are history: a manifest newer than the reading, a file
  replaced between its hash and its image. A batch that has read its trips hashes every file under `data/` again, to know
  which trips have the same receipt (phase `owners`, `trip_file_owners`: `Ingest`, `Stat` and `Hash` again, `Owned`,
  `TripOwned`, `OwnersKnown`). No `try` is around that, so any file may end the batch there (`OwnersRaise`, phase
  `raised`). Of the documents of a batch there is one step, `Finalize`.
- **`Documents`** (`pipeline.py`, `versioning.py`, `actions.py`): the other half of the same runs, with the reading of
  each trip as one step: a version directory `vdir` with its parts, `latest.json`, and `fresh`, the trips whose
  `result.json` is not older than their inputs. `People` edit inputs at any time, `ToolFails` and `Crash` strike anywhere.
- **`LawBook`** (`law.py`): processes that check for the regulation in force. `Begin` is `get_law_book` up to the question
  (time taken, snapshots listed), then `FetchSucceeds` or `FetchFails`, `Save`, `ReadAmendments`, `AppendAmendment`,
  `WriteStatus`, `Return`: one step per file. `Loaded` is `load_law_book`, `Peek` is `peek_law_book`, `InUse` what the
  pages judge by, `ForDate` is `for_date`. Regulations are numbered by the day they come into force (`Effective`); the
  clock ticks while checks run; `Dies` ends a process, or fails a write, anywhere; `Rekey` starts a process with or
  without a key. `alone` is history: no other check overlapped this one; so is `disturbed`.
- **`ServerParameters`**: the constants of the next three, with their assumption.
- **`VlmManager`** (`web/vlm_process.py`, `vlm_server.py`): the job thread goes health, alive, start, store, poll,
  recheck, read, stop; the event loop runs the same `stop` at shutdown, from the same field `proc` without a lock;
  processes load, get ready, end by themselves; a foreign server may answer the health check.
- **`McpSession`** (`mcp_client.py`, `StdioToolCaller` as the web uses it): the caller with the client's fields `thread`
  and `loop`, and per session thread its step, queue and item. `Start` is `_start`, `Submit`/`Returned`/`TimedOut` is
  `_submit` and its `result(timeout)`, `Exit`/`Left` is `__exit__`; `Take`, `Answer` and `End` are `_serve`; `CancelAll`
  and `Close` are what `asyncio.run` does at its end. `late` is history: sessions whose start was given up.
- **`JobTools`** composes `VlmManager` (EXTENDS) and `McpSession` (INSTANCE): one job thread that may use either server
  and cannot use both at once, beside the shutdown and the sessions that go on by themselves.
- **`Review`** (`validate.py`, `rules.py`, corrections of `workspace.py`): the state is what was read and what people
  saved; everything else (`Merged`, `CrossChecked`, `DecideReceipt`, `ReceiptRow`, `AllowanceRow`, totals) is a function
  of it, as in the code, which recomputes the judgement on each page. Amounts are integers, ratios pairs.

An `MC<module>` module gives the constants of each run.

## 3 Runs: what is checked and what it shows

| Run | Module, cfg | States | Checked |
|---|---|---|---|
| `jobs` | `MCJobManager` | 1.5 x 10^5 | `NoJobLost`, `QueuedOnce`, `ResultBeforeDone`, liveness `JobsFinish`, refinement `ImplementsBoard` |
| `trip_jobs` | `MCTripJobs` | 2.7 x 10^5 | `LockOwned`, `NewAddressKnowsJob`, `NoTrashUnderWork`, refinement `ImplementsStore`, liveness `LockIsReleased` |
| `trip_folders` | `MCTripFolders` | 4.3 x 10^5 | `OnePlace`, `DocumentsStayWithReceipts`, `TrashIsRestorable`, `OnlyPurgeDestroys`, refinement `ImplementsStore` |
| `documents` | `MCDocuments` | 4.9 x 10^5 | `HistoryIsWhole`, `PublishedIsKept`, `NoVersionForNothing`, liveness `RunsEnd` |
| `reading` | `MCReading` | 3.7 x 10^6 | `HashesAreTrue`, `CacheIsTrue`, `ShownIsInFolder`, `EveryTripAccounted` |
| `law_book` | `MCLawBook` | 9.3 x 10^5 | `OnlineBookIsCurrent`, `TripsGetTheirLaw`, `AmendmentsAnnounced`, `BookIsFound` |
| `job_tools` | `MCJobTools` | 5.1 x 10^5 | `OneServer`, `StopsWhatItStarted`, `NothingLeftServing`, `NoCallOutlivesItsSession`, liveness `JobsEnd` |
| `review` | `MCReview` | 1.0 x 10^5 | `NothingPaidTwice`, `NightsFitTheTrip`, `ApprovedWithinClaim`, `FullDaysAreFullPay` |
| `upload_while_reading` | `MCTripJobs`, `_uploads` | | finding: `UploadsAreRead` fails |
| `ghost_trip` | `MCTripJobs`, `_ghost` | | finding: `OnlyFirstScreenCreates` fails |
| `old_address` | `MCTripFolders`, `_address` | | finding: `OldAddressLeadsToNew` fails |
| `documented_is_current` | `MCDocuments`, `_current` | | finding: `DocumentedIsCurrent` fails |

All invariants, action properties and refinements of the passing runs are proved (section 6). The type invariants are
proved only: the runs do not check them again.

What the passing runs show:

- `submit` releases its lock before it gives the job to the pool, and the worker writes without any lock; still no job
  is lost or run twice while the pool is open, and whoever reads `done` finds the value. A job that is between the table
  and the pool when the pool is shut down stays `queued`, as in the code: `NoJobLost` speaks of an open pool.
- Whatever renames, saves and jobs interleave, a trip is never trashed while a job writes for it, and a page redirected
  to a renamed trip's new address finds its job. The latter rests on `alias` coming before the body returns. No request
  or job writes over another trip's folder: the name a rename leads to is free when it happens, or it does not happen.
- A crash between any two file operations of a rename, trash, restore or purge leaves each trip's receipts in exactly
  one place (at worst, inside another trip's folder: section 8), and they are destroyed by a purge only, after they were
  in the trash. Documents follow
  their receipts when no operation was cut short or overlapped another.
- Whatever dies in between, all the versions up to the one `latest.json` names are complete, made from one set of
  inputs, and never written again: a run that dies repeats its attempt in the same, not yet published, directory.
- Files may be added, removed or replaced between any two steps of a reading: a digest is never stored for another
  content than the one it is found with again, nothing is cached under the digest of another receipt or for want of an
  answer, and when a page does not ask for another reading, the receipts it shows are those of the folder. In a batch,
  what fails for one trip while it is read or gets its documents does not keep the others from being read: of each trip
  that did not fail, the reading is there when the batch is over, however it is over. Each trip has an outcome only if
  the batch returns, and one file that cannot be hashed between the two phases makes it raise instead (section 8). Two
  conditions belong to these properties: section 8 (`swapped`, `ahead`).
- Whatever checks of the law overlap, cross midnight, fail or die, a book that says it was checked today names today's
  regulation, and a trip is judged by the regulation of its first day if that was ever received. Each regulation
  received is announced, and the newest last, unless a check died at its notice or an amendment came during a check
  (`disturbed`, section 8). A check that no other one overlaps finds its book however long it took.
- There are never two llama-servers of ours, even when shutdown and job stop it at once; when no job runs and the
  shutdown is not at work, none of ours is up unless it is the one that is being ended. Together, `StopsWhatItStarted`
  and `JobsEnd` say that after the shutdown the AI goes down, since no job begins then.
- A job ends although its servers hang: each wait has its time limit. What it leaves behind of the tool server has been
  told to stop, except a server whose start had been given up and that came up later (section 8).
- Corrections, confirmed warnings and verdicts in any order do not make the rules pay a night, a ticket or an approval
  number twice unless a person has confirmed the warning on each receipt.

## 4 Bounds

- `jobs`: two addresses, two request threads, three jobs: one running, one queued and one between table and pool.
- `trip_jobs`: one handler on the event loop and one on a pool thread (each may be any handler, and a new one begins
  when one is answered), one job whose body goes on beside both, two trips (one uploaded, one that a save of a moved trip's form
  brings about) so that two want the same name, suffixes up to 3 so that a name is always free. The violations need two
  jobs. That two renames choose one name before either happens takes another handler on the event loop: `trip_folders`
  has a rename lose its name to a restore, the proof has any number of handlers.
- `trip_folders`: two trips that want one name, one mover beside the tidier, one trash box (a box in use makes a second
  trash impossible, so restore and purge are interleaved with everything else), suffixes up to 2. One mover and two bases
  show the cycle of `old_address`.
- `documents`: one trip, two values of each input, `MaxVersion` 2: a version after a version, and back to the first
  input. Trips of a run share nothing here but the phase; two trips in one run are in `reading`.
- `reading`: two trips with three files between them (`MCInit`), so that one trip has a file after the failed one, and
  the other a duplicate of one of these (under the same name: nothing compares names of different trips); three
  contents, one of them blank; one change of a file (`MaxChanges`), which may be anything at any step, and two runs
  (`MaxRuns`), so that the second meets the caches, manifest and torn files of the first. There is nothing to do any
  more when both caps are reached, so the run does not check for deadlock.
- `law_book`: two processes, three regulations of which two come into force on later days, days of two ticks (a tick is
  at least `OFFLINE_RETRY`) and time up to the third day: a check may cross a midnight with an amendment, a retry after a
  failure may be due on the same day, and a status may be of yesterday. Lists of up to four notices.
- `job_tools`: two processes, because a process that has gone can stand for a new one and at most one is left ending
  while another is started (a free one is always there when `Launch` needs it); two sessions, so that one that was given
  up lives on beside the next; two calls, so that one that timed out is ahead of another in the queue.
- `review`: two receipts, the least for duplicates; three readings of each, and values below, between and above the
  limit of a night with and without a reason; a trip of three days, an even and an odd daily amount.
- Integers are unbounded in Python; nothing here overflows. `MaxVersion`, `MaxSuffix`, `MaxCalls`, `MaxChanges`, `MaxRuns`, `MaxTime`, `MaxNotices` and the sets of jobs,
  trips and boxes are the only caps. Where a cap would end a run, the step is not enabled at the cap, and liveness is
  stated so that reaching the cap is no violation.

## 5 Fairness

- The worker thread goes on (`WF` on `WorkerNext`, `BodyNext`, `Pipeline`): it is one OS thread that no code blocks
  without a time limit, and a queued job that has been taken is run to its end or its exception. Whether a step succeeds
  or raises is never subject to fairness.
- A handler that has begun goes on (`WF` on `HandOver(t)`, `RequestNext(t)`): after its check a handler waits only for a
  form that arrives or a connection that closes. No fairness for `Arrive`, people, crashes or shutdown: nobody has to act.
- Event loop at its end: `WF` on `LoopNext` (`stop` waits at most ten seconds, then kills).
- `ensure_ready` polls until a deadline: `SF` on the step of the poll that leaves it. The poll alternates with the health
  probe, so that step is enabled again and again, and the deadline is a fixed time.
- None for servers, sessions or the user's own server: they may hang for ever. Where the caller waits for them, the wait
  has a time limit in the code (180, 600, 10, 30 and 5 seconds), and the step that gives up is among the caller's steps.

## 6 Proofs

Checked by `tlapm`, for every value of the constants under the named assumptions. Every invariant and action property of
the passing runs is a theorem of its specification, and so are the refinements of `JobBoard` and `TripStore`; section 3
names the properties, this section the arguments. A property is seldom inductive as it stands: each paragraph says what is added
to it, and why.

**`TripJobs_proof`**, first part: the job manager, from `NoneAssumption` (`None` is no address, kind, result or job), for
any number of addresses, threads and jobs. `Typing`, `Invariance`, `QueuedJobsAreHeld` (`NoJobLost`),
`QueuedJobsAreHeldOnce` (`QueuedOnce`), `DoneHasResult` (`ResultBeforeDone`) and `Refinement` (`Spec => ImplementsBoard`).
The inductive invariant is `IInv == TypeOK /\ QueuedOnce /\ NoJobLost /\ RunningIsWorkers /\ ResultsBelong`.
`NoJobLost` alone is not inductive: `Start` takes a job out of the queue and makes it running, which loses another job
only if it was in the queue twice or in a thread's hands too, hence `QueuedOnce`. `RunningIsWorkers` (a running job is
the worker's) is what the refinement needs for "at most one", and `ResultsBelong` (a value is written before `done`,
for the worker's job only) gives `ResultBeforeDone`. Lemmas on `Append` and `Tail` say what they do to the set of a
sequence's elements and its injectivity. The refinement maps each step to `Take`, `End` or a stutter of `JobBoard`.

**`TripJobs_proof`**, second part: requests and job bodies, from the assumptions of `TripJobs` (`SuffixesSuffice`: there
are more suffixes than trips, since `unique_trip_id` counts on until a name is free). `TripsTypes`
(`TripsTypeOK`), `LockHasOwner` (`LockOwned`), `NewAddressesKnown` (`NewAddressKnowsJob`), `TrashWaitsForWork`
(`NoTrashUnderWork`), and two implementations: `TripsUseTheManager` (`TripsSpec => Spec`: each step of a request or a
body is a step of the job manager or leaves it alone) and `TripsKeepTheBoard` (`TripsSpec => ImplementsBoard`).
`TripsInv` joins the manager's `IInv` to
- `ReqOK`: a request at work has an operation and a name, and past its check a target;
- `Addressed`: a job that exists is in the table under its address, and a reading with its result under that one too;
- `BodyOK`: the body that runs is the worker's job, and when it is about to return a new address it has made the job
  known there. `NewAddressKnowsJob` follows from the last two: `alias` before the return is what it rests on;
- `NamesDistinct`: no trip has two folders. With it the folders number no more than the trips, so that one of the
  suffixes is free (`FreeName`) and the name a rename arrives at is one.

`NoTrashUnderWork` is `LockOwned` at the step that moves to the trash: the request owns the lock then, so no body does.

`TripsKeepTheStore` (`TripsSpec => ImplementsStore`) maps a step to one of `TripStore` by its `Effect` on folders and trash:
`Untouched`, `Filled` (a folder that was not there gets a trip that has none), `Renaming` or `Binned`. That `Filled` never
covers another trip's folder is not plain, for the first screen's guard says nothing of the staging name: in the model it
is the trip's own (the code makes it unique among the traveler's folders, `unique_trip_id`), and nobody else holds it. It
needs `StagingKnown` (a staging name is in a folder or a request only after the first screen has made its trip), which
needs `ToDated` (a rename leads to a dated name); `Apart` says that no trip is in a folder and in the trash.

**`TripFolders_proof`**, from `FolderAssumptions`: `FoldersTypes` (`TypeOK`), `ReceiptsInOnePlace` (`OnePlace`),
`TrashRestores` (`TrashIsRestorable`), `ReceiptsAreKept` (`OnlyPurgeDestroys`) and `DocumentsFollowReceipts`
(`DocumentsStayWithReceipts`), for any trips, names, boxes and movers, through crashes between any two file operations.
`FoldersInv` adds to the properties what each operation under way works on (`MoverInv`), what the box of the trash
operation holds at each of its steps (`TidyInv`), that a folder put inside another lies there as long as the other
exists (`Hosted`), and that the staging name of a trip is not in use before the trip (`NamesStarted`), which is why
`Create` makes no second copy. The many steps reduce to few: each has one `Effect` on the receipts (`Unmoved`, `Created`,
`Relocated`, `Trashed`, `Restored`, `PutInside`, `PurgedBox`), and `OnePlace` and `OnlyPurgeDestroys` are proved per effect.
`FoldersKeepTheStore` (`Spec => ImplementsStore`) uses the same effects: a rename, or a crash, is a stutter of `TripStore`,
and what goes to the trash, comes back or is purged is a folder with all the trips that lie inside it. It needs
`HostsStarted`: were a trip inside the folder of one that is yet to come, creating that one would bring it back.
The documents are `DocumentsInv == FoldersInv /\ (Undisturbed => DocsInv)`: as long as no operation was cut short or
overlapped another, at most one is under way, and the documents that are not with their receipts are those it is about
to move.

**`Documents_proof`**, from `DocumentAssumptions`: `DocumentsTyping` (`TypeOK`), `HistoryStaysWhole` (`HistoryIsWhole`),
`PublishedStays` (`PublishedIsKept`) and `VersionsHaveReasons` (`NoVersionForNothing`), for any trips, inputs and number
of versions, whatever fails or dies. The types are inductive only with `ReadFirst` (a trip that is finalized was read:
`NextPhase` leaves out those that failed) and with "a run that writes has a trip to write for". `VInv` adds
`BeingWritten` (the version a run writes is the one after the latest, its parts so far are of the run's own inputs, and
these are not those of the latest unless a new version was asked for) and `Unrecorded` (no version after the latest has
a result). Nothing is said of the parts that a run which died has left in that directory: the next run writes each of
them before it publishes.

**`Reading_proof`**, from `ReadingAssumptions`: `ReadingTyping` (`TypeOK`), `DigestsAreTrue` (`HashesAreTrue`),
`ReadingsAreTrue` (`CacheIsTrue`), `PagesShowTheFolder` (`ShownIsInFolder`) and `BatchesAccount` (`EveryTripAccounted`), for
any trips, files and contents and any number of runs and changes.
`HashesAreTrue` is inductive with the types: every change of a file voids what is stored with its old size and time, and
a digest taken of a file that moved meanwhile is not stored under the new ones. `CacheIsTrue` is not: a reading is as
true as the image it was made of, an image as true as the file it was made of or the manifest it was taken over from.
`Honest` says this of all of them, and of the file at hand that its content is still the one hashed, or gone. It is
claimed as long as no file was `swapped` between hash and image. `PlaceOK` says how far a run is: what it
has left to read is listed in the manifest of the trip at hand. `ReadingInv` goes on to the pages and the batch: a
reading not older than its manifest lists the same receipts (`Aligned`), because a run has read or has left to read all
that the manifest lists (`NothingSkipped`); what is shown of a receipt is its own or a failure (`ReadHonestly`); and what
a run has achieved for a trip that did not fail, by its phase (`Progress`): from the end of the reading on, its receipts
are all shown, and neither hashing the files again nor the raise that may end it takes this back.

**`LawBook_proof`**, from `LawAssumptions` (regulations come into force in the order of their numbers, the baseline on
day 0 or before; a day has a tick): `TypeCorrect` (`TypeOK`), `OnlineIsCurrent` (`OnlineBookIsCurrent`),
`JudgedByTheirLaw` (`TripsGetTheirLaw`), `StoredBookIsFound` (`BookIsFound`) and `NoticesAreKept`
(`AmendmentsAnnounced`), for any number of processes, regulations and days. The first inductive invariant is
`IInv == TypeOK /\ CheckInv /\ StatusInv`, with `CheckInv` for each process. `OnlineBookIsCurrent` is not inductive: that
the regulation in `status.json` is today's depends on when it was fetched. A regulation fetched by a check was in force
on a day between that of the beginning of the check and today (`Fetched`), and time only goes on; if the day of the
status is today, the two ends of that interval are the same day. `CheckInv` says this of the checks under way and that
what they hold was received, `StatusInv` of the status written. `NewestExists` gives the maximum of a finite nonempty set
of regulations (from well-foundedness of the naturals); `ForDateIsRight` is the argument about `for_date`: among the
regulations held, the newest one in force on a day is the one the law says, when that one is held.
`BookIsFound` needs in addition that what a check was given is still held when it looks (`HeldInv`), and that a check
which is `alone` finds the status it wrote (`AloneInv`). `AmendmentsAnnounced` holds although processes replace
`amendments.json` without a lock, as long as nothing has `disturbed` it: then all checks under way are about the
regulation in force (`InForceIsNewest`, `FetchedToday`), so all that one of them can overwrite is the notice of that
regulation, which its own list names as well (`NotesWhole`, `OthersAnnounced`, `LastIsNewest`).

**`McpSession_proof`**, from `ServerAssumptions`: `Invariance`, `LeftServersAreTold` (`NothingLeftServing`) and
`WaitingCallsAreFailed` (`NoCallOutlivesItsSession`), for any set of sessions and any number of calls. The inductive
invariant adds to the two properties where the client's fields point (`Pointers`), that a session whose loop is known
has come up (`CameUp`: so its start cannot undo it), that a session being left has been told (`LeavingTold`: so `Left`
may forget it), and `WaitersFailed`, stronger than `NoCallOutlivesItsSession`: a waiting call is failed from the moment
the loop closes, which is when `asyncio.run` cancels what is left. Three lemmas say that a stop in a queue stays there
when a call is added, taken or given up.

**`JobTools_proof`** carries both over to the composed specification: `ServersLeftAreTold` and `CallsEndWithSessions`.
Each step of a job moves the client by a step of `McpSession` or not at all (`ClientSteps`), so the client's inductive
invariant holds of `ToolsSpec`; `ToolsTyping` (`ToolsTypeOK`) adds the types of the local AI. `NeverTwoServers`
(`OneServer`) and `JobsStopTheirServer` (`StopsWhatItStarted`) are about the two threads that share the field `proc`
without a lock. `VlmInv` says that a server which lives is held by the field, by the job or by the shutdown
(`NoneLost`), that one of these at most holds any (`OneHolder`), and at which of its steps each of them may (`Custody`):
`stop` takes the server out of the field in one assignment (`vlm_process.py:58`), so whoever comes second finds nothing to stop.

**`Review_proof`**: `EditsAreTyped` (`TypeOK`), `DuplicatesAreConfirmed` (`NothingPaidTwice`), `NightsAreChecked`
(`NightsFitTheTrip`), `NothingAboveTheClaim` (`ApprovedWithinClaim`) and `FullDaysArePaidInFull` (`FullDaysAreFullPay`), for
any number of receipts and any edits. All that is judged is a function of the saved state, so the four properties follow
from the types; the work is in the functions. The assumptions on the inputs are what the code lets through: amounts and
nights are natural numbers or missing (`_int` and `_receipt_value` keep digits only), a verdict is one of
`MANUAL_VERDICTS`, an adjustment names an amount or a number of days, rates and ratios are read from digits
(`parse_law_params`) and no ratio is one of zero parts, which no law text has. The sums over receipts are folds that
choose one element after the other (`SumFunctionOnSet`); `FoldsAgree`, `FoldExists`, `SumOf`, `SumSplit` and `SumSubset`
prove of them what the properties need, each from a smallest set for which it would fail (`MinimalSet`: a nonempty collection of
finite sets has one with no smaller one in it). `RoundedQuotient` and `RoundedDays` are the rounding of
`FullDaysAreFullPay`: each day loses less than one unit by it, and none if the amount of a day comes out even.

Only model-checked:

- the liveness properties `JobsFinish`, `LockIsReleased`, `RunsEnd` and `JobsEnd`: fairness and ENABLED are out of the
  prover's reach;
- the four findings (section 7): a counterexample is a fact about one instance.

## 7 Findings

Four places where the program does something else than its own comment or docstring says, each with a run whose
counterexample shows it and the quotation in `PROJECT.json`:

1. `UploadsAreRead`: receipts uploaded while a job of the trip is active are answered with that job, which has already
   listed the folder or never reads; nobody reads them when it is done (`web/jobs.py:47`, `web/routes.py:102`).
2. `OnlyFirstScreenCreates`: a save whose trip was renamed or trashed while the handler waited for the form makes the
   old folder again (`web/service.py:270`, `web/routes.py:33`).
3. `OldAddressLeadsToNew`: a trip renamed away and back leaves a cycle in `renames.json`, and its middle address leads to
   itself (`workspace.py:368`, `324`).
4. `DocumentedIsCurrent`: an input saved while a run is under way is older than the run's `result.json`, so the trip
   counts as documented with the old input (`web/service.py:523`, `pipeline.py`).

## 8 What the code does not prevent

Seen while modelling. Where a property has a condition for it, the property fails without the condition.

Readings and documents:

- `trip_file_owners` (`pipeline.py:227`) is in no `try`: it hashes every receipt under `data/`, of trips outside the
  batch too. A file that cannot be opened, the one whose trip was already given up at line 216 among them, or one that
  goes between the listing and `stat`, ends the whole batch: no trip gets documents or an entry in the results, though
  the comment at line 213 says that the failure of one trip does not stop the batch. The readings are kept. So
  `EveryTripAccounted` claims outcomes for batches that return only; that every batch returns is not true of the model
  (`OwnersRaise`).
- `manifest.json` is written by `ingest`, before the receipts are read. When the local AI then does not start, the trip
  fails or the process dies, an earlier `receipts.extracted.json` stays, and `trip_status` finds no difference between
  the folder and the manifest: the new receipts are shown neither as unread nor in the list until a file changes
  (`ahead` in `ShownIsInFolder`; `web/service.py:507-510`).
- A file replaced between its hash and its image is read and cached under the digest of the file it replaced, for good
  (`swapped` in `CacheIsTrue`; `ingest.py:85-103`).
- `HashCache` believes size and time of modification: a file replaced by another with both the same keeps its digest.
- A PDF whose pages are all blank never enters the manifest; its trip asks for a reading for ever.
- `manifest.json`, `receipts.extracted.json`, `latest.json` and `result.json` are written in place. A process that dies
  there leaves a file that cannot be parsed: `ingest` takes a torn manifest for none, the pages fail on it and on a torn
  extraction until the next reading, and a torn `latest.json` fails every later run of the trip (`Torn`, `TornLatest`).
- A process that dies between `latest.json` and `result.json` (`pipeline.py:131-134`) leaves a trip that every later run
  skips, because its fingerprint is in `latest.json`, and that no page shows as documented, because the result is
  missing, until an input changes; `do_finalize` has no `result.json` to touch (`web/actions.py:44`).
- `do_finalize` touches `result.json` after `out_lock` was released.

The law (`law.py` 245-276):

- A check that dies between the snapshot and `amendments.json` (lines 266, 271) loses the notice of the amendment: the
  next check finds the regulation held and says nothing. The repository's `README.md:247` promises a notice. A check that
  began before an amendment and writes its own, earlier notice over the list it read can lose the later one. Both are
  `disturbed` in `AmendmentsAnnounced`.
- A regulation that comes with a new version of the program (the packaged baseline) is never announced.
- The assertion in line 275 fails when another process, between line 273 and 274, writes a status of another day, of a
  failure more than ten minutes old, or one without a key (`alone` in `BookIsFound`); the job then ends with an error.
- The status after a failed check names the newest regulation held when the check began; with overlapping checks it may
  be older than the newest one held, until the next check (the condition on `book.current` in `TripsGetTheirLaw`).

Requests, folders and jobs:

- Between a rename and the `alias` a request at the new address can submit a second job of the trip, which `alias` then
  hides from the table; it still runs.
- `submit` answers with the trip's active job whatever its kind: a request to make documents may be answered with a
  reading.
- `renames.json` is read, changed and written without a lock, and in place: of two renames at once one entry may be lost,
  and a torn file reads as empty (automatically named trips then count as named by hand).
- A crash in `trash_trip` before `trash.json` leaves a box that the list does not show; the receipts are in it.
- Rename, trash and restore move the folder under `data/` first and the one under `out/` later: a crash in between, or
  another operation on the name meanwhile, leaves documents behind under a name that another trip may get
  (`torn` and `overlap` in `DocumentsStayWithReceipts`).
- `restore_trip` chooses a free name and then moves the folder there: when a rename takes the name in between, the
  folder ends up inside the other trip's.
- `move_trip` checks that a trip has no documents and renames it afterwards: a trip documented in between is renamed all
  the same. The worker's automatic rename may follow a `confirm_trip` that came after its check.
- A confirmed warning is kept as a code of the receipt and outlives its reason: after a correction a new duplicate of
  the same code is not shown (`NothingPaidTwice` accepts the earlier confirmation).
- An odd daily amount with a car is rounded once per day for a person's days and once per trip for the rule's:
  the two may differ, by less than one unit per day, which is what `FullDaysAreFullPay` allows, never in the person's favour.
- A tool server that comes up after its start was given up serves nobody until the process ends (`late` in
  `NothingLeftServing`). A call submitted to a loop that is already closing waits its full time limit, though waiting
  calls are otherwise failed at once (`unheard` in `NoCallOutlivesItsSession`).
- A llama-server that does not end within ten seconds is killed and not waited for. A hard kill of the application on
  POSIX leaves llama-server up; the next start takes it for a server of the user's and never stops it.

## 9 Not modelled

- Texts and look-ups: prompts and parsing (`extract.py`, `law.py`), the document's wording (`export.py`, `report.py`),
  templates, stations, the check digit of business numbers. They change no state that the properties tell apart.
- `inline=True` of the job manager, the one-shot tool call outside `with` (tests only), `ensure_started` (command line: a `Start` without a call).
- Pages that only read; host and origin checks.
- The command line, except that it is a second process that checks the law (`LawBook`), and runs batches, which the web
  application does not (`run.batch` in `Reading`, `run.web` in `Documents`).
- `HashCache.flush`, a change of the model or of the prompt version between runs (another cache folder), several pages of
  one PDF, the orientation of photographs.
- Finding programs and models, the Windows job object, installation scripts, examples.
- The conversion of images in `ingest.py`: data.

## 10 Plan

Done: every module of section 2, each invariant and action property of its runs proved (section 6).

Next, in this order:

1. The documents in `TripStore` (their place beside that of the receipts), so that `DocumentsStayWithReceipts` becomes part
   of what both `TripJobs` and `TripFolders` implement, as long as nothing is torn or overlaps.
2. One abstract specification of a trip's run (read, judge, publish) that `Reading` and `Documents` both implement, so
   that the step by which each stands for the other is proved and not only drawn (section 2).
3. What the three hazards without a property need: `Documents` with the runs and pages that read a `latest.json` that is
   torn or names a version without a result, and `Review` with the reason of a warning beside its code.
4. Deletion of files and the upload of several in the requests of `TripJobs`, so that the trip service is one module.
