----------------------------- MODULE Documents -----------------------------
(***************************************************************************)
(* The runs of the pipeline, one after another (pipeline.py run_batch and  *)
(* finalize_trip, versioning.py, actions.py do_finalize): the receipts of  *)
(* the trips of a run are read, then each trip gets a new version of its   *)
(* documents, file by file, when its inputs changed.  People edit the      *)
(* inputs meanwhile, and the process may die between any two steps.  A run *)
(* holds out_lock, so runs do not overlap.                                 *)
(***************************************************************************)
EXTENDS Naturals, FiniteSets

CONSTANTS Trips,       (* the trips of one traveller                       *)
          Values,      (* receipt values with overrides.yaml applied: what
                          prepare_trip reads                               *)
          Settings,    (* trip.yaml, traveler.yaml and the manual verdicts:
                          what review_receipts reads                       *)
          MaxVersion,  (* bounds the runs                                  *)
          None, Torn

(* A fingerprint stands for the inputs it is computed from.                *)
Prints == Values \X Settings

ASSUME DocumentAssumptions ==
    /\ MaxVersion \in Nat \ {0}
    /\ None # Torn
    /\ {None, Torn} \cap Prints = {}
    /\ None \notin Trips \cup Values

VARIABLES values,    (* the inputs as they are on disk now                 *)
          settings,
          vdir,      (* v<n>/: the inputs each part of it was made from    *)
          latest,    (* latest.json                                        *)
          fresh,     (* trips whose latest result.json is not older than
                        traveler.yaml, trip.yaml and overrides.yaml        *)
          run,       (* how far the run is and what it was asked           *)
          todo,      (* the trips the phase has still to do                *)
          cur,       (* the trip, fingerprint and version of finalize_trip *)
          read,      (* per trip: the values prepare_trip read             *)
          outcome    (* per trip: what became of it in the run             *)

inputs == <<values, settings>>
disk == <<vdir, latest, fresh>>
progress == <<run, todo, cur, read, outcome>>
vars == <<inputs, disk, progress>>

Versions == 1..MaxVersion
NoParts == [text |-> None, hwpx |-> None, verify |-> None, result |-> None]
NoLatest == [version |-> 0, print |-> None]
TornLatest == [version |-> 0, print |-> Torn]
NoTrip == [trip |-> None, print |-> None, version |-> 0]
NoRun == [phase |-> "idle", trips |-> {}, web |-> FALSE, force |-> FALSE]

Parts == [text : Prints \cup {None}, hwpx : Prints \cup {None}, verify : Prints \cup {None},
          result : Prints \cup {None, Torn}]

TypeOK ==
    /\ values \in [Trips -> Values] /\ settings \in [Trips -> Settings]
    /\ vdir \in [Trips -> [Versions -> Parts]]
    /\ latest \in [Trips -> [version : Versions, print : Prints] \cup {NoLatest, TornLatest}]
    /\ fresh \subseteq Trips
    /\ run \in [phase : {"idle", "ingest", "vlm", "prepare", "finalize",
                         "text", "export", "verify", "latest", "result", "done"},
                trips : SUBSET Trips, web : BOOLEAN, force : BOOLEAN]
    /\ todo \subseteq run.trips
    /\ cur \in [trip : Trips, print : Prints, version : Versions] \cup {NoTrip}
    /\ read \in [Trips -> Values \cup {None}]
    /\ outcome \in [Trips -> {"none", "error", "skipped", "new"}]

Init ==
    /\ values \in [Trips -> Values] /\ settings \in [Trips -> Settings]
    /\ vdir = [t \in Trips |-> [v \in Versions |-> NoParts]]
    /\ latest = [t \in Trips |-> NoLatest]
    /\ fresh = {}
    /\ run = NoRun /\ todo = {} /\ cur = NoTrip
    /\ read = [t \in Trips |-> None]
    /\ outcome = [t \in Trips |-> "none"]

-----------------------------------------------------------------------------
(* People save overrides.yaml or trip.yaml, perhaps unchanged; a running   *)
(* job does not keep them from it.  The file is then newer than every      *)
(* result.json of the trip.                                                *)
SaveOverride(t, x) ==
    /\ values' = [values EXCEPT ![t] = x]
    /\ fresh' = fresh \ {t}
    /\ UNCHANGED <<settings, vdir, latest, progress>>

SaveTripYaml(t, s) ==
    /\ settings' = [settings EXCEPT ![t] = s]
    /\ fresh' = fresh \ {t}
    /\ UNCHANGED <<values, vdir, latest, progress>>

(* traveler.yaml belongs to all the trips of the traveller.                *)
SaveProfile(s) ==
    /\ settings' \in [Trips -> {s}] \cup {settings}
    /\ fresh' = {}
    /\ UNCHANGED <<values, vdir, latest, progress>>

-----------------------------------------------------------------------------
(* run_batch: over the trips named on the command line, or over the one    *)
(* trip of a web page.                                                     *)
Start(S, web, force) ==
    /\ run.phase = "idle"
    /\ web => Cardinality(S) = 1 /\ ~force
    /\ run' = [phase |-> "ingest", trips |-> S, web |-> web, force |-> force]
    /\ todo' = S
    /\ UNCHANGED <<inputs, disk, cur, read, outcome>>

(* The run returns or raises; what it kept in memory is forgotten.                   *)
Forget ==
    /\ run' = NoRun /\ todo' = {} /\ cur' = NoTrip
    /\ read' = [t \in Trips |-> None]
    /\ outcome' = [t \in Trips |-> "none"]

Phase(p) == run.phase = p
GoTo(p) == run' = [run EXCEPT !.phase = p]
Gone(t) == outcome[t] = "error"
StillIn == {t \in run.trips : ~Gone(t)}
Failed(t) == outcome' = [outcome EXCEPT ![t] = "error"]

(* Mutant: the next phase waits for every trip of the run.                 *)
NextPhase_WaitsForAll(p, q) ==
    /\ Phase(p) /\ todo = {} /\ StillIn = run.trips
    /\ GoTo(q) /\ todo' = StillIn
    /\ UNCHANGED <<inputs, disk, cur, read, outcome>>

(* A phase has done all its trips: on to the next with those still in.     *)
NextPhase(p, q) ==
    /\ Phase(p) /\ todo = {}
    /\ GoTo(q) /\ todo' = StillIn
    /\ UNCHANGED <<inputs, disk, cur, read, outcome>>

(* ingest of one trip; a broken file fails this trip only.                 *)
Ingest(t) ==
    /\ Phase("ingest") /\ t \in todo
    /\ todo' = todo \ {t}
    /\ UNCHANGED outcome \/ Failed(t)
    /\ UNCHANGED <<inputs, disk, run, cur, read>>

(* Without the local model there is nothing to go on with: the run raises. *)
EnsureVlm ==
    /\ Phase("vlm")
    /\ \/ GoTo("prepare") /\ UNCHANGED <<todo, cur, read, outcome>>
       \/ Forget
    /\ UNCHANGED <<inputs, disk>>

(* prepare_trip: the receipts with overrides.yaml applied.                 *)
PrepareTrip(t) ==
    /\ Phase("prepare") /\ t \in todo
    /\ todo' = todo \ {t}
    /\ \/ read' = [read EXCEPT ![t] = values[t]] /\ UNCHANGED outcome
       \/ Failed(t) /\ UNCHANGED read
    /\ UNCHANGED <<inputs, disk, run, cur>>

-----------------------------------------------------------------------------
(* finalize_trip.                                                          *)

(* Mutant: a fingerprint that differs is written over the last version.    *)
PlanVersion_NoStep(l, print, force) ==
    IF l = NoLatest THEN [version |-> 1, create |-> TRUE]
    ELSE [version |-> l.version, create |-> l.print # print \/ force]

(* Mutant: every run makes a version.                                      *)
PlanVersion_Always(l, print, force) ==
    [version |-> l.version + 1, create |-> TRUE]

PlanVersion(l, print, force) ==
    IF l # NoLatest /\ l.print = print /\ ~force
    THEN [version |-> l.version, create |-> FALSE]
    ELSE [version |-> l.version + 1, create |-> TRUE]

(* The inputs are reviewed and compared with those of the latest version.  *)
(* review_receipts raises on incomplete settings, and so does a torn       *)
(* latest.json.  (At the version bound there is nothing but that.)         *)
Review(t) ==
    /\ Phase("finalize") /\ t \in todo
    /\ todo' = todo \ {t}
    /\ LET print == <<read[t], settings[t]>>
           plan == PlanVersion(latest[t], print, run.force)
       IN \/ Failed(t) /\ UNCHANGED <<cur, run>>
          \/ /\ latest[t] # TornLatest /\ plan.version <= MaxVersion
             /\ IF plan.create
                THEN /\ cur' = [trip |-> t, print |-> print, version |-> plan.version]
                     /\ GoTo("text")
                     /\ UNCHANGED outcome
                ELSE /\ outcome' = [outcome EXCEPT ![t] = "skipped"]
                     /\ UNCHANGED <<cur, run>>
    /\ UNCHANGED <<inputs, disk, read>>

WritePart(part) == vdir' = [vdir EXCEPT ![cur.trip][cur.version][part] = cur.print]

(* An error of the document tool fails this trip; the parts already        *)
(* written stay behind.                                                    *)
ToolFails ==
    /\ Failed(cur.trip)
    /\ cur' = NoTrip
    /\ GoTo("finalize")
    /\ UNCHANGED <<inputs, disk, todo, read>>

(* Mutant: latest.json is written with the report.                         *)
WriteText_WithLatest ==
    /\ Phase("text")
    /\ WritePart("text")
    /\ latest' = [latest EXCEPT ![cur.trip] = [version |-> cur.version, print |-> cur.print]]
    /\ GoTo("export")
    /\ UNCHANGED <<inputs, fresh, todo, cur, read, outcome>>

(* attachments/, report.md, decisions.json, fingerprint.json, changes.md.  *)
WriteText ==
    /\ Phase("text")
    /\ WritePart("text")
    /\ GoTo("export")
    /\ UNCHANGED <<inputs, latest, fresh, todo, cur, read, outcome>>

Export ==
    \/ /\ Phase("export")
       /\ WritePart("hwpx")
       /\ GoTo("verify")
       /\ UNCHANGED <<inputs, latest, fresh, todo, cur, read, outcome>>
    \/ Phase("export") /\ ToolFails

Verify ==
    \/ /\ Phase("verify")
       /\ WritePart("verify")
       /\ GoTo("latest")
       /\ UNCHANGED <<inputs, latest, fresh, todo, cur, read, outcome>>
    \/ Phase("verify") /\ ToolFails

WriteLatest ==
    /\ Phase("latest")
    /\ latest' = [latest EXCEPT ![cur.trip] = [version |-> cur.version, print |-> cur.print]]
    /\ fresh' = fresh \ {cur.trip}
    /\ GoTo("result")
    /\ UNCHANGED <<inputs, vdir, todo, cur, read, outcome>>

WriteResult ==
    /\ Phase("result")
    /\ WritePart("result")
    /\ fresh' = fresh \cup {cur.trip}
    /\ outcome' = [outcome EXCEPT ![cur.trip] = "new"]
    /\ cur' = NoTrip
    /\ GoTo("finalize")
    /\ UNCHANGED <<inputs, latest, todo, read>>

Finish ==
    /\ Phase("finalize") /\ todo = {}
    /\ GoTo("done")
    /\ UNCHANGED <<inputs, disk, todo, cur, read, outcome>>

(* The web job raises the error of its trip, or makes the result of a trip *)
(* that was skipped the newest file again.                                 *)
HasResult(t) == latest[t].version > 0 /\ vdir[t][latest[t].version].result # None

Return ==
    /\ Phase("done")
    /\ fresh' = fresh \cup {t \in run.trips : run.web /\ outcome[t] = "skipped" /\ HasResult(t)}
    /\ Forget
    /\ UNCHANGED <<inputs, vdir, latest>>

-----------------------------------------------------------------------------
(* The process dies.  latest.json and result.json are written in place: a  *)
(* file that was being written may be left cut short.                      *)
Crash ==
    /\ ~Phase("idle")
    /\ Forget
    /\ \/ UNCHANGED <<latest, vdir>>
       \/ /\ Phase("latest")
          /\ latest' = [latest EXCEPT ![cur.trip] = TornLatest]
          /\ UNCHANGED vdir
       \/ /\ Phase("result")
          /\ vdir' = [vdir EXCEPT ![cur.trip][cur.version].result = Torn]
          /\ UNCHANGED latest
    /\ UNCHANGED <<inputs, fresh>>

People ==
    \/ \E t \in Trips, x \in Values : SaveOverride(t, x)
    \/ \E t \in Trips, s \in Settings : SaveTripYaml(t, s)
    \/ \E s \in Settings : SaveProfile(s)

Pipeline ==
    \/ \E t \in Trips : Ingest(t) \/ PrepareTrip(t) \/ Review(t)
    \/ NextPhase("ingest", "vlm") \/ NextPhase("prepare", "finalize")
    \/ EnsureVlm
    \/ WriteText \/ Export \/ Verify \/ WriteLatest \/ WriteResult
    \/ Finish \/ Return

Next ==
    \/ People
    \/ \E S \in SUBSET Trips \ {{}}, web, force \in BOOLEAN : Start(S, web, force)
    \/ Pipeline
    \/ Crash

Spec == Init /\ [][Next]_vars /\ WF_vars(Pipeline)

-----------------------------------------------------------------------------
(* Stage "documented" on the pages (service.py trip_status).               *)
Documented(t) == HasResult(t) /\ t \in fresh

Complete(parts, print) == parts.text = print /\ parts.hwpx = print /\ parts.verify = print

(* Every version up to the one latest.json names is whole: its report, its *)
(* document and its verification were made from the same inputs, and those *)
(* of the latest are the ones its fingerprint stands for, whatever attempt *)
(* failed or crashed half-way, and was repeated with other inputs, before. *)
HistoryIsWhole ==
    \A t \in Trips, v \in Versions :
        v <= latest[t].version =>
            /\ vdir[t][v].text # None /\ Complete(vdir[t][v], vdir[t][v].text)
            /\ v = latest[t].version => Complete(vdir[t][v], latest[t].print)

(* A version that was published is never written again, and the next one   *)
(* has the next number (plan_version).                                     *)
PublishedIsKept ==
    [][\A t \in Trips :
         latest[t]' = TornLatest
         \/ /\ \A v \in Versions : v < latest[t].version => vdir[t][v]' = vdir[t][v]
            /\ \A v \in Versions : v = latest[t].version /\ vdir[t][v].result # None => vdir[t][v]' = vdir[t][v]
            /\ latest[t].version' \in {latest[t].version, latest[t].version + 1}]_vars

(* Two consecutive versions differ in what they were made from, unless a   *)
(* new version was asked for, even when the run that made one of them died *)
(* (the fingerprint in latest.json).                                       *)
NoVersionForNothing ==
    [][\A t \in Trips :
         latest[t].version' > latest[t].version /\ ~run.force => latest[t].print' # latest[t].print]_vars

(* A run ends, unless the process dies.                                    *)
RunsEnd == ~Phase("idle") ~> Phase("idle")

(* Finding: the pages call a trip documented only when its documents were  *)
(* made from its inputs as they are.                                       *)
DocumentedIsCurrent ==
    \A t \in Trips : Documented(t) => latest[t].print = <<values[t], settings[t]>>
=============================================================================
