--------------------------- MODULE Documents_proof ---------------------------
(***************************************************************************)
(* Proofs about the documents of trips, for any trips, inputs and number   *)
(* of versions: the types, that the history of a trip is whole, that what  *)
(* is published is kept, and that a version has a reason.                  *)
(***************************************************************************)
EXTENDS Documents, TLAPS

(* The types alone are not inductive: the steps that write a version need  *)
(* to know that there is a trip they write for, and that what a version is *)
(* made of has been read.                                                  *)
Writing == {"text", "export", "verify", "latest", "result"}

(* A trip that is finalized was prepared: NextPhase leaves out the others. *)
ReadFirst ==
    /\ run.phase \in {"vlm", "prepare"} => \A t \in run.trips \ todo : outcome[t] = "error" \/ read[t] # None
    /\ run.phase \in Writing \cup {"finalize"} => \A t \in todo : read[t] # None

Typed == TypeOK /\ (run.phase \in Writing => cur # NoTrip)

IInv == Typed /\ ReadFirst

LEMMA IInvInit == Init => IInv
  BY DEF Init, IInv, ReadFirst, Typed, TypeOK, Parts, NoParts, NoRun, Writing

LEMMA PeopleInv == Typed /\ People => Typed'
  BY DEF Typed, TypeOK, People, SaveOverride, SaveTripYaml, SaveProfile, progress

LEMMA StartInv ==
  ASSUME Typed, NEW S \in SUBSET Trips \ {{}}, NEW web \in BOOLEAN, NEW force \in BOOLEAN, Start(S, web, force)
  PROVE  Typed'
  BY DEF Typed, TypeOK, Start, inputs, disk, Writing

(* A run forgets what it knew, and leaves the files as they are but for    *)
(* one file cut short.                                                     *)
LEMMA ForgetInv ==
  ASSUME Typed, Forget,
         values' = values, settings' = settings,
         fresh' \subseteq Trips,
         vdir' \in [Trips -> [Versions -> Parts]],
         latest' \in [Trips -> [version : Versions, print : Prints] \cup {NoLatest, TornLatest}]
  PROVE  Typed'
  BY DEF Typed, TypeOK, Forget, NoRun, Writing

LEMMA ReadingInv ==
  ASSUME Typed, NEW t \in Trips, Ingest(t) \/ PrepareTrip(t)
  PROVE  Typed'
  BY DEF Typed, TypeOK, Ingest, PrepareTrip, Phase, Failed, inputs, disk, Writing

LEMMA PhaseInv ==
  ASSUME Typed, NextPhase("ingest", "vlm") \/ NextPhase("prepare", "finalize") \/ Finish
  PROVE  Typed'
  BY DEF Typed, TypeOK, NextPhase, Finish, Phase, GoTo, StillIn, Gone, inputs, disk, Writing

LEMMA EnsureVlmInv == Typed /\ EnsureVlm => Typed'
<1> SUFFICES ASSUME Typed, EnsureVlm PROVE Typed'
  OBVIOUS
<1>1. CASE GoTo("prepare") /\ UNCHANGED <<todo, cur, read, outcome>>
  BY <1>1 DEF EnsureVlm, Typed, TypeOK, GoTo, inputs, disk, Writing
<1>2. CASE Forget
  BY <1>2, ForgetInv DEF EnsureVlm, Typed, TypeOK, inputs, disk
<1>3. QED
  BY <1>1, <1>2 DEF EnsureVlm

LEMMA PlanType ==
  ASSUME TypeOK, NEW t \in Trips, NEW print \in Prints, NEW force \in BOOLEAN,
         latest[t] # TornLatest, PlanVersion(latest[t], print, force).version <= MaxVersion,
         PlanVersion(latest[t], print, force).create
  PROVE  PlanVersion(latest[t], print, force).version \in Versions
<1>1. MaxVersion \in Nat
  BY DocumentAssumptions
<1>2. latest[t].version \in 0..MaxVersion
  BY <1>1 DEF TypeOK, NoLatest, Versions
<1>3. PlanVersion(latest[t], print, force).version = latest[t].version + 1
  BY DEF PlanVersion
<1>4. QED
  BY <1>1, <1>2, <1>3 DEF Versions

LEMMA ReviewInv == ASSUME Typed, ReadFirst, NEW t \in Trips, Review(t) PROVE Typed'
<1> DEFINE print == <<read[t], settings[t]>>
           plan == PlanVersion(latest[t], print, run.force)
<1>1. todo' \subseteq run.trips /\ UNCHANGED <<inputs, disk, read>> /\ run.phase = "finalize"
  BY DEF Review, Typed, TypeOK, Phase
<1>2. CASE Failed(t) /\ UNCHANGED <<cur, run>>
  BY <1>1, <1>2 DEF Typed, TypeOK, Failed, inputs, disk, Writing
<1>3. CASE outcome' = [outcome EXCEPT ![t] = "skipped"] /\ UNCHANGED <<cur, run>>
  BY <1>1, <1>3 DEF Typed, TypeOK, inputs, disk, Writing
<1>4. CASE /\ latest[t] # TornLatest /\ plan.version <= MaxVersion /\ plan.create
           /\ cur' = [trip |-> t, print |-> print, version |-> plan.version]
           /\ GoTo("text")
           /\ UNCHANGED outcome
  <2>1. print \in Prints
    <3>1. t \in todo /\ read[t] # None
      BY DEF Review, Phase, ReadFirst
    <3>2. QED
      BY <3>1 DEF Typed, TypeOK, Prints
  <2>2. plan.version \in Versions
    BY <1>4, <2>1, PlanType DEF Typed, TypeOK
  <2> HIDE DEF print, plan
  <2>3. cur' \in [trip : Trips, print : Prints, version : Versions]
    BY <1>4, <2>1, <2>2
  <2>4. cur' # NoTrip
    BY <1>4, DocumentAssumptions DEF NoTrip
  <2>5. QED
    BY <1>1, <1>4, <2>3, <2>4 DEF Typed, TypeOK, GoTo, inputs, disk
<1>5. QED
  BY <1>2, <1>3, <1>4 DEF Review

LEMMA CurType ==
  ASSUME Typed, run.phase \in Writing
  PROVE  cur \in [trip : Trips, print : Prints, version : Versions]
  BY DEF Typed, TypeOK

LEMMA PartType ==
  ASSUME Typed, run.phase \in Writing, NEW part \in {"text", "hwpx", "verify", "result"}, WritePart(part)
  PROVE  vdir' \in [Trips -> [Versions -> Parts]]
<1>1. cur.trip \in Trips /\ cur.version \in Versions /\ cur.print \in Prints
  BY CurType
<1>2. vdir[cur.trip][cur.version] \in Parts
  BY <1>1 DEF Typed, TypeOK
<1>3. [vdir[cur.trip][cur.version] EXCEPT ![part] = cur.print] \in Parts
  BY <1>1, <1>2 DEF Parts
<1>4. QED
  BY <1>1, <1>3 DEF Typed, TypeOK, WritePart

LEMMA ToolFailsInv == ASSUME Typed, run.phase \in Writing, ToolFails PROVE Typed'
  BY CurType DEF Typed, TypeOK, ToolFails, Failed, GoTo, inputs, disk, Writing

LEMMA WriteInv == ASSUME Typed, WriteText \/ Export \/ Verify PROVE Typed'
<1>1. run.phase \in Writing
  BY DEF WriteText, Export, Verify, Phase, Writing
<1>2. CASE ToolFails
  BY <1>1, <1>2, ToolFailsInv
<1>3. CASE /\ WritePart("text") \/ WritePart("hwpx") \/ WritePart("verify")
           /\ GoTo("export") \/ GoTo("verify") \/ GoTo("latest")
           /\ UNCHANGED <<inputs, latest, fresh, todo, cur, read, outcome>>
  <2>1. vdir' \in [Trips -> [Versions -> Parts]]
    BY <1>1, <1>3, PartType
  <2>2. cur # NoTrip
    BY <1>1 DEF Typed
  <2>3. QED
    BY <1>3, <2>1, <2>2 DEF Typed, TypeOK, GoTo, inputs
<1>4. QED
  BY <1>2, <1>3 DEF WriteText, Export, Verify

LEMMA WriteLatestInv == ASSUME Typed, WriteLatest PROVE Typed'
<1>1. run.phase \in Writing
  BY DEF WriteLatest, Phase, Writing
<1>2. cur \in [trip : Trips, print : Prints, version : Versions] /\ cur # NoTrip
  BY <1>1, CurType DEF Typed
<1>3. QED
  BY <1>2 DEF WriteLatest, Typed, TypeOK, GoTo, inputs

LEMMA WriteResultInv == ASSUME Typed, WriteResult PROVE Typed'
<1>1. run.phase \in Writing
  BY DEF WriteResult, Phase, Writing
<1>2. vdir' \in [Trips -> [Versions -> Parts]]
  BY <1>1, PartType DEF WriteResult
<1>3. cur.trip \in Trips
  BY <1>1, CurType
<1>4. QED
  BY <1>2, <1>3 DEF WriteResult, Typed, TypeOK, GoTo, inputs, Writing

LEMMA ReturnInv == ASSUME Typed, Return PROVE Typed'
<1>1. fresh' \subseteq Trips
  BY DEF Return, Typed, TypeOK
<1>2. QED
  BY <1>1, ForgetInv DEF Return, Typed, TypeOK, inputs

LEMMA CrashInv == ASSUME Typed, Crash PROVE Typed'
<1>1. Forget /\ UNCHANGED <<inputs, fresh>>
  BY DEF Crash
<1>2. CASE UNCHANGED <<latest, vdir>>
  BY <1>1, <1>2, ForgetInv DEF Typed, TypeOK, inputs
<1>3. CASE latest' = [latest EXCEPT ![cur.trip] = TornLatest] /\ UNCHANGED vdir
  BY <1>1, <1>3, ForgetInv DEF Typed, TypeOK, inputs
<1>4. CASE Phase("result") /\ vdir' = [vdir EXCEPT ![cur.trip][cur.version].result = Torn] /\ UNCHANGED latest
  <2>1. cur.trip \in Trips /\ cur.version \in Versions
    BY <1>4, CurType DEF Phase, Writing
  <2>2. [vdir[cur.trip][cur.version] EXCEPT !.result = Torn] \in Parts
    <3>1. vdir[cur.trip][cur.version] \in Parts
      BY <2>1 DEF Typed, TypeOK
    <3>2. QED
      BY <3>1 DEF Parts
  <2>3. vdir' \in [Trips -> [Versions -> Parts]]
    BY <1>4, <2>1, <2>2 DEF Typed, TypeOK
  <2>4. QED
    BY <1>1, <1>4, <2>3, ForgetInv DEF Typed, TypeOK, inputs
<1>5. QED
  BY <1>2, <1>3, <1>4 DEF Crash

(* What is read stays read until the run is over.                          *)
LEMMA ReadFirstNext == ASSUME Typed, ReadFirst, [Next]_vars PROVE ReadFirst'
<1>1. CASE UNCHANGED <<run, todo, read, outcome>>
  BY <1>1 DEF ReadFirst
<1>2. CASE Forget
  BY <1>2 DEF ReadFirst, Forget, NoRun, Writing
<1>3. ASSUME NEW S \in SUBSET Trips \ {{}}, NEW web \in BOOLEAN, NEW force \in BOOLEAN, Start(S, web, force)
      PROVE  ReadFirst'
  BY <1>3 DEF ReadFirst, Start, Writing
<1>4. ASSUME NEW t \in Trips, Ingest(t)
      PROVE  ReadFirst'
  BY <1>4 DEF ReadFirst, Ingest, Phase, Writing
<1>5. ASSUME NEW t \in Trips, PrepareTrip(t)
      PROVE  ReadFirst'
  <2>1. run.phase = "prepare" /\ run' = run /\ todo' = todo \ {t} /\ t \in todo
    BY <1>5 DEF PrepareTrip, Phase
  <2>2. outcome'[t] = "error" \/ read'[t] # None
    BY <1>5, <2>1, DocumentAssumptions DEF PrepareTrip, Failed, Typed, TypeOK
  <2>3. \A u \in run.trips \ todo : u # t
    BY <2>1
  <2>4. \A u \in Trips : u # t => read'[u] = read[u] /\ outcome'[u] = outcome[u]
    BY <1>5 DEF PrepareTrip, Failed, Typed, TypeOK
  <2>5. QED
    BY <2>1, <2>2, <2>3, <2>4 DEF ReadFirst, Writing, Typed, TypeOK
<1>6. ASSUME NEW t \in Trips, Review(t)
      PROVE  ReadFirst'
  BY <1>6 DEF ReadFirst, Review, Phase, GoTo, Writing, Typed, TypeOK
<1>7. CASE NextPhase("ingest", "vlm") \/ NextPhase("prepare", "finalize")
  BY <1>7 DEF ReadFirst, NextPhase, Phase, GoTo, StillIn, Gone, Writing, Typed, TypeOK
<1>8. CASE EnsureVlm
  BY <1>2, <1>8 DEF ReadFirst, EnsureVlm, Phase, GoTo, Writing, Typed, TypeOK
<1>9. CASE WriteText \/ Export \/ Verify \/ WriteLatest \/ WriteResult
  BY <1>9 DEF ReadFirst, WriteText, Export, Verify, WriteLatest, WriteResult, ToolFails, Phase, GoTo, Writing, Typed, TypeOK
<1>10. CASE Finish
  BY <1>10 DEF ReadFirst, Finish, GoTo, Writing, Typed, TypeOK
<1>11. CASE Return \/ Crash
  BY <1>2, <1>11 DEF Return, Crash
<1>12. CASE People
  BY <1>1, <1>12 DEF People, SaveOverride, SaveTripYaml, SaveProfile, progress
<1>13. QED
  BY <1>1, <1>3, <1>4, <1>5, <1>6, <1>7, <1>8, <1>9, <1>10, <1>11, <1>12 DEF Next, Pipeline, vars, progress

LEMMA TypedNext == ASSUME Typed, ReadFirst, [Next]_vars PROVE Typed'
<1>1. CASE UNCHANGED vars
  BY <1>1 DEF Typed, TypeOK, vars, inputs, disk, progress
<1>2. CASE Pipeline
  BY <1>2, ReadingInv, ReviewInv, PhaseInv, EnsureVlmInv, WriteInv, WriteLatestInv, WriteResultInv, ReturnInv DEF Pipeline
<1>3. QED
  BY <1>1, <1>2, PeopleInv, StartInv, CrashInv DEF Next

(* Whatever fails, dies or is saved meanwhile, for any number of trips and *)
(* versions, the files of the versions hold inputs of their trip or are    *)
(* cut short, and a run that writes a version writes it for a trip of its  *)
(* own (run_batch, finalize_trip).                                         *)
THEOREM DocumentsTyping == Spec => []TypeOK
<1>1. IInv => TypeOK
  BY DEF IInv, Typed
<1>2. IInv /\ [Next]_vars => IInv'
  BY TypedNext, ReadFirstNext DEF IInv
<1>3. QED
  BY <1>1, <1>2, IInvInit, PTL DEF Spec

-----------------------------------------------------------------------------
(* The version being written is the one after the latest, and what is in   *)
(* it so far is of the inputs it is made for, whatever an earlier attempt  *)
(* left there; it has a reason.                                            *)
Draft == vdir[cur.trip][cur.version]

BeingWritten ==
    /\ run.phase \in {"text", "export", "verify", "latest"} =>
         /\ latest[cur.trip] # TornLatest
         /\ cur.version = latest[cur.trip].version + 1
         /\ run.force \/ latest[cur.trip].print # cur.print
    /\ run.phase \in {"export", "verify", "latest"} => Draft.text = cur.print
    /\ run.phase \in {"verify", "latest"} => Draft.hwpx = cur.print
    /\ run.phase = "latest" => Draft.verify = cur.print
    /\ run.phase = "result" => latest[cur.trip] = [version |-> cur.version, print |-> cur.print]

(* No version after the latest has a result, nor has the one that is going *)
(* to get it.                                                              *)
Unrecorded ==
    \A t \in Trips, v \in Versions :
        \/ latest[t] # TornLatest /\ v > latest[t].version
        \/ run.phase = "result" /\ t = cur.trip /\ v = cur.version
        => vdir[t][v].result = None

VInv == IInv /\ BeingWritten /\ Unrecorded /\ HistoryIsWhole

LEMMA LatestType ==
  ASSUME TypeOK, NEW t \in Trips
  PROVE  /\ latest[t].version \in 0..MaxVersion
         /\ latest[t].version # 0 => latest[t].print \in Prints
         /\ latest[t].version = 0 => latest[t] \in {NoLatest, TornLatest}
<1>1. MaxVersion \in Nat
  BY DocumentAssumptions
<1>2. latest[t] \in [version : Versions, print : Prints] \cup {NoLatest, TornLatest}
  BY DEF TypeOK
<1>3. QED
  BY <1>1, <1>2 DEF Versions, NoLatest, TornLatest

(* What a part written into a version changes.                             *)
LEMMA PartWritten ==
  ASSUME Typed, run.phase \in Writing, NEW part \in {"text", "hwpx", "verify", "result"}, WritePart(part)
  PROVE  /\ \A t \in Trips, v \in Versions :
              t # cur.trip \/ v # cur.version => vdir'[t][v] = vdir[t][v]
         /\ vdir'[cur.trip][cur.version] = [Draft EXCEPT ![part] = cur.print]
         /\ Draft \in Parts
<1>1. cur.trip \in Trips /\ cur.version \in Versions /\ cur.print \in Prints
  BY CurType
<1>2. vdir \in [Trips -> [Versions -> Parts]]
  BY DEF Typed, TypeOK
<1>3. QED
  BY <1>1, <1>2 DEF WritePart, Draft

LEMMA VInvInit == Init => VInv
<1> SUFFICES ASSUME Init PROVE VInv
  OBVIOUS
<1>1. BeingWritten /\ Unrecorded
  BY DEF Init, BeingWritten, Unrecorded, NoRun, NoParts
<1>2. HistoryIsWhole
  <2>1. \A t \in Trips : latest[t].version = 0
    BY DEF Init, NoLatest
  <2>2. \A v \in Versions : ~(v <= 0)
    BY DEF Versions
  <2>3. QED
    BY <2>1, <2>2 DEF HistoryIsWhole
<1>3. QED
  BY <1>1, <1>2, IInvInit DEF VInv

(* Steps that write no file of a version: what they leave to be written is *)
(* what there was to write, or nothing.                                    *)
LEMMA NothingWritten ==
  ASSUME VInv, IInv', UNCHANGED <<vdir, latest>>, UNCHANGED <<run, cur>> \/ run'.phase \notin Writing
  PROVE  VInv'
<1>1. BeingWritten'
  BY DEF VInv, BeingWritten, Draft, Writing
<1>2. Unrecorded'
  BY DEF VInv, Unrecorded, Writing
<1>3. HistoryIsWhole'
  BY DEF VInv, HistoryIsWhole, Complete
<1>4. QED
  BY <1>1, <1>2, <1>3 DEF VInv

(* A version is begun when the fingerprint is another one or a new version *)
(* was asked for.                                                          *)
LEMMA VersionBegun ==
  ASSUME VInv, IInv', NEW t \in Trips, Review(t)
  PROVE  VInv'
<1> DEFINE print == <<read[t], settings[t]>>
           plan == PlanVersion(latest[t], print, run.force)
<1>1. UNCHANGED <<vdir, latest>> /\ run.phase = "finalize"
  BY DEF Review, Phase, disk
<1>2. CASE UNCHANGED <<cur, run>>
  BY <1>1, <1>2, NothingWritten
<1>3. CASE /\ latest[t] # TornLatest /\ plan.create
           /\ cur' = [trip |-> t, print |-> print, version |-> plan.version]
           /\ GoTo("text")
  <2>1. plan = [version |-> latest[t].version + 1, create |-> TRUE]
    BY <1>3 DEF PlanVersion
  <2>2. run.force \/ latest[t].print # print
    <3>1. ASSUME latest[t] = NoLatest, print \in Prints PROVE latest[t].print # print
      BY <3>1, DocumentAssumptions DEF NoLatest
    <3>2. print \in Prints
      <4>1. cur'.print = print
        BY <1>3
      <4>2. cur'.print \in Prints
        BY <1>3, DocumentAssumptions DEF VInv, IInv, Typed, TypeOK, GoTo, NoTrip
      <4>3. QED
        BY <4>1, <4>2
    <3> HIDE DEF print
    <3>3. QED
      BY <1>3, <3>1, <3>2 DEF PlanVersion
  <2>3. run'.phase = "text" /\ run'.force = run.force
    BY <1>3 DEF GoTo, VInv, IInv, Typed, TypeOK
  <2> HIDE DEF print, plan
  <2>4. cur'.trip = t /\ cur'.version = latest[t].version + 1 /\ cur'.print = print
    BY <1>3, <2>1
  <2>5. BeingWritten'
    BY <1>1, <1>3, <2>2, <2>3, <2>4 DEF BeingWritten
  <2>6. Unrecorded'
    BY <1>1, <2>3 DEF VInv, Unrecorded
  <2>7. HistoryIsWhole'
    BY <1>1 DEF VInv, HistoryIsWhole, Complete
  <2>8. QED
    BY <2>5, <2>6, <2>7 DEF VInv
<1>4. QED
  BY <1>2, <1>3 DEF Review

(* A part of the version being written: it is after the latest, so no      *)
(* published version is touched.                                           *)
LEMMA PartInv ==
  ASSUME VInv, NEW part \in {"text", "hwpx", "verify"}, WritePart(part),
         run.phase \in {"text", "export", "verify"}, UNCHANGED latest
  PROVE  /\ HistoryIsWhole'
         /\ \A t \in Trips, v \in Versions : vdir'[t][v].result = vdir[t][v].result
<1>1. cur.trip \in Trips /\ cur.version = latest[cur.trip].version + 1
  BY CurType DEF VInv, IInv, BeingWritten, Writing
<1>2. latest[cur.trip].version \in Nat
  BY <1>1, LatestType, DocumentAssumptions DEF VInv, IInv, Typed
<1>3. /\ \A t \in Trips, v \in Versions : t # cur.trip \/ v # cur.version => vdir'[t][v] = vdir[t][v]
      /\ vdir'[cur.trip][cur.version] = [Draft EXCEPT ![part] = cur.print]
      /\ Draft \in Parts
  BY PartWritten DEF VInv, IInv, Writing
<1>4. \A t \in Trips, v \in Versions : v <= latest[t].version => vdir'[t][v] = vdir[t][v]
  BY <1>1, <1>2, <1>3 DEF Versions
<1>5. HistoryIsWhole'
  BY <1>4 DEF VInv, HistoryIsWhole, Complete
<1>6. [Draft EXCEPT ![part] = cur.print].result = Draft.result
  BY <1>3 DEF Parts
<1>7. QED
  BY <1>3, <1>5, <1>6 DEF Draft

LEMMA PartsInv == ASSUME VInv, IInv', WriteText \/ Export \/ Verify PROVE VInv'
<1>1. CASE ToolFails
  <2>1. run'.phase = "finalize"
    BY <1>1 DEF ToolFails, GoTo, VInv, IInv, Typed, TypeOK
  <2>2. UNCHANGED <<vdir, latest>>
    BY <1>1 DEF ToolFails, disk
  <2>3. QED
    BY <2>1, <2>2, NothingWritten DEF Writing
<1>2. ASSUME NEW part \in {"text", "hwpx", "verify"}, NEW next \in {"export", "verify", "latest"},
             <<run.phase, part, next>> \in {<<"text", "text", "export">>, <<"export", "hwpx", "verify">>,
                                            <<"verify", "verify", "latest">>},
             WritePart(part), GoTo(next), UNCHANGED <<latest, cur>>
      PROVE  VInv'
  <2>1. run.phase \in {"text", "export", "verify"}
    BY <1>2
  <2>2. /\ HistoryIsWhole'
        /\ \A t \in Trips, v \in Versions : vdir'[t][v].result = vdir[t][v].result
    BY <1>2, <2>1, PartInv
  <2>3. run'.phase = next /\ run'.force = run.force
    BY <1>2 DEF GoTo, VInv, IInv, Typed, TypeOK
  <2>4. Draft' = [Draft EXCEPT ![part] = cur.print] /\ Draft \in Parts
    BY <1>2, <2>1, PartWritten DEF VInv, IInv, Writing, Draft
  <2>5. BeingWritten'
    <3>1. /\ latest'[cur'.trip] # TornLatest
          /\ cur'.version = latest'[cur'.trip].version + 1
          /\ run'.force \/ latest'[cur'.trip].print # cur'.print
      BY <1>2, <2>1, <2>3 DEF VInv, BeingWritten
    <3>2. Draft'.text = cur'.print
      BY <1>2, <2>4 DEF VInv, BeingWritten, Parts
    <3>3. run'.phase \in {"verify", "latest"} => Draft'.hwpx = cur'.print
      BY <1>2, <2>3, <2>4 DEF VInv, BeingWritten, Parts
    <3>4. run'.phase = "latest" => Draft'.verify = cur'.print
      BY <1>2, <2>3, <2>4 DEF VInv, BeingWritten, Parts
    <3>5. QED
      BY <2>3, <3>1, <3>2, <3>3, <3>4 DEF BeingWritten
  <2>6. Unrecorded'
    BY <1>2, <2>2, <2>3 DEF VInv, Unrecorded
  <2>7. QED
    BY <2>2, <2>5, <2>6 DEF VInv
<1>3. QED
  BY <1>1, <1>2 DEF WriteText, Export, Verify, Phase

(* latest.json: the version now published is whole and of the inputs its   *)
(* fingerprint stands for, and those before it were published already.     *)
LEMMA PublishedInv == ASSUME VInv, IInv', WriteLatest PROVE VInv'
<1> DEFINE new == [version |-> cur.version, print |-> cur.print]
<1>1. /\ cur.trip \in Trips /\ cur.version \in Versions /\ cur.print \in Prints
      /\ run.phase = "latest" /\ UNCHANGED <<vdir, cur>>
  BY CurType DEF VInv, IInv, Writing, WriteLatest, Phase
<1>2. cur.version = latest[cur.trip].version + 1 /\ Complete(Draft, cur.print)
  BY <1>1 DEF VInv, BeingWritten, Complete
<1>3. /\ latest'[cur.trip] = new
      /\ \A t \in Trips : t # cur.trip => latest'[t] = latest[t]
  BY <1>1 DEF WriteLatest, VInv, IInv, Typed, TypeOK
<1>4. run'.phase = "result"
  BY DEF WriteLatest, GoTo, VInv, IInv, Typed, TypeOK
<1>5. latest[cur.trip].version \in Nat /\ latest[cur.trip] # TornLatest
  BY <1>1, LatestType, DocumentAssumptions DEF VInv, IInv, Typed, BeingWritten
<1>6. BeingWritten'
  BY <1>1, <1>3, <1>4 DEF BeingWritten
<1>7. Unrecorded'
  <2>1. \A v \in Versions : v > cur.version \/ v = cur.version => v > latest[cur.trip].version
    BY <1>1, <1>2, <1>5 DEF Versions
  <2>2. ASSUME NEW t \in Trips, NEW v \in Versions,
               \/ latest'[t] # TornLatest /\ v > latest'[t].version
               \/ t = cur.trip /\ v = cur.version
        PROVE  vdir[t][v].result = None
    <3>1. CASE t = cur.trip
      BY <1>3, <1>5, <2>1, <2>2, <3>1 DEF VInv, Unrecorded
    <3>2. CASE t # cur.trip
      BY <1>3, <2>2, <3>2 DEF VInv, Unrecorded
    <3>3. QED
      BY <3>1, <3>2
  <2>3. QED
    BY <1>1, <1>4, <2>2 DEF Unrecorded
<1>8. HistoryIsWhole'
  <2>1. ASSUME NEW v \in Versions, v <= cur.version
        PROVE  /\ vdir[cur.trip][v].text # None /\ Complete(vdir[cur.trip][v], vdir[cur.trip][v].text)
               /\ v = cur.version => Complete(vdir[cur.trip][v], cur.print)
    <3>1. CASE v = cur.version
      <4>1. cur.print # None
        BY <1>1, DocumentAssumptions
      <4>2. QED
        BY <1>2, <3>1, <4>1 DEF Complete, Draft
    <3>2. CASE v # cur.version
      <4>1. v <= latest[cur.trip].version
        BY <1>1, <1>2, <1>5, <2>1, <3>2 DEF Versions
      <4>2. QED
        BY <1>1, <3>2, <4>1 DEF VInv, HistoryIsWhole
    <3>3. QED
      BY <3>1, <3>2
  <2>2. QED
    BY <1>1, <1>3, <2>1 DEF VInv, HistoryIsWhole, Complete
<1>9. QED
  BY <1>6, <1>7, <1>8 DEF VInv

(* result.json says nothing of the text, document or verification.         *)
LEMMA ResultInv ==
  ASSUME VInv, IInv', run.phase = "result", run'.phase \notin Writing, UNCHANGED latest,
         NEW x \in Prints \cup {Torn}, vdir' = [vdir EXCEPT ![cur.trip][cur.version].result = x]
  PROVE  VInv'
<1>1. cur.trip \in Trips /\ cur.version \in Versions
  BY CurType DEF VInv, IInv, Writing
<1>2. latest[cur.trip].version = cur.version
  BY DEF VInv, BeingWritten
<1>3. vdir \in [Trips -> [Versions -> Parts]] /\ Draft \in Parts
  BY <1>1 DEF VInv, IInv, Typed, TypeOK, Draft
<1>4. /\ \A t \in Trips, v \in Versions : t # cur.trip \/ v # cur.version => vdir'[t][v] = vdir[t][v]
      /\ vdir'[cur.trip][cur.version] = [Draft EXCEPT !.result = x]
  BY <1>1, <1>3 DEF Draft
<1>5. /\ vdir'[cur.trip][cur.version].text = vdir[cur.trip][cur.version].text
      /\ vdir'[cur.trip][cur.version].hwpx = vdir[cur.trip][cur.version].hwpx
      /\ vdir'[cur.trip][cur.version].verify = vdir[cur.trip][cur.version].verify
  BY <1>3, <1>4 DEF Parts, Draft
<1>6. HistoryIsWhole'
  BY <1>4, <1>5 DEF VInv, HistoryIsWhole, Complete
<1>7. Unrecorded'
  <2>1. ASSUME NEW t \in Trips, NEW v \in Versions, latest[t] # TornLatest, v > latest[t].version
        PROVE  vdir'[t][v].result = None
    <3>1. t # cur.trip \/ v # cur.version
      BY <1>1, <1>2, <2>1, DocumentAssumptions DEF Versions
    <3>2. QED
      BY <1>4, <2>1, <3>1 DEF VInv, Unrecorded
  <2>2. QED
    BY <2>1 DEF Unrecorded, Writing
<1>8. BeingWritten'
  BY DEF BeingWritten, Writing
<1>9. QED
  BY <1>6, <1>7, <1>8 DEF VInv

LEMMA WriteResultKeeps == ASSUME VInv, IInv', WriteResult PROVE VInv'
<1>1. run.phase = "result" /\ run'.phase = "finalize"
  BY DEF WriteResult, Phase, GoTo, VInv, IInv, Typed, TypeOK
<1>2. cur.print \in Prints
  BY <1>1, CurType DEF VInv, IInv, Writing
<1>3. QED
  BY <1>1, <1>2, ResultInv DEF WriteResult, WritePart, Writing

(* A crash leaves one file cut short: a torn latest.json names nothing.    *)
LEMMA CrashKeeps == ASSUME VInv, IInv', Crash PROVE VInv'
<1>1. run'.phase = "idle"
  BY DEF Crash, Forget, NoRun
<1>2. CASE UNCHANGED <<latest, vdir>>
  BY <1>1, <1>2, NothingWritten DEF Writing
<1>3. CASE Phase("latest") /\ latest' = [latest EXCEPT ![cur.trip] = TornLatest] /\ UNCHANGED vdir
  <2>1. \A t \in Trips : latest'[t] \in {latest[t], TornLatest}
    BY <1>3 DEF VInv, IInv, Typed, TypeOK
  <2>2. \A v \in Versions : ~(v <= TornLatest.version)
    BY DocumentAssumptions DEF Versions, TornLatest
  <2>3. HistoryIsWhole'
    BY <1>3, <2>1, <2>2 DEF VInv, HistoryIsWhole, Complete
  <2>4. Unrecorded' /\ BeingWritten'
    BY <1>1, <1>3, <2>1 DEF VInv, Unrecorded, BeingWritten
  <2>5. QED
    BY <2>3, <2>4 DEF VInv
<1>4. CASE Phase("result") /\ vdir' = [vdir EXCEPT ![cur.trip][cur.version].result = Torn] /\ UNCHANGED latest
  BY <1>1, <1>4, ResultInv DEF Phase, Writing
<1>5. QED
  BY <1>2, <1>3, <1>4 DEF Crash

(* The other steps of a run.                                               *)
LEMMA OtherKeeps ==
  ASSUME VInv, IInv',
         \/ People
         \/ \E S \in SUBSET Trips \ {{}}, web, force \in BOOLEAN : Start(S, web, force)
         \/ \E t \in Trips : Ingest(t) \/ PrepareTrip(t)
         \/ NextPhase("ingest", "vlm") \/ NextPhase("prepare", "finalize")
         \/ EnsureVlm \/ Finish \/ Return
  PROVE  VInv'
<1>1. CASE People \/ \E t \in Trips : Ingest(t) \/ PrepareTrip(t)
  BY <1>1, NothingWritten
     DEF People, SaveOverride, SaveTripYaml, SaveProfile, Ingest, PrepareTrip, disk, progress
<1>2. ASSUME NEW S \in SUBSET Trips, NEW web \in BOOLEAN, NEW force \in BOOLEAN, Start(S, web, force)
      PROVE  VInv'
  BY <1>2, NothingWritten DEF Start, disk, Writing
<1>3. CASE NextPhase("ingest", "vlm") \/ NextPhase("prepare", "finalize") \/ Finish
  <2>1. run'.phase \in {"vlm", "finalize", "done"}
    BY <1>3 DEF NextPhase, Finish, GoTo, VInv, IInv, Typed, TypeOK
  <2>2. QED
    BY <1>3, <2>1, NothingWritten DEF NextPhase, Finish, disk, Writing
<1>4. CASE EnsureVlm \/ Return
  <2>1. run'.phase \in {"prepare", "idle"}
    BY <1>4 DEF EnsureVlm, Return, GoTo, Forget, NoRun, VInv, IInv, Typed, TypeOK
  <2>2. QED
    BY <1>4, <2>1, NothingWritten DEF EnsureVlm, Return, disk, Writing
<1>5. QED
  BY <1>1, <1>2, <1>3, <1>4

LEMMA VInvNext == VInv /\ [Next]_vars => VInv'
<1> SUFFICES ASSUME VInv, [Next]_vars PROVE VInv'
  OBVIOUS
<1>1. IInv'
  BY TypedNext, ReadFirstNext DEF VInv, IInv
<1>2. CASE UNCHANGED vars
  BY <1>1, <1>2, NothingWritten DEF vars, disk, progress
<1>3. CASE Pipeline
  BY <1>1, <1>3, OtherKeeps, VersionBegun, PartsInv, PublishedInv, WriteResultKeeps DEF Pipeline
<1>4. QED
  BY <1>1, <1>2, <1>3, OtherKeeps, CrashKeeps DEF Next

THEOREM VersionsInvariance == Spec => []VInv
BY VInvInit, VInvNext, PTL DEF Spec

(* For any trips, inputs and versions: every version up to the one that    *)
(* latest.json names is whole, and the latest is of the inputs that its    *)
(* fingerprint stands for (finalize_trip, plan_version).                   *)
THEOREM HistoryStaysWhole == Spec => []HistoryIsWhole
<1>1. VInv => HistoryIsWhole
  BY DEF VInv
<1>2. QED
  BY <1>1, VersionsInvariance, PTL

-----------------------------------------------------------------------------
(* latest.json changes when a version is published, and when it is torn.   *)
LEMMA LatestSteps ==
  ASSUME VInv, [Next]_vars
  PROVE  \/ UNCHANGED latest
         \/ WriteLatest
         \/ \A t \in Trips : latest'[t] \in {latest[t], TornLatest}
<1>1. CASE Crash
  BY <1>1 DEF Crash, VInv, IInv, Typed, TypeOK
<1>2. CASE Pipeline
  BY <1>2 DEF Pipeline, Ingest, PrepareTrip, Review, NextPhase, EnsureVlm, WriteText, Export, Verify, ToolFails,
              WriteResult, Finish, Return, disk
<1>3. CASE People \/ UNCHANGED vars
  BY <1>3 DEF People, SaveOverride, SaveTripYaml, SaveProfile, vars, disk
<1>4. CASE \E S \in SUBSET Trips \ {{}}, web, force \in BOOLEAN : Start(S, web, force)
  BY <1>4 DEF Start, disk
<1>5. QED
  BY <1>1, <1>2, <1>3, <1>4 DEF Next

(* A version changes only while it is the one at hand.                     *)
LEMMA VersionSteps ==
  ASSUME VInv, [Next]_vars
  PROVE  \/ UNCHANGED vdir
         \/ /\ run.phase \in {"text", "export", "verify", "result"}
            /\ \A t \in Trips, v \in Versions : t # cur.trip \/ v # cur.version => vdir'[t][v] = vdir[t][v]
<1>1. CASE WriteText \/ Export \/ Verify \/ WriteResult
  BY <1>1, PartWritten DEF WriteText, Export, Verify, WriteResult, ToolFails, Phase, Writing, VInv, IInv, disk
<1>2. CASE Crash
  <2>1. CASE Phase("result") /\ vdir' = [vdir EXCEPT ![cur.trip][cur.version].result = Torn]
    BY <2>1 DEF Phase, VInv, IInv, Typed, TypeOK
  <2>2. QED
    BY <1>2, <2>1 DEF Crash
<1>3. CASE Pipeline
  BY <1>1, <1>3 DEF Pipeline, Ingest, PrepareTrip, Review, NextPhase, EnsureVlm, WriteLatest, Finish, Return, disk
<1>4. CASE People \/ UNCHANGED vars
  BY <1>4 DEF People, SaveOverride, SaveTripYaml, SaveProfile, vars, disk
<1>5. CASE \E S \in SUBSET Trips \ {{}}, web, force \in BOOLEAN : Start(S, web, force)
  BY <1>5 DEF Start, disk
<1>6. QED
  BY <1>2, <1>3, <1>4, <1>5 DEF Next

LEMMA KeptVersions ==
  ASSUME VInv, [Next]_vars, NEW t \in Trips, NEW v \in Versions,
         v < latest[t].version \/ (v = latest[t].version /\ vdir[t][v].result # None)
  PROVE  vdir'[t][v] = vdir[t][v]
<1>1. CASE t = cur.trip /\ v = cur.version /\ run.phase \in {"text", "export", "verify"}
  <2>1. v = latest[t].version + 1 /\ latest[t].version \in Nat
    BY <1>1, LatestType, DocumentAssumptions DEF VInv, IInv, Typed, BeingWritten
  <2>2. QED
    BY <2>1
<1>2. CASE t = cur.trip /\ v = cur.version /\ run.phase = "result"
  <2>1. v = latest[t].version /\ vdir[t][v].result = None
    BY <1>2 DEF VInv, BeingWritten, Unrecorded
  <2>2. QED
    BY <2>1, DocumentAssumptions DEF Versions
<1>3. QED
  BY <1>1, <1>2, VersionSteps

LEMMA NextVersion ==
  ASSUME VInv, [Next]_vars, NEW t \in Trips, latest'[t] # TornLatest
  PROVE  \/ latest'[t] = latest[t]
         \/ /\ latest'[t].version = latest[t].version + 1
            /\ run.force \/ latest'[t].print # latest[t].print
<1>1. CASE WriteLatest /\ t = cur.trip
  <2>1. latest'[t] = [version |-> cur.version, print |-> cur.print]
    BY <1>1 DEF WriteLatest, VInv, IInv, Typed, TypeOK
  <2>2. cur.version = latest[t].version + 1 /\ (run.force \/ latest[t].print # cur.print)
    BY <1>1 DEF WriteLatest, Phase, VInv, BeingWritten
  <2>3. QED
    BY <2>1, <2>2
<1>2. CASE WriteLatest /\ t # cur.trip
  BY <1>2 DEF WriteLatest, VInv, IInv, Typed, TypeOK
<1>3. QED
  BY <1>1, <1>2, LatestSteps

(* For any trips and versions: a version that was published is never       *)
(* written again, by no later run, after no failure or crash, and numbers  *)
(* follow each other (plan_version, finalize_trip).                        *)
THEOREM PublishedStays == Spec => PublishedIsKept
<1>1. ASSUME VInv, [Next]_vars, NEW t \in Trips
      PROVE  \/ latest[t]' = TornLatest
             \/ /\ \A v \in Versions : v < latest[t].version => vdir[t][v]' = vdir[t][v]
                /\ \A v \in Versions : v = latest[t].version /\ vdir[t][v].result # None => vdir[t][v]' = vdir[t][v]
                /\ latest[t].version' \in {latest[t].version, latest[t].version + 1}
  BY <1>1, KeptVersions, NextVersion
<1>2. VInv /\ [Next]_vars =>
        [\A t \in Trips :
           latest[t]' = TornLatest
           \/ /\ \A v \in Versions : v < latest[t].version => vdir[t][v]' = vdir[t][v]
              /\ \A v \in Versions : v = latest[t].version /\ vdir[t][v].result # None => vdir[t][v]' = vdir[t][v]
              /\ latest[t].version' \in {latest[t].version, latest[t].version + 1}]_vars
  BY <1>1
<1>3. QED
  BY <1>2, VersionsInvariance, PTL DEF Spec, PublishedIsKept

(* For any trips and versions: a version is published for inputs other     *)
(* than those of the last one, unless a new version was asked for          *)
(* (plan_version).                                                         *)
THEOREM VersionsHaveReasons == Spec => NoVersionForNothing
<1>1. ASSUME VInv, [Next]_vars, NEW t \in Trips, latest[t].version' > latest[t].version, ~run.force
      PROVE  latest[t].print' # latest[t].print
  <2>1. latest[t].version \in Nat
    <3>1. latest[t].version \in 0..MaxVersion
      BY <1>1, LatestType DEF VInv, IInv, Typed
    <3>2. QED
      BY <3>1, DocumentAssumptions
  <2>2. latest'[t] # TornLatest
    BY <1>1, <2>1 DEF TornLatest
  <2>3. latest'[t] # latest[t]
    BY <1>1, <2>1
  <2>4. QED
    BY <1>1, <2>2, <2>3, NextVersion
<1>2. VInv /\ [Next]_vars =>
        [\A t \in Trips :
           latest[t].version' > latest[t].version /\ ~run.force => latest[t].print' # latest[t].print]_vars
  BY <1>1
<1>3. QED
  BY <1>2, VersionsInvariance, PTL DEF Spec, NoVersionForNothing
=============================================================================
