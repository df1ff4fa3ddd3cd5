------------------------------- MODULE LawBook ------------------------------
(***************************************************************************)
(* The store of travel regulations under out/.cache/law (law.py): the      *)
(* snapshots received, the status of the last check and the amendments     *)
(* noticed.  Checks run in the worker of the web application and in        *)
(* command line programs without a common lock, may take longer than a day *)
(* boundary or the ten minutes of OFFLINE_RETRY, and may end half-way.     *)
(* Regulations are numbered by the order in which they come into force;    *)
(* number 0 is the baseline packaged with the program.  A tick of the      *)
(* clock is at least OFFLINE_RETRY.                                        *)
(***************************************************************************)
EXTENDS Integers, Sequences, FiniteSetsExt

CONSTANTS Callers,
          LastLaw,    (* bound: the regulations are 0..LastLaw             *)
          Effective,  (* the day on which each of them comes into force    *)
          DayTicks,   (* ticks in a day                                    *)
          MaxTime,    (* bound of the clock                                *)
          MaxNotices, (* bound of the list of amendments                   *)
          None

Baseline == 0
Laws == 0..LastLaw
Times == 0..MaxTime
Statuses == [now : Times, online : BOOLEAN, mst : Laws, no_key : BOOLEAN]
Books == [current : Laws, snapshots : SUBSET Laws, online : BOOLEAN]

ASSUME LawAssumptions ==
    /\ LastLaw \in Nat /\ MaxTime \in Nat /\ MaxNotices \in Nat /\ DayTicks \in Nat \ {0}
    /\ Effective \in [Laws -> Int]
    /\ Effective[Baseline] <= 0
    /\ \A l, m \in Laws : l < m => Effective[l] < Effective[m]
    /\ None \notin Laws /\ None \notin Statuses /\ None \notin Books

VARIABLES time,       (* the clock, the same for every process             *)
          held,       (* snapshots/*.json and the baseline                 *)
          status,     (* status.json                                       *)
          amendments, (* amendments.json                                   *)
          keyed,      (* the processes that have a key of the law service  *)
          check,      (* what each process is doing in get_law_book        *)
          disturbed   (* history: a check died with a snapshot saved, or a *)
                      (* regulation came into force while one ran          *)

vars == <<time, held, status, amendments, keyed, check, disturbed>>

Day(t) == t \div DayTicks
Today == Day(time)
InForce(d) == {l \in Laws : Effective[l] <= d}

(* The regulation in force on a day.                                       *)
LawOn(d) == Max(InForce(d))

(* held_snapshots: in the order in which they come into force.             *)
Newest(set) == Max(set)

Idle == [at |-> "idle"]
Steps == {"fetch", "save", "read", "append", "status", "load"}
Notices == [from : Laws, to : Laws, on : {Day(t) : t \in Times}]

Checks ==
    [at : Steps, now : Times, prev : Laws, snap : Laws \cup {None}, notes : Seq(Notices), alone : BOOLEAN]

TypeOK ==
    /\ time \in Times
    /\ held \in SUBSET Laws /\ Baseline \in held
    /\ status \in Statuses \cup {None}
    /\ amendments \in Seq(Notices)
    /\ keyed \in SUBSET Callers
    /\ check \in [Callers -> Checks \cup {Idle}]
    /\ disturbed \in BOOLEAN

Busy(c) == check[c] # Idle

-----------------------------------------------------------------------------
(* load_law_book at the time now, by a process with a key or without one.  *)
Loaded(now, key) ==
    IF \/ status = None
       \/ Day(status.now) # Day(now)
       \/ ~status.online /\ now - status.now >= 1
       \/ status.no_key /\ key
       \/ status.mst \notin held
    THEN None
    ELSE [current |-> status.mst, snapshots |-> held, online |-> status.online]

(* peek_law_book: what is stored, however old the last check.              *)
Peek ==
    [current |-> IF status # None /\ status.mst \in held THEN status.mst ELSE Newest(held),
     snapshots |-> held,
     online |-> status = None \/ status.online]

(* Service.current_review: the book by which the pages judge a trip.       *)
InUse(now, key) == IF Loaded(now, key) # None THEN Loaded(now, key) ELSE Peek

(* Mutant: the regulations of the day before the trip.                     *)
ForDate_Before(book, d) ==
    LET older == {s \in book.snapshots : Effective[s] < d}
    IN  IF Effective[book.current] < d \/ older = {} THEN book.current ELSE Newest(older)

(* LawBook.for_date: the regulation for a trip that starts on day d.       *)
ForDate(book, d) ==
    LET older == {s \in book.snapshots : Effective[s] <= d}
    IN  IF Effective[book.current] <= d \/ older = {} THEN book.current ELSE Newest(older)

Init ==
    /\ time = 0
    /\ held = {Baseline}
    /\ status = None
    /\ amendments = <<>>
    /\ keyed \in SUBSET Callers
    /\ check = [c \in Callers |-> Idle]
    /\ disturbed = FALSE

-----------------------------------------------------------------------------
At(c, step) == Busy(c) /\ check[c].at = step
Go(c, step) == check' = [check EXCEPT ![c].at = step]

(* get_law_book, first part: what is stored serves unless a refresh is     *)
(* asked for (--refresh-law, prepare); otherwise the snapshots held are    *)
(* listed before the service is asked.                                     *)
Begin(c, refresh) ==
    /\ ~Busy(c)
    /\ refresh \/ Loaded(time, c \in keyed) = None
    /\ check' = [x \in Callers |->
                   CASE x = c -> [at |-> "fetch", now |-> time, prev |-> Newest(held), snap |-> None, notes |-> <<>>,
                                  alone |-> \A y \in Callers : ~Busy(y)]
                     [] x # c /\ Busy(x) -> [check[x] EXCEPT !.alone = FALSE]
                     [] OTHER -> Idle]
    /\ UNCHANGED <<time, held, status, amendments, keyed, disturbed>>

(* The service answers with the regulation in force.                       *)
FetchSucceeds(c) ==
    /\ At(c, "fetch")
    /\ c \in keyed
    /\ check' = [check EXCEPT ![c].at = "save", ![c].snap = LawOn(Today)]
    /\ UNCHANGED <<time, held, status, amendments, keyed, disturbed>>

(* It cannot be asked (MissingKeyCaller), does not answer, or the answer   *)
(* cannot be read.                                                         *)
FetchFails(c) ==
    /\ At(c, "fetch")
    /\ Go(c, "status")
    /\ UNCHANGED <<time, held, status, amendments, keyed, disturbed>>

(* Mutant: what was held is read again after the snapshot is saved.        *)
Save_ThenHeld(c) ==
    /\ At(c, "save")
    /\ held' = held \cup {check[c].snap}
    /\ IF Newest(held') # check[c].snap THEN Go(c, "read") ELSE Go(c, "status")
    /\ UNCHANGED <<time, status, amendments, keyed, disturbed>>

(* save_snapshot, whole: by way of a temporary file.                       *)
Save(c) ==
    LET prev == check[c].prev
        snap == check[c].snap
    IN  /\ At(c, "save")
        /\ held' = held \cup {snap}
        /\ IF prev # snap /\ Effective[snap] >= Effective[prev] THEN Go(c, "read") ELSE Go(c, "status")
        /\ UNCHANGED <<time, status, amendments, keyed, disturbed>>

ReadAmendments(c) ==
    /\ At(c, "read")
    /\ check' = [check EXCEPT ![c].at = "append", ![c].notes = amendments]
    /\ UNCHANGED <<time, held, status, amendments, keyed, disturbed>>

(* The list as read, and the new entry, replace the file.                  *)
AppendAmendment(c) ==
    /\ At(c, "append")
    /\ Len(check[c].notes) < MaxNotices
    /\ amendments' = Append(check[c].notes, [from |-> check[c].prev, to |-> check[c].snap, on |-> Day(check[c].now)])
    /\ Go(c, "status")
    /\ UNCHANGED <<time, held, status, keyed, disturbed>>

(* The status a check leaves: the regulation fetched, or the newest one    *)
(* held when the check began.                                              *)
StatusAt(c, now) ==
    LET new == check[c]
    IN  [now |-> now, online |-> new.snap # None, mst |-> IF new.snap # None THEN new.snap ELSE new.prev,
         no_key |-> new.snap = None /\ c \notin keyed]

(* Mutant: the status bears the time at which it is written.               *)
WriteStatus_Late(c) ==
    /\ At(c, "status")
    /\ status' = StatusAt(c, time)
    /\ Go(c, "load")
    /\ UNCHANGED <<time, held, amendments, keyed, disturbed>>

(* status.json, with the date and time at which the check began.           *)
WriteStatus(c) ==
    /\ At(c, "status")
    /\ status' = StatusAt(c, check[c].now)
    /\ Go(c, "load")
    /\ UNCHANGED <<time, held, amendments, keyed, disturbed>>

(* Mutant: the book is looked up as of the present time.                   *)
Found_Late(c) == Loaded(time, c \in keyed)

(* The last lines of get_law_book: the book, as of the time at which the   *)
(* check began, or a failed assertion.                                     *)
Found(c) == Loaded(check[c].now, c \in keyed)

Return(c) ==
    /\ At(c, "load")
    /\ check' = [check EXCEPT ![c] = Idle]
    /\ UNCHANGED <<time, held, status, amendments, keyed, disturbed>>

(* The process ends, or a write fails, at any point of the check.          *)
Dies(c) ==
    /\ Busy(c)
    /\ check' = [check EXCEPT ![c] = Idle]
    /\ disturbed' = (disturbed \/ check[c].at \in {"read", "append"})
    /\ UNCHANGED <<time, held, status, amendments, keyed>>

(* A process is started with a key, or again without it.                   *)
Rekey(c) ==
    /\ ~Busy(c)
    /\ \E key \in {{}, {c}} : keyed' = (keyed \ {c}) \cup key
    /\ UNCHANGED <<time, held, status, amendments, check, disturbed>>

Tick ==
    /\ time < MaxTime
    /\ time' = time + 1
    /\ disturbed' = (disturbed \/ (LawOn(Today) # LawOn(Day(time + 1)) /\ \E c \in Callers : Busy(c)))
    /\ UNCHANGED <<held, status, amendments, keyed, check>>

CheckStep(c) ==
    \/ \E refresh \in BOOLEAN : Begin(c, refresh)
    \/ FetchSucceeds(c) \/ FetchFails(c)
    \/ Save(c) \/ ReadAmendments(c) \/ AppendAmendment(c)
    \/ WriteStatus(c) \/ Return(c)

Next == (\E c \in Callers : CheckStep(c) \/ Dies(c) \/ Rekey(c)) \/ Tick

Spec == Init /\ [][Next]_vars

-----------------------------------------------------------------------------
(* A book said to be of today's check is of the regulation in force today, *)
(* though checks may begin on one day and end on another and several of    *)
(* them write status.json (law.py get_law_book, load_law_book).            *)
OnlineBookIsCurrent ==
    LET book == Loaded(time, FALSE)
    IN  book # None /\ book.online => book.current = LawOn(Today)

(* A trip is judged by the regulation of its first day when that is held:  *)
(* with the book of today's successful check, and with any book, however   *)
(* old, when nothing newer than its current regulation has been received   *)
(* (LawBook.for_date, load_law_book, peek_law_book).                       *)
TripsGetTheirLaw ==
    \A key \in BOOLEAN :
      LET book == InUse(time, key)
      IN  (Loaded(time, key) # None /\ book.online) \/ book.current = Newest(held) =>
            \A d \in Effective[Baseline]..Today : LawOn(d) \in held => ForDate(book, d) = LawOn(d)

(* Every regulation received is announced, last the newest one, when the   *)
(* check that received it is past its notice: two checks at once announce  *)
(* it twice rather than lose it (law.py get_law_book, amendments.json).    *)
AmendmentsAnnounced ==
    LET unnoticed == {l \in held \ {Baseline} : \A i \in DOMAIN amendments : amendments[i].to # l}
        pending == \E c \in Callers : At(c, "read") \/ At(c, "append")
    IN  ~disturbed /\ ~pending =>
          /\ unnoticed = {}
          /\ held # {Baseline} => amendments[Len(amendments)].to = Newest(held)

(* A check that no other one overlaps finds the book it has stored,        *)
(* however long it took (the assertion at the end of get_law_book).        *)
BookIsFound == \A c \in Callers : At(c, "load") /\ check[c].alone => Found(c) # None
=============================================================================
