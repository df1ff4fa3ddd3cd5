---------------------------- MODULE LawBook_proof ---------------------------
(***************************************************************************)
(* Proofs about the store of regulations (LawBook), for any number of      *)
(* processes that check it, any schedule of amendments, any length of day  *)
(* and any bounds.                                                         *)
(***************************************************************************)
EXTENDS LawBook, WellFoundedInduction, TLAPS

(* A set of regulations that is not empty has a newest one.                *)
LEMMA NewestExists ==
  ASSUME NEW S \in SUBSET Laws, S # {}
  PROVE  Max(S) \in S /\ \A m \in S : m <= Max(S)
<1> USE LawAssumptions DEF Laws
<1> DEFINE R == {ss \in Nat \X Nat : ss[1] < ss[2]}
           T == {m \in Nat : LastLaw - m \in S}
<1>1. IsWellFoundedOn(R, Nat)
  BY NatLessThanWellFounded DEF OpToRel
<1>2. T \subseteq Nat /\ T # {}
  <2>1. PICK x \in S : TRUE
    OBVIOUS
  <2>2. LastLaw - x \in T
    BY <2>1
  <2>3. QED
    BY <2>2
<1>3. \E x \in T : \A y \in T : ~(<<y, x>> \in R)
  <2> HIDE DEF R, T
  <2>1. QED
    BY <1>1, <1>2, WFMin
<1>4. PICK x \in T : \A y \in T : ~(y < x)
  BY <1>3
<1>5. LastLaw - x \in S /\ \A y \in S : LastLaw - x >= y
  <2>1. ASSUME NEW y \in S PROVE LastLaw - y \in T
    BY <2>1
  <2>2. QED
    BY <1>4, <2>1
<1>6. \E y \in S : \A m \in S : y >= m
  BY <1>5
<1>7. Max(S) \in S /\ \A m \in S : Max(S) >= m
  BY <1>6 DEF Max
<1>8. QED
  BY <1>7

(* From the first day of the baseline on, some regulation is in force.     *)
LEMMA LawOnType ==
  ASSUME NEW d \in Nat
  PROVE  LawOn(d) \in Laws
<1>1. Baseline \in InForce(d) /\ InForce(d) \subseteq Laws
  BY LawAssumptions DEF InForce, Baseline, Laws
<1>2. QED
  BY <1>1, NewestExists DEF LawOn

LEMMA DayType == ASSUME NEW t \in Nat PROVE Day(t) \in Nat
BY LawAssumptions DEF Day

LEMMA DayMonotone ==
  ASSUME NEW t \in Nat, NEW u \in Nat, t <= u
  PROVE  Day(t) <= Day(u)
BY LawAssumptions DEF Day

-----------------------------------------------------------------------------
(* A regulation that the service answered to a check begun at the time     *)
(* now: the one in force on some day since then.                           *)
Fetched(l, now) == \E d \in Day(now)..Today : l = LawOn(d)

CheckInv(c) ==
    Busy(c) =>
        /\ check[c].now <= time
        /\ check[c].snap # None => Fetched(check[c].snap, check[c].now)
        /\ check[c].at \in {"save", "read", "append"} => check[c].snap # None

StatusInv ==
    status # None =>
        /\ status.now <= time
        /\ status.online => Fetched(status.mst, status.now)

IInv == TypeOK /\ (\A c \in Callers : CheckInv(c)) /\ StatusInv

(* What was fetched counts as fetched later on.                            *)
LEMMA FetchedStays ==
  ASSUME TypeOK, time' \in Nat, time <= time', NEW now \in Times, NEW l, Fetched(l, now)
  PROVE  Fetched(l, now)'
<1>1. time \in Nat /\ now \in Nat
  BY LawAssumptions DEF TypeOK, Times
<1>2. Day(time) \in Nat /\ Day(time') \in Nat /\ Day(time) <= Day(time') /\ Day(now) \in Nat
  BY <1>1, DayType, DayMonotone
<1>3. QED
  BY <1>2 DEF Fetched, Today

LEMMA InitInv == Init => IInv
<1> SUFFICES ASSUME Init PROVE IInv
  OBVIOUS
<1>1. <<>> \in Seq(Notices)
  OBVIOUS
<1>2. 0 \in Times /\ {Baseline} \in SUBSET Laws
  BY LawAssumptions DEF Times, Baseline, Laws
<1>3. TypeOK
  BY <1>1, <1>2 DEF Init, TypeOK
<1>4. \A c \in Callers : ~Busy(c)
  BY DEF Init, Busy
<1>5. QED
  BY <1>3, <1>4 DEF Init, IInv, CheckInv, StatusInv

(* A process at work has a whole record of its check.                      *)
LEMMA BusyType ==
  ASSUME TypeOK, NEW c \in Callers, Busy(c)
  PROVE  check[c] \in Checks
BY DEF TypeOK, Busy

LEMMA BeginInv ==
  ASSUME IInv, NEW c \in Callers, NEW refresh \in BOOLEAN, Begin(c, refresh)
  PROVE  IInv'
<1> DEFINE new == [at |-> "fetch", now |-> time, prev |-> Newest(held), snap |-> None, notes |-> <<>>,
                   alone |-> \A y \in Callers : ~Busy(y)]
<1>1. Newest(held) \in Laws
  BY NewestExists DEF IInv, TypeOK, Newest
<1>2. <<>> \in Seq(Notices)
  OBVIOUS
<1>3. new \in Checks
  BY <1>1, <1>2 DEF IInv, TypeOK, Checks, Steps
<1>4. \A x \in Callers : x # c /\ Busy(x) => [check[x] EXCEPT !.alone = FALSE] \in Checks
  BY BusyType DEF IInv, Checks
<1>5. check' = [x \in Callers |-> CASE x = c -> new
                                    [] x # c /\ Busy(x) -> [check[x] EXCEPT !.alone = FALSE]
                                    [] OTHER -> Idle]
  BY DEF Begin
<1> HIDE DEF new
<1>6. TypeOK'
  BY <1>3, <1>4, <1>5 DEF IInv, TypeOK, Begin
<1>7. ASSUME NEW x \in Callers PROVE CheckInv(x)'
  <2>1. CASE x = c
    <3>1. check'[x] = new
      BY <1>5, <2>1
    <3>2. new.now = time /\ new.snap = None /\ new.at = "fetch"
      BY DEF new
    <3>3. time \in Nat
      BY LawAssumptions DEF IInv, TypeOK, Times
    <3>4. time' = time /\ time <= time
      BY <3>3 DEF Begin
    <3>5. check'[x].now = time /\ check'[x].snap = None /\ check'[x].at = "fetch"
      BY <3>1, <3>2
    <3>6. QED
      BY <3>4, <3>5 DEF CheckInv
  <2>2. CASE x # c /\ Busy(x)
    <3>1. check[x] \in Checks /\ CheckInv(x)
      BY <2>2, BusyType DEF IInv
    <3>2. check'[x] = [check[x] EXCEPT !.alone = FALSE]
      BY <1>5, <2>2
    <3>3. check'[x].now = check[x].now /\ check'[x].snap = check[x].snap /\ check'[x].at = check[x].at
      BY <3>1, <3>2 DEF Checks
    <3>4. QED
      BY <2>2, <3>1, <3>3 DEF CheckInv, Begin, Fetched, Today
  <2>3. CASE x # c /\ ~Busy(x)
    BY <1>5, <2>3 DEF CheckInv, Busy
  <2>4. QED
    BY <2>1, <2>2, <2>3
<1>8. StatusInv'
  BY DEF IInv, StatusInv, Begin, Fetched, Today
<1>9. QED
  BY <1>6, <1>7, <1>8 DEF IInv

(* What a step that leaves the clock and the status alone has to show: the *)
(* record of its own check.                                                *)
LEMMA OwnCheckStep ==
  ASSUME IInv, NEW c \in Callers, UNCHANGED <<time, status>>, TypeOK', CheckInv(c)',
         \A x \in Callers : x # c => check'[x] = check[x]
  PROVE  IInv'
<1>1. ASSUME NEW x \in Callers, x # c PROVE CheckInv(x)'
  BY <1>1 DEF IInv, CheckInv, Busy, Fetched, Today
<1>2. StatusInv'
  BY DEF IInv, StatusInv, Fetched, Today
<1>3. QED
  BY <1>1, <1>2 DEF IInv

LEMMA FetchSucceedsInv == ASSUME IInv, NEW c \in Callers, FetchSucceeds(c) PROVE IInv'
<1>1. Busy(c) /\ check[c] \in Checks /\ CheckInv(c) /\ time \in Nat /\ check[c].now \in Nat
  BY BusyType, LawAssumptions DEF IInv, FetchSucceeds, At, TypeOK, Times, Checks
<1>2. Today \in Nat /\ Day(check[c].now) \in Nat /\ Day(check[c].now) <= Today
  BY <1>1, DayType, DayMonotone DEF CheckInv, Today
<1>3. LawOn(Today) \in Laws
  BY <1>2, LawOnType
<1>4. Fetched(LawOn(Today), check[c].now)
  BY <1>2 DEF Fetched
<1>5. check'[c] = [check[c] EXCEPT !.at = "save", !.snap = LawOn(Today)] /\ check'[c] \in Checks
  BY <1>1, <1>3 DEF FetchSucceeds, IInv, TypeOK, Checks, Steps
<1>6. check'[c].now = check[c].now /\ check'[c].snap = LawOn(Today) /\ check'[c].snap # None
  BY <1>1, <1>3, <1>5, LawAssumptions DEF Checks
<1>7. TypeOK'
  BY <1>5 DEF IInv, TypeOK, FetchSucceeds
<1>8. CheckInv(c)'
  BY <1>1, <1>4, <1>6 DEF CheckInv, FetchSucceeds, Fetched, Today
<1>9. QED
  BY <1>7, <1>8, OwnCheckStep DEF FetchSucceeds, IInv, TypeOK

(* The steps that move a check on and change nothing else of its record.   *)
LEMMA GoStep ==
  ASSUME IInv, NEW c \in Callers, NEW step \in Steps, Busy(c), Go(c, step),
         step \in {"save", "read", "append"} => check[c].snap # None
  PROVE  /\ check' \in [Callers -> Checks \cup {Idle}]
         /\ check'[c].now = check[c].now /\ check'[c].snap = check[c].snap /\ check'[c].at = step
         /\ \A x \in Callers : x # c => check'[x] = check[x]
         /\ UNCHANGED time => CheckInv(c)'
<1>1. check[c] \in Checks /\ CheckInv(c) /\ check \in [Callers -> Checks \cup {Idle}]
  BY BusyType DEF IInv, TypeOK
<1>2. check' = [check EXCEPT ![c] = [check[c] EXCEPT !.at = step]]
  BY DEF Go
<1>3. [check[c] EXCEPT !.at = step] \in Checks
  BY <1>1 DEF Checks
<1>4. check'[c] = [check[c] EXCEPT !.at = step]
  BY <1>1, <1>2
<1>5. check'[c].now = check[c].now /\ check'[c].snap = check[c].snap /\ check'[c].at = step
  BY <1>1, <1>4 DEF Checks
<1>6. UNCHANGED time => CheckInv(c)'
  BY <1>1, <1>5 DEF CheckInv, Fetched, Today
<1>7. QED
  BY <1>1, <1>2, <1>3, <1>5, <1>6

LEMMA FetchFailsInv == ASSUME IInv, NEW c \in Callers, FetchFails(c) PROVE IInv'
<1>1. Busy(c) /\ Go(c, "status") /\ "status" \in Steps
  BY DEF FetchFails, At, Steps
<1>2. TypeOK'
  BY <1>1, GoStep DEF IInv, TypeOK, FetchFails
<1>3. QED
  BY <1>1, <1>2, GoStep, OwnCheckStep DEF FetchFails

LEMMA SaveInv == ASSUME IInv, NEW c \in Callers, Save(c) PROVE IInv'
<1>1. Busy(c) /\ check[c].at = "save" /\ check[c] \in Checks /\ check[c].snap # None
  BY BusyType DEF IInv, Save, At, CheckInv
<1>2. check[c].snap \in Laws
  BY <1>1 DEF Checks
<1>3. \E step \in {"read", "status"} : Go(c, step)
  BY DEF Save
<1>4. PICK step \in {"read", "status"} : Go(c, step)
  BY <1>3
<1>5. step \in Steps
  BY DEF Steps
<1>6. TypeOK'
  BY <1>1, <1>2, <1>4, <1>5, GoStep DEF IInv, TypeOK, Save
<1>7. QED
  BY <1>1, <1>4, <1>5, <1>6, GoStep, OwnCheckStep DEF Save

LEMMA ReadAmendmentsInv == ASSUME IInv, NEW c \in Callers, ReadAmendments(c) PROVE IInv'
<1>1. Busy(c) /\ check[c].at = "read" /\ check[c] \in Checks /\ CheckInv(c) /\ amendments \in Seq(Notices)
  BY BusyType DEF IInv, ReadAmendments, At, TypeOK
<1>2. check'[c] = [check[c] EXCEPT !.at = "append", !.notes = amendments] /\ check'[c] \in Checks
  BY <1>1 DEF ReadAmendments, IInv, TypeOK, Checks, Steps
<1>3. check'[c].now = check[c].now /\ check'[c].snap = check[c].snap /\ check[c].snap # None
  BY <1>1, <1>2 DEF Checks, CheckInv
<1>4. TypeOK'
  BY <1>2 DEF IInv, TypeOK, ReadAmendments
<1>5. CheckInv(c)'
  BY <1>1, <1>3 DEF CheckInv, ReadAmendments, Fetched, Today
<1>6. QED
  BY <1>4, <1>5, OwnCheckStep DEF ReadAmendments, IInv, TypeOK

LEMMA AppendAmendmentInv == ASSUME IInv, NEW c \in Callers, AppendAmendment(c) PROVE IInv'
<1> DEFINE notice == [from |-> check[c].prev, to |-> check[c].snap, on |-> Day(check[c].now)]
<1>1. Busy(c) /\ Go(c, "status") /\ "status" \in Steps /\ check[c].at = "append"
  BY DEF AppendAmendment, At, Steps
<1>2. check[c] \in Checks /\ check[c].snap # None
  BY <1>1, BusyType DEF IInv, CheckInv
<1>3. notice \in Notices
  BY <1>2 DEF Checks, Notices
<1>4. check[c].notes \in Seq(Notices)
  BY <1>2 DEF Checks
<1>5. amendments' = Append(check[c].notes, notice)
  BY DEF AppendAmendment
<1> HIDE DEF notice
<1>6. amendments' \in Seq(Notices)
  BY <1>3, <1>4, <1>5
<1>7. TypeOK'
  BY <1>1, <1>6, GoStep DEF IInv, TypeOK, AppendAmendment
<1>8. QED
  BY <1>1, <1>7, GoStep, OwnCheckStep DEF AppendAmendment

LEMMA WriteStatusInv == ASSUME IInv, NEW c \in Callers, WriteStatus(c) PROVE IInv'
<1>1. Busy(c) /\ Go(c, "load") /\ "load" \in Steps
  BY DEF WriteStatus, At, Steps
<1>2. check[c] \in Checks /\ CheckInv(c)
  BY <1>1, BusyType DEF IInv
<1>3. check[c].now \in Times /\ check[c].prev \in Laws /\ check[c].snap \in Laws \cup {None}
  BY <1>2 DEF Checks
<1>4. status' = StatusAt(c, check[c].now)
  BY DEF WriteStatus
<1>5. status' \in Statuses
  BY <1>3, <1>4 DEF StatusAt, Statuses
<1>6. status'.now = check[c].now /\ (status'.online => check[c].snap # None /\ status'.mst = check[c].snap)
  BY <1>4 DEF StatusAt
<1>7. TypeOK'
  BY <1>1, <1>5, GoStep DEF IInv, TypeOK, WriteStatus
<1>8. StatusInv'
  BY <1>1, <1>2, <1>6 DEF StatusInv, CheckInv, WriteStatus, Fetched, Today
<1>9. ASSUME NEW x \in Callers PROVE CheckInv(x)'
  <2>1. CASE x = c
    BY <1>1, <2>1, GoStep DEF WriteStatus
  <2>2. CASE x # c
    <3>1. check'[x] = check[x] /\ CheckInv(x)
      BY <1>1, <2>2, GoStep DEF IInv
    <3>2. QED
      BY <3>1 DEF CheckInv, Busy, Fetched, Today, WriteStatus
  <2>3. QED
    BY <2>1, <2>2
<1>10. QED
  BY <1>7, <1>8, <1>9 DEF IInv

(* Return and Dies: the process has nothing at work any more.              *)
LEMMA IdleInv ==
  ASSUME IInv, NEW c \in Callers, check' = [check EXCEPT ![c] = Idle], disturbed' \in BOOLEAN,
         UNCHANGED <<time, held, status, amendments, keyed>>
  PROVE  IInv'
<1>1. TypeOK'
  BY DEF IInv, TypeOK
<1>2. CheckInv(c)'
  BY DEF IInv, TypeOK, CheckInv, Busy
<1>3. QED
  BY <1>1, <1>2, OwnCheckStep DEF IInv, TypeOK

LEMMA RekeyInv == ASSUME IInv, NEW c \in Callers, Rekey(c) PROVE IInv'
<1>1. TypeOK'
  BY DEF IInv, TypeOK, Rekey
<1>2. QED
  BY <1>1 DEF IInv, CheckInv, StatusInv, Busy, Fetched, Today, Rekey

LEMMA TickInv == ASSUME IInv, Tick PROVE IInv'
<1>1. time' \in Times /\ time' \in Nat /\ time \in Nat /\ time <= time'
  BY LawAssumptions DEF IInv, TypeOK, Times, Tick
<1>2. TypeOK'
  BY <1>1 DEF IInv, TypeOK, Tick
<1>3. ASSUME NEW x \in Callers PROVE CheckInv(x)'
  <2>1. CASE Busy(x)
    <3>1. check[x] \in Checks /\ CheckInv(x) /\ check'[x] = check[x]
      BY <2>1, BusyType DEF IInv, Tick
    <3>2. check[x].now \in Times /\ check[x].now \in Nat
      BY <3>1, LawAssumptions DEF Checks, Times
    <3>3. check[x].snap # None => Fetched(check[x].snap, check[x].now)'
      BY <1>1, <2>1, <3>1, <3>2, FetchedStays DEF IInv, CheckInv, Tick
    <3>4. QED
      BY <1>1, <2>1, <3>1, <3>2, <3>3 DEF CheckInv, Fetched
  <2>2. CASE ~Busy(x)
    BY <2>2 DEF CheckInv, Busy, Tick
  <2>3. QED
    BY <2>1, <2>2
<1>4. StatusInv'
  <2>1. CASE status # None
    <3>1. status \in Statuses /\ status' = status /\ StatusInv
      BY <2>1 DEF IInv, TypeOK, Tick
    <3>2. status.now \in Times /\ status.now \in Nat
      BY <3>1, LawAssumptions DEF Statuses, Times
    <3>3. status.online => Fetched(status.mst, status.now)'
      BY <1>1, <2>1, <3>1, <3>2, FetchedStays DEF IInv, StatusInv
    <3>4. QED
      BY <1>1, <2>1, <3>1, <3>2, <3>3 DEF StatusInv, Fetched
  <2>2. CASE status = None
    BY <2>2 DEF StatusInv, Tick
  <2>3. QED
    BY <2>1, <2>2
<1>5. QED
  BY <1>2, <1>3, <1>4 DEF IInv

LEMMA StepInv == IInv /\ [Next]_vars => IInv'
<1> SUFFICES ASSUME IInv, [Next]_vars PROVE IInv'
  OBVIOUS
<1>1. ASSUME NEW c \in Callers, CheckStep(c) PROVE IInv'
  <2>1. ASSUME Return(c) PROVE IInv'
    BY <2>1, IdleInv DEF Return, IInv, TypeOK
  <2>2. QED
    BY <1>1, <2>1, BeginInv, FetchSucceedsInv, FetchFailsInv, SaveInv, ReadAmendmentsInv, AppendAmendmentInv,
       WriteStatusInv DEF CheckStep
<1>2. ASSUME NEW c \in Callers, Dies(c) PROVE IInv'
  BY <1>2, IdleInv DEF Dies, IInv, TypeOK
<1>3. ASSUME UNCHANGED vars PROVE IInv'
  BY <1>3 DEF vars, IInv, TypeOK, CheckInv, StatusInv, Busy, Fetched, Today
<1>4. QED
  BY <1>1, <1>2, <1>3, RekeyInv, TickInv DEF Next

LEMMA Invariance == Spec => []IInv
BY InitInv, StepInv, PTL DEF Spec

-----------------------------------------------------------------------------
(* The store keeps its form: the baseline is always held, and a status     *)
(* always names a regulation.                                              *)
THEOREM TypeCorrect == Spec => []TypeOK
<1>1. IInv => TypeOK
  BY DEF IInv
<1>2. QED
  BY <1>1, Invariance, PTL

(* A book of today's successful check is of the regulation in force today, *)
(* for any number of processes whose checks overlap, last over midnight or *)
(* die, and whatever the schedule of amendments (law.py get_law_book,      *)
(* load_law_book).                                                         *)
THEOREM OnlineIsCurrent == Spec => []OnlineBookIsCurrent
<1>1. IInv => OnlineBookIsCurrent
  <2> SUFFICES ASSUME IInv, Loaded(time, FALSE) # None, Loaded(time, FALSE).online
               PROVE  Loaded(time, FALSE).current = LawOn(Today)
    BY DEF OnlineBookIsCurrent
  <2>1. status # None /\ Day(status.now) = Today
    BY DEF Loaded, Today
  <2>2. Loaded(time, FALSE).current = status.mst /\ status.online
    BY DEF Loaded
  <2>3. Fetched(status.mst, status.now)
    BY <2>1, <2>2 DEF IInv, StatusInv
  <2>4. Today \in Nat
    BY DayType, LawAssumptions DEF IInv, TypeOK, Times, Today
  <2>5. PICK d \in Today..Today : status.mst = LawOn(d)
    BY <2>1, <2>3 DEF Fetched
  <2>6. d = Today
    BY <2>4
  <2>7. QED
    BY <2>2, <2>5, <2>6
<1>2. QED
  BY <1>1, Invariance, PTL

(* The regulation in force on a day is the newest of those in force.       *)
LEMMA LawOnIsNewest ==
  ASSUME NEW d \in Int, Effective[Baseline] <= d
  PROVE  /\ LawOn(d) \in Laws /\ Effective[LawOn(d)] <= d
         /\ \A l \in Laws : Effective[l] <= d => l <= LawOn(d)
<1>1. Baseline \in InForce(d) /\ InForce(d) \in SUBSET Laws
  BY LawAssumptions DEF InForce, Baseline, Laws
<1>2. LawOn(d) \in InForce(d) /\ \A l \in InForce(d) : l <= LawOn(d)
  BY <1>1, NewestExists DEF LawOn
<1>3. QED
  BY <1>2 DEF InForce

(* for_date is right for a book whose current regulation is in force today *)
(* or is the newest one held.                                              *)
LEMMA ForDateIsRight ==
  ASSUME TypeOK, NEW book, book.snapshots = held, book.current \in Laws,
         book.current = LawOn(Today) \/ book.current = Newest(held),
         NEW d \in Effective[Baseline]..Today, LawOn(d) \in held
  PROVE  ForDate(book, d) = LawOn(d)
<1>1. Today \in Nat /\ Effective[Baseline] \in Int /\ d \in Int /\ Effective[Baseline] <= d /\ d <= Today
  BY DayType, LawAssumptions DEF TypeOK, Times, Today, Baseline, Laws
<1>2. /\ LawOn(d) \in Laws /\ Effective[LawOn(d)] <= d
      /\ \A l \in Laws : Effective[l] <= d => l <= LawOn(d)
  BY <1>1, LawOnIsNewest
<1>3. Laws \subseteq Int /\ Effective \in [Laws -> Int] /\ held \in SUBSET Laws
  BY LawAssumptions DEF Laws, TypeOK
<1>4. LawOn(d) \in Int /\ book.current \in Int /\ Effective[LawOn(d)] \in Int
  BY <1>2, <1>3
<1>5. CASE Effective[book.current] <= d
  <2>1. book.current <= LawOn(d)
    BY <1>2, <1>5
  <2>2. LawOn(d) <= book.current
    <3>1. CASE book.current = LawOn(Today)
      <4>1. Effective[LawOn(d)] <= Today
        BY <1>1, <1>2, <1>4
      <4>2. \A l \in Laws : Effective[l] <= Today => l <= LawOn(Today)
        BY <1>1, LawOnIsNewest
      <4>3. QED
        BY <1>2, <3>1, <4>1, <4>2
    <3>2. CASE book.current = Newest(held)
      BY <1>3, <3>2, NewestExists DEF Newest
    <3>3. QED
      BY <3>1, <3>2
  <2>3. book.current = LawOn(d)
    BY <1>4, <2>1, <2>2
  <2>4. QED
    BY <1>5, <2>3 DEF ForDate
<1>6. CASE ~(Effective[book.current] <= d)
  <2> DEFINE older == {s \in book.snapshots : Effective[s] <= d}
  <2>1. LawOn(d) \in older /\ older \in SUBSET Laws /\ \A s \in older : s <= LawOn(d)
    BY <1>2, <1>3
  <2>2. ForDate(book, d) = Newest(older)
    BY <1>6, <2>1 DEF ForDate
  <2> HIDE DEF older
  <2>3. Newest(older) \in older /\ LawOn(d) <= Newest(older)
    BY <2>1, NewestExists DEF Newest
  <2>4. Newest(older) = LawOn(d)
    <3>1. Newest(older) \in Int /\ Newest(older) <= LawOn(d)
      BY <1>3, <2>1, <2>3
    <3>2. QED
      BY <1>4, <2>3, <3>1
  <2>5. QED
    BY <2>2, <2>4
<1>7. QED
  BY <1>5, <1>6

(* A trip is judged by the regulation of its first day when that is held:  *)
(* for any schedule of amendments, whichever of them were received, and    *)
(* with an old book too while nothing newer has come (LawBook.for_date).   *)
THEOREM JudgedByTheirLaw == Spec => []TripsGetTheirLaw
<1>1. IInv /\ OnlineBookIsCurrent => TripsGetTheirLaw
  <2> SUFFICES ASSUME IInv, OnlineBookIsCurrent, NEW key \in BOOLEAN,
                      \/ Loaded(time, key) # None /\ InUse(time, key).online
                      \/ InUse(time, key).current = Newest(held),
                      NEW d \in Effective[Baseline]..Today, LawOn(d) \in held
               PROVE  ForDate(InUse(time, key), d) = LawOn(d)
    BY DEF TripsGetTheirLaw
  <2>1. InUse(time, key).snapshots = held
    BY DEF InUse, Loaded, Peek
  <2>2. InUse(time, key).current \in Laws
    <3>1. status # None => status.mst \in Laws
      BY DEF IInv, TypeOK, Statuses
    <3>2. Newest(held) \in Laws
      BY NewestExists DEF IInv, TypeOK, Newest
    <3>3. QED
      BY <3>1, <3>2 DEF InUse, Loaded, Peek
  <2>3. CASE Loaded(time, key) # None /\ InUse(time, key).online
    <3>1. Loaded(time, FALSE) = Loaded(time, key) /\ InUse(time, key) = Loaded(time, key)
      BY <2>3 DEF Loaded, InUse
    <3>2. InUse(time, key).current = LawOn(Today)
      BY <2>3, <3>1 DEF OnlineBookIsCurrent
    <3>3. QED
      BY <2>1, <2>2, <3>2, ForDateIsRight DEF IInv
  <2>4. CASE InUse(time, key).current = Newest(held)
    BY <2>1, <2>2, <2>4, ForDateIsRight DEF IInv
  <2>5. QED
    BY <2>3, <2>4
<1>2. QED
  BY <1>1, Invariance, OnlineIsCurrent, PTL

-----------------------------------------------------------------------------
(* A check works from what was held when it began, and what it received    *)
(* and saved is held.                                                      *)
HeldInv(c) ==
    Busy(c) =>
        /\ check[c].prev \in held
        /\ check[c].at = "fetch" => check[c].snap = None
        /\ check[c].at \in {"read", "append", "status", "load"} /\ check[c].snap # None => check[c].snap \in held

(* A check that no other overlaps is the only one, and leaves its status.  *)
AloneInv(c) ==
    Busy(c) /\ check[c].alone =>
        /\ \A x \in Callers \ {c} : ~Busy(x)
        /\ check[c].at = "load" => status = StatusAt(c, check[c].now)

(* While no regulation comes into force beside a check and none dies with  *)
(* a notice to write, all checks at work have to do with the regulation in *)
(* force alone, and only that one can be without its notice.               *)
Announced(l, list) == \E i \in DOMAIN list : list[i].to = l
Noticing(c) == At(c, "read") \/ At(c, "append")
Pending == \E c \in Callers : Noticing(c)

InForceIsNewest == \A l \in held : l <= LawOn(Today)
FetchedToday == \A c \in Callers : Busy(c) => check[c].snap \in {None, LawOn(Today)}
NotesWhole(c) == At(c, "append") => \A l \in held \ {Baseline, LawOn(Today)} : Announced(l, check[c].notes)
OthersAnnounced == \A l \in held \ {Baseline} : Announced(l, amendments) \/ (l = LawOn(Today) /\ Pending)
LastIsNewest == ~Pending /\ held # {Baseline} => amendments[Len(amendments)].to = Newest(held)

NoticeInv ==
    /\ InForceIsNewest
    /\ FetchedToday
    /\ \A c \in Callers : NotesWhole(c)
    /\ OthersAnnounced
    /\ LastIsNewest

(* What a step of a check says of its record and of those of the others.   *)
LEMMA OwnStep ==
    ASSUME TypeOK, NEW c \in Callers,
           FetchSucceeds(c) \/ FetchFails(c) \/ Save(c) \/ ReadAmendments(c) \/ AppendAmendment(c) \/ WriteStatus(c)
    PROVE  /\ Busy(c) /\ Busy(c)' /\ check[c] \in Checks
           /\ check'[c].now = check[c].now /\ check'[c].prev = check[c].prev /\ check'[c].alone = check[c].alone
           /\ \A x \in Callers \ {c} : check'[x] = check[x]
           /\ UNCHANGED <<time, keyed, disturbed>>
<1>1. Busy(c) /\ check[c] \in Checks
  BY BusyType DEF FetchSucceeds, FetchFails, Save, ReadAmendments, AppendAmendment, WriteStatus, At
<1>2. UNCHANGED <<time, keyed, disturbed>>
  BY DEF FetchSucceeds, FetchFails, Save, ReadAmendments, AppendAmendment, WriteStatus
<1> DEFINE Kept == /\ check'[c].at \in Steps
                   /\ check'[c].now = check[c].now /\ check'[c].prev = check[c].prev /\ check'[c].alone = check[c].alone
                   /\ \A x \in Callers \ {c} : check'[x] = check[x]
<1>3. Kept
  <2>1. check \in [Callers -> Checks \cup {Idle}]
    BY DEF TypeOK
  <2>2. CASE FetchSucceeds(c)
    <3>1. check' = [check EXCEPT ![c].at = "save", ![c].snap = LawOn(Today)]
      BY <2>2 DEF FetchSucceeds
    <3>2. QED
      BY <1>1, <2>1, <3>1 DEF Checks, Steps
  <2>3. CASE ReadAmendments(c)
    <3>1. check' = [check EXCEPT ![c].at = "append", ![c].notes = amendments]
      BY <2>3 DEF ReadAmendments
    <3>2. QED
      BY <1>1, <2>1, <3>1 DEF Checks, Steps
  <2>4. ASSUME NEW t \in Steps, Go(c, t) PROVE Kept
    BY <1>1, <2>1, <2>4 DEF Checks, Go
  <2>5. {"status", "read", "load"} \subseteq Steps
    BY DEF Steps
  <2>6. CASE FetchFails(c) \/ Save(c) \/ AppendAmendment(c) \/ WriteStatus(c)
    <3>1. Go(c, "status") \/ Go(c, "read") \/ Go(c, "load")
      BY <2>6 DEF FetchFails, Save, AppendAmendment, WriteStatus
    <3> HIDE DEF Kept
    <3>2. QED
      BY <2>4, <2>5, <3>1
  <2> HIDE DEF Kept
  <2>7. QED
    BY <2>2, <2>3, <2>6
<1>4. Busy(c)'
  BY <1>3 DEF Busy, Idle, Steps
<1>5. QED
  BY <1>1, <1>2, <1>3, <1>4

LEMMA OwnFields ==
    ASSUME TypeOK, NEW c \in Callers
    PROVE  /\ FetchSucceeds(c) => check'[c].at = "save" /\ check'[c].snap = LawOn(Today)
           /\ ReadAmendments(c) => check'[c].at = "append" /\ check'[c].snap = check[c].snap /\ check'[c].notes = amendments
           /\ \A t : Busy(c) /\ Go(c, t) => check'[c].at = t /\ check'[c].snap = check[c].snap /\ check'[c].notes = check[c].notes
<1>1. Busy(c) => check \in [Callers -> Checks \cup {Idle}] /\ check[c] \in Checks
  BY BusyType DEF TypeOK
<1>2. ASSUME FetchSucceeds(c) PROVE check'[c].at = "save" /\ check'[c].snap = LawOn(Today)
  <2>1. Busy(c) /\ check' = [check EXCEPT ![c].at = "save", ![c].snap = LawOn(Today)]
    BY <1>2 DEF FetchSucceeds, At
  <2>2. QED
    BY <1>1, <2>1 DEF Checks
<1>3. ASSUME ReadAmendments(c)
      PROVE  check'[c].at = "append" /\ check'[c].snap = check[c].snap /\ check'[c].notes = amendments
  <2>1. Busy(c) /\ check' = [check EXCEPT ![c].at = "append", ![c].notes = amendments]
    BY <1>3 DEF ReadAmendments, At
  <2>2. QED
    BY <1>1, <2>1 DEF Checks
<1>4. ASSUME NEW t, Busy(c), Go(c, t)
      PROVE  check'[c].at = t /\ check'[c].snap = check[c].snap /\ check'[c].notes = check[c].notes
  BY <1>1, <1>4 DEF Go, Checks
<1>5. QED
  BY <1>2, <1>3, <1>4

(* A check that begins, and one that is over.                              *)
LEMMA BeginFields ==
    ASSUME TypeOK, NEW c \in Callers, NEW refresh \in BOOLEAN, Begin(c, refresh)
    PROVE  /\ check'[c].at = "fetch" /\ check'[c].snap = None /\ check'[c].prev = Newest(held)
           /\ check'[c].alone => \A y \in Callers : ~Busy(y)
           /\ \A x \in Callers \ {c} :
                /\ Busy(x)' <=> Busy(x)
                /\ Busy(x) => /\ check'[x].at = check[x].at /\ check'[x].snap = check[x].snap
                              /\ check'[x].prev = check[x].prev /\ check'[x].notes = check[x].notes
                              /\ ~check'[x].alone
           /\ UNCHANGED <<time, held, status, amendments, keyed, disturbed>>
<1>1. UNCHANGED <<time, held, status, amendments, keyed, disturbed>>
  BY DEF Begin
<1>2. check'[c] = [at |-> "fetch", now |-> time, prev |-> Newest(held), snap |-> None, notes |-> <<>>,
                   alone |-> \A y \in Callers : ~Busy(y)]
  BY DEF Begin
<1>3. ASSUME NEW x \in Callers \ {c}, Busy(x)
      PROVE  /\ Busy(x)' /\ check'[x].at = check[x].at /\ check'[x].snap = check[x].snap
             /\ check'[x].prev = check[x].prev /\ check'[x].notes = check[x].notes
             /\ ~check'[x].alone
  <2>1. check[x] \in Checks /\ check'[x] = [check[x] EXCEPT !.alone = FALSE]
    BY <1>3, BusyType DEF Begin
  <2>2. check'[x].at = check[x].at /\ check[x].at \in Steps
    BY <2>1 DEF Checks
  <2>3. Busy(x)'
    BY <2>2 DEF Busy, Idle, Steps
  <2>4. ~check'[x].alone
    BY <2>1, Zenon DEF Checks
  <2>5. QED
    BY <2>1, <2>2, <2>3, <2>4 DEF Checks
<1>4. ASSUME NEW x \in Callers \ {c}, ~Busy(x) PROVE ~Busy(x)'
  BY <1>4 DEF Begin, Busy
<1>5. check'[c].alone => \A y \in Callers : ~Busy(y)
  <2> DEFINE free == \A y \in Callers : ~Busy(y)
             fresh(b) == [at |-> "fetch", now |-> time, prev |-> Newest(held), snap |-> None, notes |-> <<>>, alone |-> b]
  <2>1. check'[c] = fresh(free)
    BY <1>2
  <2>2. \A b : fresh(b).alone = b
    OBVIOUS
  <2>3. fresh(free).alone = free
    <3> HIDE DEF free, fresh
    <3>1. QED
      BY <2>2
  <2>4. check'[c].alone = free
    <3> HIDE DEF free, fresh
    <3>1. QED
      BY <2>1, <2>3
  <2> HIDE DEF free
  <2>5. check'[c].alone => free
    BY <2>4, Zenon
  <2>6. QED
    BY <2>5 DEF free
<1>6. QED
  BY <1>1, <1>2, <1>3, <1>4, <1>5

LEMMA OverFields ==
    ASSUME TypeOK, NEW c \in Callers, Return(c) \/ Dies(c)
    PROVE  /\ Busy(c) /\ ~Busy(c)' /\ \A x \in Callers \ {c} : check'[x] = check[x]
           /\ UNCHANGED <<time, held, status, amendments, keyed>>
BY DEF TypeOK, Return, Dies, At, Busy

LEMMA HeldNext ==
    ASSUME IInv, \A c \in Callers : HeldInv(c), [Next]_vars
    PROVE  \A x \in Callers : HeldInv(x)'
<1>0. TypeOK
  BY DEF IInv
<1>1. ASSUME NEW c \in Callers,
             FetchSucceeds(c) \/ FetchFails(c) \/ Save(c) \/ ReadAmendments(c) \/ AppendAmendment(c) \/ WriteStatus(c),
             NEW x \in Callers
      PROVE  HeldInv(x)'
  <2>1. Busy(c) /\ check'[c].prev = check[c].prev /\ \A y \in Callers \ {c} : check'[y] = check[y]
    BY <1>0, <1>1, OwnStep
  <2>2. held \subseteq held'
    BY <1>1 DEF FetchSucceeds, FetchFails, Save, ReadAmendments, AppendAmendment, WriteStatus
  <2>3. CASE x # c
    BY <2>1, <2>2, <2>3 DEF HeldInv, Busy
  <2>4. CASE x = c
    <3>1. CASE FetchSucceeds(c)
      BY <1>0, <2>1, <2>2, <2>4, <3>1, OwnFields DEF HeldInv
    <3>2. CASE FetchFails(c)
      BY <1>0, <2>1, <2>2, <2>4, <3>2, OwnFields DEF HeldInv, FetchFails, At
    <3>3. CASE Save(c)
      <4>1. check[c].snap \in held' /\ (Go(c, "read") \/ Go(c, "status"))
        BY <3>3 DEF Save
      <4>2. QED
        BY <1>0, <2>1, <2>2, <2>4, <4>1, OwnFields DEF HeldInv
    <3>4. CASE ReadAmendments(c)
      BY <1>0, <2>1, <2>2, <2>4, <3>4, OwnFields DEF HeldInv, ReadAmendments, At
    <3>5. CASE AppendAmendment(c) \/ WriteStatus(c)
      BY <1>0, <2>1, <2>2, <2>4, <3>5, OwnFields DEF HeldInv, AppendAmendment, WriteStatus, At
    <3>6. QED
      BY <1>1, <3>1, <3>2, <3>3, <3>4, <3>5
  <2>5. QED
    BY <2>3, <2>4
<1>2. ASSUME NEW c \in Callers, NEW refresh \in BOOLEAN, Begin(c, refresh), NEW x \in Callers PROVE HeldInv(x)'
  <2>1. Newest(held) \in held
    BY <1>0, NewestExists DEF TypeOK, Newest
  <2>2. QED
    BY <1>0, <1>2, <2>1, BeginFields DEF HeldInv
<1>3. ASSUME NEW c \in Callers, Return(c) \/ Dies(c), NEW x \in Callers PROVE HeldInv(x)'
  BY <1>0, <1>3, OverFields DEF HeldInv, Busy
<1>4. ASSUME UNCHANGED <<check, held>>, NEW x \in Callers PROVE HeldInv(x)'
  BY <1>4 DEF HeldInv, Busy
<1>5. QED
  BY <1>1, <1>2, <1>3, <1>4 DEF Next, CheckStep, Rekey, Tick, vars

LEMMA AloneNext ==
    ASSUME IInv, IInv', \A c \in Callers : AloneInv(c), [Next]_vars
    PROVE  \A x \in Callers : AloneInv(x)'
<1>0. TypeOK
  BY DEF IInv
<1>1. ASSUME NEW c \in Callers,
             FetchSucceeds(c) \/ FetchFails(c) \/ Save(c) \/ ReadAmendments(c) \/ AppendAmendment(c) \/ WriteStatus(c),
             NEW x \in Callers, Busy(x)', check'[x].alone
      PROVE  AloneInv(x)'
  <2>1. /\ Busy(c) /\ Busy(c)' /\ check'[c].now = check[c].now /\ check'[c].prev = check[c].prev
        /\ check'[c].alone = check[c].alone /\ (\A y \in Callers \ {c} : check'[y] = check[y]) /\ keyed' = keyed
    BY <1>0, <1>1, OwnStep
  <2>2. \A y \in Callers : Busy(y)' <=> Busy(y)
    BY <2>1 DEF Busy
  <2>3. check[x].alone
    BY <1>1, <2>1
  <2>4. x = c /\ \A y \in Callers \ {c} : ~Busy(y)
    BY <1>1, <2>1, <2>2, <2>3 DEF AloneInv
  <2>5. check'[c].at = "load" => status' = StatusAt(c, check[c].now)'
    <3>1. CASE WriteStatus(c)
      <4>1. check'[c].snap = check[c].snap
        BY <1>0, <2>1, <3>1, OwnFields DEF WriteStatus
      <4>2. status' = StatusAt(c, check[c].now)
        BY <3>1 DEF WriteStatus
      <4> DEFINE given(now, snap, prev, keys) ==
                   [now |-> now, online |-> snap # None, mst |-> IF snap # None THEN snap ELSE prev,
                    no_key |-> snap = None /\ c \notin keys]
      <4>3. StatusAt(c, check[c].now) = given(check[c].now, check[c].snap, check[c].prev, keyed)
        BY DEF StatusAt
      <4>4. StatusAt(c, check[c].now)' = given(check'[c].now, check'[c].snap, check'[c].prev, keyed')
        BY DEF StatusAt
      <4> HIDE DEF given
      <4>5. QED
        BY <2>1, <4>1, <4>2, <4>3, <4>4
    <3>2. CASE ~WriteStatus(c)
      <4>1. check'[c].at # "load"
        BY <1>0, <1>1, <2>1, <3>2, OwnFields DEF FetchFails, Save, AppendAmendment
      <4>2. QED
        BY <4>1
    <3>3. QED
      BY <3>1, <3>2
  <2>6. AloneInv(c)'
    BY <2>2, <2>4, <2>5 DEF AloneInv
  <2>7. QED
    BY <2>4, <2>6
<1>2. ASSUME NEW c \in Callers, NEW refresh \in BOOLEAN, Begin(c, refresh), NEW x \in Callers, Busy(x)', check'[x].alone
      PROVE  AloneInv(x)'
  BY <1>0, <1>2, BeginFields DEF AloneInv
<1>3. ASSUME NEW c \in Callers, Return(c) \/ Dies(c), NEW x \in Callers, Busy(x)', check'[x].alone PROVE AloneInv(x)'
  BY <1>0, <1>3, OverFields DEF AloneInv, Busy
<1>4. ASSUME NEW c \in Callers, Rekey(c), NEW x \in Callers, Busy(x)', check'[x].alone PROVE AloneInv(x)'
  <2>1. UNCHANGED <<check, status>> /\ x # c
    BY <1>4 DEF Rekey, Busy
  <2>2. x \in keyed' <=> x \in keyed
    BY <1>4, <2>1 DEF Rekey
  <2>3. QED
    BY <1>4, <2>1, <2>2 DEF AloneInv, Busy, StatusAt
<1>5. ASSUME UNCHANGED <<check, status, keyed>>, NEW x \in Callers PROVE AloneInv(x)'
  BY <1>5 DEF AloneInv, Busy, StatusAt
<1>6. QED
  BY <1>1, <1>2, <1>3, <1>4, <1>5 DEF Next, CheckStep, Tick, vars, AloneInv

ChecksInv == IInv /\ \A c \in Callers : HeldInv(c) /\ AloneInv(c)

LEMMA ChecksInvariance == Spec => []ChecksInv
<1>1. Init => ChecksInv
  <2>1. ASSUME Init PROVE \A c \in Callers : HeldInv(c) /\ AloneInv(c)
    BY <2>1 DEF Init, HeldInv, AloneInv, Busy
  <2>2. QED
    BY <2>1, InitInv DEF ChecksInv
<1>2. ChecksInv /\ [Next]_vars => ChecksInv'
  BY StepInv, HeldNext, AloneNext DEF ChecksInv
<1>3. QED
  BY <1>1, <1>2, PTL DEF Spec

(* A check that no other one overlaps finds the book it has stored: the    *)
(* status is its own, bears its time, and names a snapshot held, so that   *)
(* the assertion at the end of get_law_book holds for it, on whatever day  *)
(* it ends.                                                                *)
THEOREM StoredBookIsFound == Spec => []BookIsFound
<1>1. ChecksInv => BookIsFound
  <2> SUFFICES ASSUME ChecksInv, NEW c \in Callers, At(c, "load"), check[c].alone
               PROVE  Found(c) # None
    BY DEF BookIsFound
  <2> DEFINE now == check[c].now
  <2>1. check[c] \in Checks
    BY BusyType DEF ChecksInv, IInv, At
  <2>2. status = StatusAt(c, now)
    BY DEF ChecksInv, AloneInv, At
  <2>3. status.now = now /\ now \in Times
    BY <2>1, <2>2 DEF StatusAt, Checks
  <2>4. status.mst \in held
    <3>1. status.mst = IF check[c].snap # None THEN check[c].snap ELSE check[c].prev
      BY <2>2 DEF StatusAt
    <3>2. QED
      BY <3>1 DEF ChecksInv, HeldInv, At
  <2>5. status # None
    <3>1. status \in Statuses
      BY <2>1, <2>2 DEF StatusAt, Checks, Statuses
    <3>2. QED
      BY <3>1, LawAssumptions
  <2>6. ~(status.no_key /\ c \in keyed)
    <3> DEFINE lacks == check[c].snap = None /\ c \notin keyed
               left(b) == [now |-> now, online |-> check[c].snap # None,
                           mst |-> IF check[c].snap # None THEN check[c].snap ELSE check[c].prev, no_key |-> b]
    <3>1. status = left(lacks)
      BY <2>2 DEF StatusAt
    <3>2. \A b : left(b).no_key = b
      OBVIOUS
    <3>3. status.no_key = lacks
      <4> HIDE DEF lacks, left
      <4>1. QED
        BY <3>1, <3>2
    <3>4. lacks => c \notin keyed
      OBVIOUS
    <3> HIDE DEF lacks
    <3>5. QED
      BY <3>3, <3>4, Zenon
  <2>7. Day(status.now) = Day(now) /\ ~(now - status.now >= 1)
    BY <2>3, LawAssumptions DEF Times
  <2>8. Loaded(now, c \in keyed) = [current |-> status.mst, snapshots |-> held, online |-> status.online]
    BY <2>4, <2>5, <2>6, <2>7 DEF Loaded
  <2>9. Loaded(now, c \in keyed) \in Books
    <3>1. held \in SUBSET Laws /\ status \in Statuses
      BY <2>5 DEF ChecksInv, IInv, TypeOK
    <3>2. QED
      BY <2>4, <2>8, <3>1 DEF Books, Statuses
  <2>10. QED
    BY <2>9, LawAssumptions DEF Found
<1>2. QED
  BY <1>1, ChecksInvariance, PTL

-----------------------------------------------------------------------------
LawInv ==
    /\ ChecksInv
    /\ ~disturbed => NoticeInv

LEMMA TodayType == ASSUME TypeOK PROVE time \in Nat /\ Today \in Nat
<1>1. time \in Nat
  BY LawAssumptions DEF TypeOK, Times
<1>2. QED
  BY <1>1, DayType DEF Today

LEMMA LawsAreNumbers == Laws \subseteq Int
BY LawAssumptions DEF Laws

LEMMA NewestIs ==
    ASSUME TypeOK, InForceIsNewest, LawOn(Today) \in held
    PROVE  Newest(held) = LawOn(Today)
<1>1. held \in SUBSET Laws /\ held # {}
  BY DEF TypeOK
<1>2. Newest(held) \in held /\ \A l \in held : l <= Newest(held)
  BY <1>1, NewestExists DEF Newest
<1>3. LawOn(Today) \in Int /\ Newest(held) \in Int
  BY <1>1, <1>2, LawsAreNumbers
<1>4. LawOn(Today) <= Newest(held) /\ Newest(held) <= LawOn(Today)
  BY <1>2 DEF InForceIsNewest
<1>5. QED
  BY <1>3, <1>4

(* A step at which no check comes to its notice or writes one.             *)
LEMMA QuietStep ==
    ASSUME NoticeInv, UNCHANGED <<held, amendments>>, LawOn(Today)' = LawOn(Today),
           \A x \in Callers :
             /\ Noticing(x)' <=> Noticing(x)
             /\ At(x, "append")' => At(x, "append") /\ check'[x].notes = check[x].notes,
           FetchedToday'
    PROVE  NoticeInv'
<1>1. InForceIsNewest'
  BY DEF NoticeInv, InForceIsNewest
<1>2. Pending' <=> Pending
  BY DEF Pending
<1>3. ASSUME NEW x \in Callers PROVE NotesWhole(x)'
  BY <1>3 DEF NoticeInv, NotesWhole, Announced
<1>4. OthersAnnounced'
  BY <1>2 DEF NoticeInv, OthersAnnounced, Announced
<1>5. LastIsNewest'
  BY <1>2 DEF NoticeInv, LastIsNewest, Newest
<1>6. QED
  BY <1>1, <1>3, <1>4, <1>5 DEF NoticeInv

LEMMA SameToday == time' = time => LawOn(Today)' = LawOn(Today)
BY DEF LawOn, InForce, Today, Day

LEMMA SaveNotices ==
    ASSUME ChecksInv, NoticeInv, NEW c \in Callers, Save(c)
    PROVE  NoticeInv'
<1> DEFINE L == LawOn(Today)
<1>0. TypeOK /\ Busy(c) /\ check[c].at = "save" /\ CheckInv(c) /\ HeldInv(c)
  BY DEF ChecksInv, IInv, Save, At
<1>1. /\ Busy(c)' /\ check'[c].prev = check[c].prev /\ time' = time
      /\ \A x \in Callers \ {c} : check'[x] = check[x]
  BY <1>0, OwnStep
<1>2. check[c].snap = L
  BY <1>0 DEF CheckInv, NoticeInv, FetchedToday
<1>3. L' = L
  BY <1>1, SameToday
<1>4. held' = held \cup {L} /\ amendments' = amendments
  BY <1>2 DEF Save
<1>5. check'[c].snap = check[c].snap /\ check'[c].at \in {"read", "status"}
  BY <1>0, OwnFields DEF Save
<1>6. FetchedToday'
  BY <1>1, <1>2, <1>3, <1>5 DEF NoticeInv, FetchedToday, Busy
<1>7. InForceIsNewest'
  <2>1. L \in Laws
    BY <1>0, TodayType, LawOnType
  <2>2. L <= L
    BY <2>1, LawAssumptions DEF Laws
  <2>3. QED
    BY <1>3, <1>4, <2>2 DEF NoticeInv, InForceIsNewest
<1>8. CASE check'[c].at = "read"
  <2>1. Pending'
    BY <1>1, <1>8 DEF Pending, Noticing, At
  <2>2. ASSUME NEW x \in Callers PROVE NotesWhole(x)'
    BY <1>1, <1>3, <1>4, <1>8 DEF NoticeInv, NotesWhole, Announced, At, Busy
  <2>3. OthersAnnounced'
    BY <1>3, <1>4, <2>1 DEF NoticeInv, OthersAnnounced, Announced
  <2>4. QED
    BY <1>6, <1>7, <2>1, <2>2, <2>3 DEF NoticeInv, LastIsNewest
<1>9. CASE check'[c].at = "status"
  <2>1. check[c].prev = L
    <3>1. ~Go(c, "read")
      BY <1>0, <1>9, OwnFields
    <3>2. ~(check[c].prev # L /\ Effective[L] >= Effective[check[c].prev])
      BY <1>2, <3>1 DEF Save
    <3>3. check[c].prev \in held /\ held \in SUBSET Laws /\ L \in Laws
      BY <1>0, TodayType, LawOnType DEF HeldInv, TypeOK
    <3>4. check[c].prev <= L
      BY <3>3 DEF NoticeInv, InForceIsNewest
    <3>5. check[c].prev \in Int /\ L \in Int /\ check[c].prev \in Laws
      BY <3>3, LawsAreNumbers
    <3>6. check[c].prev < L => Effective[check[c].prev] < Effective[L]
      BY <3>3, <3>5, LawAssumptions
    <3>7. Effective[check[c].prev] \in Int /\ Effective[L] \in Int
      BY <3>3, <3>5, LawAssumptions
    <3> HIDE DEF L
    <3>8. QED
      BY <3>2, <3>4, <3>5, <3>6, <3>7
  <2>2. held' = held
    BY <1>0, <1>4, <2>1 DEF HeldInv
  <2>3. ASSUME NEW x \in Callers
        PROVE  /\ Noticing(x)' <=> Noticing(x)
               /\ At(x, "append")' => At(x, "append") /\ check'[x].notes = check[x].notes
    BY <1>0, <1>1, <1>9 DEF Noticing, At, Busy
  <2>4. QED
    BY <1>3, <1>4, <1>6, <2>2, <2>3, QuietStep
<1>10. QED
  BY <1>5, <1>8, <1>9

LEMMA ReadNotices ==
    ASSUME ChecksInv, NoticeInv, NEW c \in Callers, ReadAmendments(c)
    PROVE  NoticeInv'
<1>0. TypeOK
  BY DEF ChecksInv, IInv
<1>1. /\ Busy(c) /\ Busy(c)' /\ time' = time
      /\ \A x \in Callers \ {c} : check'[x] = check[x]
  BY <1>0, OwnStep
<1>2. check'[c].at = "append" /\ check'[c].snap = check[c].snap /\ check'[c].notes = amendments
  BY <1>0, OwnFields
<1>3. UNCHANGED <<held, amendments>> /\ LawOn(Today)' = LawOn(Today)
  BY <1>1, SameToday DEF ReadAmendments
<1>4. Pending'
  BY <1>1, <1>2 DEF Pending, Noticing, At
<1>5. FetchedToday'
  BY <1>1, <1>2, <1>3 DEF NoticeInv, FetchedToday, Busy
<1>6. ASSUME NEW x \in Callers PROVE NotesWhole(x)'
  <2>1. CASE x = c
    <3>1. \A l \in held \ {Baseline, LawOn(Today)} : Announced(l, amendments)
      BY DEF NoticeInv, OthersAnnounced
    <3>2. QED
      BY <1>2, <1>3, <2>1, <3>1 DEF NotesWhole, Announced
  <2>2. CASE x # c
    BY <1>1, <1>3, <2>2 DEF NoticeInv, NotesWhole, Announced, At, Busy
  <2>3. QED
    BY <2>1, <2>2
<1>7. OthersAnnounced'
  BY <1>3, <1>4 DEF NoticeInv, OthersAnnounced, Announced
<1>8. InForceIsNewest'
  BY <1>3 DEF NoticeInv, InForceIsNewest
<1>9. QED
  BY <1>4, <1>5, <1>6, <1>7, <1>8 DEF NoticeInv, LastIsNewest

LEMMA AppendNotices ==
    ASSUME ChecksInv, NoticeInv, NEW c \in Callers, AppendAmendment(c)
    PROVE  NoticeInv'
<1> DEFINE L == LawOn(Today)
           notes == check[c].notes
           new == [from |-> check[c].prev, to |-> check[c].snap, on |-> Day(check[c].now)]
<1>0. TypeOK /\ Busy(c) /\ check[c].at = "append" /\ CheckInv(c) /\ HeldInv(c) /\ check[c] \in Checks
  BY BusyType DEF ChecksInv, IInv, AppendAmendment, At
<1>1. /\ Busy(c)' /\ time' = time
      /\ \A x \in Callers \ {c} : check'[x] = check[x]
  BY <1>0, OwnStep
<1>2. check'[c].at = "status" /\ check'[c].snap = check[c].snap
  BY <1>0, OwnFields DEF AppendAmendment
<1>3. amendments' = Append(notes, new) /\ held' = held /\ L' = L
  BY <1>1, SameToday DEF AppendAmendment
<1>4. check[c].snap = L /\ L \in held
  BY <1>0 DEF CheckInv, HeldInv, NoticeInv, FetchedToday
<1>5. new.to = L
  BY <1>4
<1>6. notes \in Seq(Notices)
  BY <1>0 DEF Checks
<1>7. /\ Len(amendments') = Len(notes) + 1 /\ Len(notes) \in Nat
      /\ DOMAIN amendments' = 1..Len(notes) + 1 /\ DOMAIN notes = 1..Len(notes)
      /\ amendments'[Len(notes) + 1].to = L
      /\ \A i \in 1..Len(notes) : amendments'[i] = notes[i]
  <2> HIDE DEF new, notes, L
  <2>1. QED
    BY <1>3, <1>5, <1>6
<1>8. ASSUME NEW l \in held \ {Baseline} PROVE Announced(l, amendments)'
  <2>1. CASE l = L
    BY <1>7, <2>1 DEF Announced
  <2>2. CASE l # L
    <3>1. Announced(l, notes)
      BY <1>0, <2>2 DEF NoticeInv, NotesWhole, At
    <3>2. PICK i \in DOMAIN notes : notes[i].to = l
      BY <3>1 DEF Announced
    <3>3. i \in DOMAIN amendments' /\ amendments'[i].to = l
      BY <1>7, <3>2
    <3>4. QED
      BY <3>3 DEF Announced
  <2>3. QED
    BY <2>1, <2>2
<1>9. OthersAnnounced'
  BY <1>3, <1>8 DEF OthersAnnounced
<1>10. LastIsNewest'
  <2>1. Newest(held) = L
    BY <1>0, <1>4, NewestIs DEF NoticeInv
  <2>2. amendments'[Len(amendments')].to = L
    BY <1>7
  <2>3. QED
    BY <1>3, <2>1, <2>2 DEF LastIsNewest, Newest
<1>11. FetchedToday'
  <2>1. LawOn(Today)' = LawOn(Today)
    BY <1>3
  <2>2. ASSUME NEW x \in Callers, Busy(x)' PROVE check'[x].snap \in {None, LawOn(Today)}
    BY <1>1, <1>2, <1>4, <2>2 DEF NoticeInv, FetchedToday, Busy
  <2>3. QED
    BY <2>1, <2>2 DEF FetchedToday
<1>12. ASSUME NEW x \in Callers PROVE NotesWhole(x)'
  BY <1>1, <1>2, <1>3 DEF NoticeInv, NotesWhole, Announced, At, Busy
<1>13. InForceIsNewest'
  BY <1>3 DEF NoticeInv, InForceIsNewest
<1>14. QED
  BY <1>9, <1>10, <1>11, <1>12, <1>13 DEF NoticeInv

(* The other steps of a check.                                             *)
LEMMA OtherStepNotices ==
    ASSUME ChecksInv, NoticeInv, NEW c \in Callers, FetchSucceeds(c) \/ FetchFails(c) \/ WriteStatus(c)
    PROVE  NoticeInv'
<1>0. TypeOK
  BY DEF ChecksInv, IInv
<1>1. /\ Busy(c) /\ Busy(c)' /\ time' = time
      /\ \A x \in Callers \ {c} : check'[x] = check[x]
  BY <1>0, OwnStep
<1>2. check[c].at \in {"fetch", "status"}
  BY DEF FetchSucceeds, FetchFails, WriteStatus, At
<1>3. check'[c].at \in {"save", "status", "load"} /\ check'[c].snap \in {LawOn(Today), check[c].snap}
  BY <1>0, <1>1, OwnFields DEF FetchFails, WriteStatus
<1>4. UNCHANGED <<held, amendments>> /\ LawOn(Today)' = LawOn(Today)
  BY <1>1, SameToday DEF FetchSucceeds, FetchFails, WriteStatus
<1>5. ASSUME NEW x \in Callers
      PROVE  /\ Noticing(x)' <=> Noticing(x)
             /\ At(x, "append")' => At(x, "append") /\ check'[x].notes = check[x].notes
  BY <1>1, <1>2, <1>3 DEF Noticing, At, Busy
<1>6. FetchedToday'
  <2>1. ASSUME NEW x \in Callers, Busy(x)' PROVE check'[x].snap \in {None, LawOn(Today)}
    BY <1>1, <1>3, <2>1 DEF NoticeInv, FetchedToday, Busy
  <2>2. QED
    BY <1>4, <2>1 DEF FetchedToday
<1>7. QED
  BY <1>4, <1>5, <1>6, QuietStep

LEMMA BeginNotices ==
    ASSUME ChecksInv, NoticeInv, NEW c \in Callers, NEW refresh \in BOOLEAN, Begin(c, refresh)
    PROVE  NoticeInv'
<1>0. TypeOK /\ ~Busy(c)
  BY DEF ChecksInv, IInv, Begin
<1>1. check'[c].at = "fetch" /\ check'[c].snap = None /\ UNCHANGED <<time, held, amendments>>
  BY <1>0, BeginFields
<1>2. ASSUME NEW x \in Callers \ {c}
      PROVE  /\ Busy(x)' <=> Busy(x)
             /\ Busy(x) => check'[x].at = check[x].at /\ check'[x].snap = check[x].snap
                            /\ check'[x].notes = check[x].notes
  BY <1>0, BeginFields
<1>3. LawOn(Today)' = LawOn(Today)
  BY <1>1, SameToday
<1>4. ASSUME NEW x \in Callers
      PROVE  /\ Noticing(x)' <=> Noticing(x)
             /\ At(x, "append")' => At(x, "append") /\ check'[x].notes = check[x].notes
  BY <1>0, <1>1, <1>2 DEF Noticing, At
<1>5. FetchedToday'
  <2>1. ASSUME NEW x \in Callers, Busy(x)' PROVE check'[x].snap \in {None, LawOn(Today)}
    BY <1>1, <1>2, <2>1 DEF NoticeInv, FetchedToday
  <2>2. QED
    BY <1>3, <2>1 DEF FetchedToday
<1>6. QED
  BY <1>1, <1>3, <1>4, <1>5, QuietStep

(* A check that ends with no notice to write.                              *)
LEMMA OverNotices ==
    ASSUME ChecksInv, NoticeInv, NEW c \in Callers, Return(c) \/ Dies(c), ~Noticing(c)
    PROVE  NoticeInv'
<1>1. /\ Busy(c) /\ ~Busy(c)' /\ UNCHANGED <<time, held, amendments>>
      /\ \A x \in Callers \ {c} : check'[x] = check[x]
  BY OverFields DEF ChecksInv, IInv
<1>2. LawOn(Today)' = LawOn(Today)
  BY <1>1, SameToday
<1>3. ASSUME NEW x \in Callers
      PROVE  /\ Noticing(x)' <=> Noticing(x)
             /\ At(x, "append")' => At(x, "append") /\ check'[x].notes = check[x].notes
  BY <1>1 DEF Noticing, At, Busy
<1>4. FetchedToday'
  <2>1. ASSUME NEW x \in Callers, Busy(x)' PROVE check'[x].snap \in {None, LawOn(Today)}
    BY <1>1, <2>1 DEF NoticeInv, FetchedToday, Busy
  <2>2. QED
    BY <1>2, <2>1 DEF FetchedToday
<1>5. QED
  BY <1>1, <1>2, <1>3, <1>4, QuietStep

(* A change of the regulation in force while no check is at work.          *)
LEMMA TickNotices ==
    ASSUME ChecksInv, NoticeInv, Tick, LawOn(Today)' # LawOn(Today), \A c \in Callers : ~Busy(c)
    PROVE  NoticeInv'
<1>0. TypeOK /\ time' = time + 1
  BY DEF ChecksInv, IInv, Tick
<1>1. UNCHANGED <<held, amendments, check>> /\ \A c \in Callers : ~Busy(c)'
  BY DEF Tick, Busy
<1>2. ~Pending /\ ~Pending'
  BY <1>1 DEF Pending, Noticing, At
<1>3. LawOn(Today) <= LawOn(Today)' /\ LawOn(Today) \in Laws /\ LawOn(Today)' \in Laws
  <2>1. time \in Nat /\ time' \in Nat /\ time <= time'
    BY <1>0, TodayType
  <2>2. Today' = Day(time') /\ Today \in Nat /\ Today' \in Nat /\ Today <= Today'
    BY <2>1, DayType, DayMonotone DEF Today, Day
  <2>3. LawOn(Today)' = LawOn(Today')
    BY DEF LawOn, InForce
  <2>4. Effective[Baseline] \in Int /\ Effective[Baseline] <= 0
    BY LawAssumptions DEF Laws, Baseline
  <2>5. /\ LawOn(Today) \in Laws /\ Effective[LawOn(Today)] <= Today
        /\ LawOn(Today') \in Laws /\ \A l \in Laws : Effective[l] <= Today' => l <= LawOn(Today')
    BY <2>2, <2>4, LawOnIsNewest
  <2>6. Effective[LawOn(Today)] \in Int
    BY <2>5, LawAssumptions
  <2>7. Effective[LawOn(Today)] <= Today'
    BY <2>2, <2>5, <2>6
  <2>8. QED
    BY <2>3, <2>5, <2>7
<1>4. InForceIsNewest'
  <2>1. ASSUME NEW l \in held PROVE l <= LawOn(Today)'
    <3>1. l <= LawOn(Today) /\ l \in Laws
      BY <1>0 DEF NoticeInv, InForceIsNewest, TypeOK
    <3>2. l \in Int /\ LawOn(Today) \in Int /\ LawOn(Today)' \in Int
      BY <1>3, <3>1, LawsAreNumbers
    <3>3. QED
      BY <1>3, <3>1, <3>2
  <2>2. QED
    BY <1>1, <2>1 DEF InForceIsNewest
<1>5. OthersAnnounced'
  BY <1>1, <1>2 DEF NoticeInv, OthersAnnounced, Announced
<1>6. LastIsNewest'
  BY <1>1, <1>2 DEF NoticeInv, LastIsNewest, Newest
<1>7. FetchedToday' /\ \A x \in Callers : NotesWhole(x)'
  BY <1>1 DEF FetchedToday, NotesWhole, At
<1>8. QED
  BY <1>4, <1>5, <1>6, <1>7 DEF NoticeInv

LEMMA NoticeNext ==
    ASSUME ChecksInv, NoticeInv, [Next]_vars, ~disturbed'
    PROVE  NoticeInv'
<1>1. ASSUME UNCHANGED <<time, held, amendments, check>> PROVE NoticeInv'
  <2>1. LawOn(Today)' = LawOn(Today)
    BY <1>1, SameToday
  <2>2. FetchedToday'
    BY <1>1, <2>1 DEF NoticeInv, FetchedToday, Busy
  <2>3. QED
    BY <1>1, <2>1, <2>2, QuietStep DEF Noticing, At, Busy
<1>2. ASSUME NEW c \in Callers, Return(c) PROVE NoticeInv'
  BY <1>2, OverNotices DEF Return, Noticing, At
<1>3. ASSUME NEW c \in Callers, Dies(c) PROVE NoticeInv'
  <2>1. ~Noticing(c)
    BY <1>3 DEF Dies, Noticing, At
  <2>2. QED
    BY <1>3, <2>1, OverNotices
<1>4. ASSUME Tick PROVE NoticeInv'
  <2>1. LawOn(Today)' = LawOn(Day(time + 1))
    BY <1>4 DEF Tick, Today, Day, LawOn, InForce
  <2>2. CASE LawOn(Today)' = LawOn(Today)
    <3>1. UNCHANGED <<held, amendments, check>>
      BY <1>4 DEF Tick
    <3>2. FetchedToday'
      BY <2>2, <3>1 DEF NoticeInv, FetchedToday, Busy
    <3>3. QED
      BY <2>2, <3>1, <3>2, QuietStep DEF Noticing, At, Busy
  <2>3. CASE LawOn(Today)' # LawOn(Today)
    <3>1. \A c \in Callers : ~Busy(c)
      BY <1>4, <2>1, <2>3 DEF Tick
    <3>2. QED
      BY <1>4, <2>3, <3>1, TickNotices
  <2>4. QED
    BY <2>2, <2>3
<1>5. QED
  BY <1>1, <1>2, <1>3, <1>4, BeginNotices, OtherStepNotices, SaveNotices, ReadNotices, AppendNotices
     DEF Next, CheckStep, Rekey, vars

(* The disturbance is remembered.                                          *)
LEMMA DisturbedStays == ASSUME [Next]_vars, disturbed PROVE disturbed'
<1>1. ASSUME NEW c \in Callers, Dies(c) PROVE disturbed'
  BY <1>1, Zenon DEF Dies
<1>2. ASSUME Tick PROVE disturbed'
  BY <1>2, Zenon DEF Tick
<1>3. ASSUME disturbed' = disturbed PROVE disturbed'
  BY <1>3, Zenon
<1>4. QED
  BY <1>1, <1>2, <1>3, Zenon DEF Next, CheckStep, Begin, FetchSucceeds, FetchFails, Save, ReadAmendments,
     AppendAmendment, WriteStatus, Return, Rekey, vars

LEMMA LawInvariance == Spec => []LawInv
<1>1. Init => LawInv
  <2> SUFFICES ASSUME Init PROVE LawInv
    OBVIOUS
  <2>1. ChecksInv
    BY InitInv DEF ChecksInv, Init, HeldInv, AloneInv, Busy
  <2>2. InForceIsNewest
    <3>1. TypeOK
      BY <2>1 DEF ChecksInv, IInv
    <3>2. LawOn(Today) \in Laws
      BY <3>1, TodayType, LawOnType
    <3>3. Baseline <= LawOn(Today)
      BY <3>2, LawAssumptions DEF Laws, Baseline
    <3>4. QED
      BY <3>3 DEF Init, InForceIsNewest
  <2>3. \A c \in Callers : ~Busy(c)
    BY DEF Init, Busy
  <2>4. FetchedToday /\ \A c \in Callers : NotesWhole(c)
    BY <2>3 DEF FetchedToday, NotesWhole, At
  <2>5. OthersAnnounced /\ LastIsNewest
    BY DEF Init, OthersAnnounced, LastIsNewest
  <2>6. QED
    BY <2>1, <2>2, <2>4, <2>5 DEF LawInv, NoticeInv
<1>2. LawInv /\ [Next]_vars => LawInv'
  <2> SUFFICES ASSUME LawInv, [Next]_vars PROVE LawInv'
    OBVIOUS
  <2>1. ChecksInv'
    BY StepInv, HeldNext, AloneNext DEF LawInv, ChecksInv
  <2>2. ~disturbed' => NoticeInv'
    <3>1. ASSUME ~disturbed' PROVE NoticeInv'
      <4>1. ~disturbed
        BY <3>1, DisturbedStays
      <4>2. QED
        BY <3>1, <4>1, NoticeNext DEF LawInv
    <3>2. QED
      BY <3>1
  <2>3. QED
    BY <2>1, <2>2 DEF LawInv
<1>3. QED
  BY <1>1, <1>2, PTL DEF Spec

(* While no regulation comes into force beside a check and no check dies   *)
(* with its notice to write, every regulation received is announced once   *)
(* no notice is in the making, and the last entry is of the newest one,    *)
(* though several processes read and replace amendments.json without a     *)
(* lock: whatever one of them overwrites is of the regulation in force,    *)
(* which its own entry names as well.                                      *)
THEOREM NoticesAreKept == Spec => []AmendmentsAnnounced
<1>1. LawInv => AmendmentsAnnounced
  <2> SUFFICES ASSUME LawInv, ~disturbed, ~Pending
               PROVE  /\ {l \in held \ {Baseline} : \A i \in DOMAIN amendments : amendments[i].to # l} = {}
                      /\ held # {Baseline} => amendments[Len(amendments)].to = Newest(held)
    BY DEF AmendmentsAnnounced, Pending, Noticing
  <2>1. OthersAnnounced /\ LastIsNewest
    BY DEF LawInv, NoticeInv
  <2>2. QED
    BY <2>1 DEF OthersAnnounced, LastIsNewest, Announced
<1>2. QED
  BY <1>1, LawInvariance, PTL

=============================================================================
