---------------------------- MODULE TripJobs_proof ---------------------------
(***************************************************************************)
(* Proofs about the job manager (JobManager) and about the trips that use  *)
(* it (TripJobs).  The first part is of the manager alone, for any sets of *)
(* addresses, threads and jobs: its types, the place of every queued job,  *)
(* and that it implements the board of JobBoard.  The second is of the     *)
(* requests and the bodies of the jobs, for any sets of trips, threads and *)
(* base names: they use the manager as the first part supposes, own the    *)
(* lock of out/ by turns, and make a job known before it is done.          *)
(***************************************************************************)
EXTENDS TripJobs, FiniteSetTheorems, WellFoundedInduction, TLAPS

(* What an append and a removal at the head do to the elements of a queue. *)
LEMMA AppendElements ==
    ASSUME NEW S, NEW s \in Seq(S), NEW x \in S
    PROVE  /\ Append(s, x) \in Seq(S)
           /\ Range(Append(s, x)) = Range(s) \cup {x}
           /\ IsInjective(s) /\ x \notin Range(s) => IsInjective(Append(s, x))
<1>1. /\ Append(s, x) \in Seq(S)
      /\ DOMAIN Append(s, x) = 1 .. Len(s) + 1
      /\ DOMAIN s = 1 .. Len(s)
      /\ Len(s) \in Nat
      /\ \A i \in 1 .. Len(s) : Append(s, x)[i] = s[i]
      /\ Append(s, x)[Len(s) + 1] = x
  OBVIOUS
<1>2. \A i \in 1 .. Len(s) + 1 : i \in 1 .. Len(s) \/ i = Len(s) + 1
  BY <1>1
<1>3. Len(s) + 1 \in DOMAIN Append(s, x) /\ \A i \in DOMAIN s : i \in DOMAIN Append(s, x)
  BY <1>1
<1>4. Range(Append(s, x)) = Range(s) \cup {x}
  BY <1>1, <1>2, <1>3 DEF Range
<1>5. ASSUME IsInjective(s), x \notin Range(s) PROVE IsInjective(Append(s, x))
  BY <1>1, <1>2, <1>5 DEF Range, IsInjective
<1>6. QED
  BY <1>1, <1>4, <1>5

LEMMA TailElements ==
    ASSUME NEW S, NEW s \in Seq(S), s # <<>>
    PROVE  /\ Head(s) \in S /\ Head(s) \in Range(s)
           /\ Tail(s) \in Seq(S)
           /\ Range(s) = Range(Tail(s)) \cup {Head(s)}
           /\ IsInjective(s) => IsInjective(Tail(s)) /\ Head(s) \notin Range(Tail(s))
<1>1. /\ Tail(s) \in Seq(S)
      /\ DOMAIN Tail(s) = 1 .. Len(s) - 1
      /\ DOMAIN s = 1 .. Len(s)
      /\ Len(s) \in Nat /\ Len(s) # 0
      /\ Head(s) = s[1]
      /\ \A i \in 1 .. Len(s) - 1 : Tail(s)[i] = s[i + 1]
  OBVIOUS
<1>2. /\ 1 \in DOMAIN s
      /\ \A i \in DOMAIN Tail(s) : i + 1 \in DOMAIN s /\ i + 1 # 1
      /\ \A i \in DOMAIN s : i = 1 \/ (i - 1 \in DOMAIN Tail(s) /\ (i - 1) + 1 = i)
  BY <1>1
<1>3. Range(s) \subseteq Range(Tail(s)) \cup {Head(s)}
  BY <1>1, <1>2 DEF Range
<1>4. Range(Tail(s)) \cup {Head(s)} \subseteq Range(s)
  BY <1>1, <1>2 DEF Range
<1>5. ASSUME IsInjective(s) PROVE IsInjective(Tail(s)) /\ Head(s) \notin Range(Tail(s))
  <2>1. \A i, k \in DOMAIN Tail(s) : i + 1 = k + 1 => i = k
    BY <1>1
  <2>2. \A i, k \in DOMAIN s : s[i] = s[k] => i = k
    BY <1>5 DEF IsInjective
  <2>3. \A i, k \in DOMAIN Tail(s) : Tail(s)[i] = Tail(s)[k] => i = k
    BY <1>1, <1>2, <2>1, <2>2
  <2>4. \A i \in DOMAIN Tail(s) : Tail(s)[i] # Head(s)
    BY <1>1, <1>2, <2>2
  <2>5. QED
    BY <2>3, <2>4 DEF IsInjective, Range
<1>6. Head(s) \in S /\ Head(s) \in Range(s)
  BY <1>1, <1>2 DEF Range
<1>7. QED
  BY <1>1, <1>3, <1>4, <1>5, <1>6

LEMMA EmptyElements == <<>> \in Seq(Jobs) /\ Range(<<>>) = {} /\ IsInjective(<<>>)
BY DEF Range, IsInjective

(* Every step of a thread, of the worker or of the application's shutdown  *)
(* keeps the variables in their sets.                                      *)
LEMMA TypeNext == TypeOK /\ [Next]_vars => TypeOK'
<1> SUFFICES ASSUME TypeOK, [Next]_vars PROVE TypeOK'
  OBVIOUS
<1> USE DEF TypeOK, States
<1>1. ASSUME NEW t \in Threads, NEW k \in Keys, SubmitExisting(t, k) PROVE TypeOK'
  BY <1>1 DEF SubmitExisting, vars, jobVars, poolVars
<1>2. ASSUME NEW t \in Threads, NEW k \in Keys, NEW kd \in Kinds, NEW j \in Jobs,
             SubmitNew(t, k, kd, j)
      PROVE  TypeOK'
  BY <1>2 DEF SubmitNew, poolVars
<1>3. ASSUME NEW t \in Threads, HandOver(t) PROVE TypeOK'
  <2>1. pending[t] \in Jobs
    BY <1>3 DEF HandOver
  <2>2. pool' \in Seq(Jobs)
    BY <1>3, <2>1, AppendElements DEF HandOver
  <2>3. QED
    BY <1>3, <2>2 DEF HandOver, jobVars
<1>4. ASSUME NEW k \in Keys, NEW nk \in Keys, Alias(k, nk) PROVE TypeOK'
  BY <1>4 DEF Alias, jobVars, poolVars
<1>5. CASE Start
  <2>1. Head(pool) \in Jobs /\ Tail(pool) \in Seq(Jobs)
    BY <1>5, TailElements DEF Start
  <2>2. QED
    BY <1>5, <2>1 DEF Start
<1>6. ASSUME NEW r \in Results, Return(r) PROVE TypeOK'
  BY <1>6 DEF Return, poolVars
<1>7. CASE MarkDone
  BY <1>7 DEF MarkDone
<1>8. CASE Fail
  BY <1>8 DEF Fail
<1>9. CASE Shutdown
  BY <1>9, EmptyElements DEF Shutdown, jobVars
<1>10. CASE UNCHANGED vars
  BY <1>10 DEF vars, jobVars, poolVars
<1>11. QED
  BY <1>1, <1>2, <1>3, <1>4, <1>5, <1>6, <1>7, <1>8, <1>9, <1>10 DEF Next, WorkerNext

(* Types of the job table, the jobs and the pool.                          *)
THEOREM Typing == Spec => []TypeOK
<1>1. Init => TypeOK
  BY DEF Init, TypeOK, States
<1>2. QED
  BY <1>1, TypeNext, PTL DEF Spec

-----------------------------------------------------------------------------
(* The inductive invariant.  QueuedOnce says where a queued job may be and *)
(* NoJobLost that it is somewhere; neither survives Start without knowing  *)
(* that "running" is the worker's job, and a result is only ever stored in *)
(* that job.                                                               *)
RunningIsWorkers == \A j \in Jobs : state[j] = "running" <=> worker = j

ResultsBelong ==
    \A j \in Jobs : /\ result[j] # None => state[j] \in {"running", "done"}
                    /\ state[j] = "done" => result[j] # None

IInv == TypeOK /\ QueuedOnce /\ NoJobLost /\ RunningIsWorkers /\ ResultsBelong

LEMMA IInvInit == Init => IInv
BY EmptyElements, NoneAssumption
   DEF Init, IInv, TypeOK, States, QueuedOnce, NoJobLost, RunningIsWorkers, ResultsBelong, Waiting

LEMMA IInvNext == IInv /\ TypeOK' /\ [Next]_vars => IInv'
<1> SUFFICES ASSUME IInv, TypeOK', [Next]_vars PROVE IInv'
  OBVIOUS
<1> USE DEF IInv, TypeOK
<1>1. ASSUME NEW t \in Threads, NEW k \in Keys, NEW kd \in Kinds, NEW j \in Jobs,
             SubmitNew(t, k, kd, j)
      PROVE  IInv'
  <2>1. /\ pending[t] = None /\ state[j] = "new" /\ j # None
        /\ state' = [state EXCEPT ![j] = "queued"]
        /\ pending' = [pending EXCEPT ![t] = j]
        /\ UNCHANGED <<result, pool, worker, open>>
    BY <1>1, NoneAssumption DEF SubmitNew, poolVars
  <2>2. j \notin Waiting /\ \A u \in Threads : pending[u] # j
    BY <2>1 DEF QueuedOnce
  <2>3. Waiting' = Waiting /\ (IsInjective(pool') <=> IsInjective(pool)) /\ Waiting \subseteq Jobs
    BY <2>1 DEF Waiting, Range
  <2>4. QueuedOnce'
    BY <2>1, <2>2, <2>3 DEF QueuedOnce
  <2>5. NoJobLost'
    <3>1. pending'[t] = j /\ \A u \in Threads, i \in Jobs : pending[u] = i => pending'[u] = i
      BY <2>1, NoneAssumption
    <3>2. QED
      BY <2>1, <2>3, <3>1 DEF NoJobLost
  <2>6. RunningIsWorkers' /\ ResultsBelong'
    BY <2>1 DEF RunningIsWorkers, ResultsBelong
  <2>7. QED
    BY <2>4, <2>5, <2>6
<1>2. ASSUME NEW t \in Threads, HandOver(t) PROVE IInv'
  <2>1. /\ pending[t] \in Jobs /\ pending[t] # None
        /\ pending' = [pending EXCEPT ![t] = None]
        /\ UNCHANGED <<state, result, worker, open>>
    BY <1>2 DEF HandOver, jobVars
  <2>2. RunningIsWorkers' /\ ResultsBelong'
    BY <2>1 DEF RunningIsWorkers, ResultsBelong
  <2>3. CASE open
    <3>1. Waiting' = Waiting \cup {pending[t]} /\ IsInjective(pool')
      BY <1>2, <2>1, <2>3, AppendElements DEF HandOver, Waiting, QueuedOnce
    <3>2. QueuedOnce' /\ NoJobLost'
      BY <2>1, <3>1 DEF QueuedOnce, NoJobLost
    <3>3. QED
      BY <2>2, <3>2
  <2>4. CASE ~open
    BY <1>2, <2>1, <2>2, <2>4 DEF HandOver, QueuedOnce, NoJobLost, Waiting
  <2>5. QED
    BY <2>3, <2>4
<1>3. ASSUME UNCHANGED <<state, result, pending, pool, worker, open>> PROVE IInv'
  BY <1>3 DEF QueuedOnce, NoJobLost, RunningIsWorkers, ResultsBelong, Waiting
<1>4. CASE Start
  <2> DEFINE h == Head(pool)
  <2>1. /\ worker = None /\ worker' = h
        /\ state' = [state EXCEPT ![h] = "running"]
        /\ UNCHANGED <<result, pending, open>>
    BY <1>4 DEF Start
  <2>2. /\ h \in Jobs /\ h \in Waiting /\ Waiting = Waiting' \cup {h}
        /\ IsInjective(pool') /\ h \notin Waiting'
    BY <1>4, TailElements DEF Start, Waiting, QueuedOnce
  <2>3. state[h] = "queued" /\ h # None
    BY <2>2, NoneAssumption DEF QueuedOnce
  <2>4. RunningIsWorkers' /\ ResultsBelong'
    BY <2>1, <2>2, <2>3, NoneAssumption DEF RunningIsWorkers, ResultsBelong
  <2>5. QueuedOnce' /\ NoJobLost'
    BY <2>1, <2>2, <2>3 DEF QueuedOnce, NoJobLost
  <2>6. QED
    BY <2>4, <2>5
<1>5. ASSUME NEW r \in Results, Return(r) PROVE IInv'
  <2>1. QueuedOnce' /\ NoJobLost' /\ RunningIsWorkers'
    BY <1>5 DEF Return, poolVars, QueuedOnce, NoJobLost, RunningIsWorkers, Waiting
  <2>2. ResultsBelong'
    BY <1>5, NoneAssumption DEF Return, ResultsBelong, RunningIsWorkers
  <2>3. QED
    BY <2>1, <2>2
<1>6. ASSUME MarkDone \/ Fail PROVE IInv'
  <2>1. /\ worker \in Jobs /\ worker' = None /\ state[worker] = "running"
        /\ \A j \in Jobs : j # worker => state'[j] = state[j]
        /\ \/ state'[worker] = "error" /\ result[worker] = None
           \/ state'[worker] = "done" /\ result[worker] # None
        /\ UNCHANGED <<result, pending, pool, open>>
    BY <1>6, NoneAssumption DEF MarkDone, Fail, RunningIsWorkers
  <2>2. /\ \A u \in Threads : pending[u] # None => pending[u] \in Jobs /\ pending[u] # worker
        /\ Waiting \subseteq Jobs /\ worker \notin Waiting
    BY <2>1 DEF QueuedOnce, Waiting, Range
  <2>3. QueuedOnce' /\ NoJobLost'
    BY <2>1, <2>2 DEF QueuedOnce, NoJobLost, Waiting
  <2>4. RunningIsWorkers' /\ ResultsBelong'
    BY <2>1, NoneAssumption DEF RunningIsWorkers, ResultsBelong
  <2>5. QED
    BY <2>3, <2>4
<1>7. CASE Shutdown
  <2>1. Waiting' = {} /\ IsInjective(pool') /\ ~open' /\ UNCHANGED <<state, result, pending, worker>>
    BY <1>7, EmptyElements DEF Shutdown, jobVars, Waiting
  <2>2. QED
    BY <2>1 DEF QueuedOnce, NoJobLost, RunningIsWorkers, ResultsBelong
<1>8. QED
  BY <1>1, <1>2, <1>3, <1>4, <1>5, <1>6, <1>7
     DEF Next, WorkerNext, SubmitExisting, Alias, vars, jobVars, poolVars

(* Invariance: what the queue, the threads and the results of _run have in *)
(* common after every step of submit, the worker, alias and shutdown.      *)
THEOREM Invariance == Spec => []IInv
<1>1. Init => IInv
  BY IInvInit
<1>2. IInv /\ TypeOK' /\ [Next]_vars => IInv'
  BY IInvNext
<1>3. QED
  BY <1>1, <1>2, Typing, PTL DEF Spec

(* No job is lost between the table and the pool, for any number of        *)
(* threads, addresses and jobs (submit, and pool.submit after the lock).   *)
THEOREM QueuedJobsAreHeld == Spec => []NoJobLost
BY Invariance, PTL DEF IInv

(* Nor is one held twice, so the worker runs every body at most once.      *)
THEOREM QueuedJobsAreHeldOnce == Spec => []QueuedOnce
BY Invariance, PTL DEF IInv

(* A request that reads "done" finds the value (_run's two assignments).   *)
THEOREM DoneHasResult == Spec => []ResultBeforeDone
<1>1. IInv => ResultBeforeDone
  BY DEF IInv, ResultsBelong, ResultBeforeDone
<1>2. QED
  BY <1>1, Invariance, PTL

-----------------------------------------------------------------------------
(* The manager implements the board: a job is created once, runs at most   *)
(* once, never beside another job, and stays finished, for any number of   *)
(* threads, addresses and jobs (submit and _run of web/jobs.py).           *)
BoardPhase == [j \in Jobs |-> Phase(state[j])]

LEMMA PhaseStep ==
    ASSUME TypeOK, NEW j \in Jobs, NEW s \in States, state' = [state EXCEPT ![j] = s]
    PROVE  BoardPhase' = [BoardPhase EXCEPT ![j] = Phase(s)]
BY DEF BoardPhase, TypeOK

LEMMA BoardStep == IInv /\ [Next]_vars => [Board!BoardNext]_BoardPhase
<1> SUFFICES ASSUME IInv, [Next]_vars PROVE [Board!BoardNext]_BoardPhase
  OBVIOUS
<1> USE DEF IInv
<1>1. ASSUME UNCHANGED state PROVE UNCHANGED BoardPhase
  BY <1>1 DEF BoardPhase
<1>2. ASSUME NEW t \in Threads, NEW k \in Keys, NEW kd \in Kinds, NEW j \in Jobs,
             SubmitNew(t, k, kd, j)
      PROVE  Board!Create(j)
  <2>1. BoardPhase' = [BoardPhase EXCEPT ![j] = Phase("queued")] /\ BoardPhase[j] = "new"
    BY <1>2, PhaseStep DEF SubmitNew, States, BoardPhase, Phase
  <2>2. QED
    BY <2>1 DEF Board!Create, BoardPhase, Phase
<1>3. ASSUME Start PROVE \E j \in Jobs : Board!Begin(j)
  <2>1. Head(pool) \in Jobs /\ Head(pool) \in Waiting
    BY <1>3, TailElements DEF Start, TypeOK, Waiting
  <2>2. state[Head(pool)] = "queued" /\ \A i \in Jobs : state[i] # "running"
    BY <1>3, <2>1, NoneAssumption DEF Start, QueuedOnce, RunningIsWorkers, TypeOK
  <2>3. BoardPhase' = [BoardPhase EXCEPT ![Head(pool)] = Phase("running")]
    BY <1>3, <2>1, PhaseStep DEF Start, States
  <2>4. BoardPhase[Head(pool)] = "waiting" /\ \A i \in Jobs : BoardPhase[i] # "running"
    BY <2>1, <2>2 DEF BoardPhase, Phase
  <2>5. Board!Begin(Head(pool))
    BY <2>3, <2>4 DEF Board!Begin, BoardPhase, Phase
  <2>6. QED
    BY <2>1, <2>5
<1>4. ASSUME MarkDone \/ Fail PROVE \E j \in Jobs : Board!End(j)
  <2>1. worker \in Jobs /\ state[worker] = "running"
    BY <1>4, NoneAssumption DEF MarkDone, Fail, RunningIsWorkers, TypeOK
  <2>2. BoardPhase' = [BoardPhase EXCEPT ![worker] = "finished"]
    <3>1. PICK s \in {"done", "error"} : state' = [state EXCEPT ![worker] = s]
      BY <1>4 DEF MarkDone, Fail
    <3>2. s \in States /\ Phase(s) = "finished"
      BY DEF States, Phase
    <3>3. QED
      BY <2>1, <3>1, <3>2, PhaseStep
  <2>3. BoardPhase[worker] = "running"
    BY <2>1 DEF BoardPhase, Phase
  <2>4. QED
    BY <2>1, <2>2, <2>3 DEF Board!End, BoardPhase
<1>5. QED
  BY <1>1, <1>2, <1>3, <1>4
     DEF Next, WorkerNext, SubmitExisting, HandOver, Alias, Return, Shutdown, vars, jobVars, poolVars, Board!BoardNext

THEOREM Refinement == Spec => ImplementsBoard
<1>1. Init => Board!BoardInit
  BY DEF Init, Board!BoardInit, Phase
<1>2. IInv /\ [Next]_vars => [Board!BoardNext]_BoardPhase
  BY BoardStep
<1>3. QED
  BY <1>1, <1>2, Invariance, PTL DEF Spec, ImplementsBoard, Board!BoardSpec, BoardPhase

-----------------------------------------------------------------------------
(* The trips.  What a request at work knows, and a job that exists.        *)
Requests == [step : ReqSteps, op : AsyncOps \cup SyncOps \cup {None},
             name : Names \cup {None}, to : Names \cup {None}]

Sound(r) == r.step # "idle" =>
    /\ r.op \in AsyncOps \cup SyncOps /\ r.name \in Names
    /\ r.step \in {"move", "alias"} => r.to \in Names

ReqOK == \A t \in Threads : Sound(req[t])

(* A job that exists is known under its address, and a reading that has    *)
(* its result under that one too.                                          *)
Addressed == \A j \in Jobs :
    /\ state[j] # "new" => key[j] \in Names /\ kind[j] \in Kinds /\ table[key[j]] # None
    /\ kind[j] = "extract" /\ result[j] # None => result[j] \in Names /\ table[result[j]] # None

(* The body that runs is the worker's job; about to return a new address,  *)
(* it has made the job known there.                                        *)
BodyOK ==
    /\ step = "idle" <=> worker = None
    /\ worker # None => target \in Names
    /\ worker # None /\ result[worker] # None => step = "return"
    /\ step = "law" => kind[worker] = "law"
    /\ step = "return" /\ kind[worker] = "extract" => table[target] # None

(* No trip has two folders.                                                *)
NamesDistinct == \A n, m \in Names : folder[n] # None /\ folder[n] = folder[m] => n = m

TripsInv ==
    /\ TripsTypeOK /\ IInv
    /\ ReqOK /\ Addressed /\ BodyOK /\ NamesDistinct /\ LockOwned

-----------------------------------------------------------------------------
LEMMA NamesOf ==
  /\ Keys = Names /\ Results = Names \cup {Document, Rules} /\ Names \subseteq Results
  /\ None \notin Names /\ None \notin Results /\ None \notin Jobs
  /\ \A x \in Trips : Staging(x) \in Names
  /\ Dated \subseteq Names
BY NamesAreKeys, NoneAssumption DEF Names

(* unique_trip_id finds a name: there are more of one base than trips.     *)
LEMMA FreeName ==
  ASSUME folder \in [Names -> Trips \cup {None}], NamesDistinct, NEW b \in Bases
  PROVE  UniqueTripId(b) \in Dated /\ folder[UniqueTripId(b)] = None
<1> USE SuffixesSuffice
<1> DEFINE Free(i) == folder[<<b, i>>] = None
           R == {ss \in Nat \X Nat : ss[1] < ss[2]}
           T == {i \in 1..MaxSuffix : Free(i)}
<1>1. \A i \in 1..MaxSuffix : <<b, i>> \in Dated /\ <<b, i>> \in Names
  BY DEF Dated, Names
<1>2. \E i \in 1..MaxSuffix : Free(i)
  <2> SUFFICES ASSUME \A i \in 1..MaxSuffix : ~Free(i) PROVE FALSE
    OBVIOUS
  <2> DEFINE f == [i \in 1..MaxSuffix |-> folder[<<b, i>>]]
  <2>1. f \in [1..MaxSuffix -> Trips]
    BY <1>1
  <2>2. IsFiniteSet(1..MaxSuffix) /\ Cardinality(1..MaxSuffix) = MaxSuffix
    <3>1. Cardinality(Trips) \in Nat
      BY FS_CardinalityType
    <3>2. 1 \in Int /\ MaxSuffix \in Int /\ ~(1 > MaxSuffix)
      BY <3>1
    <3>3. QED
      BY <3>2, FS_Interval
  <2>3. PICK i, j \in 1..MaxSuffix : i # j /\ f[i] = f[j]
    <3> HIDE DEF f
    <3>1. QED
      BY <2>1, <2>2, FS_PigeonHole
  <2>4. folder[<<b, i>>] = folder[<<b, j>>] /\ folder[<<b, i>>] # None
    BY <2>3
  <2>5. <<b, i>> = <<b, j>>
    BY <1>1, <2>4 DEF NamesDistinct
  <2>6. QED
    BY <2>3, <2>5
<1> HIDE SuffixesSuffice
<1>3. T \subseteq Nat /\ T # {}
  <2>1. 1..MaxSuffix \subseteq Nat
    BY SuffixesSuffice
  <2> HIDE DEF Free
  <2>2. QED
    BY <1>2, <2>1
<1>4. \E x \in T : \A y \in T : ~(<<y, x>> \in R)
  <2>1. IsWellFoundedOn(R, Nat)
    BY NatLessThanWellFounded DEF OpToRel
  <2> HIDE DEF R, T
  <2>2. QED
    BY <1>3, <2>1, WFMin
<1>5. PICK x \in T : \A y \in T : ~(y < x)
  <2> HIDE DEF T
  <2>1. QED
    BY <1>3, <1>4
<1>6. \E i \in 1..MaxSuffix : folder[<<b, i>>] = None /\ \A h \in 1..(i - 1) : folder[<<b, h>>] # None
  <2>1. \A h \in 1..(x - 1) : h \in 1..MaxSuffix /\ h < x
    <3>1. x \in 1..MaxSuffix /\ MaxSuffix \in Nat
      BY <1>5, SuffixesSuffice
    <3> HIDE DEF T
    <3>2. QED
      BY <3>1
  <2>2. QED
    BY <1>5, <2>1
<1>7. PICK i \in 1..MaxSuffix : UniqueTripId(b) = <<b, i>> /\ folder[<<b, i>>] = None
  BY <1>6 DEF UniqueTripId
<1>8. QED
  BY <1>1, <1>7

LEMMA NewNameType ==
  ASSUME folder \in [Names -> Trips \cup {None}], NamesDistinct, NEW n, NEW b \in Bases \cup {None}
  PROVE  NewName(n, b) \in Names \cup {None}
BY FreeName, NamesOf DEF NewName

-----------------------------------------------------------------------------
(* Requests.                                                               *)
LEMMA RequestTypes == TripsTypeOK => req \in [Threads -> Requests]
BY DEF TripsTypeOK, Requests

LEMMA IdleIsSound == Idle \in Requests /\ Sound(Idle) /\ Idle.step = "idle"
BY DEF Idle, Requests, Sound, ReqSteps

LEMMA SetRequest ==
  ASSUME req \in [Threads -> Requests], ReqOK, NEW t \in Threads, NEW r \in Requests, Sound(r),
         req' = [req EXCEPT ![t] = r]
  PROVE  req' \in [Threads -> Requests] /\ ReqOK'
<1>1. req' \in [Threads -> Requests]
  OBVIOUS
<1>2. \A u \in Threads : req'[u] = IF u = t THEN r ELSE req[u]
  OBVIOUS
<1>3. QED
  BY <1>1, <1>2 DEF ReqOK

LEMMA GoOn ==
  ASSUME req \in [Threads -> Requests], ReqOK, NEW t \in Threads, req[t].step # "idle",
         NEW s \in ReqSteps \ {"bin"}, s \in {"move", "alias"} => req[t].to \in Names
  PROVE  LET r == [req[t] EXCEPT !.step = s] IN r \in Requests /\ Sound(r) /\ r.step # "bin"
<1>1. req[t] \in Requests /\ Sound(req[t])
  BY DEF ReqOK
<1>2. QED
  BY <1>1 DEF Requests, Sound

(* What a request does but for the trash: it has no hold of the lock, and  *)
(* leaves the bodies of the jobs alone.                                    *)
Modest(t) ==
    /\ req[t].step # "bin"
    /\ \E r \in Requests : Sound(r) /\ r.step # "bin" /\ req' = [req EXCEPT ![t] = r]
    /\ UNCHANGED <<lock, bodyVars>>

LEMMA Going ==
  ASSUME req \in [Threads -> Requests], ReqOK, NEW t \in Threads, req[t].step \notin {"idle", "bin"},
         NEW s \in ReqSteps \ {"bin"}, s \in {"move", "alias"} => req[t].to \in Names,
         Go(t, s), UNCHANGED <<lock, bodyVars>>
  PROVE  Modest(t)
<1> DEFINE r == [req[t] EXCEPT !.step = s]
<1>1. r \in Requests /\ Sound(r) /\ r.step # "bin"
  BY GoOn
<1>2. req' = [req EXCEPT ![t] = r]
  BY DEF Go
<1> HIDE DEF r
<1>3. QED
  BY <1>1, <1>2 DEF Modest

LEMMA Replying ==
  ASSUME NEW t \in Threads, req[t].step # "bin", Reply(t), UNCHANGED <<lock, bodyVars>>
  PROVE  Modest(t)
BY IdleIsSound DEF Reply, Modest

LEMMA RequestStep ==
  ASSUME TripsInv, NEW t \in Threads,
         \/ \E op \in AsyncOps \cup SyncOps, n \in Names : Arrive(t, op, n)
         \/ \E x \in Trips : CreateStaging(t, x)
         \/ ReviewPage(t) \/ Submit(t) \/ ConfirmMove(t) \/ ConfirmAlias(t) \/ TrashCheck(t)
         \/ \E b \in Bases \cup {None} : ConfirmChoose(t, b)
         \/ \E x \in Trips : SaveFiles(t, x) \/ \E d \in BOOLEAN : SaveTripYaml(t, x, d)
  PROVE  Modest(t)
<1>0. req \in [Threads -> Requests] /\ ReqOK /\ folder \in [Names -> Trips \cup {None}] /\ NamesDistinct
  BY RequestTypes DEF TripsInv, TripsTypeOK
<1>1. {"idle", "checked", "submit", "rename", "move", "alias", "lock"} \subseteq ReqSteps \ {"bin"}
  BY DEF ReqSteps
<1>2. ASSUME NEW op \in AsyncOps \cup SyncOps, NEW n \in Names, Arrive(t, op, n) PROVE Modest(t)
  <2> DEFINE r == [step |-> IF op \in {"read", "finalize"} THEN "submit" ELSE "checked", op |-> op, name |-> n, to |-> None]
  <2>1. req[t] = Idle /\ req' = [req EXCEPT ![t] = r] /\ UNCHANGED <<lock, bodyVars>>
    BY <1>2 DEF Arrive
  <2>2. r \in Requests /\ Sound(r) /\ r.step # "bin"
    BY <1>1 DEF Requests, Sound
  <2> HIDE DEF r
  <2>3. QED
    BY <2>1, <2>2, IdleIsSound DEF Modest
<1>3. ASSUME NEW x \in Trips, CreateStaging(t, x) PROVE Modest(t)
  <2> DEFINE r == [step |-> "submit", op |-> "new", name |-> Staging(x), to |-> None]
  <2>1. req[t] = Idle /\ req' = [req EXCEPT ![t] = r] /\ UNCHANGED <<lock, bodyVars>>
    BY <1>3 DEF CreateStaging
  <2>2. r \in Requests /\ Sound(r) /\ r.step # "bin"
    BY <1>1, NamesOf DEF Requests, Sound, AsyncOps
  <2> HIDE DEF r
  <2>3. QED
    BY <2>1, <2>2, IdleIsSound DEF Modest
<1>4. CASE ReviewPage(t) \/ TrashCheck(t)
  <2>1. req[t].step = "checked" /\ UNCHANGED <<lock, bodyVars>> /\ (Reply(t) \/ Go(t, "submit") \/ Go(t, "lock"))
    BY <1>4 DEF ReviewPage, TrashCheck, At
  <2>2. QED
    BY <1>0, <1>1, <2>1, Going, Replying
<1>5. CASE Submit(t) \/ ConfirmAlias(t)
  <2>1. req[t].step \in {"submit", "alias"} /\ UNCHANGED <<lock, bodyVars>> /\ Reply(t)
    BY <1>5 DEF Submit, ConfirmAlias, At
  <2>2. QED
    BY <2>1, Replying
<1>6. CASE ConfirmMove(t)
  <2>1. req[t].step = "move" /\ UNCHANGED <<lock, bodyVars>> /\ (Reply(t) \/ Go(t, "alias"))
    BY <1>6 DEF ConfirmMove, At
  <2>2. req[t].to \in Names
    BY <1>0, <2>1 DEF ReqOK, Sound
  <2>3. QED
    BY <1>0, <1>1, <2>1, <2>2, Going, Replying
<1>7. ASSUME NEW b \in Bases \cup {None}, ConfirmChoose(t, b) PROVE Modest(t)
  <2> DEFINE nn == NewName(req[t].name, b)
             r == [req[t] EXCEPT !.step = "move", !.to = nn]
  <2>1. req[t].step = "rename" /\ UNCHANGED <<lock, bodyVars>>
        /\ req' = [req EXCEPT ![t] = IF nn = None THEN Idle ELSE r]
    BY <1>7 DEF ConfirmChoose, At
  <2>2. nn \in Names \cup {None}
    BY <1>0, NewNameType
  <2>3. CASE nn = None
    <3>1. Reply(t)
      BY <2>1, <2>3 DEF Reply
    <3>2. QED
      BY <2>1, <3>1, Replying
  <2>4. CASE nn # None
    <3>1. req[t] \in Requests /\ Sound(req[t])
      BY <1>0 DEF ReqOK
    <3> HIDE DEF nn
    <3>2. r \in Requests /\ Sound(r) /\ r.step # "bin"
      BY <1>1, <2>1, <2>2, <2>4, <3>1 DEF Requests, Sound
    <3> HIDE DEF r
    <3>3. QED
      BY <2>1, <2>4, <3>2 DEF Modest
  <2>5. QED
    BY <2>3, <2>4
<1>8. ASSUME NEW x \in Trips, SaveFiles(t, x) PROVE Modest(t)
  <2>1. req[t].step = "checked" /\ UNCHANGED <<lock, bodyVars>> /\ (Go(t, "submit") \/ Reply(t))
    BY <1>8 DEF SaveFiles, At
  <2>2. QED
    BY <1>0, <1>1, <2>1, Going, Replying
<1>9. ASSUME NEW x \in Trips, NEW d \in BOOLEAN, SaveTripYaml(t, x, d) PROVE Modest(t)
  <2>1. req[t].step = "checked" /\ UNCHANGED <<lock, bodyVars>> /\ (Go(t, "rename") \/ Go(t, "submit") \/ Reply(t))
    BY <1>9 DEF SaveTripYaml, At
  <2>2. QED
    BY <1>0, <1>1, <2>1, Going, Replying
<1>10. QED
  BY <1>2, <1>3, <1>4, <1>5, <1>6, <1>7, <1>8, <1>9

-----------------------------------------------------------------------------
(* The trips use the manager as its own specification says.                *)
LEMMA WorkerFacts ==
  ASSUME TripsInv, step # "idle" \/ worker # None
  PROVE  /\ worker \in Jobs /\ state[worker] = "running" /\ step # "idle"
         /\ key[worker] \in Names /\ kind[worker] \in Kinds /\ table[key[worker]] # None
         /\ target \in Names
<1>1. worker # None /\ worker \in Jobs /\ step # "idle"
  BY DEF TripsInv, BodyOK, IInv, TypeOK
<1>2. state[worker] = "running"
  BY <1>1 DEF TripsInv, IInv, RunningIsWorkers
<1>3. QED
  BY <1>1, <1>2 DEF TripsInv, Addressed, BodyOK

LEMMA HeadFacts ==
  ASSUME TripsInv, pool # <<>>
  PROVE  /\ Head(pool) \in Jobs /\ state[Head(pool)] = "queued" /\ key[Head(pool)] \in Names
         /\ kind[Head(pool)] \in Kinds
<1>1. pool \in Seq(Jobs)
  BY DEF TripsInv, IInv, TypeOK
<1>2. Head(pool) \in Jobs /\ Head(pool) \in Waiting
  BY <1>1, TailElements DEF Waiting
<1>3. state[Head(pool)] = "queued"
  BY <1>2 DEF TripsInv, IInv, QueuedOnce
<1>4. QED
  BY <1>2, <1>3 DEF TripsInv, Addressed

LEMMA SubmitStep ==
  ASSUME TripsInv, NEW t \in Threads, Submit(t)
  PROVE  UNCHANGED vars \/ \E k \in Keys, kd \in Kinds, j \in Jobs : SubmitNew(t, k, kd, j)
<1>1. req[t].name \in Keys
  BY NamesOf DEF TripsInv, ReqOK, Sound, Submit
<1>2. KindOf(req[t].op) \in Kinds
  BY KindsOfJobs DEF KindOf
<1>3. NextJob \subseteq Jobs
  BY DEF NextJob
<1>4. CASE SubmitExisting(t, req[t].name)
  BY <1>4 DEF SubmitExisting
<1>5. CASE \E j \in NextJob : SubmitNew(t, req[t].name, KindOf(req[t].op), j)
  BY <1>1, <1>2, <1>3, <1>5
<1>6. QED
  BY <1>4, <1>5 DEF Submit

LEMMA BodyManagerStep ==
  ASSUME TripsInv, BodyNext
  PROVE  \/ UNCHANGED vars \/ WorkerNext
         \/ \E k, nk \in Keys : Alias(k, nk)
<1>1. CASE BodyLock \/ BodyList \/ WriteWork \/ WriteDocument
  BY <1>1 DEF BodyLock, BodyList, WriteWork, WriteDocument
<1>2. CASE (\E b \in Bases \cup {None} : BodyChoose(b)) \/ BodyMove
  BY <1>2 DEF BodyChoose, BodyMove
<1>3. CASE BodyAlias
  <2>1. Alias(key[worker], target) /\ step # "idle"
    BY <1>3 DEF BodyAlias
  <2>2. key[worker] \in Keys /\ target \in Keys
    BY <2>1, WorkerFacts, NamesOf
  <2>3. QED
    BY <2>1, <2>2
<1>4. CASE BodyReturn
  <2>1. Return(Value) /\ step # "idle"
    BY <1>4 DEF BodyReturn
  <2>2. Value \in Results
    BY <2>1, WorkerFacts, NamesOf DEF Value
  <2>3. QED
    BY <2>1, <2>2 DEF WorkerNext
<1>5. CASE BodyStart \/ BodyDone \/ BodyFail
  BY <1>5 DEF BodyStart, BodyDone, BodyFail, WorkerNext
<1>6. QED
  BY <1>1, <1>2, <1>3, <1>4, <1>5 DEF BodyNext

LEMMA ManagerStep ==
  ASSUME TripsInv, [TripsNext]_allVars
  PROVE  [Next]_vars
<1>1. ASSUME NEW t \in Threads, NEW op \in AsyncOps \cup SyncOps, NEW n \in Names, Arrive(t, op, n)
      PROVE  UNCHANGED vars
  BY <1>1 DEF Arrive
<1>2. ASSUME NEW t \in Threads, NEW x \in Trips, CreateStaging(t, x) PROVE UNCHANGED vars
  BY <1>2 DEF CreateStaging
<1>3. ASSUME NEW t \in Threads, RequestNext(t) PROVE [Next]_vars
  <2>1. CASE ReviewPage(t) \/ ConfirmMove(t) \/ TrashCheck(t) \/ TrashLock(t) \/ TrashMove(t)
    BY <2>1 DEF ReviewPage, ConfirmMove, TrashCheck, TrashLock, TrashMove
  <2>2. CASE Submit(t)
    BY <2>2, SubmitStep DEF Next
  <2>3. CASE PoolSubmit(t)
    BY <2>3 DEF PoolSubmit, Next
  <2>4. CASE ConfirmAlias(t)
    <3>1. Alias(req[t].name, req[t].to) /\ req[t].step = "alias"
      BY <2>4 DEF ConfirmAlias, At
    <3>2. req[t].name \in Keys /\ req[t].to \in Keys
      BY <3>1, NamesOf DEF TripsInv, ReqOK, Sound
    <3>3. QED
      BY <3>1, <3>2 DEF Next
  <2>5. CASE \E b \in Bases \cup {None} : ConfirmChoose(t, b)
    BY <2>5 DEF ConfirmChoose
  <2>6. CASE \E x \in Trips : SaveFiles(t, x) \/ \E d \in BOOLEAN : SaveTripYaml(t, x, d)
    BY <2>6 DEF SaveFiles, SaveTripYaml
  <2>7. QED
    BY <1>3, <2>1, <2>2, <2>3, <2>4, <2>5, <2>6 DEF RequestNext
<1>4. ASSUME BodyNext PROVE [Next]_vars
  BY <1>4, BodyManagerStep DEF Next
<1>5. CASE UNCHANGED allVars
  BY <1>5 DEF allVars
<1>6. QED
  BY <1>1, <1>2, <1>3, <1>4, <1>5 DEF TripsNext

-----------------------------------------------------------------------------
(* The lock.                                                               *)
LEMMA LockNext ==
  ASSUME TripsInv, [TripsNext]_allVars
  PROVE  lock' \in Threads \cup {"job", None} /\ LockOwned'
<1> USE HoldersDiffer
<1>0. /\ lock \in Threads \cup {"job", None} /\ LockOwned /\ req \in [Threads -> Requests]
  BY RequestTypes DEF TripsInv, TripsTypeOK
<1>1. ASSUME NEW t \in Threads, Modest(t) PROVE lock' \in Threads \cup {"job", None} /\ LockOwned'
  <2>1. PICK r \in Requests : r.step # "bin" /\ req' = [req EXCEPT ![t] = r]
    BY <1>1 DEF Modest
  <2>2. \A u \in Threads : req'[u].step = "bin" <=> req[u].step = "bin"
    BY <1>0, <1>1, <2>1 DEF Modest
  <2>3. QED
    BY <1>0, <1>1, <2>2 DEF Modest, bodyVars, LockOwned
<1>2. ASSUME UNCHANGED tripVars PROVE lock' \in Threads \cup {"job", None} /\ LockOwned'
  BY <1>0, <1>2 DEF tripVars, bodyVars, LockOwned
<1>3. ASSUME NEW t \in Threads, TrashLock(t) PROVE lock' \in Threads \cup {"job", None} /\ LockOwned'
  <2>1. CASE lock = None /\ lock' = t /\ Go(t, "bin")
    <3>1. \A u \in Threads : req'[u].step = IF u = t THEN "bin" ELSE req[u].step
      BY <1>0, <2>1 DEF Go, Requests
    <3>2. step' = step
      BY <1>3 DEF TrashLock, bodyVars
    <3>3. QED
      BY <1>0, <2>1, <3>1, <3>2 DEF LockOwned
  <2>2. CASE UNCHANGED lock /\ Reply(t)
    <3>1. req[t].step = "lock" /\ step' = step
      BY <1>3 DEF TrashLock, At, bodyVars
    <3>2. \A u \in Threads : req'[u].step = IF u = t THEN "idle" ELSE req[u].step
      BY <1>0, <2>2, IdleIsSound DEF Reply
    <3>3. QED
      BY <1>0, <2>2, <3>1, <3>2 DEF LockOwned
  <2>3. QED
    BY <1>3, <2>1, <2>2 DEF TrashLock
<1>4. ASSUME NEW t \in Threads, TrashMove(t) PROVE lock' \in Threads \cup {"job", None} /\ LockOwned'
  <2>1. req[t].step = "bin" /\ lock' = None /\ step' = step /\ Reply(t)
    BY <1>4 DEF TrashMove, At, bodyVars
  <2>2. \A u \in Threads : req'[u].step = IF u = t THEN "idle" ELSE req[u].step
    BY <1>0, <2>1, IdleIsSound DEF Reply
  <2>3. lock = t /\ t # "job" /\ t # None
    BY <1>0, <2>1 DEF LockOwned
  <2>4. QED
    BY <1>0, <2>1, <2>2, <2>3 DEF LockOwned
<1>5. ASSUME BodyNext PROVE lock' \in Threads \cup {"job", None} /\ LockOwned'
  <2>1. req' = req
    BY <1>5 DEF BodyNext, BodyStart, BodyLock, BodyList, WriteWork, WriteDocument, BodyChoose, BodyMove,
       BodyAlias, BodyReturn, BodyDone, BodyFail
  <2>2. CASE BodyLock
    BY <1>0, <2>1, <2>2 DEF BodyLock, LockOwned
  <2>3. CASE BodyList
    BY <1>0, <2>1, <2>3 DEF BodyList, LockOwned
  <2>4. CASE WriteWork \/ WriteDocument
    BY <1>0, <2>1, <2>4 DEF WriteWork, WriteDocument, LockOwned
  <2>5. CASE BodyFail
    BY <1>0, <2>1, <2>5 DEF BodyFail, LockOwned
  <2>6. CASE BodyStart
    <3>1. worker = None
      BY <2>6 DEF BodyStart, Start
    <3>2. step = "idle"
      BY <3>1 DEF TripsInv, BodyOK
    <3>3. lock' = lock /\ step' \in {"law", "lock"}
      BY <2>6 DEF BodyStart
    <3>4. QED
      BY <1>0, <2>1, <3>2, <3>3 DEF LockOwned
  <2>7. CASE (\E b \in Bases \cup {None} : BodyChoose(b)) \/ BodyMove \/ BodyAlias \/ BodyReturn
    <3>1. lock' = lock /\ step \notin {"list", "write"} /\ step' \notin {"list", "write"}
      BY <2>7 DEF BodyChoose, BodyMove, BodyAlias, BodyReturn
    <3>2. QED
      BY <1>0, <2>1, <3>1 DEF LockOwned
  <2>8. CASE BodyDone
    <3>1. lock' = lock /\ step' = "idle" /\ worker # None /\ result[worker] # None
      BY <2>8 DEF BodyDone, MarkDone
    <3>2. step \notin {"list", "write"}
      BY <3>1 DEF TripsInv, BodyOK
    <3>3. QED
      BY <1>0, <2>1, <3>1, <3>2 DEF LockOwned
  <2>9. QED
    BY <1>5, <2>2, <2>3, <2>4, <2>5, <2>6, <2>7, <2>8 DEF BodyNext
<1>6. QED
  BY <1>1, <1>2, <1>3, <1>4, <1>5, RequestStep DEF TripsNext, RequestNext, PoolSubmit, allVars

-----------------------------------------------------------------------------
(* Folders and files.                                                      *)
Folders == folder \in [Names -> Trips \cup {None}]
DataSets == receipts \subseteq Trips /\ unread \subseteq Trips /\ confirmed \subseteq Trips
            /\ created \subseteq Trips /\ trashed \subseteq Trips
OutTypes == out \subseteq Names /\ extracted \subseteq out /\ latest \subseteq out
            /\ renames \in [Names -> Names \cup {None}]

LEMMA TypeParts ==
  TripsTypeOK <=>
    /\ TypeOK /\ Folders /\ DataSets /\ OutTypes
    /\ lock \in Threads \cup {"job", None}
    /\ step \in BodySteps /\ target \in Names \cup {None}
    /\ req \in [Threads -> Requests]
BY DEF TripsTypeOK, Folders, DataSets, OutTypes, Requests

(* A folder is emptied, or gets a trip that has no other.                  *)
LEMMA OneFolder ==
  ASSUME Folders, NamesDistinct, NEW n \in Names, NEW x \in Trips \cup {None},
         x \in {None, folder[n]} \/ \A m \in Names : folder[m] # x,
         folder' = [folder EXCEPT ![n] = x]
  PROVE  Folders' /\ NamesDistinct'
<1>1. Folders' /\ \A m \in Names : folder'[m] = IF m = n THEN x ELSE folder[m]
  BY DEF Folders
<1>2. QED
  BY <1>1 DEF NamesDistinct

LEMMA WrittenFolder ==
  ASSUME Folders, NamesDistinct, NEW n \in Names, NEW x \in Trips, Written(n, x)
  PROVE  Folders' /\ NamesDistinct'
BY OneFolder DEF Written, Fresh

LEMMA MoveTypes ==
  ASSUME Folders, NamesDistinct, OutTypes, NEW n \in Names, NEW nn \in Names, CanMove(n, nn), Move(n, nn)
  PROVE  Folders' /\ NamesDistinct' /\ OutTypes'
<1>1. /\ Folders'
      /\ \A m \in Names : folder'[m] = IF m = nn THEN folder[n] ELSE IF m = n THEN None ELSE folder[m]
  BY DEF Move, Folders
<1>2. NamesDistinct'
  BY <1>1 DEF NamesDistinct, CanMove
<1>3. OutTypes'
  BY DEF OutTypes, Move, Moved
<1>4. QED
  BY <1>1, <1>2, <1>3

LEMMA DataNext ==
  ASSUME TripsInv, [TripsNext]_allVars
  PROVE  Folders' /\ NamesDistinct' /\ DataSets' /\ OutTypes'
<1> DEFINE Kept == Folders' /\ NamesDistinct' /\ DataSets' /\ OutTypes'
<1>0. Folders /\ NamesDistinct /\ DataSets /\ OutTypes
  BY TypeParts DEF TripsInv
<1>1. ASSUME UNCHANGED <<dataVars, outVars>> PROVE Kept
  BY <1>0, <1>1 DEF dataVars, outVars, Folders, NamesDistinct, DataSets, OutTypes
<1>2. ASSUME NEW t \in Threads, NEW op \in AsyncOps \cup SyncOps, NEW n \in Names, Arrive(t, op, n) PROVE Kept
  BY <1>1, <1>2 DEF Arrive
<1>3. ASSUME NEW t \in Threads, NEW x \in Trips, CreateStaging(t, x) PROVE Kept
  <2>1. Folders' /\ NamesDistinct'
    BY <1>0, <1>3, OneFolder, NamesOf DEF CreateStaging, Fresh
  <2>2. DataSets' /\ OutTypes'
    BY <1>0, <1>3 DEF CreateStaging, DataSets, OutTypes, outVars
  <2>3. QED
    BY <2>1, <2>2
<1>4. ASSUME NEW t \in Threads, ReviewPage(t) \/ Submit(t) \/ PoolSubmit(t) \/ ConfirmAlias(t) \/ TrashCheck(t) \/ TrashLock(t)
      PROVE  Kept
  BY <1>1, <1>4 DEF ReviewPage, Submit, PoolSubmit, ConfirmAlias, TrashCheck, TrashLock, tripVars
<1>5. ASSUME NEW t \in Threads, NEW b \in Bases \cup {None}, ConfirmChoose(t, b) PROVE Kept
  BY <1>1, <1>5 DEF ConfirmChoose
<1>6. ASSUME NEW t \in Threads, ConfirmMove(t) PROVE Kept
  <2>1. req[t].name \in Names /\ req[t].to \in Names
    BY <1>6 DEF TripsInv, ReqOK, Sound, ConfirmMove, At
  <2>2. DataSets'
    BY <1>0, <1>6 DEF ConfirmMove, DataSets
  <2>3. CASE CanMove(req[t].name, req[t].to) /\ Move(req[t].name, req[t].to)
    BY <1>0, <2>1, <2>2, <2>3, MoveTypes
  <2>4. CASE UNCHANGED <<folder, outVars>>
    BY <1>0, <2>2, <2>4 DEF outVars, Folders, NamesDistinct, OutTypes
  <2>5. QED
    BY <1>6, <2>3, <2>4 DEF ConfirmMove
<1>7. ASSUME NEW t \in Threads, TrashMove(t) PROVE Kept
  <2> DEFINE n == req[t].name
  <2>1. n \in Names
    BY <1>7 DEF TripsInv, ReqOK, Sound, TrashMove, At
  <2>2. CASE folder[n] = None
    BY <1>0, <1>7, <2>2 DEF TrashMove, Folders, NamesDistinct, DataSets, OutTypes
  <2>3. CASE folder[n] # None
    <3>1. folder' = [folder EXCEPT ![n] = None]
      BY <1>7, <2>3 DEF TrashMove
    <3>2. Folders' /\ NamesDistinct'
      BY <1>0, <2>1, <3>1, OneFolder
    <3>3. folder[n] \in Trips
      BY <1>0, <2>1, <2>3 DEF Folders
    <3>4. DataSets' /\ OutTypes'
      BY <1>0, <1>7, <2>3, <3>3 DEF TrashMove, DataSets, OutTypes
    <3>5. QED
      BY <3>2, <3>4
  <2>4. QED
    BY <2>2, <2>3
<1>8. ASSUME NEW t \in Threads, NEW x \in Trips, SaveFiles(t, x) PROVE Kept
  <2>1. req[t].name \in Names
    BY <1>8 DEF TripsInv, ReqOK, Sound, SaveFiles, At
  <2>2. Folders' /\ NamesDistinct'
    <3>1. CASE Written(req[t].name, x)
      BY <1>0, <2>1, <3>1, WrittenFolder
    <3>2. CASE UNCHANGED folder
      BY <1>0, <3>2 DEF Folders, NamesDistinct
    <3>3. QED
      BY <1>8, <3>1, <3>2 DEF SaveFiles
  <2>3. DataSets' /\ OutTypes'
    BY <1>0, <1>8 DEF SaveFiles, DataSets, OutTypes, outVars
  <2>4. QED
    BY <2>2, <2>3
<1>9. ASSUME NEW t \in Threads, NEW x \in Trips, NEW d \in BOOLEAN, SaveTripYaml(t, x, d) PROVE Kept
  <2>1. req[t].name \in Names
    BY <1>9 DEF TripsInv, ReqOK, Sound, SaveTripYaml, At
  <2>2. Folders' /\ NamesDistinct'
    BY <1>0, <1>9, <2>1, WrittenFolder DEF SaveTripYaml
  <2>3. confirmed' \subseteq confirmed \cup {x}
    BY <1>9 DEF SaveTripYaml
  <2>4. DataSets' /\ OutTypes'
    BY <1>0, <1>9, <2>3 DEF SaveTripYaml, DataSets, OutTypes, outVars
  <2>5. QED
    BY <2>2, <2>4
<1>10. ASSUME BodyStart \/ BodyLock \/ BodyAlias \/ BodyReturn \/ BodyDone \/ BodyFail PROVE Kept
  BY <1>1, <1>10 DEF BodyStart, BodyLock, BodyAlias, BodyReturn, BodyDone, BodyFail
<1>11. ASSUME NEW b \in Bases \cup {None}, BodyChoose(b) PROVE Kept
  BY <1>1, <1>11 DEF BodyChoose
<1>12. ASSUME BodyList \/ WriteWork \/ WriteDocument PROVE Kept
  <2>1. key[worker] \in Names
    BY <1>12, WorkerFacts DEF BodyList, WriteWork, WriteDocument
  <2>2. UNCHANGED <<folder, renames, receipts, confirmed, created, trashed>> /\ unread' \subseteq unread
    BY <1>12 DEF BodyList, WriteWork, WriteDocument, dataVars
  <2>3. OutTypes'
    BY <1>0, <1>12, <2>1 DEF BodyList, WriteWork, WriteDocument, OutTypes
  <2>4. QED
    BY <1>0, <2>2, <2>3 DEF Folders, NamesDistinct, DataSets
<1>13. ASSUME BodyMove PROVE Kept
  <2>1. key[worker] \in Names /\ target \in Names
    BY <1>13, WorkerFacts DEF BodyMove
  <2>2. Folders' /\ NamesDistinct' /\ OutTypes'
    BY <1>0, <1>13, <2>1, MoveTypes DEF BodyMove
  <2>3. QED
    BY <1>0, <1>13, <2>2 DEF BodyMove, DataSets
<1>14. ASSUME UNCHANGED allVars PROVE Kept
  BY <1>1, <1>14 DEF allVars, tripVars
<1> HIDE DEF Kept
<1>15. ASSUME NEW t \in Threads, RequestNext(t) PROVE Kept
  BY <1>4, <1>5, <1>6, <1>7, <1>8, <1>9, <1>15 DEF RequestNext
<1>16. ASSUME BodyNext PROVE Kept
  BY <1>10, <1>11, <1>12, <1>13, <1>16 DEF BodyNext
<1>17. Kept
  BY <1>2, <1>3, <1>14, <1>15, <1>16 DEF TripsNext
<1>18. QED
  BY <1>17 DEF Kept

-----------------------------------------------------------------------------
(* The bodies of the jobs.  What exists stays known.                       *)
LEMMA JobsStay ==
  ASSUME IInv, [Next]_vars
  PROVE  /\ \A k \in Keys : table[k] # None => table'[k] # None
         /\ \A j \in Jobs : state[j] # "new" => state'[j] # "new" /\ key'[j] = key[j] /\ kind'[j] = kind[j]
         /\ \A j \in Jobs : state[j] = "new" /\ state'[j] # "new" =>
              \E k \in Keys, kd \in Kinds : key'[j] = k /\ kind'[j] = kd /\ table'[k] = j
<1> DEFINE Stay == /\ \A k \in Keys : table[k] # None => table'[k] # None
                   /\ \A j \in Jobs : state[j] # "new" => state'[j] # "new" /\ key'[j] = key[j] /\ kind'[j] = kind[j]
                   /\ \A j \in Jobs : state[j] = "new" /\ state'[j] # "new" =>
                        \E k \in Keys, kd \in Kinds : key'[j] = k /\ kind'[j] = kd /\ table'[k] = j
<1>0. TypeOK /\ None \notin Jobs
  BY NoneAssumption DEF IInv
<1>1. ASSUME NEW t \in Threads, NEW k \in Keys, NEW kd \in Kinds, NEW j \in Jobs, SubmitNew(t, k, kd, j)
      PROVE  Stay
  <2>1. /\ \A h \in Keys : table'[h] = IF h = k THEN j ELSE table[h]
        /\ \A i \in Jobs : /\ state'[i] = IF i = j THEN "queued" ELSE state[i]
                           /\ key'[i] = IF i = j THEN k ELSE key[i]
                           /\ kind'[i] = IF i = j THEN kd ELSE kind[i]
        /\ state[j] = "new"
    BY <1>0, <1>1 DEF SubmitNew, TypeOK
  <2>2. QED
    BY <1>0, <2>1
<1>2. ASSUME UNCHANGED <<table, state, key, kind>> PROVE Stay
  BY <1>2
<1>3. ASSUME NEW k \in Keys, NEW nk \in Keys, Alias(k, nk) PROVE Stay
  <2>1. \A h \in Keys : table'[h] = table[h] \/ (table'[h] = table[k] /\ table[k] # None)
    BY <1>0, <1>3 DEF Alias, TypeOK
  <2>2. UNCHANGED <<state, key, kind>>
    BY <1>3 DEF Alias, jobVars
  <2>3. QED
    BY <2>1, <2>2
<1>4. ASSUME Start \/ MarkDone \/ Fail PROVE Stay
  <2>1. UNCHANGED <<table, key, kind>> /\ \E i \in Jobs : /\ state[i] # "new"
          /\ \E s \in {"running", "done", "error"} : state' = [state EXCEPT ![i] = s]
    <3>1. CASE Start
      <4>1. Head(pool) \in Jobs /\ Head(pool) \in Waiting
        BY <1>0, <3>1, TailElements DEF Start, TypeOK, Waiting
      <4>2. state[Head(pool)] = "queued"
        BY <4>1 DEF IInv, QueuedOnce
      <4>3. QED
        BY <3>1, <4>1, <4>2 DEF Start
    <3>2. CASE MarkDone \/ Fail
      <4>1. worker \in Jobs /\ state[worker] = "running"
        BY <1>0, <3>2 DEF MarkDone, Fail, TypeOK, IInv, RunningIsWorkers
      <4>2. QED
        BY <3>2, <4>1 DEF MarkDone, Fail
    <3>3. QED
      BY <1>4, <3>1, <3>2
  <2>2. \A j \in Jobs : (state[j] = "new" <=> state'[j] = "new")
    BY <1>0, <2>1 DEF TypeOK
  <2>3. QED
    BY <2>1, <2>2
<1>5. ASSUME NEW r \in Results, Return(r) PROVE Stay
  BY <1>2, <1>5 DEF Return
<1>6. ASSUME NEW t \in Threads, HandOver(t) PROVE Stay
  BY <1>2, <1>6 DEF HandOver, jobVars
<1>7. ASSUME Shutdown \/ UNCHANGED vars PROVE Stay
  BY <1>2, <1>7 DEF Shutdown, vars, jobVars
<1> HIDE DEF Stay
<1>8. ASSUME NEW t \in Threads, NEW k \in Keys, SubmitExisting(t, k) PROVE Stay
  BY <1>7, <1>8 DEF SubmitExisting
<1>9. ASSUME WorkerNext PROVE Stay
  BY <1>4, <1>5, <1>9 DEF WorkerNext
<1>10. Stay
  BY <1>1, <1>3, <1>6, <1>7, <1>8, <1>9 DEF Next
<1>11. QED
  BY <1>10 DEF Stay

(* A request leaves the body of the running job alone.                     *)
LEMMA RequestsLeaveBody ==
  ASSUME TripsInv, NEW t \in Threads,
         \/ \E op \in AsyncOps \cup SyncOps, n \in Names : Arrive(t, op, n)
         \/ \E x \in Trips : CreateStaging(t, x)
         \/ RequestNext(t)
  PROVE  UNCHANGED <<bodyVars, worker, result>>
<1>1. UNCHANGED bodyVars
  <2>1. CASE TrashLock(t) \/ TrashMove(t) \/ PoolSubmit(t)
    BY <2>1 DEF TrashLock, TrashMove, PoolSubmit, tripVars
  <2>2. QED
    BY <2>1, RequestStep DEF RequestNext, Modest
<1>2. UNCHANGED <<worker, result>>
  <2>1. ASSUME UNCHANGED vars PROVE UNCHANGED <<worker, result>>
    BY <2>1 DEF vars, jobVars, poolVars
  <2>2. CASE Submit(t)
    BY <2>1, <2>2 DEF Submit, SubmitExisting, SubmitNew, poolVars
  <2>3. CASE PoolSubmit(t)
    BY <2>3 DEF PoolSubmit, HandOver, jobVars
  <2>4. CASE ConfirmAlias(t)
    BY <2>4 DEF ConfirmAlias, Alias, jobVars, poolVars
  <2>5. CASE \/ \E op \in AsyncOps \cup SyncOps, n \in Names : Arrive(t, op, n)
             \/ \E x \in Trips : CreateStaging(t, x)
    BY <2>1, <2>5 DEF Arrive, CreateStaging
  <2>6. CASE ReviewPage(t) \/ ConfirmMove(t) \/ TrashCheck(t) \/ TrashLock(t) \/ TrashMove(t)
    BY <2>1, <2>6 DEF ReviewPage, ConfirmMove, TrashCheck, TrashLock, TrashMove
  <2>7. CASE \/ \E b \in Bases \cup {None} : ConfirmChoose(t, b)
             \/ \E x \in Trips : SaveFiles(t, x) \/ \E d \in BOOLEAN : SaveTripYaml(t, x, d)
    BY <2>1, <2>7 DEF ConfirmChoose, SaveFiles, SaveTripYaml
  <2>8. QED
    BY <2>2, <2>3, <2>4, <2>5, <2>6, <2>7 DEF RequestNext
<1>3. QED
  BY <1>1, <1>2

LEMMA BodyOKNext ==
  ASSUME TripsInv, IInv', [TripsNext]_allVars
  PROVE  step' \in BodySteps /\ target' \in Names \cup {None} /\ BodyOK'
<1> DEFINE Good == step' \in BodySteps /\ target' \in Names \cup {None} /\ BodyOK'
<1>0. /\ step \in BodySteps /\ target \in Names \cup {None} /\ BodyOK /\ IInv /\ TypeOK
      /\ None \notin Names /\ None \notin Jobs /\ Keys = Names
  BY TypeParts, NamesOf DEF TripsInv, IInv
<1>1. /\ \A k \in Names : table[k] # None => table'[k] # None
      /\ \A j \in Jobs : state[j] # "new" => kind'[j] = kind[j]
  BY <1>0, ManagerStep, JobsStay
<1>2. ASSUME UNCHANGED <<bodyVars, worker, result>> PROVE Good
  <2>1. CASE worker = None
    BY <1>0, <1>2, <2>1 DEF bodyVars, BodyOK
  <2>2. CASE worker # None
    <3>1. worker \in Jobs /\ state[worker] # "new" /\ target \in Names
      BY <2>2, WorkerFacts
    <3>2. kind'[worker] = kind[worker] /\ (table[target] # None => table'[target] # None)
      BY <1>1, <3>1
    <3>3. QED
      BY <1>0, <1>2, <2>2, <3>2 DEF bodyVars, BodyOK
  <2>3. QED
    BY <2>1, <2>2
<1>3. ASSUME BodyStart PROVE Good
  <2> DEFINE h == Head(pool)
  <2>1. h \in Jobs /\ state[h] = "queued" /\ key[h] \in Names
    BY <1>3, HeadFacts DEF BodyStart, Start
  <2>2. result[h] = None
    BY <1>0, <2>1 DEF IInv, ResultsBelong
  <2>3. worker' = h /\ target' = key[h] /\ UNCHANGED <<kind, result>>
    BY <1>3 DEF BodyStart, Start
  <2>4. step' = IF kind[h] = "law" THEN "law" ELSE "lock"
    BY <1>3 DEF BodyStart
  <2> HIDE DEF h
  <2>5. QED
    BY <1>0, <2>1, <2>2, <2>3, <2>4 DEF BodyOK, BodySteps
(* The steps between the first and the last: no result is stored yet.      *)
<1>4. ASSUME step \notin {"idle", "return"}, UNCHANGED <<worker, result, kind>>, step' \in BodySteps \ {"idle", "law"},
             target' \in Names, step' = "return" /\ kind[worker] = "extract" => table'[target'] # None
      PROVE  Good
  <2>1. worker \in Jobs /\ result[worker] = None
    BY <1>0, <1>4, WorkerFacts DEF BodyOK
  <2>2. QED
    BY <1>0, <1>4, <2>1 DEF BodyOK
<1>5. ASSUME BodyLock \/ BodyList \/ WriteWork \/ BodyMove PROVE Good
  <2>1. /\ UNCHANGED <<vars, target>> /\ step \in {"lock", "list", "write", "move"}
        /\ step' \in {"list", "write", "rename", "alias"}
    BY <1>5 DEF BodyLock, BodyList, WriteWork, BodyMove
  <2>2. target \in Names
    BY <2>1, WorkerFacts
  <2>3. QED
    BY <1>4, <2>1, <2>2 DEF vars, jobVars, poolVars, BodySteps
<1>6. ASSUME WriteDocument PROVE Good
  <2>1. UNCHANGED <<vars, target>> /\ step = "write" /\ step' = "return" /\ kind[worker] = "finalize"
    BY <1>6 DEF WriteDocument
  <2>2. target \in Names
    BY <2>1, WorkerFacts
  <2>3. QED
    BY <1>4, <2>1, <2>2 DEF vars, jobVars, poolVars, BodySteps
<1>7. ASSUME NEW b \in Bases \cup {None}, BodyChoose(b) PROVE Good
  <2> DEFINE n == key[worker]
             nn == IF folder[n] \in confirmed \cup {None} THEN None ELSE NewName(n, b)
  <2>1. /\ UNCHANGED vars /\ step = "rename"
        /\ step' = IF nn = None THEN "return" ELSE "move"
        /\ target' = IF nn = None THEN n ELSE nn
    BY <1>7 DEF BodyChoose
  <2>2. n \in Names /\ table[n] # None
    BY <2>1, WorkerFacts
  <2>3. nn \in Names \cup {None}
    BY NewNameType, TypeParts DEF TripsInv, Folders
  <2>4. table'[n] # None
    BY <1>1, <2>2
  <2> HIDE DEF n, nn
  <2>5. QED
    BY <1>4, <2>1, <2>2, <2>3, <2>4 DEF vars, jobVars, poolVars, BodySteps
<1>8. ASSUME BodyAlias PROVE Good
  <2>1. step = "alias" /\ step' = "return" /\ target' = target /\ UNCHANGED <<worker, result, kind>>
        /\ Alias(key[worker], target)
    BY <1>8 DEF BodyAlias, Alias, jobVars, poolVars
  <2>2. target \in Names /\ key[worker] \in Names /\ table[key[worker]] # None
    BY <2>1, WorkerFacts
  <2>3. table'[target] # None
    BY <1>0, <2>1, <2>2 DEF Alias, TypeOK
  <2>4. QED
    BY <1>4, <2>1, <2>2, <2>3 DEF BodySteps
<1>9. ASSUME BodyReturn PROVE Good
  <2>1. /\ step \in {"return", "law"} /\ step' = "return" /\ target' = target
        /\ UNCHANGED <<worker, kind, table>>
    BY <1>9 DEF BodyReturn, Return, poolVars
  <2>2. worker # None /\ target \in Names
    BY <2>1, WorkerFacts, <1>0
  <2>3. QED
    BY <1>0, <2>1, <2>2 DEF BodyOK, BodySteps
<1>10. ASSUME BodyDone \/ BodyFail PROVE Good
  <2>1. worker' = None /\ step' = "idle" /\ target' = None
    BY <1>10 DEF BodyDone, BodyFail, MarkDone, Fail
  <2>2. QED
    BY <1>0, <2>1 DEF BodyOK, BodySteps
<1>11. ASSUME UNCHANGED allVars PROVE Good
  BY <1>2, <1>11 DEF allVars, tripVars, vars, jobVars, poolVars
<1> HIDE DEF Good
<1>12. ASSUME BodyNext PROVE Good
  BY <1>3, <1>5, <1>6, <1>7, <1>8, <1>9, <1>10, <1>12 DEF BodyNext
<1>13. Good
  BY <1>2, <1>11, <1>12, RequestsLeaveBody DEF TripsNext
<1>14. QED
  BY <1>13 DEF Good

LEMMA AddressedNext ==
  ASSUME TripsInv, IInv', [TripsNext]_allVars
  PROVE  Addressed'
<1>0. IInv /\ Addressed /\ Keys = Names /\ None \notin Results /\ Names \subseteq Results /\ BodyOK /\ TypeOK
  BY NamesOf DEF TripsInv, IInv
<1>1. /\ \A k \in Names : table[k] # None => table'[k] # None
      /\ \A j \in Jobs : state[j] # "new" => state'[j] # "new" /\ key'[j] = key[j] /\ kind'[j] = kind[j]
      /\ \A j \in Jobs : state[j] = "new" /\ state'[j] # "new" =>
           \E k \in Names, kd \in Kinds : key'[j] = k /\ kind'[j] = kd /\ table'[k] = j
  BY <1>0, ManagerStep, JobsStay
<1>2. ASSUME NEW j \in Jobs, state'[j] # "new" PROVE key'[j] \in Names /\ kind'[j] \in Kinds /\ table'[key'[j]] # None
  <2>1. CASE state[j] # "new"
    BY <1>0, <1>1, <2>1 DEF Addressed
  <2>2. CASE state[j] = "new"
    BY <1>1, <1>2, <2>2, NamesOf
  <2>3. QED
    BY <2>1, <2>2
<1>3. ASSUME NEW j \in Jobs, kind'[j] = "extract", result'[j] # None, result'[j] = result[j]
      PROVE  result'[j] \in Names /\ table'[result'[j]] # None
  <2>1. state[j] # "new"
    BY <1>0, <1>3 DEF IInv, ResultsBelong
  <2>2. result[j] \in Names /\ table[result[j]] # None
    BY <1>0, <1>1, <1>3, <2>1 DEF Addressed
  <2>3. QED
    BY <1>1, <1>3, <2>2
<1>4. CASE UNCHANGED result
  BY <1>2, <1>3, <1>4 DEF Addressed
<1>5. CASE BodyReturn
  <2>1. /\ step \in {"return", "law"} /\ UNCHANGED <<kind, table>>
        /\ result' = [result EXCEPT ![worker] = Value]
    BY <1>5 DEF BodyReturn, Return
  <2>2. worker \in Jobs /\ target \in Names
    BY <2>1, WorkerFacts
  <2>3. kind[worker] = "extract" => Value = target /\ table[target] # None
    BY <1>0, <2>1 DEF Value, BodyOK
  <2>4. ASSUME NEW j \in Jobs, kind'[j] = "extract", result'[j] # None
        PROVE  result'[j] \in Names /\ table'[result'[j]] # None
    <3>1. CASE j = worker
      <4>1. result'[j] = Value
        BY <1>0, <2>1, <2>2, <3>1 DEF TypeOK
      <4>2. QED
        BY <2>1, <2>2, <2>3, <2>4, <3>1, <4>1
    <3>2. CASE j # worker
      <4>1. result'[j] = result[j]
        BY <1>0, <2>1, <3>2 DEF TypeOK
      <4>2. QED
        BY <1>3, <2>4, <4>1
    <3>3. QED
      BY <3>1, <3>2
  <2>5. QED
    BY <1>2, <2>4 DEF Addressed
<1>6. CASE BodyStart \/ BodyDone \/ BodyFail \/ BodyAlias
  <2>1. UNCHANGED result
    BY <1>6 DEF BodyStart, BodyDone, BodyFail, BodyAlias, Start, MarkDone, Fail, Alias, jobVars
  <2>2. QED
    BY <1>4, <2>1
<1>7. CASE BodyLock \/ BodyList \/ WriteWork \/ WriteDocument \/ BodyMove \/ \E b \in Bases \cup {None} : BodyChoose(b)
  <2>1. UNCHANGED result
    BY <1>7 DEF BodyLock, BodyList, WriteWork, WriteDocument, BodyMove, BodyChoose, vars, jobVars
  <2>2. QED
    BY <1>4, <2>1
<1>8. CASE UNCHANGED allVars
  BY <1>4, <1>8 DEF allVars, vars, jobVars
<1>9. QED
  BY <1>4, <1>5, <1>6, <1>7, <1>8, RequestsLeaveBody DEF TripsNext, BodyNext

LEMMA RequestsNext ==
  ASSUME TripsInv, [TripsNext]_allVars
  PROVE  req' \in [Threads -> Requests] /\ ReqOK'
<1> DEFINE Good == req' \in [Threads -> Requests] /\ ReqOK'
<1>0. req \in [Threads -> Requests] /\ ReqOK
  BY TypeParts DEF TripsInv
<1>1. ASSUME req' = req PROVE Good
  BY <1>0, <1>1 DEF ReqOK
<1>2. ASSUME NEW t \in Threads, Modest(t) PROVE Good
  BY <1>0, <1>2, SetRequest DEF Modest
<1>3. ASSUME NEW t \in Threads, Reply(t) PROVE Good
  BY <1>0, <1>3, SetRequest, IdleIsSound DEF Reply
<1>4. ASSUME NEW t \in Threads, req[t].step = "lock", Go(t, "bin") PROVE Good
  <2> DEFINE r == [req[t] EXCEPT !.step = "bin"]
  <2>1. r \in Requests /\ Sound(r)
    BY <1>0, <1>4 DEF ReqOK, Requests, Sound, ReqSteps
  <2>2. req' = [req EXCEPT ![t] = r]
    BY <1>4 DEF Go
  <2> HIDE DEF r
  <2>3. QED
    BY <1>0, <2>1, <2>2, SetRequest
<1>5. ASSUME NEW t \in Threads, TrashLock(t) PROVE Good
  BY <1>3, <1>4, <1>5 DEF TrashLock, At
<1>6. ASSUME NEW t \in Threads, TrashMove(t) PROVE Good
  BY <1>3, <1>6 DEF TrashMove
<1>7. ASSUME NEW t \in Threads, PoolSubmit(t) PROVE Good
  BY <1>1, <1>7 DEF PoolSubmit, tripVars
<1>8. ASSUME BodyNext PROVE Good
  BY <1>1, <1>8 DEF BodyNext, BodyStart, BodyLock, BodyList, WriteWork, WriteDocument, BodyChoose, BodyMove,
     BodyAlias, BodyReturn, BodyDone, BodyFail
<1>9. ASSUME UNCHANGED allVars PROVE Good
  BY <1>1, <1>9 DEF allVars, tripVars
<1> HIDE DEF Good
<1>10. Good
  BY <1>2, <1>5, <1>6, <1>7, <1>8, <1>9, RequestStep DEF TripsNext, RequestNext
<1>11. QED
  BY <1>10 DEF Good

-----------------------------------------------------------------------------
LEMMA TripsInvNext == TripsInv /\ [TripsNext]_allVars => TripsInv'
<1> SUFFICES ASSUME TripsInv, [TripsNext]_allVars PROVE TripsInv'
  OBVIOUS
<1>1. [Next]_vars /\ TypeOK /\ IInv
  BY ManagerStep DEF TripsInv, IInv
<1>2. TypeOK'
  BY <1>1, TypeNext
<1>3. IInv'
  BY <1>1, <1>2, IInvNext
<1>4. lock' \in Threads \cup {"job", None} /\ LockOwned'
  BY LockNext
<1>5. Folders' /\ NamesDistinct' /\ DataSets' /\ OutTypes'
  BY DataNext
<1>6. step' \in BodySteps /\ target' \in Names \cup {None} /\ BodyOK'
  BY <1>3, BodyOKNext
<1>7. Addressed'
  BY <1>3, AddressedNext
<1>8. req' \in [Threads -> Requests] /\ ReqOK'
  BY RequestsNext
<1>9. TripsTypeOK'
  BY <1>2, <1>4, <1>5, <1>6, <1>8 DEF TripsTypeOK, Folders, DataSets, OutTypes, Requests
<1>10. QED
  BY <1>3, <1>4, <1>5, <1>6, <1>7, <1>8, <1>9 DEF TripsInv

LEMMA TripsInvInit == TripsInit => TripsInv
<1> SUFFICES ASSUME TripsInit PROVE TripsInv
  OBVIOUS
<1>1. IInv /\ TypeOK
  BY IInvInit DEF TripsInit, IInv
<1>2. /\ created \subseteq Trips
      /\ \A x \in Trips : Staging(x) \in Names /\ Staging(x)[1] = x
  BY UploadedAreTrips DEF TripsInit, Names, Staging
<1>3. \A n \in Names : folder[n] # None => folder[n] \in created /\ n = Staging(folder[n])
  BY <1>2 DEF TripsInit
<1>4. Folders
  BY <1>2 DEF TripsInit, Folders
<1>5. NamesDistinct
  BY <1>3 DEF NamesDistinct
<1>6. DataSets
  BY <1>2 DEF TripsInit, DataSets
<1>7. OutTypes
  BY <1>2 DEF TripsInit, OutTypes
<1>8. req \in [Threads -> Requests] /\ ReqOK
  BY IdleIsSound DEF TripsInit, ReqOK
<1>9. LockOwned
  BY HoldersDiffer DEF TripsInit, LockOwned, Idle
<1>10. Addressed
  BY DEF TripsInit, Init, Addressed
<1>11. BodyOK
  BY DEF TripsInit, Init, BodyOK
<1>12. TripsTypeOK
  BY <1>1, <1>4, <1>6, <1>7, <1>8, TypeParts DEF TripsInit, BodySteps
<1>13. QED
  BY <1>1, <1>5, <1>8, <1>9, <1>10, <1>11, <1>12 DEF TripsInv

LEMMA TripsInvariance == TripsSpec => []TripsInv
BY TripsInvInit, TripsInvNext, PTL DEF TripsSpec

(* Types of the folders of data/ and out/, the lock, the requests and the  *)
(* body of the running job, for any number of trips, threads and jobs.     *)
THEOREM TripsTypes == TripsSpec => []TripsTypeOK
BY TripsInvariance, PTL DEF TripsInv

(* out_lock has one owner at a time: the body that lists and writes, or    *)
(* the request that is about to move a folder to the trash.                *)
THEOREM LockHasOwner == TripsSpec => []LockOwned
BY TripsInvariance, PTL DEF TripsInv

(* The work of submit_extract makes the job known under the address it     *)
(* answers with before the job is done, and the table forgets no address.  *)
THEOREM NewAddressesKnown == TripsSpec => []NewAddressKnowsJob
<1>1. TripsInv => NewAddressKnowsJob
  BY DEF TripsInv, IInv, ResultsBelong, Addressed, NewAddressKnowsJob
<1>2. QED
  BY <1>1, TripsInvariance, PTL

-----------------------------------------------------------------------------
(* Only trash_trip adds to the trash.                                      *)
LEMMA OnlyTrashMove ==
  ASSUME [TripsNext]_allVars
  PROVE  trashed' = trashed \/ \E t \in Threads : TrashMove(t)
<1>1. ASSUME NEW t \in Threads, RequestNext(t) PROVE trashed' = trashed \/ TrashMove(t)
  BY <1>1 DEF RequestNext, ReviewPage, Submit, PoolSubmit, ConfirmChoose, ConfirmMove, ConfirmAlias, TrashCheck,
     TrashLock, SaveFiles, SaveTripYaml, tripVars, dataVars
<1>2. ASSUME BodyNext PROVE trashed' = trashed
  BY <1>2 DEF BodyNext, BodyStart, BodyLock, BodyList, WriteWork, WriteDocument, BodyChoose, BodyMove,
     BodyAlias, BodyReturn, BodyDone, BodyFail, dataVars
<1>3. QED
  BY <1>1, <1>2 DEF TripsNext, Arrive, CreateStaging, allVars, tripVars, dataVars

(* trash_trip holds the lock that the body of a job holds while it lists   *)
(* and writes, so it moves no trip that is being worked on.                *)
THEOREM TrashWaitsForWork == TripsSpec => NoTrashUnderWork
<1> DEFINE Waits == \A x \in trashed' \ trashed : ~(step \in {"list", "write"} /\ folder[key[worker]] = x)
<1>1. TripsInv /\ [TripsNext]_allVars => [Waits]_allVars
  <2> SUFFICES ASSUME TripsInv, [TripsNext]_allVars PROVE Waits
    OBVIOUS
  <2>1. CASE trashed' = trashed
    BY <2>1
  <2>2. ASSUME NEW t \in Threads, TrashMove(t) PROVE Waits
    <3>1. lock = t /\ lock # "job"
      BY <2>2, HoldersDiffer DEF TrashMove, At, TripsInv, LockOwned
    <3>2. step \notin {"list", "write"}
      BY <3>1 DEF TripsInv, LockOwned
    <3>3. QED
      BY <3>2
  <2>3. QED
    BY <2>1, <2>2, OnlyTrashMove
<1>2. QED
  BY <1>1, TripsInvariance, PTL DEF TripsSpec, NoTrashUnderWork

-----------------------------------------------------------------------------
(* The requests and the bodies of the jobs use the manager as JobManager   *)
(* lets any client use it, and therefore as its board promises: whatever   *)
(* the first part proves of the manager holds of the trips.                *)
THEOREM TripsUseTheManager == TripsSpec => Spec
<1>1. TripsInit => Init
  BY DEF TripsInit
<1>2. TripsInv /\ [TripsNext]_allVars => [Next]_vars
  BY ManagerStep
<1>3. QED
  BY <1>1, <1>2, TripsInvariance, PTL DEF TripsSpec, Spec

(* Each job of the trips is created once, runs at most once, never beside  *)
(* another one, and stays finished.                                        *)
THEOREM TripsKeepTheBoard == TripsSpec => ImplementsBoard
BY TripsUseTheManager, Refinement, PTL

-----------------------------------------------------------------------------
(* The implementation of TripStore.  What a step does to the folders and   *)
(* the trash: nothing, or one of these.                                    *)
Untouched == UNCHANGED <<folder, trashed>>

Filled(n, x) ==
    /\ folder[n] = None /\ x \notin trashed /\ \A m \in Names : folder[m] # x
    /\ folder' = [folder EXCEPT ![n] = x]
    /\ UNCHANGED trashed
    /\ (n = Staging(x) /\ x \in created') \/ \E t \in Threads : req[t].name = n

Renaming(n, nn) ==
    /\ folder[n] # None /\ folder[nn] = None
    /\ folder' = [folder EXCEPT ![n] = None, ![nn] = folder[n]]
    /\ UNCHANGED trashed

Binned(n) ==
    /\ folder[n] # None
    /\ folder' = [folder EXCEPT ![n] = None]
    /\ trashed' = trashed \cup {folder[n]}

(* No trip is in a folder and in the trash.  The staging name of a trip is *)
(* in use only once the first screen has made it: a rename never leads to  *)
(* one, and a request comes to a folder that is there.                     *)
Apart == \A n \in Names : folder[n] # None => folder[n] \notin trashed

StagingKnown == \A x \in Trips :
    folder[Staging(x)] # None \/ (\E t \in Threads : req[t].name = Staging(x)) => x \in created

ToDated ==
    /\ step = "move" => target \in Dated
    /\ \A t \in Threads : req[t].step = "move" => req[t].to \in Dated

StoreInv == TripsInv /\ Apart /\ StagingKnown /\ ToDated

LEMMA StagingNames ==
  /\ \A x, y \in Trips : Staging(x) = Staging(y) => x = y
  /\ \A x \in Trips : Staging(x) \notin Dated
  /\ \A x \in Trips : x # None
<1>1. \A x \in Trips, d \in Dated : Staging(x) # d
  <2> SUFFICES ASSUME NEW x \in Trips, NEW b \in Bases, NEW i \in 1..MaxSuffix, <<x, 0>> = <<b, i>> PROVE FALSE
    BY DEF Staging, Dated
  <2>1. i = 0
    OBVIOUS
  <2>2. QED
    BY <2>1, SuffixesSuffice
<1>2. QED
  BY <1>1, HoldersDiffer DEF Staging

Effect ==
    \/ Untouched
    \/ \E n \in Names, x \in Trips : Filled(n, x)
    \/ \E n \in Names, nn \in Dated : Renaming(n, nn)
    \/ \E n \in Names : Binned(n)

LEMMA WrittenEffect ==
  ASSUME Folders, NEW t \in Threads, req[t].name \in Names, NEW x \in Trips,
         Written(req[t].name, x), UNCHANGED trashed
  PROVE  Effect
<1> DEFINE n == req[t].name
<1>1. CASE folder[n] # None
  <2>1. folder' = folder
    BY <1>1 DEF Written, Folders
  <2>2. QED
    BY <2>1 DEF Effect, Untouched
<1>2. CASE folder[n] = None
  <2>1. Filled(n, x)
    BY <1>2 DEF Written, Fresh, Filled
  <2>2. QED
    BY <2>1 DEF Effect
<1>3. QED
  BY <1>1, <1>2

LEMMA RequestEffect ==
  ASSUME StoreInv, NEW t \in Threads, RequestNext(t)
  PROVE  Effect
<1>0. Folders
  BY TypeParts DEF StoreInv, TripsInv
<1>1. ASSUME ReviewPage(t) \/ Submit(t) \/ PoolSubmit(t) \/ ConfirmAlias(t) \/ TrashCheck(t) \/ TrashLock(t) PROVE Effect
  BY <1>1 DEF ReviewPage, Submit, PoolSubmit, ConfirmAlias, TrashCheck, TrashLock, tripVars, dataVars, Effect, Untouched
<1>2. ASSUME NEW b \in Bases \cup {None}, ConfirmChoose(t, b) PROVE Effect
  BY <1>2 DEF ConfirmChoose, dataVars, Effect, Untouched
<1>3. ASSUME ConfirmMove(t) PROVE Effect
  <2>1. req[t].name \in Names /\ req[t].to \in Dated
    BY <1>3 DEF StoreInv, TripsInv, ReqOK, Sound, ToDated, ConfirmMove, At
  <2>2. Untouched \/ Renaming(req[t].name, req[t].to)
    BY <1>3 DEF ConfirmMove, CanMove, Move, Untouched, Renaming
  <2>3. QED
    BY <2>1, <2>2 DEF Effect
<1>4. ASSUME TrashMove(t) PROVE Effect
  <2>1. req[t].name \in Names
    BY <1>4 DEF StoreInv, TripsInv, ReqOK, Sound, TrashMove, At
  <2>2. Untouched \/ Binned(req[t].name)
    BY <1>4 DEF TrashMove, Untouched, Binned
  <2>3. QED
    BY <2>1, <2>2 DEF Effect
<1>5. ASSUME NEW x \in Trips, SaveFiles(t, x) \/ \E d \in BOOLEAN : SaveTripYaml(t, x, d) PROVE Effect
  <2>1. /\ req[t].name \in Names /\ UNCHANGED trashed
        /\ Written(req[t].name, x) \/ UNCHANGED folder
    BY <1>5 DEF StoreInv, TripsInv, ReqOK, Sound, SaveFiles, SaveTripYaml, At
  <2>2. CASE Written(req[t].name, x)
    BY <1>0, <2>1, <2>2, WrittenEffect
  <2>3. CASE UNCHANGED folder
    BY <2>1, <2>3 DEF Effect, Untouched
  <2>4. QED
    BY <2>1, <2>2, <2>3
<1>6. QED
  BY <1>1, <1>2, <1>3, <1>4, <1>5 DEF RequestNext

LEMMA TripsEffect ==
  ASSUME StoreInv, [TripsNext]_allVars
  PROVE  Effect
<1>1. ASSUME NEW t \in Threads, NEW x \in Trips, CreateStaging(t, x) PROVE Filled(Staging(x), x) /\ Staging(x) \in Names
  BY <1>1, NamesOf DEF CreateStaging, Fresh, Filled, StoreInv, StagingKnown
<1>2. ASSUME BodyNext PROVE Effect
  <2>1. CASE BodyMove
    <3>1. key[worker] \in Names /\ target \in Dated
      BY <2>1, WorkerFacts DEF BodyMove, StoreInv, ToDated
    <3>2. Renaming(key[worker], target)
      BY <2>1 DEF BodyMove, CanMove, Move, Renaming
    <3>3. QED
      BY <3>1, <3>2 DEF Effect
  <2>2. CASE ~BodyMove
    BY <1>2, <2>2 DEF BodyNext, BodyStart, BodyLock, BodyList, WriteWork, WriteDocument, BodyChoose,
       BodyAlias, BodyReturn, BodyDone, BodyFail, dataVars, Effect, Untouched
  <2>3. QED
    BY <2>1, <2>2
<1>3. ASSUME NEW t \in Threads, NEW op \in AsyncOps \cup SyncOps, NEW n \in Names, Arrive(t, op, n) PROVE Untouched
  BY <1>3 DEF Arrive, dataVars, Untouched
<1>4. UNCHANGED allVars => Untouched
  BY DEF allVars, tripVars, dataVars, Untouched
<1>5. QED
  BY <1>1, <1>2, <1>3, <1>4, RequestEffect DEF TripsNext, Effect

(* What a request comes to know: a name it has, one that is there, or the  *)
(* staging name just made; and a dated one to move to.                     *)
Knows(t) == \E r \in Requests :
    /\ req' = [req EXCEPT ![t] = r]
    /\ r.step = "move" => r.to \in Dated
    /\ \/ r.name \in {req[t].name, None}
       \/ r.name \in Names /\ folder[r.name] # None
       \/ \E x \in created' : r.name = Staging(x)

LEMMA KnowsGoing ==
  ASSUME req \in [Threads -> Requests], NEW t \in Threads, NEW s \in ReqSteps \ {"move"}, Go(t, s)
  PROVE  Knows(t)
<1> DEFINE r == [req[t] EXCEPT !.step = s]
<1>1. r \in Requests /\ r.step # "move" /\ r.name = req[t].name
  BY DEF Requests
<1>2. req' = [req EXCEPT ![t] = r]
  BY DEF Go
<1> HIDE DEF r
<1>3. QED
  BY <1>1, <1>2 DEF Knows

LEMMA KnowsReplying == ASSUME NEW t \in Threads, Reply(t) PROVE Knows(t)
BY IdleIsSound DEF Reply, Knows, Idle

LEMMA RequestsKnow ==
  ASSUME TripsInv, [TripsNext]_allVars
  PROVE  req' = req \/ \E t \in Threads : Knows(t)
<1>0. req \in [Threads -> Requests] /\ Folders /\ NamesDistinct
  BY RequestTypes, TypeParts DEF TripsInv
<1>1. {"checked", "submit", "rename", "alias", "lock", "bin"} \subseteq ReqSteps \ {"move"} /\ "move" \in ReqSteps
  BY DEF ReqSteps
<1>2. ASSUME NEW t \in Threads, NEW op \in AsyncOps \cup SyncOps, NEW n \in Names, Arrive(t, op, n) PROVE Knows(t)
  <2> DEFINE r == [step |-> IF op \in {"read", "finalize"} THEN "submit" ELSE "checked", op |-> op, name |-> n, to |-> None]
  <2>1. r \in Requests /\ r.step # "move" /\ r.name = n
    BY <1>1 DEF Requests
  <2>2. req' = [req EXCEPT ![t] = r] /\ folder[n] # None
    BY <1>2 DEF Arrive
  <2> HIDE DEF r
  <2>3. QED
    BY <2>1, <2>2 DEF Knows
<1>3. ASSUME NEW t \in Threads, NEW x \in Trips, CreateStaging(t, x) PROVE Knows(t)
  <2> DEFINE r == [step |-> "submit", op |-> "new", name |-> Staging(x), to |-> None]
  <2>1. r \in Requests /\ r.step # "move" /\ r.name = Staging(x)
    BY <1>1, NamesOf DEF Requests, AsyncOps
  <2>2. req' = [req EXCEPT ![t] = r] /\ x \in created'
    BY <1>3 DEF CreateStaging
  <2> HIDE DEF r
  <2>3. QED
    BY <2>1, <2>2 DEF Knows
<1>4. ASSUME NEW t \in Threads, NEW b \in Bases \cup {None}, ConfirmChoose(t, b) PROVE Knows(t)
  <2> DEFINE nn == NewName(req[t].name, b)
             r == [req[t] EXCEPT !.step = "move", !.to = nn]
  <2>1. CASE nn = None
    <3>1. Reply(t)
      BY <1>4, <2>1 DEF ConfirmChoose, Reply
    <3>2. QED
      BY <3>1, KnowsReplying
  <2>2. CASE nn # None
    <3>1. nn \in Dated
      BY <1>0, <2>2, FreeName DEF NewName, Folders
    <3>2. nn \in Names
      BY <3>1, NamesOf
    <3>3. req' = [req EXCEPT ![t] = r]
      BY <1>4, <2>2 DEF ConfirmChoose
    <3> HIDE DEF nn
    <3>4. r \in Requests /\ r.to = nn /\ r.name = req[t].name
      BY <1>0, <1>1, <3>2 DEF Requests
    <3> HIDE DEF r
    <3>5. QED
      BY <3>1, <3>3, <3>4 DEF Knows
  <2>3. QED
    BY <2>1, <2>2
<1>5. ASSUME NEW t \in Threads, \/ ReviewPage(t) \/ Submit(t) \/ ConfirmMove(t) \/ ConfirmAlias(t)
                               \/ TrashCheck(t) \/ TrashLock(t) \/ TrashMove(t)
                               \/ \E x \in Trips : SaveFiles(t, x) \/ \E d \in BOOLEAN : SaveTripYaml(t, x, d)
      PROVE  req' = req \/ Knows(t)
  <2>1. req' = req \/ Reply(t) \/ \E s \in {"checked", "submit", "rename", "alias", "lock", "bin"} : Go(t, s)
    BY <1>5 DEF ReviewPage, Submit, ConfirmMove, ConfirmAlias, TrashCheck, TrashLock, TrashMove, SaveFiles, SaveTripYaml
  <2>2. QED
    BY <1>0, <1>1, <2>1, KnowsGoing, KnowsReplying
<1>6. ASSUME NEW t \in Threads, PoolSubmit(t) PROVE req' = req
  BY <1>6 DEF PoolSubmit, tripVars
<1>7. ASSUME BodyNext PROVE req' = req
  BY <1>7 DEF BodyNext, BodyStart, BodyLock, BodyList, WriteWork, WriteDocument, BodyChoose, BodyMove,
     BodyAlias, BodyReturn, BodyDone, BodyFail
<1>8. QED
  BY <1>2, <1>3, <1>4, <1>5, <1>6, <1>7 DEF TripsNext, RequestNext, allVars, tripVars

LEMMA CreatedStay == ASSUME [TripsNext]_allVars PROVE created \subseteq created'
<1>1. ASSUME NEW t \in Threads, RequestNext(t) PROVE created' = created
  BY <1>1 DEF RequestNext, ReviewPage, Submit, PoolSubmit, ConfirmChoose, ConfirmMove, ConfirmAlias, TrashCheck,
     TrashLock, TrashMove, SaveFiles, SaveTripYaml, tripVars, dataVars
<1>2. ASSUME BodyNext PROVE created' = created
  BY <1>2 DEF BodyNext, BodyStart, BodyLock, BodyList, WriteWork, WriteDocument, BodyChoose, BodyMove,
     BodyAlias, BodyReturn, BodyDone, BodyFail, dataVars
<1>3. QED
  BY <1>1, <1>2 DEF TripsNext, Arrive, CreateStaging, allVars, tripVars, dataVars


-----------------------------------------------------------------------------
(* The invariant, by effect.                                               *)
LEMMA SetFolder ==
  ASSUME Folders, NEW n \in Names, NEW x, folder' = [folder EXCEPT ![n] = x]
  PROVE  \A m \in Names : folder'[m] = IF m = n THEN x ELSE folder[m]
BY DEF Folders

LEMMA RenamedFolder ==
  ASSUME Folders, NEW n \in Names, NEW nn \in Names, Renaming(n, nn)
  PROVE  \A m \in Names : folder'[m] = IF m = nn THEN folder[n] ELSE IF m = n THEN None ELSE folder[m]
BY DEF Folders, Renaming

LEMMA ApartNext == ASSUME StoreInv, Effect PROVE Apart'
<1>0. Folders /\ NamesDistinct /\ Apart /\ Dated \subseteq Names
  BY TypeParts, NamesOf DEF StoreInv, TripsInv
<1>1. CASE Untouched
  BY <1>0, <1>1 DEF Untouched, Apart
<1>2. ASSUME NEW n \in Names, NEW x \in Trips, Filled(n, x) PROVE Apart'
  <2>1. \A m \in Names : folder'[m] = IF m = n THEN x ELSE folder[m]
    BY <1>0, <1>2, SetFolder DEF Filled
  <2>2. QED
    BY <1>0, <1>2, <2>1 DEF Apart, Filled
<1>3. ASSUME NEW n \in Names, NEW nn \in Dated, Renaming(n, nn) PROVE Apart'
  <2>1. \A m \in Names : folder'[m] = IF m = nn THEN folder[n] ELSE IF m = n THEN None ELSE folder[m]
    BY <1>0, <1>3, RenamedFolder
  <2>2. trashed' = trashed /\ folder[n] # None /\ folder[n] \notin trashed
    BY <1>0, <1>3 DEF Apart, Renaming
  <2>3. \A m \in Names : folder[m] # None => folder[m] \notin trashed
    BY <1>0 DEF Apart
  <2>4. QED
    BY <2>1, <2>2, <2>3 DEF Apart
<1>4. ASSUME NEW n \in Names, Binned(n) PROVE Apart'
  <2>1. \A m \in Names : folder'[m] = IF m = n THEN None ELSE folder[m]
    BY <1>0, <1>4, SetFolder DEF Binned
  <2>2. QED
    BY <1>0, <1>4, <2>1 DEF Apart, Binned, NamesDistinct
<1>5. QED
  BY <1>1, <1>2, <1>3, <1>4 DEF Effect

LEMMA StagingNext == ASSUME StoreInv, Effect, [TripsNext]_allVars PROVE StagingKnown'
<1>0. Folders /\ Dated \subseteq Names /\ created \subseteq created' /\ req \in [Threads -> Requests] /\ StagingKnown
  BY TypeParts, NamesOf, CreatedStay DEF StoreInv, TripsInv
<1> SUFFICES ASSUME NEW x \in Trips, folder'[Staging(x)] # None \/ \E t \in Threads : req'[t].name = Staging(x)
             PROVE  x \in created'
  BY DEF StagingKnown, Staging
<1> DEFINE s == Staging(x)
<1>1. s \in Names /\ s # None /\ s \notin Dated
  BY NamesOf, StagingNames
<1>2. ASSUME folder[s] # None \/ \E t \in Threads : req[t].name = s PROVE x \in created'
  BY <1>0, <1>2 DEF StagingKnown
<1>3. ASSUME folder'[s] # None PROVE x \in created'
  <2>1. CASE Untouched
    BY <1>2, <1>3, <2>1 DEF Untouched
  <2>2. ASSUME NEW n \in Names, NEW y \in Trips, Filled(n, y) PROVE x \in created'
    <3>1. \A m \in Names : folder'[m] = IF m = n THEN y ELSE folder[m]
      <4>1. folder' = [folder EXCEPT ![n] = y]
        BY <2>2 DEF Filled
      <4>2. QED
        BY <1>0, <4>1, SetFolder
    <3>2. CASE n # s
      BY <1>1, <1>2, <1>3, <3>1, <3>2
    <3>3. CASE n = s
      BY <1>2, <2>2, <3>3, StagingNames DEF Filled
    <3>4. QED
      BY <3>2, <3>3
  <2>3. ASSUME NEW n \in Names, NEW nn \in Dated, Renaming(n, nn) PROVE x \in created'
    <3>1. \A m \in Names : folder'[m] = IF m = nn THEN folder[n] ELSE IF m = n THEN None ELSE folder[m]
      BY <1>0, <2>3, RenamedFolder
    <3>2. QED
      BY <1>1, <1>2, <1>3, <3>1
  <2>4. ASSUME NEW n \in Names, Binned(n) PROVE x \in created'
    <3>1. \A m \in Names : folder'[m] = IF m = n THEN None ELSE folder[m]
      BY <1>0, <2>4, SetFolder DEF Binned
    <3>2. QED
      BY <1>1, <1>2, <1>3, <3>1
  <2>5. QED
    BY <2>1, <2>2, <2>3, <2>4 DEF Effect
<1>4. ASSUME NEW t \in Threads, req'[t].name = s PROVE x \in created'
  <2>1. CASE req' = req
    BY <1>2, <1>4, <2>1
  <2>2. ASSUME NEW u \in Threads, Knows(u) PROVE x \in created'
    <3>1. PICK r \in Requests :
            /\ req' = [req EXCEPT ![u] = r]
            /\ \/ r.name \in {req[u].name, None}
               \/ r.name \in Names /\ folder[r.name] # None
               \/ \E y \in created' : r.name = Staging(y)
      BY <2>2 DEF Knows
    <3>2. CASE t # u
      BY <1>0, <1>2, <1>4, <3>1, <3>2
    <3>3. CASE t = u
      <4>1. r.name = s
        BY <1>0, <1>4, <3>1, <3>3
      <4>2. s = req[u].name \/ folder[s] # None \/ \E y \in created' : s = Staging(y)
        BY <1>1, <3>1, <4>1
      <4>3. \A y : s = Staging(y) => y = x
        BY DEF Staging
      <4>4. QED
        BY <1>2, <4>2, <4>3
    <3>4. QED
      BY <3>2, <3>3
  <2>3. QED
    BY <2>1, <2>2, RequestsKnow DEF StoreInv
<1>5. QED
  BY <1>3, <1>4

LEMMA ToDatedNext == ASSUME StoreInv, [TripsNext]_allVars PROVE ToDated'
<1>0. Folders /\ NamesDistinct /\ req \in [Threads -> Requests] /\ ToDated
  BY TypeParts DEF StoreInv, TripsInv
<1>1. step' = "move" => target' \in Dated
  <2>1. ASSUME NEW b \in Bases \cup {None}, BodyChoose(b) PROVE step' = "move" => target' \in Dated
    BY <1>0, <2>1, FreeName DEF BodyChoose, NewName, Folders
  <2>2. ASSUME BodyNext, ~\E b \in Bases \cup {None} : BodyChoose(b) PROVE step' # "move"
    BY <2>2 DEF BodyNext, BodyStart, BodyLock, BodyList, WriteWork, WriteDocument, BodyMove, BodyAlias,
       BodyReturn, BodyDone, BodyFail
  <2>3. ASSUME ~BodyNext PROVE UNCHANGED <<step, target>>
    <3>1. ASSUME NEW t \in Threads, RequestNext(t) PROVE UNCHANGED <<step, target>>
      BY <3>1 DEF RequestNext, ReviewPage, Submit, PoolSubmit, ConfirmChoose, ConfirmMove, ConfirmAlias, TrashCheck,
         TrashLock, TrashMove, SaveFiles, SaveTripYaml, tripVars, bodyVars
    <3>2. QED
      BY <2>3, <3>1 DEF TripsNext, Arrive, CreateStaging, allVars, tripVars, bodyVars
  <2>4. QED
    BY <1>0, <2>1, <2>2, <2>3 DEF ToDated
<1>2. ASSUME NEW t \in Threads, req'[t].step = "move" PROVE req'[t].to \in Dated
  <2>1. ASSUME NEW u \in Threads, Knows(u) PROVE req'[t].to \in Dated
    <3>1. PICK r \in Requests : req' = [req EXCEPT ![u] = r] /\ (r.step = "move" => r.to \in Dated)
      BY <2>1 DEF Knows
    <3>2. QED
      BY <1>0, <1>2, <3>1 DEF ToDated
  <2>2. QED
    BY <1>0, <1>2, <2>1, RequestsKnow DEF StoreInv, ToDated
<1>3. QED
  BY <1>1, <1>2 DEF ToDated

LEMMA StoreInvInit == TripsInit => StoreInv
<1> SUFFICES ASSUME TripsInit PROVE StoreInv
  OBVIOUS
<1>1. \A n \in Names : folder[n] # None => \E x \in created : n = Staging(x)
  BY DEF TripsInit
<1>2. Apart /\ ToDated
  BY DEF TripsInit, Apart, ToDated, Idle
<1>3. StagingKnown
  <2>1. \A t \in Threads : req[t].name = None
    BY DEF TripsInit, Idle
  <2>2. \A x, y : Staging(x) = Staging(y) => x = y
    BY DEF Staging
  <2>3. QED
    BY <1>1, <2>1, <2>2, NamesOf DEF StagingKnown
<1>4. QED
  BY <1>2, <1>3, TripsInvInit DEF StoreInv

LEMMA StoreInvariance == TripsSpec => []StoreInv
<1>1. StoreInv /\ [TripsNext]_allVars => StoreInv'
  BY TripsInvNext, TripsEffect, ApartNext, StagingNext, ToDatedNext DEF StoreInv
<1>2. QED
  BY <1>1, StoreInvInit, PTL DEF TripsSpec

-----------------------------------------------------------------------------
(* The trips implement TripStore: whatever requests and jobs interleave, a *)
(* trip that came in is kept, under one name after the other, until it is  *)
(* put into the trash.                                                     *)
THEOREM TripsKeepTheStore == TripsSpec => ImplementsStore
<1>1. TripsInit => Store!StoreInit
  BY DEF TripsInit, Store!StoreInit, TripPlace
<1>2. ASSUME StoreInv, [TripsNext]_allVars PROVE [Store!StoreNext]_TripPlace
  <2>0. Folders /\ NamesDistinct /\ Apart /\ Dated \subseteq Names /\ \A x \in Trips : x # None
    BY <1>2, TypeParts, NamesOf, StagingNames DEF StoreInv, TripsInv
  <2>1. CASE Untouched
    BY <2>1 DEF Untouched, TripPlace
  <2>2. ASSUME NEW n \in Names, NEW x \in Trips, Filled(n, x) PROVE Store!Enter(x)
    <3>1. \A m \in Names : folder'[m] = IF m = n THEN x ELSE folder[m]
      BY <2>0, <2>2, SetFolder DEF Filled
    <3>2. TripPlace' = [y \in Trips |-> IF y \in {x} THEN "kept" ELSE TripPlace[y]]
      <4>1. ASSUME NEW y \in Trips, y # x PROVE (\E m \in Names : folder'[m] = y) <=> \E m \in Names : folder[m] = y
        BY <2>0, <2>2, <3>1, <4>1 DEF Filled
      <4>2. \E m \in Names : folder'[m] = x
        BY <3>1
      <4>3. trashed' = trashed /\ x \notin trashed
        BY <2>2 DEF Filled
      <4>4. QED
        BY <4>1, <4>2, <4>3 DEF TripPlace
    <3>3. TripPlace[x] = "nowhere"
      BY <2>2 DEF Filled, TripPlace
    <3>4. QED
      BY <3>2, <3>3 DEF Store!Enter, Store!Change
  <2>3. ASSUME NEW n \in Names, NEW nn \in Dated, Renaming(n, nn) PROVE UNCHANGED TripPlace
    <3>1. \A m \in Names : folder'[m] = IF m = nn THEN folder[n] ELSE IF m = n THEN None ELSE folder[m]
      BY <2>0, <2>3, RenamedFolder
    <3>2. ASSUME NEW y \in Trips PROVE (\E m \in Names : folder'[m] = y) <=> \E m \in Names : folder[m] = y
      BY <2>0, <2>3, <3>1 DEF Renaming
    <3>3. trashed' = trashed
      BY <2>3 DEF Renaming
    <3>4. QED
      BY <3>2, <3>3 DEF TripPlace
  <2>4. ASSUME NEW n \in Names, Binned(n) PROVE Store!Discard({folder[n]}) /\ folder[n] \in Trips
    <3> DEFINE x == folder[n]
    <3>1. \A m \in Names : folder'[m] = IF m = n THEN None ELSE folder[m]
      BY <2>0, <2>4, SetFolder DEF Binned
    <3>2. x \in Trips /\ x \notin trashed /\ trashed' = trashed \cup {x}
      BY <2>0, <2>4 DEF Folders, Apart, Binned
    <3>3. TripPlace[x] = "kept"
      BY <3>2 DEF TripPlace
    <3>4. TripPlace' = [y \in Trips |-> IF y \in {x} THEN "trash" ELSE TripPlace[y]]
      <4>1. ASSUME NEW y \in Trips, y # x PROVE (\E m \in Names : folder'[m] = y) <=> \E m \in Names : folder[m] = y
        BY <2>0, <3>1, <4>1
      <4>2. QED
        BY <3>2, <4>1 DEF TripPlace
    <3>5. QED
      BY <3>2, <3>3, <3>4 DEF Store!Discard, Store!Change
  <2>5. QED
    BY <1>2, <2>1, <2>2, <2>3, <2>4, TripsEffect DEF Effect, Store!StoreNext
<1>3. QED
  BY <1>1, <1>2, StoreInvariance, PTL DEF TripsSpec, ImplementsStore, Store!StoreSpec

=============================================================================
