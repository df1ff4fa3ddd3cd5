----------------------------- MODULE JobManager -----------------------------
(***************************************************************************)
(* The job manager of the web application (web/jobs.py): a table from an   *)
(* address (traveler/trip) to its latest job, and one worker thread that   *)
(* runs jobs in the order the pool received them.  Request threads submit  *)
(* jobs; the table is read and written under a lock, the job is handed to  *)
(* the pool after the lock is released, and the running job changes its    *)
(* own state without any lock.                                             *)
(***************************************************************************)
EXTENDS Naturals, Sequences, Functions

CONSTANTS Keys,     (* addresses a job is stored under                     *)
          Kinds,    (* "extract", "law" and "finalize" in the routes       *)
          Results,  (* what the body of a job can return                   *)
          Threads,  (* request threads                                     *)
          Jobs,     (* the Job objects the run may create: bounds the run  *)
          None      (* Python's None                                       *)

ASSUME NoneAssumption ==
    /\ None \notin Keys
    /\ None \notin Kinds
    /\ None \notin Results
    /\ None \notin Jobs

VARIABLES table,    (* _jobs                                               *)
          state,    (* Job.state; "new" for an object not created yet      *)
          key,      (* Job.key                                             *)
          kind,     (* Job.kind                                            *)
          result,   (* Job.result                                          *)
          pending,  (* per thread: created in submit, not yet in the pool  *)
          pool,     (* the queue of the ThreadPoolExecutor                 *)
          worker,   (* the job the only pool thread is running             *)
          open      (* the pool accepts work: shutdown not called          *)

jobVars == <<state, key, kind, result>>
poolVars == <<pool, worker, open>>
vars == <<table, jobVars, pending, poolVars>>

States == {"new", "queued", "running", "done", "error"}

TypeOK ==
    /\ table \in [Keys -> Jobs \cup {None}]
    /\ state \in [Jobs -> States]
    /\ key \in [Jobs -> Keys \cup {None}]
    /\ kind \in [Jobs -> Kinds \cup {None}]
    /\ result \in [Jobs -> Results \cup {None}]
    /\ pending \in [Threads -> Jobs \cup {None}]
    /\ pool \in Seq(Jobs)
    /\ worker \in Jobs \cup {None}
    /\ open \in BOOLEAN

Init ==
    /\ table = [k \in Keys |-> None]
    /\ state = [j \in Jobs |-> "new"]
    /\ key = [j \in Jobs |-> None]
    /\ kind = [j \in Jobs |-> None]
    /\ result = [j \in Jobs |-> None]
    /\ pending = [t \in Threads |-> None]
    /\ pool = <<>>
    /\ worker = None
    /\ open = TRUE

-----------------------------------------------------------------------------
(* Job.active, and the check submit and the routes make with it.           *)
Active(j) == state[j] \in {"queued", "running"}
Busy(k) == table[k] # None /\ Active(table[k])

(* submit, the part under the lock: an active job of the address is        *)
(* returned as it is, whatever its kind.                                   *)
SubmitExisting(t, k) ==
    /\ pending[t] = None
    /\ Busy(k)
    /\ UNCHANGED vars

(* submit, the part under the lock: a new job replaces the finished one.   *)
SubmitNew(t, k, kd, j) ==
    /\ pending[t] = None
    /\ ~Busy(k)
    /\ state[j] = "new"
    /\ table' = [table EXCEPT ![k] = j]
    /\ state' = [state EXCEPT ![j] = "queued"]
    /\ key' = [key EXCEPT ![j] = k]
    /\ kind' = [kind EXCEPT ![j] = kd]
    /\ pending' = [pending EXCEPT ![t] = j]
    /\ UNCHANGED <<result, poolVars>>

(* Mutant: the pool is asked only when the worker is idle.                 *)
HandOver_OnlyIdle(t) ==
    /\ pending[t] # None
    /\ pending' = [pending EXCEPT ![t] = None]
    /\ pool' = IF open /\ worker = None THEN Append(pool, pending[t]) ELSE pool
    /\ UNCHANGED <<table, jobVars, worker, open>>

(* submit, after the lock: pool.submit.  A pool that was shut down raises, *)
(* and the job stays "queued" in the table.                                *)
HandOver(t) ==
    /\ pending[t] # None
    /\ pending' = [pending EXCEPT ![t] = None]
    /\ pool' = IF open THEN Append(pool, pending[t]) ELSE pool
    /\ UNCHANGED <<table, jobVars, worker, open>>

(* alias: the job of an address becomes the job of a second address, over  *)
(* whatever job was stored there.                                          *)
Alias(k, nk) ==
    /\ table' = IF table[k] # None THEN [table EXCEPT ![nk] = table[k]] ELSE table
    /\ UNCHANGED <<jobVars, pending, poolVars>>

(* Mutant: a pool of two workers.                                          *)
Start_TwoWorkers ==
    /\ pool # <<>>
    /\ worker' = Head(pool)
    /\ pool' = Tail(pool)
    /\ state' = [state EXCEPT ![Head(pool)] = "running"]
    /\ UNCHANGED <<table, key, kind, result, pending, open>>

(* Mutant: the item is read, not taken, from the queue.                    *)
Start_Peek ==
    /\ worker = None
    /\ pool # <<>>
    /\ worker' = Head(pool)
    /\ state' = [state EXCEPT ![Head(pool)] = "running"]
    /\ UNCHANGED <<table, key, kind, result, pending, pool, open>>

(* _run, first line, in the worker thread.                                 *)
Start ==
    /\ worker = None
    /\ pool # <<>>
    /\ worker' = Head(pool)
    /\ pool' = Tail(pool)
    /\ state' = [state EXCEPT ![Head(pool)] = "running"]
    /\ UNCHANGED <<table, key, kind, result, pending, open>>

(* _run: the body returned and its value is stored.                        *)
Return(r) ==
    /\ worker # None
    /\ result[worker] = None
    /\ result' = [result EXCEPT ![worker] = r]
    /\ UNCHANGED <<table, state, key, kind, pending, poolVars>>

(* Mutant: the state is set before the body has returned a value.          *)
MarkDone_Early ==
    /\ worker # None
    /\ state' = [state EXCEPT ![worker] = "done"]
    /\ worker' = None
    /\ UNCHANGED <<table, key, kind, result, pending, pool, open>>

(* _run: only then is the job "done".                                      *)
MarkDone ==
    /\ worker # None
    /\ result[worker] # None
    /\ state' = [state EXCEPT ![worker] = "done"]
    /\ worker' = None
    /\ UNCHANGED <<table, key, kind, result, pending, pool, open>>

(* Mutant: the worker swallows the exception and the job keeps its state.  *)
Fail_Swallowed ==
    /\ worker # None
    /\ result[worker] = None
    /\ worker' = None
    /\ UNCHANGED <<table, jobVars, pending, pool, open>>

(* _run: the body raised.                                                  *)
Fail ==
    /\ worker # None
    /\ result[worker] = None
    /\ state' = [state EXCEPT ![worker] = "error"]
    /\ worker' = None
    /\ UNCHANGED <<table, key, kind, result, pending, pool, open>>

(* shutdown(wait=False, cancel_futures=True): what is still in the queue   *)
(* is cancelled, the running job goes on.                                  *)
Shutdown ==
    /\ open
    /\ open' = FALSE
    /\ pool' = <<>>
    /\ UNCHANGED <<table, jobVars, pending, worker>>

-----------------------------------------------------------------------------
WorkerNext == Start \/ (\E r \in Results : Return(r)) \/ MarkDone \/ Fail

Next ==
    \/ \E t \in Threads, k \in Keys : SubmitExisting(t, k)
    \/ \E t \in Threads, k \in Keys, kd \in Kinds, j \in Jobs : SubmitNew(t, k, kd, j)
    \/ \E t \in Threads : HandOver(t)
    \/ \E k, nk \in Keys : Alias(k, nk)
    \/ WorkerNext
    \/ Shutdown

Spec == Init /\ [][Next]_vars

(* The interpreter runs a thread that can run, and the body of a job ends: *)
(* it waits for the local AI and for the document tools with time limits.  *)
(* Nobody is obliged to submit a job or to stop the application.           *)
Fairness == WF_vars(WorkerNext) /\ \A t \in Threads : WF_vars(HandOver(t))

FairSpec == Spec /\ Fairness

-----------------------------------------------------------------------------
Waiting == Range(pool)

(* A job that waits is in somebody's hands: with the requesting thread or  *)
(* in the pool.  submit answers "already queued" for as long as the job is *)
(* active, so a job lost between the table and the pool would block its    *)
(* trip for good (submit, pool.submit outside the lock).                   *)
NoJobLost ==
    open => \A j \in Jobs : state[j] = "queued" =>
        j \in Waiting \/ \E t \in Threads : pending[t] = j

(* ... and in one pair of hands only, so no body runs twice: no two        *)
(* threads, no two places of the queue, never a thread and the queue.      *)
QueuedOnce ==
    /\ \A t, u \in Threads : pending[t] = pending[u] /\ pending[t] # None => t = u
    /\ \A t \in Threads : pending[t] # None =>
           state[pending[t]] = "queued" /\ pending[t] \notin Waiting
    /\ IsInjective(pool)
    /\ \A j \in Waiting : state[j] = "queued"

(* A request that sees "done" finds the value of the body: routes read     *)
(* job.state and then job.result without a lock (current_trip_id).         *)
ResultBeforeDone == \A j \in Jobs : state[j] = "done" => result[j] # None

(* While the application is up, a queued job ends, whatever the jobs       *)
(* before it do (the except clause of _run).                               *)
JobsFinish == \A j \in Jobs : state[j] = "queued" ~> (state[j] \in {"done", "error"} \/ ~open)

(* The manager is a JobBoard: see that module for what it promises.        *)
Phase(s) ==
    CASE s = "new" -> "new"
      [] s = "queued" -> "waiting"
      [] s = "running" -> "running"
      [] OTHER -> "finished"

Board == INSTANCE JobBoard WITH phase <- [j \in Jobs |-> Phase(state[j])]

ImplementsBoard == Board!BoardSpec
=============================================================================
