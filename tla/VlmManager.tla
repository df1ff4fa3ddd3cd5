----------------------------- MODULE VlmManager -----------------------------
(***************************************************************************)
(* The local AI server (web/vlm_process.py VlmManager, vlm_server.py stop, *)
(* actions.py, app.py lifespan): a job starts llama-server when it has new *)
(* receipts to read and stops it when it ends; the shutdown of the web app *)
(* stops it too, on another thread and without waiting for the job.        *)
(* The field _proc has no lock.                                            *)
(***************************************************************************)
EXTENDS ServerParameters

VARIABLES proc,     (* VlmManager._proc                                    *)
          process,  (* per process: what it is doing                       *)
          foreign,  (* a server that the user started answers on the port  *)
          worker,   (* the job thread                                      *)
          loop      (* the event loop, from the end of lifespan on         *)

vars == <<proc, process, foreign, worker, loop>>

Threads == {"worker", "loop"}
Alive(p) == p # None /\ process[p] \in {"loading", "ready", "ending"}
Healthy == foreign \/ \E p \in Procs : process[p] = "ready"

TypeOK ==
    /\ proc \in Procs \cup {None}
    /\ process \in [Procs -> {"gone", "loading", "ready", "ending"}]
    /\ foreign \in BOOLEAN
    /\ worker \in [at : {"idle", "need", "health", "alive", "store", "poll", "probe", "giveup", "giveupend",
                          "recheck", "reading", "stop", "end"},
                   has : Procs \cup {None}]
    /\ loop \in [at : {"serving", "stop", "end", "over"}, has : Procs \cup {None}]

Init ==
    /\ proc = None
    /\ process = [p \in Procs |-> "gone"]
    /\ foreign \in BOOLEAN
    /\ worker = [at |-> "idle", has |-> None]
    /\ loop = [at |-> "serving", has |-> None]

WAt(s) == worker.at = s
WGo(s) == worker' = [worker EXCEPT !.at = s]

-----------------------------------------------------------------------------
(* A job that may read receipts (do_extract, do_finalize).  The pool takes *)
(* no job after its shutdown, which comes first in lifespan.               *)
JobBegins ==
    /\ WAt("idle") /\ loop.at = "serving"
    /\ WGo("need")
    /\ UNCHANGED <<proc, process, foreign, loop>>

(* _ensure_vlm: all receipts are in the cache, or the server is up, or     *)
(* on_vlm_needed; also the job may raise before it comes to this.          *)
Need ==
    /\ WAt("need")
    /\ WGo("reading") \/ WGo("stop") \/ (~Healthy /\ WGo("health"))
    /\ UNCHANGED <<proc, process, foreign, loop>>

(* ensure_ready.                                                           *)
CheckHealth ==
    /\ WAt("health")
    /\ WGo(IF Healthy THEN "recheck" ELSE "alive")
    /\ UNCHANGED <<proc, process, foreign, loop>>

(* A process that no field names any more stands for a new one; all are    *)
(* alike.                                                                  *)
Unused == {p \in Procs : process[p] = "gone"} \ {proc, loop.has}

(* _start: the process runs before the field knows it.  It raises when the *)
(* model or the program is missing.                                        *)
Launch ==
    /\ WAt("alive")
    /\ \/ Alive(proc) /\ WGo("poll") /\ UNCHANGED process
       \/ /\ ~Alive(proc)
          /\ Unused # {}
          /\ LET p == CHOOSE p \in Unused : TRUE
             IN  /\ process' = [process EXCEPT ![p] = "loading"]
                 /\ worker' = [at |-> "store", has |-> p]
       \/ ~Alive(proc) /\ WGo("stop") /\ UNCHANGED process
    /\ UNCHANGED <<proc, foreign, loop>>

Store ==
    /\ WAt("store")
    /\ proc' = worker.has
    /\ worker' = [at |-> "poll", has |-> None]
    /\ UNCHANGED <<process, foreign, loop>>

(* The loop: the deadline, the process gone (or taken away by the          *)
(* shutdown), the server up, or another round.                             *)
Poll ==
    /\ WAt("poll")
    /\ \/ WGo("giveup") /\ UNCHANGED proc
       \/ ~Alive(proc) /\ proc' = None /\ WGo("stop")
       \/ Alive(proc) /\ WGo("probe") /\ UNCHANGED proc
    /\ UNCHANGED <<process, foreign, loop>>

Probe ==
    /\ WAt("probe")
    /\ WGo(IF Healthy THEN "recheck" ELSE "poll")
    /\ UNCHANGED <<proc, process, foreign, loop>>

Recheck ==
    /\ WAt("recheck")
    /\ WGo(IF Healthy THEN "reading" ELSE "stop")
    /\ UNCHANGED <<proc, process, foreign, loop>>

(* Mutant: a job that fails does not stop the server.                      *)
JobEnds_NoFinally ==
    /\ WAt("reading")
    /\ WGo("stop") \/ WGo("idle")
    /\ UNCHANGED <<proc, process, foreign, loop>>

(* The receipts are read, or the reading fails: finally vlm.stop().        *)
JobEnds ==
    /\ WAt("reading")
    /\ WGo("stop")
    /\ UNCHANGED <<proc, process, foreign, loop>>

-----------------------------------------------------------------------------
(* stop: the field is taken and cleared, the process is asked to end, and  *)
(* killed if it does not.                                                  *)
WorkerTakes(from, to) ==
    /\ WAt(from)
    /\ worker' = [at |-> to, has |-> proc]
    /\ proc' = None
    /\ UNCHANGED <<process, foreign, loop>>

LoopTakes ==
    /\ loop.at = "stop"
    /\ loop' = [at |-> "end", has |-> proc]
    /\ proc' = None
    /\ UNCHANGED <<process, foreign, worker>>

Ended(p) == IF p = None THEN TRUE ELSE process[p] \in {"gone", "ending"}

Terminate(p) ==
    /\ process' = [process EXCEPT ![p] = "ending"]
    /\ UNCHANGED <<proc, foreign, worker, loop>>

(* Mutant: nobody waits for the process to end.                            *)
WorkerEnds_NoWait(from, to) ==
    /\ WAt(from)
    /\ worker' = [at |-> to, has |-> None]
    /\ process' = [p \in Procs |-> IF p = worker.has /\ Alive(p) THEN "ending" ELSE process[p]]
    /\ UNCHANGED <<proc, foreign, loop>>

WorkerEnds(from, to) ==
    \/ WAt(from) /\ ~Ended(worker.has) /\ Terminate(worker.has)
    \/ /\ WAt(from)
       /\ Ended(worker.has)
       /\ worker' = [at |-> to, has |-> None]
       /\ process' = [p \in Procs |-> IF p = worker.has THEN "gone" ELSE process[p]]
       /\ UNCHANGED <<proc, foreign, loop>>

LoopEnds ==
    \/ loop.at = "end" /\ ~Ended(loop.has) /\ Terminate(loop.has)
    \/ /\ loop.at = "end"
       /\ Ended(loop.has)
       /\ loop' = [at |-> "over", has |-> None]
       /\ process' = [p \in Procs |-> IF p = loop.has THEN "gone" ELSE process[p]]
       /\ UNCHANGED <<proc, foreign, worker>>

(* The end of lifespan: jobs.shutdown() without waiting, then vlm.stop().  *)
Shutdown ==
    /\ loop.at = "serving"
    /\ loop' = [loop EXCEPT !.at = "stop"]
    /\ UNCHANGED <<proc, process, foreign, worker>>

-----------------------------------------------------------------------------
(* A server loads the model, and may end by itself at any time.            *)
Loaded(p) ==
    /\ process[p] = "loading"
    /\ process' = [process EXCEPT ![p] = "ready"]
    /\ UNCHANGED <<proc, foreign, worker, loop>>

Exits(p) ==
    /\ Alive(p)
    /\ process' = [process EXCEPT ![p] = "gone"]
    /\ UNCHANGED <<proc, foreign, worker, loop>>

ForeignChanges ==
    /\ foreign' = ~foreign
    /\ UNCHANGED <<proc, process, worker, loop>>

WorkerNext ==
    \/ Need \/ CheckHealth \/ Launch \/ Store \/ Poll \/ Probe \/ Recheck \/ JobEnds
    \/ WorkerTakes("giveup", "giveupend") \/ WorkerEnds("giveupend", "stop")
    \/ WorkerTakes("stop", "end") \/ WorkerEnds("end", "idle")

LoopNext == LoopTakes \/ LoopEnds

(* What goes on beside the job.                                            *)
Environment ==
    \/ Shutdown \/ LoopNext
    \/ ForeignChanges
    \/ \E p \in Procs : Loaded(p) \/ Exits(p)

Next == JobBegins \/ WorkerNext \/ Environment

(* A thread that can go on goes on; the wait for the server ends, by its   *)
(* deadline if by nothing else.                                            *)
Fairness ==
    /\ WF_vars(WorkerNext) /\ WF_vars(LoopNext)
    /\ SF_vars(WAt("poll") /\ Poll /\ worker'.at # "probe")

Spec == Init /\ [][Next]_vars /\ Fairness

-----------------------------------------------------------------------------
(* There is never more than one llama-server of this app, not even while   *)
(* the last one is still ending (ensure_ready, vlm_server.stop).           *)
OneServer == Cardinality({p \in Procs : Alive(p)}) <= 1

(* When no job is running there is no llama-server of this app, but one    *)
(* that the shutdown is just stopping: whatever the shutdown took away or  *)
(* did not see yet, the job thread stops what it started (actions.py).  As *)
(* no job begins after the shutdown, the server is down once the last one  *)
(* has ended.                                                              *)
StopsWhatItStarted == WAt("idle") => \A p \in Procs : Alive(p) => p = loop.has
=============================================================================
