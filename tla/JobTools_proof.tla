--------------------------- MODULE JobTools_proof ---------------------------
(***************************************************************************)
(* Proofs about the jobs and the servers they use, for any numbers of      *)
(* processes, sessions and calls: there is one llama-server and the job    *)
(* stops it, and the results of McpSession_proof carry over to the jobs    *)
(* that use the client beside the local AI.                                *)
(***************************************************************************)
EXTENDS JobTools, FiniteSetTheorems, TLAPS

Client == INSTANCE McpSession_proof

(* A job moves the client only by the steps of McpSession.                 *)
LEMMA ClientSteps == [ToolsNext]_toolVars => [Client!Next]_mcpVars
<1>1. Mcp!Enter => Client!Enter
  BY DEF Mcp!Enter, Client!Enter, Mcp!CAt, Client!CAt
<1>2. Mcp!Call => Client!Call
  BY DEF Mcp!Call, Client!Call, Mcp!Start, Client!Start, Mcp!Started, Client!Started, Mcp!NotStarted, Client!NotStarted,
         Mcp!Submit, Client!Submit, Mcp!Returned, Client!Returned, Mcp!TimedOut, Client!TimedOut,
         Mcp!CAt, Client!CAt, Mcp!Live, Client!Live, Mcp!Voided, Client!Voided, Mcp!NoSession, Client!NoSession
<1>3. Mcp!Leave => Client!Leave
  BY DEF Mcp!Leave, Client!Leave, Mcp!Exit, Client!Exit, Mcp!Left, Client!Left, Mcp!CAt, Client!CAt
<1>4. Mcp!SessionNext => Client!SessionNext
  BY DEF Mcp!SessionNext, Client!SessionNext, Mcp!Opened, Client!Opened, Mcp!Take, Client!Take, Mcp!Answer, Client!Answer,
         Mcp!End, Client!End, Mcp!CancelAll, Client!CancelAll, Mcp!Close, Client!Close,
         Mcp!CAt, Client!CAt, Mcp!SGo, Client!SGo, Mcp!NoSession, Client!NoSession
<1>5. QED
  BY <1>1, <1>2, <1>3, <1>4
     DEF ToolsNext, toolVars, mcpVars, BodyBegins, UsesVlm, UsesTools, BodyLeaves, Surroundings, Client!Next

LEMMA ClientInit == ToolsInit => Client!Init
  BY DEF ToolsInit, Mcp!Init, Client!Init, Mcp!NoSession, Client!NoSession

LEMMA ClientInvariance == ToolsSpec => []Client!IInv
<1>0. Client!ServerAssumptions
  BY ServerAssumptions DEF Client!ServerAssumptions
<1>1. ToolsInit => Client!IInv
  BY ClientInit, Client!IInvInit, <1>0
<1>2. Client!IInv /\ [ToolsNext]_toolVars => Client!IInv'
  BY ClientSteps, Client!IInvNext, <1>0 DEF mcpVars, Client!mcpVars
<1>3. QED
  BY <1>1, <1>2, PTL DEF ToolsSpec

(* A job moves the local AI only by the steps of VlmManager.               *)
LEMMA VlmSteps == [ToolsNext]_toolVars => [Next]_vars
  BY DEF ToolsNext, toolVars, BodyBegins, UsesVlm, UsesTools, BodyLeaves, Surroundings, Next

LEMMA VlmTypeNext == TypeOK /\ [Next]_vars => TypeOK'
<1> SUFFICES ASSUME TypeOK, [Next]_vars PROVE TypeOK'
  OBVIOUS
<1>1. CASE UNCHANGED vars
  BY <1>1 DEF TypeOK, vars
<1>2. CASE JobBegins
  BY <1>2 DEF TypeOK, JobBegins, WGo
<1>3. CASE WorkerNext
  <2>1. CASE Need \/ CheckHealth \/ Probe \/ Recheck \/ JobEnds
    BY <2>1 DEF TypeOK, Need, CheckHealth, Probe, Recheck, JobEnds, WGo
  <2>2. CASE Launch
    <3>1. CASE WGo("poll") /\ UNCHANGED <<proc, process, foreign, loop>>
      BY <3>1 DEF TypeOK, WGo
    <3>2. CASE WGo("stop") /\ UNCHANGED <<proc, process, foreign, loop>>
      BY <3>2 DEF TypeOK, WGo
    <3>3. ASSUME NEW p \in Unused,
                 process' = [process EXCEPT ![p] = "loading"], worker' = [at |-> "store", has |-> p],
                 UNCHANGED <<proc, foreign, loop>>
          PROVE  TypeOK'
      BY <3>3 DEF TypeOK, Unused
    <3>4. QED
      BY <2>2, <3>1, <3>2, <3>3 DEF Launch
  <2>3. CASE Store
    BY <2>3 DEF TypeOK, Store
  <2>4. CASE Poll
    BY <2>4 DEF TypeOK, Poll, WGo
  <2>5. CASE WorkerTakes("giveup", "giveupend") \/ WorkerTakes("stop", "end")
    BY <2>5 DEF TypeOK, WorkerTakes
  <2>6. CASE WorkerEnds("giveupend", "stop") \/ WorkerEnds("end", "idle")
    BY <2>6 DEF TypeOK, WorkerEnds, Terminate
  <2>7. QED
    BY <1>3, <2>1, <2>2, <2>3, <2>4, <2>5, <2>6 DEF WorkerNext
<1>4. CASE Environment
  <2>1. CASE Shutdown \/ LoopNext
    BY <2>1 DEF TypeOK, Shutdown, LoopNext, LoopTakes, LoopEnds, Terminate
  <2>2. CASE ForeignChanges \/ \E p \in Procs : Loaded(p) \/ Exits(p)
    BY <2>2 DEF TypeOK, ForeignChanges, Loaded, Exits
  <2>3. QED
    BY <1>4, <2>1, <2>2 DEF Environment
<1>5. QED
  BY <1>1, <1>2, <1>3, <1>4 DEF Next

-----------------------------------------------------------------------------
(* Who may have a server: a job has none to find before it starts one, and *)
(* none in the field once it has taken it away; the shutdown has one only  *)
(* after a job has started it, and no job begins after that.               *)
Custody ==
    /\ loop.at # "end" => loop.has = None
    /\ worker.at \notin {"store", "giveupend", "end"} => worker.has = None
    /\ worker.at \notin {"poll", "probe", "giveup", "recheck", "reading", "stop"} => proc = None
    /\ worker.at \in {"need", "health", "alive", "store"} => loop.has = None

(* A server that lives is held by the field, by the job or by the          *)
(* shutdown, and one of these at most holds any.                           *)
Held(p) == p = proc \/ p = worker.has \/ p = loop.has

OneHolder ==
    /\ proc # None => worker.has = None /\ loop.has = None
    /\ worker.has # None => loop.has = None

NoneLost == \A p \in Procs : Alive(p) => Held(p)

VlmInv == TypeOK /\ Custody /\ OneHolder /\ NoneLost

LEMMA VlmInvInit == Init => VlmInv
BY DEF Init, VlmInv, TypeOK, Custody, OneHolder, NoneLost, Alive

LEMMA LaunchInv == ASSUME VlmInv, TypeOK', Launch PROVE VlmInv'
<1>1. /\ proc = None /\ loop.has = None /\ worker.has = None /\ worker.at = "alive"
      /\ UNCHANGED <<proc, foreign, loop>>
  BY DEF Launch, WAt, VlmInv, Custody
<1>2. CASE UNCHANGED process /\ (WGo("poll") \/ WGo("stop"))
  BY <1>1, <1>2 DEF VlmInv, TypeOK, Custody, OneHolder, NoneLost, Held, Alive, WGo
<1>3. ASSUME NEW p \in Unused, process' = [process EXCEPT ![p] = "loading"], worker' = [at |-> "store", has |-> p]
      PROVE  VlmInv'
  <2>1. \A q \in Procs : ~Alive(q)
    BY <1>1, ServerAssumptions DEF VlmInv, NoneLost, Held, Alive
  <2>2. NoneLost'
    BY <1>1, <1>3, <2>1 DEF NoneLost, Held, Alive, VlmInv, TypeOK, Unused
  <2>3. Custody' /\ OneHolder'
    BY <1>1, <1>3 DEF Custody, OneHolder, VlmInv
  <2>4. QED
    BY <2>2, <2>3 DEF VlmInv
<1>4. QED
  BY <1>2, <1>3 DEF Launch

LEMMA WorkerInv == ASSUME VlmInv, TypeOK', WorkerNext PROVE VlmInv'
<1>1. CASE Need \/ CheckHealth \/ Probe \/ Recheck \/ JobEnds
  BY <1>1 DEF VlmInv, TypeOK, Custody, OneHolder, NoneLost, Held, Alive,
              Need, CheckHealth, Probe, Recheck, JobEnds, WAt, WGo
<1>2. CASE Launch
  BY <1>2, LaunchInv
<1>3. CASE Store
  BY <1>3 DEF VlmInv, TypeOK, Custody, OneHolder, NoneLost, Held, Alive, Store, WAt
<1>4. CASE Poll
  BY <1>4 DEF VlmInv, TypeOK, Custody, OneHolder, NoneLost, Held, Alive, Poll, WAt, WGo
<1>5. ASSUME NEW from \in {"giveup", "stop"}, NEW to \in {"giveupend", "end"}, WorkerTakes(from, to)
      PROVE  VlmInv'
  BY <1>5 DEF VlmInv, TypeOK, Custody, OneHolder, NoneLost, Held, Alive, WorkerTakes, WAt
<1>6. ASSUME NEW from, NEW to, <<from, to>> \in {<<"giveupend", "stop">>, <<"end", "idle">>}, WorkerEnds(from, to)
      PROVE  VlmInv'
  <2>1. CASE WAt(from) /\ ~Ended(worker.has) /\ Terminate(worker.has)
    BY <2>1 DEF VlmInv, TypeOK, Custody, OneHolder, NoneLost, Held, Alive, Ended, Terminate
  <2>2. CASE /\ WAt(from)
             /\ worker' = [at |-> to, has |-> None]
             /\ process' = [p \in Procs |-> IF p = worker.has THEN "gone" ELSE process[p]]
             /\ UNCHANGED <<proc, foreign, loop>>
    <3>1. NoneLost'
      BY <2>2 DEF VlmInv, NoneLost, Held, Alive
    <3>2. Custody' /\ OneHolder'
      BY <1>6, <2>2 DEF VlmInv, Custody, OneHolder, WAt
    <3>3. QED
      BY <3>1, <3>2 DEF VlmInv
  <2>3. QED
    BY <1>6, <2>1, <2>2 DEF WorkerEnds
<1>7. QED
  BY <1>1, <1>2, <1>3, <1>4, <1>5, <1>6 DEF WorkerNext

LEMMA AroundInv == ASSUME VlmInv, TypeOK', JobBegins \/ Environment PROVE VlmInv'
<1>1. CASE JobBegins
  BY <1>1 DEF VlmInv, TypeOK, Custody, OneHolder, NoneLost, Held, Alive, JobBegins, WAt, WGo
<1>2. CASE Shutdown
  BY <1>2 DEF VlmInv, TypeOK, Custody, OneHolder, NoneLost, Held, Alive, Shutdown
<1>3. CASE LoopTakes
  BY <1>3 DEF VlmInv, TypeOK, Custody, OneHolder, NoneLost, Held, Alive, LoopTakes
<1>4. CASE LoopEnds
  BY <1>4 DEF VlmInv, TypeOK, Custody, OneHolder, NoneLost, Held, Alive, LoopEnds, Ended, Terminate
<1>5. CASE ForeignChanges
  BY <1>5 DEF VlmInv, Custody, OneHolder, NoneLost, Held, Alive, ForeignChanges
<1>6. ASSUME NEW p \in Procs, Loaded(p) \/ Exits(p) PROVE VlmInv'
  BY <1>6 DEF VlmInv, TypeOK, Custody, OneHolder, NoneLost, Held, Alive, Loaded, Exits
<1>7. QED
  BY <1>1, <1>2, <1>3, <1>4, <1>5, <1>6 DEF Environment, LoopNext

LEMMA VlmInvNext == VlmInv /\ [Next]_vars => VlmInv'
<1> SUFFICES ASSUME VlmInv, [Next]_vars PROVE VlmInv'
  OBVIOUS
<1>1. TypeOK'
  BY VlmTypeNext DEF VlmInv
<1>2. CASE UNCHANGED vars
  BY <1>1, <1>2 DEF vars, VlmInv, Custody, OneHolder, NoneLost, Held, Alive
<1>3. QED
  BY <1>1, <1>2, WorkerInv, AroundInv DEF Next

THEOREM VlmInvariance == ToolsSpec => []VlmInv
<1>1. ToolsInit => VlmInv
  BY VlmInvInit DEF ToolsInit
<1>2. VlmInv /\ [ToolsNext]_toolVars => VlmInv'
  BY VlmSteps, VlmInvNext
<1>3. QED
  BY <1>1, <1>2, PTL DEF ToolsSpec

(* For any number of processes there is never more than one llama-server   *)
(* of the app, whether a job or the shutdown is starting or ending one     *)
(* (ensure_ready, stop).                                                   *)
THEOREM NeverTwoServers == ToolsSpec => []OneServer
<1>1. VlmInv => OneServer
  <2> SUFFICES ASSUME VlmInv PROVE OneServer
    OBVIOUS
  <2> DEFINE S == {p \in Procs : Alive(p)}
  <2>1. \A p, q \in S : p = q
    BY ServerAssumptions DEF VlmInv, OneHolder, NoneLost, Held
  <2>2. S = {} \/ \E p \in S : S = {p}
    BY <2>1
  <2>3. Cardinality(S) <= 1
    <3> HIDE DEF S
    <3>1. Cardinality({}) = 0 /\ \A p : Cardinality({p}) = 1
      BY FS_EmptySet, FS_Singleton
    <3>2. Cardinality(S) = 0 \/ Cardinality(S) = 1
      BY <2>2, <3>1
    <3>3. QED
      BY <3>2
  <2>4. QED
    BY <2>3 DEF OneServer
<1>2. QED
  BY <1>1, VlmInvariance, PTL

(* When no job runs, no llama-server of the app is left, but one that the  *)
(* shutdown is ending (do_extract, lifespan).                              *)
THEOREM JobsStopTheirServer == ToolsSpec => []StopsWhatItStarted
<1>1. VlmInv => StopsWhatItStarted
  BY ServerAssumptions DEF VlmInv, Custody, NoneLost, Held, StopsWhatItStarted, WAt
<1>2. QED
  BY <1>1, VlmInvariance, PTL

-----------------------------------------------------------------------------
(* The jobs, their local AI and their tool clients keep to their types:    *)
(* the client by the invariant of McpSession, the local AI by itself.      *)
THEOREM ToolsTyping == ToolsSpec => []ToolsTypeOK
<1>1. ToolsInit => TypeOK
  BY DEF ToolsInit, Init, TypeOK
<1>2. TypeOK /\ [ToolsNext]_toolVars => TypeOK'
  BY VlmSteps, VlmTypeNext
<1>3. Client!IInv /\ TypeOK => ToolsTypeOK
  BY DEF ToolsTypeOK, Client!IInv, Client!TypeOK, Mcp!TypeOK, Client!Callers, Mcp!Callers, Client!Steps, Mcp!Steps
<1>4. QED
  BY <1>1, <1>2, <1>3, ClientInvariance, PTL DEF ToolsSpec

(* What a job leaves of its tool server has been told to stop, unless its  *)
(* start had been given up: for any numbers of processes, sessions and     *)
(* calls, whatever happens to the local AI (StdioToolCaller.__exit__).     *)
THEOREM ServersLeftAreTold == ToolsSpec => []NothingLeftServing
<1>1. Client!IInv => NothingLeftServing
  BY DEF Client!IInv, Client!NothingLeftServing, NothingLeftServing, Mcp!NothingLeftServing,
         Client!Live, Mcp!Live, Client!Told, Mcp!Told
<1>2. QED
  BY <1>1, ClientInvariance, PTL

(* No call of a job waits on a session that has ended, unless it was       *)
(* submitted to a loop already closing (_serve, asyncio.run).              *)
THEOREM CallsEndWithSessions == ToolsSpec => []NoCallOutlivesItsSession
<1>0. Client!ServerAssumptions
  BY ServerAssumptions DEF Client!ServerAssumptions
<1>1. Client!IInv => NoCallOutlivesItsSession
  BY <1>0 DEF Client!IInv, Client!WaitersFailed, NoCallOutlivesItsSession, Mcp!NoCallOutlivesItsSession,
         Mcp!CAt, Mcp!Live, Client!TypeOK, Client!Callers
<1>2. QED
  BY <1>1, ClientInvariance, PTL
=============================================================================
