-------------------------- MODULE McpSession_proof --------------------------
(***************************************************************************)
(* Proofs about the client of a tool server for any set of sessions and    *)
(* any number of calls: its types, that nothing it leaves behind has not   *)
(* been told to stop, and that no call waits on a session that has ended.  *)
(***************************************************************************)
EXTENDS McpSession, TLAPS

(* Where the fields of the client point.                                   *)
Pointers ==
    /\ caller.loop # None => caller.loop = caller.thread
    /\ caller.at \in {"out", "in"} /\ caller.loop = None => caller.thread = None
    /\ caller.at = "out" => caller.loop = None
    /\ caller.at = "starting" => caller.thread # None /\ caller.loop = None /\ caller.call < MaxCalls
    /\ caller.at \in {"ready", "waiting", "leaving"} => caller.loop # None
    /\ caller.holder => caller.at = "starting"

(* A session whose loop is known has come up.                              *)
CameUp ==
    /\ caller.loop # None => session[caller.loop].at # "starting"
    /\ caller.at = "starting" /\ caller.holder => session[caller.thread].at # "starting"

LeavingTold == caller.at = "leaving" /\ Live(caller.loop) => Told(caller.loop)

(* The moment from which a call that waits will not be cancelled any more. *)
WaitersFailed ==
    caller.at = "waiting" /\ session[caller.loop].at \in {"closing", "gone"} => caller.done \/ caller.unheard

IInv == TypeOK /\ Pointers /\ CameUp /\ LeavingTold /\ NothingLeftServing /\ WaitersFailed

-----------------------------------------------------------------------------
(* What happens to the queue of a session: a call is added, its first item *)
(* is taken, or its call is given up; a stop that is in it stays.          *)
Items == {"call", "void", Stop}

LEMMA QueueAppend ==
    ASSUME NEW q \in Seq(Items), NEW x \in Items
    PROVE  /\ Append(q, x) \in Seq(Items)
           /\ \E i \in DOMAIN Append(q, x) : Append(q, x)[i] = x
           /\ (\E i \in DOMAIN q : q[i] = Stop) => \E i \in DOMAIN Append(q, x) : Append(q, x)[i] = Stop
<1>1. /\ Append(q, x) \in Seq(Items)
      /\ DOMAIN Append(q, x) = 1 .. Len(q) + 1 /\ DOMAIN q = 1 .. Len(q) /\ Len(q) \in Nat
      /\ \A i \in 1 .. Len(q) : Append(q, x)[i] = q[i]
      /\ Append(q, x)[Len(q) + 1] = x
  OBVIOUS
<1>2. Len(q) + 1 \in DOMAIN Append(q, x) /\ \A i \in DOMAIN q : i \in DOMAIN Append(q, x)
  BY <1>1
<1>3. QED
  BY <1>1, <1>2

LEMMA QueueTail ==
    ASSUME NEW q \in Seq(Items), q # <<>>
    PROVE  /\ Head(q) \in Items /\ Tail(q) \in Seq(Items)
           /\ (\E i \in DOMAIN q : q[i] = Stop) /\ Head(q) # Stop => \E i \in DOMAIN Tail(q) : Tail(q)[i] = Stop
<1>1. /\ Head(q) \in Items /\ Tail(q) \in Seq(Items)
      /\ DOMAIN Tail(q) = 1 .. Len(q) - 1 /\ DOMAIN q = 1 .. Len(q) /\ Len(q) \in Nat
      /\ Head(q) = q[1]
      /\ \A i \in 1 .. Len(q) - 1 : Tail(q)[i] = q[i + 1]
  OBVIOUS
<1>2. ASSUME NEW i \in DOMAIN q, q[i] = Stop, Head(q) # Stop
      PROVE  i - 1 \in DOMAIN Tail(q) /\ Tail(q)[i - 1] = Stop
  <2>1. i # 1
    BY <1>1, <1>2
  <2>2. i - 1 \in 1 .. Len(q) - 1 /\ (i - 1) + 1 = i
    BY <1>1, <2>1
  <2>3. QED
    BY <1>1, <1>2, <2>2
<1>3. QED
  BY <1>1, <1>2

LEMMA QueueVoided ==
    ASSUME NEW q \in Seq(Items)
    PROVE  LET v == [i \in DOMAIN q |-> Voided(q[i])]
           IN  /\ v \in Seq(Items)
               /\ (\E i \in DOMAIN q : q[i] = Stop) => \E i \in DOMAIN v : v[i] = Stop
<1> DEFINE v == [i \in DOMAIN q |-> Voided(q[i])]
<1>1. DOMAIN q = 1 .. Len(q) /\ Len(q) \in Nat /\ \A i \in 1 .. Len(q) : q[i] \in Items
  OBVIOUS
<1>2. \A i \in 1 .. Len(q) : Voided(q[i]) \in Items
  BY <1>1 DEF Voided, Items
<1>3. v \in [1 .. Len(q) -> Items]
  BY <1>1, <1>2
<1>4. v \in Seq(Items)
  BY <1>1, <1>3
<1>5. ASSUME NEW i \in DOMAIN q, q[i] = Stop PROVE i \in DOMAIN v /\ v[i] = Stop
  BY <1>5, ServerAssumptions DEF Voided
<1>6. QED
  BY <1>4, <1>5

-----------------------------------------------------------------------------
SessionType == [at : Steps, queue : Seq(Items), item : {"call", "void", None}]

LEMMA NoSessionType == NoSession \in SessionType /\ [NoSession EXCEPT !.at = "starting"] \in SessionType
                       /\ [NoSession EXCEPT !.at = "ended"] \in SessionType
<1>1. <<>> \in Seq(Items)
  OBVIOUS
<1>2. QED
  BY <1>1 DEF NoSession, SessionType, Steps

LEMMA NoCallYet == 0 \in 0..MaxCalls
  BY ServerAssumptions

LEMMA TypeInit == Init => TypeOK
<1> SUFFICES ASSUME Init PROVE TypeOK
  OBVIOUS
<1>1. caller \in Callers
  BY NoCallYet DEF Init, Callers
<1>2. session \in [Sessions -> SessionType]
  BY NoSessionType DEF Init
<1>3. QED
  BY <1>1, <1>2 DEF TypeOK, SessionType, Items

(* The steps of the caller change at most the queue and the item of one    *)
(* session.                                                                *)
LEMMA TypeCaller ==
    ASSUME TypeOK, Pointers, Enter \/ Call \/ Leave
    PROVE  TypeOK'
<1> USE DEF Items
<1>1. caller \in Callers /\ session \in [Sessions -> SessionType]
  BY DEF TypeOK, SessionType
<1>2. SUFFICES caller' \in Callers /\ session' \in [Sessions -> SessionType]
  BY DEF TypeOK, SessionType
<1>3. CASE Enter
  BY <1>1, <1>3 DEF Enter, CAt, Callers
<1>4. CASE Start
  <2> DEFINE s == CHOOSE s \in Sessions : ~Live(s)
  <2>1. s \in Sessions
    BY <1>4 DEF Start
  <2>2. session' = [session EXCEPT ![s] = [NoSession EXCEPT !.at = "starting"]]
        /\ caller' = [caller EXCEPT !.at = "starting", !.thread = s]
    BY <1>4 DEF Start
  <2> HIDE DEF s
  <2>3. QED
    BY <1>1, <2>1, <2>2, NoSessionType DEF Callers
<1>5. CASE Started
  BY <1>1, <1>5 DEF Started, CAt, Callers
<1>6. CASE NotStarted
  <2>1. caller.call + 1 \in 0..MaxCalls
    BY <1>1, <1>6, ServerAssumptions DEF NotStarted, CAt, Callers, Pointers
  <2>2. QED
    BY <1>1, <1>6, <2>1 DEF NotStarted, CAt, Callers, Pointers
<1>7. CASE Submit
  <2>1. caller.loop \in Sessions /\ caller.call + 1 \in 0..MaxCalls
    BY <1>1, <1>7, ServerAssumptions DEF Submit, CAt, Callers, Pointers
  <2>2. caller' \in Callers
    BY <1>1, <1>7, <2>1 DEF Submit, Callers
  <2>3. Append(session[caller.loop].queue, "call") \in Seq(Items)
    BY <1>1, <2>1, QueueAppend DEF SessionType
  <2>4. session' \in [Sessions -> SessionType]
    BY <1>1, <1>7, <2>1, <2>3 DEF Submit, SessionType
  <2>5. QED
    BY <2>2, <2>4
<1>8. CASE Returned
  BY <1>1, <1>8 DEF Returned, CAt, Callers
<1>9. CASE TimedOut
  <2>1. caller.loop \in Sessions
    BY <1>1, <1>9 DEF TimedOut, CAt, Callers, Pointers
  <2> DEFINE q == session[caller.loop].queue
             v == [i \in DOMAIN q |-> Voided(q[i])]
  <2>2. q \in Seq(Items) /\ session[caller.loop].item \in {"call", "void", None}
    BY <1>1, <2>1 DEF SessionType
  <2>3. v \in Seq(Items) /\ Voided(session[caller.loop].item) \in {"call", "void", None}
    BY <2>2, QueueVoided DEF Voided
  <2>4. session' = [session EXCEPT ![caller.loop].item = Voided(@), ![caller.loop].queue = v]
    BY <1>9 DEF TimedOut
  <2>5. session' \in [Sessions -> SessionType]
    <3> HIDE DEF v, q
    <3> QED
      BY <1>1, <2>1, <2>3, <2>4 DEF SessionType
  <2>6. QED
    BY <1>1, <1>9, <2>5 DEF TimedOut, Callers
<1>10. CASE Exit
  <2>1. caller' \in Callers
    BY <1>1, <1>10, NoCallYet DEF Exit, Callers
  <2>2. ASSUME caller.loop # None
        PROVE  caller.loop \in Sessions /\ Append(session[caller.loop].queue, Stop) \in Seq(Items)
    <3>1. caller.loop \in Sessions
      BY <1>1, <2>2 DEF Callers
    <3>2. session[caller.loop].queue \in Seq(Items) /\ Stop \in Items
      BY <1>1, <3>1 DEF SessionType
    <3>3. QED
      BY <3>1, <3>2, QueueAppend
  <2>3. session' \in [Sessions -> SessionType]
    BY <1>1, <1>10, <2>2 DEF Exit, SessionType
  <2>4. QED
    BY <2>1, <2>3
<1>11. CASE Left
  BY <1>1, <1>11, NoCallYet DEF Left, CAt, Callers
<1>12. QED
  BY <1>3, <1>4, <1>5, <1>6, <1>7, <1>8, <1>9, <1>10, <1>11 DEF Call, Leave
(* The steps of a session thread.                                          *)
LEMMA TypeSession ==
    ASSUME TypeOK, NEW s \in Sessions,
           Opened(s) \/ Take(s) \/ Answer(s) \/ End(s) \/ CancelAll(s) \/ Close(s)
    PROVE  TypeOK'
<1> USE DEF Items
<1>1. caller \in Callers /\ session \in [Sessions -> SessionType]
  BY DEF TypeOK, SessionType
<1>2. SUFFICES caller' \in Callers /\ session' \in [Sessions -> SessionType]
  BY DEF TypeOK, SessionType
<1>3. CASE Opened(s)
  BY <1>1, <1>3 DEF Opened, SGo, Callers, SessionType, Steps
<1>4. CASE Take(s)
  <2>1. Head(session[s].queue) \in Items /\ Tail(session[s].queue) \in Seq(Items)
    BY <1>1, <1>4, QueueTail DEF Take, SessionType
  <2>2. QED
    BY <1>1, <1>4, <2>1 DEF Take, SessionType, Steps
<1>5. CASE Answer(s)
  BY <1>1, <1>5 DEF Answer, Callers, SessionType, Steps
<1>6. CASE End(s)
  BY <1>1, <1>6, NoSessionType DEF End, Callers
<1>7. CASE CancelAll(s)
  <2>1. <<>> \in Seq(Items)
    OBVIOUS
  <2>2. QED
    BY <1>1, <1>7, <2>1 DEF CancelAll, Callers, SessionType, Steps
<1>8. CASE Close(s)
  BY <1>1, <1>8, NoSessionType DEF Close, Callers
<1>9. QED
  BY <1>3, <1>4, <1>5, <1>6, <1>7, <1>8
-----------------------------------------------------------------------------
(* The fields of the client.                                               *)
LEMMA PointersKept ==
    ASSUME TypeOK, Pointers, Enter \/ Call \/ Leave
    PROVE  Pointers'
<1>1. caller \in Callers
  BY DEF TypeOK
<1>2. CASE Enter
  BY <1>1, <1>2 DEF Enter, CAt, Callers, Pointers
<1>3. CASE Start
  <2> DEFINE s == CHOOSE s \in Sessions : ~Live(s)
  <2>1. s \in Sessions /\ s # None
    BY <1>3, ServerAssumptions DEF Start
  <2>2. caller' = [caller EXCEPT !.at = "starting", !.thread = s] /\ caller.loop = None /\ caller.call < MaxCalls
    BY <1>3 DEF Start
  <2> HIDE DEF s
  <2>3. QED
    BY <1>1, <2>1, <2>2 DEF Callers, Pointers
<1>4. CASE Started
  BY <1>1, <1>4 DEF Started, CAt, Callers, Pointers
<1>5. CASE NotStarted
  BY <1>1, <1>5 DEF NotStarted, CAt, Callers, Pointers
<1>6. CASE Submit
  BY <1>1, <1>6 DEF Submit, CAt, Callers, Pointers
<1>7. CASE Returned
  BY <1>1, <1>7 DEF Returned, CAt, Callers, Pointers
<1>8. CASE TimedOut
  BY <1>1, <1>8 DEF TimedOut, CAt, Callers, Pointers
<1>9. CASE Exit
  BY <1>1, <1>9 DEF Exit, CAt, Callers, Pointers
<1>10. CASE Left
  BY <1>1, <1>10 DEF Left, CAt, Callers, Pointers
<1>11. QED
  BY <1>2, <1>3, <1>4, <1>5, <1>6, <1>7, <1>8, <1>9, <1>10 DEF Call, Leave

(* What a session thread changes of the client: nothing it points at.      *)
LEMMA SessionOnly ==
    ASSUME TypeOK, NEW s \in Sessions,
           Opened(s) \/ Take(s) \/ Answer(s) \/ End(s) \/ CancelAll(s) \/ Close(s)
    PROVE  /\ caller'.at = caller.at /\ caller'.thread = caller.thread /\ caller'.loop = caller.loop
           /\ caller'.call = caller.call /\ caller'.unheard = caller.unheard
           /\ caller.done => caller'.done
           /\ caller'.late = caller.late \/ (Close(s) /\ caller'.late = caller.late \ {s})
           /\ caller'.holder = caller.holder \/ (Opened(s) /\ caller.at = "starting" /\ caller.thread = s)
           /\ \A x \in Sessions \ {s} : session'[x] = session[x]
<1>1. caller \in Callers /\ session \in [Sessions -> SessionType]
  BY DEF TypeOK, SessionType, Items
<1>2. CASE Opened(s)
  BY <1>1, <1>2 DEF Opened, SGo, CAt, Callers, SessionType
<1>3. CASE Take(s)
  BY <1>1, <1>3 DEF Take, Callers, SessionType
<1>4. CASE Answer(s)
  BY <1>1, <1>4 DEF Answer, Callers, SessionType
<1>5. CASE End(s)
  BY <1>1, <1>5 DEF End, Callers, SessionType
<1>6. CASE CancelAll(s)
  BY <1>1, <1>6 DEF CancelAll, Callers, SessionType
<1>7. CASE Close(s)
  BY <1>1, <1>7 DEF Close, Callers, SessionType
<1>8. QED
  BY <1>2, <1>3, <1>4, <1>5, <1>6, <1>7

(* A session that was told to stop stays told, whatever its thread does,   *)
(* until it is gone; and it does not go back to its start.                 *)
LEMMA ThreadStep ==
    ASSUME TypeOK, NEW s \in Sessions,
           Opened(s) \/ Take(s) \/ Answer(s) \/ End(s) \/ CancelAll(s) \/ Close(s)
    PROVE  /\ Live(s)' => Live(s)
           /\ Told(s) /\ Live(s)' => Told(s)'
           /\ session'[s].at # "starting"
           /\ session'[s].at \in {"closing", "gone"} /\ session[s].at \notin {"closing", "gone"} => CancelAll(s)
<1>1. session \in [Sessions -> SessionType]
  BY DEF TypeOK, SessionType, Items
<1>2. CASE Opened(s)
  BY <1>1, <1>2 DEF Opened, SGo, Live, Told, SessionType
<1>3. CASE Take(s)
  <2>1. session[s].queue \in Seq(Items) /\ session[s].queue # <<>>
    BY <1>1, <1>3 DEF Take, SessionType
  <2>2. (\E i \in DOMAIN session[s].queue : session[s].queue[i] = Stop) /\ Head(session[s].queue) # Stop
        => \E i \in DOMAIN Tail(session[s].queue) : Tail(session[s].queue)[i] = Stop
    BY <2>1, QueueTail
  <2>3. /\ session[s].at = "serving"
        /\ session'[s].queue = Tail(session[s].queue)
        /\ session'[s].at = IF Head(session[s].queue) = Stop THEN "stopping" ELSE "working"
    BY <1>1, <1>3 DEF Take, SessionType
  <2>4. QED
    BY <2>2, <2>3 DEF Live, Told
<1>4. CASE Answer(s)
  BY <1>1, <1>4 DEF Answer, Live, Told, SessionType
<1>5. CASE End(s)
  BY <1>1, <1>5 DEF End, Live, Told, SessionType, NoSession
<1>6. CASE CancelAll(s)
  BY <1>1, <1>6 DEF CancelAll, Live, Told, SessionType
<1>7. CASE Close(s)
  BY <1>1, <1>7 DEF Close, Live, Told, SessionType, NoSession
<1>8. QED
  BY <1>2, <1>3, <1>4, <1>5, <1>6, <1>7
LEMMA IInvSession ==
    ASSUME IInv, NEW s \in Sessions,
           Opened(s) \/ Take(s) \/ Answer(s) \/ End(s) \/ CancelAll(s) \/ Close(s)
    PROVE  IInv'
<1> USE DEF IInv
<1>1. TypeOK'
  BY TypeSession
<1>2. Pointers'
  BY SessionOnly DEF Pointers
<1>3. CameUp'
  BY SessionOnly, ThreadStep, <1>1 DEF CameUp, TypeOK, Callers, Pointers
<1>4. \A x \in Sessions \ {s} : (Live(x)' <=> Live(x)) /\ (Told(x)' <=> Told(x))
  BY SessionOnly DEF Live, Told
<1>5. \A x \in Sessions : (Live(x)' => Live(x)) /\ (Live(x)' /\ Told(x) => Told(x)')
  BY <1>4, ThreadStep
<1>6. LeavingTold'
  <2>1. ASSUME caller'.at = "leaving", (Live(caller.loop))' PROVE (Told(caller.loop))'
    <3>1. caller.at = "leaving" /\ caller'.loop = caller.loop /\ caller.loop \in Sessions
      BY <2>1, SessionOnly DEF Pointers, TypeOK, Callers
    <3>2. Live(caller.loop)' => Live(caller.loop)
      BY <1>5, <3>1
    <3>3. QED
      BY <1>5, <2>1, <3>1 DEF LeavingTold
  <2>2. QED
    BY <2>1 DEF LeavingTold
<1>7. NothingLeftServing'
  <2>1. Close(s) => ~Live(s)'
    BY DEF Close, Live, NoSession, TypeOK
  <2>2. ASSUME NEW x \in Sessions, Live(x)', x # caller'.thread, x \notin caller'.late PROVE Told(x)'
    <3>1. x # caller.thread /\ x \notin caller.late
      BY <2>1, <2>2, SessionOnly
    <3>2. QED
      BY <1>5, <2>2, <3>1 DEF NothingLeftServing
  <2>3. QED
    BY <2>2 DEF NothingLeftServing
<1>8. WaitersFailed'
  <2>1. ASSUME caller'.at = "waiting", session'[caller'.loop].at \in {"closing", "gone"}
        PROVE  caller'.done \/ caller'.unheard
    <3>1. caller.at = "waiting" /\ caller'.loop = caller.loop /\ caller.loop \in Sessions
      BY <2>1, SessionOnly DEF Pointers, TypeOK, Callers
    <3>2. CASE session[caller.loop].at \in {"closing", "gone"}
      BY <3>1, <3>2, SessionOnly DEF WaitersFailed
    <3>3. CASE session[caller.loop].at \notin {"closing", "gone"}
      <4>1. caller.loop = s
        BY <2>1, <3>1, <3>3, SessionOnly
      <4>2. CancelAll(s)
        BY <2>1, <3>1, <3>3, <4>1, ThreadStep
      <4>3. caller'.done
        BY <3>1, <4>1, <4>2 DEF CancelAll, CAt, TypeOK, Callers
      <4>4. QED
        BY <4>3
    <3>4. QED
      BY <3>2, <3>3
  <2>2. QED
    BY <2>1 DEF WaitersFailed
<1>9. QED
  BY <1>1, <1>2, <1>3, <1>6, <1>7, <1>8

-----------------------------------------------------------------------------
(* What the caller changes of the sessions: it starts one, or adds to or   *)
(* marks in the queue of the one it holds.                                 *)
LEMMA CallerOnly ==
    ASSUME TypeOK, Pointers, Enter \/ Call \/ Leave
    PROVE  \A x \in Sessions :
             /\ session'[x].at = session[x].at \/ (Start /\ x = caller'.thread /\ session[x].at = "gone")
             /\ Told(x) /\ Live(x) => Told(x)'
<1>1. caller \in Callers /\ session \in [Sessions -> SessionType]
  BY DEF TypeOK, SessionType, Items
<1>2. CASE UNCHANGED session
  BY <1>2 DEF Told
<1>3. CASE Start
  <2> DEFINE s == CHOOSE s \in Sessions : ~Live(s)
  <2>1. s \in Sessions /\ ~Live(s)
    BY <1>3 DEF Start
  <2>2. caller'.thread = s /\ session' = [session EXCEPT ![s] = [NoSession EXCEPT !.at = "starting"]]
    BY <1>1, <1>3 DEF Start, Callers
  <2> HIDE DEF s
  <2>3. QED
    BY <1>1, <1>3, <2>1, <2>2 DEF Live, Told, SessionType
<1>4. CASE Submit \/ TimedOut \/ (Exit /\ caller.loop # None)
  <2>1. caller.loop \in Sessions
    BY <1>1, <1>4 DEF Submit, TimedOut, CAt, Callers, Pointers
  <2> DEFINE q == session[caller.loop].queue
             v == [i \in DOMAIN q |-> Voided(q[i])]
  <2>2. q \in Seq(Items)
    BY <1>1, <2>1 DEF SessionType
  <2>3. /\ (\E i \in DOMAIN q : q[i] = Stop) => \E i \in DOMAIN v : v[i] = Stop
        /\ \A c \in Items : (\E i \in DOMAIN q : q[i] = Stop) => \E i \in DOMAIN Append(q, c) : Append(q, c)[i] = Stop
    <3>1. (\E i \in DOMAIN q : q[i] = Stop) => \E i \in DOMAIN v : v[i] = Stop
      BY <2>2, QueueVoided
    <3>2. ASSUME NEW c \in Items, \E i \in DOMAIN q : q[i] = Stop
          PROVE  \E i \in DOMAIN Append(q, c) : Append(q, c)[i] = Stop
      <4> HIDE DEF q
      <4> QED
        BY <2>2, <3>2, QueueAppend
    <3>3. QED
      BY <3>1, <3>2
  <2>4. /\ \A x \in Sessions : session'[x].at = session[x].at
        /\ \A x \in Sessions \ {caller.loop} : session'[x] = session[x]
        /\ session'[caller.loop].queue \in {q, v, Append(q, "call"), Append(q, Stop)}
    <3>1. CASE Submit
      BY <1>1, <2>1, <3>1 DEF Submit, SessionType
    <3>2. CASE TimedOut
      <4>1. session' = [session EXCEPT ![caller.loop].item = Voided(@), ![caller.loop].queue = v]
        BY <3>2 DEF TimedOut
      <4> HIDE DEF v
      <4>2. QED
        BY <1>1, <2>1, <4>1 DEF SessionType
    <3>3. CASE Exit /\ caller.loop # None
      BY <1>1, <2>1, <3>3 DEF Exit, SessionType
    <3>4. QED
      BY <1>4, <3>1, <3>2, <3>3
  <2> HIDE DEF v
  <2>5. \A x \in Sessions : Told(x) => Told(x)'
    BY <2>3, <2>4 DEF Told, Items
  <2>6. QED
    BY <2>4, <2>5
<1>5. QED
  BY <1>2, <1>3, <1>4 DEF Enter, Call, Started, NotStarted, Returned, Leave, Exit, Left
LEMMA IInvCaller ==
    ASSUME IInv, Enter \/ Call \/ Leave
    PROVE  IInv'
<1> USE DEF IInv
<1>1. TypeOK' /\ Pointers' /\ caller \in Callers /\ caller' \in Callers
  BY TypeCaller, PointersKept DEF TypeOK
<1>2. CameUp'
  <2>1. caller'.loop # None => caller.loop = caller'.loop \/ (Started /\ caller'.loop = caller.thread)
    BY <1>1 DEF Callers, Enter, Call, Leave, Start, Started, NotStarted, Submit, Returned, TimedOut, Exit, Left
  <2>2. caller'.loop # None => session[caller'.loop].at # "starting"
    BY <1>1, <2>1 DEF CameUp, Started, CAt
  <2>3. Start => caller'.loop = None
    BY <1>1 DEF Start, Callers
  <2>4. ~(caller'.at = "starting" /\ caller'.holder)
    <3>1. caller.holder => caller.at = "starting"
      BY DEF Pointers
    <3>2. QED
      BY <1>1, <3>1 DEF Callers, Enter, Call, Leave, Start, Started, NotStarted, Submit, Returned, TimedOut, Exit, Left, CAt
  <2>5. caller'.loop \in Sessions \cup {None}
    BY <1>1 DEF Callers
  <2>6. QED
    BY <2>2, <2>3, <2>4, <2>5, CallerOnly DEF CameUp
<1>3. LeavingTold'
  <2>1. ASSUME caller'.at = "leaving", (Live(caller.loop))' PROVE (Told(caller.loop))'
    <3>1. Exit /\ caller.loop # None /\ caller'.loop = caller.loop
      BY <1>1, <2>1 DEF Callers, Enter, Call, Leave, Start, Started, NotStarted, Submit, Returned, TimedOut, Exit, Left, CAt
    <3>2. caller.loop \in Sessions /\ session \in [Sessions -> SessionType]
      BY <3>1 DEF TypeOK, Callers, SessionType, Items
    <3>3. CASE session[caller.loop].at \in {"serving", "working", "ended"}
      <4>1. session[caller.loop].queue \in Seq(Items) /\ Stop \in Items
        BY <3>2 DEF SessionType, Items
      <4>2. session'[caller.loop].queue = Append(session[caller.loop].queue, Stop)
        BY <3>1, <3>2, <3>3 DEF Exit, SessionType
      <4>3. QED
        BY <3>1, <4>1, <4>2, QueueAppend DEF Told
    <3>4. CASE session[caller.loop].at \notin {"serving", "working", "ended"}
      <4>1. session' = session
        BY <3>1, <3>4 DEF Exit
      <4>2. session[caller.loop].at \in {"stopping", "closing"}
        BY <2>1, <3>1, <3>2, <3>4, <4>1 DEF CameUp, Live, SessionType, Steps
      <4>3. QED
        BY <3>1, <4>1, <4>2 DEF Told
    <3>5. QED
      BY <3>3, <3>4
  <2>2. QED
    BY <2>1 DEF LeavingTold
<1>4. NothingLeftServing'
  <2>1. ASSUME NEW x \in Sessions, Live(x)', x # caller'.thread, x \notin caller'.late PROVE Told(x)'
    <3>1. Live(x)
      BY <2>1, CallerOnly DEF Live
    <3>2. Told(x)
      <4>1. CASE x # caller.thread
        <5>1. caller'.late = caller.late \/ NotStarted
          BY <1>1 DEF Callers, Enter, Call, Leave, Start, Started, Submit, Returned, TimedOut, Exit, Left
        <5>2. NotStarted => caller.late \subseteq caller'.late
          <6>1. ASSUME NotStarted
                PROVE  caller'.late = IF Live(caller.thread) THEN caller.late \cup {caller.thread} ELSE caller.late
            BY <1>1, <6>1 DEF NotStarted, Callers
          <6>2. QED
            BY <6>1
        <5>3. QED
          BY <2>1, <3>1, <4>1, <5>1, <5>2 DEF NothingLeftServing
      <4>2. CASE x = caller.thread
        <5>1. NotStarted \/ Left \/ Start
          BY <1>1, <2>1, <4>2 DEF Callers, Enter, Call, Leave, Started, Submit, Returned, TimedOut, Exit
        <5>2. CASE NotStarted
          BY <1>1, <2>1, <3>1, <4>2, <5>2 DEF NotStarted, Callers
        <5>3. CASE Left
          BY <3>1, <4>2, <5>3 DEF Left, CAt, LeavingTold, Pointers
        <5>4. CASE Start
          BY <4>2, <5>4, ServerAssumptions DEF Start, CAt, Pointers
        <5>5. QED
          BY <5>1, <5>2, <5>3, <5>4
      <4>3. QED
        BY <4>1, <4>2
    <3>3. QED
      BY <3>1, <3>2, CallerOnly
  <2>2. QED
    BY <2>1 DEF NothingLeftServing
<1>5. WaitersFailed'
  <2>1. ASSUME caller'.at = "waiting", session'[caller'.loop].at \in {"closing", "gone"}
        PROVE  caller'.done \/ caller'.unheard
    <3>1. Submit /\ caller'.loop = caller.loop /\ Live(caller.loop)
      BY <1>1, <2>1 DEF Callers, Enter, Call, Leave, Start, Started, NotStarted, Submit, Returned, TimedOut, Exit, Left, CAt
    <3>2. caller.loop \in Sessions /\ ~Start
      BY <1>1, <2>1, <3>1 DEF Callers, Submit, Start, CAt, Pointers
    <3>3. session[caller.loop].at = "closing"
      BY <2>1, <3>1, <3>2, CallerOnly DEF Live
    <3>4. QED
      BY <1>1, <3>1, <3>3 DEF Submit, Callers
  <2>2. QED
    BY <2>1 DEF WaitersFailed
<1>6. QED
  BY <1>1, <1>2, <1>3, <1>4, <1>5

LEMMA IInvNext == IInv /\ [Next]_mcpVars => IInv'
<1> SUFFICES ASSUME IInv, [Next]_mcpVars PROVE IInv'
  OBVIOUS
<1>1. CASE UNCHANGED mcpVars
  BY <1>1 DEF mcpVars, IInv, TypeOK, Pointers, CameUp, LeavingTold, NothingLeftServing, WaitersFailed, Live, Told
<1>2. CASE Next
  BY <1>2, IInvCaller, IInvSession DEF Next, SessionNext
<1>3. QED
  BY <1>1, <1>2

LEMMA IInvInit == Init => IInv
<1> SUFFICES ASSUME Init PROVE IInv
  OBVIOUS
<1>1. TypeOK
  BY TypeInit
<1>2. \A s \in Sessions : ~Live(s)
  BY DEF Init, Live, NoSession
<1>3. QED
  BY <1>1, <1>2 DEF Init, IInv, Pointers, CameUp, LeavingTold, NothingLeftServing, WaitersFailed

(* Invariance: after every step of the caller and of its session threads   *)
(* the fields of the client, its queues and its waiting call agree.        *)
THEOREM Invariance == Spec => []IInv
BY IInvInit, IInvNext, PTL DEF Spec

(* Every server that a client no longer holds has been told to stop,       *)
(* unless its start had been given up, for any number of sessions and      *)
(* calls (StdioToolCaller.__exit__).                                       *)
THEOREM LeftServersAreTold == Spec => []NothingLeftServing
BY Invariance, PTL DEF IInv

(* No call waits on a session that has ended, unless it was submitted to a *)
(* loop already closing (_serve, asyncio.run).                             *)
THEOREM WaitingCallsAreFailed == Spec => []NoCallOutlivesItsSession
<1>1. IInv => NoCallOutlivesItsSession
  BY DEF IInv, WaitersFailed, NoCallOutlivesItsSession, CAt, Live, TypeOK, Callers
<1>2. QED
  BY <1>1, Invariance, PTL
=============================================================================
