----------------------------- MODULE McpSession -----------------------------
(***************************************************************************)
(* The client of a tool server (mcp_client.py StdioToolCaller, lazy) as    *)
(* one job uses it: `with` enters without starting anything, the first     *)
(* call starts a session thread with an event loop and a server of its     *)
(* own, later calls go through the queue of that session, and the end of   *)
(* the `with` asks it to stop.  Every wait of the caller has a time limit  *)
(* and the server may hang anywhere.  A job makes its client anew, so the  *)
(* client is reset by Enter; threads that were given up live on.           *)
(***************************************************************************)
EXTENDS ServerParameters, Sequences

VARIABLES caller,    (* the thread that calls, and the fields of its client *)
          session    (* per session thread: its step, queue and item        *)

mcpVars == <<caller, session>>

Steps == {"gone", "starting", "serving", "working", "stopping", "ended", "closing"}
NoSession == [at |-> "gone", queue |-> <<>>, item |-> None]

Live(s) == session[s].at # "gone"

(* An item is a call with its future: "void" once the caller has given up. *)
Voided(i) == IF i = "call" THEN "void" ELSE i

Callers == [at : {"out", "in", "starting", "ready", "waiting", "leaving"},
            thread : Sessions \cup {None},  (* _thread                    *)
            loop : Sessions \cup {None},    (* _loop and _queue           *)
            call : 0..MaxCalls,
            done : BOOLEAN,                 (* the future of the call has a result or an error *)
            holder : BOOLEAN,               (* the session being started has put its loop there *)
            unheard : BOOLEAN,              (* the call came too late for its loop *)
            late : SUBSET Sessions]         (* history: sessions whose start was given up *)

TypeOK ==
    /\ caller \in Callers
    /\ session \in [Sessions -> [at : Steps, queue : Seq({"call", "void", Stop}), item : {"call", "void", None}]]

Init ==
    /\ caller = [at |-> "out", thread |-> None, loop |-> None, call |-> 0, done |-> FALSE,
                 holder |-> FALSE, unheard |-> FALSE, late |-> {}]
    /\ session = [s \in Sessions |-> NoSession]

CAt(a) == caller.at = a
SGo(s, a) == session' = [session EXCEPT ![s].at = a]

-----------------------------------------------------------------------------
Enter ==
    /\ CAt("out")
    /\ caller' = [caller EXCEPT !.at = "in"]
    /\ UNCHANGED session

(* call_many before a session exists: _start.                              *)
Start ==
    /\ CAt("in") /\ caller.loop = None /\ caller.call < MaxCalls
    /\ \E s \in Sessions : ~Live(s)
    /\ LET s == CHOOSE s \in Sessions : ~Live(s)  (* all are alike *)
       IN  /\ session' = [session EXCEPT ![s] = [NoSession EXCEPT !.at = "starting"]]
           /\ caller' = [caller EXCEPT !.at = "starting", !.thread = s]

(* holder["loop"] is there, whatever became of the session since.          *)
Started ==
    /\ CAt("starting") /\ caller.holder
    /\ caller' = [caller EXCEPT !.at = "ready", !.loop = caller.thread, !.holder = FALSE]
    /\ UNCHANGED session

(* 180 seconds have passed, or the session ended without a loop; after     *)
(* join(timeout=5) the call raises.  A session that comes up after all     *)
(* serves nobody.                                                          *)
NotStarted ==
    /\ CAt("starting") /\ ~caller.holder
    /\ caller' = [caller EXCEPT !.at = "in", !.call = @ + 1, !.thread = None,
                                !.late = IF Live(caller.thread) THEN @ \cup {caller.thread} ELSE @]
    /\ UNCHANGED session

(* _submit on the loop of the session: the call is queued, or is cancelled *)
(* with the loop, or is never heard of, or raises at once.                 *)
Submit ==
    /\ CAt("ready") \/ (CAt("in") /\ caller.loop # None)
    /\ caller.call < MaxCalls
    /\ LET s == caller.loop
       IN  /\ caller' = [caller EXCEPT !.call = @ + 1,
                                       !.at = IF Live(s) THEN "waiting" ELSE "in",
                                       !.unheard = session[s].at = "closing"]
           /\ session' = IF session[s].at \in {"serving", "working", "ended"}
                         THEN [session EXCEPT ![s].queue = Append(@, "call")]
                         ELSE session

(* The future is done.                                                     *)
Returned ==
    /\ CAt("waiting") /\ caller.done
    /\ caller' = [caller EXCEPT !.at = "in", !.done = FALSE, !.unheard = FALSE]
    /\ UNCHANGED session

(* Mutant: result() without a time limit.                                  *)
TimedOut_Never ==
    /\ CAt("waiting") /\ caller.done
    /\ caller' = [caller EXCEPT !.at = "in", !.done = FALSE, !.unheard = FALSE]
    /\ UNCHANGED session

(* result(timeout=self.timeout): the call raises and stays in the queue.   *)
TimedOut ==
    /\ CAt("waiting") /\ ~caller.done
    /\ caller' = [caller EXCEPT !.at = "in", !.unheard = FALSE]
    /\ session' = [session EXCEPT ![caller.loop].item = Voided(@),
                                  ![caller.loop].queue = [i \in DOMAIN @ |-> Voided(@[i])]]

(* Mutant: the fields are cleared before the session is told.              *)
Exit_Forgets ==
    /\ CAt("in")
    /\ caller' = [caller EXCEPT !.at = "out", !.thread = None, !.loop = None]
    /\ UNCHANGED session

(* __exit__.  The stop is queued behind whatever the session still works   *)
(* at; a loop that is gone is passed over.                                 *)
Exit ==
    /\ CAt("in")
    /\ IF caller.loop = None
       THEN /\ caller' = [caller EXCEPT !.at = "out", !.call = 0]
            /\ UNCHANGED session
       ELSE /\ caller' = [caller EXCEPT !.at = "leaving"]
            /\ session' = IF session[caller.loop].at \in {"serving", "working", "ended"}
                          THEN [session EXCEPT ![caller.loop].queue = Append(@, Stop)]
                          ELSE session

(* join(timeout=30): the thread has ended or is left behind.               *)
Left ==
    /\ CAt("leaving")
    /\ caller' = [caller EXCEPT !.at = "out", !.thread = None, !.loop = None, !.call = 0]
    /\ UNCHANGED session

-----------------------------------------------------------------------------
(* The session thread (_serve under asyncio.run).                          *)
Opened(s) ==
    /\ session[s].at = "starting"
    /\ SGo(s, "serving")
    /\ caller' = IF CAt("starting") /\ caller.thread = s THEN [caller EXCEPT !.holder = TRUE] ELSE caller

Take(s) ==
    /\ session[s].at = "serving" /\ session[s].queue # <<>>
    /\ session' = [session EXCEPT ![s].queue = Tail(@),
                                  ![s].item = IF Head(session[s].queue) = Stop THEN None ELSE Head(session[s].queue),
                                  ![s].at = IF Head(session[s].queue) = Stop THEN "stopping" ELSE "working"]
    /\ UNCHANGED caller

(* The tools answer, with an error or not, or the call raises.  The answer *)
(* to a call that was given up goes to a future nobody looks at.           *)
Answer(s) ==
    /\ session[s].at = "working"
    /\ session' = [session EXCEPT ![s].at = "serving", ![s].item = None]
    /\ caller' = IF session[s].item = "call" THEN [caller EXCEPT !.done = TRUE] ELSE caller

(* The contexts are left, the server is gone; or the session broke down    *)
(* (except BaseException): what is queued is failed.                       *)
End(s) ==
    /\ session[s].at \in {"starting", "serving", "working", "stopping"}
    /\ session' = [session EXCEPT ![s] = [NoSession EXCEPT !.at = "ended"]]
    /\ caller' = IF \E i \in DOMAIN session[s].queue : session[s].queue[i] = "call"
                 THEN [caller EXCEPT !.done = TRUE] ELSE caller

(* Mutant: a loop that is run by hand and does not cancel what is left.    *)
CancelAll_Leaves(s) ==
    /\ session[s].at = "ended"
    /\ session' = [session EXCEPT ![s].at = "closing"]
    /\ UNCHANGED caller

(* asyncio.run cancels every task left: the call the session was working   *)
(* at, and one that came after the queue was emptied.                      *)
CancelAll(s) ==
    /\ session[s].at = "ended"
    /\ session' = [session EXCEPT ![s].at = "closing", ![s].queue = <<>>]
    /\ caller' = IF CAt("waiting") /\ caller.loop = s /\ ~caller.done
                 THEN [caller EXCEPT !.done = TRUE] ELSE caller

Close(s) ==
    /\ session[s].at = "closing"
    /\ session' = [session EXCEPT ![s] = NoSession]
    /\ caller' = [caller EXCEPT !.late = @ \ {s}]

-----------------------------------------------------------------------------
Call == Start \/ Started \/ NotStarted \/ Submit \/ Returned \/ TimedOut
Leave == Exit \/ Left
SessionNext == \E s \in Sessions :
    Opened(s) \/ Take(s) \/ Answer(s) \/ End(s) \/ CancelAll(s) \/ Close(s)

Next == Enter \/ Call \/ Leave \/ SessionNext

Spec == Init /\ [][Next]_mcpVars

-----------------------------------------------------------------------------
(* The session stops when it comes to that.                                *)
Told(s) ==
    \/ session[s].at \in {"stopping", "ended", "closing"}
    \/ \E i \in DOMAIN session[s].queue : session[s].queue[i] = Stop

(* A server that the client no longer holds has been told to stop, however *)
(* much work is queued or stuck before that (__exit__).  The exception is  *)
(* a server whose start was given up and that came up later: it serves     *)
(* nobody until the process ends.                                          *)
NothingLeftServing == \A s \in Sessions :
    Live(s) /\ s # caller.thread /\ s \notin caller.late => Told(s)

(* A session that ends takes its waiting call with it ("all the calls that *)
(* wait end in failure"): the caller need not wait for its time limit.     *)
(* Only a call submitted while the loop is already closing is not heard.   *)
NoCallOutlivesItsSession ==
    CAt("waiting") /\ ~Live(caller.loop) => caller.done \/ caller.unheard
=============================================================================
