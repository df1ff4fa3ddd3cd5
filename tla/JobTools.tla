------------------------------ MODULE JobTools ------------------------------
(***************************************************************************)
(* A job and the servers it uses (web/actions.py, web/routes.py            *)
(* run_with_clients): inside `with deps.clients()` the job starts and      *)
(* stops the local AI of VlmManager and calls a tool server (the law or    *)
(* the document tools) through the client of McpSession, while the app may *)
(* be shut down on another thread.                                         *)
(***************************************************************************)
EXTENDS VlmManager, Sequences

VARIABLES caller, session

Mcp == INSTANCE McpSession

mcpVars == <<caller, session>>
toolVars == <<vars, mcpVars>>

ToolsInit == Init /\ Mcp!Init

(* run_with_clients: the clients come before the body.                     *)
BodyBegins == JobBegins /\ Mcp!Enter

(* The local AI is used in the body, by the same thread as the tools.      *)
UsesVlm == WorkerNext /\ caller.at = "in" /\ UNCHANGED mcpVars

(* Tools are called before the receipts are read (get_law_book in          *)
(* run_batch), in place of it (do_warm_law), after it (export, verify) and *)
(* after the AI is stopped (get_law_book in do_extract, the preview).      *)
UsesTools == worker.at \in {"need", "reading", "idle"} /\ Mcp!Call /\ UNCHANGED vars

(* The body is over, with a result or by an exception.                     *)
BodyLeaves == WAt("idle") /\ Mcp!Leave /\ UNCHANGED vars

Surroundings ==
    \/ Environment /\ UNCHANGED mcpVars
    \/ Mcp!SessionNext /\ UNCHANGED vars

ToolsNext == BodyBegins \/ UsesVlm \/ UsesTools \/ BodyLeaves \/ Surroundings

(* The job thread goes on, at a wait by its time limit if by nothing else; *)
(* so does the event loop at its end.  Servers and session threads may     *)
(* hang for ever.                                                          *)
ToolsFairness ==
    /\ WF_toolVars(UsesVlm \/ UsesTools) /\ WF_toolVars(BodyLeaves) /\ WF_toolVars(LoopNext /\ UNCHANGED mcpVars)
    /\ SF_toolVars(UsesVlm /\ WAt("poll") /\ worker'.at # "probe")

ToolsSpec == ToolsInit /\ [][ToolsNext]_toolVars /\ ToolsFairness

-----------------------------------------------------------------------------
ToolsTypeOK == TypeOK /\ Mcp!TypeOK

(* Stated in McpSession, with its comment: what a client leaves behind has *)
(* been told to stop (StdioToolCaller.__exit__).                           *)
NothingLeftServing == Mcp!NothingLeftServing

(* Stated in McpSession, with its comment: a session that ends fails the   *)
(* call that waits on it (_serve, asyncio.run).                            *)
NoCallOutlivesItsSession == Mcp!NoCallOutlivesItsSession

(* A job ends, whatever its servers do or stop doing: every wait of the    *)
(* worker thread has a time limit (start, call, exit, ensure_ready, stop), *)
(* so one server that hangs does not hold up all later jobs.               *)
JobsEnd == caller.at # "out" ~> caller.at = "out"
=============================================================================
