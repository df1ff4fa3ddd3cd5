-------------------------- MODULE ServerParameters --------------------------
(***************************************************************************)
(* The parameters of the servers that a job uses: the local AI             *)
(* (VlmManager) and a tool server (McpSession).                            *)
(***************************************************************************)
EXTENDS Naturals, FiniteSets

CONSTANTS Procs,     (* llama-server processes; one that has gone may stand for a new one *)
          Sessions,  (* session threads of tool clients, each with its server *)
          MaxCalls,  (* bound: tool calls of one job                       *)
          Stop,      (* the None that __exit__ puts into a session's queue *)
          None

ASSUME ServerAssumptions ==
    /\ None \notin Procs \cup Sessions
    /\ MaxCalls \in Nat
    /\ Stop \notin {"call", "void"}
=============================================================================
