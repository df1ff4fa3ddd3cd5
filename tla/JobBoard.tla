------------------------------ MODULE JobBoard ------------------------------
(***************************************************************************)
(* What the job manager of the web application promises to its callers,    *)
(* without its table of addresses, its pool queue or its threads: a job is *)
(* created once, waits, is run at most once and never beside another job,  *)
(* and stays finished.                                                     *)
(***************************************************************************)

CONSTANT Jobs

VARIABLE phase

Phases == {"new", "waiting", "running", "finished"}

BoardInit == phase = [j \in Jobs |-> "new"]

Create(j) ==
    /\ phase[j] = "new"
    /\ phase' = [phase EXCEPT ![j] = "waiting"]

Begin(j) ==
    /\ phase[j] = "waiting"
    /\ \A i \in Jobs : phase[i] # "running"
    /\ phase' = [phase EXCEPT ![j] = "running"]

End(j) ==
    /\ phase[j] = "running"
    /\ phase' = [phase EXCEPT ![j] = "finished"]

BoardNext == \E j \in Jobs : Create(j) \/ Begin(j) \/ End(j)

BoardSpec == BoardInit /\ [][BoardNext]_phase
=============================================================================
