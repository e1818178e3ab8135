---------------------------- MODULE JobLifecycle ----------------------------
(***************************************************************************)
(* What a user of generation jobs is promised (ARCHITECTURE.md,            *)
(* "Background generation jobs"): a job goes from pending over running to  *)
(* done or failed and then never changes, one job at a time is active for  *)
(* a questionnaire, and every job is settled in the end.                   *)
(***************************************************************************)
EXTENDS FiniteSets

CONSTANT JobIds

VARIABLE status

Active == {j \in JobIds : status[j] \in {"pending", "running"}}

Init == status = [j \in JobIds |-> "none"]

Accept(j) ==
    /\ Active = {}
    /\ status[j] = "none"
    /\ status' = [status EXCEPT ![j] = "pending"]

Run(j) ==
    /\ status[j] = "pending"
    /\ status' = [status EXCEPT ![j] = "running"]

Settle(j) ==
    \/ /\ status[j] = "running"
       /\ status' = [status EXCEPT ![j] = "done"]
    \/ /\ j \in Active
       /\ status' = [status EXCEPT ![j] = "failed"]

Next == \E j \in JobIds : Accept(j) \/ Run(j) \/ Settle(j)

Spec == Init /\ [][Next]_status

\* Every accepted job reaches done or failed.
FairSpec == Spec /\ \A j \in JobIds : WF_status(Run(j)) /\ WF_status(Settle(j))
=============================================================================
