-------------------------- MODULE WorkflowPromise ---------------------------
(***************************************************************************)
(* What docs/06 promises of a workflow instance: completing a step makes   *)
(* READY, in the same instant, every downstream step whose prerequisites   *)
(* are then all COMPLETED, and the completion of the last step completes   *)
(* the workflow.                                                           *)
(***************************************************************************)
CONSTANTS Step, Upstream

VARIABLES stepStatus, wfStatus

vars == <<stepStatus, wfStatus>>

Init ==
    /\ stepStatus = [s \in Step |-> IF Upstream[s] = {} THEN "READY" ELSE "PENDING"]
    /\ wfStatus = "IN_PROGRESS"

(* The set of COMPLETED steps once s is one of them.                       *)
DoneWith(s) == {s} \cup {u \in Step : stepStatus[u] = "COMPLETED"}

Complete(s) ==
    /\ stepStatus[s] = "READY"
    /\ stepStatus' = [d \in Step |->
          IF d = s THEN "COMPLETED"
          ELSE IF stepStatus[d] = "PENDING" /\ Upstream[d] \subseteq DoneWith(s)
          THEN "READY"
          ELSE stepStatus[d]]
    /\ wfStatus' = IF DoneWith(s) = Step THEN "COMPLETED" ELSE wfStatus

Next == \E s \in Step : Complete(s)

Spec == Init /\ [][Next]_vars
=============================================================================
