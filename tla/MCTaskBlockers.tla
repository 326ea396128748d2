--------------------------- MODULE MCTaskBlockers ---------------------------
(* Instances of TaskBlockers for TLC, with history variables that tell the *)
(* behaviours of the documented protocol from the others.                  *)
EXTENDS TaskBlockers, TLC

VARIABLES
    overlapped,  \* two requests have been in flight at the same time
    bypassed,    \* the start route or PATCH has set the status
    patched      \* PATCH has made the task BLOCKED, and it is BLOCKED since

MCvars == <<vars, overlapped, bypassed, patched>>

MCInit == Init /\ overlapped = FALSE /\ bypassed = FALSE /\ patched = FALSE

MCNext ==
    /\ Next
    /\ overlapped' = (overlapped \/ Cardinality({r \in Request : req'[r] # Idle}) > 1)
    /\ bypassed' = (bypassed \/ req' = req)
    /\ patched' = (status' = "BLOCKED" /\ (patched \/ (status # "BLOCKED" /\ req' = req)))

MCFairSpec == MCInit /\ [][MCNext]_MCvars /\ Fairness

(* One request at a time, a task whose blockers are all resolved is not    *)
(* left BLOCKED (NoGhostBlock), also where its status is patched: only a   *)
(* task that PATCH itself made BLOCKED can be, until it leaves BLOCKED.    *)
NoGhostBlockAlone == ~overlapped /\ ~patched => NoGhostBlock

(* One request at a time, and with its status left to the blocker routes,  *)
(* a task with an unresolved blocker is BLOCKED (BlockerHolds).            *)
BlockerHoldsAlone == ~overlapped /\ ~bypassed => BlockerHolds

(* Under the same condition the workflow does not move past a blocked task *)
(* (docs/07: any attempt to complete a blocked task is rejected).          *)
NoAdvancePastBlockerAlone == [][~overlapped /\ ~bypassed => AdvanceUnblocked]_MCvars

(* Unless requests overlap, or PATCH leaves the task BLOCKED for ever, a   *)
(* task whose blockers all get resolved is completed in the end.  (Two     *)
(* managers who resolve the last two blockers at the same time may each    *)
(* count the other's as open: see NoGhostBlock.)                           *)
TaskGetsDoneAlone == <>[]patched \/ <>(stepDone \/ overlapped)
=============================================================================
