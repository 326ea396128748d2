-------------------------- MODULE OrderCompletion --------------------------
(***************************************************************************)
(* Completing an order with one item: the check of its workflow steps, its *)
(* packing tasks and its PACKED sum, then the new status, against the      *)
(* packing requests that run meanwhile (billing/service.py,                *)
(* orders/service.py).                                                     *)
(***************************************************************************)
EXTENDS Packing

CONSTANTS
    Step,      \* the order's workflow step instances
    Clerk,     \* the request slots of the completion routes
    Ordered    \* OrderItem.quantity, in 1/Scale of a piece

ASSUME CompletionAssumption == Ordered \in Int /\ Ordered % Scale = 0

VARIABLES
    done,     \* the steps that are COMPLETED or SKIPPED
    ended,    \* the steps that have a completed_at
    order,    \* Order.status: OPEN stands for every other status
    clerk     \* how far each completion check has come

orderVars == <<done, ended, order, clerk>>
vars == <<packVars, orderVars>>

Init ==
    /\ PackInit
    /\ done = {}
    /\ ended = {}
    /\ order = "OPEN"
    /\ clerk = [c \in Clerk |-> "idle"]

-----------------------------------------------------------------------------
(* A step is completed by the workflow engine (see WorkflowEngine).        *)
CompleteStep(s) ==
    /\ s \notin done
    /\ done' = done \cup {s}
    /\ ended' = ended \cup {s}
    /\ UNCHANGED <<packVars, order, clerk>>

(* An advance that overlaps its completion writes READY over COMPLETED and *)
(* leaves completed_at (H4 of WorkflowEngine).                             *)
UndoStep(s) ==
    /\ s \in done
    /\ done' = done \ {s}
    /\ UNCHANGED <<packVars, ended, order, clerk>>

Moves(c, from, to) ==
    /\ clerk[c] = from
    /\ clerk' = [clerk EXCEPT ![c] = to]
    /\ UNCHANGED <<packVars, done, ended, order>>

(* check_order_completion_conditions runs one SELECT per condition; the    *)
(* first that fails decides that the request will be rejected.             *)
CheckWorkflows(c) == Step \subseteq done /\ Moves(c, "idle", "packing")

Created == {t \in PackTask : pack[t].status # "ABSENT"}

CheckPacking(c) ==
    /\ Created # {}
    /\ \A t \in Created : pack[t].status \in {"COMPLETED", "VERIFIED"}
    /\ Moves(c, "packing", "quantities")

(* Mutant of CheckQuantities: any packed quantity will do.                 *)
CheckSomeQuantity(c) == packed > 0 /\ Moves(c, "quantities", "commit")

CheckQuantities(c) == packed >= Ordered /\ Moves(c, "quantities", "commit")

(* complete_order, and update_order with status COMPLETED.                 *)
CommitCompletion(c) ==
    /\ clerk[c] = "commit"
    /\ order' = "COMPLETED"
    /\ clerk' = [clerk EXCEPT ![c] = "idle"]
    /\ UNCHANGED <<packVars, done, ended>>

(* The check fails, or the request is rolled back.                         *)
GiveUp(c) == \E from \in {"packing", "quantities", "commit"} : Moves(c, from, "idle")

(* update_order with any other status, also of a COMPLETED order.          *)
Reopen ==
    /\ order = "COMPLETED"
    /\ order' = "OPEN"
    /\ UNCHANGED <<packVars, done, ended, clerk>>

Check(c) == CheckWorkflows(c) \/ CheckPacking(c) \/ CheckQuantities(c) \/ CommitCompletion(c)

Next ==
    \/ PackNext /\ UNCHANGED orderVars
    \/ \E s \in Step : CompleteStep(s) \/ UndoStep(s)
    \/ Reopen
    \/ \E c \in Clerk : Check(c) \/ GiveUp(c)

Spec == Init /\ [][Next]_vars

(* Requests run to their end, steps get completed, packers pack whatever   *)
(* still fits a task that has been created, a clerk keeps trying to        *)
(* complete the order, requests stop being rolled back, and steps stop     *)
(* being undone by overlapping ones.                                       *)
FairSpec ==
    /\ Spec
    /\ \A s \in Step : WF_vars(CompleteStep(s))
    /\ WF_vars(\E t \in PackTask, n \in TaskTarget : CreatePackTask(t, n) /\ UNCHANGED orderVars)
    /\ \A r \in Request : WF_vars(CommitPack(r) /\ UNCHANGED orderVars)
    /\ \A t \in PackTask, q \in {n \in Quantity : n > 0} :
          SF_vars(\E r \in Request : BeginPack(r, t, q) /\ UNCHANGED orderVars)
    /\ \A c \in Clerk : SF_vars(Check(c))
    /\ <>[][~\E r \in Request : RollbackPack(r)]_vars
    /\ <>[][~\E c \in Clerk : GiveUp(c)]_vars
    /\ <>[][~\E s \in Step : UndoStep(s)]_vars

-----------------------------------------------------------------------------
(* Every row and every session has values of its columns' types.           *)
TypeOK ==
    /\ PackTypeOK
    /\ done \subseteq ended /\ ended \subseteq Step
    /\ order \in {"OPEN", "COMPLETED"}
    /\ clerk \in [Clerk -> {"idle", "packing", "quantities", "commit"}]

(* What a packing session has loaded is within the packages by now.        *)
SessionInv(q) == \A t \in PackTask : t \in q.task => Within(q.total, boxed[t])

(* What a step needs to keep TypeOK and TaskNeverOverstates.               *)
IInv ==
    /\ TypeOK
    /\ TaskNeverOverstates
    /\ \A r \in Request : SessionInv(preq[r])

(* A COMPLETED order has had every step completed, and packages for its    *)
(* whole quantity were packed or booked by hand, whatever requests         *)
(* interleave and whatever is undone or taken out meanwhile (docs/27, The  *)
(* Tripartite Completion Condition).                                       *)
CompletedOrderIsPacked ==
    order = "COMPLETED" =>
        /\ Step \subseteq ended
        /\ manual + SumFunction([t \in PackTask |-> boxed[t].put]) >= Ordered

(* An order whose steps are done and whose tasks are packed is completed.  *)
OrderGetsCompleted == <>(order = "COMPLETED")
=============================================================================
