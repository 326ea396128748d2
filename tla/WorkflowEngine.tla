--------------------------- MODULE WorkflowEngine ---------------------------
(***************************************************************************)
(* One workflow instance of the OfficeFloww API: its step instances, the   *)
(* tasks generated for them, the approvals tied to them and the requests   *)
(* that advance it (workflows/service.py, tasks/service.py,                *)
(* approvals/service.py, worker/router.py).                                *)
(*                                                                         *)
(* A request is one HTTP call with one database session, hence one         *)
(* PostgreSQL transaction at READ COMMITTED: every SELECT sees what was    *)
(* committed when it ran plus the request's own flushed rows, a flushed    *)
(* row stays locked until the commit, and a failure rolls everything back. *)
(* Requests interleave at every await, so each statement whose result      *)
(* decides something is an action of its own.                              *)
(***************************************************************************)
EXTENDS Naturals, Sequences

CONSTANTS
    Step,       \* the step instances of the workflow instance
    Upstream,   \* Upstream[s]: the steps that s depends on
    Request,    \* the request slots: at most this many calls in flight
    Approval,   \* the approval rows that may be created
    PatchStatus, \* the task statuses clients send to the PATCH route
    None        \* no step, no approval, no decision

ASSUME WorkflowAssumption ==
    /\ Upstream \in [Step -> SUBSET Step]
    /\ None \notin Step
    /\ None \notin Approval
    /\ PatchStatus \subseteq {"OPEN", "BLOCKED", "COMPLETED"}

VARIABLES
    stepStatus,   \* committed WorkflowStepInstance.status
    completedAt,  \* the steps whose completed_at column is set
    tasks,        \* tasks[s]: the statuses of the tasks of s, oldest first
    approval,     \* the approval rows
    wfStatus,     \* WorkflowInstance.status, and with it OrderItem.status
    req           \* what each request has read and not yet committed

vars == <<stepStatus, completedAt, tasks, approval, wfStatus, req>>

-----------------------------------------------------------------------------
(* Rows.  complete_task tells apart only COMPLETED, BLOCKED and the rest:  *)
(* "OPEN" stands for PENDING, READY, IN_PROGRESS and CANCELLED tasks.      *)

StepStatus == {"PENDING", "READY", "COMPLETED"}
TaskStatus == {"OPEN", "BLOCKED", "COMPLETED"}
WorkflowStatus == {"IN_PROGRESS", "COMPLETED"}
Decision == {"APPROVED", "REJECTED"}
ApprovalRow == [status : {"ABSENT", "PENDING"} \cup Decision, step : Step \cup {None}]

(* A session: the row it was called for, the value of the step it loaded,  *)
(* the downstream steps still to inspect, the one under inspection with    *)
(* the prerequisites not yet read, and the steps it made READY.            *)
Session ==
    [ pc        : {"idle", "load", "flush", "downstream", "upstream", "commit"},
      step      : Step \cup {None},
      task      : Nat,
      approval  : Approval \cup {None},
      decision  : Decision \cup {None},
      loaded    : StepStatus \cup {None},
      todo      : SUBSET Step,
      cur       : Step \cup {None},
      need      : SUBSET Step,
      activated : SUBSET Step,
      allDone   : BOOLEAN ]

Idle ==
    [ pc |-> "idle", step |-> None, task |-> 0, approval |-> None,
      decision |-> None, loaded |-> None, todo |-> {}, cur |-> None,
      need |-> {}, activated |-> {}, allDone |-> FALSE ]

Downstream(s) == {d \in Step : s \in Upstream[d]}

(* A row written by a flush is locked until that request commits.          *)
Flushed(r) == req[r].step # None /\ req[r].pc \notin {"idle", "load", "flush"}

StepLocked(r, s) ==
    \E q \in Request \ {r} : Flushed(q) /\ s \in {req[q].step} \cup req[q].activated

TaskLocked(s, k) == \E q \in Request : Flushed(q) /\ req[q].step = s /\ req[q].task = k

ApprovalLocked(r, a) == \E q \in Request \ {r} : Flushed(q) /\ req[q].approval = a

(* Mutant of Seen: the step is not flushed before the others are read.     *)
SeenWithoutFlush(r, s) == IF s \in req[r].activated THEN "READY" ELSE stepStatus[s]

(* What a SELECT of request r returns for the status of step s.            *)
Seen(r, s) ==
    IF s = req[r].step THEN "COMPLETED"
    ELSE IF s \in req[r].activated THEN "READY"
    ELSE stepStatus[s]

(* A step of request r that writes no row another request could see.       *)
Becomes(r, q) ==
    /\ req' = [req EXCEPT ![r] = q]
    /\ UNCHANGED <<stepStatus, completedAt, tasks, approval, wfStatus>>

-----------------------------------------------------------------------------
(* instantiate_workflow: steps without dependencies start READY and get a  *)
(* task, the others PENDING; committed with the order that creates them.   *)
Init ==
    /\ stepStatus = [s \in Step |-> IF Upstream[s] = {} THEN "READY" ELSE "PENDING"]
    /\ completedAt = {}
    /\ tasks = [s \in Step |-> IF Upstream[s] = {} THEN <<"OPEN">> ELSE <<>>]
    /\ approval = [a \in Approval |-> [status |-> "ABSENT", step |-> None]]
    /\ wfStatus = "IN_PROGRESS"
    /\ req = [r \in Request |-> Idle]

(* complete_task loads the task, which must be neither COMPLETED (returned *)
(* as it is) nor BLOCKED (rejected).  The worker app's endpoint calls the  *)
(* same function.                                                          *)
BeginComplete(r, s, k) ==
    /\ req[r].pc = "idle"
    /\ k \in DOMAIN tasks[s]
    /\ tasks[s][k] \notin {"COMPLETED", "BLOCKED"}
    /\ Becomes(r, [Idle EXCEPT !.pc = "load", !.step = s, !.task = k])

(* decide_approval approves a PENDING approval that is tied to a step.     *)
BeginApprove(r, a) ==
    /\ req[r].pc = "idle"
    /\ approval[a].status = "PENDING"
    /\ approval[a].step # None
    /\ Becomes(r, [Idle EXCEPT !.pc = "load", !.step = approval[a].step, !.approval = a,
                               !.decision = "APPROVED"])

(* decide_approval on a PENDING approval when only its own row changes:    *)
(* a rejection, or an approval tied to no step.                            *)
BeginDecide(r, a, d) ==
    /\ req[r].pc = "idle"
    /\ approval[a].status = "PENDING"
    /\ d = "APPROVED" => approval[a].step = None
    /\ Becomes(r, [Idle EXCEPT !.pc = "commit", !.approval = a, !.decision = d])

(* The step is loaded: a task advances it whatever its status, an approval *)
(* only an open one.                                                       *)
LoadStep(r) ==
    /\ req[r].pc = "load"
    /\ req[r].task # 0 \/ stepStatus[req[r].step] = "READY"
    /\ Becomes(r, [req[r] EXCEPT !.pc = "flush", !.loaded = stepStatus[req[r].step]])

LoadClosedStep(r) ==
    /\ req[r].pc = "load"
    /\ req[r].task = 0 /\ stepStatus[req[r].step] # "READY"
    /\ Becomes(r, [req[r] EXCEPT !.pc = "commit", !.step = None])

(* The flush of advance_workflow_after_step_completed writes the step and  *)
(* the row the request was called for; it waits while another request has  *)
(* written one of them.                                                    *)
Flush(r) ==
    /\ req[r].pc = "flush"
    /\ ~StepLocked(r, req[r].step)
    /\ req[r].approval = None \/ ~ApprovalLocked(r, req[r].approval)
    /\ Becomes(r, [req[r] EXCEPT !.pc = "downstream", !.todo = Downstream(req[r].step)])

(* The loop over the downstream dependencies reads the next step: one that *)
(* is not PENDING is skipped, a PENDING one is inspected.                  *)
SkipDownstream(r, d) ==
    /\ req[r].pc = "downstream"
    /\ d \in req[r].todo
    /\ Seen(r, d) # "PENDING"
    /\ Becomes(r, [req[r] EXCEPT !.todo = req[r].todo \ {d}])

InspectDownstream(r, d) ==
    /\ req[r].pc = "downstream"
    /\ d \in req[r].todo
    /\ Seen(r, d) = "PENDING"
    /\ Becomes(r, [req[r] EXCEPT !.pc = "upstream", !.cur = d, !.need = Upstream[d]])

(* Mutant of ReadSatisfied: an unlocked prerequisite counts as satisfied.  *)
ReadUnlocked(r, u) ==
    /\ req[r].pc = "upstream"
    /\ u \in req[r].need
    /\ Seen(r, u) # "PENDING"
    /\ Becomes(r, [req[r] EXCEPT !.need = req[r].need \ {u}])

(* One prerequisite of the step under inspection; the first one that is    *)
(* not COMPLETED ends the inspection.                                      *)
ReadSatisfied(r, u) ==
    /\ req[r].pc = "upstream"
    /\ u \in req[r].need
    /\ Seen(r, u) = "COMPLETED"
    /\ Becomes(r, [req[r] EXCEPT !.need = req[r].need \ {u}])

ReadUnsatisfied(r, u) ==
    /\ req[r].pc = "upstream"
    /\ u \in req[r].need
    /\ Seen(r, u) # "COMPLETED"
    /\ Becomes(r, [req[r] EXCEPT !.pc = "downstream", !.need = {}, !.cur = None,
                                 !.todo = req[r].todo \ {req[r].cur}])

(* All prerequisites were COMPLETED when read: the step becomes READY and  *)
(* generate_task_for_step flushes it with its new task.                    *)
Activate(r) ==
    /\ req[r].pc = "upstream"
    /\ req[r].need = {}
    /\ ~StepLocked(r, req[r].cur)
    /\ Becomes(r, [req[r] EXCEPT !.pc = "downstream", !.cur = None,
                                 !.todo = req[r].todo \ {req[r].cur},
                                 !.activated = req[r].activated \cup {req[r].cur}])

(* Mutant of CheckAll: READY steps count as done.                          *)
CheckUnlocked(r) ==
    /\ req[r].pc = "downstream"
    /\ req[r].todo = {}
    /\ Becomes(r, [req[r] EXCEPT !.pc = "commit",
                                 !.allDone = \A s \in Step : Seen(r, s) # "PENDING"])

(* One SELECT of all steps decides whether the workflow is complete.       *)
CheckAll(r) ==
    /\ req[r].pc = "downstream"
    /\ req[r].todo = {}
    /\ Becomes(r, [req[r] EXCEPT !.pc = "commit",
                                 !.allDone = \A s \in Step : Seen(r, s) = "COMPLETED"])

(* The rows a request leaves behind.  The ORM writes a column only when it *)
(* differs from the loaded value.                                          *)
StepAfter(r, s) ==
    IF s \in req[r].activated THEN "READY"
    ELSE IF s = req[r].step /\ req[r].loaded # "COMPLETED" THEN "COMPLETED"
    ELSE stepStatus[s]

(* Mutant of TasksAfter: no task is generated for an unlocked step.        *)
TasksNotGenerated(r, s) ==
    IF s = req[r].step /\ req[r].task # 0
    THEN [tasks[s] EXCEPT ![req[r].task] = "COMPLETED"]
    ELSE tasks[s]

TasksAfter(r, s) ==
    LET done == IF s = req[r].step /\ req[r].task # 0
                THEN [tasks[s] EXCEPT ![req[r].task] = "COMPLETED"]
                ELSE tasks[s]
    IN  IF s \in req[r].activated THEN Append(done, "OPEN") ELSE done

Commit(r) ==
    /\ req[r].pc = "commit"
    /\ req[r].approval # None => ~ApprovalLocked(r, req[r].approval)
    /\ stepStatus' = [s \in Step |-> StepAfter(r, s)]
    /\ completedAt' = completedAt \cup ({req[r].step} \cap Step)
    /\ tasks' = [s \in Step |-> TasksAfter(r, s)]
    /\ approval' = [a \in Approval |-> IF a = req[r].approval
                                       THEN [approval[a] EXCEPT !.status = req[r].decision]
                                       ELSE approval[a]]
    /\ wfStatus' = IF req[r].allDone THEN "COMPLETED" ELSE wfStatus
    /\ req' = [req EXCEPT ![r] = Idle]

(* get_db rolls back when the handler raises, the connection is lost, the  *)
(* process dies or PostgreSQL picks the request as a deadlock victim.      *)
Rollback(r) ==
    /\ req[r].pc # "idle"
    /\ Becomes(r, Idle)

(* update_task (PATCH) and start_worker_task write the status they are     *)
(* given; neither looks at the current one nor touches the workflow.       *)
UpdateTask(s, k, st) ==
    /\ k \in DOMAIN tasks[s]
    /\ ~TaskLocked(s, k)
    /\ tasks' = [tasks EXCEPT ![s][k] = st]
    /\ UNCHANGED <<stepStatus, completedAt, approval, wfStatus, req>>

StartTask(s, k) == UpdateTask(s, k, "OPEN")

(* request_approval accepts no step, or any step in any state.             *)
RequestApproval(a, s) ==
    /\ approval[a].status = "ABSENT"
    /\ approval' = [approval EXCEPT ![a] = [status |-> "PENDING", step |-> s]]
    /\ UNCHANGED <<stepStatus, completedAt, tasks, wfStatus, req>>

-----------------------------------------------------------------------------
Advance(r) ==
    \/ LoadStep(r) \/ LoadClosedStep(r)
    \/ Flush(r)
    \/ \E s \in Step : SkipDownstream(r, s) \/ InspectDownstream(r, s)
    \/ \E s \in Step : ReadSatisfied(r, s) \/ ReadUnsatisfied(r, s)
    \/ Activate(r)
    \/ CheckAll(r)
    \/ Commit(r)

Begin(r) ==
    \/ \E s \in Step : \E k \in DOMAIN tasks[s] : BeginComplete(r, s, k)
    \/ \E a \in Approval : BeginApprove(r, a) \/ \E d \in Decision : BeginDecide(r, a, d)

Next ==
    \/ \E r \in Request : Begin(r) \/ Advance(r) \/ Rollback(r)
    \/ \E s \in Step : \E k \in DOMAIN tasks[s] :
          StartTask(s, k) \/ \E st \in PatchStatus : UpdateTask(s, k, st)
    \/ \E a \in Approval, s \in Step \cup {None} : RequestApproval(a, s)

Spec == Init /\ [][Next]_vars

(* asyncio runs a request that nothing rolls back to its end (a flush that *)
(* waits for a row lock is retried until it gets it), operators keep       *)
(* completing the open tasks, and failures eventually stop.                *)
FairSpec ==
    /\ Spec
    /\ \A r \in Request : SF_vars(Advance(r))
    /\ \A s \in Step : SF_vars(\E r \in Request : \E k \in DOMAIN tasks[s] : BeginComplete(r, s, k))
    /\ <>[][~\E r \in Request : Rollback(r)]_vars

-----------------------------------------------------------------------------
(* Every row has a value of its column's type.                             *)
TypeOK ==
    /\ stepStatus \in [Step -> StepStatus]
    /\ completedAt \subseteq Step
    /\ tasks \in [Step -> Seq(TaskStatus)]
    /\ approval \in [Approval -> ApprovalRow]
    /\ wfStatus \in WorkflowStatus
    /\ req \in [Request -> Session]

(* A step is unlocked only after every prerequisite has been completed     *)
(* (docs/06, State Machine Rules), whatever requests interleave.           *)
UnlockedAfterPrerequisites ==
    \A s \in Step : stepStatus[s] # "PENDING" => Upstream[s] \subseteq completedAt

(* The tasks on the floor are exactly those of unlocked steps: no step     *)
(* waits for a task that was never generated, no task precedes its step.   *)
TasksMatchUnlockedSteps ==
    \A s \in Step : tasks[s] # <<>> <=> stepStatus[s] # "PENDING"

(* The workflow, and its order item, is COMPLETED only after every step    *)
(* has been completed.                                                     *)
CompletedOnlyWhenAllDone == wfStatus = "COMPLETED" => completedAt = Step

(* The inductive strengthening of the three invariants above.  What a      *)
(* request has read is still true of the rows that never go back: an       *)
(* unlocked step stays unlocked, a completed_at stays set, a task stays.   *)
CompletedRowsAreStamped == \A s \in Step : stepStatus[s] = "COMPLETED" => s \in completedAt

SessionInv(q) ==
    /\ q.pc \in {"load", "flush", "downstream", "upstream"} => q.step \in Step
    /\ q.step # None /\ (q.pc # "load" \/ q.task # 0) => stepStatus[q.step] # "PENDING"
    /\ q.pc = "load" => q.activated = {} /\ ~q.allDone
    /\ q.task # 0 => q.step # None /\ q.task \in DOMAIN tasks[q.step]
    /\ q.approval # None => q.decision \in Decision
    /\ q.pc = "upstream" =>
          q.cur \in Step /\ Upstream[q.cur] \ q.need \subseteq completedAt \cup {q.step}
    /\ \A d \in q.activated : Upstream[d] \subseteq completedAt \cup {q.step}
    /\ q.allDone => Step \subseteq completedAt \cup {q.step}

IInv ==
    /\ TypeOK
    /\ UnlockedAfterPrerequisites
    /\ TasksMatchUnlockedSteps
    /\ CompletedOnlyWhenAllDone
    /\ CompletedRowsAreStamped
    /\ \A r \in Request : SessionInv(req[r])

(* No step is left behind: with no request in flight, a step still PENDING *)
(* has a prerequisite that is not COMPLETED (docs/07: downstream steps     *)
(* that have all prerequisites satisfied transition to READY).             *)
NoStepLeftBehind ==
    (\A r \in Request : req[r].pc = "idle") =>
        \A s \in Step : stepStatus[s] = "PENDING" =>
            \E u \in Upstream[s] : stepStatus[u] # "COMPLETED"

(* A workflow whose open tasks keep being completed finishes.              *)
WorkflowFinishes == <>(wfStatus = "COMPLETED")

=============================================================================
