---------------------------- MODULE TaskBlockers ----------------------------
(***************************************************************************)
(* One task, the blockers reported against it and the requests that add    *)
(* and resolve blockers, start, patch and complete the task                *)
(* (tasks/service.py, worker/router.py).                                   *)
(*                                                                         *)
(* Each request reads rows in one action and commits in another.  The ORM  *)
(* compares what it sets with what it loaded: a status equal to the loaded *)
(* one is not written at all.                                              *)
(***************************************************************************)
EXTENDS Naturals, FiniteSets

CONSTANTS
    Blocker,      \* the blocker rows that may be created
    Request,      \* the request slots
    PatchStatus,  \* the statuses clients send to PATCH /tasks/{id}
    WorkerStarts  \* whether the worker app's start route is in use

TaskStatus == {"READY", "IN_PROGRESS", "BLOCKED", "COMPLETED"}

ASSUME BlockerAssumption ==
    /\ PatchStatus \subseteq TaskStatus
    /\ WorkerStarts \in BOOLEAN
    /\ IsFiniteSet(Request)

VARIABLES
    status,    \* Task.status
    blocker,   \* the state of each blocker row
    stepDone,  \* the task's workflow step has been COMPLETED
    req        \* what each request has read

vars == <<status, blocker, stepDone, req>>

-----------------------------------------------------------------------------
Unresolved == {b \in Blocker : blocker[b] = "open"}

(* op: what the request will do ("release": resolve a blocker and release  *)
(* the task it has not loaded yet).  rows: the blocker rows it inserts or  *)
(* resolves.  loaded: the status it read.  sets: the status it assigns,    *)
(* the loaded one if it assigns none.                                      *)
Session ==
    [ op     : {"idle", "add", "release", "resolve", "complete"},
      rows   : SUBSET Blocker,
      loaded : TaskStatus,
      sets   : TaskStatus ]

Idle == [op |-> "idle", rows |-> {}, loaded |-> "READY", sets |-> "READY"]

Becomes(r, q) ==
    /\ req' = [req EXCEPT ![r] = q]
    /\ UNCHANGED <<status, blocker, stepDone>>

Loads(r, op, rows, sets) ==
    /\ req[r] = Idle
    /\ Becomes(r, [op |-> op, rows |-> rows, loaded |-> status, sets |-> sets])

Resolves(r, b, last) ==
    /\ blocker[b] # "absent"
    /\ req[r] = Idle
    /\ Becomes(r, [Idle EXCEPT !.op = IF last THEN "release" ELSE "resolve", !.rows = {b}])

Init ==
    /\ status = "READY"
    /\ blocker = [b \in Blocker |-> "absent"]
    /\ stepDone = FALSE
    /\ req = [r \in Request |-> Idle]

-----------------------------------------------------------------------------
(* add_blocker accepts a task in any state.                                *)
BeginAdd(r, b) ==
    /\ blocker[b] = "absent"
    /\ \A q \in Request : req[q].op = "add" => b \notin req[q].rows
    /\ Loads(r, "add", {b}, "BLOCKED")

(* Mutant of BeginResolve: the task is released with blockers left.        *)
BeginResolveAny(r, b) == Resolves(r, b, TRUE)

(* Mutant of BeginResolve: the resolved blocker is counted as well.        *)
BeginResolveSelf(r, b) == Resolves(r, b, Unresolved = {})

(* resolve_blocker, also of a blocker resolved before: the count of the    *)
(* OTHER unresolved blockers decides whether the task reverts to READY.    *)
BeginResolve(r, b) == Resolves(r, b, Unresolved \subseteq {b})

(* ... and then the task is loaded.                                        *)
LoadTask(r) ==
    /\ req[r].op = "release"
    /\ Becomes(r, [req[r] EXCEPT !.op = "resolve", !.loaded = status])

(* Mutant of BeginComplete: blocked tasks are not rejected.                *)
BeginCompleteBlocked(r) ==
    /\ status # "COMPLETED"
    /\ Loads(r, "complete", {}, "COMPLETED")

(* complete_task returns a COMPLETED task as it is and rejects a BLOCKED   *)
(* one.                                                                    *)
BeginComplete(r) ==
    /\ status \notin {"COMPLETED", "BLOCKED"}
    /\ Loads(r, "complete", {}, "COMPLETED")

Commit(r) ==
    /\ req[r].op \notin {"idle", "release"}
    /\ status' = IF req[r].sets # req[r].loaded THEN req[r].sets ELSE status
    /\ blocker' = [b \in Blocker |->
          IF b \notin req[r].rows THEN blocker[b]
          ELSE IF req[r].op = "add" THEN "open" ELSE "resolved"]
    /\ stepDone' = (stepDone \/ req[r].op = "complete")
    /\ req' = [req EXCEPT ![r] = Idle]

Rollback(r) ==
    /\ req[r] # Idle
    /\ Becomes(r, Idle)

(* The worker app's start route and PATCH look at nothing.                 *)
StartTask ==
    /\ WorkerStarts
    /\ status' = "IN_PROGRESS"
    /\ UNCHANGED <<blocker, stepDone, req>>

UpdateTask(st) ==
    /\ status' = st
    /\ UNCHANGED <<blocker, stepDone, req>>

Next ==
    \/ \E r \in Request, b \in Blocker : BeginAdd(r, b) \/ BeginResolve(r, b)
    \/ \E r \in Request : BeginComplete(r) \/ LoadTask(r) \/ Commit(r) \/ Rollback(r)
    \/ StartTask
    \/ \E st \in PatchStatus : UpdateTask(st)

Spec == Init /\ [][Next]_vars

(* Requests run to their end, managers resolve every open blocker, and     *)
(* failures and new blockers eventually stop.                              *)
Fairness ==
    /\ \A r \in Request : WF_vars(LoadTask(r) \/ Commit(r))
    /\ \A b \in Blocker :
          SF_vars(blocker[b] = "open" /\ \E r \in Request : BeginResolve(r, b))
    /\ SF_vars(\E r \in Request : BeginComplete(r))
    /\ <>[][~\E r \in Request : Rollback(r)]_vars

FairSpec == Spec /\ Fairness

-----------------------------------------------------------------------------
(* Every row and every session has values of its columns' types.           *)
TypeOK ==
    /\ status \in TaskStatus
    /\ blocker \in [Blocker -> {"absent", "open", "resolved"}]
    /\ stepDone \in BOOLEAN
    /\ req \in [Request -> Session]

AtRest == \A r \in Request : req[r] = Idle

(* When all blockers are resolved the task is not BLOCKED any more         *)
(* (docs/07, Resolving a Blocker): otherwise nobody can complete it.       *)
NoGhostBlock == AtRest /\ status = "BLOCKED" => Unresolved # {}

(* A task with an unresolved blocker is BLOCKED (docs/07, Adding a         *)
(* Blocker), so nobody works on it or completes it.                        *)
BlockerHolds == AtRest /\ Unresolved # {} => status = "BLOCKED"

(* The workflow does not move past a blocked task: its step is completed   *)
(* only while no blocker is open (docs/07: any attempt to complete a       *)
(* blocked task is rejected).                                              *)
AdvanceUnblocked == ~stepDone /\ stepDone' => Unresolved = {}
=============================================================================
