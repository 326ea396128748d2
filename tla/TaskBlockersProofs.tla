------------------------- MODULE TaskBlockersProofs -------------------------
(***************************************************************************)
(* The blockers of a task, for any number of blockers and requests. Every  *)
(* row and session keeps its type. One request at a time, what the open    *)
(* request counted and loaded is still so when it commits; the history     *)
(* variables of MCTaskBlockers say for how long that was the case.         *)
(***************************************************************************)
EXTENDS MCTaskBlockers, FiniteFacts

LEMMA IdleIsSession == Idle \in Session /\ Idle.op = "idle"
BY DEF Idle, Session, TaskStatus

LEMMA BlockersStart == Init => TypeOK
BY IdleIsSession DEF Init, TypeOK, TaskStatus

LEMMA BecomesTyped ==
  ASSUME TypeOK, NEW r \in Request, NEW q \in Session, Becomes(r, q)
  PROVE  TypeOK'
BY DEF TypeOK, Becomes

LEMMA CommitTyped == ASSUME TypeOK, NEW r \in Request, Commit(r) PROVE TypeOK'
<1>1. req[r] \in Session /\ req[r].sets \in TaskStatus
  BY DEF TypeOK, Session
<1>2. status' \in TaskStatus
  BY <1>1 DEF Commit, TypeOK
<1>3. blocker' \in [Blocker -> {"absent", "open", "resolved"}]
  BY DEF Commit, TypeOK
<1> QED
  BY <1>2, <1>3, IdleIsSession DEF Commit, TypeOK

LEMMA BlockersTyped == TypeOK /\ [Next]_vars => TypeOK'
<1> SUFFICES ASSUME TypeOK, [Next]_vars PROVE TypeOK'
  OBVIOUS
<1>0. status \in TaskStatus /\ "BLOCKED" \in TaskStatus /\ "COMPLETED" \in TaskStatus
  BY DEF TypeOK, TaskStatus
<1>1. ASSUME NEW r \in Request, NEW b \in Blocker, BeginAdd(r, b) PROVE TypeOK'
  <2>1. [op |-> "add", rows |-> {b}, loaded |-> status, sets |-> "BLOCKED"] \in Session
    BY <1>0 DEF Session
  <2> QED
    BY <1>1, <2>1, BecomesTyped DEF BeginAdd, Loads
<1>2. ASSUME NEW r \in Request, NEW b \in Blocker, BeginResolve(r, b) PROVE TypeOK'
  <2> DEFINE last == Unresolved \subseteq {b}
             q == [Idle EXCEPT !.op = IF last THEN "release" ELSE "resolve", !.rows = {b}]
  <2>1. q \in Session
    BY IdleIsSession DEF Session
  <2> QED
    BY <1>2, <2>1, BecomesTyped DEF BeginResolve, Resolves
<1>3. ASSUME NEW r \in Request, BeginComplete(r) PROVE TypeOK'
  <2>1. [op |-> "complete", rows |-> {}, loaded |-> status, sets |-> "COMPLETED"] \in Session
    BY <1>0 DEF Session
  <2> QED
    BY <1>3, <2>1, BecomesTyped DEF BeginComplete, Loads
<1>4. ASSUME NEW r \in Request, LoadTask(r) PROVE TypeOK'
  <2>1. [req[r] EXCEPT !.op = "resolve", !.loaded = status] \in Session
    BY <1>0 DEF TypeOK, Session
  <2> QED
    BY <1>4, <2>1, BecomesTyped DEF LoadTask
<1>5. ASSUME NEW r \in Request, Commit(r) PROVE TypeOK'
  BY <1>5, CommitTyped
<1>6. ASSUME NEW r \in Request, Rollback(r) PROVE TypeOK'
  BY <1>6, IdleIsSession, BecomesTyped DEF Rollback
<1>7. CASE StartTask
  BY <1>7 DEF StartTask, TypeOK, TaskStatus
<1>8. ASSUME NEW st \in PatchStatus, UpdateTask(st) PROVE TypeOK'
  BY <1>8, BlockerAssumption DEF UpdateTask, TypeOK
<1>9. CASE UNCHANGED vars
  BY <1>9 DEF vars, TypeOK
<1> QED
  BY <1>1, <1>2, <1>3, <1>4, <1>5, <1>6, <1>7, <1>8, <1>9 DEF Next

(* What the open request counted, and will assign ...                      *)
OneRequest == \A p, r \in Request : req[p] # Idle /\ req[r] # Idle => p = r

Counted(q) ==
    /\ q.op \in {"release", "resolve"} =>
          /\ q.sets = "READY" /\ q.rows # {} /\ q.rows \subseteq Blocker
          /\ ~(Unresolved \subseteq q.rows) => q.op = "resolve" /\ q.loaded = "READY"
    /\ q.op = "add" => q.sets = "BLOCKED" /\ q.rows # {} /\ q.rows \subseteq Blocker
    /\ q.op = "complete" => q.sets = "COMPLETED" /\ q.rows = {} /\ q.loaded # "COMPLETED"

(* ... when it resolves the last blocker, unless the task is patched       *)
(* BLOCKED ...                                                             *)
LastUnblocks(q) ==
    q.op = "resolve" /\ Unresolved \subseteq q.rows /\ q.loaded = "READY" => status # "BLOCKED"

(* ... and when only requests write the status.                            *)
LoadedIsFresh(q) ==
    /\ q.op \in {"add", "complete"} => q.loaded = status
    /\ q.op = "complete" => status # "BLOCKED"

CountInv == ~overlapped => OneRequest /\ \A r \in Request : Counted(req[r])

GhostInv ==
    ~overlapped /\ ~patched =>
        /\ status = "BLOCKED" => Unresolved # {}
        /\ \A r \in Request : LastUnblocks(req[r])

HoldInv ==
    ~overlapped /\ ~bypassed =>
        /\ Unresolved # {} => status = "BLOCKED"
        /\ \A r \in Request : LoadedIsFresh(req[r])


LEMMA IdleCounts ==
  /\ Counted(Idle) /\ LastUnblocks(Idle) /\ LoadedIsFresh(Idle)
  /\ Counted(Idle)' /\ LastUnblocks(Idle)' /\ LoadedIsFresh(Idle)'
BY DEF Counted, LastUnblocks, LoadedIsFresh, Idle

(* While the history variable is FALSE, at most one request is open.       *)
LEMMA OneRequestNext == ASSUME MCNext, ~overlapped' PROVE OneRequest' /\ ~overlapped
<1> DEFINE open == {r \in Request : req'[r] # Idle}
<1>1. ~overlapped /\ ~(Cardinality(open) > 1)
  BY DEF MCNext
<1>2. IsFiniteSet(open)
  BY FS_Subset, BlockerAssumption
<1>3. ASSUME NEW p \in open, NEW r \in open PROVE p = r
  BY <1>1, <1>2, AtMostOne
<1> QED
  BY <1>1, <1>3 DEF OneRequest, Idle

(* What the first reads of a request establish.                            *)
LEMMA BlockerReads ==
  ASSUME TypeOK, NEW r \in Request,
         \/ \E b \in Blocker : BeginAdd(r, b) \/ BeginResolve(r, b)
         \/ BeginComplete(r)
  PROVE  /\ UNCHANGED <<status, blocker, stepDone>>
         /\ \E q : /\ req' = [req EXCEPT ![r] = q]
                  /\ Counted(q) /\ LastUnblocks(q) /\ LoadedIsFresh(q)
<1> DEFINE Goal == /\ UNCHANGED <<status, blocker, stepDone>>
                   /\ \E q : /\ req' = [req EXCEPT ![r] = q]
                            /\ Counted(q) /\ LastUnblocks(q) /\ LoadedIsFresh(q)
<1>1. ASSUME NEW b \in Blocker, BeginAdd(r, b) PROVE Goal
  <2> DEFINE q == [op |-> "add", rows |-> {b}, loaded |-> status, sets |-> "BLOCKED"]
  <2>1. Counted(q) /\ LastUnblocks(q) /\ LoadedIsFresh(q)
    BY DEF Counted, LastUnblocks, LoadedIsFresh
  <2> QED
    BY <1>1, <2>1 DEF BeginAdd, Loads, Becomes
<1>2. ASSUME NEW b \in Blocker, BeginResolve(r, b) PROVE Goal
  <2> DEFINE last == Unresolved \subseteq {b}
             q == [Idle EXCEPT !.op = IF last THEN "release" ELSE "resolve", !.rows = {b}]
  <2>1. /\ q.op = IF last THEN "release" ELSE "resolve"
        /\ q.rows = {b} /\ q.sets = "READY" /\ q.loaded = "READY"
    BY DEF Idle
  <2>2. Counted(q) /\ LastUnblocks(q) /\ LoadedIsFresh(q)
    BY <2>1 DEF Counted, LastUnblocks, LoadedIsFresh
  <2> QED
    BY <1>2, <2>2 DEF BeginResolve, Resolves, Becomes
<1>3. CASE BeginComplete(r)
  <2> DEFINE q == [op |-> "complete", rows |-> {}, loaded |-> status, sets |-> "COMPLETED"]
  <2>1. Counted(q) /\ LastUnblocks(q) /\ LoadedIsFresh(q)
    BY <1>3 DEF BeginComplete, Counted, LastUnblocks, LoadedIsFresh
  <2> QED
    BY <1>3, <2>1 DEF BeginComplete, Loads, Becomes
<1> QED
  BY <1>1, <1>2, <1>3

(* The release loads the task it will set to READY.                        *)
LEMMA ReleaseLoads ==
  ASSUME TypeOK, NEW r \in Request, LoadTask(r), Counted(req[r])
  PROVE  /\ UNCHANGED <<status, blocker, stepDone>>
         /\ \E q : /\ req' = [req EXCEPT ![r] = q]
                  /\ Counted(q) /\ LastUnblocks(q) /\ LoadedIsFresh(q)
<1> DEFINE q == [req[r] EXCEPT !.op = "resolve", !.loaded = status]
<1>1. /\ q.op = "resolve" /\ q.loaded = status /\ q.rows = req[r].rows /\ q.sets = req[r].sets
      /\ req[r].op = "release"
  BY DEF LoadTask, TypeOK, Session
<1>2. Counted(q) /\ LastUnblocks(q) /\ LoadedIsFresh(q)
  BY <1>1 DEF Counted, LastUnblocks, LoadedIsFresh
<1> QED
  BY <1>2 DEF LoadTask, Becomes

(* What a commit does to the blockers and the status.                      *)
LEMMA BlockerCommits ==
  ASSUME TypeOK, NEW r \in Request, Commit(r), Counted(req[r])
  PROVE  /\ req[r].op \in {"add", "resolve", "complete"}
         /\ req[r].op = "add" => Unresolved' # {}
         /\ req[r].op = "resolve" => Unresolved' = Unresolved \ req[r].rows
         /\ req[r].op = "complete" => Unresolved' = Unresolved
         /\ status' = IF req[r].sets # req[r].loaded THEN req[r].sets ELSE status
         /\ req' = [req EXCEPT ![r] = Idle]
BY DEF TypeOK, Session, Commit, Counted, Unresolved

(* With one request open, its commit leaves every slot idle.               *)
LEMMA AllIdle ==
  ASSUME TypeOK, OneRequest, NEW r \in Request, Commit(r)
  PROVE  \A p \in Request : req'[p] = Idle
<1>1. req[r] # Idle
  BY IdleIsSession DEF Commit
<1>2. \A p \in Request : p # r => req[p] = Idle
  BY <1>1 DEF OneRequest
<1> QED
  BY <1>2 DEF Commit, TypeOK

(* One request at a time, each of the three facts is kept by every step.   *)
LEMMA CountsKept == TypeOK /\ CountInv /\ [MCNext]_MCvars => CountInv'
<1> SUFFICES ASSUME TypeOK, CountInv, [MCNext]_MCvars PROVE CountInv'
  OBVIOUS
<1>1. CASE UNCHANGED MCvars
  BY <1>1 DEF MCvars, vars, CountInv, OneRequest, Counted, Unresolved
<1>2. CASE MCNext /\ ~overlapped'
  <2>1. OneRequest' /\ OneRequest /\ \A r \in Request : Counted(req[r])
    BY <1>2, OneRequestNext DEF CountInv
  <2>2. ASSUME NEW r \in Request, NEW q, Counted(q), req' = [req EXCEPT ![r] = q],
               UNCHANGED blocker
        PROVE  \A p \in Request : Counted(req[p])'
    <3>1. \A p \in Request : Counted(req'[p])
      BY <2>1, <2>2 DEF TypeOK
    <3> QED
      BY <2>2, <3>1 DEF Counted, Unresolved
  <2>3. ASSUME NEW r \in Request, Commit(r) PROVE \A p \in Request : Counted(req[p])'
    <3>1. \A p \in Request : req'[p] = Idle
      BY <2>1, <2>3, AllIdle
    <3> QED
      BY <3>1, IdleCounts DEF Counted
  <2>4. ASSUME StartTask \/ \E st \in PatchStatus : UpdateTask(st)
        PROVE  \A p \in Request : Counted(req[p])'
    BY <2>1, <2>4 DEF StartTask, UpdateTask, Counted, Unresolved
  <2>5. ASSUME NEW r \in Request, Rollback(r) PROVE \A p \in Request : Counted(req[p])'
    BY <2>2, <2>5, IdleCounts DEF Rollback, Becomes
  <2>6. ASSUME NEW r \in Request,
               \/ \E b \in Blocker : BeginAdd(r, b) \/ BeginResolve(r, b)
               \/ BeginComplete(r) \/ LoadTask(r)
        PROVE  \A p \in Request : Counted(req[p])'
    <3>1. UNCHANGED blocker /\ \E q : req' = [req EXCEPT ![r] = q] /\ Counted(q)
      BY <2>1, <2>6, BlockerReads, ReleaseLoads
    <3> QED
      BY <2>2, <3>1
  <2>7. \A r \in Request : Counted(req[r])'
    BY <1>2, <2>3, <2>4, <2>5, <2>6 DEF MCNext, Next
  <2> QED
    BY <2>1, <2>7 DEF CountInv
<1>3. CASE overlapped'
  BY <1>3 DEF CountInv
<1> QED
  BY <1>1, <1>2, <1>3

LEMMA GhostsKept == TypeOK /\ CountInv /\ GhostInv /\ [MCNext]_MCvars => GhostInv'
<1> SUFFICES ASSUME TypeOK, CountInv, GhostInv, [MCNext]_MCvars PROVE GhostInv'
  OBVIOUS
<1> DEFINE Goal == /\ status' = "BLOCKED" => Unresolved' # {}
                   /\ \A r \in Request : LastUnblocks(req[r])'
<1>1. CASE UNCHANGED MCvars
  BY <1>1 DEF MCvars, vars, GhostInv, LastUnblocks, Unresolved
<1>2. CASE MCNext /\ ~overlapped' /\ status' # "BLOCKED"
  BY <1>2 DEF GhostInv, LastUnblocks
<1>3. CASE MCNext /\ ~overlapped' /\ ~patched' /\ status' = "BLOCKED"
  <2>0. ~patched /\ (req' = req => status = "BLOCKED")
    BY <1>3 DEF MCNext
  <2>1. /\ OneRequest /\ \A r \in Request : Counted(req[r]) /\ LastUnblocks(req[r])
        /\ status = "BLOCKED" => Unresolved # {}
    BY <1>3, <2>0, OneRequestNext DEF CountInv, GhostInv
  <2>2. ASSUME NEW r \in Request, NEW q, LastUnblocks(q), req' = [req EXCEPT ![r] = q],
               UNCHANGED <<status, blocker>>
        PROVE  Goal
    <3>1. \A p \in Request : LastUnblocks(req'[p])
      BY <2>1, <2>2 DEF TypeOK
    <3> QED
      BY <2>1, <2>2, <3>1 DEF LastUnblocks, Unresolved
  <2>3. ASSUME NEW r \in Request, Commit(r) PROVE Goal
    <3>1. \A p \in Request : req'[p] = Idle
      BY <2>1, <2>3, AllIdle
    <3>2. \A p \in Request : LastUnblocks(req[p])'
      BY <3>1, IdleCounts DEF LastUnblocks
    <3>3. Counted(req[r]) /\ LastUnblocks(req[r])
      BY <2>1
    <3>4. status' = "BLOCKED" => Unresolved' # {}
      BY <2>1, <2>3, <3>3, BlockerCommits DEF Counted, LastUnblocks
    <3> QED
      BY <3>2, <3>4
  <2>4. ASSUME StartTask \/ \E st \in PatchStatus : UpdateTask(st)
        PROVE  Goal
    <3>1. UNCHANGED <<blocker, req>> /\ status = "BLOCKED" /\ status' = "BLOCKED"
      BY <1>3, <2>0, <2>4 DEF StartTask, UpdateTask
    <3> QED
      BY <2>1, <3>1 DEF LastUnblocks, Unresolved
  <2>5. ASSUME NEW r \in Request, Rollback(r) PROVE Goal
    BY <2>2, <2>5, IdleCounts DEF Rollback, Becomes
  <2>6. ASSUME NEW r \in Request,
               \/ \E b \in Blocker : BeginAdd(r, b) \/ BeginResolve(r, b)
               \/ BeginComplete(r) \/ LoadTask(r)
        PROVE  Goal
    <3>1. /\ UNCHANGED <<status, blocker>>
          /\ \E q : req' = [req EXCEPT ![r] = q] /\ LastUnblocks(q)
      BY <2>1, <2>6, BlockerReads, ReleaseLoads
    <3> QED
      BY <2>2, <3>1
  <2> HIDE DEF Goal
  <2>7. Goal
    BY <1>3, <2>3, <2>4, <2>5, <2>6 DEF MCNext, Next
  <2> QED
    BY <2>7 DEF GhostInv, Goal
<1>4. CASE overlapped' \/ patched'
  BY <1>4 DEF GhostInv
<1> QED
  BY <1>1, <1>2, <1>3, <1>4

LEMMA HoldsKept == TypeOK /\ CountInv /\ HoldInv /\ [MCNext]_MCvars => HoldInv'
<1> SUFFICES ASSUME TypeOK, CountInv, HoldInv, [MCNext]_MCvars PROVE HoldInv'
  OBVIOUS
<1> DEFINE Goal == /\ Unresolved' # {} => status' = "BLOCKED"
                   /\ \A r \in Request : LoadedIsFresh(req[r])'
<1>1. CASE UNCHANGED MCvars
  BY <1>1 DEF MCvars, vars, HoldInv, LoadedIsFresh, Unresolved
<1>2. CASE MCNext /\ ~overlapped' /\ ~bypassed'
  <2>1. /\ OneRequest /\ \A r \in Request : Counted(req[r]) /\ LoadedIsFresh(req[r])
        /\ Unresolved # {} => status = "BLOCKED"
        /\ req' # req
    BY <1>2, OneRequestNext DEF CountInv, HoldInv, MCNext
  <2>2. ASSUME NEW r \in Request, NEW q, LoadedIsFresh(q), req' = [req EXCEPT ![r] = q],
               UNCHANGED <<status, blocker>>
        PROVE  Goal
    <3>1. \A p \in Request : LoadedIsFresh(req'[p])
      BY <2>1, <2>2 DEF TypeOK
    <3> QED
      BY <2>1, <2>2, <3>1 DEF LoadedIsFresh, Unresolved
  <2>3. ASSUME NEW r \in Request, Commit(r) PROVE Goal
    <3>1. \A p \in Request : req'[p] = Idle
      BY <2>1, <2>3, AllIdle
    <3>2. \A p \in Request : LoadedIsFresh(req[p])'
      BY <3>1, IdleCounts DEF LoadedIsFresh
    <3>3. Counted(req[r]) /\ LoadedIsFresh(req[r])
      BY <2>1
    <3>4. Unresolved' # {} => status' = "BLOCKED"
      BY <2>1, <2>3, <3>3, BlockerCommits DEF Counted, LoadedIsFresh
    <3> QED
      BY <3>2, <3>4
  <2>4. ~StartTask /\ \A st \in PatchStatus : ~UpdateTask(st)
    BY <2>1 DEF StartTask, UpdateTask
  <2>5. ASSUME NEW r \in Request, Rollback(r) PROVE Goal
    BY <2>2, <2>5, IdleCounts DEF Rollback, Becomes
  <2>6. ASSUME NEW r \in Request,
               \/ \E b \in Blocker : BeginAdd(r, b) \/ BeginResolve(r, b)
               \/ BeginComplete(r) \/ LoadTask(r)
        PROVE  Goal
    <3>1. /\ UNCHANGED <<status, blocker>>
          /\ \E q : req' = [req EXCEPT ![r] = q] /\ LoadedIsFresh(q)
      BY <2>1, <2>6, BlockerReads, ReleaseLoads
    <3> QED
      BY <2>2, <3>1
  <2> HIDE DEF Goal
  <2>7. Goal
    BY <1>2, <2>3, <2>4, <2>5, <2>6 DEF MCNext, Next
  <2> QED
    BY <2>7 DEF HoldInv, Goal
<1>3. CASE overlapped' \/ bypassed'
  BY <1>3 DEF HoldInv
<1> QED
  BY <1>1, <1>2, <1>3

LEMMA BlockersBegin == MCInit => TypeOK /\ CountInv /\ GhostInv /\ HoldInv
<1> SUFFICES ASSUME MCInit PROVE TypeOK /\ CountInv /\ GhostInv /\ HoldInv
  OBVIOUS
<1>1. TypeOK
  BY BlockersStart DEF MCInit
<1>2. Unresolved = {} /\ status = "READY" /\ \A r \in Request : req[r] = Idle
  BY DEF MCInit, Init, Unresolved
<1> QED
  BY <1>1, <1>2, IdleCounts DEF CountInv, GhostInv, HoldInv, OneRequest

LEMMA CountInvariant == MCFairSpec => [](TypeOK /\ CountInv)
<1>1. TypeOK /\ [MCNext]_MCvars => TypeOK'
  BY BlockersTyped DEF MCNext, MCvars
<1> QED
  BY <1>1, BlockersBegin, CountsKept, PTL DEF MCFairSpec

(* Every row of the blocker engine and every session keeps its type.       *)
THEOREM BlockersStayTyped == Spec => []TypeOK
BY BlockersStart, BlockersTyped, PTL DEF Spec

(* One request at a time, a task whose blockers are all resolved is not    *)
(* left BLOCKED, whatever the worker app or a PATCH does in between,       *)
(* unless PATCH itself made it BLOCKED (tasks/service.py,                  *)
(* resolve_blocker).                                                       *)
THEOREM NoGhostBlockWhileAlone == MCFairSpec => []NoGhostBlockAlone
<1>1. GhostInv => NoGhostBlockAlone
  BY DEF GhostInv, NoGhostBlockAlone, NoGhostBlock
<1> QED
  BY <1>1, BlockersBegin, CountInvariant, GhostsKept, PTL DEF MCFairSpec

LEMMA HoldInvariant == MCFairSpec => []HoldInv
BY BlockersBegin, CountInvariant, HoldsKept, PTL DEF MCFairSpec

(* One request at a time, and with its status left to the blocker routes,  *)
(* a task with an unresolved blocker is BLOCKED (tasks/service.py,         *)
(* add_blocker).                                                           *)
THEOREM BlockerHoldsWhileAlone == MCFairSpec => []BlockerHoldsAlone
<1>1. HoldInv => BlockerHoldsAlone
  BY DEF HoldInv, BlockerHoldsAlone, BlockerHolds
<1> QED
  BY <1>1, HoldInvariant, PTL

(* Under the same condition no step of the workflow is completed while a   *)
(* blocker is open (tasks/service.py, complete_task).                      *)
THEOREM NoAdvancePastBlockerWhileAlone == MCFairSpec => NoAdvancePastBlockerAlone
<1>1. TypeOK /\ HoldInv /\ [MCNext]_MCvars
        => [~overlapped /\ ~bypassed => AdvanceUnblocked]_MCvars
  <2> SUFFICES ASSUME TypeOK, HoldInv, MCNext, ~overlapped, ~bypassed, ~stepDone, stepDone'
               PROVE  Unresolved = {}
    BY DEF AdvanceUnblocked
  <2>1. PICK r \in Request : Commit(r) /\ req[r].op = "complete"
    BY DEF MCNext, Next, BeginAdd, BeginResolve, BeginComplete, Loads, Resolves, LoadTask,
           Rollback, Becomes, StartTask, UpdateTask, Commit
  <2>2. LoadedIsFresh(req[r]) /\ (Unresolved # {} => status = "BLOCKED")
    BY DEF HoldInv
  <2> QED
    BY <2>1, <2>2 DEF LoadedIsFresh
<1> QED
  BY <1>1, CountInvariant, HoldInvariant, PTL DEF MCFairSpec, NoAdvancePastBlockerAlone
=============================================================================
