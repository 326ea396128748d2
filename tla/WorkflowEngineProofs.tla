------------------------ MODULE WorkflowEngineProofs ------------------------
(***************************************************************************)
(* The safety of WorkflowEngine for every dependency relation and every    *)
(* number of interleaved requests: IInv is inductive.  Most actions only   *)
(* read; they change one session (ReadStep).  The three that write keep    *)
(* what other sessions have read true (SessionMonotone).                   *)
(*                                                                         *)
(* With one request at a time the engine also implements WorkflowPromise   *)
(* (SoloInv): what the one session has read is what it commits against.    *)
(***************************************************************************)
EXTENDS MCWorkflowEngine, SequenceTheorems, TLAPS

rows == <<stepStatus, completedAt, tasks, approval, wfStatus>>

(* The idle session is well-typed and has read nothing.                    *)
LEMMA IdleSession == Idle \in Session /\ SessionInv(Idle) /\ SessionInv(Idle)'
BY DEF Idle, Session, SessionInv

(* The instantiated workflow satisfies the invariant.                      *)
LEMMA InitIInv == Init => IInv
<1> SUFFICES ASSUME Init PROVE IInv
  OBVIOUS
<1>1. TypeOK
  <2>1. <<>> \in Seq(TaskStatus) /\ <<"OPEN">> \in Seq(TaskStatus)
    BY DEF TaskStatus
  <2> QED
    BY <2>1, IdleSession DEF Init, TypeOK, StepStatus, ApprovalRow, WorkflowStatus
<1>2. UnlockedAfterPrerequisites
  BY DEF Init, UnlockedAfterPrerequisites
<1>3. TasksMatchUnlockedSteps
  BY DEF Init, TasksMatchUnlockedSteps
<1>4. CompletedOnlyWhenAllDone /\ CompletedRowsAreStamped
  BY DEF Init, CompletedOnlyWhenAllDone, CompletedRowsAreStamped
<1>5. \A r \in Request : SessionInv(req[r])
  BY IdleSession DEF Init
<1> QED
  BY <1>1, <1>2, <1>3, <1>4, <1>5 DEF IInv

(* A step that writes no row keeps the invariant if the one session it     *)
(* changes is well-typed and its reads are justified by the rows.          *)
LEMMA ReadStep ==
  ASSUME IInv, NEW r \in Request, NEW q \in Session, SessionInv(q),
         req' = [req EXCEPT ![r] = q], UNCHANGED rows
  PROVE  IInv'
<1>1. TypeOK'
  BY DEF IInv, TypeOK, rows
<1>2. /\ UnlockedAfterPrerequisites'
      /\ TasksMatchUnlockedSteps'
      /\ CompletedOnlyWhenAllDone'
      /\ CompletedRowsAreStamped'
  BY DEF IInv, rows, UnlockedAfterPrerequisites, TasksMatchUnlockedSteps,
         CompletedOnlyWhenAllDone, CompletedRowsAreStamped
<1>3. ASSUME NEW p \in Request PROVE SessionInv(req[p])'
  <2>1. req'[p] = IF p = r THEN q ELSE req[p]
    BY DEF IInv, TypeOK
  <2>2. SessionInv(req[p])
    BY DEF IInv
  <2> QED
    BY <2>1, <2>2 DEF SessionInv, rows
<1> QED
  BY <1>1, <1>2, <1>3 DEF IInv

(* What a session has read stays justified while steps stay unlocked,      *)
(* completed_at stays set and tasks stay in place.                         *)
LEMMA SessionMonotone ==
  ASSUME NEW q \in Session, SessionInv(q),
         completedAt \subseteq completedAt',
         \A s \in Step : stepStatus[s] # "PENDING" => stepStatus'[s] # "PENDING",
         \A s \in Step : DOMAIN tasks[s] \subseteq DOMAIN tasks'[s]
  PROVE  SessionInv(q)'
BY DEF SessionInv, Session

LEMMA BeginStep ==
  ASSUME IInv, NEW r \in Request, Begin(r)
  PROVE  IInv'
<1>1. ASSUME NEW s \in Step, NEW k \in DOMAIN tasks[s], BeginComplete(r, s, k)
      PROVE  IInv'
  <2> DEFINE q == [Idle EXCEPT !.pc = "load", !.step = s, !.task = k]
  <2>1. tasks[s] \in Seq(TaskStatus)
    BY DEF IInv, TypeOK
  <2>2. k \in Nat /\ k \in 1 .. Len(tasks[s]) /\ tasks[s] # <<>>
    BY <2>1, LenProperties, EmptySeq
  <2>3. stepStatus[s] # "PENDING"
    BY <2>2 DEF IInv, TasksMatchUnlockedSteps
  <2>4. q \in Session
    BY <2>2 DEF Idle, Session
  <2>5. SessionInv(q)
    BY <2>3, WorkflowAssumption DEF Idle, SessionInv
  <2> QED
    BY <1>1, <2>4, <2>5, ReadStep DEF BeginComplete, Becomes, rows
<1>2. ASSUME NEW a \in Approval, BeginApprove(r, a)
      PROVE  IInv'
  <2> DEFINE q == [Idle EXCEPT !.pc = "load", !.step = approval[a].step, !.approval = a,
                               !.decision = "APPROVED"]
  <2>1. approval[a].step \in Step
    BY <1>2 DEF BeginApprove, IInv, TypeOK, ApprovalRow
  <2>2. q \in Session
    BY <2>1 DEF Idle, Session, Decision
  <2>3. SessionInv(q)
    BY <1>2, <2>1 DEF BeginApprove, Idle, SessionInv, Decision
  <2> QED
    BY <1>2, <2>2, <2>3, ReadStep DEF BeginApprove, Becomes, rows
<1>3. ASSUME NEW a \in Approval, NEW d \in Decision, BeginDecide(r, a, d)
      PROVE  IInv'
  <2> DEFINE q == [Idle EXCEPT !.pc = "commit", !.approval = a, !.decision = d]
  <2>1. q \in Session /\ SessionInv(q)
    BY DEF Idle, Session, SessionInv
  <2> QED
    BY <1>3, <2>1, ReadStep DEF BeginDecide, Becomes, rows
<1> QED
  BY <1>1, <1>2, <1>3 DEF Begin

(* The statements of an advancing request before its commit.               *)
LEMMA LoadStepLemma ==
  ASSUME IInv, NEW r \in Request, LoadStep(r) \/ LoadClosedStep(r)
  PROVE  IInv'
<1>1. req[r] \in Session /\ SessionInv(req[r])
  BY DEF IInv, TypeOK
<1>2. CASE LoadStep(r)
  <2> DEFINE q == [req[r] EXCEPT !.pc = "flush", !.loaded = stepStatus[req[r].step]]
  <2>1. req[r].step \in Step /\ stepStatus[req[r].step] \in StepStatus
    BY <1>1, <1>2 DEF LoadStep, SessionInv, IInv, TypeOK
  <2>2. q \in Session
    BY <1>1, <2>1 DEF Session
  <2>3. SessionInv(q)
    BY <1>1, <1>2 DEF SessionInv, Session, LoadStep
  <2> QED
    BY <1>2, <2>2, <2>3, ReadStep DEF LoadStep, Becomes, rows
<1>3. CASE LoadClosedStep(r)
  <2> DEFINE q == [req[r] EXCEPT !.pc = "commit", !.step = None]
  <2>1. q \in Session
    BY <1>1 DEF Session
  <2>2. SessionInv(q)
    BY <1>1, <1>3 DEF SessionInv, Session, LoadClosedStep
  <2> QED
    BY <1>3, <2>1, <2>2, ReadStep DEF LoadClosedStep, Becomes, rows
<1> QED
  BY <1>2, <1>3

LEMMA FlushStep ==
  ASSUME IInv, NEW r \in Request, Flush(r)
  PROVE  IInv'
<1> DEFINE q == [req[r] EXCEPT !.pc = "downstream", !.todo = Downstream(req[r].step)]
<1>1. req[r] \in Session /\ SessionInv(req[r])
  BY DEF IInv, TypeOK
<1>2. q \in Session
  BY <1>1 DEF Session, Downstream
<1>3. SessionInv(q)
  BY <1>1 DEF SessionInv, Session, Flush
<1> QED
  BY <1>2, <1>3, ReadStep DEF Flush, Becomes, rows

LEMMA DownstreamStep ==
  ASSUME IInv, NEW r \in Request, NEW d \in Step,
         SkipDownstream(r, d) \/ InspectDownstream(r, d)
  PROVE  IInv'
<1>1. req[r] \in Session /\ SessionInv(req[r])
  BY DEF IInv, TypeOK
<1>2. CASE SkipDownstream(r, d)
  <2> DEFINE q == [req[r] EXCEPT !.todo = req[r].todo \ {d}]
  <2>1. q \in Session /\ SessionInv(q)
    BY <1>1 DEF Session, SessionInv
  <2> QED
    BY <1>2, <2>1, ReadStep DEF SkipDownstream, Becomes, rows
<1>3. CASE InspectDownstream(r, d)
  <2> DEFINE q == [req[r] EXCEPT !.pc = "upstream", !.cur = d, !.need = Upstream[d]]
  <2>1. q \in Session
    BY <1>1, WorkflowAssumption DEF Session
  <2>2. SessionInv(q)
    BY <1>1, <1>3 DEF SessionInv, Session, InspectDownstream
  <2> QED
    BY <1>3, <2>1, <2>2, ReadStep DEF InspectDownstream, Becomes, rows
<1> QED
  BY <1>2, <1>3

(* A prerequisite read as COMPLETED is the request's own step or carries a *)
(* completed_at.                                                           *)
LEMMA UpstreamStep ==
  ASSUME IInv, NEW r \in Request, NEW u \in Step,
         ReadSatisfied(r, u) \/ ReadUnsatisfied(r, u)
  PROVE  IInv'
<1>1. req[r] \in Session /\ SessionInv(req[r])
  BY DEF IInv, TypeOK
<1>2. CASE ReadSatisfied(r, u)
  <2> DEFINE q == [req[r] EXCEPT !.need = req[r].need \ {u}]
  <2>1. q \in Session
    BY <1>1 DEF Session
  <2>2. u \in completedAt \cup {req[r].step}
    BY <1>2 DEF ReadSatisfied, Seen, IInv, CompletedRowsAreStamped
  <2>3. SessionInv(q)
    BY <1>1, <2>2 DEF SessionInv, Session
  <2> QED
    BY <1>2, <2>1, <2>3, ReadStep DEF ReadSatisfied, Becomes, rows
<1>3. CASE ReadUnsatisfied(r, u)
  <2> DEFINE q == [req[r] EXCEPT !.pc = "downstream", !.need = {}, !.cur = None,
                                 !.todo = req[r].todo \ {req[r].cur}]
  <2>1. q \in Session
    BY <1>1 DEF Session
  <2>2. SessionInv(q)
    BY <1>1, <1>3 DEF SessionInv, Session, ReadUnsatisfied
  <2> QED
    BY <1>3, <2>1, <2>2, ReadStep DEF ReadUnsatisfied, Becomes, rows
<1> QED
  BY <1>2, <1>3

LEMMA ActivateStep ==
  ASSUME IInv, NEW r \in Request, Activate(r)
  PROVE  IInv'
<1> DEFINE q == [req[r] EXCEPT !.pc = "downstream", !.cur = None,
                               !.todo = req[r].todo \ {req[r].cur},
                               !.activated = req[r].activated \cup {req[r].cur}]
<1>1. req[r] \in Session /\ SessionInv(req[r])
  BY DEF IInv, TypeOK
<1>2. req[r].cur \in Step /\ Upstream[req[r].cur] \subseteq completedAt \cup {req[r].step}
  BY <1>1 DEF Activate, SessionInv
<1>3. q \in Session
  BY <1>1, <1>2 DEF Session
<1>4. SessionInv(q)
  BY <1>1, <1>2 DEF SessionInv, Session, Activate
<1> QED
  BY <1>3, <1>4, ReadStep DEF Activate, Becomes, rows

LEMMA CheckAllStep ==
  ASSUME IInv, NEW r \in Request, CheckAll(r)
  PROVE  IInv'
<1> DEFINE done == \A s \in Step : Seen(r, s) = "COMPLETED"
           q == [req[r] EXCEPT !.pc = "commit", !.allDone = done]
<1>1. req[r] \in Session /\ SessionInv(req[r])
  BY DEF IInv, TypeOK
<1>2. done => Step \subseteq completedAt \cup {req[r].step}
  BY DEF Seen, IInv, CompletedRowsAreStamped
<1>3. done \in BOOLEAN
  OBVIOUS
<1>4. req[r].pc = "downstream" /\ Becomes(r, q)
  BY DEF CheckAll
<1> HIDE DEF done
<1>5. q \in Session
  BY <1>1, <1>3 DEF Session
<1>6. SessionInv(q)
  BY <1>1, <1>2, <1>4 DEF SessionInv, Session
<1> QED
  BY <1>4, <1>5, <1>6, ReadStep DEF Becomes, rows

(* The commit: rows only move forward, and what the session has read       *)
(* justifies what it writes.                                               *)
LEMMA CommitStep ==
  ASSUME IInv, NEW r \in Request, Commit(r)
  PROVE  IInv'
<1> DEFINE q == req[r]
<1>1. q \in Session /\ SessionInv(q)
  BY DEF IInv, TypeOK
<1>2. completedAt' = completedAt \cup ({q.step} \cap Step)
  BY DEF Commit
<1>3. ASSUME NEW s \in Step
      PROVE  /\ stepStatus'[s] = StepAfter(r, s)
             /\ stepStatus[s] # "PENDING" => stepStatus'[s] # "PENDING"
             /\ stepStatus'[s] \in StepStatus
             /\ stepStatus'[s] = "COMPLETED" => s \in completedAt'
             /\ stepStatus'[s] # "PENDING" => Upstream[s] \subseteq completedAt'
  <2>1. stepStatus'[s] = StepAfter(r, s)
    BY DEF Commit
  <2>2. stepStatus[s] \in StepStatus
    BY DEF IInv, TypeOK
  <2>3. stepStatus[s] # "PENDING" => stepStatus'[s] # "PENDING"
    BY <2>1 DEF StepAfter
  <2>4. stepStatus'[s] \in StepStatus
    BY <2>1, <2>2 DEF StepAfter, StepStatus
  <2>5. stepStatus'[s] = "COMPLETED" => s \in completedAt'
    BY <1>2, <2>1 DEF StepAfter, IInv, CompletedRowsAreStamped
  <2>6. stepStatus'[s] # "PENDING" => Upstream[s] \subseteq completedAt'
    <3>1. Upstream[s] \subseteq Step
      BY WorkflowAssumption
    <3>2. CASE s \in q.activated
      BY <1>1, <1>2, <3>1, <3>2 DEF SessionInv
    <3>3. CASE stepStatus[s] # "PENDING"
      BY <1>2, <3>3 DEF IInv, UnlockedAfterPrerequisites
    <3>4. CASE s \notin q.activated /\ stepStatus[s] = "PENDING"
      <4>1. s # q.step
        BY <1>1, <3>4, WorkflowAssumption DEF SessionInv, Commit
      <4> QED
        BY <2>1, <3>4, <4>1 DEF StepAfter
    <3> QED
      BY <3>2, <3>3, <3>4
  <2> QED
    BY <2>1, <2>3, <2>4, <2>5, <2>6
<1>4. ASSUME NEW s \in Step
      PROVE  /\ tasks'[s] \in Seq(TaskStatus)
             /\ DOMAIN tasks[s] \subseteq DOMAIN tasks'[s]
             /\ tasks'[s] # <<>> <=> stepStatus'[s] # "PENDING"
  <2> DEFINE done == IF s = q.step /\ q.task # 0
                     THEN [tasks[s] EXCEPT ![q.task] = "COMPLETED"]
                     ELSE tasks[s]
  <2>1. tasks[s] \in Seq(TaskStatus)
    BY DEF IInv, TypeOK
  <2>2. done \in Seq(TaskStatus) /\ Len(done) = Len(tasks[s])
    <3>1. CASE s = q.step /\ q.task # 0
      <4>1. q.task \in 1 .. Len(tasks[s])
        BY <1>1, <2>1, <3>1 DEF SessionInv
      <4>2. "COMPLETED" \in TaskStatus
        BY DEF TaskStatus
      <4> QED
        BY <2>1, <3>1, <4>1, <4>2, ExceptSeq
    <3> QED
      BY <2>1, <3>1
  <2>3. tasks'[s] = IF s \in q.activated THEN Append(done, "OPEN") ELSE done
    BY DEF Commit, TasksAfter
  <2> HIDE DEF done
  <2>4. tasks[s] # <<>> <=> stepStatus[s] # "PENDING"
    BY DEF IInv, TasksMatchUnlockedSteps
  <2>5. CASE s \in q.activated
    <3>1. "OPEN" \in TaskStatus
      BY DEF TaskStatus
    <3>2. /\ tasks'[s] \in Seq(TaskStatus)
          /\ tasks'[s] # <<>>
          /\ Len(tasks'[s]) = Len(tasks[s]) + 1
      BY <2>2, <2>3, <2>5, <3>1, AppendProperties
    <3>3. stepStatus'[s] = "READY"
      BY <1>3, <2>5 DEF StepAfter
    <3>4. DOMAIN tasks[s] \subseteq DOMAIN tasks'[s]
      BY <2>1, <3>2, LenProperties
    <3> QED
      BY <3>2, <3>3, <3>4
  <2>6. CASE s \notin q.activated
    <3>1. tasks'[s] = done
      BY <2>3, <2>6
    <3>2. DOMAIN tasks[s] = DOMAIN tasks'[s]
      BY <2>1, <2>2, <3>1, LenProperties
    <3>3. tasks'[s] = <<>> <=> tasks[s] = <<>>
      BY <2>1, <2>2, <3>1, EmptySeq
    <3>4. stepStatus'[s] # "PENDING" <=> stepStatus[s] # "PENDING"
      <4>1. s = q.step => stepStatus[s] # "PENDING"
        BY <1>1, WorkflowAssumption DEF SessionInv, Commit
      <4> QED
        BY <1>3, <2>6, <4>1 DEF StepAfter
    <3> QED
      BY <2>2, <2>4, <3>1, <3>2, <3>3, <3>4
  <2> QED
    BY <2>5, <2>6
<1>5. wfStatus' = "COMPLETED" => completedAt' = Step
  <2>1. completedAt \subseteq Step
    BY DEF IInv, TypeOK
  <2>2. CASE q.allDone
    BY <1>1, <1>2, <2>1, <2>2 DEF SessionInv
  <2>3. CASE ~q.allDone
    BY <1>2, <2>1, <2>3 DEF Commit, IInv, CompletedOnlyWhenAllDone
  <2> QED
    BY <2>2, <2>3
<1>6. TypeOK'
  <2>1. stepStatus' \in [Step -> StepStatus]
    BY <1>3 DEF Commit
  <2>2. tasks' \in [Step -> Seq(TaskStatus)]
    BY <1>4 DEF Commit
  <2>3. completedAt' \subseteq Step
    BY <1>2 DEF IInv, TypeOK
  <2>4. approval' \in [Approval -> ApprovalRow]
    <3>1. ASSUME NEW a \in Approval PROVE approval'[a] \in ApprovalRow
      <4>1. approval[a] \in ApprovalRow
        BY DEF IInv, TypeOK
      <4>2. approval'[a] = IF a = q.approval
                           THEN [approval[a] EXCEPT !.status = q.decision] ELSE approval[a]
        BY DEF Commit
      <4>3. a = q.approval => q.decision \in Decision
        BY <1>1, WorkflowAssumption DEF SessionInv
      <4> QED
        BY <4>1, <4>2, <4>3 DEF ApprovalRow
    <3> QED
      BY <3>1 DEF Commit
  <2>5. wfStatus' \in WorkflowStatus
    BY DEF Commit, IInv, TypeOK, WorkflowStatus
  <2>6. req' \in [Request -> Session]
    BY IdleSession DEF Commit, IInv, TypeOK
  <2> QED
    BY <2>1, <2>2, <2>3, <2>4, <2>5, <2>6 DEF TypeOK
<1>7. ASSUME NEW p \in Request PROVE SessionInv(req[p])'
  <2>1. CASE p = r
    <3>1. req'[p] = Idle
      BY <2>1 DEF Commit, IInv, TypeOK
    <3> QED
      BY <3>1 DEF Idle, SessionInv
  <2>2. CASE p # r
    <3>1. req'[p] = req[p]
      BY <2>2 DEF Commit, IInv, TypeOK
    <3>2. req[p] \in Session /\ SessionInv(req[p])
      BY DEF IInv, TypeOK
    <3> QED
      BY <1>2, <1>3, <1>4, <3>1, <3>2 DEF SessionInv, Session
  <2> QED
    BY <2>1, <2>2
<1> QED
  BY <1>3, <1>4, <1>5, <1>6, <1>7
  DEF IInv, UnlockedAfterPrerequisites, TasksMatchUnlockedSteps,
      CompletedOnlyWhenAllDone, CompletedRowsAreStamped

LEMMA RollbackStep ==
  ASSUME IInv, NEW r \in Request, Rollback(r)
  PROVE  IInv'
BY IdleSession, ReadStep DEF Rollback, Becomes, rows

(* PATCHing or starting a task moves no step and removes no task.          *)
LEMMA UpdateTaskStep ==
  ASSUME IInv, NEW s \in Step, NEW k \in DOMAIN tasks[s], NEW st \in TaskStatus,
         UpdateTask(s, k, st)
  PROVE  IInv'
<1>1. tasks[s] \in Seq(TaskStatus) /\ k \in 1 .. Len(tasks[s])
  BY DEF IInv, TypeOK
<1>2. /\ [tasks[s] EXCEPT ![k] = st] \in Seq(TaskStatus)
      /\ Len([tasks[s] EXCEPT ![k] = st]) = Len(tasks[s])
  BY <1>1, ExceptSeq
<1>3. ASSUME NEW t \in Step
      PROVE  /\ tasks'[t] \in Seq(TaskStatus)
             /\ Len(tasks'[t]) = Len(tasks[t])
             /\ DOMAIN tasks[t] = DOMAIN tasks'[t]
             /\ tasks'[t] = <<>> <=> tasks[t] = <<>>
  <2>1. tasks[t] \in Seq(TaskStatus)
    BY DEF IInv, TypeOK
  <2>2. tasks'[t] = IF t = s THEN [tasks[s] EXCEPT ![k] = st] ELSE tasks[t]
    BY DEF UpdateTask, IInv, TypeOK
  <2>3. tasks'[t] \in Seq(TaskStatus) /\ Len(tasks'[t]) = Len(tasks[t])
    BY <1>2, <2>1, <2>2
  <2> QED
    BY <2>1, <2>3, LenProperties, EmptySeq
<1>4. TypeOK'
  BY <1>3 DEF UpdateTask, IInv, TypeOK
<1>5. ASSUME NEW p \in Request PROVE SessionInv(req[p])'
  <2>1. req[p] \in Session /\ SessionInv(req[p]) /\ req'[p] = req[p]
    BY DEF IInv, TypeOK, UpdateTask
  <2> QED
    BY <1>3, <2>1 DEF SessionInv, Session, UpdateTask
<1> QED
  BY <1>3, <1>4, <1>5
  DEF UpdateTask, IInv, UnlockedAfterPrerequisites, TasksMatchUnlockedSteps,
      CompletedOnlyWhenAllDone, CompletedRowsAreStamped

LEMMA RequestApprovalStep ==
  ASSUME IInv, NEW a \in Approval, NEW s \in Step \cup {None}, RequestApproval(a, s)
  PROVE  IInv'
<1>1. TypeOK'
  BY DEF RequestApproval, IInv, TypeOK, ApprovalRow
<1>2. \A p \in Request : SessionInv(req[p])'
  BY DEF RequestApproval, IInv, SessionInv
<1> QED
  BY <1>1, <1>2
  DEF RequestApproval, IInv, UnlockedAfterPrerequisites, TasksMatchUnlockedSteps,
      CompletedOnlyWhenAllDone, CompletedRowsAreStamped

(* Every step keeps the invariant.                                         *)
LEMMA NextIInv == IInv /\ [Next]_vars => IInv'
<1> SUFFICES ASSUME IInv, [Next]_vars PROVE IInv'
  OBVIOUS
<1>1. ASSUME NEW r \in Request, Begin(r) PROVE IInv'
  BY <1>1, BeginStep
<1>2. ASSUME NEW r \in Request, Advance(r) PROVE IInv'
  BY <1>2, LoadStepLemma, FlushStep, DownstreamStep, UpstreamStep, ActivateStep, CheckAllStep,
     CommitStep DEF Advance
<1>3. ASSUME NEW r \in Request, Rollback(r) PROVE IInv'
  BY <1>3, RollbackStep
<1>4. ASSUME NEW s \in Step, NEW k \in DOMAIN tasks[s], NEW st \in PatchStatus,
             UpdateTask(s, k, st)
      PROVE  IInv'
  BY <1>4, UpdateTaskStep, WorkflowAssumption DEF TaskStatus
<1>5. ASSUME NEW s \in Step, NEW k \in DOMAIN tasks[s], StartTask(s, k) PROVE IInv'
  BY <1>5, UpdateTaskStep DEF StartTask, TaskStatus
<1>6. ASSUME NEW a \in Approval, NEW s \in Step \cup {None}, RequestApproval(a, s) PROVE IInv'
  BY <1>6, RequestApprovalStep
<1>7. CASE UNCHANGED vars
  BY <1>7 DEF vars, IInv, TypeOK, UnlockedAfterPrerequisites, TasksMatchUnlockedSteps,
              CompletedOnlyWhenAllDone, CompletedRowsAreStamped, SessionInv
<1> QED
  BY <1>1, <1>2, <1>3, <1>4, <1>5, <1>6, <1>7 DEF Next

THEOREM InductiveInvariant == Spec => []IInv
BY InitIInv, NextIInv, PTL DEF Spec

(* Every committed row and every session keeps the type of its columns.    *)
THEOREM TypeCorrect == Spec => []TypeOK
<1>1. IInv => TypeOK
  BY DEF IInv
<1> QED
  BY <1>1, InductiveInvariant, PTL

(* No interleaving of requests unlocks a step before each of its           *)
(* prerequisites has been completed (advance_workflow_after_step_completed,*)
(* docs/06 State Machine Rules).                                           *)
THEOREM NoEarlyUnlock == Spec => []UnlockedAfterPrerequisites
<1>1. IInv => UnlockedAfterPrerequisites
  BY DEF IInv
<1> QED
  BY <1>1, InductiveInvariant, PTL

(* A step has a task exactly when it is unlocked: generate_task_for_step   *)
(* commits with the step it is for.                                        *)
THEOREM TasksFollowSteps == Spec => []TasksMatchUnlockedSteps
<1>1. IInv => TasksMatchUnlockedSteps
  BY DEF IInv
<1> QED
  BY <1>1, InductiveInvariant, PTL

(* The workflow and its order item are COMPLETED only after every step has *)
(* been.                                                                   *)
THEOREM NoEarlyClose == Spec => []CompletedOnlyWhenAllDone
<1>1. IInv => CompletedOnlyWhenAllDone
  BY DEF IInv
<1> QED
  BY <1>1, InductiveInvariant, PTL

-----------------------------------------------------------------------------
(* One request at a time: a deployment that never runs two advancing       *)
(* requests of a workflow together.                                        *)
OneRequest == \A p, r \in Request : p = r

(* A step still PENDING has a prerequisite that is not COMPLETED, at every *)
(* moment and not only when no request is in flight.                       *)
NoGap ==
    \A s \in Step : stepStatus[s] = "PENDING" =>
        \E u \in Upstream[s] : stepStatus[u] # "COMPLETED"

(* A workflow whose steps are all COMPLETED is COMPLETED.                  *)
ClosedWhenDone ==
    Step # {} /\ (\A s \in Step : stepStatus[s] = "COMPLETED") => wfStatus = "COMPLETED"

(* The COMPLETED steps as session q sees them.                             *)
DoneFor(q) == {u \in Step : u = q.step \/ stepStatus[u] = "COMPLETED"}

(* The statements after the flush, up to and including the commit.         *)
Advancing(q) == q.step # None /\ q.pc \in {"downstream", "upstream", "commit"}

(* The steps the session made READY are those the promise asks for.        *)
ActivatedAreDue(q) ==
    \A d \in q.activated : stepStatus[d] = "PENDING" /\ Upstream[d] \subseteq DoneFor(q)

DueAreActivated(q) ==
    \A d \in Step :
        q.step \in Upstream[d] /\ d \notin q.todo /\ stepStatus[d] = "PENDING"
            /\ Upstream[d] \subseteq DoneFor(q)
        => d \in q.activated

(* The only session in flight is up to date with the committed rows.       *)
SoloSession(q) ==
    /\ q.pc = "flush" \/ Advancing(q) => q.loaded = stepStatus[q.step]
    /\ q.pc \in {"load", "flush"} => q.activated = {}
    /\ q.pc = "commit" /\ q.step = None => q.activated = {} /\ ~q.allDone
    /\ ActivatedAreDue(q)
    /\ Advancing(q) => DueAreActivated(q)
    /\ q.pc = "upstream" =>
          /\ stepStatus[q.cur] = "PENDING"
          /\ q.need \subseteq Upstream[q.cur]
          /\ Upstream[q.cur] \ q.need \subseteq DoneFor(q)
    /\ q.pc = "commit" /\ q.step # None =>
          q.todo = {} /\ (q.allDone <=> Step \subseteq DoneFor(q))

SoloInv ==
    /\ IInv
    /\ NoGap
    /\ ClosedWhenDone
    /\ \A r \in Request : SoloSession(req[r])

LEMMA IdleSolo == SoloSession(Idle) /\ SoloSession(Idle)'
BY DEF Idle, SoloSession, Advancing, ActivatedAreDue

LEMMA InitSolo == Init => SoloInv
<1> SUFFICES ASSUME Init PROVE SoloInv
  OBVIOUS
<1>1. NoGap
  <2>1. ASSUME NEW s \in Step, stepStatus[s] = "PENDING"
        PROVE  \E u \in Upstream[s] : stepStatus[u] # "COMPLETED"
    <3>1. Upstream[s] # {} /\ Upstream[s] \subseteq Step
      BY <2>1, WorkflowAssumption DEF Init
    <3> QED
      BY <3>1 DEF Init
  <2> QED
    BY <2>1 DEF NoGap
<1>2. ClosedWhenDone
  BY DEF Init, ClosedWhenDone
<1>3. \A r \in Request : SoloSession(req[r])
  BY IdleSolo DEF Init
<1> QED
  BY <1>1, <1>2, <1>3, InitIInv DEF SoloInv

(* A statement that writes no row keeps the solo invariant if the session  *)
(* it leaves is up to date.                                                *)
LEMMA SoloRead ==
  ASSUME OneRequest, SoloInv, IInv', NEW r \in Request, NEW q, SoloSession(q), Becomes(r, q)
  PROVE  SoloInv' /\ UNCHANGED <<stepStatus, wfStatus>>
<1>1. UNCHANGED <<stepStatus, wfStatus>>
  BY DEF Becomes
<1>2. NoGap' /\ ClosedWhenDone'
  BY <1>1 DEF SoloInv, NoGap, ClosedWhenDone
<1>3. ASSUME NEW p \in Request PROVE SoloSession(req[p])'
  <2>1. req'[p] = q
    BY DEF OneRequest, Becomes, SoloInv, IInv, TypeOK
  <2> QED
    BY <1>1, <2>1
    DEF SoloSession, Advancing, ActivatedAreDue, DueAreActivated, DoneFor
<1> QED
  BY <1>1, <1>2, <1>3 DEF SoloInv

LEMMA SoloBegin ==
  ASSUME OneRequest, SoloInv, IInv', NEW r \in Request, Begin(r)
  PROVE  SoloInv' /\ UNCHANGED <<stepStatus, wfStatus>>
<1>1. ASSUME NEW s \in Step, NEW k \in DOMAIN tasks[s], BeginComplete(r, s, k)
      PROVE  SoloInv' /\ UNCHANGED <<stepStatus, wfStatus>>
  <2> DEFINE q == [Idle EXCEPT !.pc = "load", !.step = s, !.task = k]
  <2>1. SoloSession(q)
    BY DEF Idle, SoloSession, Advancing, ActivatedAreDue
  <2>2. Becomes(r, q)
    BY <1>1 DEF BeginComplete
  <2> HIDE DEF q
  <2> QED
    BY <2>1, <2>2, SoloRead
<1>2. ASSUME NEW a \in Approval, BeginApprove(r, a)
      PROVE  SoloInv' /\ UNCHANGED <<stepStatus, wfStatus>>
  <2> DEFINE q == [Idle EXCEPT !.pc = "load", !.step = approval[a].step, !.approval = a,
                               !.decision = "APPROVED"]
  <2>1. SoloSession(q)
    BY DEF Idle, SoloSession, Advancing, ActivatedAreDue
  <2>2. Becomes(r, q)
    BY <1>2 DEF BeginApprove
  <2> HIDE DEF q
  <2> QED
    BY <2>1, <2>2, SoloRead
<1>3. ASSUME NEW a \in Approval, NEW d \in Decision, BeginDecide(r, a, d)
      PROVE  SoloInv' /\ UNCHANGED <<stepStatus, wfStatus>>
  <2> DEFINE q == [Idle EXCEPT !.pc = "commit", !.approval = a, !.decision = d]
  <2>1. SoloSession(q)
    BY DEF Idle, SoloSession, Advancing, ActivatedAreDue
  <2>2. Becomes(r, q)
    BY <1>3 DEF BeginDecide
  <2> HIDE DEF q
  <2> QED
    BY <2>1, <2>2, SoloRead
<1> QED
  BY <1>1, <1>2, <1>3 DEF Begin

LEMMA SoloLoad ==
  ASSUME OneRequest, SoloInv, IInv', NEW r \in Request,
         LoadStep(r) \/ LoadClosedStep(r) \/ Flush(r)
  PROVE  SoloInv' /\ UNCHANGED <<stepStatus, wfStatus>>
<1>1. req[r] \in Session /\ SessionInv(req[r]) /\ SoloSession(req[r])
  BY DEF SoloInv, IInv, TypeOK
<1>2. CASE LoadStep(r)
  <2> DEFINE q == [req[r] EXCEPT !.pc = "flush", !.loaded = stepStatus[req[r].step]]
  <2>1. SoloSession(q)
    BY <1>1, <1>2 DEF Session, LoadStep, SoloSession, Advancing, ActivatedAreDue
  <2>2. Becomes(r, q)
    BY <1>2 DEF LoadStep
  <2> HIDE DEF q
  <2> QED
    BY <2>1, <2>2, SoloRead
<1>3. CASE LoadClosedStep(r)
  <2> DEFINE q == [req[r] EXCEPT !.pc = "commit", !.step = None]
  <2>1. SoloSession(q)
    BY <1>1, <1>3
    DEF Session, LoadClosedStep, SessionInv, SoloSession, Advancing, ActivatedAreDue
  <2>2. Becomes(r, q)
    BY <1>3 DEF LoadClosedStep
  <2> HIDE DEF q
  <2> QED
    BY <2>1, <2>2, SoloRead
<1>4. CASE Flush(r)
  <2> DEFINE q == [req[r] EXCEPT !.pc = "downstream", !.todo = Downstream(req[r].step)]
  <2>1. /\ q.pc = "downstream" /\ q.todo = Downstream(req[r].step) /\ q.step = req[r].step
        /\ q.activated = req[r].activated /\ q.loaded = req[r].loaded
    BY <1>1 DEF Session
  <2>2. Becomes(r, q)
    BY <1>4 DEF Flush
  <2>3. req[r].pc = "flush"
    BY <1>4 DEF Flush
  <2> HIDE DEF q
  <2>4. DueAreActivated(q)
    BY <2>1 DEF DueAreActivated, Downstream
  <2>5. SoloSession(q)
    BY <1>1, <2>1, <2>3, <2>4 DEF SoloSession, Advancing, ActivatedAreDue
  <2> QED
    BY <2>2, <2>5, SoloRead
<1> QED
  BY <1>2, <1>3, <1>4

(* The loop over the downstream steps: each one is read PENDING or not as  *)
(* it is committed, its prerequisites too.                                 *)
LEMMA SoloDownstream ==
  ASSUME OneRequest, SoloInv, IInv', NEW r \in Request, NEW d \in Step,
         SkipDownstream(r, d) \/ InspectDownstream(r, d)
  PROVE  SoloInv' /\ UNCHANGED <<stepStatus, wfStatus>>
<1>1. req[r] \in Session /\ SessionInv(req[r]) /\ SoloSession(req[r])
  BY DEF SoloInv, IInv, TypeOK
<1>2. req[r].pc = "downstream" /\ req[r].step \in Step
  BY <1>1 DEF SkipDownstream, InspectDownstream, SessionInv
<1>3. Advancing(req[r])
  BY <1>2, WorkflowAssumption DEF Advancing
<1>4. CASE SkipDownstream(r, d)
  <2> DEFINE q == [req[r] EXCEPT !.todo = req[r].todo \ {d}]
  <2>1. /\ q.pc = "downstream" /\ q.todo = req[r].todo \ {d} /\ q.step = req[r].step
        /\ q.activated = req[r].activated /\ q.loaded = req[r].loaded
    BY <1>1, <1>2 DEF Session
  <2>2. Becomes(r, q)
    BY <1>4 DEF SkipDownstream
  <2> HIDE DEF q
  <2>3. d \in req[r].activated \/ stepStatus[d] # "PENDING"
    BY <1>1, <1>2, <1>4, WorkflowAssumption DEF SkipDownstream, Seen, SessionInv
  <2>4. DueAreActivated(q)
    BY <1>1, <1>3, <2>1, <2>3 DEF SoloSession, DueAreActivated, DoneFor
  <2>5. ActivatedAreDue(q)
    BY <1>1, <2>1 DEF SoloSession, ActivatedAreDue, DoneFor
  <2>6. SoloSession(q)
    BY <1>1, <1>3, <2>1, <2>4, <2>5 DEF SoloSession
  <2> QED
    BY <2>2, <2>6, SoloRead
<1>5. CASE InspectDownstream(r, d)
  <2> DEFINE q == [req[r] EXCEPT !.pc = "upstream", !.cur = d, !.need = Upstream[d]]
  <2>1. /\ q.pc = "upstream" /\ q.todo = req[r].todo /\ q.step = req[r].step /\ q.cur = d
        /\ q.need = Upstream[d] /\ q.activated = req[r].activated /\ q.loaded = req[r].loaded
    BY <1>1 DEF Session
  <2>2. Becomes(r, q)
    BY <1>5 DEF InspectDownstream
  <2>3. stepStatus[d] = "PENDING"
    BY <1>5 DEF InspectDownstream, Seen
  <2> HIDE DEF q
  <2>4. DueAreActivated(q) /\ ActivatedAreDue(q)
    BY <1>1, <1>3, <2>1 DEF SoloSession, DueAreActivated, ActivatedAreDue, DoneFor
  <2>5. SoloSession(q)
    BY <1>1, <1>3, <2>1, <2>3, <2>4 DEF SoloSession
  <2> QED
    BY <2>2, <2>5, SoloRead
<1> QED
  BY <1>4, <1>5

LEMMA SoloUpstream ==
  ASSUME OneRequest, SoloInv, IInv', NEW r \in Request, NEW u \in Step,
         ReadSatisfied(r, u) \/ ReadUnsatisfied(r, u)
  PROVE  SoloInv' /\ UNCHANGED <<stepStatus, wfStatus>>
<1>1. req[r] \in Session /\ SessionInv(req[r]) /\ SoloSession(req[r])
  BY DEF SoloInv, IInv, TypeOK
<1>2. req[r].pc = "upstream" /\ req[r].step \in Step /\ u \in req[r].need
  BY <1>1 DEF ReadSatisfied, ReadUnsatisfied, SessionInv
<1>3. Advancing(req[r])
  BY <1>2, WorkflowAssumption DEF Advancing
<1>4. CASE ReadSatisfied(r, u)
  <2> DEFINE q == [req[r] EXCEPT !.need = req[r].need \ {u}]
  <2>1. /\ q.pc = "upstream" /\ q.todo = req[r].todo /\ q.step = req[r].step
        /\ q.cur = req[r].cur /\ q.need = req[r].need \ {u}
        /\ q.activated = req[r].activated /\ q.loaded = req[r].loaded
    BY <1>1, <1>2 DEF Session
  <2>2. Becomes(r, q)
    BY <1>4 DEF ReadSatisfied
  <2> HIDE DEF q
  <2>3. u \in DoneFor(q)
    BY <1>4, <2>1 DEF ReadSatisfied, Seen, DoneFor
  <2>4. DoneFor(q) = DoneFor(req[r])
    BY <2>1 DEF DoneFor
  <2>5. DueAreActivated(q) /\ ActivatedAreDue(q)
    BY <1>1, <1>3, <2>1, <2>4 DEF SoloSession, DueAreActivated, ActivatedAreDue
  <2>6. Upstream[q.cur] \ q.need \subseteq DoneFor(q) /\ q.need \subseteq Upstream[q.cur]
    BY <1>1, <1>2, <2>1, <2>3, <2>4 DEF SoloSession
  <2>7. SoloSession(q)
    BY <1>1, <1>2, <1>3, <2>1, <2>5, <2>6 DEF SoloSession
  <2> QED
    BY <2>2, <2>7, SoloRead
<1>5. CASE ReadUnsatisfied(r, u)
  <2> DEFINE q == [req[r] EXCEPT !.pc = "downstream", !.need = {}, !.cur = None,
                                 !.todo = req[r].todo \ {req[r].cur}]
  <2>1. /\ q.pc = "downstream" /\ q.todo = req[r].todo \ {req[r].cur}
        /\ q.step = req[r].step
        /\ q.activated = req[r].activated /\ q.loaded = req[r].loaded
    BY <1>1 DEF Session
  <2>2. Becomes(r, q)
    BY <1>5 DEF ReadUnsatisfied
  <2> HIDE DEF q
  <2>3. DoneFor(q) = DoneFor(req[r])
    BY <2>1 DEF DoneFor
  <2>4. u \notin DoneFor(q)
    <3>1. u # req[r].step
      BY <1>5 DEF ReadUnsatisfied, Seen
    <3>2. stepStatus[u] # "COMPLETED"
      BY <1>1, <1>5 DEF ReadUnsatisfied, Seen, SoloSession, ActivatedAreDue
    <3> QED
      BY <2>1, <3>1, <3>2 DEF DoneFor
  <2>5. u \in Upstream[req[r].cur]
    BY <1>1, <1>2 DEF SoloSession
  <2>6. ActivatedAreDue(q)
    BY <1>1, <2>1, <2>3 DEF SoloSession, ActivatedAreDue
  <2>7. DueAreActivated(q)
    BY <1>1, <1>3, <2>1, <2>3, <2>4, <2>5 DEF SoloSession, DueAreActivated
  <2>8. SoloSession(q)
    BY <1>1, <1>3, <2>1, <2>6, <2>7 DEF SoloSession
  <2> QED
    BY <2>2, <2>8, SoloRead
<1> QED
  BY <1>4, <1>5

LEMMA SoloActivate ==
  ASSUME OneRequest, SoloInv, IInv', NEW r \in Request, Activate(r)
  PROVE  SoloInv' /\ UNCHANGED <<stepStatus, wfStatus>>
<1> DEFINE q == [req[r] EXCEPT !.pc = "downstream", !.cur = None,
                               !.todo = req[r].todo \ {req[r].cur},
                               !.activated = req[r].activated \cup {req[r].cur}]
<1>1. req[r] \in Session /\ SessionInv(req[r]) /\ SoloSession(req[r])
  BY DEF SoloInv, IInv, TypeOK
<1>2. req[r].pc = "upstream" /\ req[r].step \in Step /\ req[r].need = {}
  BY <1>1 DEF Activate, SessionInv
<1>3. Advancing(req[r])
  BY <1>2, WorkflowAssumption DEF Advancing
<1>4. /\ q.pc = "downstream" /\ q.todo = req[r].todo \ {req[r].cur}
      /\ q.step = req[r].step /\ q.activated = req[r].activated \cup {req[r].cur}
      /\ q.loaded = req[r].loaded
  BY <1>1 DEF Session
<1>5. Becomes(r, q)
  BY DEF Activate
<1> HIDE DEF q
<1>6. DoneFor(q) = DoneFor(req[r])
  BY <1>4 DEF DoneFor
<1>7. ActivatedAreDue(q)
  BY <1>1, <1>2, <1>4, <1>6 DEF SoloSession, ActivatedAreDue
<1>8. DueAreActivated(q)
  BY <1>1, <1>3, <1>4, <1>6 DEF SoloSession, DueAreActivated
<1>9. SoloSession(q)
  BY <1>1, <1>3, <1>4, <1>7, <1>8 DEF SoloSession
<1> QED
  BY <1>5, <1>9, SoloRead

LEMMA SoloCheckAll ==
  ASSUME OneRequest, SoloInv, IInv', NEW r \in Request, CheckAll(r)
  PROVE  SoloInv' /\ UNCHANGED <<stepStatus, wfStatus>>
<1> DEFINE done == \A s \in Step : Seen(r, s) = "COMPLETED"
           q == [req[r] EXCEPT !.pc = "commit", !.allDone = done]
<1>1. req[r] \in Session /\ SessionInv(req[r]) /\ SoloSession(req[r])
  BY DEF SoloInv, IInv, TypeOK
<1>2. req[r].pc = "downstream" /\ req[r].step \in Step /\ req[r].todo = {}
  BY <1>1 DEF CheckAll, SessionInv
<1>3. Advancing(req[r])
  BY <1>2, WorkflowAssumption DEF Advancing
<1>4. done <=> Step \subseteq DoneFor(req[r])
  <2>1. ASSUME NEW s \in Step
        PROVE  Seen(r, s) = "COMPLETED" <=> s \in DoneFor(req[r])
    BY <1>1 DEF Seen, DoneFor, SoloSession, ActivatedAreDue
  <2> QED
    BY <2>1
<1>5. done \in BOOLEAN
  OBVIOUS
<1>6. Becomes(r, q)
  BY DEF CheckAll
<1> HIDE DEF done
<1>7. /\ q.pc = "commit" /\ q.todo = {} /\ q.step = req[r].step
      /\ q.activated = req[r].activated /\ q.loaded = req[r].loaded /\ q.allDone = done
  BY <1>1, <1>2, <1>5 DEF Session
<1> HIDE DEF q
<1>8. DoneFor(q) = DoneFor(req[r])
  BY <1>7 DEF DoneFor
<1>9. ActivatedAreDue(q) /\ DueAreActivated(q)
  BY <1>1, <1>2, <1>3, <1>7, <1>8 DEF SoloSession, ActivatedAreDue, DueAreActivated
<1>10. q.step # None
  BY <1>2, <1>7, WorkflowAssumption
<1>11. SoloSession(q)
  BY <1>1, <1>3, <1>4, <1>7, <1>8, <1>9, <1>10 DEF SoloSession
<1> QED
  BY <1>6, <1>11, SoloRead

(* The commit of the only session is the abstract completion of its step,  *)
(* or changes no step: the step was closed, or completed once before.      *)
LEMMA SoloCommit ==
  ASSUME OneRequest, SoloInv, NEW r \in Request, Commit(r)
  PROVE  UNCHANGED <<stepStatus, wfStatus>>
         \/ (req[r].step \in Step /\ Promise!Complete(req[r].step))
<1> DEFINE q == req[r]
<1>1. q \in Session /\ SessionInv(q) /\ SoloSession(q) /\ q.pc = "commit"
  BY DEF SoloInv, IInv, TypeOK, Commit
<1>2. stepStatus \in [Step -> StepStatus]
  BY DEF SoloInv, IInv, TypeOK
<1>3. /\ stepStatus' = [s \in Step |-> StepAfter(r, s)]
      /\ wfStatus' = IF q.allDone THEN "COMPLETED" ELSE wfStatus
  BY DEF Commit
<1>4. \A d \in Step : stepStatus[d] = "PENDING" =>
         \E u \in Upstream[d] : stepStatus[u] # "COMPLETED"
  BY DEF SoloInv, NoGap
<1>5. CASE q.step = None
  <2>1. q.activated = {} /\ ~q.allDone
    BY <1>1, <1>5 DEF SoloSession
  <2>2. \A s \in Step : StepAfter(r, s) = stepStatus[s]
    BY <1>5, <2>1, WorkflowAssumption DEF StepAfter
  <2> QED
    BY <1>2, <1>3, <2>1, <2>2
<1>6. CASE q.step \in Step /\ q.loaded = "COMPLETED"
  <2>1. stepStatus[q.step] = "COMPLETED"
    BY <1>1, <1>6, WorkflowAssumption DEF SoloSession, Advancing
  <2>2. q.activated = {}
    <3>1. ASSUME NEW d \in q.activated PROVE FALSE
      <4>1. d \in Step /\ stepStatus[d] = "PENDING" /\ Upstream[d] \subseteq DoneFor(q)
        BY <1>1 DEF SoloSession, ActivatedAreDue, Session
      <4> QED
        BY <1>4, <2>1, <4>1 DEF DoneFor
    <3> QED
      BY <3>1
  <2>3. \A s \in Step : StepAfter(r, s) = stepStatus[s]
    BY <1>6, <2>2 DEF StepAfter
  <2>4. stepStatus' = stepStatus
    BY <1>2, <1>3, <2>3
  <2>5. q.allDone => wfStatus = "COMPLETED"
    <3>1. q.allDone => Step \subseteq DoneFor(q)
      BY <1>1, <1>6, WorkflowAssumption DEF SoloSession
    <3> QED
      BY <1>6, <2>1, <3>1 DEF DoneFor, SoloInv, ClosedWhenDone
  <2> QED
    BY <1>3, <2>4, <2>5
<1>7. CASE q.step \in Step /\ q.loaded # "COMPLETED"
  <2>1. q.loaded = stepStatus[q.step] /\ q.todo = {} /\ DueAreActivated(q)
        /\ (q.allDone <=> Step \subseteq DoneFor(q)) /\ ActivatedAreDue(q)
    BY <1>1, <1>7, WorkflowAssumption DEF SoloSession, Advancing
  <2>2. stepStatus[q.step] = "READY"
    BY <1>1, <1>2, <1>7, <2>1, WorkflowAssumption DEF SessionInv, StepStatus
  <2>3. DoneFor(q) = Promise!DoneWith(q.step)
    BY <1>7 DEF DoneFor, Promise!DoneWith
  <2>4. ASSUME NEW d \in Step
        PROVE  StepAfter(r, d) =
                 IF d = q.step THEN "COMPLETED"
                 ELSE IF stepStatus[d] = "PENDING" /\ Upstream[d] \subseteq DoneFor(q)
                 THEN "READY" ELSE stepStatus[d]
    <3>1. d \in q.activated <=> stepStatus[d] = "PENDING" /\ Upstream[d] \subseteq DoneFor(q)
      <4>1. d \in q.activated => stepStatus[d] = "PENDING" /\ Upstream[d] \subseteq DoneFor(q)
        BY <2>1 DEF ActivatedAreDue
      <4>2. ASSUME stepStatus[d] = "PENDING", Upstream[d] \subseteq DoneFor(q)
            PROVE  d \in q.activated
        <5>1. PICK u \in Upstream[d] : stepStatus[u] # "COMPLETED"
          BY <1>4, <4>2
        <5>2. u = q.step
          BY <4>2, <5>1 DEF DoneFor
        <5> QED
          BY <2>1, <4>2, <5>1, <5>2 DEF DueAreActivated
      <4> QED
        BY <4>1, <4>2
    <3>2. q.step \notin q.activated
      BY <2>1, <2>2 DEF ActivatedAreDue
    <3> QED
      BY <1>7, <3>1, <3>2 DEF StepAfter
  <2>5. stepStatus' = [d \in Step |->
           IF d = q.step THEN "COMPLETED"
           ELSE IF stepStatus[d] = "PENDING" /\ Upstream[d] \subseteq Promise!DoneWith(q.step)
           THEN "READY" ELSE stepStatus[d]]
    BY <1>3, <2>3, <2>4
  <2>6. q.allDone <=> Promise!DoneWith(q.step) = Step
    <3>1. DoneFor(q) \subseteq Step
      BY DEF DoneFor
    <3> QED
      BY <2>1, <2>3, <3>1
  <2>7. Promise!Complete(q.step)
    BY <1>3, <2>2, <2>5, <2>6 DEF Promise!Complete
  <2> QED
    BY <1>7, <2>7
<1> QED
  BY <1>1, <1>5, <1>6, <1>7 DEF Session

(* A completion as promised leaves no gap and closes the last step.        *)
LEMMA PromiseLeavesNoGap ==
  ASSUME NoGap, NEW s \in Step, Promise!Complete(s)
  PROVE  NoGap' /\ ClosedWhenDone'
<1>1. Upstream \in [Step -> SUBSET Step]
  BY WorkflowAssumption
<1>2. \A d \in Step : stepStatus'[d] =
          IF d = s THEN "COMPLETED"
          ELSE IF stepStatus[d] = "PENDING" /\ Upstream[d] \subseteq Promise!DoneWith(s)
          THEN "READY" ELSE stepStatus[d]
  BY DEF Promise!Complete
<1>3. NoGap'
  <2>1. ASSUME NEW d \in Step, stepStatus'[d] = "PENDING"
        PROVE  \E u \in Upstream[d] : stepStatus'[u] # "COMPLETED"
    <3>1. stepStatus[d] = "PENDING" /\ ~(Upstream[d] \subseteq Promise!DoneWith(s))
      BY <1>2, <2>1
    <3>2. PICK u \in Upstream[d] : u \notin Promise!DoneWith(s)
      BY <3>1
    <3>3. u \in Step
      BY <1>1
    <3>4. u # s /\ stepStatus[u] # "COMPLETED"
      BY <3>2, <3>3 DEF Promise!DoneWith
    <3> QED
      BY <1>2, <3>3, <3>4
  <2> QED
    BY <2>1 DEF NoGap
<1>4. ClosedWhenDone'
  <2>1. ASSUME \A d \in Step : stepStatus'[d] = "COMPLETED"
        PROVE  wfStatus' = "COMPLETED"
    <3>1. Promise!DoneWith(s) = Step
      BY <1>2, <2>1 DEF Promise!DoneWith
    <3> QED
      BY <3>1 DEF Promise!Complete
  <2> QED
    BY <2>1 DEF ClosedWhenDone
<1> QED
  BY <1>3, <1>4

LEMMA SoloCommitKeeps ==
  ASSUME OneRequest, SoloInv, IInv', NEW r \in Request, Commit(r)
  PROVE  SoloInv'
<1>1. NoGap' /\ ClosedWhenDone'
  BY SoloCommit, PromiseLeavesNoGap DEF SoloInv, NoGap, ClosedWhenDone
<1>2. ASSUME NEW p \in Request PROVE SoloSession(req[p])'
  <2>1. req'[p] = Idle
    BY DEF OneRequest, Commit, SoloInv, IInv, TypeOK
  <2>2. (SoloSession(req[p]) <=> SoloSession(Idle))'
    BY <2>1
  <2> QED
    BY <2>2, IdleSolo
<1> QED
  BY <1>1, <1>2 DEF SoloInv

(* Writing a task or an approval row leaves the steps alone.               *)
LEMMA SoloOther ==
  ASSUME SoloInv, IInv', UNCHANGED <<stepStatus, wfStatus, req>>
  PROVE  SoloInv'
<1>1. NoGap' /\ ClosedWhenDone'
  BY DEF SoloInv, NoGap, ClosedWhenDone
<1>2. ASSUME NEW p \in Request PROVE SoloSession(req[p])'
  BY DEF SoloInv, SoloSession, Advancing, ActivatedAreDue, DueAreActivated, DoneFor
<1> QED
  BY <1>1, <1>2 DEF SoloInv

(* Every step keeps the solo invariant and maps to a step of the promise   *)
(* or to a stutter.                                                        *)
LEMMA SoloNext ==
  ASSUME OneRequest, SoloInv, [Next]_vars
  PROVE  SoloInv' /\ [Promise!Next]_(Promise!vars)
<1>1. IInv'
  BY NextIInv DEF SoloInv
<1>2. ASSUME SoloInv', UNCHANGED <<stepStatus, wfStatus>>
      PROVE  SoloInv' /\ [Promise!Next]_(Promise!vars)
  BY <1>2 DEF Promise!vars
<1>3. ASSUME NEW r \in Request, Begin(r)
      PROVE  SoloInv' /\ UNCHANGED <<stepStatus, wfStatus>>
  BY <1>1, <1>3, SoloBegin
<1>4. ASSUME NEW r \in Request, Advance(r), ~Commit(r)
      PROVE  SoloInv' /\ UNCHANGED <<stepStatus, wfStatus>>
  BY <1>1, <1>4, SoloLoad, SoloDownstream, SoloUpstream, SoloActivate, SoloCheckAll DEF Advance
<1>5. ASSUME NEW r \in Request, Commit(r)
      PROVE  SoloInv' /\ [Promise!Next]_(Promise!vars)
  <2>1. SoloInv'
    BY <1>1, <1>5, SoloCommitKeeps
  <2>2. UNCHANGED <<stepStatus, wfStatus>> \/ \E s \in Step : Promise!Complete(s)
    BY <1>5, SoloCommit
  <2> QED
    BY <2>1, <2>2 DEF Promise!Next, Promise!vars
<1>6. ASSUME NEW r \in Request, Rollback(r)
      PROVE  SoloInv' /\ UNCHANGED <<stepStatus, wfStatus>>
  BY <1>1, <1>6, IdleSolo, SoloRead DEF Rollback
<1>7. ASSUME NEW s \in Step, NEW k, NEW st, UpdateTask(s, k, st)
      PROVE  SoloInv' /\ UNCHANGED <<stepStatus, wfStatus>>
  BY <1>1, <1>7, SoloOther DEF UpdateTask
<1>8. ASSUME NEW a \in Approval, NEW s, RequestApproval(a, s)
      PROVE  SoloInv' /\ UNCHANGED <<stepStatus, wfStatus>>
  BY <1>1, <1>8, SoloOther DEF RequestApproval
<1>9. CASE UNCHANGED vars
  BY <1>1, <1>2, <1>9, SoloOther DEF vars
<1> QED
  BY <1>2, <1>3, <1>4, <1>5, <1>6, <1>7, <1>8, <1>9 DEF Next, StartTask

(* One request at a time, no step is left behind: a step still PENDING has *)
(* a prerequisite that is not COMPLETED (docs/07).  Two requests can break *)
(* this: see the run workflow_join_stuck.                                  *)
THEOREM NoStepLeftBehindAlone == OneRequest /\ Spec => []NoStepLeftBehind
<1> SUFFICES ASSUME OneRequest PROVE Spec => []NoStepLeftBehind
  OBVIOUS
<1>1. SoloInv /\ [Next]_vars => SoloInv'
  BY SoloNext
<1>2. SoloInv => NoStepLeftBehind
  BY DEF SoloInv, NoGap, NoStepLeftBehind
<1> QED
  BY InitSolo, <1>1, <1>2, PTL DEF Spec

(* One request at a time, the engine implements what docs/06 promises of a *)
(* workflow: each commit completes one step, makes READY every step whose  *)
(* prerequisites are then complete and closes the workflow with the last.  *)
THEOREM EngineKeepsPromiseAlone == OneRequest /\ Spec => KeepsPromise
<1> SUFFICES ASSUME OneRequest PROVE Spec => KeepsPromise
  OBVIOUS
<1>1. Init => Promise!Init
  BY DEF Init, Promise!Init
<1>2. SoloInv /\ [Next]_vars => SoloInv' /\ [Promise!Next]_(Promise!vars)
  BY SoloNext
<1> QED
  BY InitSolo, <1>1, <1>2, PTL DEF Spec, KeepsPromise, Promise!Spec
=============================================================================
