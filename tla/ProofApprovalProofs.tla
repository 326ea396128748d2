------------------------ MODULE ProofApprovalProofs ------------------------
(***************************************************************************)
(* The artwork gate for every number of versions, approvals, links,        *)
(* batches and interleaved requests: IInv is inductive.  The steps that    *)
(* only load rows change one session (ReadStep); Commit is the only step   *)
(* that changes versions, and it never forgets an approval.  One request   *)
(* at a time, what the open one has loaded is still so when it commits     *)
(* (AloneInv), and so every approval has a sign-off on record.             *)
(***************************************************************************)
EXTENDS MCProofApproval, FiniteFacts

(* The idle session is well-typed and has read nothing.                    *)
LEMMA IdleSession == Idle \in Session /\ SessionInv(Idle) /\ SessionInv(Idle)' /\ Idle.op = "idle"
BY DEF Idle, Session, SessionInv

(* The initial state satisfies the invariant.                              *)
LEMMA InitIInv == Init => IInv
<1> SUFFICES ASSUME Init PROVE IInv
  OBVIOUS
<1>1. TypeOK
  BY IdleSession DEF Init, TypeOK, VersionState, ApprovalStatus, LinkStatus
<1>2. RowsHaveVersions /\ ApprovedIsRemembered /\ BatchesSawApproval
  BY DEF Init, RowsHaveVersions, ApprovedIsRemembered, BatchesSawApproval
<1>3. \A r \in Request : SessionInv(req[r])
  BY IdleSession DEF Init
<1> QED
  BY <1>1, <1>2, <1>3 DEF IInv

(* A step that writes no row keeps the invariant if the one session it     *)
(* changes is well-typed and its reads are justified by the rows.          *)
LEMMA ReadStep ==
  ASSUME IInv, NEW r \in Request, NEW q \in Session, SessionInv(q),
         req' = [req EXCEPT ![r] = q], UNCHANGED rows
  PROVE  IInv'
<1>1. TypeOK'
  BY DEF IInv, TypeOK, rows
<1>2. RowsHaveVersions' /\ ApprovedIsRemembered' /\ BatchesSawApproval'
  BY DEF IInv, rows, RowsHaveVersions, ApprovedIsRemembered, BatchesSawApproval
<1>3. ASSUME NEW p \in Request PROVE SessionInv(req[p])'
  <2>1. req'[p] = IF p = r THEN q ELSE req[p]
    BY DEF IInv, TypeOK
  <2>2. SessionInv(req[p])
    BY DEF IInv
  <2> QED
    BY <2>1, <2>2 DEF SessionInv, rows
<1> QED
  BY <1>1, <1>2, <1>3 DEF IInv

(* Rows are never deleted and no approval is forgotten.                    *)
RowsStay ==
    /\ \A a \in Approval : approval[a].status # "ABSENT" => approval'[a].status # "ABSENT"
    /\ \A l \in Link : link[l].status # "ABSENT" => link'[l].status # "ABSENT"
    /\ signed \subseteq signed'

(* What a session has read stays true.                                     *)
LEMMA SessionMonotone == ASSUME NEW q, SessionInv(q), RowsStay PROVE SessionInv(q)'
BY DEF SessionInv, RowsStay

LEMMA SessionsStand ==
  ASSUME IInv, UNCHANGED req, RowsStay
  PROVE  \A r \in Request : SessionInv(req[r])'
<1> SUFFICES ASSUME NEW r \in Request PROVE SessionInv(req[r])'
  OBVIOUS
<1>1. SessionInv(req[r])
  BY DEF IInv
<1> QED
  BY <1>1 DEF SessionInv, RowsStay

(* An uploaded version is a DRAFT.                                         *)
LEMMA UploadStep == ASSUME IInv, NEW v \in Version, Upload(v) PROVE IInv'
<1>1. TypeOK'
  BY DEF IInv, TypeOK, Upload, VersionState
<1>2. RowsHaveVersions' /\ ApprovedIsRemembered' /\ BatchesSawApproval'
  BY DEF IInv, TypeOK, Upload, RowsHaveVersions, ApprovedIsRemembered, BatchesSawApproval
<1>3. RowsStay
  BY DEF IInv, TypeOK, Upload, RowsStay
<1> QED
  BY <1>1, <1>2, <1>3, SessionsStand DEF IInv, Upload

(* A new link belongs to a version.                                        *)
LEMMA GenerateLinkStep ==
  ASSUME IInv, NEW l \in Link, NEW v \in Version, GenerateLink(l, v)
  PROVE  IInv'
<1>1. TypeOK'
  BY DEF IInv, TypeOK, GenerateLink, LinkStatus
<1>2. RowsHaveVersions' /\ ApprovedIsRemembered' /\ BatchesSawApproval'
  BY DEF IInv, TypeOK, GenerateLink, RowsHaveVersions, ApprovedIsRemembered, BatchesSawApproval
<1>3. RowsStay
  BY DEF IInv, TypeOK, GenerateLink, RowsStay
<1> QED
  BY <1>1, <1>2, <1>3, SessionsStand DEF IInv, GenerateLink

(* Time changes no row but expired.                                        *)
LEMMA ExpireStep == ASSUME IInv, NEW l \in Link, Expire(l) PROVE IInv'
<1>1. TypeOK'
  BY DEF IInv, TypeOK, Expire
<1>2. RowsHaveVersions' /\ ApprovedIsRemembered' /\ BatchesSawApproval'
  BY DEF IInv, Expire, RowsHaveVersions, ApprovedIsRemembered, BatchesSawApproval
<1>3. RowsStay
  BY DEF IInv, TypeOK, Expire, RowsStay
<1> QED
  BY <1>1, <1>2, <1>3, SessionsStand DEF IInv, Expire

(* The requests load rows that are as SessionInv says.                     *)
LEMMA BeginSubmitStep ==
  ASSUME IInv, NEW r \in Request, NEW a \in Approval, NEW v \in Version, BeginSubmit(r, a, v)
  PROVE  IInv'
<1> DEFINE q == [Idle EXCEPT !.op = "submit", !.row = a, !.ver = v, !.loaded = version[v]]
<1>1. q \in Session /\ SessionInv(q)
  BY DEF IInv, TypeOK, Session, SessionInv, Idle
<1> QED
  BY <1>1, ReadStep DEF BeginSubmit, Opens

LEMMA BeginDecideStep ==
  ASSUME IInv, NEW r \in Request, NEW a \in Approval, NEW d \in {"APPROVED", "REJECTED"},
         BeginDecide(r, a, d)
  PROVE  IInv'
<1> DEFINE q == [Idle EXCEPT !.op = "decide", !.row = a, !.decision = d, !.ver = approval[a].ver]
<1>1. approval[a].ver \in Version /\ approval[a].status # "ABSENT"
  BY DEF IInv, RowsHaveVersions, BeginDecide
<1>2. q \in Session /\ SessionInv(q)
  BY <1>1 DEF Session, SessionInv, Idle, ApprovalStatus
<1> QED
  BY <1>2, ReadStep DEF BeginDecide, Opens

LEMMA BeginRespondStep ==
  ASSUME IInv, NEW r \in Request, NEW l \in Link, NEW d \in ClientAnswer, BeginRespond(r, l, d)
  PROVE  IInv'
<1> DEFINE late == l \in expired
           q == [Idle EXCEPT !.op = IF late THEN "expire" ELSE "respond",
                             !.row = l, !.was = link[l].status,
                             !.decision = IF late THEN "EXPIRED" ELSE d,
                             !.ver = link[l].ver]
<1>1. link[l].ver \in Version /\ link[l].status \in LinkStatus \ {"ABSENT"}
  BY DEF IInv, TypeOK, RowsHaveVersions, BeginRespond
<1>2. q \in Session
  <2>1. q.decision \in LinkStatus /\ q.op \in {"respond", "expire"}
    BY ProofAssumption DEF Idle, LinkStatus
  <2> QED
    BY <1>1, <2>1 DEF Session, Idle
<1>3. SessionInv(q)
  BY <1>1, ProofAssumption DEF SessionInv, Idle, LinkStatus
<1> QED
  BY <1>2, <1>3, ReadStep DEF BeginRespond, Opens

LEMMA BeginStartStep ==
  ASSUME IInv, NEW r \in Request, NEW b \in Batch, NEW v \in Version, BeginStart(r, b, v)
  PROVE  IInv'
<1> DEFINE q == [Idle EXCEPT !.op = "start", !.row = b, !.ver = v, !.loaded = "APPROVED"]
<1>1. v \in signed
  BY DEF IInv, ApprovedIsRemembered, BeginStart
<1>2. q \in Session /\ SessionInv(q)
  BY <1>1 DEF Session, SessionInv, Idle, VersionState
<1> QED
  BY <1>2, ReadStep DEF BeginStart, Opens

LEMMA LoadVersionStep == ASSUME IInv, NEW r \in Request, LoadVersion(r) PROVE IInv'
<1> DEFINE q == [req[r] EXCEPT !.loaded = version[req[r].ver]]
<1>1. req[r] \in Session /\ SessionInv(req[r]) /\ req[r].op \in {"decide", "respond"}
  BY DEF IInv, TypeOK, LoadVersion
<1>2. version[req[r].ver] \in VersionState
  BY <1>1 DEF IInv, TypeOK, SessionInv
<1>3. q \in Session /\ SessionInv(q)
  BY <1>1, <1>2 DEF Session, SessionInv
<1> QED
  BY <1>3, ReadStep DEF LoadVersion

LEMMA RollbackStep == ASSUME IInv, NEW r \in Request, Rollback(r) PROVE IInv'
BY IdleSession, ReadStep DEF Rollback

(* A failed request for changes touches only the history of refusals.      *)
LEMMA FailChangesStep == ASSUME IInv, NEW r \in Request, FailChanges(r) PROVE IInv'
<1>1. req[r].row \in Link
  BY DEF IInv, SessionInv, FailChanges
<1>2. TypeOK'
  BY <1>1, IdleSession DEF IInv, TypeOK, FailChanges
<1>3. RowsHaveVersions' /\ ApprovedIsRemembered' /\ BatchesSawApproval'
  BY DEF IInv, FailChanges, RowsHaveVersions, ApprovedIsRemembered, BatchesSawApproval
<1>4. ASSUME NEW p \in Request PROVE SessionInv(req[p])'
  <2>1. req'[p] = IF p = r THEN Idle ELSE req[p]
    BY DEF IInv, TypeOK, FailChanges
  <2>2. SessionInv(req[p])
    BY DEF IInv
  <2> QED
    BY <2>1, <2>2, IdleSession DEF SessionInv, FailChanges
<1> QED
  BY <1>2, <1>3, <1>4 DEF IInv

(* A commit writes states, decisions and links of their columns' types;    *)
(* a version it leaves APPROVED is remembered, and the version of a batch  *)
(* it creates was remembered before.                                       *)
LEMMA CommitStep == ASSUME IInv, NEW r \in Request, Commit(r) PROVE IInv'
<1> DEFINE q == req[r]
<1>1. q \in Session /\ SessionInv(q) /\ Loaded(q)
  BY DEF IInv, TypeOK, Commit
<1>2. ASSUME NEW v \in Version PROVE VersionAfter(q, v) \in VersionState
  <2>1. version[v] \in VersionState
    BY DEF IInv, TypeOK
  <2>2. CASE q.op = "submit"
    BY <2>1, <2>2 DEF VersionAfter, Assigned, VersionState
  <2>3. CASE q.op \in {"decide", "respond"}
    <3>1. q.loaded \in VersionState
      BY <1>1, <2>3 DEF Session, Loaded
    <3> QED
      BY <2>1, <2>3, <3>1 DEF VersionAfter, Assigned, VersionState
  <2>4. CASE q.op \notin {"submit", "decide", "respond"}
    BY <2>1, <2>4 DEF VersionAfter, Assigned
  <2> QED
    BY <2>2, <2>3, <2>4
<1>3. ASSUME NEW a \in Approval
      PROVE /\ ApprovalAfter(q, a) \in [status : ApprovalStatus, ver : Version \cup {None}]
            /\ ApprovalAfter(q, a).status # "ABSENT" => ApprovalAfter(q, a).ver \in Version
            /\ approval[a].status # "ABSENT" => ApprovalAfter(q, a).status # "ABSENT"
  <2>1. /\ approval[a] \in [status : ApprovalStatus, ver : Version \cup {None}]
        /\ approval[a].status # "ABSENT" => approval[a].ver \in Version
    BY DEF IInv, TypeOK, RowsHaveVersions
  <2>2. CASE a # q.row
    BY <2>1, <2>2 DEF ApprovalAfter
  <2>3. CASE a = q.row /\ q.op = "submit"
    BY <1>1, <2>3 DEF ApprovalAfter, SessionInv, ApprovalStatus
  <2>4. CASE a = q.row /\ q.op # "submit"
    <3>1. q.op = "decide"
      BY <1>1, <2>4, ProofAssumption DEF SessionInv, Loaded, Session
    <3>2. q.decision \in {"APPROVED", "REJECTED"} /\ approval[a].status # "ABSENT"
      BY <1>1, <2>4, <3>1 DEF SessionInv
    <3> QED
      BY <2>1, <2>4, <3>1, <3>2 DEF ApprovalAfter, ApprovalStatus
  <2> QED
    BY <2>2, <2>3, <2>4
<1>4. ASSUME NEW l \in Link
      PROVE /\ LinkAfter(q, l) \in [status : LinkStatus, ver : Version \cup {None}, responded : BOOLEAN]
            /\ LinkAfter(q, l).status # "ABSENT" => LinkAfter(q, l).ver \in Version
            /\ link[l].status # "ABSENT" => LinkAfter(q, l).status # "ABSENT"
  <2>1. /\ link[l] \in [status : LinkStatus, ver : Version \cup {None}, responded : BOOLEAN]
        /\ link[l].status # "ABSENT" => link[l].ver \in Version
    BY DEF IInv, TypeOK, RowsHaveVersions
  <2>2. CASE l # q.row
    BY <2>1, <2>2 DEF LinkAfter
  <2>3. CASE l = q.row
    <3>1. q.op \in {"respond", "expire"}
      BY <1>1, <2>3, ProofAssumption DEF SessionInv, Loaded, Session
    <3>2. q.decision \in LinkStatus \ {"ABSENT"} /\ link[l].status # "ABSENT"
      BY <1>1, <2>3, <3>1 DEF SessionInv
    <3> QED
      BY <2>1, <2>3, <3>2 DEF LinkAfter
  <2> QED
    BY <2>2, <2>3
<1>5. q.op = "start" => q.ver \in Version /\ q.ver \in signed
  BY <1>1 DEF SessionInv
<1>6. RowsStay
  BY <1>3, <1>4 DEF Commit, RowsStay
<1>7. TypeOK'
  <2>1. /\ version' \in [Version -> VersionState]
        /\ approval' \in [Approval -> [status : ApprovalStatus, ver : Version \cup {None}]]
        /\ link' \in [Link -> [status : LinkStatus, ver : Version \cup {None}, responded : BOOLEAN]]
    BY <1>2, <1>3, <1>4 DEF Commit
  <2>2. batch' \in [Batch -> Version \cup {None}]
    BY <1>5 DEF IInv, TypeOK, Commit
  <2>3. expired' \subseteq Link /\ signed' \subseteq Version /\ refused' \subseteq Link
    BY DEF IInv, TypeOK, Commit
  <2>4. req' \in [Request -> Session]
    BY IdleSession DEF IInv, TypeOK, Commit
  <2> QED
    BY <2>1, <2>2, <2>3, <2>4 DEF TypeOK
<1>8. RowsHaveVersions'
  BY <1>3, <1>4 DEF Commit, RowsHaveVersions
<1>9. ApprovedIsRemembered'
  BY DEF Commit, ApprovedIsRemembered
<1>10. BatchesSawApproval'
  BY <1>5 DEF IInv, Commit, BatchesSawApproval
<1>11. ASSUME NEW p \in Request PROVE SessionInv(req[p])'
  <2>1. req'[p] = IF p = r THEN Idle ELSE req[p]
    BY DEF IInv, TypeOK, Commit
  <2>2. SessionInv(req[p])
    BY DEF IInv
  <2> QED
    BY <1>6, <2>1, <2>2, IdleSession DEF SessionInv, RowsStay
<1> QED
  BY <1>7, <1>8, <1>9, <1>10, <1>11 DEF IInv

(* IInv is inductive: every step of Next and every stuttering step.        *)
LEMMA NextIInv == IInv /\ [Next]_vars => IInv'
<1> SUFFICES ASSUME IInv, [Next]_vars PROVE IInv'
  OBVIOUS
<1>1. CASE \E v \in Version : Upload(v)
  BY <1>1, UploadStep
<1>2. CASE \E l \in Link : Expire(l) \/ \E v \in Version : GenerateLink(l, v)
  BY <1>2, ExpireStep, GenerateLinkStep
<1>3. ASSUME NEW r \in Request, NEW v \in Version,
             \/ \E a \in Approval : BeginSubmit(r, a, v)
             \/ \E b \in Batch : BeginStart(r, b, v)
      PROVE  IInv'
  BY <1>3, BeginSubmitStep, BeginStartStep
<1>4. ASSUME NEW r \in Request, NEW a \in Approval, NEW d \in {"APPROVED", "REJECTED"},
             BeginDecide(r, a, d)
      PROVE  IInv'
  BY <1>4, BeginDecideStep
<1>5. ASSUME NEW r \in Request, NEW l \in Link, NEW d \in ClientAnswer, BeginRespond(r, l, d)
      PROVE  IInv'
  BY <1>5, BeginRespondStep
<1>6. ASSUME NEW r \in Request, LoadVersion(r) \/ FailChanges(r) \/ Commit(r) \/ Rollback(r)
      PROVE  IInv'
  BY <1>6, LoadVersionStep, FailChangesStep, CommitStep, RollbackStep
<1>7. CASE UNCHANGED vars
  BY <1>7 DEF vars, IInv, TypeOK, RowsHaveVersions, ApprovedIsRemembered, BatchesSawApproval, SessionInv
<1> QED
  BY <1>1, <1>2, <1>3, <1>4, <1>5, <1>6, <1>7 DEF Next

(* The invariant holds in every reachable state of the artwork gate.       *)
THEOREM InductiveInvariant == Spec => []IInv
BY InitIInv, NextIInv, PTL DEF Spec

(* Every row and every session keeps its type (approvals/models.py,        *)
(* files/models.py, notifications/models.py).                              *)
THEOREM TypeCorrect == Spec => []TypeOK
<1>1. IInv => TypeOK
  BY DEF IInv
<1> QED
  BY <1>1, InductiveInvariant, PTL

(* However many requests interleave, a batch's version was APPROVED before *)
(* the batch: the file lock of create_batch (production/service.py).       *)
THEOREM GateHolds == Spec => []BatchesSawApproval
<1>1. IInv => BatchesSawApproval
  BY DEF IInv
<1> QED
  BY <1>1, InductiveInvariant, PTL

-----------------------------------------------------------------------------
(* One request at a time. A row that was signed stays signed, because a    *)
(* decision is only taken on an approval that is still pending ...         *)
OneSession == \A p, r \in Request : req[p] # Idle /\ req[r] # Idle => p = r

RowsUploaded ==
    /\ \A a \in Approval : approval[a].status # "ABSENT" => version[approval[a].ver] # "ABSENT"
    /\ \A l \in Link : link[l].status # "ABSENT" => version[link[l].ver] # "ABSENT"
    /\ \A l \in Link : link[l].responded => link[l].status # "ABSENT"

(* ... and what the open request has loaded is still the row's.            *)
FreshSession(q) ==
    /\ q.op # "idle" => version[q.ver] # "ABSENT"
    /\ q.op = "submit" => approval[q.row].status = "ABSENT"
    /\ q.op = "decide" => approval[q.row].status = "PENDING" /\ approval[q.row].ver = q.ver
    /\ q.op \in {"respond", "expire"} => link[q.row].ver = q.ver
    /\ q.op = "expire" => q.loaded = None
    /\ q.op # "idle" /\ q.loaded # None => q.loaded = version[q.ver]

AloneHolds ==
    /\ OneSession /\ RowsUploaded /\ ApprovedIsSignedOff
    /\ \A r \in Request : FreshSession(req[r])

AloneInv == ~overlapped => AloneHolds

LEMMA IdleIsFresh == FreshSession(Idle) /\ FreshSession(Idle)'
BY DEF FreshSession, Idle

LEMMA AloneStarts == MCInit => AloneInv
<1> SUFFICES ASSUME MCInit PROVE AloneInv
  OBVIOUS
<1>1. OneSession /\ RowsUploaded /\ ApprovedIsSignedOff
  BY DEF MCInit, Init, OneSession, RowsUploaded, ApprovedIsSignedOff
<1>2. \A r \in Request : FreshSession(req[r])
  BY IdleIsFresh DEF MCInit, Init
<1> QED
  BY <1>1, <1>2 DEF AloneInv, AloneHolds

(* While the history variable is FALSE, at most one request is open.       *)
LEMMA OneSessionNext == ASSUME MCNext, ~overlapped' PROVE OneSession' /\ ~overlapped
<1> DEFINE open == {r \in Request : req'[r] # Idle}
<1>1. ~overlapped /\ ~(Cardinality(open) > 1)
  BY DEF MCNext
<1>2. IsFiniteSet(open)
  BY FS_Subset, ProofAssumption
<1>3. ASSUME NEW p \in open, NEW r \in open PROVE p = r
  BY <1>1, <1>2, AtMostOne
<1> QED
  BY <1>1, <1>3 DEF OneSession, Idle

(* A step that changes one session but no row the sessions depend on.      *)
LEMMA FreshRead ==
  ASSUME TypeOK, AloneHolds, OneSession', NEW r \in Request, NEW q, FreshSession(q),
         req' = [req EXCEPT ![r] = q], UNCHANGED <<version, approval, link, batch>>
  PROVE  AloneHolds'
<1>1. RowsUploaded' /\ ApprovedIsSignedOff'
  BY DEF AloneHolds, RowsUploaded, ApprovedIsSignedOff, SignedOff
<1>2. ASSUME NEW p \in Request PROVE FreshSession(req[p])'
  <2>1. req'[p] = IF p = r THEN q ELSE req[p]
    BY DEF TypeOK
  <2>2. FreshSession(req[p])
    BY DEF AloneHolds
  <2> QED
    BY <2>1, <2>2 DEF FreshSession
<1> QED
  BY <1>1, <1>2 DEF AloneHolds

(* What the first reads of a request establish.                            *)
LEMMA FirstReads ==
  ASSUME IInv, AloneHolds, OneSession', NEW r \in Request,
         \/ \E v \in Version :
               \/ \E a \in Approval : BeginSubmit(r, a, v)
               \/ \E b \in Batch : BeginStart(r, b, v)
         \/ \E a \in Approval, d \in {"APPROVED", "REJECTED"} : BeginDecide(r, a, d)
         \/ \E l \in Link, d \in ClientAnswer : BeginRespond(r, l, d)
  PROVE  AloneHolds'
<1>0. TypeOK /\ RowsUploaded
  BY DEF IInv, AloneHolds
<1>1. ASSUME NEW q, Opens(r, q), FreshSession(q) PROVE AloneHolds'
  BY <1>0, <1>1, FreshRead DEF Opens, rows
<1>2. ASSUME NEW v \in Version, NEW a \in Approval, BeginSubmit(r, a, v) PROVE AloneHolds'
  <2> DEFINE q == [Idle EXCEPT !.op = "submit", !.row = a, !.ver = v, !.loaded = version[v]]
  <2>1. FreshSession(q)
    BY <1>2 DEF FreshSession, Idle, BeginSubmit
  <2> HIDE DEF q
  <2> QED
    BY <1>1, <1>2, <2>1 DEF BeginSubmit, q
<1>3. ASSUME NEW v \in Version, NEW b \in Batch, BeginStart(r, b, v) PROVE AloneHolds'
  <2> DEFINE q == [Idle EXCEPT !.op = "start", !.row = b, !.ver = v, !.loaded = "APPROVED"]
  <2>1. FreshSession(q)
    BY <1>3 DEF FreshSession, Idle, BeginStart
  <2> HIDE DEF q
  <2> QED
    BY <1>1, <1>3, <2>1 DEF BeginStart, q
<1>4. ASSUME NEW a \in Approval, NEW d, BeginDecide(r, a, d) PROVE AloneHolds'
  <2> DEFINE q == [Idle EXCEPT !.op = "decide", !.row = a, !.decision = d, !.ver = approval[a].ver]
  <2>1. FreshSession(q)
    BY <1>0, <1>4 DEF FreshSession, Idle, BeginDecide, RowsUploaded
  <2> HIDE DEF q
  <2> QED
    BY <1>1, <1>4, <2>1 DEF BeginDecide, q
<1>5. ASSUME NEW l \in Link, NEW d, BeginRespond(r, l, d) PROVE AloneHolds'
  <2> DEFINE q == [Idle EXCEPT !.op = IF l \in expired THEN "expire" ELSE "respond",
                               !.row = l, !.was = link[l].status,
                               !.decision = IF l \in expired THEN "EXPIRED" ELSE d,
                               !.ver = link[l].ver]
  <2>1. FreshSession(q)
    BY <1>0, <1>5 DEF FreshSession, Idle, BeginRespond, RowsUploaded
  <2> HIDE DEF q
  <2> QED
    BY <1>1, <1>5, <2>1 DEF BeginRespond, q
<1> QED
  BY <1>2, <1>3, <1>4, <1>5

(* Versions and links that come, and time that passes, touch no row an     *)
(* open request has loaded: that row is there already.                     *)
LEMMA RowsCome ==
  ASSUME IInv, AloneHolds,
         \/ \E v \in Version : Upload(v)
         \/ \E l \in Link : Expire(l) \/ \E v \in Version : GenerateLink(l, v)
  PROVE  AloneHolds'
<1>0. /\ TypeOK /\ RowsHaveVersions /\ \A r \in Request : SessionInv(req[r])
      /\ OneSession /\ RowsUploaded /\ ApprovedIsSignedOff
      /\ \A r \in Request : FreshSession(req[r])
  BY DEF IInv, AloneHolds
<1>1. ASSUME NEW v \in Version, Upload(v) PROVE AloneHolds'
  <2>1. \A w \in Version :
           /\ version[w] # "ABSENT" => version'[w] = version[w]
           /\ version'[w] = "APPROVED" => version[w] = "APPROVED"
    BY <1>0, <1>1 DEF Upload, TypeOK
  <2>2. approval' = approval /\ link' = link /\ batch' = batch /\ req' = req
    BY <1>1 DEF Upload
  <2>3. RowsUploaded'
    BY <1>0, <2>1, <2>2 DEF RowsUploaded, RowsHaveVersions
  <2>4. ApprovedIsSignedOff'
    BY <1>0, <2>1, <2>2 DEF ApprovedIsSignedOff, SignedOff
  <2>5. ASSUME NEW r \in Request PROVE FreshSession(req[r])'
    <3>1. FreshSession(req[r]) /\ (req[r].op # "idle" => req[r].ver \in Version)
      BY <1>0 DEF SessionInv
    <3> QED
      BY <2>1, <2>2, <3>1 DEF FreshSession
  <2> QED
    BY <1>0, <2>2, <2>3, <2>4, <2>5 DEF AloneHolds, OneSession
<1>2. ASSUME NEW l \in Link, Expire(l) PROVE AloneHolds'
  BY <1>0, <1>2 DEF Expire, AloneHolds, OneSession, RowsUploaded, ApprovedIsSignedOff, SignedOff,
                    FreshSession
<1>3. ASSUME NEW l \in Link, NEW v \in Version, GenerateLink(l, v) PROVE AloneHolds'
  <2>1. /\ UNCHANGED <<version, approval, batch, req>>
        /\ link[l].status = "ABSENT" /\ version[v] # "ABSENT"
        /\ link'[l] = [status |-> "PENDING", ver |-> v, responded |-> FALSE]
        /\ \A m \in Link \ {l} : link'[m] = link[m]
    BY <1>0, <1>3 DEF GenerateLink, TypeOK
  <2>2. RowsUploaded'
    BY <1>0, <2>1 DEF RowsUploaded
  <2>3. ~link[l].responded
    BY <1>0, <2>1 DEF RowsUploaded
  <2>4. \A w : SignedOff(w) => SignedOff(w)'
    BY <2>1, <2>3 DEF SignedOff
  <2>5. ApprovedIsSignedOff'
    BY <1>0, <2>1, <2>4 DEF ApprovedIsSignedOff
  <2>6. ASSUME NEW r \in Request PROVE FreshSession(req[r])'
    <3>1. /\ FreshSession(req[r])
          /\ req[r].op \in {"respond", "expire"} => req[r].row \in Link /\ link[req[r].row].status # "ABSENT"
      BY <1>0 DEF SessionInv
    <3> QED
      BY <2>1, <3>1 DEF FreshSession
  <2> QED
    BY <1>0, <2>1, <2>2, <2>5, <2>6 DEF AloneHolds, OneSession
<1> QED
  BY <1>1, <1>2, <1>3

(* A commit that approves a version leaves the signature with it.          *)
LEMMA FreshCommit ==
  ASSUME IInv, AloneHolds, NEW r \in Request, Commit(r)
  PROVE  /\ AloneHolds'
         /\ req[r].op = "start" => version[req[r].ver] = "APPROVED"
<1> DEFINE q == req[r]
<1>0. /\ TypeOK /\ RowsHaveVersions /\ OneSession /\ RowsUploaded /\ ApprovedIsSignedOff
      /\ q \in Session /\ SessionInv(q) /\ FreshSession(q) /\ Loaded(q)
  BY DEF IInv, AloneHolds, TypeOK, Commit
<1>1. /\ version' = [v \in Version |-> VersionAfter(q, v)]
      /\ approval' = [a \in Approval |-> ApprovalAfter(q, a)]
      /\ link' = [l \in Link |-> LinkAfter(q, l)]
      /\ batch' = [b \in Batch |-> IF q.op = "start" /\ b = q.row THEN q.ver ELSE batch[b]]
      /\ req' = [req EXCEPT ![r] = Idle]
  BY DEF Commit
<1> HIDE DEF q
<1>2. q.ver \in Version /\ version[q.ver] # "ABSENT" /\ q.op \in {"submit", "decide", "respond", "expire", "start"}
  BY <1>0 DEF SessionInv, FreshSession, Loaded, Session
<1>3. q.op = "start" => version[q.ver] = "APPROVED"
  BY <1>0, ProofAssumption DEF SessionInv, FreshSession, VersionState
<1>4. ASSUME NEW v \in Version
      PROVE  /\ version[v] # "ABSENT" => version'[v] # "ABSENT"
             /\ version'[v] = "APPROVED" =>
                   \/ version[v] = "APPROVED"
                   \/ v = q.ver /\ q.op \in {"decide", "respond"} /\ q.decision = "APPROVED"
  <2>1. version'[v] = IF v = q.ver /\ Assigned(q) # q.loaded THEN Assigned(q) ELSE version[v]
    BY <1>1 DEF VersionAfter
  <2>2. CASE v = q.ver /\ Assigned(q) # q.loaded
    <3>1. version'[v] = Assigned(q) /\ Assigned(q) \in {"PENDING_REVIEW", "APPROVED", "REJECTED"}
      BY <2>1, <2>2 DEF Assigned
    <3>2. Assigned(q) = "APPROVED" => q.op \in {"decide", "respond"} /\ q.decision = "APPROVED"
      BY <2>2 DEF Assigned
    <3> QED
      BY <2>2, <3>1, <3>2
  <2>3. CASE ~(v = q.ver /\ Assigned(q) # q.loaded)
    BY <2>1, <2>3
  <2> QED
    BY <2>2, <2>3
<1>5. ASSUME NEW a \in Approval
      PROVE  /\ approval[a].status = "APPROVED" =>
                   approval'[a].status = "APPROVED" /\ approval'[a].ver = approval[a].ver
             /\ approval'[a].status # "ABSENT" => version'[approval'[a].ver] # "ABSENT"
             /\ a = q.row /\ q.op = "decide" =>
                   approval'[a].status = q.decision /\ approval'[a].ver = q.ver
  <2>1. approval'[a] = IF a # q.row THEN approval[a]
                       ELSE IF q.op = "submit" THEN [status |-> "PENDING", ver |-> q.ver]
                       ELSE [approval[a] EXCEPT !.status = q.decision]
    BY <1>1 DEF ApprovalAfter
  <2>2. approval[a].status # "ABSENT" =>
           approval[a].ver \in Version /\ version[approval[a].ver] # "ABSENT"
    BY <1>0 DEF RowsHaveVersions, RowsUploaded
  <2>3. approval[a] \in [status : ApprovalStatus, ver : Version \cup {None}]
    BY <1>0 DEF TypeOK
  <2>4. CASE a # q.row
    BY <1>4, <2>1, <2>2, <2>4
  <2>5. CASE a = q.row /\ q.op = "submit"
    <3>1. approval[a].status = "ABSENT"
      BY <1>0, <2>5 DEF FreshSession
    <3> QED
      BY <1>2, <1>4, <2>1, <2>5, <3>1
  <2>6. CASE a = q.row /\ q.op # "submit"
    <3>1. q.op = "decide"
      BY <1>0, <1>2, <2>6, ProofAssumption DEF SessionInv
    <3>2. approval[a].status = "PENDING" /\ approval[a].ver = q.ver
      BY <1>0, <2>6, <3>1 DEF FreshSession
    <3>3. approval'[a].status = q.decision /\ approval'[a].ver = q.ver
      BY <2>1, <2>3, <2>6, <3>2
    <3> QED
      BY <1>2, <1>4, <3>2, <3>3
  <2> QED
    BY <2>4, <2>5, <2>6
<1>6. ASSUME NEW l \in Link
      PROVE  /\ link'[l].ver = link[l].ver
             /\ link[l].responded => link'[l].responded
             /\ link'[l].status # "ABSENT" => link[l].status # "ABSENT"
             /\ link'[l].responded => link'[l].status # "ABSENT"
             /\ l = q.row /\ q.op = "respond" => link'[l].responded /\ link[l].ver = q.ver
  <2>1. link'[l] = IF l # q.row THEN link[l]
                   ELSE [ status    |-> IF q.decision # q.was THEN q.decision ELSE link[l].status,
                          ver       |-> link[l].ver,
                          responded |-> link[l].responded \/ q.op = "respond" ]
    BY <1>1 DEF LinkAfter
  <2>2. link[l].responded \in BOOLEAN /\ (link[l].responded => link[l].status # "ABSENT")
    BY <1>0 DEF RowsUploaded, TypeOK
  <2>3. CASE l # q.row
    BY <2>1, <2>2, <2>3
  <2>4. CASE l = q.row
    <3>1. q.op \in {"respond", "expire"}
      BY <1>0, <1>2, <2>4, ProofAssumption DEF SessionInv
    <3>2. /\ link[l].ver = q.ver /\ link[l].status # "ABSENT"
          /\ q.decision \in LinkStatus \ {"ABSENT"}
      BY <1>0, <2>4, <3>1 DEF FreshSession, SessionInv
    <3> DEFINE status == IF q.decision # q.was THEN q.decision ELSE link[l].status
               responded == link[l].responded \/ q.op = "respond"
    <3>3. status # "ABSENT"
      BY <3>2
    <3>4. link'[l] = [status |-> status, ver |-> link[l].ver, responded |-> responded]
      BY <2>1, <2>4, Zenon
    <3>5. (link[l].responded => responded) /\ (q.op = "respond" => responded)
      OBVIOUS
    <3> HIDE DEF status, responded
    <3>6. link'[l].ver = link[l].ver /\ link'[l].status = status /\ link'[l].responded = responded
      BY <3>4
    <3> QED
      BY <3>2, <3>3, <3>5, <3>6
  <2> QED
    BY <2>3, <2>4
<1>7. RowsUploaded'
  <2>1. \A l \in Link : link[l].status # "ABSENT" =>
           link[l].ver \in Version /\ version[link[l].ver] # "ABSENT"
    BY <1>0 DEF RowsHaveVersions, RowsUploaded
  <2>2. \A l \in Link : link'[l].status # "ABSENT" => version'[link'[l].ver] # "ABSENT"
    BY <1>4, <1>6, <2>1
  <2> QED
    BY <1>5, <1>6, <2>2 DEF RowsUploaded
<1>8. ASSUME NEW v, SignedOff(v) PROVE SignedOff(v)'
  BY <1>5, <1>6, <1>8 DEF SignedOff
<1>9. ApprovedIsSignedOff'
  <2>1. ASSUME NEW v \in Version, version'[v] = "APPROVED" PROVE SignedOff(v)'
    <3>1. CASE version[v] = "APPROVED"
      BY <1>0, <1>8, <3>1 DEF ApprovedIsSignedOff
    <3>2. CASE v = q.ver /\ q.op = "decide" /\ q.decision = "APPROVED"
      <4>1. q.row \in Approval
        BY <1>0, <3>2 DEF SessionInv
      <4> QED
        BY <1>5, <3>2, <4>1 DEF SignedOff
    <3>3. CASE v = q.ver /\ q.op = "respond"
      <4>1. q.row \in Link
        BY <1>0, <3>3 DEF SessionInv
      <4> QED
        BY <1>6, <3>3, <4>1 DEF SignedOff
    <3> QED
      BY <1>4, <2>1, <3>1, <3>2, <3>3
  <2>2. ASSUME NEW b \in Batch, batch'[b] # None PROVE SignedOff(batch[b])'
    <3>1. CASE q.op = "start" /\ b = q.row
      <4>1. batch'[b] = q.ver /\ SignedOff(q.ver)
        <5>1. batch'[b] = q.ver
          BY <1>1, <3>1
        <5>2. SignedOff(q.ver)
          BY <1>0, <1>2, <1>3, <3>1 DEF ApprovedIsSignedOff
        <5> QED
          BY <5>1, <5>2
      <4> QED
        BY <1>8, <4>1 DEF SignedOff
    <3>2. CASE ~(q.op = "start" /\ b = q.row)
      <4>1. batch'[b] = batch[b] /\ SignedOff(batch[b])
        BY <1>0, <1>1, <2>2, <3>2 DEF ApprovedIsSignedOff
      <4> QED
        BY <1>8, <4>1 DEF SignedOff
    <3> QED
      BY <3>1, <3>2
  <2> QED
    BY <2>1, <2>2 DEF ApprovedIsSignedOff
<1>10. ASSUME NEW p \in Request PROVE req'[p] = Idle
  <2>1. req[r] # Idle
    BY <1>0, IdleSession DEF q, Loaded
  <2>2. req[p] # Idle => p = r
    BY <1>0, <2>1 DEF OneSession
  <2> QED
    BY <1>0, <1>1, <2>2 DEF TypeOK
<1>11. OneSession'
  BY <1>10 DEF OneSession, Idle
<1>12. \A p \in Request : FreshSession(req[p])'
  BY <1>10, IdleIsFresh DEF FreshSession
<1>13. AloneHolds'
  BY <1>7, <1>9, <1>11, <1>12 DEF AloneHolds
<1> QED
  BY <1>3, <1>13 DEF q

LEMMA AloneKeeps == IInv /\ AloneInv /\ [MCNext]_MCvars => AloneInv'
<1> SUFFICES ASSUME IInv, AloneInv, [MCNext]_MCvars, ~overlapped' PROVE AloneHolds'
  BY DEF AloneInv
<1>1. CASE UNCHANGED MCvars
  BY <1>1 DEF MCvars, vars, AloneInv, AloneHolds, OneSession, RowsUploaded, ApprovedIsSignedOff,
              SignedOff, FreshSession
<1>2. CASE MCNext
  <2>0. AloneHolds /\ OneSession' /\ Next /\ TypeOK
    BY <1>2, OneSessionNext DEF AloneInv, MCNext, IInv
  <2>1. ASSUME NEW r \in Request, LoadVersion(r) PROVE AloneHolds'
    <3> DEFINE q == [req[r] EXCEPT !.loaded = version[req[r].ver]]
    <3>1. req[r] \in Session /\ FreshSession(req[r])
      BY <2>0 DEF TypeOK, AloneHolds
    <3>2. FreshSession(q)
      BY <2>1, <3>1 DEF FreshSession, Session, LoadVersion
    <3>3. req' = [req EXCEPT ![r] = q] /\ UNCHANGED <<version, approval, link, batch>>
      BY <2>1 DEF LoadVersion, rows
    <3> HIDE DEF q
    <3> QED
      BY <2>0, <3>2, <3>3, FreshRead
  <2>2. ASSUME NEW r \in Request, FailChanges(r) \/ Rollback(r) PROVE AloneHolds'
    <3>1. req' = [req EXCEPT ![r] = Idle] /\ UNCHANGED <<version, approval, link, batch>>
      BY <2>2 DEF FailChanges, Rollback, rows
    <3> QED
      BY <2>0, <3>1, IdleIsFresh, FreshRead
  <2> QED
    BY <2>0, <2>1, <2>2, FirstReads, RowsCome, FreshCommit DEF Next
<1> QED
  BY <1>1, <1>2

(* The history variable changes nothing else.                              *)
LEMMA MCSteps == (MCInit => Init) /\ ([MCNext]_MCvars => [Next]_vars)
BY DEF MCInit, MCNext, MCvars

THEOREM AloneInvariant == MCSpec => [](IInv /\ AloneInv)
<1>1. MCInit => IInv /\ AloneInv
  BY MCSteps, InitIInv, AloneStarts
<1>2. (IInv /\ AloneInv) /\ [MCNext]_MCvars => (IInv /\ AloneInv)'
  BY MCSteps, NextIInv, AloneKeeps
<1> QED
  BY <1>1, <1>2, PTL DEF MCSpec

(* One request at a time, a sign-off is on record behind every APPROVED    *)
(* version and every batch: decide_approval and                            *)
(* process_client_proof_response write it with the state.                  *)
THEOREM ApprovedIsSignedOffWhileAlone == MCSpec => []ApprovedIsSignedOffAlone
<1>1. AloneInv => ApprovedIsSignedOffAlone
  BY DEF AloneInv, AloneHolds, ApprovedIsSignedOffAlone
<1> QED
  BY <1>1, AloneInvariant, PTL
=============================================================================
