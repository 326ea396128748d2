--------------------------- MODULE ProofApproval ---------------------------
(***************************************************************************)
(* The artwork gate: file versions, the approvals and client proof links   *)
(* that decide on them, and the production batches that may only run on    *)
(* an APPROVED version (files/service.py, approvals/service.py,            *)
(* notifications/service.py, production/service.py).                       *)
(*                                                                         *)
(* A request loads rows one SELECT at a time and writes them in one        *)
(* commit.  The ORM writes a column only when the new value differs from   *)
(* the loaded one.                                                         *)
(***************************************************************************)
EXTENDS Naturals, FiniteSets

CONSTANTS
    Version,      \* the file versions that may be uploaded
    Approval,     \* the approval rows that may be created
    Link,         \* the proof links that may be generated
    Batch,        \* the production batches that may be created
    Request,      \* the request slots
    ClientAnswer, \* the decisions clients send through a proof link
    None          \* no row, nothing loaded

VersionState == {"ABSENT", "DRAFT", "PENDING_REVIEW", "APPROVED", "REJECTED"}
ApprovalStatus == {"ABSENT", "PENDING", "APPROVED", "REJECTED"}
LinkStatus == {"ABSENT", "PENDING", "APPROVED", "CHANGES_REQUESTED", "EXPIRED"}

ASSUME ProofAssumption ==
    /\ None \notin Version \cup Approval \cup Link \cup Batch \cup VersionState
    /\ Approval \cap Link = {} /\ Approval \cap Batch = {} /\ Link \cap Batch = {}
    /\ ClientAnswer \subseteq LinkStatus \ {"ABSENT"}
    /\ IsFiniteSet(Request)

VARIABLES
    version,   \* FileVersion.approval_state
    approval,  \* the approval rows
    link,      \* the proof links; responded: responded_at is set
    expired,   \* the links whose expires_at has passed
    batch,     \* the version each created batch runs on
    signed,    \* history: the versions that have been APPROVED
    refused,   \* history: the links whose client's request for changes failed last
    req        \* what each request has loaded

vars == <<version, approval, link, expired, batch, signed, refused, req>>
rows == <<version, approval, link, expired, batch, signed, refused>>

-----------------------------------------------------------------------------
(* A session: the row it decides on or creates, the version concerned, and *)
(* the states loaded of both.                                              *)
Session ==
    [ op       : {"idle", "submit", "decide", "respond", "expire", "start"},
      row      : Approval \cup Link \cup Batch \cup {None},
      was      : LinkStatus \cup {None},
      decision : ApprovalStatus \cup LinkStatus \cup {None},
      ver      : Version \cup {None},
      loaded   : VersionState \cup {None} ]

Idle == [op |-> "idle", row |-> None, was |-> None, decision |-> None, ver |-> None, loaded |-> None]

Opens(r, q) ==
    /\ req[r] = Idle
    /\ req' = [req EXCEPT ![r] = q]
    /\ UNCHANGED rows

Init ==
    /\ version = [v \in Version |-> "ABSENT"]
    /\ approval = [a \in Approval |-> [status |-> "ABSENT", ver |-> None]]
    /\ link = [l \in Link |-> [status |-> "ABSENT", ver |-> None, responded |-> FALSE]]
    /\ expired = {}
    /\ batch = [b \in Batch |-> None]
    /\ signed = {}
    /\ refused = {}
    /\ req = [r \in Request |-> Idle]

-----------------------------------------------------------------------------
(* Every upload makes a new version, in DRAFT.                             *)
Upload(v) ==
    /\ version[v] = "ABSENT"
    /\ version' = [version EXCEPT ![v] = "DRAFT"]
    /\ UNCHANGED <<approval, link, expired, batch, signed, refused, req>>

(* generate_external_proof_link looks at nothing but the version's id.     *)
GenerateLink(l, v) ==
    /\ link[l].status = "ABSENT"
    /\ version[v] # "ABSENT"
    /\ link' = [link EXCEPT ![l] = [status |-> "PENDING", ver |-> v, responded |-> FALSE]]
    /\ UNCHANGED <<version, approval, expired, batch, signed, refused, req>>

(* Time passes expires_at.                                                 *)
Expire(l) ==
    /\ link[l].status # "ABSENT"
    /\ expired' = expired \cup {l}
    /\ UNCHANGED <<version, approval, link, batch, signed, refused, req>>

(* request_approval loads the version and puts it under review, whatever   *)
(* its state.                                                              *)
BeginSubmit(r, a, v) ==
    /\ approval[a].status = "ABSENT"
    /\ \A q \in Request : req[q].row # a
    /\ version[v] # "ABSENT"
    /\ Opens(r, [Idle EXCEPT !.op = "submit", !.row = a, !.ver = v, !.loaded = version[v]])

(* Mutant of BeginDecide: a finalized approval may be decided again.       *)
BeginDecideAgain(r, a, d) ==
    /\ approval[a].status # "ABSENT"
    /\ Opens(r, [Idle EXCEPT !.op = "decide", !.row = a, !.decision = d, !.ver = approval[a].ver])

(* decide_approval, from the approve and reject routes.                    *)
BeginDecide(r, a, d) ==
    /\ approval[a].status = "PENDING"
    /\ Opens(r, [Idle EXCEPT !.op = "decide", !.row = a, !.decision = d, !.ver = approval[a].ver])

(* process_client_proof_response, on a link in any status: after its       *)
(* expiry the link only becomes EXPIRED.                                   *)
BeginRespond(r, l, d) ==
    /\ link[l].status # "ABSENT"
    /\ Opens(r, [Idle EXCEPT !.op = IF l \in expired THEN "expire" ELSE "respond",
                             !.row = l, !.was = link[l].status,
                             !.decision = IF l \in expired THEN "EXPIRED" ELSE d,
                             !.ver = link[l].ver])

LoadVersion(r) ==
    /\ req[r].op \in {"decide", "respond"}
    /\ req[r].loaded = None
    /\ req' = [req EXCEPT ![r] = [req[r] EXCEPT !.loaded = version[req[r].ver]]]
    /\ UNCHANGED rows

(* The state assigned on CHANGES_REQUESTED is not a member of              *)
(* FileApprovalStatus: the handler raises and everything is rolled back.   *)
FailChanges(r) ==
    /\ req[r].op = "respond"
    /\ req[r].loaded # None
    /\ req[r].decision = "CHANGES_REQUESTED"
    /\ refused' = refused \cup {req[r].row}
    /\ req' = [req EXCEPT ![r] = Idle]
    /\ UNCHANGED <<version, approval, link, expired, batch, signed>>

(* Mutant of BeginStart: a version under review is good enough.            *)
BeginStartPending(r, b, v) ==
    /\ batch[b] = None
    /\ \A q \in Request : req[q].row # b
    /\ version[v] \in {"PENDING_REVIEW", "APPROVED"}
    /\ Opens(r, [Idle EXCEPT !.op = "start", !.row = b, !.ver = v, !.loaded = version[v]])

(* create_batch up to its commit: the file lock is checked once.           *)
BeginStart(r, b, v) ==
    /\ batch[b] = None
    /\ \A q \in Request : req[q].row # b
    /\ version[v] = "APPROVED"
    /\ Opens(r, [Idle EXCEPT !.op = "start", !.row = b, !.ver = v, !.loaded = "APPROVED"])

(* The state a request leaves its version in.                              *)
Assigned(q) ==
    IF q.op = "submit" THEN "PENDING_REVIEW"
    ELSE IF q.op \in {"decide", "respond"} /\ q.decision = "APPROVED" THEN "APPROVED"
    ELSE IF q.op = "decide" THEN "REJECTED"
    ELSE q.loaded

VersionAfter(q, v) ==
    IF v = q.ver /\ Assigned(q) # q.loaded THEN Assigned(q) ELSE version[v]

ApprovalAfter(q, a) ==
    IF a # q.row THEN approval[a]
    ELSE IF q.op = "submit" THEN [status |-> "PENDING", ver |-> q.ver]
    ELSE [approval[a] EXCEPT !.status = q.decision]

LinkAfter(q, l) ==
    IF l # q.row THEN link[l]
    ELSE [ status    |-> IF q.decision # q.was THEN q.decision ELSE link[l].status,
           ver       |-> link[l].ver,
           responded |-> link[l].responded \/ q.op = "respond" ]

(* Ready to commit: everything the handler loads has been loaded.          *)
Loaded(q) ==
    /\ q.op # "idle"
    /\ q.op \in {"decide", "respond"} => q.loaded # None
    /\ q.op = "respond" => q.decision # "CHANGES_REQUESTED"

Commit(r) ==
    LET q == req[r] IN
    /\ Loaded(q)
    /\ version' = [v \in Version |-> VersionAfter(q, v)]
    /\ approval' = [a \in Approval |-> ApprovalAfter(q, a)]
    /\ link' = [l \in Link |-> LinkAfter(q, l)]
    /\ batch' = [b \in Batch |-> IF q.op = "start" /\ b = q.row THEN q.ver ELSE batch[b]]
    /\ signed' = signed \cup {v \in Version : VersionAfter(q, v) = "APPROVED"}
    /\ refused' = IF q.op = "respond" THEN refused \ {q.row} ELSE refused
    /\ req' = [req EXCEPT ![r] = Idle]
    /\ UNCHANGED expired

Rollback(r) ==
    /\ req[r] # Idle
    /\ req' = [req EXCEPT ![r] = Idle]
    /\ UNCHANGED rows

Next ==
    \/ \E v \in Version : Upload(v)
    \/ \E l \in Link : Expire(l) \/ \E v \in Version : GenerateLink(l, v)
    \/ \E r \in Request :
          \/ \E v \in Version :
                \/ \E a \in Approval : BeginSubmit(r, a, v)
                \/ \E b \in Batch : BeginStart(r, b, v)
          \/ \E a \in Approval, d \in {"APPROVED", "REJECTED"} : BeginDecide(r, a, d)
          \/ \E l \in Link, d \in ClientAnswer : BeginRespond(r, l, d)
          \/ LoadVersion(r) \/ FailChanges(r) \/ Commit(r) \/ Rollback(r)

Spec == Init /\ [][Next]_vars

-----------------------------------------------------------------------------
(* Every row and every session has values of its columns' types.           *)
TypeOK ==
    /\ version \in [Version -> VersionState]
    /\ approval \in [Approval -> [status : ApprovalStatus, ver : Version \cup {None}]]
    /\ link \in [Link -> [status : LinkStatus, ver : Version \cup {None}, responded : BOOLEAN]]
    /\ expired \subseteq Link
    /\ batch \in [Batch -> Version \cup {None}]
    /\ signed \subseteq Version
    /\ refused \subseteq Link
    /\ req \in [Request -> Session]

(* Somebody's signature stands behind the version: an approval that says   *)
(* APPROVED or a client's answer.                                          *)
SignedOff(v) ==
    \/ \E a \in Approval : approval[a].ver = v /\ approval[a].status = "APPROVED"
    \/ \E l \in Link : link[l].ver = v /\ link[l].responded

(* The audit trail of the artwork gate: behind every APPROVED version, and *)
(* behind every batch's version, a sign-off is on record (docs/09).        *)
ApprovedIsSignedOff ==
    /\ \A v \in Version : version[v] = "APPROVED" => SignedOff(v)
    /\ \A b \in Batch : batch[b] # None => SignedOff(batch[b])

(* However requests interleave, no batch is created on a version that was  *)
(* never APPROVED: the file lock cannot be passed before a decision.       *)
BatchesSawApproval == \A b \in Batch : batch[b] # None => batch[b] \in signed

(* The inductive strengthening of BatchesSawApproval: a request that is    *)
(* creating a batch has seen its version APPROVED, and history forgets no  *)
(* approval.                                                               *)
RowsHaveVersions ==
    /\ \A a \in Approval : approval[a].status # "ABSENT" => approval[a].ver \in Version
    /\ \A l \in Link : link[l].status # "ABSENT" => link[l].ver \in Version

ApprovedIsRemembered == \A v \in Version : version[v] = "APPROVED" => v \in signed

SessionInv(q) ==
    /\ q.op # "idle" => q.ver \in Version
    /\ q.op = "submit" => q.row \in Approval /\ q.loaded \in VersionState
    /\ q.op = "decide" =>
          /\ q.row \in Approval /\ approval[q.row].status # "ABSENT"
          /\ q.decision \in {"APPROVED", "REJECTED"}
    /\ q.op \in {"respond", "expire"} =>
          /\ q.row \in Link /\ link[q.row].status # "ABSENT"
          /\ q.decision \in LinkStatus \ {"ABSENT"}
    /\ q.op = "start" => q.row \in Batch /\ q.loaded = "APPROVED" /\ q.ver \in signed

IInv ==
    /\ TypeOK
    /\ RowsHaveVersions
    /\ ApprovedIsRemembered
    /\ \A r \in Request : SessionInv(req[r])
    /\ BatchesSawApproval

(* No batch starts on a version whose client, through its proof link, last *)
(* asked for changes (docs/36).                                            *)
NoBatchAgainstClient ==
    [][\A b \in Batch : batch[b] = None /\ batch'[b] # None
          => ~\E l \in refused : link[l].ver = batch'[b]]_vars
=============================================================================
