-------------------------- MODULE MCWorkflowEngine --------------------------
(* Instances of WorkflowEngine for TLC.                                    *)
EXTENDS WorkflowEngine, TLC

CONSTANTS roster, photo, design, print

(* Two parallel branches that converge (the school ID card workflow of     *)
(* docs/06, cut after the join).                                           *)
JoinUpstream == roster :> {} @@ photo :> {} @@ design :> {roster, photo}

(* The same with one more step behind the join.                            *)
ChainUpstream == JoinUpstream @@ print :> {design}

(* The step statuses change as docs/06 promises, one request at a time.    *)
Promise == INSTANCE WorkflowPromise WITH
               Step <- Step, Upstream <- Upstream,
               stepStatus <- stepStatus, wfStatus <- wfStatus
KeepsPromise == Promise!Spec

RequestSymmetry == Permutations(Request)
=============================================================================
