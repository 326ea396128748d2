-------------------------- MODULE MCProofApproval --------------------------
(* Instances of ProofApproval for TLC, with a history variable that tells  *)
(* the behaviours in which no two requests overlap from the others.        *)
EXTENDS ProofApproval, TLC

VARIABLE overlapped  \* two requests have been in flight at the same time

MCvars == <<vars, overlapped>>

MCInit == Init /\ overlapped = FALSE

MCNext ==
    /\ Next
    /\ overlapped' = (overlapped \/ Cardinality({r \in Request : req'[r] # Idle}) > 1)

MCSpec == MCInit /\ [][MCNext]_MCvars

(* One request at a time, a sign-off is on record behind every APPROVED    *)
(* version and every batch (ApprovedIsSignedOff).                          *)
ApprovedIsSignedOffAlone == ~overlapped => ApprovedIsSignedOff

ProofSymmetry ==
    Permutations(Version) \cup Permutations(Approval) \cup Permutations(Link)
        \cup Permutations(Batch) \cup Permutations(Request)
=============================================================================
