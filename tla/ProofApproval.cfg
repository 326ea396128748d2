SPECIFICATION MCSpec
CONSTANTS
    Version = {v1}
    Approval = {a1, a2}
    Link = {l1}
    Batch = {b1}
    Request = {r1, r2}
    ClientAnswer = {"APPROVED", "CHANGES_REQUESTED", "PENDING", "EXPIRED"}
    None = None
SYMMETRY ProofSymmetry
INVARIANTS
    ApprovedIsSignedOffAlone
    BatchesSawApproval
