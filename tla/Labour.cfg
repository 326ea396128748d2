SPECIFICATION MCSpec
CONSTANTS
    Batch = {b1, b2}
    Labourer = {l1, l2}
    Request = {r1, r2}
    Ordered = 3
    Quantity <- Corrected
    Work <- Submissions
    MaxMoves = 3
    None = None
SYMMETRY LabourSymmetry
INVARIANTS
    PayableWithinWork
    PaidOnceInFullAlone
    CreditIsBackedAlone
