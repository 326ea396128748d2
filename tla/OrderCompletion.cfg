SPECIFICATION Spec
CONSTANTS
    PackTask = {t1, t2}
    Request = {r1, r2}
    Quantity <- Corrected
    TaskTarget = {2}
    ByHand = {2}
    Scale = 2
    MaxBoxed = 2
    MaxTaken = 1
    Step = {s1}
    Clerk = {c1}
    Ordered = 4
SYMMETRY CompletionSymmetry
INVARIANTS
    TaskNeverOverstates
    LedgerIsBacked
    CompletedOrderIsPacked
