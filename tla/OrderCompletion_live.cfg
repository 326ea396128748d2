SPECIFICATION FairSpec
CONSTANTS
    PackTask = {t1, t2}
    Request = {r1}
    Quantity <- Corrected
    TaskTarget = {2}
    ByHand = {}
    Scale = 1
    MaxBoxed = 4
    MaxTaken = 1
    Step = {s1}
    Clerk = {c1}
    Ordered = 2
PROPERTIES
    OrderGetsCompleted
