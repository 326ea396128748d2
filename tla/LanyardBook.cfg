SPECIFICATION Spec
CONSTANTS
    OrderId = {o1, o2}
    SeedReady = {o1}
    SeedInFitting = {o2}
    SeedContractor = w1
    Worker = {w1, w2}
    InHouse = {}
    MaxVouchers = 2
    NONE = NONE
INVARIANTS
    StepsInOrder
    VouchersHaveOrders
    FittingBacked
PROPERTIES
    CompletedIsKept
    ClimbsLadder
