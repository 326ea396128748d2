SPECIFICATION MCSpec
CONSTANTS
    Batch = {b1, b2}
    Machine = {m1, m2}
    Request = {r1, r2}
    Target = 3
    Input <- Inputs
    Output <- Shifts
    ByWorker <- Reports
    ByHand = {0, 1}
    Scale = 2
    MaxLogged = 2
    MaxEntered = 1
    None = None
SYMMETRY ProductionSymmetry
INVARIANTS
    MachineShowsItsBatchesAlone
    TotalsWithinRecords
    TotalsMatchRecordsAlone
    LedgerMatchesRecords
