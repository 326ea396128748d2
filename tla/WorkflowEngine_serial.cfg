SPECIFICATION FairSpec
CONSTANTS
    roster = roster
    photo = photo
    design = design
    print = print
    None = None
    Step = {roster, photo, design, print}
    Upstream <- ChainUpstream
    Request = {r1}
    Approval = {a1}
    PatchStatus = {"OPEN"}
INVARIANTS
    NoStepLeftBehind
PROPERTIES
    KeepsPromise
    WorkflowFinishes
