SPECIFICATION Spec
CONSTANTS
    roster = roster
    photo = photo
    design = design
    print = print
    None = None
    Step = {roster, photo, design}
    Upstream <- JoinUpstream
    Request = {r1, r2}
    Approval = {}
    PatchStatus = {}
SYMMETRY RequestSymmetry
INVARIANTS
    NoStepLeftBehind
