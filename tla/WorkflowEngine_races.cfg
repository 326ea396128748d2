SPECIFICATION Spec
CONSTANTS
    roster = roster
    photo = photo
    design = design
    print = print
    None = None
    Step = {roster, photo, design}
    Upstream <- JoinUpstream
    Request = {r1, r2}
    Approval = {a1}
    PatchStatus = {"OPEN", "BLOCKED", "COMPLETED"}
SYMMETRY RequestSymmetry
INVARIANTS
    UnlockedAfterPrerequisites
    TasksMatchUnlockedSteps
    CompletedOnlyWhenAllDone
