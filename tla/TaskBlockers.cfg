\* Two blockers and two concurrent requests; clients also patch the status
\* and the worker app starts the task.
SPECIFICATION MCFairSpec
CONSTANTS
    Blocker = {b1, b2}
    Request = {r1, r2}
    PatchStatus = {"READY", "BLOCKED"}
    WorkerStarts = TRUE
INVARIANTS
    NoGhostBlockAlone
    BlockerHoldsAlone
PROPERTIES
    NoAdvancePastBlockerAlone
    TaskGetsDoneAlone
