SPECIFICATION Spec
CONSTANTS
    Version = {v1}
    Approval = {}
    Link = {l1}
    Batch = {b1}
    Request = {r1}
    ClientAnswer = {"APPROVED", "CHANGES_REQUESTED"}
    None = None
PROPERTIES
    NoBatchAgainstClient
