SPECIFICATION Spec
CONSTANTS
    Deployments = {d1, d2}
    Runs = {r1, r2}
    Requests = {}
    InvalidPayload = {}
    ProductionBranch = {d1}
    StrictUploads = TRUE
    Faults = {"crash"}
    MaxAttempts = 2
    MaxStalls = 1
    None = None
    Unread = Unread
SYMMETRY RunSymmetry
PROPERTY ImplementsLifecycle
