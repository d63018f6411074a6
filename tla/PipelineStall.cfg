SPECIFICATION Spec
CONSTANTS
    Deployments = {d1}
    Runs = {r1, r2}
    Requests = {c1}
    InvalidPayload = {}
    ProductionBranch = {d1}
    StrictUploads = TRUE
    Faults = {"stall"}
    MaxAttempts = 1
    MaxStalls = 1
    None = None
    Unread = Unread
SYMMETRY RunSymmetry
INVARIANT PublishedWasUploaded
PROPERTIES FinishedStaysFinished CancellationIsFinal
