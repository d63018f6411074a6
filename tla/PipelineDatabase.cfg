SPECIFICATION Spec
CONSTANTS
    Deployments = {d1}
    Runs = {r1}
    Requests = {c1}
    InvalidPayload = {}
    ProductionBranch = {d1}
    StrictUploads = TRUE
    Faults = {"db", "enqueue"}
    MaxAttempts = 2
    MaxStalls = 1
    None = None
    Unread = Unread
INVARIANTS HistoryExplainsStatus HistoryIsLegal
