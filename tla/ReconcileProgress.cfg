SPECIFICATION RecFairSpec
CONSTANTS
    Deployments = {d1}
    Runs = {r1}
    Requests = {}
    Workers = {w1}
    InvalidPayload = {}
    ProductionBranch = {}
    StrictUploads = TRUE
    Faults = {"crash"}
    RecFaults = {"slow"}
    MaxAttempts = 1
    MaxStalls = 1
    None = None
    Unread = Unread
PROPERTY AbandonedIsReconciled
