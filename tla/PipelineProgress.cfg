SPECIFICATION FairSpec
CONSTANTS
    Deployments = {d1, d2}
    Runs = {r1}
    Requests = {c1}
    InvalidPayload = {d2}
    ProductionBranch = {d1}
    StrictUploads = TRUE
    Faults = {"crash"}
    MaxAttempts = 2
    MaxStalls = 1
    None = None
    Unread = Unread
INVARIANT TypeOK
PROPERTIES AcceptedIsFinished JobsSettle
