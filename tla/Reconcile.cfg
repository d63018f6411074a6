SPECIFICATION RecSpec
CONSTANTS
    Deployments = {d1}
    Runs = {r1, r2}
    Requests = {}
    Workers = {w1, w2}
    InvalidPayload = {}
    ProductionBranch = {}
    StrictUploads = TRUE
    Faults = {"crash", "stall"}
    RecFaults = {"crash", "redis", "db"}
    MaxAttempts = 1
    MaxStalls = 1
    None = None
    Unread = Unread
SYMMETRY Symmetry
CONSTRAINT FewActors
VIEW Control
INVARIANTS RecTypeOK ReconcilersExclude StandingJobIsSpared
PROPERTY ReconciledStaysFinished
