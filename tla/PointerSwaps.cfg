SPECIFICATION GatewaySpec
CONSTANTS
    o1 = o1
    d1 = d1
    c1 = c1
    Deployments = {o1, d1}
    Old = {o1}
    Production = {d1}
    Runs = {r1}
    Writers = {w1}
    Swaps = {q1, q2}
    None = None
    Views = {v1}
    Commits = {c1}
    Commit <- SameCommit
    CreatedAt <- OldBeforeNew
CONSTRAINTS UpToAnAnswer FewAtWork
SYMMETRY SwapSymmetry
INVARIANTS GatewayTypeOK UnservableHasACause ForbiddenHasACause EndpointsAgree
PROPERTIES NotFoundHasACause AuditsChain
