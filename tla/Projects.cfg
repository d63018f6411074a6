SPECIFICATION ProjectsSpec
CONSTANTS
    u1 = u1
    u2 = u2
    n1 = n1
    s1 = s1
    Users = {u1, u2}
    Sender = u1
    Placeholder = ph
    Repos = {r1}
    Handlers = {h1}
    MaxEvents = 2
    MaxSyncs = 1
    Ids = {p1, p2}
    Slugs = {s1, s2}
    Names = {n1}
    SlugOf <- FirstSlug
    Requests = {q1, q2}
    None = None
CONSTRAINT FewAtWork
SYMMETRY RequestSymmetry
INVARIANTS ProjectsTypeOK RowsFollowGitHub LinkHasACause
PROPERTY OwnersOnly
