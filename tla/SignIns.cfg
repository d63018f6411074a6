SPECIFICATION FairSpec
CONSTANTS
    Rows = {a1}
    Emails = {e1}
    GitHubIds = {g1}
    GoogleIds = {o1}
    Tokens = {t1}
    Flows = {f1}
    Requests = {q1, q2}
    None = None
INVARIANTS AccountsTypeOK PasswordsAreConfirmed
PROPERTY RegisteredIsVerified
