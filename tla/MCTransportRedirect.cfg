\* A redirect of a POST is followed, and the follow-up decides the retry.
SPECIFICATION Spec
CONSTANTS
    c1 = c1
    c2 = c2
    Call = {c1}
    Token = {t1}
    NoToken = NoToken
    NoCall = NoCall
    Requests <- Alone
    RetryCount = 1
INVARIANTS
    RetriesOnlyUnacted
