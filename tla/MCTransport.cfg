\* Two calls race on the shared token slot; every request shape meets every
\* outcome of every attempt.
SPECIFICATION FairSpec
CONSTANTS
    c1 = c1
    c2 = c2
    Call = {c1, c2}
    Token = {t1, t2}
    NoToken = NoToken
    NoCall = NoCall
    Requests <- AllRequests
    RetryCount = 1
INVARIANTS
    InvalidatesOnlyCurrent
    CarefulCallsOnce
    ErrorFlagsTrue
PROPERTIES
    ReplacedOnlyWhenBad
    CallsReturn
