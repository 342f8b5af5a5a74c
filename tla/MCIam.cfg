\* Two Clients in two processes over one disk entry, or in one process with
\* and without it.
SPECIFICATION FairSpec
CONSTANTS
    c1 = c1
    c2 = c2
    q1 = q1
    q2 = q2
    Client = {c1, c2}
    Process = {q1, q2}
    Setups <- EverySetup
    MaxRevoked = 1
    MaxStale = 1
INVARIANTS
    ResendDiffersUnlessShared
    LoginsOwed
PROPERTIES
    RevokedTokenReplaced
