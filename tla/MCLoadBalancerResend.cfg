\* Two Clients write members of one pool; a busy refusal makes one resend.
SPECIFICATION Spec
CONSTANTS
    c1 = c1
    c2 = c2
    c3 = c3
    A = A
    B = B
    R = R
    lb = lb
    pool = pool
    listener = listener
    new = new
    m1 = m1
    m2 = m2
    pkg = pkg
    dp = dp
    f = f
    v = v
    w = w
    none = none
    NoCall = NoCall
    Call = {c1, c2, c3}
    Client = {A, B, R}
    Balancer = lb
    Child = {pool, listener, new}
    Key <- AllKeys
    MemberKey <- TwoMembers
    Value = {v, w, pool}
    Nothing = none
    DefaultPool = dp
    Package = pkg
    Start <- AtFirst
    Plans <- RacePlans
    MaxReads = 1
    Attempts <- SomeRetry
    Prompt = TRUE
INVARIANTS
    NoSilentDrop
