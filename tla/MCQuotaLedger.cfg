\* Thirteen scenes of two or three calls of one Client and the quota they find, and
\* one change by somebody else or the calendar.
SPECIFICATION FairSpec
CONSTANTS
    buy1 = buy1
    buyLarge = buyLarge
    remove = remove
    quiet = quiet
    order1 = order1
    order2 = order2
    drop = drop
    renew1 = renew1
    renew2 = renew2
    renewNext = renewNext
    revive = revive
    keep1 = keep1
    keep2 = keep2
    keepOther = keepOther
    auto = auto
    small = small
    large = large
    AnyQuota = AnyQuota
    NoOp = NoOp
    NoQuota = NoQuota
    Op <- AllOps
    Operation <- Operations
    Package = {small, large}
    PackageOf <- Packages
    Guard <- Guards
    Scenes <- AllScenes
    MaxForeign = 1
INVARIANTS
    SettledMeansLanded
PROPERTIES
    LandsAsRead
    PlainErrorsTrue
    CallsReturn
