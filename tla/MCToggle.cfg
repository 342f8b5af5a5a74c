\* Two Clients, a person at the console, PUTs that land late.
SPECIFICATION Spec
CONSTANTS
    o1 = o1
    o2 = o2
    o3 = o3
    k1 = k1
    k2 = k2
    NoOp = NoOp
    Op <- ThreeOps
    ClientOf <- TwoClients
    Target <- PausePauseResume
    MaxReads = 2
    MaxForeign = 1
    LateLanding = TRUE
INVARIANTS
    ErrorMeansUntouched
PROPERTIES
    FlipReachesTarget
