\* Two or three writes to one CDN, with requests that outlive their calls.
SPECIFICATION Spec
CONSTANTS
    c1 = c1
    c2 = c2
    c3 = c3
    rule = rule
    name = name
    v = v
    w = w
    Call = {c1, c2, c3}
    Key = {rule, name}
    Value = {v, w}
    Plans <- AllPlans
    Begins = {"ACTIVE", "DISABLED", "UNKNOWN", "DEPLOYING"}
    MaxReads = 3
INVARIANTS
    SuccessMeansLanded
    ActsOnWhatItRead
