\* One listing of prices with every budget, and beside other calls.
SPECIFICATION DiscoverySpec
CONSTANTS
    c1 = c1
    c2 = c2
    c3 = c3
    p = p
    q = q
    u = u
    v = v
    near = near
    far = far
    x = x
    y = y
    z = z
    Call = {c1, c2, c3}
    Project = {p, q}
    User = {u, v}
    NoProject = NoProject
    NoUser = NoUser
    NoCall = NoCall
    Lists <- AllLists
    Configured = {NoProject, p}
    Plans <- AllPlans
    Parent = {near, far}
    Body = {x, y, z}
    BodiesOf <- Types
    Inapplicable = {z}
    MaxRows = 11
INVARIANTS
    SameProject
    QuotesAllOrNone
    CompleteMeansPriced
PROPERTIES
    CallsReturn
