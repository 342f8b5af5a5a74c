\* Pairs of writes to servers and volumes.
SPECIFICATION VSpec
CONSTANTS
    c1 = c1
    c2 = c2
    c3 = c3
    s = s
    t = t
    n = n
    m = m
    boot = boot
    root = root
    data = data
    spare = spare
    disk = disk
    p = p
    q = q
    d = d
    r = r
    u = u
    w = w
    a = a
    b = b
    e = e
    own = own
    other = other
    system = system
    k = k
    deny = deny
    x = x
    y = y
    desk = desk
    shop = shop
    intra = intra
    www = www
    mine = mine
    theirs = theirs
    old = old
    new = new
    None = None
    Nobody = Nobody
    Call = {c1, c2, c3}
    Server = {s, t, n, m}
    Volume = {boot, root, data, spare, disk}
    BootVolume <- Boots
    NameOf <- Names
    Order <- AsListed
    AtFirst <- Running
    Plans <- AllPlans
    PageSize = 1
    MaxPages = 3
    MaxReads = 1
    Attempts = 2
    Prompt = TRUE
    SubnetOf <- Subnets
    Together <- SharedPlans
    Acl = {p, q, d}
    Table = {r, u, w}
    Subnet = {a, b, e}
    Dhcp = {own, other, system}
    Key = {k, deny}
    Rest = {x, y}
    DefaultKey = {deny}
    DefaultAcl = {d}
    Unlabelled = {p}
    SystemSet = system
    Scenes <- AllScenes
    Client = {desk, shop}
    ClientOf <- Clients
    Zone = {intra}
    Record = {www}
    ZoneOf <- InIntra
    Vpc = {mine, theirs}
    Text = {old, new}
    ThisVpc = mine
    ZoneScenes <- AllZoneScenes
INVARIANTS
    ActsOnWhatItRead
    NameOrderedOnce
    SettledMeansLanded
    ErrorMeansUntouched
    KeptNamesWhatStays
    NetActsOnWhatItRead
    OutcomesTrue
    NoAclStuck
