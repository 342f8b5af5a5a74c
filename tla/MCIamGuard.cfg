\* Every pair of guarded writes of an administrator and another caller.
SPECIFICATION GuardSpec
CONSTANTS
    admin = admin
    plain = plain
    loose = loose
    given = given
    fresh = fresh
    admins = admins
    staff = staff
    empty = empty
    idp = idp
    owner = owner
    boss = boss
    clerk = clerk
    keeper = keeper
    robot = robot
    iam = iam
    vm = vm
    ours = ours
    theirs = theirs
    robots = robots
    Root = Root
    Policy = {admin, plain, loose, given, fresh}
    Group = {admins, staff, empty, idp}
    User = {owner, boss, clerk}
    ServiceAccount = {keeper, robot}
    Pattern = {iam, vm}
    WritePattern = {iam}
    Managed = {given}
    Idp = {idp}
    Foreign = {boss}
    Task = {ours, theirs, robots}
    Caller <- CallerOf
    Worlds <- TwoWorlds
    Plans <- AllPairs
CHECK_DEADLOCK FALSE
PROPERTIES
    ProtectedUntouched
    NobodyEmpowered
    SelfWins
