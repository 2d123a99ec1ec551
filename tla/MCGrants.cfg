SPECIFICATION Spec
CONSTANTS
    None = None
    boss = boss
    ann = ann
    bob = bob
    staff = staff
    ops = ops
    spare = spare
    managing = managing
    auditing = auditing
    extra = extra
    orders = orders
    dir = dir
    w1 = w1
    w2 = w2
    Api = {orders}
    User = {boss, ann, bob}
    Group = {staff, ops, spare}
    Role = {managing, auditing, extra}
    Admin = {boss}
    Directory = {dir}
    Worker = {w1, w2}
    Source <- MCSource
    Sent <- MCSent
    InitialMembers <- MCMembers
    InitialGroupRoles <- MCGroupRoles
    InitialPerms <- MCPerms
    MaxWrites = 2
SYMMETRY Symmetry
CHECK_DEADLOCK FALSE
INVARIANTS TypeOK RefsLive
PROPERTIES NoEscalation SyncMirrors
