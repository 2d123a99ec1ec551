SPECIFICATION Spec
CONSTANTS
    User = {a, b, m}
    Session = {s1, s2}
    Worker = {w1}
    Local = {a, b}
    Manager = {m}
    InitialUsers = {a, m}
    InitialAdmins = {a}
    Op = {"login", "me", "changePassword", "revokeOthers", "revokeMine", "revokeAny", "revokeUser", "reset", "update", "delete", "bulk", "create"}
    Sent <- SentSerial
    Idle = 2
    MaxAge = 4
    TouchEvery = 1
    Keep = 1
    MaxClock = 0
    MaxChanges = 1
INVARIANTS TypeOK LastAdminStays LossEndsSessions
PROPERTY ManagementRules
CHECK_DEADLOCK FALSE
