SPECIFICATION Spec
CONSTANTS
    User = {a, b, m}
    Session = {s1, s2}
    Worker = {w1, w2}
    Local = {a, b, m}
    Manager = {m}
    InitialUsers = {a, b, m}
    InitialAdmins = {a, b}
    Op = {"login", "update"}
    Sent <- SentRights
    Idle = 2
    MaxAge = 4
    TouchEvery = 1
    Keep = 1
    MaxClock = 0
    MaxChanges = 2
INVARIANT LastAdminStays
CHECK_DEADLOCK FALSE
