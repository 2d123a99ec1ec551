SPECIFICATION FairSpec
CONSTANTS
    User = {a, m}
    Session = {s1, s2}
    Worker = {w1}
    Local = {a, m}
    Manager = {m}
    InitialUsers = {a, m}
    InitialAdmins = {a}
    Op = {"login", "use", "revokeOthers", "delete"}
    Sent <- SentNew
    Idle = 1
    MaxAge = 2
    TouchEvery = 0
    Keep = 1
    MaxClock = 5
    MaxChanges = 1
PROPERTY EndedArePurged
CHECK_DEADLOCK FALSE
