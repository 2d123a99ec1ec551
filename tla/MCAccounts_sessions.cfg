SPECIFICATION Spec
CONSTANTS
    User = {a, m}
    Session = {s1, s2}
    Worker = {w1, w2}
    Local = {a, m}
    Manager = {m}
    InitialUsers = {a, m}
    InitialAdmins = {a}
    Op = {"login", "use", "logout", "delete", "abandon"}
    Sent <- SentNew
    Idle = 1
    MaxAge = 2
    TouchEvery = 0
    Keep = 0
    MaxClock = 3
    MaxChanges = 1
INVARIANT SessionOwnerExists
PROPERTIES EndedStaysEnded
SYMMETRY Symmetry
CHECK_DEADLOCK FALSE
