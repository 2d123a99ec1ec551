SPECIFICATION Spec
CONSTANTS
    Key = {k1, k2}
    SignIn = {s1, s2, s3}
    NoAttempt = NoAttempt
    MaxFailures = 2
    Lockout = 2
    Window = 2
    PruneAt = 1
    MaxClock = 6
INVARIANTS TypeOK DeadlineInWindow 
PROPERTY LockIsKept
CHECK_DEADLOCK FALSE
