SPECIFICATION FairSpec
CONSTANTS
    User = {ann, bob}
    Api = {x}
    None = None
    Temporary = {bob}
    MaxLogins = 2
    MaxClicks = 2
    MaxLosses = 1
    MaxEnds = 1
    MaxCalls = 2
INVARIANTS TypeOK ForeignIsStale StarsSettle
PROPERTIES ReturnsToPlace SessionFollowed
CHECK_DEADLOCK FALSE
