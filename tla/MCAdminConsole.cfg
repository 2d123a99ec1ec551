SPECIFICATION AdSpec
CONSTANTS
    Sections = {"drawers", "users", "apis", "settings", "audit", "sessions", "directory"}
    x = x g1 = g1 g2 = g2 r = r q = q
    None = None
    Api = {x}
    Drawers = {"user", "group", "role", "api"}
    Group = {g1, g2}
    Role = {r, q}
    This = r
    Offered <- MCOffered
    Templates <- MCTemplates
    Elsewhere <- MCElsewhere
    FirstOwn <- MCFirstOwn
    FirstLists <- MCFirstLists
    EdSteps = 5
    EdFaults = 1
    EdOthers = 1
    ann = ann bob = bob cleo = cleo
    Account = {ann, bob, cleo}
    Order <- MCOrder
    Self = ann
    Admins = {ann, bob}
    Inactive = {}
    PageSizes <- MCSizes
    UtSteps = 4
    UtFaults = 1
    UtOthers = 1
    Title = {"alpha", "beta"}
    Url = {"u", "v"}
    TitleOf <- MCTitleOf
    SlugOf <- MCSlugOf
    WzSteps = 10
    WzFaults = 1
    Settings = {"ldap", "azure", "session", "system"}
    Main <- MCMain
    Extra <- MCExtra
    FirstSettings <- MCFirstSettings
    StSteps = 4
    StFaults = 1
    StOthers = 1
    Filter = {"", "failed"}
    NoFilter = ""
    PAGE_SIZES <- MCPages
    FirstLog <- MCFirstLog
    AuSteps = 4
    AuLog = 1
    AuFaults = 1
    Session = {"s1", "s2", "s3"}
    Current = "s1"
    SlSteps = 4
    SlFaults = 1
    SlOthers = 1
    Person = {ann, bob}
    Team = {g1, g2}
    Local = {bob}
    Mail = {"mail"}
    Text = {"all", "some"}
    Hits <- MCHits
    DiSteps = 7
    DiFaults = 1
    DiOthers = 1
INVARIANTS TypeOK  MatrixMirrorsEngine RefusedOnlyByOthers CreatedAsReviewed 
PROPERTIES   ListsSettle
CHECK_DEADLOCK FALSE
