SPECIFICATION PagesSpec
CONSTANTS
    Pages = {"catalog", "console", "shell", "spec"}
    Apis <- MCApis
    red = red  team = team  ab = ab  abc = abc
    Tag = {red}
    Owner = {team}
    Long = {ab, abc}
    Short = a
    None = None
    MaxHistory = 4
    MaxMoves = 5
    get = get  other = other  id = id  auth = auth  token = token
    Operation = {get, other}
    Api = {"a", "b"}
    ApiOf <- MCApiOf
    KeyOf <- MCKeyOf
    Param = {id, auth, token}
    In <- MCIn
    Required = {id}
    Enum = {auth}
    Locked = {token}
    Given <- MCGiven
    Extra = {h}
    HistoryLimit = 2
    MaxSteps = 6
    x = x  y = y  o1 = o1  o2 = o2  A = A  B = B  D = D
    CatalogApis <- MCCatalog
    LastViewed = x
    Matching <- MCMatching
    OpsOf <- MCOpsOf
    RECENT_MAX = 2
    Tabs = 2
    Items = 2
    ListPages = 2
    SkSteps = 4
    Name = {A, B, D}
    Root = A
    Defs <- MCDefs
    MAX_DEPTH = 3
    Declared <- MCDeclared
    Ops <- MCOps
    TagOrder <- MCTagOrder
    OtherTags <- MCOtherTags
INVARIANTS TypeOK BackSkipsLetters  
PROPERTIES  PagesSettle ShellKeepsWord
CHECK_DEADLOCK FALSE
