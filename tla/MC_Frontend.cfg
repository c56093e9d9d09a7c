CONSTANTS
    alice = alice
    bob = bob
    null = null
    Tabs = {t1, t2}
    Accounts = {alice, bob}
    MaxEvents = 4
    Pages <- MCPages
    TIMEOUT = 1
    ATTEMPTS = 1
    LAG = 1
    Balance = 1
    MaxCalls = 3
    Owners = {alice, bob}
    nobody = nobody
    HistoryPages <- MCHistoryPages
    Periods = {0, 1}
    MaxAsked = 4
    MaxChanges = 2
    PAGE_SIZE = 2
    Listed <- MCListed
    MaxLoads = 2
    Queries = {"x", "y", "z"}
    Finds <- MCFinds
    MAX_RECENT = 2
    MaxKeys = 8
    MAX_TOASTS = 2
    ANIMATION = 1
    Durations = {1, 3}
    MaxToasts = 3
    MaxClicks = 1
    TABLE_PAGE = 2
    TableRows <- MCTableRows
    Searches <- MCSearches
    MaxTableEvents = 6
    MINUTE = 3
    Expirations = {0, 4, 6}
    MaxNow = 12
    MaxAttempts = 2
SPECIFICATION FrontendSpec
INVARIANTS
    FrontendTypeOK
    CallsAreTrue
    ShownIsCurrent
    ListsAreTrue
    WidgetsAreTrue
PROPERTIES
    FrontendSettles
CHECK_DEADLOCK FALSE
