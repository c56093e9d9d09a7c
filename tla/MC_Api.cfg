SPECIFICATION ApiSpec
CONSTANTS
    m1 = m1
    m2 = m2
    u1 = u1
    Merchants = {m1, m2}
    Users = {u1}
    NONCE_TTL = 1
    JWT_EXPIRY = 1
    SeedSessions <- MC_Seed
    MaxTime = 2
    MaxChallenges = 5
    MaxRestarts = 1
    MaxRequests = 3
    Workloads <- MC_Workloads
    Filters <- MC_Filters
    SeedRows <- MC_Rows
    Orders <- MC_Orders
    LIST_TTL = 1
    CACHE_TTL = 1
CHECK_DEADLOCK FALSE
INVARIANTS
    ApiTypeOK
    TokensAreEarned
    AnswersAreTrue
    AuditedCreates
    CachesAreHonest
    ReadsAreFresh
PROPERTIES
    RequestsAnswered
