SPECIFICATION Spec
CONSTANTS
    rewards = rewards
    shop = ann
    ann = ann
    bob = bob
    ops = ops
    wasm0 = wasm0
    Address = {rewards, ann, bob}
    MaxAmount = 1000000
    Amounts = {5}
    Spenders = {}
    MaxSelfSent = 5
    SignerLists <- ShopOnly
    Thresholds = {1}
    InitConfig <- OneSigner
    InitMinter = rewards
    Admins = {}
    UpgradeThreshold = 1
    SeedRoles <- NoRoles
    GrantedRoles = {}
    SeedCampaigns <- InstantCampaign
    Merchants = {}
    Terms = {}
    MaxCampaigns = 1
    MaxClaimCount = 2
    Times = {0, 33, 99}
    Hashes = {}
    InitHash = wasm0
    RewardsContract = rewards
    Users = {ann, bob}
    RewardsAdmin = bob
    StoredAdmin = {}
    RoleHolders = {}
    LegacyClaims = {}
    Batches = {}
    MaxU64 = 900000
    MaxDirectSupply = 5
INVARIANTS
    TypeOK
    IssuanceAccounted
    ClaimWithinBounds
    CountersCoverClaims
