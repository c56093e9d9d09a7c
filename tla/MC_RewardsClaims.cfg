SPECIFICATION Spec
CONSTANTS
    rewards = rewards
    shop = shop
    ann = ann
    bob = bob
    ops = ops
    wasm0 = wasm0
    Address <- Everyone
    MaxAmount = 10000000
    Amounts = {}
    Spenders = {}
    MaxSelfSent = 0
    SignerLists = {}
    Thresholds = {}
    InitConfig <- OneSigner
    InitMinter = rewards
    Admins = {ops}
    UpgradeThreshold = 1
    SeedRoles <- NoRoles
    GrantedRoles = {}
    SeedCampaigns <- VestingCampaign
    Merchants = {}
    Terms = {}
    MaxCampaigns = 1
    MaxClaimCount = 3
    Times <- ClaimTimes
    Hashes = {}
    InitHash = wasm0
    RewardsContract = rewards
    Users = {ann, bob, shop}
    RewardsAdmin = ops
    StoredAdmin = {ops}
    RoleHolders = {bob}
    LegacyClaims <- V1Claims
    Batches <- V1Batches
    MaxU64 = 2000000
    MaxDirectSupply = 0
INVARIANTS
    VestingAccounts
    EarlierEarnsMore
    NeverOverpaid
PROPERTIES
    ImplementsEntitlements
