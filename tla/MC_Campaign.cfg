SPECIFICATION CampaignSpec
CONSTANTS
    ana = ana
    ben = ben
    wasm0 = wasm0
    wasm1 = wasm1
    Address = {ana, ben}
    Admins = {ana, ben}
    UpgradeThreshold = 2
    SeedRoles <- AdminRoles
    GrantedRoles = {"Admin", "Pauser"}
    SeedCampaigns <- NoCampaigns
    Merchants = {ben}
    Terms <- MarketTerms
    MaxCampaigns = 2
    MaxClaimCount = 1
    Times <- MarketTimes
    Hashes = {wasm1}
    InitHash = wasm0
INVARIANTS
    CampaignTypeOK
PROPERTIES
    CampaignsAreKept
    ExpiryIsFinal
    UpgradeNeedsTimelock
    LockoutIsForever
