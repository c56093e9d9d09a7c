SPECIFICATION Spec
CONSTANTS
    alice = alice
    bob = bob
    Address <- Holders
    MaxAmount = 4
    Amounts = {2}
    Spenders = {}
    MaxSelfSent = 0
    SignerLists <- NoLists
    Thresholds = {}
    InitConfig <- OneOfOne
    InitMinter = alice
    MinStake = 2
    MaxU64 = 30000
    Times <- VoteTimes
    MaxProposals = 2
    MaxOutflow = 2
INVARIANTS
    GovernanceTypeOK
    VotesBackedByTokens
    DecisionsAreSound
PROPERTIES
    DecidedOnce
