SPECIFICATION TokenSpec
CONSTANTS
    alice = alice
    bob = bob
    Address = {alice, bob}
    MaxAmount = 2
    Amounts = {1, 2}
    Spenders = {bob}
    MaxSelfSent = 4
    SignerLists <- Rotations
    Thresholds = {1, 2}
    InitConfig <- TwoOfTwo
    InitMinter = alice
INVARIANTS
    TokenTypeOK
    LedgerBalanced
    DrawnWithinApproval
    ThresholdReachable
PROPERTIES
    RotationNeedsThreshold
