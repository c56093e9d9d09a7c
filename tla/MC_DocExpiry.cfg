SPECIFICATION Spec
CONSTANTS
    ann = ann
    tick1 = tick1
    tick2 = tick2
    Address = {ann}
    Campaigns = {1}
    Pollers = {tick1}
    LIMIT = 2
    MAX_EVENT_RETRIES = 3
    Today = 10
    OnChainExpiry = 20
    MaxEvents = 1
    MaxFaults = 0
    MaxCrashes = 0
INVARIANTS
    ExpiredOnly
