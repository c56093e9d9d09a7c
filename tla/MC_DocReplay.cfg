SPECIFICATION Spec
CONSTANTS
    ann = ann
    tick1 = tick1
    tick2 = tick2
    Address = {ann}
    Campaigns = {1}
    Pollers = {tick1, tick2}
    LIMIT = 2
    MAX_EVENT_RETRIES = 2
    Today = 10
    OnChainExpiry = 20
    MaxEvents = 2
    MaxFaults = 1
    MaxCrashes = 1
INVARIANTS
    MirrorsDeactivation
