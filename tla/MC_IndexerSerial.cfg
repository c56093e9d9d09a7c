SPECIFICATION Spec
CONSTANTS
    ann = ann
    tick1 = tick1
    tick2 = tick2
    Address = {ann}
    Campaigns = {1}
    Pollers = {tick1}
    LIMIT = 2
    MAX_EVENT_RETRIES = 3
    Today = 10
    OnChainExpiry = 20
    MaxEvents = 3
    MaxFaults = 3
    MaxCrashes = 1
INVARIANTS
    IndexerTypeOK
    MirrorsDeactivation
PROPERTIES
    EventsAreHandled
