SPECIFICATION FairSpec
CONSTANTS
    c1 = c1
    PluginCount = 2
    Client <- MCClient
    Owner <- MCOwner
    EventCount = 2
    Wants <- MCWants
    Limit = 1
    Unsteady = {1}
    MaxFailures = 1
INVARIANTS
    NoGap
    EveryPluginIsOffered
PROPERTIES
    AtLeastOnce
    HeldEventsLeave
