SPECIFICATION FairSpec
CONSTANTS
    Intent = {1, 2}
    Row = {1, 2, 3}
    IntentOf <- SharedIntentOf
    Canonical <- OwnCanonical
    p1 = p1
    p2 = p2
    Process = {p1}
    MaxAttempts = 2
    BaseBackoff = 1
    MaxBackoff = 1
    SendingLease = 1
    Retention = 1
    MaxTerminal = 1
    PruneInterval = 1
    DrainLimit = 1
    Databases <- OldDatabases
    LeaseCoversSend = TRUE
    MaxCrashes = 0
    MaxGenerations = 1
    None = None
    NoRow = NoRow
INVARIANT OneLiveRow
PROPERTY AckStands
PROPERTY IntentsSettle
