SPECIFICATION Spec
CONSTANTS
    Intent = {1}
    Row = {1}
    IntentOf <- OwnIntentOf
    Canonical <- OwnCanonical
    p1 = p1
    p2 = p2
    Process = {p1, p2}
    MaxAttempts = 2
    BaseBackoff = 1
    MaxBackoff = 1
    SendingLease = 2
    Retention = 1
    MaxTerminal = 1
    PruneInterval = 1
    DrainLimit = 1
    Databases <- EmptyDatabase
    LeaseCoversSend = TRUE
    MaxCrashes = 2
    MaxGenerations = 2
    None = None
    NoRow = NoRow
INVARIANT TypeOK
INVARIANT AttemptsNearLimit
PROPERTY KeepsContract
SYMMETRY Symmetric
