SPECIFICATION Spec
CONSTANTS
    Delivery = {1}
    w1 = w1
    w2 = w2
    l1 = l1
    l2 = l2
    l3 = l3
    Worker = {w1, w2}
    Lease = {l1, l2, l3}
    Transport = {"bot_api"}
    TransportOf <- MCTransportOf
    Routes <- MCRoutes
    Limits = {1, 2}
    MaxLimit = 2
    BaseRetry = 1
    MaxRetry = 2
    SendingTimeout = 1
    TimeoutCoversSend = FALSE
    MaxCrashes = 1
    MaxRollbacks = 1
    MaxGenerations = 2
    None = None
    NoRecord = NoRecord
SYMMETRY Symmetric
INVARIANT TypeOK
INVARIANT RecordValid
INVARIANT CallsBounded
PROPERTY Implements
