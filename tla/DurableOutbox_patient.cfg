SPECIFICATION FairSpec
CONSTANTS
    Delivery = {1, 2}
    w1 = w1
    w2 = w2
    l1 = l1
    l2 = l2
    l3 = l3
    Worker = {w1, w2}
    Lease = {l1, l2}
    Transport = {"bot_api", "telethon"}
    TransportOf <- SplitTransportOf
    Routes <- SplitRoutes
    Limits = {2}
    MaxLimit = 2
    BaseRetry = 1
    MaxRetry = 1
    SendingTimeout = 1
    TimeoutCoversSend = TRUE
    MaxCrashes = 1
    MaxRollbacks = 0
    MaxGenerations = 1
    None = None
    NoRecord = NoRecord
INVARIANT LiveLeaseHeld
PROPERTY QueuedSettles
