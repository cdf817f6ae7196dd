SPECIFICATION Spec
CONSTANTS
    Process = {bot, user}
    bot = bot
    user = user
    Poller = bot
    Chat = {"a"}
    ChatOf <- OneChat
    Updates = 3
    PollLimit = 2
    ReadLimit = 1
    SpoolRows = 2
    RetainRows = 1
    SeenIds = 2
    MaxEvents = 1
    MaxFailures = 1
    MaxPowerLosses = 1
    MaxFaults = 2
    None = None
INVARIANT TypeOK
INVARIANT SpoolOrdered
INVARIANT CursorSafe
INVARIANT OffsetSafe
INVARIANT WrittenDurable
INVARIANT NothingGarbled
