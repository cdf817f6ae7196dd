SPECIFICATION FairSpec
CONSTANTS
    Process = {bot}
    bot = bot
    user = user
    Poller = bot
    Chat = {"a", "b"}
    ChatOf <- TwoChats
    Updates = 3
    PollLimit = 2
    ReadLimit = 1
    SpoolRows = 2
    RetainRows = 1
    SeenIds = 2
    MaxEvents = 1
    MaxFailures = 2
    MaxPowerLosses = 0
    MaxFaults = 2
    None = None
PROPERTY UpdatesRead
