SPECIFICATION FairSpec
CONSTANTS
    Rows = 4
    Direct = {1, 3}
    Weighty = {3}
    Nameless = {2}
    AddressedPerCycle = 1
    DelegatesPerCycle = 1
    RememberPerCycle = 1
    MaxWaits = 2
    Chats <- Served
    Lane <- Floors
    Home <- Homes
    Command = {4}
    Scripts <- Cases
    PageLimit = 2
    BatchSize = 1
    ChatCalls = 2
    CycleCalls = 2
    MaxInvalid = 3
    ChatCap = 1
    GlobalCap = 1
    ReactCap = 1
    Owner = TRUE
    MaxAttempts = 2
INVARIANT TypeOK
INVARIANT NothingOwedBehind
INVARIANT NothingUnread
INVARIANT CapsHold
INVARIANT ToldOnce
INVARIANT QuarantineEarned
PROPERTY SceneStillOpen
PROPERTY RowsSettle
