SPECIFICATION Spec
CONSTANTS
    Sender = {"ann", "bob"}
    Nobody = "none"
    Main = 0
    Saying <- Sayings
    MaxSpool = 4
    MaxGap = 3
    MaxJoin = 2
    MaxTurns = 1
    ChainCap = 3
    People = {"ann", "bob", "eve"}
    Handle = {"a"}
    Anonymous = "none"
    Note = {"n", "m"}
    Entity = {"x", "y"}
    MaxPeople = 2
    MaxNotes = 1
    MaxEntities = 1
    MaxCalls = 4
    MaxTrouble = 1
    Texts <- Replies
    MaxChars = 4
    MaxChunks = 3
    MaxTries = 2
INVARIANT FragmentsTogether
INVARIANT ParentInScene
INVARIANT NoLaterTurns
INVARIANT FloorsApart
INVARIANT RosterTypeOK
INVARIANT LagIsDirty
INVARIANT NotesDurable
INVARIANT TextSplit
INVARIANT AckMeansAll
INVARIANT PrefixOnly
PROPERTY BurstGrows
PROPERTY NobodyForgotten
 
CHECK_DEADLOCK FALSE
