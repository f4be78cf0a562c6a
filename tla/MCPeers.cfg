SPECIFICATION Spec
CONSTANTS
    a1 = a1
    a2 = a2
    a3 = a3
    a4 = a4
    a5 = a5
    a6 = a6
    Addresses = {a1, a2, a3, a4, a5, a6}
    None = None
    Kind <- MCKind
    MaxBlockRequests = 2
    MaxChannels = 2
    MaxHeight = 3
    Cases <- MCCases
INVARIANTS
    EntriesMatchTasks
PROPERTIES
    AnnouncedFetched
    Reconnects
CHECK_DEADLOCK FALSE
