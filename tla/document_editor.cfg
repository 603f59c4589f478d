SPECIFICATION FairSpec
CONSTANTS
    HistoryLimit = 2
    CacheSize = 1
    MaxTaps = 3
    MaxCalls = 2
    MaxFaults = 1
    Items <- MCItems
    Edited <- MCEdited
CHECK_DEADLOCK FALSE
INVARIANTS
    TypeOK
    ShownIsAsked
    RenderIsOfItem
    RenderExists
    MarksInHistory
PROPERTIES
    ImplementsUndoStack
    BecomesFree
