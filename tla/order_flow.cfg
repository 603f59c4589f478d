SPECIFICATION FairSpec
CONSTANTS
    Conn = {c1, c2}
    Worker = {w1, w2}
    Doc = {d1}
    NoDoc = NoDoc
    Opt = {"o1", "o2"}
    Default = "o1"
    Attempts = 2
    OrderLimit = 2
    MaxQuotes = 2
    MaxFaults = 1
    MaxTaps = 1
CHECK_DEADLOCK FALSE
INVARIANTS
    TypeOK
    OneOrderPerQuote
    OrderedStaysOrdered
    ShownIsChosen
PROPERTIES
    AnalysisEnds
