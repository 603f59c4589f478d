SPECIFICATION Spec
CONSTANTS
    Conn = {c1, c2}
    Worker = {w1, w2}
    Doc = {d1}
    NoDoc = NoDoc
    Opt = {"o1", "o2"}
    Default = "o1"
    Attempts = 1
    OrderLimit = 1
    MaxQuotes = 2
    MaxFaults = 0
    MaxTaps = 1
CHECK_DEADLOCK FALSE
PROPERTIES
    ConfirmedIsChosen
