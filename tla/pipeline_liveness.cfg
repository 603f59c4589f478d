SPECIFICATION FairSpec
CONSTANTS
    Job = {j1}
    Doc = {d1, d2}
    Docs <- MCDocs
    Printer = {p1}
    Slot = {s1}
    NoPrinter = NoPrinter
    MaxAttempts = 1
    DispatchTries = 2
    ReportTries = 1
    MaxPolls = 1
    MaxNet = 1
    MaxClosing = 0
    MaxFaults = 1
CHECK_DEADLOCK FALSE
PROPERTIES
    RetentionCompletes
    PrintingSettles
    DispatchEnds
