SPECIFICATION Spec
CONSTANTS
    Job = {j1}
    Doc = {d1}
    Docs <- MCDocs
    Printer = {p1}
    Slot = {s1}
    NoPrinter = NoPrinter
    MaxAttempts = 1
    DispatchTries = 1
    ReportTries = 1
    MaxPolls = 0
    MaxNet = 1
    MaxClosing = 0
    MaxFaults = 1
CHECK_DEADLOCK FALSE
INVARIANTS
    NothingStranded
