SPECIFICATION Spec
CONSTANTS
    Job = {j1}
    Doc = {}
    Docs <- MCDocs
    Printer = {p1, p2}
    Slot = {s1, s2}
    NoPrinter = NoPrinter
    MaxAttempts = 2
    DispatchTries = 2
    ReportTries = 1
    MaxPolls = 0
    MaxNet = 1
    MaxClosing = 0
    MaxFaults = 1
CHECK_DEADLOCK FALSE
SYMMETRY Symmetry
INVARIANTS
    OneAgentPerAttempt
