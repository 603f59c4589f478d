SPECIFICATION Spec
CONSTANTS
    Job = {j1}
    Doc = {d1, d2}
    Docs <- MCDocs
    Printer = {p1}
    Slot = {s1, s2}
    NoPrinter = NoPrinter
    MaxAttempts = 2
    DispatchTries = 1
    ReportTries = 1
    MaxPolls = 0
    MaxNet = 1
    MaxClosing = 1
    MaxFaults = 1
CHECK_DEADLOCK FALSE
SYMMETRY Symmetry
INVARIANTS
    TypeOK
    ConfirmedPrintIsDurable
    ClosedLeavesNothing
PROPERTIES
    ClickWinsOnce
    ImplementsLifecycle
