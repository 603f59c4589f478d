SPECIFICATION Spec
CONSTANTS
    Printer = {p1}
    NoPrinter = NoPrinter
    PrinterLimit = 1
    MaxSockets = 1
    MaxFaults = 0
CHECK_DEADLOCK FALSE
PROPERTIES
    RemovedStaysRemoved
