SPECIFICATION FairSpec
CONSTANTS
    Printer = {p1}
    NoPrinter = NoPrinter
    PrinterLimit = 1
    MaxSockets = 3
    MaxFaults = 1
CHECK_DEADLOCK FALSE
PROPERTIES
    RemovedIsFinal
    StoppedAgentGoesOffline
    RunningAgentComesOnline
