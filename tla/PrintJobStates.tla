--------------------------- MODULE PrintJobStates ---------------------------
(***************************************************************************)
(* The statuses of a print job and the table of legal transitions: the     *)
(* vocabulary shared by every module that speaks about print jobs.         *)
(***************************************************************************)

\* The values of PrintJob.status.
JobStatuses ==
    {"CREATED", "PRINT_ELIGIBLE", "QUEUED", "PRINTING", "PRINTED",
     "RETENTION_PENDING", "DELETED", "PRINT_FAILED", "AGENT_OFFLINE",
     "PRINT_UNKNOWN", "CANCELLED"}

\* A job before its row is inserted, and after clearHistory removed the row.
NoRow == {"NONE", "CLEARED"}

\* ALLOWED_TRANSITIONS and canTransition.
CanTransition(from, to) ==
    \/ from = "CREATED"           /\ to \in {"PRINT_ELIGIBLE", "CANCELLED"}
    \/ from = "PRINT_ELIGIBLE"    /\ to \in {"QUEUED", "CANCELLED"}
    \/ from = "QUEUED"            /\ to \in {"PRINTING", "AGENT_OFFLINE", "PRINT_FAILED"}
    \/ from = "PRINTING"          /\ to \in {"PRINTED", "PRINT_FAILED", "PRINT_UNKNOWN"}
    \/ from = "PRINT_UNKNOWN"     /\ to \in {"PRINTED", "PRINT_FAILED"}
    \/ from = "AGENT_OFFLINE"     /\ to \in {"QUEUED", "PRINT_FAILED"}
    \/ from = "PRINT_FAILED"      /\ to = "QUEUED"
    \/ from = "PRINTED"           /\ to = "RETENTION_PENDING"
    \/ from = "RETENTION_PENDING" /\ to = "DELETED"

\* A job confirmed as printed; its status never leaves this set again.
Finished == {"PRINTED", "RETENTION_PENDING", "DELETED", "CLEARED"}
=============================================================================
