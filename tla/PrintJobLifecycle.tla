------------------------- MODULE PrintJobLifecycle --------------------------
(***************************************************************************)
(* What the print-job subsystem promises about one order, with no word on  *)
(* requests, queues, sockets or agents: the status moves only along the    *)
(* transition table, a job becomes PRINTED only on evidence (paper came    *)
(* out, or the shopkeeper said so), a document is erased only after an   *)
(* order it belongs to was, and a job is DELETED only once its documents   *)
(* are.  PrintPipeline is shown to implement this specification.           *)
(***************************************************************************)
EXTENDS PrintJobStates

CONSTANTS
    Job, Doc,           \* the orders; the documents
    Docs                \* Docs[j]: the documents of j; orders may share some of them

VARIABLES
    status,             \* status[j]: PrintJob.status, or a value of NoRow
    stored,             \* documents still in object storage
    evidence            \* evidence[j]: who has seen j printed

lvars == <<status, stored, evidence>>

LInit ==
    /\ status = [j \in Job |-> "NONE"]
    /\ stored = Doc
    /\ evidence = [j \in Job |-> {}]

\* A customer confirms a quote: the order row appears.
Confirm(j) ==
    /\ status[j] = "NONE"
    /\ status' = [status EXCEPT ![j] = "CREATED"]
    /\ UNCHANGED <<stored, evidence>>

\* Any legal transition other than the two that have a precondition; nothing
\* cancels an order once it is confirmed.
Move(j, to) ==
    /\ CanTransition(status[j], to)
    /\ to \notin {"PRINTED", "DELETED", "CANCELLED"}
    /\ status' = [status EXCEPT ![j] = to]
    /\ UNCHANGED <<stored, evidence>>

\* Paper came out of a printer.
SeePaper(j) ==
    /\ evidence' = [evidence EXCEPT ![j] = @ \cup {"paper"}]
    /\ UNCHANGED <<status, stored>>

\* The order is recorded as printed, on paper seen or on the shopkeeper's word.
Complete(j) ==
    /\ CanTransition(status[j], "PRINTED")
    /\ status' = [status EXCEPT ![j] = "PRINTED"]
    /\ \/ /\ evidence[j] # {}
          /\ evidence' = evidence
       \/ evidence' = [evidence EXCEPT ![j] = @ \cup {"shop"}]
    /\ UNCHANGED stored

\* One document of a printed order is removed from storage, for every order that
\* shares it.
Erase(j, d) ==
    /\ status[j] = "RETENTION_PENDING"
    /\ stored' = stored \ {d}
    /\ UNCHANGED <<status, evidence>>

\* The order is closed once none of its documents is left.
Close(j) ==
    /\ status[j] = "RETENTION_PENDING"
    /\ Docs[j] \cap stored = {}
    /\ status' = [status EXCEPT ![j] = "DELETED"]
    /\ UNCHANGED <<stored, evidence>>

\* The shop clears its history: only closed orders disappear.
Clear(cleared) ==
    /\ \A j \in cleared : status[j] \in {"DELETED", "CANCELLED"}
    /\ status' = [j \in Job |-> IF j \in cleared THEN "CLEARED" ELSE status[j]]
    /\ UNCHANGED <<stored, evidence>>

LNext ==
    \/ \E j \in Job :
        \/ Confirm(j)
        \/ \E to \in JobStatuses : Move(j, to)
        \/ SeePaper(j)
        \/ Complete(j)
        \/ \E d \in Docs[j] : Erase(j, d)
        \/ Close(j)
    \/ \E cleared \in SUBSET Job : Clear(cleared)

LSpec == LInit /\ [][LNext]_lvars
=============================================================================
