----------------------------- MODULE OrderIntake -----------------------------
(***************************************************************************)
(* How an order comes in, on the side of the backend: upload of documents, *)
(* their analysis by the workers of a queue, quotes, confirmation.         *)
(*                                                                         *)
(* A customer has some connections, each with one request at a time; what  *)
(* the requests are is up to the browser, OrderFlow.  A request awaits the *)
(* database between its steps.  An answer waits on its connection until    *)
(* the browser takes it; one nobody waits for any more is dropped.         *)
(*                                                                         *)
(* Printing an order is PrintPipeline's; here it becomes PRINTED or fails  *)
(* at some time, and the retention sweep, which deletes the documents, is  *)
(* one step.  Prices are left out, a quote fixes the options to print with.*)
(***************************************************************************)
EXTENDS Integers, Sequences, FiniteSets

CONSTANTS
    Conn,           \* connections of the customer
    Worker,         \* analysis workers
    Doc, NoDoc,     \* files the customer may upload
    Opt,            \* options of a document: paper, colour, sides, copies
    Attempts,       \* attempts of an analysis (DOCUMENT_ANALYSIS_JOB_OPTS)
    OrderLimit,     \* maxTokensPerDay of the shop's plan
    MaxQuotes,      \* bound: quotes made
    MaxFaults       \* bound: failures of any kind

ASSUME IntakeAssumption ==
    /\ IsFiniteSet(Doc) /\ NoDoc \notin Doc
    /\ {Attempts, OrderLimit, MaxQuotes, MaxFaults} \subseteq Nat
    /\ Attempts > 0
    /\ 0 \notin Worker

VARIABLES
    status,     \* Document.status, NONE as long as there is no row
    session,    \* session[d]: the PrintSession of document d, 0 if there is no row
    counted,    \* documents with a pageCount
    analysis,   \* analysis[d]: its job in the queue of analyses
    run,        \* run[w]: what worker w does
    quotes,     \* quotes made
    orders,     \* orders placed today
    task,       \* task[c]: the request or the answer on connection c
    faults      \* failures so far

docVars == <<status, session, counted>>
jobVars == <<analysis, run>>
orderVars == <<quotes, orders>>
intakeVars == <<docVars, jobVars, orderVars, task, faults>>

NoTask == [step |-> "idle", heard |-> TRUE, ok |-> TRUE, latest |-> TRUE,
           session |-> 0, doc |-> NoDoc, no |-> 0, items |-> <<>>]
NoRun == [step |-> "idle", doc |-> NoDoc, seen |-> "NONE"]
NoJob == [state |-> "none", made |-> 0, stalls |-> 0, lock |-> 0]

IntakeInit ==
    /\ status = [d \in Doc |-> "NONE"]
    /\ session = [d \in Doc |-> 0]
    /\ counted = {}
    /\ analysis = [d \in Doc |-> NoJob]
    /\ run = [w \in Worker |-> NoRun]
    /\ quotes = <<>> /\ orders = <<>>
    /\ task = [c \in Conn |-> NoTask]
    /\ faults = 0
-----------------------------------------------------------------------------
Go(c, step) == task' = [task EXCEPT ![c].step = step]

\* The end of a request: its answer, or nothing if nobody waits for it.
Reply(c, answer) == task' = [task EXCEPT ![c] = IF @.heard THEN answer ELSE NoTask]
Answer(c, name) == Reply(c, [task[c] EXCEPT !.step = name])
Refuse(c, name) == Reply(c, [task[c] EXCEPT !.step = name, !.ok = FALSE])

\* What assertCustomerCanOrder counts: every order of the day, no code cancels one.
\* It also refuses if the subscription, the switch or the opening hours do not let
\* the shop take orders, which can be so at any time.
Available == Len(orders) < OrderLimit

UploadGate(c) ==
    /\ task[c].step = "upload"
    /\ \/ Available /\ Go(c, "store")
       \/ Refuse(c, "uploaded")
    /\ UNCHANGED <<docVars, jobVars, orderVars, faults>>

\* A request without a session gets a new one.
StoreDocument(c) ==
    /\ task[c].step = "store"
    /\ LET d == task[c].doc
           s == IF task[c].session # 0 THEN task[c].session
                ELSE 1 + Cardinality({session[e] : e \in Doc} \ {0})
       IN  /\ status' = [status EXCEPT ![d] = "UPLOADED"]
           /\ session' = [session EXCEPT ![d] = s]
           /\ task' = [task EXCEPT ![c].step = "enqueue", ![c].session = s]
    /\ UNCHANGED <<counted, jobVars, orderVars, faults>>

Enqueue(c) ==
    /\ task[c].step = "enqueue"
    /\ analysis' = [analysis EXCEPT ![task[c].doc].state = "waiting"]
    /\ Answer(c, "uploaded")
    /\ UNCHANGED <<docVars, run, orderVars, faults>>

\* listForSession, as the customer polls it: the documents with their statuses.
ListDocuments(c) ==
    /\ task[c].step = "list"
    /\ LET listed == {d \in Doc : session[d] = task[c].session}
       IN  Reply(c, [task[c] EXCEPT !.step = "listed", !.items = [d \in listed |-> status[d]]])
    /\ UNCHANGED <<docVars, jobVars, orderVars, faults>>

ReadStatus(c) ==
    /\ task[c].step = "status"
    /\ Answer(c, orders[task[c].no].status)
    /\ UNCHANGED <<docVars, jobVars, orderVars, faults>>
-----------------------------------------------------------------------------
\* "already has an active print job": no order that has not failed or ended.
Active(d) ==
    \E n \in DOMAIN orders :
        d \in DOMAIN quotes[orders[n].quote].items /\ orders[n].status \notin {"PRINT_FAILED", "DELETED"}

Quotable(c, d) ==
    /\ session[d] = task[c].session
    /\ status[d] \notin {"DELETED", "ANALYSIS_FAILED"}
    /\ d \in counted
    /\ ~Active(d)

\* createQuote, in two steps: its guards, then the row.
QuoteCheck(c) ==
    /\ task[c].step = "quote"
    /\ IF \A d \in DOMAIN task[c].items : Quotable(c, d) THEN Go(c, "make") ELSE Refuse(c, "quoted")
    /\ UNCHANGED <<docVars, jobVars, orderVars, faults>>

MakeQuote(c) ==
    /\ task[c].step = "make"
    /\ Len(quotes) < MaxQuotes
    /\ quotes' = Append(quotes, [items |-> task[c].items, session |-> task[c].session, used |-> FALSE])
    /\ Reply(c, [task[c] EXCEPT !.step = "quoted", !.no = Len(quotes) + 1, !.items = <<>>])
    /\ UNCHANGED <<docVars, jobVars, orders, faults>>

\* confirmFromQuote: the quote, which may have expired, the shop, the transaction,
\* the transition.
ConfirmCheck(c) ==
    /\ task[c].step = "confirm"
    /\ LET q == quotes[task[c].no]
       IN  \/ q.session = task[c].session /\ ~q.used /\ Go(c, "admit")
           \/ Refuse(c, "confirmed")
    /\ UNCHANGED <<docVars, jobVars, orderVars, faults>>

Admit(c) ==
    /\ task[c].step = "admit"
    /\ \/ Available /\ Go(c, "order")
       \/ Refuse(c, "confirmed")
    /\ UNCHANGED <<docVars, jobVars, orderVars, faults>>

\* Mutant of Taken: nothing makes the quote of an order unique.
TakenNever(n) == n \notin DOMAIN quotes

\* quoteId and idempotencyKey are unique.
Taken(n) == \E m \in DOMAIN orders : orders[m].quote = n

\* The documents become PRINT_ELIGIBLE whatever they were.
CreateOrder(c) ==
    /\ task[c].step = "order"
    /\ LET n == task[c].no
       IN  IF Taken(n)
           THEN Refuse(c, "confirmed") /\ UNCHANGED <<quotes, orders, status>>
           ELSE /\ orders' = Append(orders, [quote |-> n, status |-> "CREATED"])
                /\ quotes' = [quotes EXCEPT ![n].used = TRUE]
                /\ status' = [d \in Doc |-> IF d \in DOMAIN quotes[n].items
                                            THEN "PRINT_ELIGIBLE" ELSE status[d]]
                /\ task' = [task EXCEPT ![c].step = "eligible", ![c].no = Len(orders) + 1]
    /\ UNCHANGED <<session, counted, jobVars, faults>>

MakeEligible(c) ==
    /\ task[c].step = "eligible"
    /\ orders' = [orders EXCEPT ![task[c].no].status = "PRINT_ELIGIBLE"]
    /\ Answer(c, "confirmed")
    /\ UNCHANGED <<docVars, jobVars, quotes, faults>>

\* The request dies: a store does not answer, or the process stops.
RequestFails(c) ==
    /\ task[c].step \in {"store", "enqueue", "make", "admit", "order", "eligible"}
    /\ faults < MaxFaults
    /\ faults' = faults + 1
    /\ Refuse(c, CASE task[c].step \in {"store", "enqueue"} -> "uploaded"
                   [] task[c].step = "make" -> "quoted"
                   [] OTHER -> "confirmed")
    /\ UNCHANGED <<docVars, jobVars, orderVars>>

Handle(c) ==
    \/ UploadGate(c) \/ StoreDocument(c) \/ Enqueue(c) \/ ListDocuments(c) \/ ReadStatus(c)
    \/ QuoteCheck(c) \/ MakeQuote(c)
    \/ ConfirmCheck(c) \/ Admit(c) \/ CreateOrder(c) \/ MakeEligible(c)
-----------------------------------------------------------------------------
(***************************************************************************)
(* The analysis.  The queue gives a job to one worker and locks it; a job  *)
(* whose lock is not renewed is given to another one although the first    *)
(* may still be working, and what that one reports is not counted.         *)
(***************************************************************************)
\* Mutant of Transition: the update's condition is the id only.
TransitionAnyway(d, from, to) == status' = [status EXCEPT ![d] = to]

\* DocumentsRepository.transition; it throws if the document is in another status.
Transition(d, from, to) == status[d] = from /\ status' = [status EXCEPT ![d] = to]

Take(w, d) ==
    /\ run[w] = NoRun
    /\ analysis[d].state = "waiting"
    /\ analysis' = [analysis EXCEPT ![d].state = "active", ![d].lock = w]
    /\ run' = [run EXCEPT ![w] = [step |-> "read", doc |-> d, seen |-> "NONE"]]
    /\ UNCHANGED <<docVars, orderVars, task, faults>>

\* Worker w is done with the document; attempts count as long as it has the lock.
Ends(w, state, made) ==
    LET d == run[w].doc IN
    /\ run' = [run EXCEPT ![w] = NoRun]
    /\ analysis' = IF analysis[d].state = "active" /\ analysis[d].lock = w
                   THEN [analysis EXCEPT ![d] = [@ EXCEPT !.state = state, !.made = made,
                                                 !.lock = IF state = "failed" THEN w ELSE 0]]
                   ELSE analysis

Completes(w) == Ends(w, "over", 0)

\* Mutant of AttemptFails: after the last attempt nobody is told.
AttemptFailsQuietly(w) ==
    LET made == analysis[run[w].doc].made + 1 IN
    Ends(w, IF made < Attempts THEN "waiting" ELSE "over", made)

\* process throws: the job waits for its next attempt, or has failed.
AttemptFails(w) ==
    LET made == analysis[run[w].doc].made + 1 IN
    Ends(w, IF made < Attempts THEN "waiting" ELSE "failed", made)

ReadDocument(w) ==
    /\ run[w].step = "read"
    /\ LET s == status[run[w].doc] IN
       IF s \in {"UPLOADED", "ANALYSIS_FAILED", "PROCESSING"}
       THEN run' = [run EXCEPT ![w].step = IF s = "PROCESSING" THEN "analyze" ELSE "start",
                               ![w].seen = s] /\ UNCHANGED analysis
       ELSE Completes(w)
    /\ UNCHANGED <<docVars, orderVars, task, faults>>

StartProcessing(w) ==
    /\ run[w].step = "start"
    /\ \/ /\ Transition(run[w].doc, run[w].seen, "PROCESSING")
          /\ run' = [run EXCEPT ![w].step = "analyze"] /\ UNCHANGED analysis
       \/ status[run[w].doc] # run[w].seen /\ AttemptFails(w) /\ UNCHANGED status
    /\ UNCHANGED <<session, counted, orderVars, task, faults>>

\* The service has counted the pages; the document may be PROCESSED by now.
StoreResult(w) ==
    /\ run[w].step = "analyze"
    /\ LET d == run[w].doc IN
       \/ Transition(d, "PROCESSING", "PROCESSED") /\ counted' = counted \cup {d} /\ Completes(w)
       \/ status[d] # "PROCESSING" /\ AttemptFails(w) /\ UNCHANGED <<status, counted>>
    /\ UNCHANGED <<session, orderVars, task, faults>>

\* The service does not answer, or the file cannot be read.
NoResult(w) ==
    /\ run[w].step = "analyze"
    /\ AttemptFails(w)
    /\ UNCHANGED <<docVars, orderVars, task, faults>>

\* onFailed reads the document, and later marks it unless that throws.
OnFailed(d) ==
    /\ analysis[d].state = "failed"
    /\ analysis' = [analysis EXCEPT ![d] =
           IF status[d] = "PROCESSING" THEN [@ EXCEPT !.state = "mark"]
           ELSE [@ EXCEPT !.state = "over", !.lock = 0]]
    /\ UNCHANGED <<docVars, run, orderVars, task, faults>>

MarkFailed(d) ==
    /\ analysis[d].state = "mark"
    /\ \/ Transition(d, "PROCESSING", "ANALYSIS_FAILED")
       \/ status[d] # "PROCESSING" /\ UNCHANGED status
    /\ analysis' = [analysis EXCEPT ![d].state = "over", ![d].lock = 0]
    /\ UNCHANGED <<session, counted, run, orderVars, task, faults>>

\* maxStalledCount of the queue's workers, which nothing sets: the default.
MaxStalls == 1

\* The queue finds a job without its lock: it gives the job to another worker, and
\* gives it up if that has happened before.  onFailed is told so, but leaves a job
\* alone that has attempts left.
Stalled(a) == [a EXCEPT !.state = IF a.stalls < MaxStalls THEN "waiting" ELSE "lost",
                        !.stalls = IF a.stalls < MaxStalls THEN a.stalls + 1 ELSE a.stalls,
                        !.lock = 0]

\* The lock of a job is lost: its worker is slow, and does not know.
Stalls(d) ==
    /\ analysis[d].state = "active"
    /\ faults < MaxFaults
    /\ faults' = faults + 1
    /\ analysis' = [analysis EXCEPT ![d] = Stalled(@)]
    /\ UNCHANGED <<docVars, run, orderVars, task>>

\* A worker stops: the queue gives its job to another one, but what it had to
\* mark as failed is not marked.
WorkerStops(w) ==
    /\ \E d \in Doc : analysis[d].lock = w
    /\ faults < MaxFaults
    /\ faults' = faults + 1
    /\ run' = [run EXCEPT ![w] = NoRun]
    /\ analysis' = [d \in Doc |->
           IF analysis[d].lock # w THEN analysis[d]
           ELSE IF analysis[d].state = "active" THEN Stalled(analysis[d])
           ELSE [analysis[d] EXCEPT !.state = "lost", !.lock = 0]]
    /\ UNCHANGED <<docVars, orderVars, task>>

WorkerStep(w) ==
    \/ \E d \in Doc : Take(w, d)
    \/ ReadDocument(w) \/ StartProcessing(w) \/ StoreResult(w) \/ NoResult(w)
-----------------------------------------------------------------------------
\* The order is printed, or fails, and then it is swept.
Printed(n) ==
    /\ orders[n].status \in {"PRINT_ELIGIBLE", "PRINT_FAILED"}
    /\ orders' = [orders EXCEPT ![n].status = "RETENTION_PENDING"]
    /\ UNCHANGED <<docVars, jobVars, quotes, task, faults>>

PrintFails(n) ==
    /\ orders[n].status = "PRINT_ELIGIBLE"
    /\ orders' = [orders EXCEPT ![n].status = "PRINT_FAILED"]
    /\ UNCHANGED <<docVars, jobVars, quotes, task, faults>>

Sweep(n) ==
    /\ orders[n].status = "RETENTION_PENDING"
    /\ orders' = [orders EXCEPT ![n].status = "DELETED"]
    /\ status' = [d \in Doc |-> IF d \in DOMAIN quotes[orders[n].quote].items
                                THEN "DELETED" ELSE status[d]]
    /\ UNCHANGED <<session, counted, jobVars, quotes, task, faults>>

Backend ==
    \/ \E c \in Conn : Handle(c) \/ RequestFails(c)
    \/ \E w \in Worker : WorkerStep(w) \/ WorkerStops(w)
    \/ \E d \in Doc : OnFailed(d) \/ MarkFailed(d) \/ Stalls(d)
    \/ \E n \in DOMAIN orders : Printed(n) \/ PrintFails(n) \/ Sweep(n)
-----------------------------------------------------------------------------
(***************************************************************************)
(* Properties.                                                             *)
(***************************************************************************)
\* "This order was already sent": a quote becomes one order at most, however
\* confirmations of it interleave, and an order is of a quote that was used.
OneOrderPerQuote ==
    /\ \A m, n \in DOMAIN orders : orders[m].quote = orders[n].quote => m = n
    /\ \A n \in DOMAIN orders : quotes[orders[n].quote].used

\* "a duplicate/racing worker attempt can never silently double-apply a result":
\* an ordered document has its pages counted, and no late attempt, retry or
\* failure takes it back to an earlier status.
OrderedStaysOrdered ==
    \A n \in DOMAIN orders : \A d \in DOMAIN quotes[orders[n].quote].items :
        d \in counted /\ status[d] \in {"PRINT_ELIGIBLE", "DELETED"}

\* A document that waits for its analysis is not left "still being checked": it
\* ends PROCESSED or ANALYSIS_FAILED, unless its job is lost: its worker stops
\* between the last attempt and the mark, or the queue gives the job up.
AnalysisEnds ==
    \A d \in Doc :
        analysis[d].state = "waiting" ~>
            \/ status[d] \notin {"UPLOADED", "PROCESSING"}
            \/ analysis[d].state = "lost"
=============================================================================
