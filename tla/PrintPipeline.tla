---------------------------- MODULE PrintPipeline ----------------------------
(***************************************************************************)
(* The path of an order from the customer's confirm to the erasure of its  *)
(* documents: the backend's request handlers, cron jobs and queue worker,  *)
(* the link to the print agent, and the agent itself.                      *)
(*                                                                         *)
(* Every backend operation runs in a slot, one database step at a time: it *)
(* reads the job, and later writes with a compare-and-swap on the status   *)
(* it has read (PrintJobsRepository.transition).  Whatever happens between *)
(* two steps of one slot is an interleaving the server allows.             *)
(*                                                                         *)
(* Pure I/O (signing URLs, building payloads, notifications) is left out,  *)
(* except that each can throw: HandlerFails.                               *)
(***************************************************************************)
EXTENDS PrintJobStates, Naturals, FiniteSets

CONSTANTS
    Job,            \* print jobs
    Doc,            \* documents
    Docs,           \* Docs[j]: the documents of j; orders may share some of them
    Printer,        \* the shop's printers, one agent each
    Slot,           \* requests the backend has in progress at the same time
    NoPrinter,      \* PrintJob.printerId is null
    MaxAttempts,    \* bound: times PRINT is accepted for one job
    DispatchTries,  \* 'attempts' option of a dispatch queue entry (5 in the code)
    ReportTries,    \* tries of reportWithRetry (3 in the code)
    MaxPolls,       \* bound: polled payloads on their way to agents at the same time
    MaxNet,         \* bound: status reports on the wire at the same time
    MaxClosing,     \* bound: dead sockets of one agent the server has not noticed
    MaxFaults       \* bound: crashes, restarts, failing steps, removed printers

ASSUME PipelineAssumption ==
    /\ Docs \in [Job -> SUBSET Doc]
    /\ NoPrinter \notin Printer
    /\ MaxAttempts \in Nat
    /\ DispatchTries \in Nat \ {0}
    /\ ReportTries \in Nat \ {0}
    /\ MaxPolls \in Nat
    /\ MaxNet \in Nat
    /\ MaxClosing \in Nat
    /\ MaxFaults \in Nat

VARIABLES
    status,         \* status[j]: PrintJob.status
    attempt,        \* attempt[j]: PrintJob.attemptCount
    target,         \* target[j]: PrintJob.printerId
    stored,         \* documents whose object is still in storage
    deleted,        \* documents whose row has status DELETED
    queue,          \* the dispatch queue (Redis: survives a crash)
    task,           \* task[s]: what request slot s does next
    registry,       \* printers AgentConnectionRegistry holds a socket for
    linkUp,         \* printers whose agent believes its socket is connected
    closing,        \* closing[p]: dead sockets whose handleDisconnect is due
    removed,        \* printers with status REMOVED
    inbox,          \* payloads on their way to an agent
    net,            \* status reports on their way to the backend
    work,           \* work[p][j]: what the agent of p does about j
    evidence,       \* evidence[j]: who saw j printed (history, not in the code)
    faults          \* faults so far

docVars   == <<stored, deleted>>
dbVars    == <<status, attempt, target, stored, deleted>>
linkVars  == <<registry, linkUp, closing, removed>>
agentVars == <<inbox, net, work>>
vars == <<status, attempt, target, stored, deleted, queue, task, registry, linkUp,
          closing, removed, inbox, net, work, evidence, faults>>
-----------------------------------------------------------------------------
Attempts == 0..MaxAttempts
Kinds    == {"ACCEPTED", "PRINTING", "PRINTED", "PRINT_FAILED", "PRINT_UNKNOWN"}

\* A dispatch queue entry.  Its data is the job alone: whoever takes it serves the
\* attempt the row is at by then.  id is the queue's own name for the entry.
Entry   == [job : Job, id : Attempts, left : 1..DispatchTries]
Payload == [printer : Printer, job : Job, no : Attempts, via : {"push", "poll"}]
Report  == [printer : Printer, job : Job, kind : Kinds, no : Attempts,
            try : 0..(ReportTries + 1)]

\* What the agent does about a job, and the state of its HTTP call.
Stages == {"idle", "accept", "start", "print", "printed", "failed", "unknown"}
Work   == [stage : Stages, no : Attempts, call : {"none", "sent", "ok"},
           left : 0..(ReportTries + 1)]
NoWork == [stage |-> "idle", no |-> 0, call |-> "none", left |-> 0]

\* Statuses triggerPrint starts from, and those a poll hands out.
Triggerable == {"PRINT_ELIGIBLE", "AGENT_OFFLINE", "PRINT_FAILED"}
Pollable    == {"QUEUED", "AGENT_OFFLINE"}

\* The next step of a request: its name, and what the request remembers.
Idle == [op |-> "idle"]
Task == [op : {"idle"}]
   \cup [op : {"confirm", "press", "finish"}, job : Job]
   \cup [op : {"queue"}, job : Job, seen : Triggerable, printer : Printer]
   \cup [op : {"enqueue"}, job : Job, id : Attempts]
   \cup [op : {"offline"}, entry : Entry]
   \cup [op : {"push"}, entry : Entry, printer : Printer, no : Attempts]
   \cup [op : {"report", "chain"}, msg : Report, seen : JobStatuses]
   \cup [op : {"erase"}, job : Job, rest : SUBSET Doc, failed : BOOLEAN]

Init ==
    /\ status = [j \in Job |-> "NONE"]
    /\ attempt = [j \in Job |-> 0]
    /\ target = [j \in Job |-> NoPrinter]
    /\ stored = Doc
    /\ deleted = {}
    /\ queue = {}
    /\ task = [s \in Slot |-> Idle]
    /\ registry = {}
    /\ linkUp = {}
    /\ closing = [p \in Printer |-> 0]
    /\ removed = {}
    /\ inbox = {}
    /\ net = {}
    /\ work = [p \in Printer |-> [j \in Job |-> NoWork]]
    /\ evidence = [j \in Job |-> {}]
    /\ faults = 0
-----------------------------------------------------------------------------
\* Mutant of Swaps: the table is consulted, the row is not compared.
SwapsUnchecked(j, from, to) == CanTransition(from, to)

\* PrintJobsRepository.transition as a guard: it throws unless the step is
\* legal and the row still has the status it is expected to have.
Swaps(j, from, to) == CanTransition(from, to) /\ status[j] = from

\* The write of a transition that succeeds.
Becomes(j, to) == status' = [status EXCEPT ![j] = to]

\* Slot s goes on with t; Done(s): the request is over.
Goes(s, t) == task' = [task EXCEPT ![s] = t]
Done(s)    == Goes(s, Idle)

\* Something goes wrong.
Fault == faults < MaxFaults /\ faults' = faults + 1

\* A request for slot s arrives and will go on with t.
Begins(s, t) == task[s] = Idle /\ Goes(s, t)

(* -------- the customer confirms a quote: confirmFromQuote -------------- *)

\* One transaction creates the job with status CREATED and makes its documents
\* PRINT_ELIGIBLE, whatever they were.  That no other order is active on them was
\* checked when the quote was taken, and two quotes can be taken before either is
\* confirmed: nothing is checked here.
ConfirmCreate(s, j) ==
    /\ status[j] = "NONE"
    /\ Begins(s, [op |-> "confirm", job |-> j])
    /\ Becomes(j, "CREATED")
    /\ deleted' = deleted \ Docs[j]
    /\ UNCHANGED <<attempt, target, stored, queue, linkVars, agentVars, evidence, faults>>

\* Then CREATED -> PRINT_ELIGIBLE; a shop with autoAcceptOrders presses PRINT.
ConfirmEligible(s) ==
    /\ task[s].op = "confirm"
    /\ LET j == task[s].job IN
       IF Swaps(j, "CREATED", "PRINT_ELIGIBLE")
       THEN /\ Becomes(j, "PRINT_ELIGIBLE")
            /\ Done(s) \/ Goes(s, [op |-> "press", job |-> j])
       ELSE Done(s) /\ UNCHANGED status
    /\ UNCHANGED <<attempt, target, docVars, queue, linkVars, agentVars, evidence, faults>>

(* -------- PRINT: triggerPrint ------------------------------------------ *)

\* Printers the attempt may go to: the previous one unless it was removed,
\* else whichever resolveShopPrinter picks (default or oldest).
Candidates(j) ==
    IF target[j] \in Printer \ removed THEN {target[j]} ELSE Printer \ removed

\* The job and the printer are read; a status that is not Triggerable, or no
\* printer at all, ends the request.
TriggerRead(s, j) ==
    /\ status[j] \in Triggerable
    /\ \E p \in Candidates(j) :
          LET t == [op |-> "queue", job |-> j, seen |-> status[j], printer |-> p]
          IN Begins(s, t) \/ (task[s] = [op |-> "press", job |-> j] /\ Goes(s, t))
    /\ UNCHANGED <<dbVars, queue, linkVars, agentVars, evidence, faults>>

\* An automatic PRINT that cannot start is swallowed.
TriggerGivesUp(s) ==
    /\ task[s].op = "press"
    /\ status[task[s].job] \notin Triggerable \/ Candidates(task[s].job) = {}
    /\ Done(s)
    /\ UNCHANGED <<dbVars, queue, linkVars, agentVars, evidence, faults>>

\* Mutant of TriggerQueue: the attempt counter is not incremented.
TriggerQueueSameAttempt(s) ==
    /\ task[s].op = "queue"
    /\ LET t == task[s]
           j == t.job IN
       IF Swaps(j, t.seen, "QUEUED") /\ attempt[j] < MaxAttempts
       THEN /\ Becomes(j, "QUEUED")
            /\ target' = [target EXCEPT ![j] = t.printer]
            /\ Goes(s, [op |-> "enqueue", job |-> j, id |-> attempt[j]])
       ELSE Done(s) /\ UNCHANGED <<status, target>>
    /\ UNCHANGED <<attempt, docVars, queue, linkVars, agentVars, evidence, faults>>

\* Compare-and-swap to QUEUED; the loser of a double click gets an error.
TriggerQueue(s) ==
    /\ task[s].op = "queue"
    /\ LET t == task[s]
           j == t.job IN
       IF Swaps(j, t.seen, "QUEUED") /\ attempt[j] < MaxAttempts
       THEN /\ Becomes(j, "QUEUED")
            /\ attempt' = [attempt EXCEPT ![j] = @ + 1]
            /\ target' = [target EXCEPT ![j] = t.printer]
            /\ Goes(s, [op |-> "enqueue", job |-> j, id |-> attempt[j] + 1])
       ELSE Done(s) /\ UNCHANGED <<status, attempt, target>>
    /\ UNCHANGED <<docVars, queue, linkVars, agentVars, evidence, faults>>

\* dispatchQueue.add.
TriggerEnqueue(s) ==
    /\ task[s].op = "enqueue"
    /\ queue' = queue \cup {[job |-> task[s].job, id |-> task[s].id,
                             left |-> DispatchTries]}
    /\ Done(s)
    /\ UNCHANGED <<dbVars, linkVars, agentVars, evidence, faults>>

(* -------- the queue worker: dispatchToAgent ---------------------------- *)

Dispatching == \E s \in Slot : task[s].op \in {"offline", "push"}

\* Mutant of Retried: the last try is counted down too.
RetriedOnceMore(e) == (queue \ {e}) \cup {[e EXCEPT !.left = @ - 1]}

\* An entry whose dispatch threw is retried until its tries are used up.
Retried(e) ==
    (queue \ {e}) \cup (IF e.left > 1 THEN {[e EXCEPT !.left = @ - 1]} ELSE {})

\* Mutant of DispatchRead: an entry found obsolete is not completed.
DispatchReadKeeps(s, e) ==
    /\ ~Dispatching
    /\ LET j == e.job IN
       /\ status[j] = "QUEUED"
       /\ Begins(s, IF target[j] \in registry
                    THEN [op |-> "push", entry |-> e, printer |-> target[j], no |-> attempt[j]]
                    ELSE [op |-> "offline", entry |-> e])
    /\ UNCHANGED <<dbVars, queue, linkVars, agentVars, evidence, faults>>

\* The worker takes one entry at a time; an entry whose job is not QUEUED is
\* complete, one whose row is gone throws.  The read decides between pushing and
\* AGENT_OFFLINE.
DispatchRead(s, e) ==
    /\ ~Dispatching
    /\ LET j == e.job IN
       \/ /\ status[j] # "QUEUED"
          /\ queue' = IF status[j] \in NoRow THEN Retried(e) ELSE queue \ {e}
          /\ UNCHANGED task
       \/ /\ status[j] = "QUEUED"
          /\ target[j] \in registry
          /\ Begins(s, [op |-> "push", entry |-> e, printer |-> target[j],
                        no |-> attempt[j]])
          /\ UNCHANGED queue
       \/ /\ status[j] = "QUEUED"
          /\ target[j] \notin registry
          /\ Begins(s, [op |-> "offline", entry |-> e])
          /\ UNCHANGED queue
    /\ UNCHANGED <<dbVars, linkVars, agentVars, evidence, faults>>

\* No agent: QUEUED -> AGENT_OFFLINE, then throw, whether or not the swap won.
DispatchOffline(s) ==
    /\ task[s].op = "offline"
    /\ LET e == task[s].entry IN
       /\ queue' = Retried(e)
       /\ IF Swaps(e.job, "QUEUED", "AGENT_OFFLINE")
          THEN Becomes(e.job, "AGENT_OFFLINE") ELSE UNCHANGED status
    /\ Done(s)
    /\ UNCHANGED <<attempt, target, docVars, linkVars, agentVars, evidence, faults>>

\* pushJob: emitted on the registered socket, lost if that socket is dead.
DispatchPush(s) ==
    /\ task[s].op = "push"
    /\ LET t == task[s]
           m == [printer |-> t.printer, job |-> t.entry.job, no |-> t.no, via |-> "push"] IN
       /\ queue' = queue \ {t.entry}
       /\ inbox' = IF t.printer \in registry \cap linkUp THEN inbox \cup {m} ELSE inbox
    /\ Done(s)
    /\ UNCHANGED <<dbVars, linkVars, net, work, evidence, faults>>

(* -------- the agent's report: reportAgentStatus ------------------------ *)

ReportedStatus(kind) == IF kind = "ACCEPTED" THEN "PRINTING" ELSE kind

StageKind(stage) ==
    CASE stage = "accept"  -> "ACCEPTED"
      [] stage = "start"   -> "PRINTING"
      [] stage = "printed" -> "PRINTED"
      [] stage = "failed"  -> "PRINT_FAILED"
      [] stage = "unknown" -> "PRINT_UNKNOWN"
      [] OTHER             -> "none"

\* Report m is answered with success, heard only if the agent still waits for
\* it.  A refusal needs no step: to the agent it is one more way to fail.
Answer(m) ==
    LET w == work[m.printer][m.job] IN
    work' = IF /\ w.call = "sent"
               /\ w.no = m.no
               /\ w.left = m.try
               /\ StageKind(w.stage) = m.kind
            THEN [work EXCEPT ![m.printer][m.job].call = "ok"]
            ELSE work

\* The credential and the job are checked; a removed printer or one that the
\* job is not assigned to is refused.
ReportRead(s, m) ==
    /\ net' = net \ {m}
    /\ IF m.printer \notin removed /\ target[m.job] = m.printer /\ status[m.job] \notin NoRow
       THEN /\ Begins(s, [op |-> "report", msg |-> m, seen |-> status[m.job]])
       ELSE UNCHANGED task
    /\ UNCHANGED <<dbVars, queue, linkVars, inbox, work, evidence, faults>>

\* Progress on an AGENT_OFFLINE job first takes it back to QUEUED.
ReportPickup(s) ==
    /\ task[s].op = "report"
    /\ task[s].seen = "AGENT_OFFLINE"
    /\ task[s].msg.kind # "PRINT_FAILED"
    /\ LET m == task[s].msg IN
       IF Swaps(m.job, "AGENT_OFFLINE", "QUEUED")
       THEN /\ Becomes(m.job, "QUEUED")
            /\ Goes(s, [task[s] EXCEPT !.seen = "QUEUED"])
       ELSE Done(s) /\ UNCHANGED status
    /\ UNCHANGED <<attempt, target, docVars, queue, linkVars, agentVars, evidence, faults>>

\* Mutant of ReportApply: the agent is answered before the second transition.
ReportApplyAnswersEarly(s) ==
    /\ task[s].op = "report"
    /\ task[s].seen # "AGENT_OFFLINE" \/ task[s].msg.kind = "PRINT_FAILED"
    /\ LET m  == task[s].msg
           to == ReportedStatus(m.kind) IN
       IF task[s].seen = to \/ Swaps(m.job, task[s].seen, to)
       THEN /\ IF task[s].seen = to THEN UNCHANGED status ELSE Becomes(m.job, to)
            /\ IF to = "PRINTED" THEN Goes(s, [task[s] EXCEPT !.op = "chain"]) ELSE Done(s)
            /\ Answer(m)
       ELSE Done(s) /\ UNCHANGED <<status, work>>
    /\ UNCHANGED <<attempt, target, docVars, queue, linkVars, inbox, net, evidence, faults>>

\* The reported status is applied, once: a repeated one changes nothing.  A
\* printed job goes on to the second transition.
ReportApply(s) ==
    /\ task[s].op = "report"
    /\ task[s].seen # "AGENT_OFFLINE" \/ task[s].msg.kind = "PRINT_FAILED"
    /\ LET m  == task[s].msg
           to == ReportedStatus(m.kind) IN
       IF task[s].seen = to \/ Swaps(m.job, task[s].seen, to)
       THEN /\ IF task[s].seen = to THEN UNCHANGED status ELSE Becomes(m.job, to)
            /\ IF to = "PRINTED"
               THEN Goes(s, [task[s] EXCEPT !.op = "chain"]) /\ UNCHANGED work
               ELSE Done(s) /\ Answer(m)
       ELSE Done(s) /\ UNCHANGED <<status, work>>
    /\ UNCHANGED <<attempt, target, docVars, queue, linkVars, inbox, net, evidence, faults>>

\* PRINTED -> RETENTION_PENDING, the end of a PRINTED report.
ReportChain(s) ==
    /\ task[s].op = "chain"
    /\ LET m == task[s].msg IN
       IF Swaps(m.job, "PRINTED", "RETENTION_PENDING")
       THEN Becomes(m.job, "RETENTION_PENDING") /\ Answer(m)
       ELSE UNCHANGED <<status, work>>
    /\ Done(s)
    /\ UNCHANGED <<attempt, target, docVars, queue, linkVars, inbox, net, evidence, faults>>

(* -------- the shop settles an uncertain job: reconcile ----------------- *)

\* The job is read and swapped away from PRINT_UNKNOWN; a read that is stale
\* by then loses the swap, so both are one step.
Reconcile(s, j, to) ==
    /\ Swaps(j, "PRINT_UNKNOWN", to)
    /\ task[s] = Idle
    /\ Becomes(j, to)
    /\ IF to = "PRINTED"
       THEN /\ evidence' = [evidence EXCEPT ![j] = @ \cup {"shop"}]
            /\ Goes(s, [op |-> "finish", job |-> j])
       ELSE UNCHANGED <<task, evidence>>
    /\ UNCHANGED <<attempt, target, docVars, queue, linkVars, agentVars, faults>>

ReconcileFinish(s) ==
    /\ task[s].op = "finish"
    /\ IF Swaps(task[s].job, "PRINTED", "RETENTION_PENDING")
       THEN Becomes(task[s].job, "RETENTION_PENDING") ELSE UNCHANGED status
    /\ Done(s)
    /\ UNCHANGED <<attempt, target, docVars, queue, linkVars, agentVars, evidence, faults>>

(* -------- cron jobs: flagStalePrinting and the retention sweep --------- *)

\* Mutant of FlagStalePrinting: jobs whose agent is connected are left alone.
FlagStaleOffline(j) ==
    /\ Swaps(j, "PRINTING", "PRINT_UNKNOWN")
    /\ target[j] \notin registry
    /\ Becomes(j, "PRINT_UNKNOWN")
    /\ UNCHANGED <<attempt, target, docVars, queue, task, linkVars, agentVars, evidence, faults>>

\* A job has been PRINTING for long; time is not modelled, so any may have.
\* Read and swap are one step for the reason given at Reconcile.
FlagStalePrinting(j) ==
    /\ Swaps(j, "PRINTING", "PRINT_UNKNOWN")
    /\ Becomes(j, "PRINT_UNKNOWN")
    /\ UNCHANGED <<attempt, target, docVars, queue, task, linkVars, agentVars, evidence, faults>>

\* Mutant of SweepRead: an order with a document already gone is passed over.
SweepReadWhole(s, j) ==
    /\ status[j] = "RETENTION_PENDING"
    /\ Docs[j] \cap deleted = {}
    /\ Begins(s, [op |-> "erase", job |-> j, rest |-> Docs[j], failed |-> FALSE])
    /\ UNCHANGED <<dbVars, queue, linkVars, agentVars, evidence, faults>>

\* The sweep reads a job and those of its documents that are not DELETED.
SweepRead(s, j) ==
    /\ status[j] = "RETENTION_PENDING"
    /\ Begins(s, [op |-> "erase", job |-> j, rest |-> Docs[j] \ deleted, failed |-> FALSE])
    /\ UNCHANGED <<dbVars, queue, linkVars, agentVars, evidence, faults>>

\* One object is deleted (a missing one is no error), whichever orders share the
\* document, and its row is marked.  A storage error leaves both for a later sweep;
\* if the mark cannot be written, the object is gone and the sweep is over.
SweepErase(s, d) ==
    LET left == task[s].rest \ {d} IN
    /\ task[s].op = "erase"
    /\ d \in task[s].rest
    /\ \/ /\ stored' = stored \ {d}
          /\ deleted' = deleted \cup {d}
          /\ Goes(s, [task[s] EXCEPT !.rest = left])
          /\ UNCHANGED faults
       \/ /\ Fault
          /\ Goes(s, [task[s] EXCEPT !.rest = left, !.failed = TRUE])
          /\ UNCHANGED docVars
       \/ /\ Fault
          /\ stored' = stored \ {d}
          /\ Done(s)
          /\ UNCHANGED deleted
    /\ UNCHANGED <<status, attempt, target, queue, linkVars, agentVars, evidence>>

\* Mutant of SweepClose: failed deletions are not held against it.
SweepCloseAnyway(s) ==
    /\ task[s].op = "erase"
    /\ task[s].rest = {}
    /\ IF Swaps(task[s].job, "RETENTION_PENDING", "DELETED")
       THEN Becomes(task[s].job, "DELETED") ELSE UNCHANGED status
    /\ Done(s)
    /\ UNCHANGED <<attempt, target, docVars, queue, linkVars, agentVars, evidence, faults>>

\* Only a sweep that deleted everything closes the job.
SweepClose(s) ==
    /\ task[s].op = "erase"
    /\ task[s].rest = {}
    /\ IF ~task[s].failed /\ Swaps(task[s].job, "RETENTION_PENDING", "DELETED")
       THEN Becomes(task[s].job, "DELETED") ELSE UNCHANGED status
    /\ Done(s)
    /\ UNCHANGED <<attempt, target, docVars, queue, linkVars, agentVars, evidence, faults>>

\* Mutant of ClearHistory: failed orders count as closed.
ClearHistoryOfFailed ==
    /\ \E j \in Job : status[j] \in {"DELETED", "PRINT_FAILED"}
    /\ status' = [j \in Job |->
                    IF status[j] \in {"DELETED", "PRINT_FAILED"} THEN "CLEARED" ELSE status[j]]
    /\ UNCHANGED <<attempt, target, docVars, queue, task, linkVars, agentVars, evidence, faults>>

\* clearHistory: one transaction removes the rows of closed jobs.
ClearHistory ==
    /\ \E j \in Job : status[j] \in {"DELETED", "CANCELLED"}
    /\ status' = [j \in Job |->
                    IF status[j] \in {"DELETED", "CANCELLED"} THEN "CLEARED" ELSE status[j]]
    /\ UNCHANGED <<attempt, target, docVars, queue, task, linkVars, agentVars, evidence, faults>>
-----------------------------------------------------------------------------
(* -------- the agent: JobProcessor.handle and the polling loop ---------- *)

\* GET /agent/jobs/next, while the agent's socket is down.
Poll(p, j) ==
    /\ p \notin linkUp \cup removed
    /\ target[j] = p
    /\ status[j] \in Pollable
    /\ Cardinality({m \in inbox : m.via = "poll"}) < MaxPolls
    /\ inbox' = inbox \cup {[printer |-> p, job |-> j, no |-> attempt[j], via |-> "poll"]}
    /\ UNCHANGED <<dbVars, queue, task, linkVars, net, work, evidence, faults>>

\* A payload arrives: handled, unless the same job is still in progress.
Receive(m) ==
    /\ inbox' = inbox \ {m}
    /\ work' = IF work[m.printer][m.job].stage = "idle"
               THEN [work EXCEPT ![m.printer][m.job] =
                       [stage |-> "accept", no |-> m.no, call |-> "none", left |-> 1]]
               ELSE work
    /\ UNCHANGED <<dbVars, queue, task, linkVars, net, evidence, faults>>

\* The agent posts the report of its stage.
SendReport(p, j) ==
    LET w == work[p][j] IN
    /\ w.stage \in {"accept", "start", "printed", "failed", "unknown"}
    /\ w.call = "none"
    /\ Cardinality(net) < MaxNet
    /\ net' = net \cup {[printer |-> p, job |-> j, kind |-> StageKind(w.stage),
                         no |-> w.no, try |-> w.left]}
    /\ work' = [work EXCEPT ![p][j].call = "sent"]
    /\ UNCHANGED <<dbVars, queue, task, linkVars, inbox, evidence, faults>>

\* Enter(p, j, stage, n): the next stage, with n tries for its report.
Enter(p, j, stage, n) ==
    work' = [work EXCEPT ![p][j] = [stage |-> stage, no |-> work[p][j].no,
                                    call |-> "none", left |-> n]]
Leave(p, j) == work' = [work EXCEPT ![p][j] = NoWork]

\* A report was answered.  Between ACCEPTED and PRINTING the OS printer is
\* chosen, which may fail.
Proceed(p, j) ==
    /\ work[p][j].call = "ok"
    /\ \/ /\ work[p][j].stage = "accept"
          /\ Enter(p, j, "start", 1) \/ Enter(p, j, "failed", ReportTries)
       \/ work[p][j].stage = "start" /\ Enter(p, j, "print", 0)
       \/ work[p][j].stage \in {"printed", "failed", "unknown"} /\ Leave(p, j)
    /\ UNCHANGED <<dbVars, queue, task, linkVars, inbox, net, evidence, faults>>

\* A report was refused, lost, or timed out.  The first two end the run as PRINT_FAILED,
\* a final one is retried, then given up.
ReportFails(p, j) ==
    LET w == work[p][j] IN
    /\ w.call = "sent"
    /\ \/ w.stage \in {"accept", "start"} /\ Enter(p, j, "failed", ReportTries)
       \/ /\ w.stage \in {"printed", "failed", "unknown"}
          /\ IF w.left > 1 THEN Enter(p, j, w.stage, w.left - 1) ELSE Leave(p, j)
    /\ UNCHANGED <<dbVars, queue, task, linkVars, inbox, net, evidence, faults>>

\* Download and print.  A failed or uncertain run may have used paper too
\* (an earlier document of the order, or a spooler that answered late).
PrintDocuments(p, j) ==
    LET seen == [evidence EXCEPT ![j] = @ \cup {"paper"}] IN
    /\ work[p][j].stage = "print"
    /\ \/ Enter(p, j, "printed", ReportTries + 1) /\ evidence' = seen
       \/ Enter(p, j, "failed", ReportTries) /\ evidence' \in {evidence, seen}
       \/ Enter(p, j, "unknown", ReportTries) /\ evidence' \in {evidence, seen}
    /\ UNCHANGED <<dbVars, queue, task, linkVars, inbox, net, faults>>
-----------------------------------------------------------------------------
(* -------- the link: gateway, registry, network ------------------------- *)

\* Handshake: the agent's newest socket replaces any registered one.
Connect(p) ==
    /\ p \notin linkUp \cup removed
    /\ linkUp' = linkUp \cup {p}
    /\ registry' = registry \cup {p}
    /\ UNCHANGED <<dbVars, queue, task, closing, removed, agentVars, evidence, faults>>

Unpushed(P) == {m \in inbox : ~(m.printer \in P /\ m.via = "push")}

\* The agent's socket breaks; what was emitted on it is lost, and the server
\* notices later.
LinkBreaks(p) ==
    /\ p \in linkUp
    /\ closing[p] < MaxClosing
    /\ linkUp' = linkUp \ {p}
    /\ closing' = [closing EXCEPT ![p] = @ + 1]
    /\ inbox' = Unpushed({p})
    /\ UNCHANGED <<dbVars, queue, task, registry, removed, net, work, evidence, faults>>

\* handleDisconnect of a dead socket: unregister(printerId) drops whichever
\* socket is registered, and markOffline overwrites a REMOVED status.
HandleDisconnect(p) ==
    /\ closing[p] > 0
    /\ closing' = [closing EXCEPT ![p] = @ - 1]
    /\ registry' = registry \ {p}
    /\ removed' = removed \ {p}
    /\ UNCHANGED <<dbVars, queue, task, linkUp, agentVars, evidence, faults>>

ReportLost(m) ==
    /\ net' = net \ {m}
    /\ UNCHANGED <<dbVars, queue, task, linkVars, inbox, work, evidence, faults>>

\* PrintersService.remove: the registered socket, if there is one, is closed
\* (its handleDisconnect runs at once), then the status becomes REMOVED.
RemovePrinter(p) ==
    /\ p \notin removed
    /\ Fault
    /\ removed' = removed \cup {p}
    /\ registry' = registry \ {p}
    /\ linkUp' = linkUp \ (registry \cap {p})
    /\ closing' = [closing EXCEPT ![p] = IF p \in registry \ linkUp THEN @ - 1 ELSE @]
    /\ inbox' = Unpushed(registry \cap {p})
    /\ UNCHANGED <<dbVars, queue, task, net, work, evidence>>

\* A step of a request throws.  A dispatch that throws is retried.
HandlerFails(s) ==
    /\ task[s] # Idle
    /\ Fault
    /\ Done(s)
    /\ queue' = IF task[s].op \in {"offline", "push"} THEN Retried(task[s].entry) ELSE queue
    /\ UNCHANGED <<dbVars, linkVars, agentVars, evidence>>

\* The backend process dies and comes back: requests and sockets are gone, the
\* database and the queue stay.
Crash ==
    /\ Fault
    /\ task' = [s \in Slot |-> Idle]
    /\ registry' = {}
    /\ linkUp' = {}
    /\ closing' = [p \in Printer |-> 0]
    /\ inbox' = {}
    /\ UNCHANGED <<dbVars, queue, removed, net, work, evidence>>

\* The agent restarts: its jobs in progress are forgotten, and nobody waits
\* any more for the answer to a report already under way.
Orphan(m, p) == IF m.printer = p THEN [m EXCEPT !.try = 0] ELSE m
AgentRestart(p) ==
    /\ Fault
    /\ work' = [work EXCEPT ![p] = [j \in Job |-> NoWork]]
    /\ net' = {Orphan(m, p) : m \in net}
    /\ task' = [s \in Slot |-> IF task[s].op \in {"report", "chain"}
                               THEN [task[s] EXCEPT !.msg = Orphan(@, p)] ELSE task[s]]
    /\ inbox' = {m \in inbox : m.printer # p}
    /\ linkUp' = linkUp \ {p}
    /\ closing' = [closing EXCEPT ![p] = IF p \in linkUp THEN @ + 1 ELSE @]
    /\ UNCHANGED <<dbVars, queue, registry, removed, evidence>>
-----------------------------------------------------------------------------
\* A request that is under way takes its next step.
HandlerStep(s) ==
    \/ ConfirmEligible(s) \/ TriggerGivesUp(s) \/ TriggerQueue(s) \/ TriggerEnqueue(s)
    \/ DispatchOffline(s) \/ DispatchPush(s)
    \/ ReportPickup(s) \/ ReportApply(s) \/ ReportChain(s)
    \/ ReconcileFinish(s)
    \/ \E d \in Doc : SweepErase(s, d)
    \/ SweepClose(s)

\* A request arrives, a cron job fires, or the worker takes a queue entry.
HandlerStart(s) ==
    \/ \E j \in Job :
          \/ ConfirmCreate(s, j) \/ TriggerRead(s, j) \/ SweepRead(s, j)
          \/ \E to \in {"PRINTED", "PRINT_FAILED"} : Reconcile(s, j, to)
    \/ \E e \in queue : DispatchRead(s, e)
    \/ \E m \in net : ReportRead(s, m)

AgentStep(p) ==
    \E j \in Job : SendReport(p, j) \/ Proceed(p, j) \/ ReportFails(p, j) \/ PrintDocuments(p, j)

Environment ==
    \/ \E s \in Slot : HandlerFails(s)
    \/ \E p \in Printer :
          \/ Connect(p) \/ LinkBreaks(p) \/ HandleDisconnect(p)
          \/ RemovePrinter(p) \/ AgentRestart(p)
          \/ \E j \in Job : Poll(p, j)
    \/ \E m \in inbox : Receive(m)
    \/ \E m \in net : ReportLost(m)
    \/ Crash
    \/ ClearHistory
    \/ \E j \in Job : FlagStalePrinting(j)

Next ==
    \/ \E s \in Slot : HandlerStep(s) \/ HandlerStart(s)
    \/ \E p \in Printer : AgentStep(p)
    \/ Environment

Spec == Init /\ [][Next]_vars
-----------------------------------------------------------------------------
(* -------- properties --------------------------------------------------- *)

\* Every variable has its type.
TypeOK ==
    /\ status \in [Job -> JobStatuses \cup NoRow]
    /\ attempt \in [Job -> Attempts]
    /\ target \in [Job -> Printer \cup {NoPrinter}]
    /\ stored \subseteq Doc
    /\ deleted \subseteq Doc
    /\ queue \subseteq Entry
    /\ task \in [Slot -> Task]
    /\ registry \subseteq Printer
    /\ linkUp \subseteq Printer
    /\ closing \in [Printer -> Nat]
    /\ removed \subseteq Printer
    /\ inbox \subseteq Payload
    /\ net \subseteq Report
    /\ work \in [Printer -> [Job -> Work]]
    /\ evidence \in [Job -> SUBSET {"paper", "shop"}]
    /\ faults \in 0..MaxFaults

\* An order that is closed leaves none of its documents in storage, whatever
\* deletions failed or sweeps overlapped on the way.
ClosedLeavesNothing ==
    \A j \in Job : status[j] \in {"DELETED", "CLEARED"} => Docs[j] \cap stored = {}

\* A duplicate PRINT click has one winner: PRINT is accepted only from a status
\* it starts from, however many requests have read that status before.
ClickWinsOnce ==
    [][\A j \in Job : attempt'[j] # attempt[j] => status[j] \in Triggerable]_vars

\* Two agents never work on the same attempt of a job, even when a printer is
\* removed and the order sent to another one while payloads are on their way.
OneAgentPerAttempt ==
    \A j \in Job : \A p, q \in Printer :
        /\ p # q
        /\ work[p][j].stage # "idle"
        /\ work[q][j].stage # "idle"
        => work[p][j].no # work[q][j].no

\* Once the backend has confirmed a PRINTED report to the agent, which then
\* forgets the job, the order is on its way to erasure for good.
ConfirmedPrintIsDurable ==
    \A p \in Printer, j \in Job :
        work[p][j].stage = "printed" /\ work[p][j].call = "ok"
            => status[j] \in {"RETENTION_PENDING", "DELETED", "CLEARED"}

\* The pipeline implements the lifecycle promised for one order.
Lifecycle == INSTANCE PrintJobLifecycle
    WITH Job <- Job, Doc <- Doc, Docs <- Docs, status <- status, stored <- stored, evidence <- evidence
ImplementsLifecycle == Lifecycle!LSpec
=============================================================================
