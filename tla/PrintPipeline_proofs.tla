------------------------ MODULE PrintPipeline_proofs ------------------------
(***************************************************************************)
(* What holds of the print pipeline for every number of orders, documents, *)
(* printers and requests in progress.                                      *)
(*                                                                         *)
(*   TypeInv      the types: what each step does to what it changes;       *)
(*   PipelineInv  the pipeline implements PrintJobLifecycle, so documents  *)
(*                are erased only on evidence and completely, and a printed*)
(*                report that was confirmed is durable;                    *)
(*   AttemptInv   an attempt is worked on by one agent at most; one click  *)
(*                wins.                                                    *)
(***************************************************************************)
EXTENDS PrintPipeline, TLAPS
-----------------------------------------------------------------------------
(***************************************************************************)
(* Types.                                                                  *)
(***************************************************************************)

\* A registered socket that is not the agent's newest is a dead one.
DeadSocketsAreDue == \A p \in registry \ linkUp : closing[p] > 0

\* The inductive type invariant: the first part alone is not inductive, since
\* RemovePrinter counts the socket it closes out of closing.
TypeInv == TypeOK /\ DeadSocketsAreDue
-----------------------------------------------------------------------------
(* -------- what a request can be about to do ---------------------------- *)

\* The fields of a task, by its name.
LEMMA TaskFields ==
    ASSUME NEW t \in Task
    PROVE  /\ t.op \in {"confirm", "press", "finish"} => t.job \in Job
           /\ t.op = "queue" => t.job \in Job /\ t.seen \in Triggerable /\ t.printer \in Printer
           /\ t.op = "enqueue" => t.job \in Job /\ t.id \in Attempts
           /\ t.op = "offline" => t.entry \in Entry
           /\ t.op = "push" => t.entry \in Entry /\ t.printer \in Printer /\ t.no \in Attempts
           /\ t.op \in {"report", "chain"} => t.msg \in Report /\ t.seen \in JobStatuses
           /\ t.op = "erase" => t.job \in Job /\ t.rest \in SUBSET Doc /\ t.failed \in BOOLEAN
BY DEF Task

\* The tasks the operations go on with.
LEMMA TaskForms ==
    /\ Idle \in Task
    /\ \A j \in Job : /\ [op |-> "confirm", job |-> j] \in Task
                      /\ [op |-> "press", job |-> j] \in Task
                      /\ [op |-> "finish", job |-> j] \in Task
    /\ \A j \in Job, seen \in Triggerable, p \in Printer :
          [op |-> "queue", job |-> j, seen |-> seen, printer |-> p] \in Task
    /\ \A j \in Job, n \in Attempts : [op |-> "enqueue", job |-> j, id |-> n] \in Task
    /\ \A e \in Entry : [op |-> "offline", entry |-> e] \in Task
    /\ \A e \in Entry, p \in Printer, n \in Attempts :
          [op |-> "push", entry |-> e, printer |-> p, no |-> n] \in Task
    /\ \A m \in Report, seen \in JobStatuses :
          [op |-> "report", msg |-> m, seen |-> seen] \in Task
    /\ \A j \in Job, rest \in SUBSET Doc, failed \in BOOLEAN :
          [op |-> "erase", job |-> j, rest |-> rest, failed |-> failed] \in Task
BY DEF Task, Idle

\* How a request under way changes what it remembers.
LEMMA TaskUpdates ==
    ASSUME NEW t \in Task
    PROVE  /\ t.op \in {"report", "chain"} =>
                 \A m \in Report, seen \in JobStatuses :
                    /\ [t EXCEPT !.msg = m] \in Task
                    /\ [t EXCEPT !.seen = seen] \in Task
                    /\ [t EXCEPT !.op = "chain"] \in Task
           /\ t.op = "erase" =>
                 \A rest \in SUBSET Doc :
                    /\ [t EXCEPT !.rest = rest] \in Task
                    /\ [t EXCEPT !.rest = rest, !.failed = TRUE] \in Task
<1>1. CASE t.op \in {"report", "chain"}
  <2>1. t \in [op : {"report", "chain"}, msg : Report, seen : JobStatuses]
    BY <1>1 DEF Task
  <2>2. \A m \in Report, seen \in JobStatuses :
           /\ [t EXCEPT !.msg = m] \in [op : {"report", "chain"}, msg : Report, seen : JobStatuses]
           /\ [t EXCEPT !.seen = seen] \in [op : {"report", "chain"}, msg : Report, seen : JobStatuses]
           /\ [t EXCEPT !.op = "chain"] \in [op : {"report", "chain"}, msg : Report, seen : JobStatuses]
    BY <2>1
  <2>. QED  BY <1>1, <2>2 DEF Task
<1>2. CASE t.op = "erase"
  <2>1. t \in [op : {"erase"}, job : Job, rest : SUBSET Doc, failed : BOOLEAN]
    BY <1>2 DEF Task
  <2>2. \A rest \in SUBSET Doc :
           /\ [t EXCEPT !.rest = rest] \in [op : {"erase"}, job : Job, rest : SUBSET Doc, failed : BOOLEAN]
           /\ [t EXCEPT !.rest = rest, !.failed = TRUE]
                 \in [op : {"erase"}, job : Job, rest : SUBSET Doc, failed : BOOLEAN]
    BY <2>1
  <2>. QED  BY <1>2, <2>2 DEF Task
<1>. QED  BY <1>1, <1>2
-----------------------------------------------------------------------------
(* -------- type correctness --------------------------------------------- *)

LEMMA InitType == Init => TypeInv
BY PipelineAssumption DEF Init, Idle, NoWork, Work, Stages, Attempts, Task, NoRow, TypeInv, TypeOK,
   DeadSocketsAreDue

LEMMA GoesType ==
    ASSUME TypeInv, NEW s \in Slot, NEW t \in Task, Goes(s, t)
    PROVE  task' \in [Slot -> Task]
BY DEF TypeInv, TypeOK, Goes

LEMMA DoneType ==
    ASSUME TypeInv, NEW s \in Slot, Done(s)
    PROVE  task' \in [Slot -> Task]
BY TaskForms, GoesType DEF Done

LEMMA BecomesType ==
    ASSUME TypeInv, NEW j \in Job, NEW to \in JobStatuses, Becomes(j, to) \/ UNCHANGED status
    PROVE  status' \in [Job -> JobStatuses \cup NoRow]
BY DEF TypeInv, TypeOK, Becomes

LEMMA AnswerType ==
    ASSUME TypeInv, NEW m \in Report, Answer(m) \/ UNCHANGED work
    PROVE  work' \in [Printer -> [Job -> Work]]
<1>. DEFINE w == work[m.printer][m.job]
<1>1. m.printer \in Printer /\ m.job \in Job
  BY DEF Report
<1>2. w \in Work
  BY <1>1 DEF TypeInv, TypeOK
<1>3. [w EXCEPT !.call = "ok"] \in Work
  BY <1>2 DEF Work
<1>4. work' = work \/ work' = [work EXCEPT ![m.printer][m.job] = [w EXCEPT !.call = "ok"]]
  BY DEF Answer
<1>5. [work[m.printer] EXCEPT ![m.job] = [w EXCEPT !.call = "ok"]] \in [Job -> Work]
  BY <1>1, <1>3 DEF TypeInv, TypeOK
<1>6. work' = work \/ work' = [work EXCEPT ![m.printer] =
                                  [work[m.printer] EXCEPT ![m.job] = [w EXCEPT !.call = "ok"]]]
  BY <1>1, <1>4 DEF TypeInv, TypeOK
<1>. QED  BY <1>1, <1>5, <1>6 DEF TypeInv, TypeOK

LEMMA RetriedType ==
    ASSUME queue \subseteq Entry, NEW e \in Entry
    PROVE  Retried(e) \subseteq Entry
<1>1. CASE e.left > 1
  <2>1. [e EXCEPT !.left = @ - 1] \in Entry
    BY <1>1, PipelineAssumption DEF Entry
  <2>. QED  BY <2>1 DEF Retried
<1>2. CASE ~(e.left > 1)
  BY <1>2 DEF Retried
<1>. QED  BY <1>1, <1>2

LEMMA HandlerStepType ==
    ASSUME TypeInv, NEW s \in Slot, HandlerStep(s) PROVE TypeInv'
<1>. DEFINE t == task[s]
<1>. USE DEF vars, dbVars, docVars, linkVars, agentVars
<1>0. t \in Task
  BY DEF TypeInv, TypeOK
<1>1. CASE ConfirmEligible(s)
  <2>1. t.job \in Job
    BY <1>0, <1>1, TaskFields DEF ConfirmEligible
  <2>2. task' \in [Slot -> Task]
    <3>1. Done(s) \/ Goes(s, [op |-> "press", job |-> t.job])
      BY <1>1 DEF ConfirmEligible
    <3>. QED  BY <2>1, <3>1, TaskForms, DoneType, GoesType
  <2>3. status' \in [Job -> JobStatuses \cup NoRow]
    <3>1. Becomes(t.job, "PRINT_ELIGIBLE") \/ UNCHANGED status
      BY <1>1 DEF ConfirmEligible
    <3>. QED  BY <2>1, <3>1, BecomesType DEF JobStatuses
  <2>. QED  BY <1>1, <2>2, <2>3 DEF ConfirmEligible, TypeInv, TypeOK, DeadSocketsAreDue
<1>2. CASE TriggerGivesUp(s)
  <2>1. task' \in [Slot -> Task]
    BY <1>2, DoneType DEF TriggerGivesUp
  <2>. QED  BY <1>2, <2>1 DEF TriggerGivesUp, TypeInv, TypeOK, DeadSocketsAreDue
<1>3. CASE TriggerQueue(s)
  <2>1. t.job \in Job /\ t.printer \in Printer
    BY <1>0, <1>3, TaskFields DEF TriggerQueue
  <2>2. CASE UNCHANGED <<status, attempt, target>> /\ Done(s)
    <3>1. task' \in [Slot -> Task]
      BY <2>2, DoneType
    <3>. QED  BY <1>3, <2>2, <3>1 DEF TriggerQueue, TypeInv, TypeOK, DeadSocketsAreDue
  <2>3. CASE /\ attempt[t.job] < MaxAttempts
             /\ Becomes(t.job, "QUEUED")
             /\ attempt' = [attempt EXCEPT ![t.job] = @ + 1]
             /\ target' = [target EXCEPT ![t.job] = t.printer]
             /\ Goes(s, [op |-> "enqueue", job |-> t.job, id |-> attempt[t.job] + 1])
    <3>1. attempt[t.job] + 1 \in Attempts
      BY <2>1, <2>3, PipelineAssumption DEF TypeInv, TypeOK, Attempts
    <3>2. task' \in [Slot -> Task]
      BY <2>1, <2>3, <3>1, TaskForms, GoesType
    <3>3. status' \in [Job -> JobStatuses \cup NoRow]
      BY <2>1, <2>3, BecomesType DEF JobStatuses
    <3>4. attempt' \in [Job -> Attempts] /\ target' \in [Job -> Printer \cup {NoPrinter}]
      BY <2>1, <2>3, <3>1 DEF TypeInv, TypeOK
    <3>. QED  BY <1>3, <3>2, <3>3, <3>4 DEF TriggerQueue, TypeInv, TypeOK, DeadSocketsAreDue
  <2>. QED  BY <1>3, <2>2, <2>3 DEF TriggerQueue
<1>4. CASE TriggerEnqueue(s)
  <2>1. t.job \in Job /\ t.id \in Attempts
    BY <1>0, <1>4, TaskFields DEF TriggerEnqueue
  <2>2. [job |-> t.job, id |-> t.id, left |-> DispatchTries] \in Entry
    BY <2>1, PipelineAssumption DEF Entry
  <2>3. queue' \subseteq Entry
    BY <1>4, <2>2 DEF TriggerEnqueue, TypeInv, TypeOK
  <2>4. task' \in [Slot -> Task]
    BY <1>4, DoneType DEF TriggerEnqueue
  <2>. QED  BY <1>4, <2>3, <2>4 DEF TriggerEnqueue, TypeInv, TypeOK, DeadSocketsAreDue
<1>5. CASE DispatchOffline(s)
  <2>1. t.entry \in Entry /\ t.entry.job \in Job
    BY <1>0, <1>5, TaskFields DEF DispatchOffline, Entry
  <2>2. queue' \subseteq Entry
    BY <1>5, <2>1, RetriedType DEF DispatchOffline, TypeInv, TypeOK
  <2>3. task' \in [Slot -> Task]
    BY <1>5, DoneType DEF DispatchOffline
  <2>4. status' \in [Job -> JobStatuses \cup NoRow]
    <3>1. Becomes(t.entry.job, "AGENT_OFFLINE") \/ UNCHANGED status
      BY <1>5 DEF DispatchOffline
    <3>. QED  BY <2>1, <3>1, BecomesType DEF JobStatuses
  <2>. QED  BY <1>5, <2>2, <2>3, <2>4 DEF DispatchOffline, TypeInv, TypeOK, DeadSocketsAreDue
<1>6. CASE DispatchPush(s)
  <2>1. t.entry.job \in Job /\ t.printer \in Printer /\ t.no \in Attempts
    BY <1>0, <1>6, TaskFields DEF DispatchPush, Entry
  <2>2. [printer |-> t.printer, job |-> t.entry.job, no |-> t.no, via |-> "push"] \in Payload
    BY <2>1 DEF Payload
  <2>3. inbox' \subseteq Payload /\ queue' \subseteq Entry
    BY <1>6, <2>2 DEF DispatchPush, TypeInv, TypeOK
  <2>4. task' \in [Slot -> Task]
    BY <1>6, DoneType DEF DispatchPush
  <2>. QED  BY <1>6, <2>3, <2>4 DEF DispatchPush, TypeInv, TypeOK, DeadSocketsAreDue
<1>7. CASE ReportPickup(s)
  <2>1. t.op \in {"report", "chain"} /\ t.msg \in Report /\ t.msg.job \in Job
    BY <1>0, <1>7, TaskFields DEF ReportPickup, Report
  <2>2. "QUEUED" \in JobStatuses
    BY DEF JobStatuses
  <2>3. [t EXCEPT !.seen = "QUEUED"] \in Task
    BY <1>0, <2>1, <2>2, TaskUpdates
  <2>4. task' \in [Slot -> Task]
    <3>1. Done(s) \/ Goes(s, [t EXCEPT !.seen = "QUEUED"])
      BY <1>7 DEF ReportPickup
    <3>. QED  BY <2>3, <3>1, DoneType, GoesType
  <2>5. status' \in [Job -> JobStatuses \cup NoRow]
    <3>1. Becomes(t.msg.job, "QUEUED") \/ UNCHANGED status
      BY <1>7 DEF ReportPickup
    <3>. QED  BY <2>1, <2>2, <3>1, BecomesType
  <2>. QED  BY <1>7, <2>4, <2>5 DEF ReportPickup, TypeInv, TypeOK, DeadSocketsAreDue
<1>8. CASE ReportApply(s)
  <2>. DEFINE to == ReportedStatus(t.msg.kind)
  <2>1. t.op \in {"report", "chain"} /\ t.msg \in Report /\ t.msg.job \in Job /\ t.msg.kind \in Kinds
    BY <1>0, <1>8, TaskFields DEF ReportApply, Report
  <2>2. to \in JobStatuses
    BY <2>1 DEF ReportedStatus, Kinds, JobStatuses
  <2>3. [t EXCEPT !.op = "chain"] \in Task
    BY <1>0, <2>1, <2>2, TaskUpdates
  <2>4. task' \in [Slot -> Task]
    <3>1. Done(s) \/ Goes(s, [t EXCEPT !.op = "chain"])
      BY <1>8 DEF ReportApply
    <3>. QED  BY <2>3, <3>1, DoneType, GoesType
  <2>5. status' \in [Job -> JobStatuses \cup NoRow]
    <3>1. Becomes(t.msg.job, to) \/ UNCHANGED status
      BY <1>8 DEF ReportApply
    <3>. QED  BY <2>1, <2>2, <3>1, BecomesType
  <2>6. work' \in [Printer -> [Job -> Work]]
    <3>1. Answer(t.msg) \/ UNCHANGED work
      BY <1>8 DEF ReportApply
    <3>. QED  BY <2>1, <3>1, AnswerType
  <2>. QED  BY <1>8, <2>4, <2>5, <2>6 DEF ReportApply, TypeInv, TypeOK, DeadSocketsAreDue
<1>9. CASE ReportChain(s)
  <2>1. t.msg \in Report /\ t.msg.job \in Job
    BY <1>0, <1>9, TaskFields DEF ReportChain, Report
  <2>2. task' \in [Slot -> Task]
    BY <1>9, DoneType DEF ReportChain
  <2>3. CASE Becomes(t.msg.job, "RETENTION_PENDING") /\ Answer(t.msg)
    <3>1. status' \in [Job -> JobStatuses \cup NoRow] /\ work' \in [Printer -> [Job -> Work]]
      BY <2>1, <2>3, BecomesType, AnswerType DEF JobStatuses
    <3>. QED  BY <1>9, <2>2, <3>1 DEF ReportChain, TypeInv, TypeOK, DeadSocketsAreDue
  <2>4. CASE UNCHANGED <<status, work>>
    BY <1>9, <2>2, <2>4 DEF ReportChain, TypeInv, TypeOK, DeadSocketsAreDue
  <2>. QED  BY <1>9, <2>3, <2>4 DEF ReportChain
<1>10. CASE ReconcileFinish(s)
  <2>1. t.job \in Job
    BY <1>0, <1>10, TaskFields DEF ReconcileFinish
  <2>2. task' \in [Slot -> Task]
    BY <1>10, DoneType DEF ReconcileFinish
  <2>3. status' \in [Job -> JobStatuses \cup NoRow]
    <3>1. Becomes(t.job, "RETENTION_PENDING") \/ UNCHANGED status
      BY <1>10 DEF ReconcileFinish
    <3>. QED  BY <2>1, <3>1, BecomesType DEF JobStatuses
  <2>. QED  BY <1>10, <2>2, <2>3 DEF ReconcileFinish, TypeInv, TypeOK, DeadSocketsAreDue
<1>11. ASSUME NEW d \in Doc, SweepErase(s, d) PROVE TypeInv'
  <2>1. t.op = "erase" /\ t.job \in Job /\ t.rest \ {d} \in SUBSET Doc
    BY <1>0, <1>11, TaskFields DEF SweepErase
  <2>2. /\ [t EXCEPT !.rest = t.rest \ {d}] \in Task
        /\ [t EXCEPT !.rest = t.rest \ {d}, !.failed = TRUE] \in Task
    BY <1>0, <2>1, TaskUpdates
  <2>3. task' \in [Slot -> Task]
    <3>1. \/ Goes(s, [t EXCEPT !.rest = t.rest \ {d}])
          \/ Goes(s, [t EXCEPT !.rest = t.rest \ {d}, !.failed = TRUE])
          \/ Done(s)
      BY <1>11 DEF SweepErase
    <3>. QED  BY <2>2, <3>1, GoesType, DoneType
  <2>4. stored' \subseteq Doc /\ deleted' \subseteq Doc
    BY <1>11, <2>1 DEF SweepErase, TypeInv, TypeOK
  <2>5. faults' \in 0..MaxFaults
    BY <1>11, PipelineAssumption DEF SweepErase, Fault, TypeInv, TypeOK
  <2>. QED  BY <1>11, <2>3, <2>4, <2>5 DEF SweepErase, TypeInv, TypeOK, DeadSocketsAreDue
<1>12. CASE SweepClose(s)
  <2>1. t.job \in Job
    BY <1>0, <1>12, TaskFields DEF SweepClose
  <2>2. task' \in [Slot -> Task]
    BY <1>12, DoneType DEF SweepClose
  <2>3. status' \in [Job -> JobStatuses \cup NoRow]
    <3>1. Becomes(t.job, "DELETED") \/ UNCHANGED status
      BY <1>12 DEF SweepClose
    <3>. QED  BY <2>1, <3>1, BecomesType DEF JobStatuses
  <2>. QED  BY <1>12, <2>2, <2>3 DEF SweepClose, TypeInv, TypeOK, DeadSocketsAreDue
<1>. QED
  BY <1>1, <1>2, <1>3, <1>4, <1>5, <1>6, <1>7, <1>8, <1>9, <1>10, <1>11, <1>12 DEF HandlerStep
LEMMA HandlerStartType ==
    ASSUME TypeInv, NEW s \in Slot, HandlerStart(s) PROVE TypeInv'
<1>. USE DEF vars, dbVars, docVars, linkVars, agentVars
<1>1. ASSUME NEW j \in Job, ConfirmCreate(s, j) PROVE TypeInv'
  <2>1. task' \in [Slot -> Task]
    BY <1>1, TaskForms, GoesType DEF ConfirmCreate, Begins
  <2>2. status' \in [Job -> JobStatuses \cup NoRow]
    BY <1>1, BecomesType DEF ConfirmCreate, JobStatuses
  <2>. QED  BY <1>1, <2>1, <2>2 DEF ConfirmCreate, TypeInv, TypeOK, DeadSocketsAreDue
<1>2. ASSUME NEW j \in Job, TriggerRead(s, j) PROVE TypeInv'
  <2>1. PICK p \in Candidates(j) :
           Goes(s, [op |-> "queue", job |-> j, seen |-> status[j], printer |-> p])
    BY <1>2 DEF TriggerRead, Begins
  <2>2. p \in Printer /\ status[j] \in Triggerable
    BY <1>2 DEF TriggerRead, Candidates
  <2>3. task' \in [Slot -> Task]
    BY <2>1, <2>2, TaskForms, GoesType
  <2>. QED  BY <1>2, <2>3 DEF TriggerRead, TypeInv, TypeOK, DeadSocketsAreDue
<1>3. ASSUME NEW j \in Job, SweepRead(s, j) PROVE TypeInv'
  <2>1. Docs[j] \ deleted \in SUBSET Doc
    BY PipelineAssumption
  <2>2. task' \in [Slot -> Task]
    BY <1>3, <2>1, TaskForms, GoesType DEF SweepRead, Begins
  <2>. QED  BY <1>3, <2>2 DEF SweepRead, TypeInv, TypeOK, DeadSocketsAreDue
<1>4. ASSUME NEW j \in Job, NEW to \in {"PRINTED", "PRINT_FAILED"}, Reconcile(s, j, to)
      PROVE  TypeInv'
  <2>1. task' \in [Slot -> Task]
    <3>1. Goes(s, [op |-> "finish", job |-> j]) \/ UNCHANGED task
      BY <1>4 DEF Reconcile
    <3>2. CASE Goes(s, [op |-> "finish", job |-> j])
      BY <3>2, TaskForms, GoesType
    <3>. QED  BY <3>1, <3>2 DEF TypeInv, TypeOK
  <2>2. status' \in [Job -> JobStatuses \cup NoRow]
    BY <1>4, BecomesType DEF Reconcile, JobStatuses
  <2>3. evidence' \in [Job -> SUBSET {"paper", "shop"}]
    BY <1>4 DEF Reconcile, TypeInv, TypeOK
  <2>. QED  BY <1>4, <2>1, <2>2, <2>3 DEF Reconcile, TypeInv, TypeOK, DeadSocketsAreDue
<1>5. ASSUME NEW e \in queue, DispatchRead(s, e) PROVE TypeInv'
  <2>1. e \in Entry /\ e.job \in Job
    BY DEF TypeInv, TypeOK, Entry
  <2>2. target[e.job] \in registry => target[e.job] \in Printer
    BY DEF TypeInv, TypeOK
  <2>3. attempt[e.job] \in Attempts
    BY <2>1 DEF TypeInv, TypeOK
  <2>4. task' \in [Slot -> Task]
    <3>1. \/ UNCHANGED task
          \/ /\ target[e.job] \in registry
             /\ Goes(s, [op |-> "push", entry |-> e, printer |-> target[e.job],
                         no |-> attempt[e.job]])
          \/ Goes(s, [op |-> "offline", entry |-> e])
      BY <1>5 DEF DispatchRead, Begins
    <3>2. CASE UNCHANGED task
      BY <3>2 DEF TypeInv, TypeOK
    <3>3. CASE /\ target[e.job] \in registry
               /\ Goes(s, [op |-> "push", entry |-> e, printer |-> target[e.job],
                           no |-> attempt[e.job]])
      BY <2>1, <2>2, <2>3, <3>3, TaskForms, GoesType
    <3>4. CASE Goes(s, [op |-> "offline", entry |-> e])
      BY <2>1, <3>4, TaskForms, GoesType
    <3>. QED  BY <3>1, <3>2, <3>3, <3>4
  <2>5. queue' \subseteq Entry
    <3>1. e \in Entry /\ queue \subseteq Entry
      BY DEF TypeInv, TypeOK
    <3>2. queue' \in {queue, queue \ {e}, Retried(e)}
      BY <1>5 DEF DispatchRead
    <3>. QED  BY <3>1, <3>2, RetriedType
  <2>. QED  BY <1>5, <2>4, <2>5 DEF DispatchRead, TypeInv, TypeOK, DeadSocketsAreDue
<1>6. ASSUME NEW m \in net, ReportRead(s, m) PROVE TypeInv'
  <2>1. m \in Report /\ m.job \in Job
    BY DEF TypeInv, TypeOK, Report
  <2>2. task' \in [Slot -> Task]
    <3>1. \/ UNCHANGED task
          \/ /\ status[m.job] \notin NoRow
             /\ Goes(s, [op |-> "report", msg |-> m, seen |-> status[m.job]])
      BY <1>6 DEF ReportRead, Begins
    <3>2. status[m.job] \notin NoRow => status[m.job] \in JobStatuses
      BY <2>1 DEF TypeInv, TypeOK
    <3>3. CASE UNCHANGED task
      BY <3>3 DEF TypeInv, TypeOK
    <3>4. CASE /\ status[m.job] \notin NoRow
               /\ Goes(s, [op |-> "report", msg |-> m, seen |-> status[m.job]])
      BY <2>1, <3>2, <3>4, TaskForms, GoesType
    <3>. QED  BY <3>1, <3>3, <3>4
  <2>3. net' \subseteq Report
    BY <1>6 DEF ReportRead, TypeInv, TypeOK
  <2>. QED  BY <1>6, <2>2, <2>3 DEF ReportRead, TypeInv, TypeOK, DeadSocketsAreDue
<1>. QED  BY <1>1, <1>2, <1>3, <1>4, <1>5, <1>6 DEF HandlerStart

\* One agent's note about one job is replaced.
LEMMA WorkType ==
    ASSUME TypeInv, NEW p \in Printer, NEW j \in Job, NEW w \in Work,
           work' = [work EXCEPT ![p][j] = w]
    PROVE  work' \in [Printer -> [Job -> Work]]
<1>1. [work[p] EXCEPT ![j] = w] \in [Job -> Work]
  BY DEF TypeInv, TypeOK
<1>2. work' = [work EXCEPT ![p] = [work[p] EXCEPT ![j] = w]]
  BY DEF TypeInv, TypeOK
<1>. QED  BY <1>1, <1>2 DEF TypeInv, TypeOK

LEMMA EnterType ==
    ASSUME TypeInv, NEW p \in Printer, NEW j \in Job, NEW stage \in Stages,
           NEW n \in 0..(ReportTries + 1), Enter(p, j, stage, n) \/ Leave(p, j)
    PROVE  work' \in [Printer -> [Job -> Work]]
<1>1. work[p][j].no \in Attempts
  BY DEF TypeInv, TypeOK, Work
<1>2. [stage |-> stage, no |-> work[p][j].no, call |-> "none", left |-> n] \in Work
  BY <1>1 DEF Work
<1>3. NoWork \in Work
  BY PipelineAssumption DEF NoWork, Work, Stages, Attempts
<1>. QED  BY <1>2, <1>3, WorkType DEF Enter, Leave

LEMMA AgentStepType ==
    ASSUME TypeInv, NEW p \in Printer, AgentStep(p) PROVE TypeInv'
<1>. USE DEF vars, dbVars, docVars, linkVars, agentVars
<1>1. PICK j \in Job : SendReport(p, j) \/ Proceed(p, j) \/ ReportFails(p, j) \/ PrintDocuments(p, j)
  BY DEF AgentStep
<1>. DEFINE w == work[p][j]
<1>2. w \in Work
  BY DEF TypeInv, TypeOK
<1>3. /\ w.stage \in Stages /\ w.no \in Attempts /\ w.left \in 0..(ReportTries + 1)
      /\ {0, 1, ReportTries, ReportTries + 1} \subseteq 0..(ReportTries + 1)
      /\ w.left > 1 => w.left - 1 \in 0..(ReportTries + 1)
  BY <1>2, PipelineAssumption DEF Work
<1>4. CASE SendReport(p, j)
  <2>1. StageKind(w.stage) \in Kinds
    BY <1>4 DEF SendReport, StageKind, Kinds
  <2>2. [printer |-> p, job |-> j, kind |-> StageKind(w.stage), no |-> w.no, try |-> w.left]
           \in Report
    BY <1>3, <2>1 DEF Report
  <2>3. net' \subseteq Report
    BY <1>4, <2>2 DEF SendReport, TypeInv, TypeOK
  <2>4. [w EXCEPT !.call = "sent"] \in Work
    BY <1>2 DEF Work
  <2>5. work' = [work EXCEPT ![p][j] = [w EXCEPT !.call = "sent"]]
    BY <1>4 DEF SendReport
  <2>6. work' \in [Printer -> [Job -> Work]]
    BY <2>4, <2>5, WorkType
  <2>. QED  BY <1>4, <2>3, <2>6 DEF SendReport, TypeInv, TypeOK, DeadSocketsAreDue
<1>5. CASE Proceed(p, j)
  <2>1. {"start", "failed", "print"} \subseteq Stages
    BY DEF Stages
  <2>2. \/ Enter(p, j, "start", 1) \/ Enter(p, j, "failed", ReportTries)
        \/ Enter(p, j, "print", 0) \/ Leave(p, j)
    BY <1>5 DEF Proceed
  <2>3. work' \in [Printer -> [Job -> Work]]
    BY <1>3, <2>1, <2>2, EnterType
  <2>. QED  BY <1>5, <2>3 DEF Proceed, TypeInv, TypeOK, DeadSocketsAreDue
<1>6. CASE ReportFails(p, j)
  <2>1. "failed" \in Stages
    BY DEF Stages
  <2>2. \/ Enter(p, j, "failed", ReportTries)
        \/ w.left > 1 /\ Enter(p, j, w.stage, w.left - 1)
        \/ Leave(p, j)
    BY <1>6 DEF ReportFails
  <2>3. work' \in [Printer -> [Job -> Work]]
    BY <1>3, <2>1, <2>2, EnterType
  <2>. QED  BY <1>6, <2>3 DEF ReportFails, TypeInv, TypeOK, DeadSocketsAreDue
<1>7. CASE PrintDocuments(p, j)
  <2>1. {"printed", "failed", "unknown"} \subseteq Stages
    BY DEF Stages
  <2>2. \/ Enter(p, j, "printed", ReportTries + 1) \/ Enter(p, j, "failed", ReportTries)
        \/ Enter(p, j, "unknown", ReportTries)
    BY <1>7 DEF PrintDocuments
  <2>3. work' \in [Printer -> [Job -> Work]]
    BY <1>3, <2>1, <2>2, EnterType
  <2>4. evidence' \in [Job -> SUBSET {"paper", "shop"}]
    BY <1>7 DEF PrintDocuments, TypeInv, TypeOK
  <2>. QED  BY <1>7, <2>3, <2>4 DEF PrintDocuments, TypeInv, TypeOK, DeadSocketsAreDue
<1>. QED  BY <1>1, <1>4, <1>5, <1>6, <1>7
\* An orphaned report is a report, about the same job and of the same kind.
LEMMA OrphanType ==
    ASSUME NEW m \in Report, NEW p \in Printer
    PROVE  /\ Orphan(m, p) \in Report
           /\ Orphan(m, p).job = m.job
           /\ Orphan(m, p).kind = m.kind
<1>1. 0 \in 0..(ReportTries + 1)
  BY PipelineAssumption
<1>. QED  BY <1>1 DEF Orphan, Report

LEMMA EnvironmentType ==
    ASSUME TypeInv, Environment PROVE TypeInv'
<1>. USE DEF vars, dbVars, docVars, linkVars, agentVars
<1>1. ASSUME NEW s \in Slot, HandlerFails(s) PROVE TypeInv'
  <2>1. task' \in [Slot -> Task]
    BY <1>1, DoneType DEF HandlerFails
  <2>2. faults' \in 0..MaxFaults
    BY <1>1, PipelineAssumption DEF HandlerFails, Fault, TypeInv, TypeOK
  <2>3. queue' \subseteq Entry
    <3>1. task[s] \in Task
      BY DEF TypeInv, TypeOK
    <3>2. CASE task[s].op \in {"offline", "push"}
      <4>1. task[s].entry \in Entry
        BY <3>1, <3>2, TaskFields
      <4>. QED  BY <1>1, <3>2, <4>1, RetriedType DEF HandlerFails, TypeInv, TypeOK
    <3>. QED  BY <1>1, <3>2 DEF HandlerFails, TypeInv, TypeOK
  <2>. QED  BY <1>1, <2>1, <2>2, <2>3 DEF HandlerFails, TypeInv, TypeOK, DeadSocketsAreDue
<1>2. ASSUME NEW p \in Printer, Connect(p) PROVE TypeInv'
  BY <1>2 DEF Connect, TypeInv, TypeOK, DeadSocketsAreDue
<1>3. ASSUME NEW p \in Printer, LinkBreaks(p) PROVE TypeInv'
  BY <1>3 DEF LinkBreaks, Unpushed, TypeInv, TypeOK, DeadSocketsAreDue
<1>4. ASSUME NEW p \in Printer, HandleDisconnect(p) PROVE TypeInv'
  BY <1>4 DEF HandleDisconnect, TypeInv, TypeOK, DeadSocketsAreDue
<1>5. ASSUME NEW p \in Printer, RemovePrinter(p) PROVE TypeInv'
  <2>1. faults' \in 0..MaxFaults
    BY <1>5, PipelineAssumption DEF RemovePrinter, Fault, TypeInv, TypeOK
  <2>2. closing' \in [Printer -> Nat]
    BY <1>5 DEF RemovePrinter, TypeInv, TypeOK, DeadSocketsAreDue
  <2>. QED  BY <1>5, <2>1, <2>2 DEF RemovePrinter, Unpushed, TypeInv, TypeOK, DeadSocketsAreDue
<1>6. ASSUME NEW p \in Printer, AgentRestart(p) PROVE TypeInv'
  <2>1. faults' \in 0..MaxFaults
    BY <1>6, PipelineAssumption DEF AgentRestart, Fault, TypeInv, TypeOK
  <2>2. net' \subseteq Report
    BY <1>6, OrphanType DEF AgentRestart, TypeInv, TypeOK
  <2>3. work' \in [Printer -> [Job -> Work]]
    <3>1. NoWork \in Work
      BY PipelineAssumption DEF NoWork, Work, Stages, Attempts
    <3>. QED  BY <1>6, <3>1 DEF AgentRestart, TypeInv, TypeOK
  <2>4. task' \in [Slot -> Task]
    <3>1. ASSUME NEW s \in Slot, task[s].op \in {"report", "chain"}
          PROVE  [task[s] EXCEPT !.msg = Orphan(@, p)] \in Task
      <4>1. task[s] \in Task
        BY DEF TypeInv, TypeOK
      <4>2. Orphan(task[s].msg, p) \in Report /\ task[s].seen \in JobStatuses
        BY <3>1, <4>1, TaskFields, OrphanType
      <4>. QED  BY <3>1, <4>1, <4>2, TaskUpdates
    <3>. QED  BY <1>6, <3>1 DEF AgentRestart, TypeInv, TypeOK
  <2>5. closing' \in [Printer -> Nat]
    BY <1>6 DEF AgentRestart, TypeInv, TypeOK
  <2>6. DeadSocketsAreDue'
    BY <1>6 DEF AgentRestart, TypeInv, TypeOK, DeadSocketsAreDue
  <2>. QED  BY <1>6, <2>1, <2>2, <2>3, <2>4, <2>5, <2>6 DEF AgentRestart, TypeInv, TypeOK
<1>7. ASSUME NEW p \in Printer, NEW j \in Job, Poll(p, j) PROVE TypeInv'
  <2>1. [printer |-> p, job |-> j, no |-> attempt[j], via |-> "poll"] \in Payload
    BY DEF Payload, TypeInv, TypeOK
  <2>. QED  BY <1>7, <2>1 DEF Poll, TypeInv, TypeOK, DeadSocketsAreDue
<1>8. ASSUME NEW m \in inbox, Receive(m) PROVE TypeInv'
  <2>1. m.printer \in Printer /\ m.job \in Job /\ m.no \in Attempts
    BY DEF TypeInv, TypeOK, Payload
  <2>2. [stage |-> "accept", no |-> m.no, call |-> "none", left |-> 1] \in Work
    BY <2>1, PipelineAssumption DEF Work, Stages
  <2>3. work' \in [Printer -> [Job -> Work]]
    <3>1. \/ UNCHANGED work
          \/ work' = [work EXCEPT ![m.printer][m.job] =
                        [stage |-> "accept", no |-> m.no, call |-> "none", left |-> 1]]
      BY <1>8 DEF Receive
    <3>2. CASE UNCHANGED work
      BY <3>2 DEF TypeInv, TypeOK
    <3>. QED  BY <2>1, <2>2, <3>1, <3>2, WorkType
  <2>. QED  BY <1>8, <2>3 DEF Receive, TypeInv, TypeOK, DeadSocketsAreDue
<1>9. ASSUME NEW m \in net, ReportLost(m) PROVE TypeInv'
  BY <1>9 DEF ReportLost, TypeInv, TypeOK, DeadSocketsAreDue
<1>10. CASE Crash
  <2>1. faults' \in 0..MaxFaults
    BY <1>10, PipelineAssumption DEF Crash, Fault, TypeInv, TypeOK
  <2>. QED  BY <1>10, <2>1, TaskForms DEF Crash, TypeInv, TypeOK, DeadSocketsAreDue
<1>11. CASE ClearHistory
  BY <1>11 DEF ClearHistory, NoRow, TypeInv, TypeOK, DeadSocketsAreDue
<1>12. ASSUME NEW j \in Job, FlagStalePrinting(j) PROVE TypeInv'
  <2>1. status' \in [Job -> JobStatuses \cup NoRow]
    BY <1>12, BecomesType DEF FlagStalePrinting, JobStatuses
  <2>. QED  BY <1>12, <2>1 DEF FlagStalePrinting, TypeInv, TypeOK, DeadSocketsAreDue
<1>. QED
  BY <1>1, <1>2, <1>3, <1>4, <1>5, <1>6, <1>7, <1>8, <1>9, <1>10, <1>11, <1>12 DEF Environment

LEMMA NextType == TypeInv /\ [Next]_vars => TypeInv'
<1>. SUFFICES ASSUME TypeInv, [Next]_vars PROVE TypeInv'
  OBVIOUS
<1>1. CASE Next
  BY <1>1, HandlerStepType, HandlerStartType, AgentStepType, EnvironmentType DEF Next
<1>2. CASE UNCHANGED vars
  BY <1>2 DEF vars, TypeInv, TypeOK, DeadSocketsAreDue
<1>. QED  BY <1>1, <1>2

\* Every variable keeps its type, and the server never counts fewer dead
\* sockets than it still holds registered.
THEOREM Spec_TypeOK == Spec => []TypeOK
<1>1. Spec => []TypeInv
  BY InitType, NextType, PTL DEF Spec
<1>2. TypeInv => TypeOK
  BY DEF TypeInv
<1>. QED  BY <1>1, <1>2, PTL
-----------------------------------------------------------------------------
(***************************************************************************)
(* Evidence, erasure and durability: the lifecycle is implemented.         *)
(***************************************************************************)

\* The theorems about the lifecycle, at the pipeline's variables.
Cycle == INSTANCE PrintJobLifecycle_proofs

\* A report on the wire that says PRINTED is about an order that was printed.
ReportSound(m, seen) == m.kind = "PRINTED" => seen[m.job] # {}
ReportsAreSound == \A m \in net : ReportSound(m, evidence)

\* What a request is about to do is justified: a report it applies is true, only
\* a PRINTED one has a second transition, and a sweep works on an order that is
\* retained, with every document of it that is still stored on its list unless one
\* failed.
TaskSound(t, row, docs, seen) ==
    /\ t.op \in {"report", "chain"} => ReportSound(t.msg, seen)
    /\ t.op = "chain" => t.msg.kind = "PRINTED"
    /\ t.op = "erase" =>
          /\ row[t.job] \in Cycle!Retained
          /\ t.rest \subseteq Docs[t.job]
          /\ ~t.failed => Docs[t.job] \cap docs \subseteq t.rest
TasksAreSound == \A s \in Slot : TaskSound(task[s], status, stored, evidence)

\* An agent says it printed what it printed, and hears a confirmation only once
\* the order is retained.
WorkSound(w, j, row, seen) ==
    w.stage = "printed" => /\ seen[j] # {}
                           /\ w.call = "ok" => row[j] \in Cycle!Retained
WorkIsSound == \A p \in Printer, j \in Job : WorkSound(work[p][j], j, status, evidence)

\* A document whose row says DELETED has left storage.
DeletedIsGone == deleted \cap stored = {}

\* The inductive invariant.
PipelineInv ==
    /\ TypeInv
    /\ Cycle!LInv
    /\ ReportsAreSound
    /\ TasksAreSound
    /\ WorkIsSound
    /\ DeletedIsGone
-----------------------------------------------------------------------------
(* -------- every step is a step of the lifecycle, or none --------------- *)

LEMMA StutterStep ==
    ASSUME UNCHANGED <<status, stored, evidence>>
    PROVE  [Cycle!LNext]_(Cycle!lvars)
BY DEF Cycle!lvars

LEMMA MoveStep ==
    ASSUME NEW j \in Job, NEW to \in JobStatuses \ {"PRINTED", "DELETED", "CANCELLED"},
           (CanTransition(status[j], to) /\ Becomes(j, to)) \/ UNCHANGED status,
           UNCHANGED <<stored, evidence>>
    PROVE  [Cycle!LNext]_(Cycle!lvars)
<1>1. CASE CanTransition(status[j], to) /\ Becomes(j, to)
  <2>1. Cycle!Move(j, to)
    BY <1>1 DEF Cycle!Move, Cycle!CanTransition, CanTransition, Becomes
  <2>. QED  BY <2>1 DEF Cycle!LNext, Cycle!JobStatuses, JobStatuses
<1>2. CASE UNCHANGED status
  BY <1>2, StutterStep
<1>. QED  BY <1>1, <1>2

LEMMA HandlerStepRefines ==
    ASSUME PipelineInv, NEW s \in Slot, HandlerStep(s)
    PROVE  [Cycle!LNext]_(Cycle!lvars)
<1>. DEFINE t == task[s]
<1>. USE DEF dbVars, docVars, linkVars, agentVars
<1>0. t \in Task
  BY DEF PipelineInv, TypeInv, TypeOK
<1>1. CASE ConfirmEligible(s)
  <2>1. t.job \in Job
    BY <1>0, <1>1, TaskFields DEF ConfirmEligible
  <2>2. \/ CanTransition(status[t.job], "PRINT_ELIGIBLE") /\ Becomes(t.job, "PRINT_ELIGIBLE")
        \/ UNCHANGED status
    BY <1>1 DEF ConfirmEligible, Swaps
  <2>. QED  BY <1>1, <2>1, <2>2, MoveStep DEF ConfirmEligible, JobStatuses
<1>2. CASE TriggerGivesUp(s)
  BY <1>2, StutterStep DEF TriggerGivesUp
<1>3. CASE TriggerQueue(s)
  <2>1. t.job \in Job
    BY <1>0, <1>3, TaskFields DEF TriggerQueue
  <2>2. (CanTransition(status[t.job], "QUEUED") /\ Becomes(t.job, "QUEUED")) \/ UNCHANGED status
    BY <1>3 DEF TriggerQueue, Swaps
  <2>. QED  BY <1>3, <2>1, <2>2, MoveStep DEF TriggerQueue, JobStatuses
<1>4. CASE TriggerEnqueue(s) \/ DispatchPush(s)
  BY <1>4, StutterStep DEF TriggerEnqueue, DispatchPush
<1>5. CASE DispatchOffline(s)
  <2>1. t.entry.job \in Job
    BY <1>0, <1>5, TaskFields DEF DispatchOffline, Entry
  <2>2. \/ CanTransition(status[t.entry.job], "AGENT_OFFLINE") /\ Becomes(t.entry.job, "AGENT_OFFLINE")
        \/ UNCHANGED status
    BY <1>5 DEF DispatchOffline, Swaps
  <2>. QED  BY <1>5, <2>1, <2>2, MoveStep DEF DispatchOffline, JobStatuses
<1>6. CASE ReportPickup(s)
  <2>1. t.msg.job \in Job
    BY <1>0, <1>6, TaskFields DEF ReportPickup, Report
  <2>2. (CanTransition(status[t.msg.job], "QUEUED") /\ Becomes(t.msg.job, "QUEUED")) \/ UNCHANGED status
    BY <1>6 DEF ReportPickup, Swaps
  <2>. QED  BY <1>6, <2>1, <2>2, MoveStep DEF ReportPickup, JobStatuses
<1>7. CASE ReportApply(s)
  <2>. DEFINE j == t.msg.job
              to == ReportedStatus(t.msg.kind)
  <2>1. j \in Job /\ t.msg.kind \in Kinds
    BY <1>0, <1>7, TaskFields DEF ReportApply, Report
  <2>2. (CanTransition(status[j], to) /\ Becomes(j, to)) \/ UNCHANGED status
    BY <1>7 DEF ReportApply, Swaps
  <2>3. UNCHANGED <<stored, evidence>>
    BY <1>7 DEF ReportApply
  <2>4. CASE to = "PRINTED"
    <3>1. evidence[j] # {}
      BY <1>7, <2>1, <2>4 DEF ReportApply, ReportedStatus, PipelineInv, TasksAreSound, TaskSound, ReportSound
    <3>2. CASE CanTransition(status[j], to) /\ Becomes(j, to)
      <4>1. Cycle!Complete(j)
        BY <2>3, <2>4, <3>1, <3>2
           DEF Cycle!Complete, Cycle!CanTransition, CanTransition, Becomes
      <4>. QED  BY <2>1, <4>1 DEF Cycle!LNext
    <3>. QED  BY <2>2, <2>3, <3>2, StutterStep
  <2>5. CASE to # "PRINTED"
    <3>1. to \in JobStatuses \ {"PRINTED", "DELETED", "CANCELLED"}
      BY <2>1, <2>5 DEF ReportedStatus, Kinds, JobStatuses
    <3>. HIDE DEF to
    <3>. QED  BY <2>1, <2>2, <2>3, <3>1, MoveStep
  <2>. QED  BY <2>4, <2>5
<1>8. CASE ReportChain(s)
  <2>1. t.msg.job \in Job
    BY <1>0, <1>8, TaskFields DEF ReportChain, Report
  <2>2. \/ CanTransition(status[t.msg.job], "RETENTION_PENDING") /\ Becomes(t.msg.job, "RETENTION_PENDING")
        \/ UNCHANGED status
    BY <1>8 DEF ReportChain, Swaps
  <2>. QED  BY <1>8, <2>1, <2>2, MoveStep DEF ReportChain, JobStatuses
<1>9. CASE ReconcileFinish(s)
  <2>1. t.job \in Job
    BY <1>0, <1>9, TaskFields DEF ReconcileFinish
  <2>2. \/ CanTransition(status[t.job], "RETENTION_PENDING") /\ Becomes(t.job, "RETENTION_PENDING")
        \/ UNCHANGED status
    BY <1>9 DEF ReconcileFinish, Swaps
  <2>. QED  BY <1>9, <2>1, <2>2, MoveStep DEF ReconcileFinish, JobStatuses
<1>10. ASSUME NEW d \in Doc, SweepErase(s, d) PROVE [Cycle!LNext]_(Cycle!lvars)
  <2>1. t.op = "erase" /\ t.job \in Job
    BY <1>0, <1>10, TaskFields DEF SweepErase
  <2>2. status[t.job] \in Cycle!Retained /\ d \in Docs[t.job]
    BY <1>10, <2>1 DEF SweepErase, PipelineInv, TasksAreSound, TaskSound
  <2>3. CASE UNCHANGED stored
    BY <1>10, <2>3, StutterStep DEF SweepErase
  <2>4. CASE stored' = stored \ {d} /\ status[t.job] = "RETENTION_PENDING"
    <3>1. Cycle!Erase(t.job, d)
      BY <1>10, <2>4 DEF SweepErase, Cycle!Erase
    <3>. QED  BY <2>1, <2>2, <3>1 DEF Cycle!LNext
  <2>5. CASE stored' = stored \ {d} /\ status[t.job] # "RETENTION_PENDING"
    <3>1. Docs[t.job] \cap stored = {}
      BY <2>1, <2>2, <2>5 DEF Cycle!Retained, PipelineInv, Cycle!LInv, Cycle!ClosedIsEmpty
    <3>2. UNCHANGED stored
      BY <2>2, <2>5, <3>1
    <3>. QED  BY <1>10, <3>2, StutterStep DEF SweepErase
  <2>. QED  BY <1>10, <2>3, <2>4, <2>5 DEF SweepErase
<1>11. CASE SweepClose(s)
  <2>1. t.op = "erase" /\ t.job \in Job
    BY <1>0, <1>11, TaskFields DEF SweepClose
  <2>2. CASE /\ ~t.failed
             /\ status[t.job] = "RETENTION_PENDING"
             /\ Becomes(t.job, "DELETED")
    <3>1. Docs[t.job] \cap stored = {}
      BY <1>11, <2>1, <2>2 DEF SweepClose, PipelineInv, TasksAreSound, TaskSound, TypeInv, TypeOK
    <3>2. Cycle!Close(t.job)
      BY <1>11, <2>2, <3>1 DEF SweepClose, Cycle!Close, Becomes
    <3>. QED  BY <2>1, <3>2 DEF Cycle!LNext
  <2>. QED  BY <1>11, <2>2, StutterStep DEF SweepClose, Swaps
<1>. QED
  BY <1>1, <1>2, <1>3, <1>4, <1>5, <1>6, <1>7, <1>8, <1>9, <1>10, <1>11 DEF HandlerStep

LEMMA HandlerStartRefines ==
    ASSUME PipelineInv, NEW s \in Slot, HandlerStart(s)
    PROVE  [Cycle!LNext]_(Cycle!lvars)
<1>. USE DEF dbVars, docVars, linkVars, agentVars
<1>1. ASSUME NEW j \in Job, ConfirmCreate(s, j) PROVE [Cycle!LNext]_(Cycle!lvars)
  <2>1. Cycle!Confirm(j)
    BY <1>1 DEF ConfirmCreate, Becomes, Cycle!Confirm
  <2>. QED  BY <2>1 DEF Cycle!LNext
<1>2. ASSUME NEW j \in Job, TriggerRead(s, j) \/ SweepRead(s, j) PROVE [Cycle!LNext]_(Cycle!lvars)
  BY <1>2, StutterStep DEF TriggerRead, SweepRead
<1>3. ASSUME NEW j \in Job, NEW to \in {"PRINTED", "PRINT_FAILED"}, Reconcile(s, j, to)
      PROVE  [Cycle!LNext]_(Cycle!lvars)
  <2>1. CASE to = "PRINTED"
    <3>1. Cycle!Complete(j)
      BY <1>3, <2>1 DEF Reconcile, Swaps, Becomes, Cycle!Complete, Cycle!CanTransition
    <3>. QED  BY <3>1 DEF Cycle!LNext
  <2>2. CASE to = "PRINT_FAILED"
    BY <1>3, <2>2, MoveStep DEF Reconcile, Swaps, JobStatuses
  <2>. QED  BY <2>1, <2>2
<1>4. ASSUME NEW e \in queue, DispatchRead(s, e) PROVE [Cycle!LNext]_(Cycle!lvars)
  BY <1>4, StutterStep DEF DispatchRead
<1>5. ASSUME NEW m \in net, ReportRead(s, m) PROVE [Cycle!LNext]_(Cycle!lvars)
  BY <1>5, StutterStep DEF ReportRead
<1>. QED  BY <1>1, <1>2, <1>3, <1>4, <1>5 DEF HandlerStart

LEMMA AgentStepRefines ==
    ASSUME PipelineInv, NEW p \in Printer, AgentStep(p)
    PROVE  [Cycle!LNext]_(Cycle!lvars)
<1>. USE DEF dbVars, docVars, linkVars, agentVars
<1>1. PICK j \in Job : SendReport(p, j) \/ Proceed(p, j) \/ ReportFails(p, j) \/ PrintDocuments(p, j)
  BY DEF AgentStep
<1>2. CASE SendReport(p, j) \/ Proceed(p, j) \/ ReportFails(p, j)
  BY <1>2, StutterStep DEF SendReport, Proceed, ReportFails
<1>3. CASE PrintDocuments(p, j)
  <2>1. UNCHANGED evidence \/ evidence' = [evidence EXCEPT ![j] = @ \cup {"paper"}]
    BY <1>3 DEF PrintDocuments
  <2>2. CASE evidence' = [evidence EXCEPT ![j] = @ \cup {"paper"}]
    <3>1. Cycle!SeePaper(j)
      BY <1>3, <2>2 DEF PrintDocuments, Cycle!SeePaper
    <3>. QED  BY <3>1 DEF Cycle!LNext
  <2>3. CASE UNCHANGED evidence
    BY <1>3, <2>3, StutterStep DEF PrintDocuments
  <2>. QED  BY <2>1, <2>2, <2>3
<1>. QED  BY <1>1, <1>2, <1>3

LEMMA EnvironmentRefines ==
    ASSUME PipelineInv, Environment
    PROVE  [Cycle!LNext]_(Cycle!lvars)
<1>. USE DEF dbVars, docVars, linkVars, agentVars
<1>1. CASE ClearHistory
  <2>. DEFINE cleared == {j \in Job : status[j] \in {"DELETED", "CANCELLED"}}
  <2>1. Cycle!Clear(cleared)
    BY <1>1 DEF ClearHistory, Cycle!Clear
  <2>. QED  BY <2>1 DEF Cycle!LNext
<1>2. ASSUME NEW j \in Job, FlagStalePrinting(j) PROVE [Cycle!LNext]_(Cycle!lvars)
  BY <1>2, MoveStep DEF FlagStalePrinting, Swaps, JobStatuses
<1>3. CASE ~ClearHistory /\ ~(\E j \in Job : FlagStalePrinting(j))
  <2>1. UNCHANGED <<status, stored, evidence>>
    BY <1>3 DEF Environment, HandlerFails, Connect, LinkBreaks, HandleDisconnect, RemovePrinter,
       AgentRestart, Poll, Receive, ReportLost, Crash
  <2>. QED  BY <2>1, StutterStep
<1>. QED  BY <1>1, <1>2, <1>3

LEMMA NextRefines == PipelineInv /\ [Next]_vars => [Cycle!LNext]_(Cycle!lvars)
<1>. SUFFICES ASSUME PipelineInv, [Next]_vars PROVE [Cycle!LNext]_(Cycle!lvars)
  OBVIOUS
<1>1. CASE UNCHANGED vars
  BY <1>1, StutterStep DEF vars
<1>. QED
  BY <1>1, HandlerStepRefines, HandlerStartRefines, AgentStepRefines, EnvironmentRefines DEF Next
-----------------------------------------------------------------------------
(* -------- the invariant is inductive ----------------------------------- *)

\* A step keeps the lifecycle's invariant, and with it what no step undoes.
LEMMA Monotone ==
    ASSUME PipelineInv, [Next]_vars
    PROVE  /\ Cycle!LInv'
           /\ stored' \subseteq stored
           /\ \A j \in Job : /\ status[j] \in Cycle!Retained => status'[j] \in Cycle!Retained
                             /\ evidence[j] \subseteq evidence'[j]
<1>1. Cycle!LInv /\ [Cycle!LNext]_(Cycle!lvars)
  BY NextRefines DEF PipelineInv
<1>2. ASSUME NEW j \in Job
      PROVE  /\ status[j] \in Cycle!Retained => status'[j] \in Cycle!Retained
             /\ evidence[j] \subseteq evidence'[j]
  BY <1>1, Cycle!RetainedStays
<1>3. stored' \subseteq stored
  BY <1>1, Cycle!StoredShrinks
<1>. QED  BY <1>1, <1>2, <1>3, Cycle!LNextInv

\* So what was justified stays justified.
LEMMA TaskStable ==
    ASSUME PipelineInv, [Next]_vars, NEW t \in Task, TaskSound(t, status, stored, evidence)
    PROVE  TaskSound(t, status', stored', evidence')
BY Monotone, TaskFields DEF TaskSound, ReportSound, Report

LEMMA WorkStable ==
    ASSUME PipelineInv, [Next]_vars, NEW w, NEW j \in Job, WorkSound(w, j, status, evidence)
    PROVE  WorkSound(w, j, status', evidence')
BY Monotone DEF WorkSound

LEMMA ReportStable ==
    ASSUME PipelineInv, [Next]_vars, NEW m \in Report, ReportSound(m, evidence)
    PROVE  ReportSound(m, evidence')
BY Monotone DEF ReportSound, Report

LEMMA TasksStable ==
    ASSUME PipelineInv, [Next]_vars, UNCHANGED task
    PROVE  TasksAreSound'
BY TaskStable DEF PipelineInv, TypeInv, TypeOK, TasksAreSound

LEMMA GoesSound ==
    ASSUME PipelineInv, [Next]_vars, NEW s \in Slot, NEW t,
           TaskSound(t, status', stored', evidence'), Goes(s, t)
    PROVE  TasksAreSound'
<1>. SUFFICES ASSUME NEW r \in Slot PROVE TaskSound(task'[r], status', stored', evidence')
  BY DEF TasksAreSound
<1>1. CASE r = s
  BY <1>1 DEF PipelineInv, TypeInv, TypeOK, Goes
<1>2. CASE r # s
  <2>1. task'[r] = task[r] /\ task[r] \in Task /\ TaskSound(task[r], status, stored, evidence)
    BY <1>2 DEF PipelineInv, TypeInv, TypeOK, Goes, TasksAreSound
  <2>. QED  BY <2>1, TaskStable
<1>. QED  BY <1>1, <1>2

\* A request that neither reports nor sweeps next has nothing to justify.
LEMMA PlainSound ==
    ASSUME PipelineInv, [Next]_vars, NEW s \in Slot, NEW t,
           t.op \notin {"report", "chain", "erase"}, Goes(s, t)
    PROVE  TasksAreSound'
<1>1. TaskSound(t, status', stored', evidence')
  BY DEF TaskSound
<1>. QED  BY <1>1, GoesSound

LEMMA DoneSound ==
    ASSUME PipelineInv, [Next]_vars, NEW s \in Slot, Done(s)
    PROVE  TasksAreSound'
BY PlainSound DEF Done, Idle

LEMMA ReportsStable ==
    ASSUME PipelineInv, [Next]_vars, net' \subseteq net
    PROVE  ReportsAreSound'
BY ReportStable DEF PipelineInv, TypeInv, TypeOK, ReportsAreSound

LEMMA WorkUnchanged ==
    ASSUME PipelineInv, [Next]_vars, UNCHANGED work
    PROVE  WorkIsSound'
BY WorkStable DEF PipelineInv, WorkIsSound

LEMMA OneWorkSound ==
    ASSUME PipelineInv, [Next]_vars, NEW p \in Printer, NEW j \in Job, NEW w,
           work' = [work EXCEPT ![p][j] = w], WorkSound(w, j, status', evidence')
    PROVE  WorkIsSound'
<1>. SUFFICES ASSUME NEW q \in Printer, NEW i \in Job
              PROVE  WorkSound(work'[q][i], i, status', evidence')
  BY DEF WorkIsSound
<1>1. CASE q = p /\ i = j
  <2>1. work'[q][i] = w
    BY <1>1 DEF PipelineInv, TypeInv, TypeOK
  <2>. QED  BY <1>1, <2>1
<1>2. CASE ~(q = p /\ i = j)
  <2>1. work'[q][i] = work[q][i] /\ WorkSound(work[q][i], i, status, evidence)
    BY <1>2 DEF PipelineInv, TypeInv, TypeOK, WorkIsSound
  <2>. QED  BY <2>1, WorkStable
<1>. QED  BY <1>1, <1>2

\* An answer to a PRINTED report may be given once the order is retained.
LEMMA AnswerSound ==
    ASSUME PipelineInv, [Next]_vars, NEW m \in Report, Answer(m) \/ UNCHANGED work,
           m.kind = "PRINTED" => status'[m.job] \in Cycle!Retained
    PROVE  WorkIsSound'
<1>. DEFINE w == work[m.printer][m.job]
            a == [w EXCEPT !.call = "ok"]
<1>1. m.printer \in Printer /\ m.job \in Job /\ w \in Work
  BY DEF Report, PipelineInv, TypeInv, TypeOK
<1>2. CASE UNCHANGED work
  BY <1>2, WorkUnchanged
<1>3. CASE StageKind(w.stage) = m.kind /\ work' = [work EXCEPT ![m.printer][m.job] = a]
  <2>1. WorkSound(w, m.job, status', evidence')
    BY <1>1, WorkStable DEF PipelineInv, WorkIsSound
  <2>2. a.stage = w.stage
    BY <1>1 DEF Work
  <2>3. w.stage = "printed" => m.kind = "PRINTED"
    BY <1>3 DEF StageKind
  <2>4. WorkSound(a, m.job, status', evidence')
    BY <2>1, <2>2, <2>3 DEF WorkSound
  <2>. QED  BY <1>1, <1>3, <2>4, OneWorkSound
<1>. QED  BY <1>2, <1>3 DEF Answer
SoundInv == ReportsAreSound /\ TasksAreSound /\ WorkIsSound

LEMMA HandlerStepSound ==
    ASSUME PipelineInv, Next, NEW s \in Slot, HandlerStep(s)
    PROVE  SoundInv'
<1>. DEFINE t == task[s]
<1>. USE DEF dbVars, docVars, linkVars, agentVars, SoundInv
<1>0. t \in Task /\ TaskSound(t, status, stored, evidence)
  BY DEF PipelineInv, TypeInv, TypeOK, TasksAreSound
<1>1. CASE ConfirmEligible(s)
  <2>1. Done(s) \/ Goes(s, [op |-> "press", job |-> t.job])
    BY <1>1 DEF ConfirmEligible
  <2>2. TasksAreSound'
    BY <2>1, DoneSound, PlainSound
  <2>. QED  BY <1>1, <2>2, ReportsStable, WorkUnchanged DEF ConfirmEligible
<1>2. CASE TriggerGivesUp(s) \/ TriggerEnqueue(s) \/ DispatchOffline(s) \/ DispatchPush(s)
           \/ ReconcileFinish(s) \/ SweepClose(s)
  <2>1. Done(s) /\ UNCHANGED <<net, work>>
    BY <1>2 DEF TriggerGivesUp, TriggerEnqueue, DispatchOffline, DispatchPush, ReconcileFinish,
       SweepClose
  <2>. QED  BY <2>1, DoneSound, ReportsStable, WorkUnchanged
<1>3. CASE TriggerQueue(s)
  <2>1. Done(s) \/ Goes(s, [op |-> "enqueue", job |-> t.job, id |-> attempt[t.job] + 1])
    BY <1>3 DEF TriggerQueue
  <2>2. TasksAreSound'
    BY <2>1, DoneSound, PlainSound
  <2>. QED  BY <1>3, <2>2, ReportsStable, WorkUnchanged DEF TriggerQueue
<1>4. CASE ReportPickup(s)
  <2>1. Done(s) \/ Goes(s, [t EXCEPT !.seen = "QUEUED"])
    BY <1>4 DEF ReportPickup
  <2>2. t.op = "report" /\ TaskSound(t, status', stored', evidence')
    BY <1>0, <1>4, TaskStable DEF ReportPickup
  <2>3. /\ [t EXCEPT !.seen = "QUEUED"].op = "report"
        /\ [t EXCEPT !.seen = "QUEUED"].msg = t.msg
    BY <1>0, <2>2 DEF Task
  <2>4. TaskSound([t EXCEPT !.seen = "QUEUED"], status', stored', evidence')
    BY <2>2, <2>3 DEF TaskSound
  <2>5. TasksAreSound'
    BY <2>1, <2>4, DoneSound, GoesSound
  <2>. QED  BY <1>4, <2>5, ReportsStable, WorkUnchanged DEF ReportPickup
<1>5. CASE ReportApply(s)
  <2>1. t.op = "report" /\ t.msg \in Report /\ TaskSound(t, status', stored', evidence')
    BY <1>0, <1>5, TaskFields, TaskStable DEF ReportApply
  <2>2. TasksAreSound'
    <3>1. \/ Done(s)
          \/ t.msg.kind = "PRINTED" /\ Goes(s, [t EXCEPT !.op = "chain"])
      BY <1>5, <2>1 DEF ReportApply, ReportedStatus
    <3>2. [t EXCEPT !.op = "chain"].op = "chain" /\ [t EXCEPT !.op = "chain"].msg = t.msg
      BY <1>0, <2>1 DEF Task
    <3>3. t.msg.kind = "PRINTED" => TaskSound([t EXCEPT !.op = "chain"], status', stored', evidence')
      BY <2>1, <3>2 DEF TaskSound
    <3>. QED  BY <3>1, <3>3, DoneSound, GoesSound
  <2>3. WorkIsSound'
    <3>1. \/ UNCHANGED work
          \/ Answer(t.msg) /\ t.msg.kind # "PRINTED"
      BY <1>5 DEF ReportApply, ReportedStatus
    <3>. QED  BY <2>1, <3>1, AnswerSound, WorkUnchanged
  <2>. QED  BY <1>5, <2>2, <2>3, ReportsStable DEF ReportApply
<1>6. CASE ReportChain(s)
  <2>1. t.msg \in Report /\ t.msg.job \in Job
    BY <1>0, <1>6, TaskFields DEF ReportChain, Report
  <2>2. \/ UNCHANGED work
        \/ Answer(t.msg) /\ status' = [status EXCEPT ![t.msg.job] = "RETENTION_PENDING"]
    BY <1>6 DEF ReportChain, Becomes
  <2>3. status' = [status EXCEPT ![t.msg.job] = "RETENTION_PENDING"]
           => status'[t.msg.job] \in Cycle!Retained
    BY <2>1 DEF PipelineInv, TypeInv, TypeOK, Cycle!Retained
  <2>4. WorkIsSound'
    BY <2>1, <2>2, <2>3, AnswerSound, WorkUnchanged
  <2>. QED  BY <1>6, <2>4, DoneSound, ReportsStable DEF ReportChain
<1>7. ASSUME NEW d \in Doc, SweepErase(s, d) PROVE SoundInv'
  <2>. DEFINE u == [t EXCEPT !.rest = t.rest \ {d}]
              v == [t EXCEPT !.rest = t.rest \ {d}, !.failed = TRUE]
  <2>1. t.op = "erase" /\ t.job \in Job /\ TaskSound(t, status', stored', evidence')
    BY <1>0, <1>7, TaskFields, TaskStable DEF SweepErase
  <2>2. /\ u.op = "erase" /\ u.job = t.job /\ u.rest = t.rest \ {d} /\ u.failed = t.failed
        /\ v.op = "erase" /\ v.job = t.job /\ v.rest = t.rest \ {d} /\ v.failed = TRUE
    BY <1>0, <2>1 DEF Task
  <2>3. \/ Goes(s, u) /\ stored' = stored \ {d}
        \/ Goes(s, v)
        \/ Done(s)
    BY <1>7 DEF SweepErase
  <2>4. CASE Goes(s, u) /\ stored' = stored \ {d}
    <3>1. TaskSound(u, status', stored', evidence')
      BY <2>1, <2>2, <2>4 DEF TaskSound
    <3>. QED  BY <1>7, <2>4, <3>1, GoesSound, ReportsStable, WorkUnchanged DEF SweepErase
  <2>5. CASE Goes(s, v)
    <3>1. TaskSound(v, status', stored', evidence')
      BY <2>1, <2>2 DEF TaskSound
    <3>. QED  BY <1>7, <2>5, <3>1, GoesSound, ReportsStable, WorkUnchanged DEF SweepErase
  <2>6. CASE Done(s)
    BY <1>7, <2>6, DoneSound, ReportsStable, WorkUnchanged DEF SweepErase
  <2>. QED  BY <2>3, <2>4, <2>5, <2>6
<1>. QED  BY <1>1, <1>2, <1>3, <1>4, <1>5, <1>6, <1>7 DEF HandlerStep

LEMMA HandlerStartSound ==
    ASSUME PipelineInv, Next, NEW s \in Slot, HandlerStart(s)
    PROVE  SoundInv'
<1>. USE DEF dbVars, docVars, linkVars, agentVars, SoundInv
<1>1. ASSUME NEW j \in Job, ConfirmCreate(s, j) PROVE SoundInv'
  <2>1. TasksAreSound'
    BY <1>1, PlainSound DEF ConfirmCreate, Begins
  <2>. QED  BY <1>1, <2>1, ReportsStable, WorkUnchanged DEF ConfirmCreate
<1>2. ASSUME NEW j \in Job, TriggerRead(s, j) PROVE SoundInv'
  <2>1. PICK p : Goes(s, [op |-> "queue", job |-> j, seen |-> status[j], printer |-> p])
    BY <1>2 DEF TriggerRead, Begins
  <2>2. TasksAreSound'
    BY <2>1, PlainSound
  <2>. QED  BY <1>2, <2>2, ReportsStable, WorkUnchanged DEF TriggerRead
<1>3. ASSUME NEW j \in Job, SweepRead(s, j) PROVE SoundInv'
  <2>. DEFINE t == [op |-> "erase", job |-> j, rest |-> Docs[j] \ deleted, failed |-> FALSE]
  <2>1. TaskSound(t, status', stored', evidence')
    BY <1>3 DEF SweepRead, TaskSound, Cycle!Retained, PipelineInv, DeletedIsGone
  <2>2. TasksAreSound'
    BY <1>3, <2>1, GoesSound DEF SweepRead, Begins
  <2>. QED  BY <1>3, <2>2, ReportsStable, WorkUnchanged DEF SweepRead
<1>4. ASSUME NEW j \in Job, NEW to \in {"PRINTED", "PRINT_FAILED"}, Reconcile(s, j, to)
      PROVE  SoundInv'
  <2>1. Goes(s, [op |-> "finish", job |-> j]) \/ UNCHANGED task
    BY <1>4 DEF Reconcile
  <2>2. TasksAreSound'
    BY <2>1, PlainSound, TasksStable
  <2>. QED  BY <1>4, <2>2, ReportsStable, WorkUnchanged DEF Reconcile
<1>5. ASSUME NEW e \in queue, DispatchRead(s, e) PROVE SoundInv'
  <2>1. \/ UNCHANGED task
        \/ Goes(s, [op |-> "push", entry |-> e, printer |-> target[e.job], no |-> attempt[e.job]])
        \/ Goes(s, [op |-> "offline", entry |-> e])
    BY <1>5 DEF DispatchRead, Begins
  <2>2. TasksAreSound'
    BY <2>1, PlainSound, TasksStable
  <2>. QED  BY <1>5, <2>2, ReportsStable, WorkUnchanged DEF DispatchRead
<1>6. ASSUME NEW m \in net, ReportRead(s, m) PROVE SoundInv'
  <2>. DEFINE t == [op |-> "report", msg |-> m, seen |-> status[m.job]]
  <2>1. UNCHANGED task \/ Goes(s, t)
    BY <1>6 DEF ReportRead, Begins
  <2>2. ReportSound(m, evidence')
    BY ReportStable DEF PipelineInv, TypeInv, TypeOK, ReportsAreSound
  <2>3. TaskSound(t, status', stored', evidence')
    BY <2>2 DEF TaskSound
  <2>4. TasksAreSound'
    BY <2>1, <2>3, GoesSound, TasksStable
  <2>. QED  BY <1>6, <2>4, ReportsStable, WorkUnchanged DEF ReportRead
<1>. QED  BY <1>1, <1>2, <1>3, <1>4, <1>5, <1>6 DEF HandlerStart

LEMMA AgentStepSound ==
    ASSUME PipelineInv, Next, NEW p \in Printer, AgentStep(p)
    PROVE  SoundInv'
<1>. USE DEF dbVars, docVars, linkVars, agentVars, SoundInv
<1>1. PICK j \in Job : SendReport(p, j) \/ Proceed(p, j) \/ ReportFails(p, j) \/ PrintDocuments(p, j)
  BY DEF AgentStep
<1>. DEFINE w == work[p][j]
<1>2. w \in Work /\ WorkSound(w, j, status', evidence')
  BY WorkStable DEF PipelineInv, TypeInv, TypeOK, WorkIsSound
<1>3. ASSUME NEW stage, NEW n, Enter(p, j, stage, n), stage = "printed" => evidence'[j] # {}
      PROVE  WorkIsSound'
  <2>1. WorkSound([stage |-> stage, no |-> w.no, call |-> "none", left |-> n], j, status', evidence')
    BY <1>3 DEF WorkSound
  <2>. QED  BY <1>3, <2>1, OneWorkSound DEF Enter
<1>4. ASSUME Leave(p, j) PROVE WorkIsSound'
  <2>1. WorkSound(NoWork, j, status', evidence')
    BY DEF WorkSound, NoWork
  <2>. QED  BY <1>4, <2>1, OneWorkSound DEF Leave
<1>5. CASE SendReport(p, j)
  <2>. DEFINE m == [printer |-> p, job |-> j, kind |-> StageKind(w.stage), no |-> w.no, try |-> w.left]
              v == [w EXCEPT !.call = "sent"]
  <2>1. v.stage = w.stage /\ v.call = "sent"
    BY <1>2 DEF Work
  <2>2. WorkSound(v, j, status', evidence')
    BY <1>2, <2>1 DEF WorkSound
  <2>3. WorkIsSound'
    BY <1>5, <2>2, OneWorkSound DEF SendReport
  <2>4. ReportSound(m, evidence')
    BY <1>2 DEF ReportSound, WorkSound, StageKind
  <2>5. ReportsAreSound'
    <3>1. net' = net \cup {m}
      BY <1>5 DEF SendReport
    <3>2. \A r \in net : ReportSound(r, evidence')
      BY ReportStable DEF PipelineInv, TypeInv, TypeOK, ReportsAreSound
    <3>. QED  BY <2>4, <3>1, <3>2 DEF ReportsAreSound
  <2>. QED  BY <1>5, <2>3, <2>5, TasksStable DEF SendReport
<1>6. CASE Proceed(p, j)
  <2>1. WorkIsSound'
    BY <1>3, <1>4, <1>6 DEF Proceed
  <2>. QED  BY <1>6, <2>1, TasksStable, ReportsStable DEF Proceed
<1>7. CASE ReportFails(p, j)
  <2>1. w.stage = "printed" => evidence'[j] # {}
    BY <1>2 DEF WorkSound
  <2>2. WorkIsSound'
    BY <1>3, <1>4, <1>7, <2>1 DEF ReportFails
  <2>. QED  BY <1>7, <2>2, TasksStable, ReportsStable DEF ReportFails
<1>8. CASE PrintDocuments(p, j)
  <2>1. \/ Enter(p, j, "printed", ReportTries + 1) /\ evidence'[j] # {}
        \/ Enter(p, j, "failed", ReportTries)
        \/ Enter(p, j, "unknown", ReportTries)
    BY <1>8 DEF PrintDocuments, PipelineInv, TypeInv, TypeOK
  <2>2. WorkIsSound'
    BY <1>3, <2>1
  <2>. QED  BY <1>8, <2>2, TasksStable, ReportsStable DEF PrintDocuments
<1>. QED  BY <1>1, <1>5, <1>6, <1>7, <1>8

LEMMA EnvironmentSound ==
    ASSUME PipelineInv, Next, Environment
    PROVE  SoundInv'
<1>. USE DEF dbVars, docVars, linkVars, agentVars, SoundInv
<1>1. ASSUME NEW s \in Slot, HandlerFails(s) PROVE SoundInv'
  BY <1>1, DoneSound, ReportsStable, WorkUnchanged DEF HandlerFails
<1>2. ASSUME NEW p \in Printer, AgentRestart(p) PROVE SoundInv'
  <2>1. ReportsAreSound'
    <3>1. SUFFICES ASSUME NEW m \in net PROVE ReportSound(Orphan(m, p), evidence')
      BY <1>2 DEF AgentRestart, ReportsAreSound
    <3>2. m \in Report /\ ReportSound(m, evidence')
      BY ReportStable DEF PipelineInv, TypeInv, TypeOK, ReportsAreSound
    <3>. QED  BY <3>2, OrphanType DEF ReportSound
  <2>2. TasksAreSound'
    <3>1. SUFFICES ASSUME NEW r \in Slot PROVE TaskSound(task'[r], status', stored', evidence')
      BY DEF TasksAreSound
    <3>. DEFINE t == task[r]
    <3>2. t \in Task /\ TaskSound(t, status', stored', evidence')
      BY TaskStable DEF PipelineInv, TypeInv, TypeOK, TasksAreSound
    <3>3. CASE t.op \in {"report", "chain"}
      <4>. DEFINE u == [t EXCEPT !.msg = Orphan(t.msg, p)]
      <4>1. task'[r] = u
        BY <1>2, <3>3 DEF AgentRestart
      <4>2. u.op = t.op /\ u.msg = Orphan(t.msg, p) /\ t.msg \in Report
        BY <3>2, <3>3, TaskFields DEF Task
      <4>3. u.msg.job = t.msg.job /\ u.msg.kind = t.msg.kind
        BY <4>2, OrphanType
      <4>. QED  BY <3>2, <3>3, <4>1, <4>2, <4>3 DEF TaskSound, ReportSound
    <3>4. CASE t.op \notin {"report", "chain"}
      BY <1>2, <3>2, <3>4 DEF AgentRestart
    <3>. QED  BY <3>3, <3>4
  <2>3. WorkIsSound'
    <3>1. SUFFICES ASSUME NEW q \in Printer, NEW i \in Job
                   PROVE  WorkSound(work'[q][i], i, status', evidence')
      BY DEF WorkIsSound
    <3>2. work'[q][i] = NoWork \/ work'[q][i] = work[q][i]
      BY <1>2 DEF AgentRestart, PipelineInv, TypeInv, TypeOK
    <3>3. WorkSound(work[q][i], i, status', evidence')
      BY WorkStable DEF PipelineInv, WorkIsSound
    <3>. QED  BY <3>2, <3>3 DEF WorkSound, NoWork
  <2>. QED  BY <2>1, <2>2, <2>3
<1>3. ASSUME NEW m \in inbox, Receive(m) PROVE SoundInv'
  <2>. DEFINE w == [stage |-> "accept", no |-> m.no, call |-> "none", left |-> 1]
  <2>1. m.printer \in Printer /\ m.job \in Job
    BY DEF PipelineInv, TypeInv, TypeOK, Payload
  <2>2. UNCHANGED work \/ work' = [work EXCEPT ![m.printer][m.job] = w]
    BY <1>3 DEF Receive
  <2>3. WorkSound(w, m.job, status', evidence')
    BY DEF WorkSound
  <2>4. WorkIsSound'
    BY <2>1, <2>2, <2>3, OneWorkSound, WorkUnchanged
  <2>. QED  BY <1>3, <2>4, TasksStable, ReportsStable DEF Receive
<1>4. CASE Crash
  <2>1. TasksAreSound'
    BY <1>4 DEF Crash, TasksAreSound, TaskSound, Idle
  <2>. QED  BY <1>4, <2>1, ReportsStable, WorkUnchanged DEF Crash
<1>5. CASE \/ \E p \in Printer : \/ Connect(p) \/ LinkBreaks(p) \/ HandleDisconnect(p)
                                 \/ RemovePrinter(p)
                                 \/ \E j \in Job : Poll(p, j)
           \/ \E m \in net : ReportLost(m)
           \/ ClearHistory
           \/ \E j \in Job : FlagStalePrinting(j)
  <2>1. UNCHANGED <<task, work>> /\ net' \subseteq net
    BY <1>5 DEF Connect, LinkBreaks, HandleDisconnect, RemovePrinter, Poll, ReportLost,
       ClearHistory, FlagStalePrinting
  <2>. QED  BY <2>1, TasksStable, ReportsStable, WorkUnchanged
<1>. QED  BY <1>1, <1>2, <1>3, <1>4, <1>5 DEF Environment

LEMMA InitPipelineInv == Init => PipelineInv
<1>. SUFFICES ASSUME Init PROVE PipelineInv
  OBVIOUS
<1>1. Cycle!LInv
  <2>1. Cycle!LInit
    BY DEF Init, Cycle!LInit
  <2>. QED  BY <2>1, Cycle!LInitInv
<1>. QED
  BY <1>1, InitType DEF Init, Idle, NoWork, PipelineInv, ReportsAreSound, TasksAreSound, TaskSound,
     WorkIsSound, WorkSound, DeletedIsGone

\* A row is marked DELETED only with its object, and no object comes back.
LEMMA DeletedStays ==
    ASSUME PipelineInv, [Next]_vars
    PROVE  DeletedIsGone'
<1>. USE DEF dbVars, docVars, linkVars, agentVars
<1>1. stored' \subseteq stored
  BY Monotone
<1>2. ASSUME NEW s \in Slot, NEW d \in Doc, SweepErase(s, d) PROVE DeletedIsGone'
  BY <1>2 DEF SweepErase, PipelineInv, DeletedIsGone
<1>3. CASE ~(\E s \in Slot, d \in Doc : SweepErase(s, d))
  <2>1. CASE UNCHANGED vars
    BY <2>1 DEF vars, PipelineInv, DeletedIsGone
  <2>2. ASSUME NEW s \in Slot, HandlerStep(s) PROVE deleted' \subseteq deleted
    BY <1>3, <2>2 DEF HandlerStep, ConfirmEligible, TriggerGivesUp, TriggerQueue, TriggerEnqueue,
       DispatchOffline, DispatchPush, ReportPickup, ReportApply, ReportChain, ReconcileFinish,
       SweepClose
  <2>3. ASSUME NEW s \in Slot, HandlerStart(s) PROVE deleted' \subseteq deleted
    BY <2>3 DEF HandlerStart, ConfirmCreate, TriggerRead, SweepRead, Reconcile, DispatchRead, ReportRead
  <2>4. ASSUME NEW p \in Printer, AgentStep(p) PROVE deleted' \subseteq deleted
    BY <2>4 DEF AgentStep, SendReport, Proceed, ReportFails, PrintDocuments
  <2>5. ASSUME Environment PROVE deleted' \subseteq deleted
    BY <2>5 DEF Environment, HandlerFails, Connect, LinkBreaks, HandleDisconnect, RemovePrinter,
       AgentRestart, Poll, Receive, ReportLost, Crash, ClearHistory, FlagStalePrinting
  <2>6. Next => deleted' \subseteq deleted
    BY <2>2, <2>3, <2>4, <2>5 DEF Next
  <2>. QED  BY <1>1, <2>1, <2>6 DEF PipelineInv, DeletedIsGone
<1>. QED  BY <1>2, <1>3

LEMMA NextPipelineInv == PipelineInv /\ [Next]_vars => PipelineInv'
<1>. SUFFICES ASSUME PipelineInv, [Next]_vars PROVE PipelineInv'
  OBVIOUS
<1>1. TypeInv' /\ Cycle!LInv'
  BY NextType, Monotone DEF PipelineInv
<1>2. SoundInv'
  <2>1. CASE Next
    BY <2>1, HandlerStepSound, HandlerStartSound, AgentStepSound, EnvironmentSound DEF Next
  <2>2. CASE UNCHANGED vars
    BY <2>2, TasksStable, ReportsStable, WorkUnchanged DEF vars, SoundInv
  <2>. QED  BY <2>1, <2>2
<1>. QED  BY <1>1, <1>2, DeletedStays DEF PipelineInv, SoundInv

LEMMA Spec_PipelineInv == Spec => []PipelineInv
BY InitPipelineInv, NextPipelineInv, PTL DEF Spec
-----------------------------------------------------------------------------
(* -------- the theorems ------------------------------------------------- *)

\* A document that is gone belongs to an order somebody saw printed.  It need not be
\* every order it belongs to: orders share documents.
ErasedOnlyIfPrinted == \A d \in Doc \ stored : \E j \in Job : d \in Docs[j] /\ evidence[j] # {}

\* "It never deletes solely because a print command was attempted": the sweep takes a
\* document only after paper came out, or the shopkeeper declared it printed, for
\* some order the document is in.
THEOREM Spec_ErasedOnlyIfPrinted == Spec => []ErasedOnlyIfPrinted
<1>1. PipelineInv => ErasedOnlyIfPrinted
  BY DEF PipelineInv, Cycle!LInv, Cycle!ErasedIsRetained, Cycle!FinishedHasEvidence,
     Cycle!Retained, Cycle!Finished, ErasedOnlyIfPrinted
<1>. QED  BY <1>1, Spec_PipelineInv, PTL

\* A closed order has none of its documents in storage.
THEOREM Spec_ClosedLeavesNothing == Spec => []ClosedLeavesNothing
<1>1. PipelineInv => ClosedLeavesNothing
  BY DEF PipelineInv, Cycle!LInv, Cycle!ClosedIsEmpty, ClosedLeavesNothing
<1>. QED  BY <1>1, Spec_PipelineInv, PTL

\* An order whose PRINTED report was confirmed to the agent is retained.
THEOREM Spec_ConfirmedPrintIsDurable == Spec => []ConfirmedPrintIsDurable
<1>1. PipelineInv => ConfirmedPrintIsDurable
  BY DEF PipelineInv, WorkIsSound, WorkSound, Cycle!Retained, ConfirmedPrintIsDurable
<1>. QED  BY <1>1, Spec_PipelineInv, PTL

\* The pipeline implements the lifecycle: every behaviour of requests, cron jobs,
\* queue, sockets and agents is one the lifecycle of an order allows.
THEOREM Spec_ImplementsLifecycle == Spec => ImplementsLifecycle
<1>1. Init => Lifecycle!LInit
  BY DEF Init, Lifecycle!LInit
<1>2. PipelineInv /\ [Next]_vars => [Lifecycle!LNext]_(Lifecycle!lvars)
  BY NextRefines
     DEF Cycle!LNext, Cycle!lvars, Lifecycle!LNext, Lifecycle!lvars, Cycle!JobStatuses,
         Lifecycle!JobStatuses, Cycle!CanTransition, Lifecycle!CanTransition,
         Cycle!Confirm, Cycle!Move, Cycle!SeePaper, Cycle!Complete, Cycle!Erase, Cycle!Close,
         Cycle!Clear, Lifecycle!Confirm, Lifecycle!Move, Lifecycle!SeePaper, Lifecycle!Complete,
         Lifecycle!Erase, Lifecycle!Close, Lifecycle!Clear
<1>. QED  BY <1>1, <1>2, Spec_PipelineInv, PTL DEF Spec, ImplementsLifecycle, Lifecycle!LSpec
-----------------------------------------------------------------------------
(***************************************************************************)
(* Attempts: clicks, dispatches and agents.                                *)
(***************************************************************************)

\* Attempt n of order j is in the hands of printer p: about to be pushed to its
\* agent, on the way there, or being worked on.
Holds(p, j, n) ==
    \/ \E s \in Slot : /\ task[s].op = "push"
                       /\ task[s].printer = p /\ task[s].entry.job = j /\ task[s].no = n
    \/ \E m \in inbox : m.printer = p /\ m.job = j /\ m.no = n
    \/ work[p][j].stage # "idle" /\ work[p][j].no = n

\* Nobody holds a future attempt, the current one is held only by the printer
\* the order is assigned to, and no attempt is held by two.
HoldersAreSound ==
    \A j \in Job, p \in Printer, n \in Attempts : Holds(p, j, n) =>
        /\ n <= attempt[j]
        /\ n = attempt[j] => p = target[j]
        /\ \A q \in Printer : Holds(q, j, n) => q = p

AttemptInv == TypeInv /\ HoldersAreSound
-----------------------------------------------------------------------------
(* -------- attempts are started by PRINT alone -------------------------- *)

\* Every step but the compare-and-swap of PRINT leaves the attempt, and the
\* printer it is for, alone.
LEMMA AttemptFrame ==
    ASSUME Next, \A s \in Slot : ~TriggerQueue(s)
    PROVE  UNCHANGED <<attempt, target>>
<1>. USE DEF dbVars, docVars, linkVars, agentVars
<1>1. ASSUME NEW s \in Slot, HandlerStep(s) PROVE UNCHANGED <<attempt, target>>
  BY <1>1 DEF HandlerStep, ConfirmEligible, TriggerGivesUp, TriggerEnqueue, DispatchOffline,
     DispatchPush, ReportPickup, ReportApply, ReportChain, ReconcileFinish, SweepErase, SweepClose
<1>2. ASSUME NEW s \in Slot, HandlerStart(s) PROVE UNCHANGED <<attempt, target>>
  BY <1>2 DEF HandlerStart, ConfirmCreate, TriggerRead, SweepRead, Reconcile, DispatchRead, ReportRead
<1>3. ASSUME NEW p \in Printer, AgentStep(p) PROVE UNCHANGED <<attempt, target>>
  BY <1>3 DEF AgentStep, SendReport, Proceed, ReportFails, PrintDocuments
<1>4. CASE Environment
  BY <1>4 DEF Environment, HandlerFails, Connect, LinkBreaks, HandleDisconnect, RemovePrinter,
     AgentRestart, Poll, Receive, ReportLost, Crash, ClearHistory, FlagStalePrinting
<1>. QED  BY <1>1, <1>2, <1>3, <1>4 DEF Next

\* What the compare-and-swap of PRINT does to attempts.
LEMMA AttemptStep ==
    ASSUME TypeInv, NEW s \in Slot, TriggerQueue(s)
    PROVE  LET j == task[s].job IN
           /\ j \in Job
           /\ \/ UNCHANGED <<attempt, target>> /\ Done(s)
              \/ /\ status[j] \in Triggerable
                 /\ attempt' = [attempt EXCEPT ![j] = @ + 1]
                 /\ target' = [target EXCEPT ![j] = task[s].printer]
                 /\ Goes(s, [op |-> "enqueue", job |-> j, id |-> attempt[j] + 1])
<1>1. task[s] \in Task /\ task[s].op = "queue"
  BY DEF TypeInv, TypeOK, TriggerQueue
<1>2. task[s].job \in Job /\ task[s].seen \in Triggerable
  BY <1>1, TaskFields
<1>. QED  BY <1>2 DEF TriggerQueue, Swaps

\* One click wins: PRINT counts an attempt only from a status it starts from.
THEOREM Spec_ClickWinsOnce == Spec => ClickWinsOnce
<1>. DEFINE Wins == \A j \in Job : attempt'[j] # attempt[j] => status[j] \in Triggerable
<1>1. TypeInv /\ [Next]_vars => [Wins]_vars
  <2>. SUFFICES ASSUME TypeInv, Next PROVE Wins
    OBVIOUS
  <2>1. ASSUME NEW s \in Slot, TriggerQueue(s) PROVE Wins
    BY <2>1, AttemptStep DEF TypeInv, TypeOK
  <2>. QED  BY <2>1, AttemptFrame
<1>2. Spec => []TypeInv
  BY InitType, NextType, PTL DEF Spec
<1>. QED  BY <1>1, <1>2, PTL DEF Spec, ClickWinsOnce
-----------------------------------------------------------------------------
(* -------- an attempt has one agent at most ----------------------------- *)

\* The current attempt of j goes to the printer j is assigned to.
Current(p, j, n) == p = target[j] /\ n = attempt[j]

\* A step hands out no attempt but the current one, to the assigned printer.
HandsOutCurrent ==
    \A p \in Printer, j \in Job, n \in Attempts :
        Holds(p, j, n)' => Holds(p, j, n) \/ Current(p, j, n)

\* A step that pushes nothing new, polls nothing, and starts no work.
LEMMA NothingHandedOut ==
    ASSUME \A s \in Slot : task'[s] = task[s] \/ task'[s].op # "push",
           inbox' \subseteq inbox,
           \A p \in Printer, j \in Job :
              work'[p][j].stage # "idle" => work[p][j].stage # "idle" /\ work'[p][j].no = work[p][j].no
    PROVE  HandsOutCurrent
BY DEF HandsOutCurrent, Holds

\* A task changes to one that pushes nothing.
LEMMA GoesElsewhere ==
    ASSUME TypeInv, NEW s \in Slot, NEW t, t.op # "push", Goes(s, t)
    PROVE  \A r \in Slot : task'[r] = task[r] \/ task'[r].op # "push"
BY DEF TypeInv, TypeOK, Goes

LEMMA EndsElsewhere ==
    ASSUME TypeInv, NEW s \in Slot, Done(s)
    PROVE  \A r \in Slot : task'[r] = task[r] \/ task'[r].op # "push"
BY GoesElsewhere DEF Done, Idle

\* An answer moves no work on.
LEMMA AnswerKeeps ==
    ASSUME TypeInv, NEW m \in Report, Answer(m) \/ UNCHANGED work
    PROVE  \A p \in Printer, j \in Job :
              work'[p][j].stage = work[p][j].stage /\ work'[p][j].no = work[p][j].no
<1>. SUFFICES ASSUME NEW p \in Printer, NEW j \in Job
              PROVE  work'[p][j].stage = work[p][j].stage /\ work'[p][j].no = work[p][j].no
  OBVIOUS
<1>. DEFINE a == [work[m.printer][m.job] EXCEPT !.call = "ok"]
<1>1. m.printer \in Printer /\ m.job \in Job
  BY DEF Report
<1>2. UNCHANGED work \/ work' = [work EXCEPT ![m.printer][m.job] = a]
  BY DEF Answer
<1>3. a.stage = work[m.printer][m.job].stage /\ a.no = work[m.printer][m.job].no
  BY <1>1 DEF TypeInv, TypeOK, Work
<1>4. CASE work' = [work EXCEPT ![m.printer][m.job] = a]
  <2>1. work'[p][j] = IF p = m.printer /\ j = m.job THEN a ELSE work[p][j]
    BY <1>1, <1>4 DEF TypeInv, TypeOK
  <2>. HIDE DEF a
  <2>. QED  BY <1>3, <2>1
<1>. QED  BY <1>2, <1>4

LEMMA HandlerStepHands ==
    ASSUME TypeInv, NEW s \in Slot, HandlerStep(s)
    PROVE  HandsOutCurrent
<1>. DEFINE t == task[s]
            Quiet == \A r \in Slot : task'[r] = task[r] \/ task'[r].op # "push"
<1>. USE DEF dbVars, docVars, linkVars, agentVars
<1>0. t \in Task
  BY DEF TypeInv, TypeOK
<1>1. CASE TriggerGivesUp(s) \/ TriggerEnqueue(s) \/ DispatchOffline(s) \/ ReconcileFinish(s)
           \/ SweepClose(s)
  <2>1. Done(s) /\ UNCHANGED <<inbox, work>>
    BY <1>1 DEF TriggerGivesUp, TriggerEnqueue, DispatchOffline, ReconcileFinish, SweepClose
  <2>. QED  BY <2>1, EndsElsewhere, NothingHandedOut
<1>2. CASE ConfirmEligible(s) \/ TriggerQueue(s)
  <2>1. \/ Done(s)
        \/ Goes(s, [op |-> "press", job |-> t.job])
        \/ Goes(s, [op |-> "enqueue", job |-> t.job, id |-> attempt[t.job] + 1])
    BY <1>2 DEF ConfirmEligible, TriggerQueue
  <2>2. UNCHANGED <<inbox, work>>
    BY <1>2 DEF ConfirmEligible, TriggerQueue
  <2>3. Quiet
    BY <2>1, EndsElsewhere, GoesElsewhere
  <2>. QED  BY <2>2, <2>3, NothingHandedOut
<1>3. CASE DispatchPush(s)
  <2>. DEFINE m == [printer |-> t.printer, job |-> t.entry.job, no |-> t.no, via |-> "push"]
  <2>1. Quiet
    BY <1>3, EndsElsewhere DEF DispatchPush
  <2>2. inbox' \subseteq inbox \cup {m} /\ UNCHANGED work /\ t.op = "push"
    BY <1>3 DEF DispatchPush
  <2>. QED  BY <2>1, <2>2 DEF HandsOutCurrent, Holds
<1>4. CASE ReportPickup(s) \/ ReportApply(s) \/ ReportChain(s)
  <2>1. t.op \in {"report", "chain"} /\ t.msg \in Report
    BY <1>0, <1>4, TaskFields DEF ReportPickup, ReportApply, ReportChain
  <2>2. \/ Done(s)
        \/ Goes(s, [t EXCEPT !.seen = "QUEUED"])
        \/ Goes(s, [t EXCEPT !.op = "chain"])
    BY <1>4 DEF ReportPickup, ReportApply, ReportChain
  <2>3. [t EXCEPT !.seen = "QUEUED"].op = t.op /\ [t EXCEPT !.op = "chain"].op = "chain"
    BY <1>0, <2>1 DEF Task
  <2>4. Quiet
    BY <2>1, <2>2, <2>3, EndsElsewhere, GoesElsewhere
  <2>5. UNCHANGED inbox /\ (Answer(t.msg) \/ UNCHANGED work)
    BY <1>4 DEF ReportPickup, ReportApply, ReportChain
  <2>. QED  BY <2>1, <2>4, <2>5, AnswerKeeps, NothingHandedOut
<1>5. ASSUME NEW d \in Doc, SweepErase(s, d) PROVE HandsOutCurrent
  <2>. DEFINE u == [t EXCEPT !.rest = t.rest \ {d}]
              v == [t EXCEPT !.rest = t.rest \ {d}, !.failed = TRUE]
  <2>1. Goes(s, u) \/ Goes(s, v) \/ Done(s)
    BY <1>5 DEF SweepErase
  <2>2. t.op = "erase" /\ UNCHANGED <<inbox, work>>
    BY <1>5 DEF SweepErase
  <2>3. u.op = "erase" /\ v.op = "erase"
    BY <1>0, <2>2 DEF Task
  <2>. HIDE DEF u, v
  <2>. QED  BY <2>1, <2>2, <2>3, EndsElsewhere, GoesElsewhere, NothingHandedOut
<1>. QED  BY <1>1, <1>2, <1>3, <1>4, <1>5 DEF HandlerStep

LEMMA HandlerStartHands ==
    ASSUME TypeInv, NEW s \in Slot, HandlerStart(s)
    PROVE  HandsOutCurrent
<1>. USE DEF dbVars, docVars, linkVars, agentVars
<1>1. ASSUME NEW t, t.op # "push", Goes(s, t) \/ UNCHANGED task, UNCHANGED <<inbox, work>>
      PROVE  HandsOutCurrent
  BY <1>1, GoesElsewhere, NothingHandedOut
<1>2. ASSUME NEW j \in Job, ConfirmCreate(s, j) PROVE HandsOutCurrent
  BY <1>1, <1>2 DEF ConfirmCreate, Begins
<1>3. ASSUME NEW j \in Job, TriggerRead(s, j) PROVE HandsOutCurrent
  <2>1. PICK p : Goes(s, [op |-> "queue", job |-> j, seen |-> status[j], printer |-> p])
    BY <1>3 DEF TriggerRead, Begins
  <2>. QED  BY <1>1, <1>3, <2>1 DEF TriggerRead
<1>4. ASSUME NEW j \in Job, SweepRead(s, j) PROVE HandsOutCurrent
  BY <1>1, <1>4 DEF SweepRead, Begins
<1>5. ASSUME NEW j \in Job, NEW to \in {"PRINTED", "PRINT_FAILED"}, Reconcile(s, j, to)
      PROVE  HandsOutCurrent
  <2>1. Goes(s, [op |-> "finish", job |-> j]) \/ UNCHANGED task
    BY <1>5 DEF Reconcile
  <2>. QED  BY <1>1, <1>5, <2>1 DEF Reconcile
<1>6. ASSUME NEW m \in net, ReportRead(s, m) PROVE HandsOutCurrent
  <2>1. Goes(s, [op |-> "report", msg |-> m, seen |-> status[m.job]]) \/ UNCHANGED task
    BY <1>6 DEF ReportRead, Begins
  <2>. QED  BY <1>1, <1>6, <2>1 DEF ReportRead
<1>7. ASSUME NEW e \in queue, DispatchRead(s, e) PROVE HandsOutCurrent
  <2>. DEFINE t == [op |-> "push", entry |-> e, printer |-> target[e.job], no |-> attempt[e.job]]
  <2>1. UNCHANGED task \/ Goes(s, [op |-> "offline", entry |-> e]) \/ Goes(s, t)
    BY <1>7 DEF DispatchRead, Begins
  <2>2. UNCHANGED <<inbox, work>>
    BY <1>7 DEF DispatchRead
  <2>3. CASE Goes(s, t)
    <3>1. \A r \in Slot : task'[r] = IF r = s THEN t ELSE task[r]
      BY <2>3 DEF Goes, TypeInv, TypeOK
    <3>. QED  BY <2>2, <3>1 DEF HandsOutCurrent, Holds, Current
  <2>. QED  BY <1>1, <2>1, <2>2, <2>3
<1>. QED  BY <1>2, <1>3, <1>4, <1>5, <1>6, <1>7 DEF HandlerStart

LEMMA AgentStepHands ==
    ASSUME TypeInv, NEW p \in Printer, AgentStep(p)
    PROVE  HandsOutCurrent
<1>. USE DEF dbVars, docVars, linkVars, agentVars
<1>1. PICK j \in Job : SendReport(p, j) \/ Proceed(p, j) \/ ReportFails(p, j) \/ PrintDocuments(p, j)
  BY DEF AgentStep
<1>. DEFINE w == work[p][j]
<1>2. UNCHANGED <<task, inbox>>
  BY <1>1 DEF SendReport, Proceed, ReportFails, PrintDocuments
<1>3. \E v : work' = [work EXCEPT ![p][j] = v] /\ (v.stage # "idle" => w.stage # "idle" /\ v.no = w.no)
  <2>1. CASE SendReport(p, j)
    <3>. DEFINE v == [w EXCEPT !.call = "sent"]
    <3>1. v.no = w.no /\ w.stage # "idle"
      BY <2>1 DEF SendReport, TypeInv, TypeOK, Work
    <3>. QED  BY <2>1, <3>1 DEF SendReport
  <2>2. CASE Proceed(p, j) \/ ReportFails(p, j) \/ PrintDocuments(p, j)
    <3>1. w.stage # "idle"
      BY <2>2 DEF Proceed, ReportFails, PrintDocuments
    <3>2. PICK stage, n : Enter(p, j, stage, n) \/ Leave(p, j)
      BY <2>2 DEF Proceed, ReportFails, PrintDocuments
    <3>3. CASE Enter(p, j, stage, n)
      <4>. DEFINE v == [stage |-> stage, no |-> w.no, call |-> "none", left |-> n]
      <4>1. work' = [work EXCEPT ![p][j] = v] /\ v.no = w.no
        BY <3>3 DEF Enter
      <4>. QED  BY <3>1, <4>1
    <3>4. CASE Leave(p, j)
      <4>1. work' = [work EXCEPT ![p][j] = NoWork] /\ NoWork.stage = "idle"
        BY <3>4 DEF Leave, NoWork
      <4>. QED  BY <4>1
    <3>. QED  BY <3>2, <3>3, <3>4
  <2>. QED  BY <1>1, <2>1, <2>2
<1>4. \A q \in Printer, i \in Job :
         work'[q][i].stage # "idle" => work[q][i].stage # "idle" /\ work'[q][i].no = work[q][i].no
  BY <1>3 DEF TypeInv, TypeOK
<1>. QED  BY <1>2, <1>4, NothingHandedOut

LEMMA EnvironmentHands ==
    ASSUME TypeInv, Environment
    PROVE  HandsOutCurrent
<1>. USE DEF dbVars, docVars, linkVars, agentVars
<1>1. ASSUME NEW s \in Slot, HandlerFails(s) PROVE HandsOutCurrent
  BY <1>1, EndsElsewhere, NothingHandedOut DEF HandlerFails
<1>2. ASSUME NEW p \in Printer, AgentRestart(p) PROVE HandsOutCurrent
  <2>1. \A q \in Printer, i \in Job : work'[q][i] = work[q][i] \/ work'[q][i] = NoWork
    BY <1>2 DEF AgentRestart, TypeInv, TypeOK
  <2>2. ASSUME NEW r \in Slot PROVE task'[r] = task[r] \/ task'[r].op # "push"
    <3>1. task[r] \in Task
      BY DEF TypeInv, TypeOK
    <3>2. CASE task[r].op \in {"report", "chain"}
      <4>1. task'[r] = [task[r] EXCEPT !.msg = Orphan(@, p)]
        BY <1>2, <3>2 DEF AgentRestart
      <4>2. [task[r] EXCEPT !.msg = Orphan(@, p)].op = task[r].op
        BY <3>1, <3>2 DEF Task
      <4>. QED  BY <3>2, <4>1, <4>2
    <3>. QED  BY <1>2, <3>2 DEF AgentRestart
  <2>3. inbox' \subseteq inbox
    BY <1>2 DEF AgentRestart
  <2>. QED  BY <2>1, <2>2, <2>3, NothingHandedOut DEF NoWork
<1>3. ASSUME NEW p \in Printer, NEW j \in Job, Poll(p, j) PROVE HandsOutCurrent
  BY <1>3 DEF Poll, HandsOutCurrent, Holds, Current
<1>4. ASSUME NEW m \in inbox, Receive(m) PROVE HandsOutCurrent
  <2>. DEFINE w == [stage |-> "accept", no |-> m.no, call |-> "none", left |-> 1]
  <2>1. m.printer \in Printer /\ m.job \in Job
    BY DEF TypeInv, TypeOK, Payload
  <2>2. UNCHANGED work \/ work' = [work EXCEPT ![m.printer][m.job] = w]
    BY <1>4 DEF Receive
  <2>3. UNCHANGED task /\ inbox' \subseteq inbox
    BY <1>4 DEF Receive
  <2>4. \A q \in Printer, i \in Job :
           work'[q][i] = work[q][i] \/ (q = m.printer /\ i = m.job /\ work'[q][i].no = m.no)
    BY <2>1, <2>2 DEF TypeInv, TypeOK
  <2>. QED  BY <2>3, <2>4 DEF HandsOutCurrent, Holds
<1>5. CASE Crash
  BY <1>5, NothingHandedOut DEF Crash, Idle
<1>6. CASE \/ \E p \in Printer : Connect(p) \/ LinkBreaks(p) \/ HandleDisconnect(p) \/ RemovePrinter(p)
           \/ \E m \in net : ReportLost(m)
           \/ ClearHistory
           \/ \E j \in Job : FlagStalePrinting(j)
  <2>1. UNCHANGED <<task, work>> /\ inbox' \subseteq inbox
    BY <1>6 DEF Connect, LinkBreaks, HandleDisconnect, RemovePrinter, Unpushed, ReportLost,
       ClearHistory, FlagStalePrinting
  <2>. QED  BY <2>1, NothingHandedOut
<1>. QED  BY <1>1, <1>2, <1>3, <1>4, <1>5, <1>6 DEF Environment

\* While attempts and assignments stay as they are, handing out the current
\* attempt to the assigned printer gives no attempt a second holder.
LEMMA HoldersKept ==
    ASSUME AttemptInv, UNCHANGED <<attempt, target>>, HandsOutCurrent
    PROVE  HoldersAreSound'
<1>. SUFFICES ASSUME NEW j \in Job, NEW p \in Printer, NEW n \in Attempts, Holds(p, j, n)'
              PROVE  /\ n <= attempt[j]
                     /\ n = attempt[j] => p = target[j]
                     /\ \A q \in Printer : Holds(q, j, n)' => q = p
  BY DEF HoldersAreSound
<1>1. attempt[j] \in Nat
  BY DEF AttemptInv, TypeInv, TypeOK, Attempts
<1>2. \A q \in Printer : Holds(q, j, n)' =>
         /\ n <= attempt[j]
         /\ n = attempt[j] => q = target[j]
         /\ Holds(q, j, n) \/ n = attempt[j]
  BY <1>1 DEF AttemptInv, HoldersAreSound, HandsOutCurrent, Current
<1>3. \A q \in Printer : Holds(q, j, n) /\ Holds(p, j, n) => q = p
  BY DEF AttemptInv, HoldersAreSound
<1>. QED  BY <1>2, <1>3

\* A new attempt is held by nobody yet.
LEMMA NewAttempt ==
    ASSUME AttemptInv, NEW s \in Slot, TriggerQueue(s), HandsOutCurrent
    PROVE  HoldersAreSound'
<1>. DEFINE i == task[s].job
<1>1. CASE UNCHANGED <<attempt, target>>
  BY <1>1, HoldersKept
<1>2. CASE /\ i \in Job
           /\ attempt' = [attempt EXCEPT ![i] = @ + 1]
           /\ target' = [target EXCEPT ![i] = task[s].printer]
           /\ Goes(s, [op |-> "enqueue", job |-> i, id |-> attempt[i] + 1])
  <2>1. \A r \in Slot : task'[r] = task[r] \/ task'[r].op # "push"
    BY <1>2, GoesElsewhere DEF AttemptInv
  <2>2. UNCHANGED <<inbox, work>>
    BY DEF TriggerQueue, agentVars
  <2>3. \A p \in Printer, j \in Job, n \in Attempts : Holds(p, j, n)' => Holds(p, j, n)
    BY <2>1, <2>2 DEF Holds
  <2>. SUFFICES ASSUME NEW j \in Job, NEW p \in Printer, NEW n \in Attempts, Holds(p, j, n)'
                PROVE  /\ n <= attempt'[j]
                       /\ n = attempt'[j] => p = target'[j]
                       /\ \A q \in Printer : Holds(q, j, n)' => q = p
    BY DEF HoldersAreSound
  <2>4. /\ n <= attempt[j] /\ (n = attempt[j] => p = target[j])
        /\ \A q \in Printer : Holds(q, j, n)' => q = p
    BY <2>3 DEF AttemptInv, HoldersAreSound
  <2>5. attempt \in [Job -> Nat] /\ target \in [Job -> Printer \cup {NoPrinter}] /\ n \in Nat
    BY DEF AttemptInv, TypeInv, TypeOK, Attempts
  <2>6. CASE j = i
    <3>1. attempt'[j] = attempt[j] + 1 /\ attempt[j] \in Nat
      BY <1>2, <2>5, <2>6
    <3>2. n <= attempt'[j] /\ n # attempt'[j]
      BY <2>4, <2>5, <3>1
    <3>. QED  BY <2>4, <3>2
  <2>7. CASE j # i
    BY <1>2, <2>4, <2>5, <2>7
  <2>. QED  BY <2>6, <2>7
<1>. QED  BY <1>1, <1>2, AttemptStep DEF AttemptInv

LEMMA Spec_AttemptInv == Spec => []AttemptInv
<1>1. Init => AttemptInv
  BY InitType DEF Init, Idle, NoWork, AttemptInv, HoldersAreSound, Holds
<1>2. AttemptInv /\ [Next]_vars => AttemptInv'
  <2>. SUFFICES ASSUME AttemptInv, [Next]_vars PROVE HoldersAreSound'
    BY NextType DEF AttemptInv
  <2>1. CASE UNCHANGED vars
    BY <2>1, HoldersKept, NothingHandedOut DEF vars
  <2>2. CASE Next
    <3>1. HandsOutCurrent
      BY <2>2, HandlerStepHands, HandlerStartHands, AgentStepHands, EnvironmentHands
         DEF Next, AttemptInv
    <3>2. CASE \E s \in Slot : TriggerQueue(s)
      BY <3>1, <3>2, NewAttempt
    <3>3. CASE \A s \in Slot : ~TriggerQueue(s)
      BY <2>2, <3>1, <3>3, AttemptFrame, HoldersKept
    <3>. QED  BY <3>2, <3>3
  <2>. QED  BY <2>1, <2>2
<1>. QED  BY <1>1, <1>2, PTL DEF Spec

\* Two agents never work on the same attempt, however often printers are removed
\* and orders sent again.
THEOREM Spec_OneAgentPerAttempt == Spec => []OneAgentPerAttempt
<1>1. AttemptInv => OneAgentPerAttempt
  <2>. SUFFICES ASSUME AttemptInv, NEW j \in Job, NEW p \in Printer, NEW q \in Printer, p # q,
                       work[p][j].stage # "idle", work[q][j].stage # "idle",
                       work[p][j].no = work[q][j].no
                PROVE  FALSE
    BY DEF OneAgentPerAttempt
  <2>. DEFINE n == work[p][j].no
  <2>1. n \in Attempts
    BY DEF AttemptInv, TypeInv, TypeOK, Work
  <2>2. Holds(p, j, n) /\ Holds(q, j, n)
    BY DEF Holds
  <2>. HIDE DEF n
  <2>. QED  BY <2>1, <2>2 DEF AttemptInv, HoldersAreSound
<1>. QED  BY <1>1, Spec_AttemptInv, PTL
=============================================================================
