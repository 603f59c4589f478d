------------------------- MODULE PrintPipelineClaims -------------------------
(***************************************************************************)
(* Fairness for PrintPipeline, the liveness properties that hold under it, *)
(* and a statement the repository makes about the pipeline that the code   *)
(* does not keep: a run refutes it.                                        *)
(***************************************************************************)
EXTENDS PrintPipeline

\* The server keeps serving: a request under way takes its next step, the cron
\* jobs fire again and again, the worker polls its queue.  Slots are a bound of
\* the model, so what needs a free one gets it again and again: strong fairness.
ServerFairness ==
    /\ \A s \in Slot : WF_vars(HandlerStep(s))
    /\ \A j \in Job : SF_vars(\E s \in Slot : SweepRead(s, j))
    /\ \A j \in Job : WF_vars(FlagStalePrinting(j))
    /\ SF_vars(\E s \in Slot, e \in queue : DispatchRead(s, e))

\* A running agent goes on: calls are answered or time out, prints end.
AgentFairness == \A p \in Printer : WF_vars(AgentStep(p))

FairSpec == Spec /\ ServerFairness /\ AgentFairness
-----------------------------------------------------------------------------
\* Every order waiting for retention is closed in the end: sweeps that fail or
\* overlap do not keep it RETENTION_PENDING for ever.
RetentionCompletes ==
    \A j \in Job : status[j] = "RETENTION_PENDING" ~> status[j] \in {"DELETED", "CLEARED"}

\* No order stays PRINTING for ever: the agent settles it, or it is flagged.
PrintingSettles ==
    \A j \in Job : status[j] = "PRINTING" ~> status[j] # "PRINTING"

\* Every dispatch handed to the queue is over in the end: delivered, found
\* obsolete, or out of tries.
DispatchEnds ==
    \A j \in Job, n \in Attempts :
        (\E e \in queue : e.job = j /\ e.id = n) ~> ~(\E e \in queue : e.job = j /\ e.id = n)
-----------------------------------------------------------------------------
\* Some step still to come concerns the dispatch of job j.
OnItsWay(j) ==
    \/ \E e \in queue : e.job = j
    \/ \E s \in Slot :
          \/ task[s].op = "enqueue" /\ task[s].job = j
          \/ task[s].op \in {"offline", "push"} /\ task[s].entry.job = j
          \/ task[s].op = "report" /\ task[s].msg.job = j
    \/ \E m \in inbox : m.job = j
    \/ \E m \in net : m.job = j
    \/ \E p \in Printer : work[p][j].stage # "idle"

\* "the backend won't have anything QUEUED that a connected agent wasn't already
\* pushed": a QUEUED job whose agent is connected, with no disconnect pending,
\* is still on its way.  The agent does not poll then, and triggerPrint refuses
\* a QUEUED job.
NothingStranded ==
    \A j \in Job :
        /\ status[j] = "QUEUED"
        /\ target[j] \in registry \cap linkUp
        /\ closing[target[j]] = 0
        => OnItsWay(j)
=============================================================================
