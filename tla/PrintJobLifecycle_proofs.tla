---------------------- MODULE PrintJobLifecycle_proofs ----------------------
(***************************************************************************)
(* What the lifecycle of an order guarantees by itself.  PrintPipeline     *)
(* inherits it by implementing the lifecycle (PrintPipeline_proofs).       *)
(***************************************************************************)
EXTENDS PrintJobLifecycle, TLAPS

\* Statuses from which documents are erased, or have been.
Retained == {"RETENTION_PENDING", "DELETED", "CLEARED"}

LTypeOK ==
    /\ status \in [Job -> JobStatuses \cup NoRow]
    /\ stored \subseteq Doc
    /\ evidence \in [Job -> SUBSET {"paper", "shop"}]

\* An order is recorded as printed only if somebody saw it printed.
FinishedHasEvidence == \A j \in Job : status[j] \in Finished => evidence[j] # {}

\* A document that is gone belongs to an order that is retained, or was.
ErasedIsRetained == \A d \in Doc \ stored : \E j \in Job : d \in Docs[j] /\ status[j] \in Retained

\* A closed order has no document left.
ClosedIsEmpty == \A j \in Job : status[j] \in {"DELETED", "CLEARED"} => Docs[j] \cap stored = {}

\* No order is cancelled, so what is cleared was closed.
NeverCancelled == \A j \in Job : status[j] # "CANCELLED"

\* The inductive invariant of the lifecycle.
LInv ==
    /\ LTypeOK
    /\ FinishedHasEvidence
    /\ ErasedIsRetained
    /\ ClosedIsEmpty
    /\ NeverCancelled
-----------------------------------------------------------------------------
LEMMA LInitInv == LInit => LInv
BY DEF LInit, LInv, LTypeOK, NoRow, Finished, Retained, FinishedHasEvidence, ErasedIsRetained,
   ClosedIsEmpty, NeverCancelled

LEMMA LNextInv == LInv /\ [LNext]_lvars => LInv'
<1>. SUFFICES ASSUME LInv, [LNext]_lvars PROVE LInv'
  OBVIOUS
<1>. USE DEF LInv, LTypeOK, FinishedHasEvidence, ErasedIsRetained, ClosedIsEmpty, NeverCancelled,
             Finished, Retained
<1>1. ASSUME NEW j \in Job, Confirm(j) PROVE LInv'
  BY <1>1 DEF Confirm, JobStatuses
<1>2. ASSUME NEW j \in Job, NEW to \in JobStatuses, Move(j, to) PROVE LInv'
  BY <1>2 DEF Move, CanTransition
<1>3. ASSUME NEW j \in Job, SeePaper(j) PROVE LInv'
  BY <1>3 DEF SeePaper
<1>4. ASSUME NEW j \in Job, Complete(j) PROVE LInv'
  BY <1>4 DEF Complete, CanTransition, JobStatuses
<1>5. ASSUME NEW j \in Job, NEW d \in Docs[j], Erase(j, d) PROVE LInv'
  BY <1>5 DEF Erase
<1>6. ASSUME NEW j \in Job, Close(j) PROVE LInv'
  BY <1>6 DEF Close, JobStatuses
<1>7. ASSUME NEW cleared \in SUBSET Job, Clear(cleared) PROVE LInv'
  BY <1>7 DEF Clear, NoRow
<1>8. CASE UNCHANGED lvars
  BY <1>8 DEF lvars
<1>. QED  BY <1>1, <1>2, <1>3, <1>4, <1>5, <1>6, <1>7, <1>8 DEF LNext

\* Along any lifecycle, a document goes only on evidence for an order it belongs
\* to, and a closed order has none of its documents left.
THEOREM LSpec_LInv == LSpec => []LInv
BY LInitInv, LNextInv, PTL DEF LSpec

\* No step restores a document.
LEMMA StoredShrinks == [LNext]_lvars => stored' \subseteq stored
BY DEF LNext, lvars, Confirm, Move, SeePaper, Complete, Erase, Close, Clear

\* A step never takes an order out of retention, and never withdraws evidence.
LEMMA RetainedStays ==
    ASSUME LInv, [LNext]_lvars, NEW j \in Job
    PROVE  /\ status[j] \in Retained => status'[j] \in Retained
           /\ evidence[j] \subseteq evidence'[j]
<1>. USE DEF LInv, LTypeOK, Retained, lvars
<1>1. ASSUME NEW i \in Job, Confirm(i) \/ SeePaper(i) \/ Complete(i) \/ Close(i)
      PROVE  /\ status[j] \in Retained => status'[j] \in Retained
             /\ evidence[j] \subseteq evidence'[j]
  BY <1>1 DEF Confirm, SeePaper, Complete, Close, CanTransition
<1>2. ASSUME NEW i \in Job, NEW to \in JobStatuses, Move(i, to)
      PROVE  /\ status[j] \in Retained => status'[j] \in Retained
             /\ evidence[j] \subseteq evidence'[j]
  BY <1>2 DEF Move, CanTransition
<1>3. ASSUME NEW i \in Job, NEW d \in Docs[i], Erase(i, d)
      PROVE  /\ status[j] \in Retained => status'[j] \in Retained
             /\ evidence[j] \subseteq evidence'[j]
  BY <1>3 DEF Erase
<1>4. ASSUME NEW cleared \in SUBSET Job, Clear(cleared)
      PROVE  /\ status[j] \in Retained => status'[j] \in Retained
             /\ evidence[j] \subseteq evidence'[j]
  BY <1>4 DEF Clear
<1>. QED  BY <1>1, <1>2, <1>3, <1>4 DEF LNext
=============================================================================
