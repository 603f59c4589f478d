---------------------------- MODULE Billing_proofs ----------------------------
(***************************************************************************)
(* Proofs about Billing: what was paid stays paid, what an invoice says of *)
(* its refunds is true, and the checks lengthen a period only for money or *)
(* a free plan.  They hold for any number of administrators, plans, prices *)
(* and days.                                                               *)
(*                                                                         *)
(* A task writes what it has read some steps before.  The invariant says   *)
(* how what was read still fits what is there: a row, an invoice, a sum of *)
(* refunds that is not more than the refunds there are.  It stays so as    *)
(* long as the invoices only grow (Grows), which every step is shown to    *)
(* keep together with the invariant (Kept).                                *)
(* The types are proved from it last (TInv).                               *)
(***************************************************************************)
EXTENDS Billing, SequenceTheorems, FiniteSetTheorems, TLAPS

\* A function: of a record, a list or the tasks.
Record(r) == r = [k \in DOMAIN r |-> r[k]]

\* r has the fields of a subscription, and those that are used to compute with
\* have their types; a shop that has one has a plan.
IsRow(r) ==
    /\ Record(r)
    /\ {"status", "plan", "left", "grace", "overdue", "autoRenew", "ending", "paused",
        "pausedFor", "pending"} \subseteq DOMAIN r
    /\ r.left \in Int
    /\ r.pending \in Plan \cup {NoPlan}
    /\ r.status # "NONE" => r.plan \in Plan

\* v has the fields of an invoice; no more was refunded than its amount, and
\* than there are refunds for.
IsInvoice(v) ==
    /\ Record(v)
    /\ {"kind", "plan", "amount", "left", "status", "tries", "retry", "refunded", "rows"} \subseteq DOMAIN v
    /\ v.plan \in Plan
    /\ v.left \in Int /\ v.amount \in Int /\ v.refunded \in Int /\ v.rows \in Int
    /\ v.refunded <= v.amount
    /\ v.refunded <= v.rows

\* q is a list.
IsList(q) == Record(q) /\ \E n \in Nat : DOMAIN q = 1 .. n
AreInvoices(q) == IsList(q) /\ \A n \in DOMAIN q : IsInvoice(q[n])

\* What may become of the invoices q: none is lost, no payment is forgotten, no
\* refund is taken back.
Grows(q, p) ==
    /\ AreInvoices(p)
    /\ DOMAIN q \subseteq DOMAIN p
    /\ \A n \in DOMAIN q :
          /\ p[n].amount = q[n].amount
          /\ p[n].rows >= q[n].rows
          /\ q[n].status \in Settled => p[n].status \in Settled

\* Steps that come with the subscription as it was read.
Reading == {"change", "schedule", "unschedule", "extend", "extendGrace", "cancelLater", "cancel",
            "resume", "forceSuspend", "forceReactivate", "release", "preferences", "payCheck",
            "payWrite", "term", "retry", "charge", "paidCheck", "paidWrite", "renew", "declined", "missed"}

\* What task t has read fits the invoices q and the subscription r.
TaskOK(t, q, r) ==
    /\ Record(t) /\ "step" \in DOMAIN t
    /\ t.step = "idle" => t = Idle
    /\ t.step \notin {"idle", "assign", "refundCheck", "refundWrite"} => r.status # "NONE"
    /\ t.step \in Reading => "seen" \in DOMAIN t /\ IsRow(t.seen) /\ t.seen.plan \in Plan
    /\ t.step \in {"change", "schedule"} => t.arg \in Plan
    /\ t.step \in {"extend", "extendGrace"} => t.arg \in Int
    /\ t.step \in {"payCheck", "payWrite"} => "arg" \in DOMAIN t /\ t.arg \in DOMAIN q
    /\ t.step = "assign" => t.plan \in Plan
    /\ t.step = "refundCheck" => t.no \in DOMAIN q /\ t.value \in Nat
    /\ t.step = "refundWrite" =>
          /\ t.no \in DOMAIN q /\ t.value \in Nat /\ t.before \in Int
          /\ t.before <= q[t.no].rows /\ t.before + t.value <= q[t.no].amount
    /\ t.step \in {"charge", "paidCheck", "paidWrite", "renew", "declined"} =>
          "no" \in DOMAIN t /\ "for" \in DOMAIN t /\ t.no \in DOMAIN q
    /\ t.step = "renew" => q[t.no].status \in Settled

\* The invariant: rows, invoices and tasks fit each other.
IInv ==
    /\ IsRow(sub)
    /\ AreInvoices(invoices)
    /\ Record(task) /\ DOMAIN task = Worker
    /\ \A w \in Worker : TaskOK(task[w], invoices, sub)

\* What a step keeps.
Kept == IInv' /\ Grows(invoices, invoices')
-----------------------------------------------------------------------------
\* A set of numbers that is not empty has a smallest one: of the sets 1 .. n one
\* is smallest, for strict inclusion of finite sets is well-founded.
LEMMA OneIsSmallest ==
    ASSUME NEW S, S \subseteq Nat, S # {}
    PROVE  \E n \in S : \A m \in S : n <= m
<1> DEFINE T == {1 .. n : n \in S}
<1> DEFINE R == StrictSubsetOrdering(Nat)
<1> DEFINE F == FiniteSubsetsOf(Nat)
<1>1. T \subseteq F /\ T # {}
  <2>1. ASSUME NEW n \in S PROVE 1 .. n \in F
    <3>1. IsFiniteSet(1 .. n)
      BY FS_Interval
    <3>2. 1 .. n \in SUBSET Nat
      OBVIOUS
    <3> QED
      BY <3>1, <3>2 DEF FiniteSubsetsOf
  <2> QED
    BY <2>1
<1>2. IsWellFoundedOn(R, F)
  BY FS_StrictSubsetOrderingWellFounded
<1>3. PICK t \in T : \A u \in T : ~(<<u, t>> \in R)
  BY <1>1, <1>2, WFMin
<1>4. PICK n \in S : t = 1 .. n
  OBVIOUS
<1>5. ASSUME NEW m \in S PROVE n <= m
  <2>1. ~(<<1 .. m, 1 .. n>> \in R)
    BY <1>3, <1>4
  <2>2. ~(1 .. m \subseteq 1 .. n /\ 1 .. m # 1 .. n)
    BY <2>1 DEF StrictSubsetOrdering
  <2>3. ASSUME m < n PROVE FALSE
    <3>1. 1 .. m \subseteq 1 .. n /\ n \in 1 .. n /\ n \notin 1 .. m
      BY <2>3
    <3> QED
      BY <2>2, <3>1
  <2> QED
    BY <2>3
<1> QED
  BY <1>5

\* A list is a sequence of its elements.
LEMMA ListLen ==
    ASSUME NEW q, IsList(q)
    PROVE  /\ Len(q) \in Nat /\ DOMAIN q = 1 .. Len(q)
           /\ \E S : q \in Seq(S)
<1>1. PICK n \in Nat : DOMAIN q = 1 .. n
  BY DEF IsList
<1> DEFINE S == {q[k] : k \in 1 .. n}
<1>2. q \in [1 .. n -> S]
  BY <1>1 DEF IsList, Record
<1>3. q \in Seq(S)
  BY <1>2, SeqDef
<1> QED
  BY <1>1, <1>3, LenProperties

\* An invoice is added.
LEMMA ListAppend ==
    ASSUME NEW q, IsList(q), NEW v
    PROVE  /\ IsList(Append(q, v)) /\ DOMAIN Append(q, v) = 1 .. Len(q) + 1
           /\ \A n \in DOMAIN q : Append(q, v)[n] = q[n]
           /\ Append(q, v)[Len(q) + 1] = v
<1>1. PICK S : q \in Seq(S)
  BY ListLen
<1> DEFINE T == S \cup {v}
<1> DEFINE p == Append(q, v)
<1>2. q \in Seq(T) /\ v \in T
  BY <1>1, SeqMonotonic
<1> HIDE DEF T
<1>3. /\ p \in Seq(T) /\ Len(p) = Len(q) + 1
      /\ \A n \in 1 .. Len(q) : p[n] = q[n]
      /\ p[Len(q) + 1] = v
  BY <1>2, AppendProperties
<1>4. DOMAIN q = 1 .. Len(q) /\ Len(q) \in Nat
  BY ListLen
<1> HIDE DEF p
<1>5. p \in [1 .. Len(p) -> T] /\ DOMAIN p = 1 .. Len(p)
  BY <1>3, LenProperties
<1>6. IsList(p)
  <2>1. Len(p) \in Nat
    BY <1>3, <1>4
  <2> QED
    BY <1>5, <2>1 DEF IsList, Record
<1> QED
  BY <1>3, <1>4, <1>5, <1>6 DEF p

\* No invoice is written.
LEMMA Grows_Same == ASSUME NEW q, AreInvoices(q) PROVE Grows(q, q)
BY DEF Grows, AreInvoices, IsInvoice

\* Invoices grow by one that is added.
LEMMA Grows_Append ==
    ASSUME NEW q, AreInvoices(q), NEW v, IsInvoice(v)
    PROVE  Grows(q, Append(q, v))
<1> DEFINE p == Append(q, v)
<1>1. /\ IsList(p) /\ DOMAIN p = 1 .. Len(q) + 1
      /\ \A n \in DOMAIN q : p[n] = q[n]
      /\ p[Len(q) + 1] = v
  BY ListAppend DEF AreInvoices
<1>2. DOMAIN q = 1 .. Len(q) /\ Len(q) \in Nat
  BY ListLen DEF AreInvoices
<1> HIDE DEF p
<1>3. DOMAIN q \subseteq DOMAIN p /\ \A n \in DOMAIN p : n \in DOMAIN q \/ n = Len(q) + 1
  BY <1>1, <1>2
<1>4. AreInvoices(p)
  BY <1>1, <1>3 DEF AreInvoices
<1> QED
  BY <1>1, <1>3, <1>4 DEF Grows, AreInvoices, IsInvoice, p

\* Invoices are written, and none is added.
LEMMA Grows_Map ==
    ASSUME NEW q, AreInvoices(q), NEW p, Record(p), DOMAIN p = DOMAIN q,
           \A n \in DOMAIN q :
              /\ IsInvoice(p[n])
              /\ p[n].amount = q[n].amount /\ p[n].rows >= q[n].rows
              /\ q[n].status \in Settled => p[n].status \in Settled
    PROVE  Grows(q, p)
BY DEF Grows, AreInvoices, IsList

\* What a task has read stays true of invoices that have grown.
LEMMA TaskStays ==
    ASSUME NEW t, NEW q, NEW p, NEW r, NEW s, TaskOK(t, q, r), AreInvoices(q), Grows(q, p),
           r.status # "NONE" => s.status # "NONE"
    PROVE  TaskOK(t, p, s)
<1>1. t.step = "refundWrite" => t.before <= p[t.no].rows
  <2> SUFFICES ASSUME t.step = "refundWrite" PROVE t.before <= p[t.no].rows
    OBVIOUS
  <2>1. t.no \in DOMAIN q /\ t.before \in Int /\ t.before <= q[t.no].rows
    BY DEF TaskOK
  <2>2. p[t.no].rows >= q[t.no].rows /\ p[t.no].rows \in Int /\ q[t.no].rows \in Int
    BY <2>1 DEF Grows, AreInvoices, IsInvoice
  <2> QED
    BY <2>1, <2>2
<1> QED
  BY <1>1 DEF TaskOK, Grows

\* A task that is not under way has read nothing.
LEMMA IdleOK == ASSUME NEW q, NEW r PROVE TaskOK(Idle, q, r)
BY DEF TaskOK, Idle, Record, Reading

\* A step that changes one task.
LEMMA Step_Kept ==
    ASSUME IInv, NEW w \in Worker, NEW next, Go(w, next),
           IsRow(sub'), sub.status # "NONE" => sub'.status # "NONE",
           Grows(invoices, invoices'), TaskOK(next, invoices', sub')
    PROVE  Kept
<1>1. AreInvoices(invoices')
  BY DEF Grows
<1>2. Record(task') /\ DOMAIN task' = Worker
  BY DEF IInv, Go, Record
<1>3. ASSUME NEW v \in Worker PROVE TaskOK(task'[v], invoices', sub')
  <2>1. CASE v = w
    <3>1. task'[v] = next
      BY <2>1 DEF IInv, Go, Record
    <3> QED
      BY <3>1
  <2>2. CASE v # w
    <3>1. task'[v] = task[v]
      BY <2>2 DEF IInv, Go, Record
    <3> QED
      BY <3>1, TaskStays DEF IInv
  <2> QED
    BY <2>1, <2>2
<1> QED
  BY <1>1, <1>2, <1>3 DEF IInv, Kept
-----------------------------------------------------------------------------
(***************************************************************************)
(* Requests: what they read fits what is there.                            *)
(***************************************************************************)
\* Asking changes the task only.
LEMMA Ask_Kept ==
    ASSUME IInv, NEW a \in Admin, NEW next, Ask(a, next), TaskOK(next, invoices, sub)
    PROVE  Kept
<1>1. Go(a, next) /\ sub' = sub /\ invoices' = invoices /\ a \in Worker
  BY DEF Ask, Worker
<1>2. IsRow(sub') /\ Grows(invoices, invoices')
  BY <1>1, Grows_Same DEF IInv
<1>3. TaskOK(next, invoices', sub')
  BY <1>1
<1> QED
  BY <1>1, <1>2, <1>3, Step_Kept

\* Asking after the subscription is read.
LEMMA Load_Kept ==
    ASSUME IInv, NEW a \in Admin, NEW step \in Reading, NEW arg, Load(a, step, arg),
           step \notin {"charge", "paidCheck", "paidWrite", "renew", "declined"},
           step \in {"change", "schedule"} => arg \in Plan,
           step \in {"extend", "extendGrace"} => arg \in Int,
           step \in {"payCheck", "payWrite"} => arg \in DOMAIN invoices
    PROVE  Kept
<1> DEFINE next == [step |-> step, seen |-> sub, arg |-> arg]
<1>1. Ask(a, next) /\ sub.status # "NONE"
  BY DEF Load
<1>2. /\ next.step = step /\ next.seen = sub /\ next.arg = arg
      /\ Record(next) /\ DOMAIN next = {"step", "seen", "arg"}
  BY DEF Record
<1>3. IsRow(sub) /\ sub.plan \in Plan
  BY <1>1 DEF IInv, IsRow
<1> HIDE DEF next
<1>4. step \notin {"idle", "assign", "refundCheck", "refundWrite", "renew"}
  BY DEF Reading
<1>5. TaskOK(next, invoices, sub)
  BY <1>1, <1>2, <1>3, <1>4 DEF TaskOK
<1> QED
  BY <1>1, <1>5, Ask_Kept

\* The oldest of some invoices is one of them.
LEMMA OldestIn ==
    ASSUME NEW q, IsList(q), NEW S, S \subseteq DOMAIN q, S # {}
    PROVE  Oldest(S) \in S
<1>1. S \subseteq Nat
  BY DEF IsList
<1>2. \E n \in S : \A m \in S : n <= m
  BY <1>1, OneIsSmallest
<1> QED
  BY <1>2 DEF Oldest

\* Every request.
LEMMA Request_Kept == ASSUME IInv, NEW a \in Admin, Request(a) PROVE Kept
<1> USE BillingAssumption
<1>1. ASSUME NEW p \in Plan, NEW trial, NEW paid, NEW renew, AskAssign(a, p, trial, paid, renew) PROVE Kept
  <2> DEFINE next == [step |-> "assign", plan |-> p, trial |-> trial, paid |-> paid, renew |-> renew]
  <2>1. Ask(a, next)
    BY <1>1 DEF AskAssign
  <2>2. next.step = "assign" /\ next.plan = p /\ Record(next) /\ "step" \in DOMAIN next
    BY DEF Record
  <2> HIDE DEF next
  <2>3. TaskOK(next, invoices, sub)
    BY <2>2 DEF TaskOK, Reading
  <2> QED
    BY <2>1, <2>3, Ask_Kept
<1>2. ASSUME NEW p \in Plan, NEW now, AskChangePlan(a, p, now) PROVE Kept
  <2>1. \E step \in {"change", "schedule"} : Load(a, step, p)
    BY <1>2 DEF AskChangePlan
  <2> QED
    BY <2>1, Load_Kept DEF Reading
<1>3. ASSUME NEW d \in ExtraDays, AskExtend(a, d) \/ AskExtendGrace(a, d) PROVE Kept
  <2>1. d \in Int /\ \E step \in {"extend", "extendGrace"} : Load(a, step, d)
    BY <1>3 DEF AskExtend, AskExtendGrace
  <2> QED
    BY <2>1, Load_Kept DEF Reading
<1>4. ASSUME NEW d, AskSuspend(a, d) \/ AskReactivate(a, d) PROVE Kept
  <2>1. \E step \in {"forceSuspend", "forceReactivate"} : Load(a, step, d)
    BY <1>4 DEF AskSuspend, AskReactivate
  <2> QED
    BY <2>1, Load_Kept DEF Reading
<1>5. CASE AskUnschedule(a) \/ AskResume(a) \/ AskRelease(a) \/ AskAutoRenew(a)
  <2>1. \E step \in {"unschedule", "resume", "release", "preferences"}, arg \in {0, ~sub.autoRenew} : Load(a, step, arg)
    BY <1>5 DEF AskUnschedule, AskResume, AskRelease, AskAutoRenew
  <2> QED
    BY <2>1, Load_Kept DEF Reading
<1>6. ASSUME NEW later, AskCancel(a, later) PROVE Kept
  <2>1. \E step \in {"cancelLater", "cancel"} : Load(a, step, 0)
    BY <1>6 DEF AskCancel
  <2> QED
    BY <2>1, Load_Kept DEF Reading
<1>7. ASSUME NEW n \in DOMAIN invoices, Load(a, "payCheck", n) PROVE Kept
  BY <1>7, Load_Kept DEF Reading
<1>8. CASE AskMarkOldestPaid(a)
  <2>1. Oldest(Among(Unpaid)) \in DOMAIN invoices
    BY <1>8, OldestIn DEF AskMarkOldestPaid, Among, IInv, AreInvoices
  <2> QED
    BY <1>7, <1>8, <2>1 DEF AskMarkOldestPaid
<1>9. ASSUME NEW n \in DOMAIN invoices, NEW value \in RefundValues, AskRefund(a, n, value) PROVE Kept
  <2> DEFINE next == [step |-> "refundCheck", no |-> n, value |-> value]
  <2>1. Ask(a, next)
    BY <1>9 DEF AskRefund
  <2>2. next.step = "refundCheck" /\ next.no = n /\ next.value = value /\ Record(next) /\ "step" \in DOMAIN next
    BY DEF Record
  <2> HIDE DEF next
  <2>3. TaskOK(next, invoices, sub)
    BY <2>2 DEF TaskOK, Reading
  <2> QED
    BY <2>1, <2>3, Ask_Kept
<1>10. ASSUME NEW n \in DOMAIN invoices, AskMarkPaid(a, n) PROVE Kept
  BY <1>7, <1>10 DEF AskMarkPaid
<1> QED
  BY <1>1, <1>2, <1>3, <1>4, <1>5, <1>6, <1>8, <1>9, <1>10 DEF Request
-----------------------------------------------------------------------------
(***************************************************************************)
(* Requests: what they write.                                              *)
(***************************************************************************)
\* A step that ends a request and writes the subscription only.
LEMMA Writes_Kept ==
    ASSUME IInv, NEW a \in Admin, NEW step, NEW row, Writes(a, step, row),
           IsRow(row), row.status # "NONE"
    PROVE  Kept
<1>1. Go(a, Idle) /\ sub' = row /\ invoices' = invoices /\ a \in Worker
  BY DEF Writes, Finish, Worker
<1>2. Grows(invoices, invoices')
  BY <1>1, Grows_Same DEF IInv
<1>3. TaskOK(Idle, invoices', sub')
  BY IdleOK
<1> QED
  BY <1>1, <1>2, <1>3, Step_Kept

\* What a request that writes has read.
LEMMA Reader ==
    ASSUME IInv, NEW w \in Worker, task[w].step \in Reading
    PROVE  /\ IsRow(sub) /\ sub.status # "NONE" /\ sub.plan \in Plan
           /\ "seen" \in DOMAIN task[w] /\ IsRow(task[w].seen) /\ task[w].seen.plan \in Plan
<1>1. TaskOK(task[w], invoices, sub) /\ IsRow(sub)
  BY DEF IInv
<1>2. task[w].step \notin {"idle", "assign", "refundCheck", "refundWrite"}
  BY DEF Reading
<1> QED
  BY <1>1, <1>2 DEF TaskOK, IsRow

\* The end of the period is written.
LEMMA DatedRow ==
    ASSUME NEW r, IsRow(r), r.status # "NONE", r.plan \in Plan, NEW left \in Int, NEW status, status # "NONE"
    PROVE  LET s == [r EXCEPT !.left = left, !.status = status] IN IsRow(s) /\ s.status # "NONE"
BY DEF IsRow, Record

\* The plan is written with the end of the period.
LEMMA PlannedRow ==
    ASSUME NEW r, IsRow(r), r.status # "NONE", r.plan \in Plan, NEW left \in Int, NEW plan \in Plan
    PROVE  LET s == [r EXCEPT !.plan = plan, !.pending = NoPlan, !.left = left]
           IN  IsRow(s) /\ s.status # "NONE"
BY DEF IsRow, Record

\* An invoice is made.
LEMMA NewInvoiceOK ==
    ASSUME NEW kind, NEW p \in Plan, NEW amount \in Nat, NEW left \in Int, NEW status
    PROVE  /\ IsInvoice(NewInvoice(kind, p, amount, left))
           /\ IsInvoice([NewInvoice(kind, p, amount, left) EXCEPT !.status = status])
BY DEF IsInvoice, Record, NewInvoice

\* An invoice is written without its refunds.
LEMMA InvoiceWritten ==
    ASSUME NEW v, IsInvoice(v), NEW status, NEW date, NEW tries, NEW left \in Int
    PROVE  /\ LET u == [v EXCEPT !.status = status, !.retry = date]
              IN  IsInvoice(u) /\ u.amount = v.amount /\ u.rows = v.rows /\ u.status = status /\ u.left = v.left
           /\ LET u == [v EXCEPT !.tries = tries, !.retry = date]
              IN  IsInvoice(u) /\ u.amount = v.amount /\ u.rows = v.rows /\ u.status = v.status
           /\ LET u == [v EXCEPT !.left = left, !.retry = date]
              IN  IsInvoice(u) /\ u.amount = v.amount /\ u.rows = v.rows /\ u.status = v.status
BY DEF IsInvoice, Record

\* A refund is written: rows are those there are then, refunded comes from a sum read before.
LEMMA InvoiceRefunded ==
    ASSUME NEW v, IsInvoice(v), NEW status, NEW rows \in Int, rows >= v.rows,
           NEW refunded \in Int, refunded <= rows, refunded <= v.amount
    PROVE  LET u == [v EXCEPT !.rows = rows, !.refunded = refunded, !.status = status]
           IN  IsInvoice(u) /\ u.amount = v.amount /\ u.rows = rows /\ u.status = status
BY DEF IsInvoice, Record
-----------------------------------------------------------------------------
\* All invoices of a status that is not settled are moved to another.
LEMMA MoveAll_Grows ==
    ASSUME AreInvoices(invoices), NEW from, NEW to, from \cap Settled = {}, MoveAll(from, to)
    PROVE  Grows(invoices, invoices')
<1>1. Record(invoices') /\ DOMAIN invoices' = DOMAIN invoices
  BY DEF MoveAll, Record
<1>2. ASSUME NEW n \in DOMAIN invoices
      PROVE  /\ IsInvoice(invoices'[n])
             /\ invoices'[n].amount = invoices[n].amount /\ invoices'[n].rows >= invoices[n].rows
             /\ invoices[n].status \in Settled => invoices'[n].status \in Settled
  <2>1. IsInvoice(invoices[n])
    BY DEF AreInvoices
  <2>2. CASE invoices[n].status \in from
    <3>1. invoices'[n] = [invoices[n] EXCEPT !.status = to, !.retry = None]
      BY <2>2 DEF MoveAll
    <3> DEFINE u == [invoices[n] EXCEPT !.status = to, !.retry = None]
    <3>2. IsInvoice(u) /\ u.amount = invoices[n].amount /\ u.rows = invoices[n].rows
      BY <2>1, InvoiceWritten DEF IsInvoice
    <3> HIDE DEF u
    <3>3. invoices[n].status \notin Settled
      BY <2>2
    <3>4. invoices'[n] = u
      BY <3>1 DEF u
    <3> QED
      BY <2>1, <3>2, <3>3, <3>4 DEF IsInvoice
  <2>3. CASE invoices[n].status \notin from
    <3>1. invoices'[n] = invoices[n]
      BY <2>3 DEF MoveAll
    <3> QED
      BY <2>1, <3>1 DEF IsInvoice
  <2> QED
    BY <2>2, <2>3
<1> QED
  BY <1>1, <1>2, Grows_Map

\* One invoice is written.
LEMMA One_Grows ==
    ASSUME NEW q, AreInvoices(q), NEW n \in DOMAIN q, NEW p, Record(p), DOMAIN p = DOMAIN q,
           \A m \in DOMAIN q : m # n => p[m] = q[m],
           IsInvoice(p[n]), p[n].amount = q[n].amount, p[n].rows >= q[n].rows,
           q[n].status \in Settled => p[n].status \in Settled
    PROVE  Grows(q, p)
<1>1. ASSUME NEW m \in DOMAIN q
      PROVE  /\ IsInvoice(p[m])
             /\ p[m].amount = q[m].amount /\ p[m].rows >= q[m].rows
             /\ q[m].status \in Settled => p[m].status \in Settled
  <2>1. CASE m = n
    BY <2>1
  <2>2. CASE m # n
    <3>1. IsInvoice(q[m]) /\ p[m] = q[m]
      BY <2>2 DEF AreInvoices
    <3> QED
      BY <3>1 DEF IsInvoice
  <2> QED
    BY <2>1, <2>2
<1> QED
  BY <1>1, Grows_Map

\* An invoice is marked paid, whatever its status is by now.
LEMMA SetPaid_Grows ==
    ASSUME AreInvoices(invoices), NEW n \in DOMAIN invoices, SetPaid(n)
    PROVE  Grows(invoices, invoices') /\ invoices'[n].status \in Settled
<1>0. IsInvoice(invoices[n])
  BY DEF AreInvoices
<1> DEFINE u == [invoices[n] EXCEPT !.status = "PAID", !.retry = None]
<1>1. /\ Record(invoices') /\ DOMAIN invoices' = DOMAIN invoices
      /\ invoices'[n] = u
      /\ \A m \in DOMAIN invoices : m # n => invoices'[m] = invoices[m]
  BY DEF SetPaid, Record, AreInvoices, IsList
<1>2. IsInvoice(u) /\ u.amount = invoices[n].amount /\ u.rows = invoices[n].rows /\ u.status = "PAID"
  BY <1>0, InvoiceWritten DEF IsInvoice
<1> HIDE DEF u
<1>3. u.status \in Settled
  BY <1>2 DEF Settled
<1>4. invoices'[n].rows >= invoices[n].rows
  BY <1>0, <1>1, <1>2 DEF IsInvoice
<1>5. Grows(invoices, invoices')
  BY <1>1, <1>2, <1>3, <1>4, One_Grows
<1> QED
  BY <1>1, <1>3, <1>5
-----------------------------------------------------------------------------
\* Steps that end a request, and write what they may.
LEMMA Ends_Kept ==
    ASSUME IInv, NEW w \in Worker, Finish(w),
           IsRow(sub'), sub.status # "NONE" => sub'.status # "NONE", Grows(invoices, invoices')
    PROVE  Kept
<1>1. TaskOK(Idle, invoices', sub')
  BY IdleOK
<1> QED
  BY <1>1, Step_Kept DEF Finish

\* The first subscription and its invoice.
LEMMA AssignWrite_Kept == ASSUME IInv, NEW a \in Admin, AssignWrite(a) PROVE Kept
<1> USE BillingAssumption
<1> DEFINE t == task[a]
           trial == t.trial /\ TrialDays > 0
           priced == ~trial /\ Price[t.plan] > 0
           pending == priced /\ ~t.paid
           left == IF trial THEN TrialDays ELSE Term[t.plan]
           status == IF trial THEN "TRIAL" ELSE IF pending THEN "PAYMENT_PENDING" ELSE "ACTIVE"
           grace == IF pending THEN GraceDays ELSE None
           invoice == [NewInvoice("INITIAL", t.plan, Price[t.plan], left)
                          EXCEPT !.status = IF t.paid THEN "PAID" ELSE "OPEN"]
           row == [Unassigned EXCEPT !.status = status, !.plan = t.plan, !.left = left,
                                     !.autoRenew = t.renew, !.grace = grace]
<1>0. a \in Worker
  BY DEF Worker
<1>1. t.plan \in Plan
  BY <1>0 DEF IInv, TaskOK, AssignWrite
<1>2. left \in Int /\ Price[t.plan] \in Nat
  BY <1>1
<1>3. status # "NONE"
  OBVIOUS
<1>4. /\ sub' = row
      /\ invoices' = Append(invoices, invoice) \/ invoices' = invoices
      /\ Finish(a)
  BY DEF AssignWrite
<1> HIDE DEF t, left, status, grace
<1>5. IsRow(row) /\ row.status = status
  BY <1>1, <1>2 DEF IsRow, Record, Unassigned
<1>6. IsInvoice(invoice)
  BY <1>1, <1>2, NewInvoiceOK
<1> HIDE DEF row, invoice
<1>7. Grows(invoices, invoices')
  <2>1. AreInvoices(invoices)
    BY DEF IInv
  <2>2. Grows(invoices, Append(invoices, invoice)) /\ Grows(invoices, invoices)
    BY <1>6, <2>1, Grows_Same, Grows_Append
  <2> QED
    BY <1>4, <2>2
<1> QED
  BY <1>0, <1>3, <1>4, <1>5, <1>7, Ends_Kept

\* The plan is changed at once, and the difference invoiced.
LEMMA ChangeWrite_Kept == ASSUME IInv, NEW a \in Admin, ChangeWrite(a) PROVE Kept
<1> USE BillingAssumption
<1> DEFINE seen == task[a].seen
           next == task[a].arg
           sameCycle == Term[next] = Term[seen.plan]
           bill == seen.status = "ACTIVE" /\ Upgrade(seen.plan, next)
           remaining == Clamp(seen.left, Term[seen.plan])
           share(p) == (Price[p] * remaining) \div Term[seen.plan]
           amount == (IF sameCycle THEN share(next) ELSE Price[next]) - share(seen.plan)
           left == IF sameCycle THEN seen.left ELSE Term[next]
           days == IF bill /\ ~sameCycle THEN left ELSE sub.left
           row == [sub EXCEPT !.plan = next, !.pending = NoPlan, !.left = days]
<1>0. a \in Worker /\ task[a].step = "change"
  BY DEF Worker, ChangeWrite
<1>1. /\ IsRow(sub) /\ sub.status # "NONE" /\ sub.plan \in Plan
      /\ IsRow(seen) /\ seen.plan \in Plan /\ next \in Plan
  BY <1>0, Reader DEF Reading, IInv, TaskOK
<1>2. left \in Int /\ days \in Int /\ seen.left \in Int
  BY <1>1 DEF IsRow
<1>3. remaining \in Nat /\ Term[seen.plan] \in Nat \ {0}
  BY <1>1, <1>2 DEF Clamp
<1>4. ASSUME NEW p \in Plan PROVE share(p) \in Int
  <2> HIDE DEF remaining
  <2> QED
    BY <1>3
<1>5. amount \in Int
  <2> HIDE DEF share
  <2> QED
    BY <1>1, <1>4
<1>6. /\ sub' = row
      /\ \/ amount > 0 /\ Create("UPGRADE", next, amount, left)
         \/ invoices' = invoices
      /\ Finish(a)
  BY <1>1 DEF ChangeWrite, IsRow, Record
<1> HIDE DEF seen, next, left, days, amount
<1>7. IsRow(row) /\ row.status # "NONE"
  BY <1>1, <1>2, PlannedRow
<1> HIDE DEF row
<1>8. Grows(invoices, invoices')
  <2>1. CASE amount > 0 /\ Create("UPGRADE", next, amount, left)
    <3>0. amount \in Nat
      BY <1>5, <2>1
    <3>1. IsInvoice(NewInvoice("UPGRADE", next, amount, left))
      BY <1>1, <1>2, <3>0, NewInvoiceOK
    <3> QED
      BY <2>1, <3>1, Grows_Append DEF Create, IInv
  <2>2. CASE invoices' = invoices
    BY <2>2, Grows_Same DEF IInv
  <2> QED
    BY <1>6, <2>1, <2>2
<1> QED
  BY <1>0, <1>6, <1>7, <1>8, Ends_Kept

\* The end of the period read before is moved.
LEMMA ExtendWrite_Kept == ASSUME IInv, NEW a \in Admin, ExtendWrite(a) PROVE Kept
<1> DEFINE seen == task[a].seen
           base == IF seen.status = "EXPIRED" /\ seen.left < 0 THEN 0 ELSE seen.left
           left == base + task[a].arg
           status == IF seen.status = "EXPIRED" THEN "ACTIVE" ELSE sub.status
           row == [sub EXCEPT !.left = left, !.status = status]
<1>0. a \in Worker /\ task[a].step = "extend"
  BY DEF Worker, ExtendWrite, Writes
<1>1. IsRow(sub) /\ sub.status # "NONE" /\ sub.plan \in Plan /\ IsRow(seen)
  BY <1>0, Reader DEF Reading
<1>2. task[a].arg \in Int
  BY <1>0 DEF IInv, TaskOK
<1>3. left \in Int /\ status # "NONE"
  BY <1>1, <1>2 DEF IsRow
<1>4. Writes(a, "extend", row)
  BY <1>1 DEF ExtendWrite, IsRow
<1> HIDE DEF left, status
<1>5. IsRow(row) /\ row.status # "NONE"
  BY <1>1, <1>3, DatedRow
<1> HIDE DEF row
<1> QED
  BY <1>4, <1>5, Writes_Kept

\* The date when the shop stops waiting for a payment is moved.
LEMMA ExtendGraceWrite_Kept == ASSUME IInv, NEW a \in Admin, ExtendGraceWrite(a) PROVE Kept
<1> DEFINE seen == task[a].seen
           base == IF seen.grace > 0 THEN seen.grace ELSE 0
           date == base + task[a].arg
           row == [sub EXCEPT !.status = "PAYMENT_PENDING", !.overdue = None, !.grace = date]
<1>0. a \in Worker /\ task[a].step = "extendGrace"
  BY DEF Worker, ExtendGraceWrite, Writes
<1>1. IsRow(sub) /\ sub.status # "NONE"
  BY <1>0, Reader DEF Reading
<1>2. Writes(a, "extendGrace", row)
  BY DEF ExtendGraceWrite
<1> HIDE DEF date
<1>3. IsRow(row) /\ row.status # "NONE"
  BY <1>1 DEF IsRow, Record
<1> HIDE DEF row
<1> QED
  BY <1>2, <1>3, Writes_Kept

\* The shop is made active again.
LEMMA ReactivateWrite_Kept == ASSUME IInv, NEW a \in Admin, ReactivateWrite(a) PROVE Kept
<1> USE BillingAssumption
<1> DEFINE seen == task[a].seen
           left == IF seen.left <= 0 THEN Term[seen.plan] ELSE sub.left
           date == task[a].arg
           row == [sub EXCEPT !.status = "ACTIVE", !.grace = None, !.overdue = None, !.ending = FALSE,
                              !.left = left, !.paused = TRUE, !.pausedFor = date]
<1>0. a \in Worker /\ task[a].step = "forceReactivate"
  BY DEF Worker, ReactivateWrite, Writes
<1>1. IsRow(sub) /\ sub.status # "NONE" /\ sub.plan \in Plan /\ seen.plan \in Plan
  BY <1>0, Reader DEF Reading
<1>2. left \in Int
  BY <1>1 DEF IsRow
<1>3. Writes(a, "forceReactivate", row)
  BY <1>1 DEF ReactivateWrite, IsRow
<1> HIDE DEF left, date
<1>4. IsRow(row) /\ row.status # "NONE"
  BY <1>1, <1>2 DEF IsRow, Record
<1> HIDE DEF row
<1> QED
  BY <1>3, <1>4, Writes_Kept

\* The subscription is cancelled, and its unpaid invoices with it.
LEMMA CancelWrite_Kept == ASSUME IInv, NEW a \in Admin, CancelWrite(a) PROVE Kept
<1> DEFINE row == [sub EXCEPT !.status = "CANCELLED", !.ending = FALSE, !.grace = None,
                              !.overdue = None, !.pending = NoPlan]
<1>0. a \in Worker /\ task[a].step = "cancel"
  BY DEF Worker, CancelWrite
<1>1. IsRow(sub) /\ sub.status # "NONE" /\ sub.plan \in Plan
  BY <1>0, Reader DEF Reading
<1>2. sub' = row /\ MoveAll(Unpaid, "VOID") /\ Finish(a)
  BY DEF CancelWrite
<1>3. IsRow(row) /\ row.status # "NONE"
  BY <1>1 DEF IsRow, Record
<1> HIDE DEF row
<1>4. Unpaid \cap Settled = {}
  BY DEF Unpaid, Settled
<1>5. Grows(invoices, invoices')
  BY <1>2, <1>4, MoveAll_Grows DEF IInv
<1> QED
  BY <1>0, <1>2, <1>3, <1>5, Ends_Kept

\* The other writes of the subscription.
LEMMA SimpleWrite_Kept ==
    ASSUME IInv, NEW a \in Admin,
           \/ ScheduleWrite(a) \/ UnscheduleWrite(a) \/ CancelLaterWrite(a) \/ ResumeWrite(a)
           \/ SuspendWrite(a) \/ ReleaseWrite(a) \/ PreferencesWrite(a)
    PROVE  Kept
<1> DEFINE arg == task[a].arg
<1>0. /\ a \in Worker
      /\ task[a].step \in {"schedule", "unschedule", "cancelLater", "resume", "forceSuspend",
                            "release", "preferences"}
  BY DEF Worker, ScheduleWrite, UnscheduleWrite, CancelLaterWrite, ResumeWrite, SuspendWrite,
         ReleaseWrite, PreferencesWrite, Writes
<1>1. IsRow(sub) /\ sub.status # "NONE" /\ sub.plan \in Plan
  BY <1>0, Reader DEF Reading
<1>2. ASSUME NEW step, NEW row, Writes(a, step, row), IsRow(row), row.status # "NONE" PROVE Kept
  BY <1>2, Writes_Kept
<1>3. CASE ScheduleWrite(a)
  <2>1. arg \in Plan
    BY <1>0, <1>3 DEF IInv, TaskOK, ScheduleWrite, Writes
  <2> HIDE DEF arg
  <2> DEFINE row == [sub EXCEPT !.pending = arg]
  <2>2. IsRow(row) /\ row.status # "NONE"
    BY <1>1, <2>1 DEF IsRow, Record
  <2>3. Writes(a, "schedule", row)
    BY <1>3 DEF ScheduleWrite, arg
  <2> HIDE DEF row
  <2> QED
    BY <1>2, <2>2, <2>3
<1>4. CASE SuspendWrite(a)
  <2> DEFINE row == [sub EXCEPT !.status = "SUSPENDED", !.paused = TRUE, !.pausedFor = arg]
  <2>1. Writes(a, "forceSuspend", row)
    BY <1>4 DEF SuspendWrite
  <2> HIDE DEF arg
  <2>2. IsRow(row) /\ row.status # "NONE"
    BY <1>1 DEF IsRow, Record
  <2> HIDE DEF row
  <2> QED
    BY <1>2, <2>1, <2>2
<1>5. CASE PreferencesWrite(a)
  <2> DEFINE row == [sub EXCEPT !.autoRenew = arg]
  <2>1. Writes(a, "preferences", row)
    BY <1>5 DEF PreferencesWrite
  <2> HIDE DEF arg
  <2>2. IsRow(row) /\ row.status # "NONE"
    BY <1>1 DEF IsRow, Record
  <2> HIDE DEF row
  <2> QED
    BY <1>2, <2>1, <2>2
<1>6. CASE UnscheduleWrite(a) \/ CancelLaterWrite(a) \/ ResumeWrite(a) \/ ReleaseWrite(a)
  <2> DEFINE first == [sub EXCEPT !.pending = NoPlan]
             second == [sub EXCEPT !.ending = TRUE, !.pending = NoPlan]
             third == [sub EXCEPT !.ending = FALSE]
             fourth == [sub EXCEPT !.paused = FALSE, !.pausedFor = None]
  <2>1. \/ Writes(a, "unschedule", first) \/ Writes(a, "cancelLater", second)
        \/ Writes(a, "resume", third) \/ Writes(a, "release", fourth)
    BY <1>6 DEF UnscheduleWrite, CancelLaterWrite, ResumeWrite, ReleaseWrite
  <2>2. \A row \in {first, second, third, fourth} : IsRow(row) /\ row.status # "NONE"
    BY <1>1 DEF IsRow, Record
  <2> HIDE DEF first, second, third, fourth
  <2> QED
    BY <1>2, <2>1, <2>2
<1> QED
  BY <1>3, <1>4, <1>5, <1>6

\* A step that moves a request on.
LEMMA Moves_Kept ==
    ASSUME IInv, NEW w \in Worker, NEW next, Go(w, next), sub' = sub, invoices' = invoices,
           TaskOK(next, invoices, sub)
    PROVE  Kept
<1>1. IsRow(sub') /\ Grows(invoices, invoices') /\ TaskOK(next, invoices', sub')
  BY Grows_Same DEF IInv
<1> QED
  BY <1>1, Step_Kept

\* An administrator notes a payment.
LEMMA Pay_Kept == ASSUME IInv, NEW a \in Admin, PayCheck(a) \/ PayWrite(a) PROVE Kept
<1> USE BillingAssumption
<1>0. /\ a \in Worker
      /\ task[a].step \in {"payCheck", "payWrite"}
  BY DEF Worker, PayCheck, PayWrite
<1>1. /\ IsRow(sub) /\ sub.status # "NONE" /\ sub.plan \in Plan
      /\ "seen" \in DOMAIN task[a] /\ IsRow(task[a].seen) /\ task[a].seen.plan \in Plan
  BY <1>0, Reader DEF Reading
<1>2. TaskOK(task[a], invoices, sub) /\ task[a].arg \in DOMAIN invoices
  BY <1>0 DEF IInv, TaskOK
<1>3. CASE PayCheck(a)
  <2> DEFINE next == [task[a] EXCEPT !.step = "payWrite"]
  <2>1. /\ Record(next) /\ DOMAIN next = DOMAIN task[a] /\ next.step = "payWrite"
        /\ next.seen = task[a].seen /\ next.arg = task[a].arg
    BY <1>1, <1>2, <1>0 DEF TaskOK, Record
  <2>2. Go(a, next) /\ sub' = sub /\ invoices' = invoices
    BY <1>3 DEF PayCheck
  <2> HIDE DEF next
  <2>3. TaskOK(next, invoices, sub)
    BY <1>0, <1>1, <1>2, <2>1 DEF TaskOK
  <2> QED
    BY <1>0, <2>2, <2>3, Moves_Kept
<1>4. CASE PayWrite(a)
  <2> DEFINE n == task[a].arg
             paid == invoices[n]
             seen == task[a].seen
             held == seen.paused /\ seen.status = "SUSPENDED"
             left == FromNow(paid.left, paid.plan)
             status == IF held THEN sub.status ELSE "ACTIVE"
             row == [sub EXCEPT !.left = left, !.grace = None, !.overdue = None, !.status = status]
  <2>1. /\ sub' = sub \/ sub' = row
        /\ SetPaid(n) /\ Finish(a)
    BY <1>1, <1>4 DEF PayWrite, IsRow
  <2>2. left \in Int /\ status # "NONE"
    BY <1>1, <1>2 DEF IInv, AreInvoices, IsInvoice, FromNow
  <2> HIDE DEF left, status
  <2>3. IsRow(row) /\ row.status # "NONE"
    BY <1>1, <2>2 DEF IsRow, Record
  <2> HIDE DEF row
  <2>4. Grows(invoices, invoices')
    BY <1>2, <2>1, SetPaid_Grows DEF IInv
  <2> QED
    BY <1>0, <1>1, <2>1, <2>3, <2>4, Ends_Kept
<1> QED
  BY <1>3, <1>4

\* What was refunded before is not more than the rows there are, also when it
\* is written: rows are only added.
LEMMA Refund_Kept == ASSUME IInv, NEW a \in Admin, RefundCheck(a) \/ RefundWrite(a) PROVE Kept
<1> DEFINE n == task[a].no
           value == task[a].value
           v == invoices[n]
<1>0. /\ a \in Worker
      /\ task[a].step \in {"refundCheck", "refundWrite"}
  BY DEF Worker, RefundCheck, RefundWrite
<1>1. TaskOK(task[a], invoices, sub) /\ AreInvoices(invoices) /\ IsRow(sub)
  BY <1>0 DEF IInv
<1>2. n \in DOMAIN invoices /\ value \in Nat
  BY <1>0, <1>1 DEF TaskOK
<1>3. IsInvoice(v)
  BY <1>1, <1>2 DEF AreInvoices
<1>4. CASE RefundCheck(a)
  <2> DEFINE next == [step |-> "refundWrite", no |-> n, value |-> value, before |-> v.refunded]
  <2>1. value <= v.amount - v.refunded
    BY <1>4 DEF RefundCheck, Refundable
  <2>2. v.refunded \in Int /\ v.refunded <= v.rows /\ v.refunded + value <= v.amount
    BY <1>2, <1>3, <2>1 DEF IsInvoice
  <2>3. Go(a, next) /\ sub' = sub /\ invoices' = invoices
    BY <1>4 DEF RefundCheck
  <2>4. /\ Record(next) /\ "step" \in DOMAIN next /\ next.step = "refundWrite"
        /\ next.no = n /\ next.value = value /\ next.before = v.refunded
    BY DEF Record
  <2> HIDE DEF next
  <2>5. TaskOK(next, invoices, sub)
    BY <1>2, <2>2, <2>4 DEF TaskOK, Reading
  <2> QED
    BY <1>0, <2>3, <2>5, Moves_Kept
<1>5. CASE RefundWrite(a)
  <2> DEFINE refunded == task[a].before + value
             rows == v.rows + value
             status == IF refunded >= v.amount THEN "REFUNDED" ELSE "PARTIALLY_REFUNDED"
             u == [v EXCEPT !.rows = rows, !.refunded = refunded, !.status = status]
  <2>1. task[a].before \in Int /\ task[a].before <= v.rows /\ refunded <= v.amount
    BY <1>1, <1>5 DEF TaskOK, RefundWrite
  <2>2. /\ Record(invoices') /\ DOMAIN invoices' = DOMAIN invoices
        /\ invoices'[n] = u
        /\ \A m \in DOMAIN invoices : m # n => invoices'[m] = invoices[m]
        /\ sub' = sub /\ Finish(a)
    BY <1>1, <1>2, <1>3, <1>5 DEF RefundWrite, Record, AreInvoices, IsList, IsInvoice
  <2>3. status \in Settled
    BY DEF Settled
  <2>4. refunded \in Int /\ rows \in Int /\ rows >= v.rows /\ refunded <= rows
    BY <1>2, <1>3, <2>1 DEF IsInvoice
  <2> HIDE DEF refunded, rows, status, value, n, v
  <2>5. IsInvoice(u) /\ u.amount = v.amount /\ u.rows = rows /\ u.status = status
    BY <1>3, <2>1, <2>4 DEF IsInvoice, Record
  <2> HIDE DEF u
  <2>6. Grows(invoices, invoices')
    BY <1>1, <1>2, <2>2, <2>3, <2>4, <2>5, One_Grows DEF v
  <2> QED
    BY <1>0, <1>1, <2>2, <2>6, Ends_Kept
<1> QED
  BY <1>4, <1>5

\* Every write of a request.
LEMMA Write_Kept == ASSUME IInv, NEW a \in Admin, Write(a) PROVE Kept
BY AssignWrite_Kept, ChangeWrite_Kept, ExtendWrite_Kept, ExtendGraceWrite_Kept, ReactivateWrite_Kept,
   CancelWrite_Kept, SimpleWrite_Kept, Pay_Kept, Refund_Kept DEF Write
-----------------------------------------------------------------------------
(***************************************************************************)
(* The billing checks.                                                     *)
(***************************************************************************)
\* What the checks do next fits the row they have just read.
LEMMA AfterOK ==
    ASSUME NEW stage, NEW s, IsRow(s), s.status # "NONE", NEW q
    PROVE  TaskOK(After(stage, s), q, s)
<1>1. s.plan \in Plan
  BY DEF IsRow
<1>2. ASSUME NEW step \in {"pastDue", "suspend", "unpause"} PROVE TaskOK([step |-> step], q, s)
  BY DEF TaskOK, Record, Reading
<1>3. ASSUME NEW step \in {"term", "retry"} PROVE TaskOK([step |-> step, seen |-> s], q, s)
  <2> DEFINE next == [step |-> step, seen |-> s]
  <2>1. Record(next) /\ DOMAIN next = {"step", "seen"} /\ next.step = step /\ next.seen = s
    BY DEF Record
  <2> HIDE DEF next
  <2>2. TaskOK(next, q, s)
    BY <1>1, <2>1 DEF TaskOK
  <2> QED
    BY <2>2 DEF next
<1>4. TaskOK(Idle, q, s)
  BY IdleOK
<1>5. \/ After(stage, s) = Idle
      \/ \E step \in {"pastDue", "suspend", "unpause"} : After(stage, s) = [step |-> step]
      \/ \E step \in {"term", "retry"} : After(stage, s) = [step |-> step, seen |-> s]
  BY DEF After, AfterOverride
<1> QED
  BY <1>2, <1>3, <1>4, <1>5

\* A charge that goes on, keeping what it has read.
LEMMA MovedOK ==
    ASSUME NEW t, NEW q, NEW r, TaskOK(t, q, r),
           t.step \in {"charge", "paidCheck", "paidWrite", "declined"},
           NEW step \in {"paidCheck", "paidWrite", "declined", "renew", "missed"},
           step = "renew" => q[t.no].status \in Settled
    PROVE  TaskOK([t EXCEPT !.step = step], q, r)
<1> DEFINE u == [t EXCEPT !.step = step]
<1>1. /\ "seen" \in DOMAIN t /\ "no" \in DOMAIN t /\ "for" \in DOMAIN t /\ "step" \in DOMAIN t /\ Record(t)
      /\ IsRow(t.seen) /\ t.seen.plan \in Plan /\ t.no \in DOMAIN q /\ r.status # "NONE"
  BY DEF TaskOK, Reading
<1>2. /\ Record(u) /\ DOMAIN u = DOMAIN t /\ u.step = step
      /\ u.seen = t.seen /\ u.no = t.no /\ u.for = t.for
  BY <1>1 DEF Record
<1> HIDE DEF u
<1>3. TaskOK(u, q, r)
  BY <1>1, <1>2 DEF TaskOK
<1> QED
  BY <1>3 DEF u

\* What follows the end of a period.
LEMMA AfterTermOK ==
    ASSUME NEW seen, NEW q, NEW r, r.status # "NONE"
    PROVE  TaskOK(AfterTerm(seen), q, r)
<1>1. TaskOK([step |-> "pending"], q, r)
  BY DEF TaskOK, Record, Reading
<1> QED
  BY <1>1, IdleOK DEF AfterTerm

\* A scheduled change of plan leaves a row.
LEMMA ChangedRow ==
    ASSUME NEW r, IsRow(r), r.plan \in Plan, NEW s, IsRow(s), s.plan \in Plan
    PROVE  /\ IsRow(Changed(r, s)) /\ Changed(r, s).left = r.left /\ Changed(r, s).plan \in Plan
           /\ Changed(r, s).status = r.status
           /\ NextPlan(s) \in Plan
<1>1. CASE s.pending = NoPlan
  BY <1>1 DEF Changed, NextPlan
<1>2. CASE s.pending # NoPlan
  <2> DEFINE p == s.pending
             u == [r EXCEPT !.plan = p, !.pending = NoPlan]
  <2>1. p \in Plan
    BY <1>2 DEF IsRow
  <2>2. Changed(r, s) = u /\ NextPlan(s) = p
    BY <1>2 DEF Changed, NextPlan
  <2> HIDE DEF p
  <2>3. IsRow(u) /\ u.left = r.left /\ u.plan \in Plan /\ u.status = r.status
    BY <2>1 DEF IsRow, Record
  <2> QED
    BY <2>1, <2>2, <2>3
<1> QED
  BY <1>1, <1>2

\* A step of the checks that writes the subscription only.
LEMMA CronWrites_Kept ==
    ASSUME IInv, NEW step, NEW row, NEW next, CronWrites(step, row, next),
           IsRow(row), row.status # "NONE", TaskOK(next, invoices, row)
    PROVE  Kept
<1>1. Go(Cron, next) /\ sub' = row /\ invoices' = invoices /\ Cron \in Worker
  BY DEF CronWrites, Worker
<1>2. Grows(invoices, invoices') /\ TaskOK(next, invoices', sub')
  BY <1>1, Grows_Same DEF IInv
<1> QED
  BY <1>1, <1>2, Step_Kept

\* Looking, and what follows from a look without a charge.
LEMMA Look_Kept == ASSUME IInv, Look \/ Unpause \/ SuspendOverdue PROVE Kept
<1>0. Cron \in Worker
  BY DEF Worker
<1>1. TaskOK(task[Cron], invoices, sub) /\ IsRow(sub)
  BY <1>0 DEF IInv
<1>2. CASE Look
  <2>1. sub.status # "NONE"
    <3>1. CASE task[Cron] = Idle
      BY <1>2, <3>1 DEF Look, WorthARun
    <3>2. CASE task[Cron] # Idle
      BY <1>1, <1>2, <3>2 DEF TaskOK, Look
    <3> QED
      BY <3>1, <3>2
  <2>2. TaskOK(After(task[Cron].step, sub), invoices, sub)
    BY <1>1, <2>1, AfterOK
  <2> QED
    BY <1>0, <1>2, <2>2, Moves_Kept DEF Look
<1>3. CASE Unpause
  <2> DEFINE row == [sub EXCEPT !.paused = FALSE, !.pausedFor = None]
             next == [step |-> "unpaused"]
  <2>1. CronWrites("unpause", row, next)
    BY <1>3 DEF Unpause
  <2>2. IsRow(row) /\ row.status # "NONE"
    BY <1>1, <2>1 DEF IsRow, Record, TaskOK, CronWrites
  <2> HIDE DEF row
  <2>3. TaskOK(next, invoices, row)
    BY <2>2 DEF TaskOK, Record, Reading
  <2> QED
    BY <2>1, <2>2, <2>3, CronWrites_Kept
<1>4. CASE SuspendOverdue
  <2> DEFINE row == [sub EXCEPT !.status = "SUSPENDED"]
  <2>1. CronWrites("suspend", row, Idle)
    BY <1>4 DEF SuspendOverdue
  <2>2. IsRow(row) /\ row.status # "NONE"
    BY <1>1, <2>1 DEF IsRow, Record, TaskOK, CronWrites
  <2> HIDE DEF row
  <2> QED
    BY <2>1, <2>2, IdleOK, CronWrites_Kept
<1> QED
  BY <1>2, <1>3, <1>4

\* What the checks have read of a period that is over.
LEMMA AtTerm ==
    ASSUME IInv, task[Cron].step \in Reading
    PROVE  /\ Cron \in Worker /\ TaskOK(task[Cron], invoices, sub)
           /\ IsRow(sub) /\ sub.status # "NONE" /\ sub.plan \in Plan
           /\ IsRow(Seen) /\ Seen.plan \in Plan /\ NextPlan(Seen) \in Plan
<1>1. Cron \in Worker
  BY DEF Worker
<1>2. /\ TaskOK(task[Cron], invoices, sub)
      /\ IsRow(sub) /\ sub.status # "NONE" /\ sub.plan \in Plan /\ IsRow(Seen) /\ Seen.plan \in Plan
  BY <1>1, Reader DEF Seen, IInv
<1> QED
  BY <1>1, <1>2, ChangedRow

\* The end of a period, and the renewals of a row.
LEMMA Term_Kept ==
    ASSUME IInv, EndCancelled \/ EndExpired \/ RenewFree \/ PaymentMissed
    PROVE  Kept
<1> USE BillingAssumption
<1>0. task[Cron].step \in {"term", "missed"}
  BY DEF EndCancelled, EndExpired, RenewFree, Renews, PaymentMissed
<1>1. /\ IsRow(sub) /\ sub.status # "NONE" /\ sub.plan \in Plan
      /\ IsRow(Seen) /\ Seen.plan \in Plan /\ NextPlan(Seen) \in Plan
  BY <1>0, AtTerm DEF Reading
<1> DEFINE c == Changed(sub, Seen)
           next == AfterTerm(Seen)
           left == Seen.left + Term[NextPlan(Seen)]
           cancelled == [sub EXCEPT !.status = "CANCELLED", !.ending = FALSE, !.pending = NoPlan]
           expired == [sub EXCEPT !.status = "EXPIRED"]
           renewed == [c EXCEPT !.status = "ACTIVE", !.left = left]
           waiting == [c EXCEPT !.status = "PAYMENT_PENDING", !.grace = GraceDays]
<1>2. IsRow(c) /\ c.plan \in Plan /\ left \in Int
  <2>1. IsRow(c) /\ c.plan \in Plan
    BY <1>1, ChangedRow
  <2>2. left \in Int
    BY <1>1 DEF IsRow
  <2> QED
    BY <2>1, <2>2
<1>3. \/ CronWrites("term", cancelled, next) \/ CronWrites("term", expired, next)
      \/ CronWrites("term", renewed, next) \/ CronWrites("missed", waiting, next)
  BY DEF EndCancelled, EndExpired, RenewFree, PaymentMissed
<1> HIDE DEF c, left, next
<1>4. \A row \in {cancelled, expired, renewed, waiting} : IsRow(row) /\ row.status # "NONE"
  <2>1. IsRow(cancelled) /\ cancelled.status # "NONE"
    BY <1>1 DEF IsRow, Record
  <2>2. IsRow(expired) /\ expired.status # "NONE"
    BY <1>1 DEF IsRow, Record
  <2>3. IsRow(renewed) /\ renewed.status # "NONE"
    BY <1>2 DEF IsRow, Record
  <2>4. IsRow(waiting) /\ waiting.status # "NONE"
    BY <1>2 DEF IsRow, Record
  <2> HIDE DEF cancelled, expired, renewed, waiting
  <2> QED
    BY <2>1, <2>2, <2>3, <2>4
<1> HIDE DEF cancelled, expired, renewed, waiting
<1>5. ASSUME NEW row, row.status # "NONE" PROVE TaskOK(next, invoices, row)
  BY <1>5, AfterTermOK DEF next
<1> QED
  BY <1>3, <1>4, <1>5, CronWrites_Kept

\* A renewal is invoiced.
LEMMA MakeInvoice_Kept == ASSUME IInv, MakeInvoice PROVE Kept
<1> USE BillingAssumption
<1> DEFINE p == NextPlan(Seen)
           left == Seen.left + Term[p]
           v == NewInvoice("RENEWAL", p, Price[p], left)
           n == Len(invoices) + 1
           next == [step |-> IF Gateway THEN "charge" ELSE "missed", for |-> "term", seen |-> Seen, no |-> n]
<1>0. task[Cron].step = "term"
  BY DEF MakeInvoice, Renews
<1>1. /\ Cron \in Worker /\ IsRow(sub) /\ sub.status # "NONE"
      /\ IsRow(Seen) /\ Seen.plan \in Plan /\ p \in Plan
  BY <1>0, AtTerm DEF Reading
<1>2. invoices' = Append(invoices, v) /\ Go(Cron, next) /\ sub' = sub
  BY DEF MakeInvoice, Create
<1>3. left \in Int /\ Price[p] \in Nat
  BY <1>1 DEF IsRow
<1>4. next.step \in {"charge", "missed"} /\ Record(next) /\ DOMAIN next = {"step", "for", "seen", "no"}
      /\ next.seen = Seen /\ next.no = n
  BY DEF Record
<1> HIDE DEF p, left, next
<1>5. IsInvoice(v)
  BY <1>1, <1>3, NewInvoiceOK
<1> HIDE DEF v
<1>6. AreInvoices(invoices)
  BY DEF IInv
<1>7. Grows(invoices, invoices')
  BY <1>2, <1>5, <1>6, Grows_Append
<1>8. n \in DOMAIN invoices'
  <2>1. Len(invoices) \in Nat /\ DOMAIN invoices' = 1 .. n
    BY <1>2, <1>6, ListLen, ListAppend DEF AreInvoices
  <2> QED
    BY <2>1
<1> HIDE DEF n
<1>9. TaskOK(next, invoices', sub')
  BY <1>1, <1>2, <1>4, <1>8 DEF TaskOK
<1> QED
  BY <1>1, <1>2, <1>7, <1>9, Step_Kept

\* An invoice to charge again is found, or none.
LEMMA FindRetry_Kept == ASSUME IInv, FindRetry PROVE Kept
<1> DEFINE n == Oldest(Retriable)
           charge == [step |-> "charge", for |-> "retry", seen |-> Seen, no |-> n]
           grace == [step |-> "grace"]
<1>0. task[Cron].step = "retry"
  BY DEF FindRetry
<1>1. Cron \in Worker /\ IsRow(sub) /\ sub.status # "NONE" /\ IsRow(Seen) /\ Seen.plan \in Plan
  BY <1>0, AtTerm DEF Reading
<1>2. TaskOK(grace, invoices, sub)
  BY <1>1 DEF TaskOK, Record, Reading
<1>3. ASSUME Retriable # {} PROVE TaskOK(charge, invoices, sub)
  <2>1. n \in DOMAIN invoices
    BY <1>3, OldestIn DEF Retriable, IInv, AreInvoices
  <2>2. /\ charge.step = "charge" /\ Record(charge) /\ DOMAIN charge = {"step", "for", "seen", "no"}
        /\ charge.seen = Seen /\ charge.no = n
    BY DEF Record
  <2> HIDE DEF charge
  <2> QED
    BY <1>1, <2>1, <2>2 DEF TaskOK
<1>4. /\ sub' = sub /\ invoices' = invoices
      /\ Go(Cron, grace) \/ (Retriable # {} /\ Go(Cron, charge))
  BY DEF FindRetry
<1> HIDE DEF charge, grace
<1> QED
  BY <1>1, <1>2, <1>3, <1>4, Moves_Kept

\* The gateway's answer, and the invoice it is about.
LEMMA Charge_Kept == ASSUME IInv, Charge \/ CronPayCheck \/ CronPayWrite \/ Declined PROVE Kept
<1> DEFINE t == task[Cron]
           n == t.no
           v == invoices[n]
<1>0. t.step \in {"charge", "paidCheck", "paidWrite", "declined"}
  BY DEF Charge, CronPayCheck, CronPayWrite, Declined
<1>1. /\ Cron \in Worker /\ TaskOK(t, invoices, sub)
      /\ IsRow(sub) /\ sub.status # "NONE"
  BY <1>0, AtTerm DEF Reading
<1>2. n \in DOMAIN invoices /\ AreInvoices(invoices) /\ IsInvoice(v)
  BY <1>0, <1>1 DEF TaskOK, IInv, AreInvoices
<1>3. CASE Charge \/ CronPayCheck
  <2>1. PICK step \in {"paidCheck", "paidWrite", "declined"} : Go(Cron, [t EXCEPT !.step = step])
    BY <1>3 DEF Charge, CronPayCheck
  <2>2. sub' = sub /\ invoices' = invoices
    BY <1>3 DEF Charge, CronPayCheck
  <2>3. TaskOK([t EXCEPT !.step = step], invoices, sub)
    BY <1>0, <1>1, MovedOK
  <2> QED
    BY <1>1, <2>1, <2>2, <2>3, Moves_Kept
<1>4. CASE CronPayWrite
  <2> DEFINE next == [t EXCEPT !.step = "renew"]
  <2>1. SetPaid(n) /\ Go(Cron, next) /\ sub' = sub
    BY <1>4 DEF CronPayWrite
  <2>2. Grows(invoices, invoices') /\ invoices'[n].status \in Settled
    BY <1>2, <2>1, SetPaid_Grows
  <2>3. TaskOK(t, invoices', sub')
    BY <1>1, <1>2, <2>1, <2>2, TaskStays
  <2>4. TaskOK(next, invoices', sub')
    BY <1>0, <2>2, <2>3, MovedOK
  <2> HIDE DEF next
  <2> QED
    BY <1>1, <2>1, <2>2, <2>4, Step_Kept
<1>5. CASE Declined
  <2> DEFINE tries == IF t.for = "term" THEN 1 ELSE v.tries + 1
             more == IF t.for = "term" THEN RetryAttempts > 0 ELSE tries <= RetryAttempts
             date == IF more THEN RetryIntervalDays ELSE None
             u == [v EXCEPT !.tries = tries, !.retry = date]
             next == IF t.for = "term" THEN [t EXCEPT !.step = "missed"] ELSE [step |-> "grace"]
  <2>1. /\ Record(invoices') /\ DOMAIN invoices' = DOMAIN invoices
        /\ invoices'[n] = u
        /\ \A m \in DOMAIN invoices : m # n => invoices'[m] = invoices[m]
        /\ sub' = sub /\ Go(Cron, next)
    BY <1>2, <1>5 DEF Declined, Record, AreInvoices, IsList, IsInvoice
  <2> HIDE DEF tries, date
  <2>2. IsInvoice(u) /\ u.amount = v.amount /\ u.rows = v.rows /\ u.status = v.status
    BY <1>2 DEF IsInvoice, Record
  <2> HIDE DEF u
  <2>3. u.rows >= v.rows
    BY <1>2, <2>2 DEF IsInvoice
  <2>4. Grows(invoices, invoices')
    BY <1>2, <2>1, <2>2, <2>3, One_Grows
  <2>5. TaskOK(t, invoices', sub')
    BY <1>1, <1>2, <2>1, <2>4, TaskStays
  <2>6. TaskOK([t EXCEPT !.step = "missed"], invoices', sub')
    BY <1>0, <2>5, MovedOK
  <2>7. TaskOK([step |-> "grace"], invoices', sub')
    BY <1>1, <2>1 DEF TaskOK, Record, Reading
  <2>8. TaskOK(next, invoices', sub')
    BY <2>6, <2>7
  <2> HIDE DEF next
  <2> QED
    BY <1>1, <2>1, <2>4, <2>8, Step_Kept
<1> QED
  BY <1>3, <1>4, <1>5

\* A paid renewal.
LEMMA Renew_Kept == ASSUME IInv, RenewPaid \/ RenewRetried PROVE Kept
<1> USE BillingAssumption
<1> DEFINE v == invoices[task[Cron].no]
           c == Changed(sub, Seen)
           paidLeft == v.left
           retriedLeft == FromNow(v.left, v.plan)
           paid == [c EXCEPT !.status = "ACTIVE", !.left = paidLeft]
           retried == [sub EXCEPT !.status = "ACTIVE", !.grace = None, !.overdue = None, !.left = retriedLeft]
           next == AfterTerm(Seen)
           grace == [step |-> "grace"]
<1>0. task[Cron].step = "renew"
  BY DEF RenewPaid, RenewRetried
<1>1. /\ TaskOK(task[Cron], invoices, sub)
      /\ IsRow(sub) /\ sub.status # "NONE" /\ sub.plan \in Plan /\ IsRow(Seen) /\ Seen.plan \in Plan
  BY <1>0, AtTerm DEF Reading
<1>2. IsInvoice(v)
  BY <1>0, <1>1 DEF TaskOK, IInv, AreInvoices
<1>3. paidLeft \in Int /\ retriedLeft \in Int
  BY <1>2 DEF IsInvoice, FromNow
<1>4. IsRow(c) /\ c.plan \in Plan
  BY <1>1, ChangedRow
<1>5. CronWrites("renew", paid, next) \/ CronWrites("renew", retried, grace)
  BY DEF RenewPaid, RenewRetried
<1> HIDE DEF c, paidLeft, retriedLeft
<1>6. IsRow(paid) /\ paid.status # "NONE"
  BY <1>3, <1>4 DEF IsRow, Record
<1>7. IsRow(retried) /\ retried.status # "NONE"
  BY <1>1, <1>3 DEF IsRow, Record
<1> HIDE DEF paid, retried
<1>8. TaskOK(next, invoices, paid)
  BY <1>6, AfterTermOK
<1>9. TaskOK(grace, invoices, retried)
  BY <1>7 DEF TaskOK, Record, Reading
<1> HIDE DEF next, grace
<1> QED
  BY <1>5, <1>6, <1>7, <1>8, <1>9, CronWrites_Kept

\* The date for a payment is missed.
LEMMA ToPastDue_Kept == ASSUME IInv, ToPastDue PROVE Kept
<1> DEFINE row == [sub EXCEPT !.status = "PAST_DUE", !.overdue = 0]
           next == [step |-> "overdue"]
<1>1. Cron \in Worker /\ IsRow(sub) /\ TaskOK(task[Cron], invoices, sub)
  BY DEF Worker, IInv
<1>2. sub.status # "NONE"
  BY <1>1 DEF TaskOK, ToPastDue
<1>3. MoveAll({"OPEN"}, "FAILED") /\ sub' = row /\ Go(Cron, next)
  BY DEF ToPastDue
<1>4. IsRow(row) /\ row.status # "NONE"
  BY <1>1, <1>2 DEF IsRow, Record
<1> HIDE DEF row
<1>5. {"OPEN"} \cap Settled = {}
  BY DEF Settled
<1>6. Grows(invoices, invoices')
  BY <1>3, <1>5, MoveAll_Grows DEF IInv
<1>7. TaskOK(next, invoices', sub')
  BY <1>3, <1>4 DEF TaskOK, Record, Reading
<1> QED
  BY <1>1, <1>3, <1>4, <1>6, <1>7, Step_Kept

\* Every step of the checks.
LEMMA CronStep_Kept == ASSUME IInv, CronStep PROVE Kept
BY Look_Kept, Term_Kept, MakeInvoice_Kept, FindRetry_Kept, Charge_Kept, Renew_Kept, ToPastDue_Kept
   DEF CronStep
-----------------------------------------------------------------------------
(***************************************************************************)
(* Failures, refusals, days.                                               *)
(***************************************************************************)
\* A failure or a refusal ends a task and writes nothing.
LEMMA Fails_Kept == ASSUME IInv, NEW w \in Worker, Fails(w) \/ Refused(w) PROVE Kept
<1>1. Go(w, Idle) /\ sub' = sub /\ invoices' = invoices
  BY DEF Fails, Refused, Finish
<1> QED
  BY <1>1, IdleOK, Moves_Kept

\* A day passes.
LEMMA Tick_Kept == ASSUME IInv, Tick PROVE Kept
<1> USE BillingAssumption
<1>0. AreInvoices(invoices) /\ IsRow(sub)
  BY DEF IInv
<1>1. ASSUME NEW d \in Int PROVE Closer(d) \in Int
  BY DEF Closer
<1>2. IsRow(sub') /\ sub'.status = sub.status
  <2> DEFINE left == Closer(sub.left)
             grace == Sooner(sub.grace)
             for == Sooner(sub.pausedFor)
             overdue == IF sub.overdue \in 0 .. SuspendAfterPastDueDays - 1 THEN sub.overdue + 1 ELSE sub.overdue
             row == [sub EXCEPT !.left = left, !.grace = grace, !.pausedFor = for, !.overdue = overdue]
  <2>1. sub' = row
    BY <1>0 DEF Tick, IsRow
  <2>2. left \in Int
    BY <1>0, <1>1 DEF IsRow
  <2> HIDE DEF left, grace, for, overdue
  <2>3. IsRow(row) /\ row.status = sub.status
    BY <1>0, <2>2 DEF IsRow, Record
  <2> QED
    BY <2>1, <2>3
<1>3. Record(invoices') /\ DOMAIN invoices' = DOMAIN invoices
  BY DEF Tick, Record
<1>4. ASSUME NEW n \in DOMAIN invoices
      PROVE  /\ IsInvoice(invoices'[n])
             /\ invoices'[n].amount = invoices[n].amount /\ invoices'[n].rows >= invoices[n].rows
             /\ invoices[n].status \in Settled => invoices'[n].status \in Settled
  <2> DEFINE v == invoices[n]
             left == Closer(v.left)
             date == Sooner(v.retry)
             u == [v EXCEPT !.left = left, !.retry = date]
  <2>1. IsInvoice(v)
    BY <1>0 DEF AreInvoices
  <2>2. invoices'[n] = u
    BY <2>1 DEF Tick, IsInvoice
  <2>3. left \in Int
    BY <1>1, <2>1 DEF IsInvoice
  <2> HIDE DEF left, date
  <2>4. IsInvoice(u) /\ u.amount = v.amount /\ u.rows = v.rows /\ u.status = v.status
    BY <2>1, <2>3 DEF IsInvoice, Record
  <2> HIDE DEF u
  <2>5. u.rows >= v.rows
    BY <2>1, <2>4 DEF IsInvoice
  <2> QED
    BY <2>2, <2>4, <2>5
<1>5. Grows(invoices, invoices')
  BY <1>0, <1>3, <1>4, Grows_Map
<1>6. ASSUME NEW w \in Worker PROVE TaskOK(task'[w], invoices', sub')
  <2>1. TaskOK(task[w], invoices, sub) /\ task'[w] = task[w]
    BY DEF Tick, IInv
  <2> QED
    BY <1>0, <1>2, <1>5, <2>1, TaskStays
<1> QED
  BY <1>2, <1>5, <1>6 DEF Tick, IInv, Grows, Kept

\* Every step keeps the invariant, and what has become of the invoices.
LEMMA Next_Kept == ASSUME IInv, [Next]_vars PROVE Kept
<1>1. CASE Next
  <2>1. ASSUME NEW a \in Admin, Request(a) \/ Write(a) PROVE Kept
    BY <2>1, Request_Kept, Write_Kept
  <2>2. ASSUME NEW w \in Worker, Fails(w) \/ Refused(w) PROVE Kept
    BY <2>2, Fails_Kept
  <2> QED
    BY <1>1, <2>1, <2>2, CronStep_Kept, Tick_Kept DEF Next
<1>2. CASE UNCHANGED vars
  <2>1. IInv'
    BY <1>2 DEF vars, IInv
  <2>2. Grows(invoices, invoices')
    BY <1>2, Grows_Same DEF vars, IInv
  <2> QED
    BY <2>1, <2>2 DEF Kept
<1> QED
  BY <1>1, <1>2

\* The invariant holds at the start.
LEMMA Init_IInv == ASSUME Init PROVE IInv
<1>1. IsRow(sub)
  BY DEF Init, Unassigned, IsRow, Record
<1>2. AreInvoices(invoices)
  BY DEF Init, AreInvoices, IsList, Record
<1>3. Record(task) /\ DOMAIN task = Worker /\ \A w \in Worker : TaskOK(task[w], invoices, sub)
  <2>1. \A w \in Worker : task[w] = Idle
    BY DEF Init
  <2>2. Record(task) /\ DOMAIN task = Worker
    BY DEF Init, Record
  <2> QED
    BY <2>1, <2>2, IdleOK
<1> QED
  BY <1>1, <1>2, <1>3 DEF IInv

\* The invariant holds of every state.
LEMMA Spec_IInv == Spec => []IInv
<1>1. IInv /\ [Next]_vars => IInv'
  BY Next_Kept DEF Kept
<1> QED
  BY <1>1, Init_IInv, PTL DEF Spec
-----------------------------------------------------------------------------
\* What an invoice says was refunded has been refunded and is not more than its
\* amount, for any number of administrators who refund at the same time.
THEOREM Spec_RefundRecordSound == Spec => []RefundRecordSound
<1>1. IInv => RefundRecordSound
  BY DEF IInv, AreInvoices, IsInvoice, RefundRecordSound
<1> QED
  BY <1>1, Spec_IInv, PTL

\* An invoice that was paid stays paid or refunded, whichever administrators
\* and checks had read it before.
THEOREM Spec_PaidStaysPaid == Spec => PaidStaysPaid
<1> DEFINE A == \A n \in DOMAIN invoices :
                    invoices[n].status \in Settled => invoices'[n].status \in Settled
<1>1. IInv /\ [Next]_vars => [A]_vars
  BY Next_Kept DEF Kept, Grows
<1> QED
  BY <1>1, Spec_IInv, PTL DEF Spec, PaidStaysPaid
-----------------------------------------------------------------------------
\* A request does not touch what the checks do next.
LEMMA Requests_LeaveCron ==
    ASSUME IInv, NEW a \in Admin, Request(a) \/ Write(a)
    PROVE  task'[Cron] = task[Cron]
<1>0. a # Cron
  BY BillingAssumption
<1>1. ASSUME NEW next, Go(a, next) PROVE task'[Cron] = task[Cron]
  BY <1>0, <1>1 DEF Go, IInv, Record, Worker
<1>2. ASSUME NEW next, Ask(a, next) PROVE task'[Cron] = task[Cron]
  BY <1>1, <1>2 DEF Ask
<1>3. CASE Request(a)
  BY <1>2, <1>3 DEF Request, AskAssign, AskChangePlan, AskExtend, AskExtendGrace, AskSuspend, AskReactivate,
     AskUnschedule, AskResume, AskRelease, AskAutoRenew, AskCancel, AskMarkOldestPaid, AskMarkPaid, AskRefund, Load
<1>4. CASE PayCheck(a) \/ RefundCheck(a)
  BY <1>1, <1>4 DEF PayCheck, RefundCheck
<1>5. CASE Write(a) /\ ~PayCheck(a) /\ ~RefundCheck(a)
  <2>1. Finish(a)
    BY <1>5 DEF Write, AssignWrite, ScheduleWrite, ChangeWrite, UnscheduleWrite, ExtendWrite, ExtendGraceWrite,
       CancelLaterWrite, CancelWrite, ResumeWrite, SuspendWrite, ReactivateWrite, ReleaseWrite,
       PreferencesWrite, PayWrite, RefundWrite, Writes
  <2> QED
    BY <1>1, <2>1 DEF Finish
<1> QED
  BY <1>3, <1>4, <1>5

\* What a step of the checks that lengthens the period goes by.
Renewal ==
    \/ Price[NextPlan(task[Cron].seen)] = 0
    \/ \E n \in DOMAIN invoices :
          /\ invoices[n].status \in Settled
          /\ sub'.left \in {invoices[n].left, FromNow(invoices[n].left, invoices[n].plan)}

\* Of the steps of the checks only the renewals change the end of the period.
LEMMA Cron_Renewal == ASSUME IInv, CronStep, sub'.left > sub.left PROVE Renewal
<1> USE BillingAssumption
<1>0. IsRow(sub) /\ sub.left \in Int /\ Cron \in Worker /\ TaskOK(task[Cron], invoices, sub)
  BY DEF IInv, IsRow, Worker
<1>1. sub'.left # sub.left
  BY <1>0
<1>2. CASE RenewFree
  BY <1>2 DEF RenewFree, Seen, Renewal
<1>3. CASE RenewPaid \/ RenewRetried
  <2> DEFINE v == invoices[task[Cron].no]
             c == Changed(sub, Seen)
  <2>0. task[Cron].step = "renew"
    BY <1>3 DEF RenewPaid, RenewRetried
  <2>1. task[Cron].no \in DOMAIN invoices /\ v.status \in Settled
    BY <1>0, <2>0 DEF TaskOK
  <2>2. IsRow(c)
    BY <2>0, AtTerm, ChangedRow DEF Reading
  <2>3. sub' = [c EXCEPT !.status = "ACTIVE", !.left = v.left]
        \/ sub' = [sub EXCEPT !.status = "ACTIVE", !.grace = None, !.overdue = None, !.left = FromNow(v.left, v.plan)]
    BY <1>3 DEF RenewPaid, RenewRetried, CronWrites
  <2> HIDE DEF c
  <2>4. sub'.left = v.left \/ sub'.left = FromNow(v.left, v.plan)
    BY <1>0, <2>2, <2>3 DEF IsRow
  <2> QED
    BY <2>1, <2>4 DEF Renewal
<1>4. CASE PaymentMissed
  <2> DEFINE c == Changed(sub, Seen)
  <2>1. IsRow(c) /\ c.left = sub.left
    BY <1>4, AtTerm, ChangedRow DEF Reading, PaymentMissed
  <2>2. sub' = [c EXCEPT !.status = "PAYMENT_PENDING", !.grace = GraceDays]
    BY <1>4 DEF PaymentMissed, CronWrites
  <2> HIDE DEF c
  <2>3. sub'.left = sub.left
    BY <2>1, <2>2 DEF IsRow
  <2> QED
    BY <1>1, <2>3
<1>5. CASE Unpause \/ EndCancelled \/ EndExpired \/ ToPastDue \/ SuspendOverdue
  <2>1. sub'.left = sub.left
    BY <1>0, <1>5 DEF Unpause, EndCancelled, EndExpired, ToPastDue, SuspendOverdue, CronWrites, IsRow
  <2> QED
    BY <1>1, <2>1
<1>6. CASE Look \/ MakeInvoice \/ FindRetry \/ Charge \/ CronPayCheck \/ CronPayWrite \/ Declined
  <2>1. sub' = sub
    BY <1>6 DEF Look, MakeInvoice, FindRetry, Charge, CronPayCheck, CronPayWrite, Declined
  <2> QED
    BY <1>1, <2>1
<1> QED
  BY <1>2, <1>3, <1>4, <1>5, <1>6 DEF CronStep

\* The checks lengthen a period only for a free plan or a paid invoice, for any
\* prices, cycles and retry settings.
THEOREM Spec_RenewedOnlyIfPaid == Spec => RenewedOnlyIfPaid
<1> DEFINE A == task'[Cron] # task[Cron] /\ sub'.left > sub.left => Renewal
<1>1. ASSUME IInv, [Next]_vars, task'[Cron] # task[Cron], sub'.left > sub.left PROVE Renewal
  <2>0. sub.left \in Int
    BY <1>1 DEF IInv, IsRow
  <2>1. CASE \E a \in Admin : Request(a) \/ Write(a)
    BY <1>1, <2>1, Requests_LeaveCron
  <2>2. CASE CronStep
    BY <1>1, <2>2, Cron_Renewal
  <2>3. CASE (\E w \in Worker : Fails(w) \/ Refused(w)) \/ UNCHANGED vars
    <3>1. sub' = sub
      BY <2>3 DEF Fails, Refused, vars
    <3> QED
      BY <1>1, <2>0, <3>1
  <2>4. CASE Tick
    BY <1>1, <2>4 DEF Tick
  <2> QED
    BY <1>1, <2>1, <2>2, <2>3, <2>4 DEF Next
<1>2. IInv /\ [Next]_vars => [A]_vars
  BY <1>1
<1> QED
  BY <1>2, Spec_IInv, PTL DEF Spec, RenewedOnlyIfPaid, Renewal
-----------------------------------------------------------------------------
(***************************************************************************)
(* Types.  TInv adds to the invariant what the fields are: a row as the    *)
(* database has it once a plan is assigned, and what a task is to write.   *)
(* A shop without a subscription has no invoice, so the first one is       *)
(* within the bound; an invoice that is charged again has tries left, so   *)
(* one more is within the limit.                                           *)
(***************************************************************************)
\* A subscription that is there.
RowT(r) ==
    /\ r \in Row /\ r.status # "NONE" /\ r.plan \in Plan
    /\ r.overdue \in None .. SuspendAfterPastDueDays

InvoiceT(v) == v \in Invoice /\ v.amount > 0 /\ v.tries <= RetryAttempts + 1

\* What task t has read and is to write.
TaskT(t) ==
    /\ t.step \in Reading => t.seen \in Row
    /\ t.step \in {"forceSuspend", "forceReactivate"} => t.arg \in Int
    /\ t.step = "preferences" => t.arg \in BOOLEAN
    /\ t.step = "assign" => t.renew \in BOOLEAN
    /\ t.step = "refundWrite" => t.before \in Nat

SubT(r, q) ==
    \/ RowT(r)
    \/ /\ r \in Row /\ r.status = "NONE" /\ r.plan = NoPlan
       /\ r.overdue \in None .. SuspendAfterPastDueDays /\ q = <<>>

InvoicesT(q) == Len(q) <= MaxInvoices /\ \A n \in DOMAIN q : InvoiceT(q[n])

\* Invoice t.no is being charged for another time.
Again(t) == t.step \in {"charge", "paidCheck", "paidWrite", "declined"} /\ t.for # "term"
TriesT(t, q) == Again(t) => q[t.no].tries <= RetryAttempts

TInv ==
    /\ SubT(sub, invoices) /\ InvoicesT(invoices) /\ TriesT(task[Cron], invoices)
    /\ \A w \in Worker : TaskT(task[w])
    /\ requests \in 0 .. MaxRequests /\ faults \in 0 .. MaxFaults

\* Invoices p have the tries q has.
SameTries(q, p) == DOMAIN q \subseteq DOMAIN p /\ \A n \in DOMAIN q : p[n].tries = q[n].tries

Counted == requests' \in 0 .. MaxRequests /\ faults' \in 0 .. MaxFaults

\* A step that changes one task.
LEMMA Step_T ==
    ASSUME IInv, TInv, NEW w \in Worker, NEW next, Go(w, next), TaskT(next),
           SubT(sub', invoices'), InvoicesT(invoices'), TriesT(task'[Cron], invoices'), Counted
    PROVE  TInv'
<1>1. ASSUME NEW v \in Worker PROVE TaskT(task'[v])
  <2>1. task'[v] = next \/ task'[v] = task[v]
    BY DEF IInv, Go, Record
  <2> QED
    BY <2>1 DEF TInv
<1> QED
  BY <1>1 DEF TInv, Counted

\* Tries are left of what is charged again, as before.
LEMMA Tries_T ==
    ASSUME IInv, TInv, NEW t, NEW q, SameTries(invoices, q),
           Again(t) => Again(task[Cron]) /\ t.no = task[Cron].no
    PROVE  TriesT(t, q)
<1> SUFFICES ASSUME Again(t) PROVE q[t.no].tries <= RetryAttempts
  BY DEF TriesT
<1>1. Cron \in Worker
  BY DEF Worker
<1>2. TaskOK(task[Cron], invoices, sub) /\ Again(task[Cron])
  BY <1>1 DEF IInv
<1>3. task[Cron].no \in DOMAIN invoices
  BY <1>2 DEF TaskOK, Again
<1>4. invoices[task[Cron].no].tries <= RetryAttempts
  BY <1>2 DEF TInv, TriesT
<1> QED
  BY <1>3, <1>4 DEF SameTries

\* A step of a request.
LEMMA Admin_T ==
    ASSUME IInv, TInv, NEW a \in Admin, NEW next, Go(a, next), TaskT(next),
           SubT(sub', invoices'), InvoicesT(invoices'), SameTries(invoices, invoices'), Counted
    PROVE  TInv'
<1>1. a \in Worker /\ a # Cron /\ Cron \in Worker
  BY BillingAssumption DEF Worker
<1>2. task'[Cron] = task[Cron]
  BY <1>1 DEF Go, IInv, Record
<1>3. TriesT(task'[Cron], invoices')
  BY <1>2, Tries_T
<1> QED
  BY <1>1, <1>3, Step_T

\* A task that is not under way.
LEMMA Idle_T == TaskT(Idle)
BY DEF TaskT, Idle, Reading

\* An invoice is added.
LEMMA Append_T ==
    ASSUME IInv, InvoicesT(invoices), NEW v, InvoiceT(v), Len(invoices) < MaxInvoices
    PROVE  LET p == Append(invoices, v) IN InvoicesT(p) /\ SameTries(invoices, p)
<1> DEFINE q == invoices
<1>1. PICK p : p = Append(q, v)
  OBVIOUS
<1>2. /\ IsList(p) /\ DOMAIN p = 1 .. Len(q) + 1
      /\ \A n \in DOMAIN q : p[n] = q[n]
      /\ p[Len(q) + 1] = v
  BY <1>1, ListAppend DEF IInv, AreInvoices
<1>3. DOMAIN q = 1 .. Len(q) /\ Len(q) \in Nat
  BY ListLen DEF IInv, AreInvoices
<1>4. Len(p) = Len(q) + 1
  <2>1. DOMAIN p = 1 .. Len(p) /\ Len(p) \in Nat
    BY <1>2, ListLen
  <2>2. ASSUME NEW i \in Nat, NEW j \in Nat, 1 .. i = 1 .. j PROVE i = j
    <3>1. i \in 1 .. i \/ i = 0
      OBVIOUS
    <3>2. j \in 1 .. j \/ j = 0
      OBVIOUS
    <3> QED
      BY <2>2, <3>1, <3>2
  <2> QED
    BY <1>2, <1>3, <2>1, <2>2
<1>5. Len(p) <= MaxInvoices
  BY <1>3, <1>4, BillingAssumption
<1>6. \A n \in DOMAIN p : n \in DOMAIN q \/ n = Len(q) + 1
  BY <1>2, <1>3
<1>7. \A n \in DOMAIN p : InvoiceT(p[n])
  BY <1>2, <1>6 DEF InvoicesT
<1>8. SameTries(q, p)
  BY <1>2, <1>3 DEF SameTries
<1> QED
  BY <1>1, <1>5, <1>7, <1>8 DEF InvoicesT

\* Invoices are written, and none is added.
LEMMA Map_T ==
    ASSUME IInv, InvoicesT(invoices), NEW p, IsList(p), DOMAIN p = DOMAIN invoices,
           \A n \in DOMAIN invoices : InvoiceT(p[n])
    PROVE  InvoicesT(p)
<1>1. DOMAIN p = 1 .. Len(p) /\ Len(p) \in Nat
  BY ListLen
<1>2. DOMAIN invoices = 1 .. Len(invoices) /\ Len(invoices) \in Nat
  BY ListLen DEF IInv, AreInvoices
<1>3. Len(p) <= Len(invoices)
  <2>1. PICK i \in Nat, j \in Nat : i = Len(p) /\ j = Len(invoices)
    BY <1>1, <1>2
  <2>2. 1 .. i = 1 .. j
    BY <1>1, <1>2, <2>1
  <2>3. i \in 1 .. j \/ i = 0
    BY <2>2
  <2>4. i <= j
    BY <2>3
  <2> QED
    BY <2>1, <2>4
<1>4. Len(p) <= MaxInvoices
  BY <1>1, <1>2, <1>3, BillingAssumption DEF InvoicesT
<1> QED
  BY <1>4 DEF InvoicesT

\* No invoice is written.
LEMMA Same_T == SameTries(invoices, invoices)
BY DEF SameTries

\* The row that was read.
LEMMA Read_T ==
    ASSUME IInv, TInv, NEW w \in Worker, task[w].step \in Reading
    PROVE  RowT(sub) /\ task[w].seen \in Row /\ task[w].seen.plan \in Plan
<1>1. sub.status # "NONE" /\ task[w].seen.plan \in Plan
  BY Reader
<1> QED
  BY <1>1 DEF TInv, SubT, TaskT
-----------------------------------------------------------------------------
\* Asking.
LEMMA Ask_T ==
    ASSUME IInv, TInv, NEW a \in Admin, NEW next, Ask(a, next), TaskT(next)
    PROVE  TInv'
<1>1. Go(a, next) /\ sub' = sub /\ invoices' = invoices
  BY DEF Ask
<1>2. Counted
  <2>1. requests \in 0 .. MaxRequests /\ requests < MaxRequests /\ requests' = requests + 1 /\ faults' = faults
    BY DEF Ask, TInv
  <2>2. requests' \in 0 .. MaxRequests
    BY <2>1, BillingAssumption
  <2> QED
    BY <2>1, <2>2 DEF Counted, TInv
<1>3. SubT(sub', invoices') /\ InvoicesT(invoices') /\ SameTries(invoices, invoices')
  BY <1>1, Same_T DEF TInv
<1> QED
  BY <1>1, <1>2, <1>3, Admin_T

\* Asking after the subscription is read.
LEMMA Load_T ==
    ASSUME IInv, TInv, NEW a \in Admin, NEW step \in Reading, NEW arg, Load(a, step, arg),
           step \in {"forceSuspend", "forceReactivate"} => arg \in Int,
           step = "preferences" => arg \in BOOLEAN
    PROVE  TInv'
<1>1. PICK next : next = [step |-> step, seen |-> sub, arg |-> arg]
  OBVIOUS
<1>2. next.step = step /\ next.seen = sub /\ next.arg = arg
  BY <1>1
<1>3. sub \in Row
  BY DEF TInv, SubT, RowT
<1>4. step # "assign" /\ step # "refundWrite"
  BY DEF Reading
<1>5. TaskT(next)
  BY <1>2, <1>3, <1>4 DEF TaskT
<1>6. Ask(a, next)
  BY <1>1 DEF Load
<1> QED
  BY <1>5, <1>6, Ask_T

\* Every request.
LEMMA Request_T == ASSUME IInv, TInv, NEW a \in Admin, Request(a) PROVE TInv'
<1>1. ASSUME NEW p \in Plan, NEW trial, NEW paid, NEW renew \in BOOLEAN, AskAssign(a, p, trial, paid, renew)
      PROVE  TInv'
  <2>1. PICK next : next = [step |-> "assign", plan |-> p, trial |-> trial, paid |-> paid, renew |-> renew]
    OBVIOUS
  <2>2. Ask(a, next)
    BY <1>1, <2>1 DEF AskAssign
  <2>3. next.step = "assign" /\ next.renew \in BOOLEAN
    BY <2>1
  <2>4. TaskT(next)
    BY <2>3 DEF TaskT, Reading
  <2> QED
    BY <2>2, <2>4, Ask_T
<1>2. ASSUME NEW p, NEW now, AskChangePlan(a, p, now) PROVE TInv'
  <2>1. \E step \in {"change", "schedule"} : Load(a, step, p)
    BY <1>2 DEF AskChangePlan
  <2> QED
    BY <2>1, Load_T DEF Reading
<1>3. ASSUME NEW d, AskExtend(a, d) \/ AskExtendGrace(a, d) PROVE TInv'
  <2>1. \E step \in {"extend", "extendGrace"} : Load(a, step, d)
    BY <1>3 DEF AskExtend, AskExtendGrace
  <2> QED
    BY <2>1, Load_T DEF Reading
<1>4. ASSUME NEW d \in ExtraDays \cup {None}, AskSuspend(a, d) \/ AskReactivate(a, d) PROVE TInv'
  <2>1. \E step \in {"forceSuspend", "forceReactivate"} : Load(a, step, d)
    BY <1>4 DEF AskSuspend, AskReactivate
  <2>2. d \in Int
    BY BillingAssumption DEF None
  <2> QED
    BY <2>1, <2>2, Load_T DEF Reading
<1>5. CASE AskUnschedule(a) \/ AskResume(a) \/ AskRelease(a)
  <2>1. \E step \in {"unschedule", "resume", "release"} : Load(a, step, 0)
    BY <1>5 DEF AskUnschedule, AskResume, AskRelease
  <2> QED
    BY <2>1, Load_T DEF Reading
<1>6. CASE AskAutoRenew(a)
  <2>1. Load(a, "preferences", ~sub.autoRenew)
    BY <1>6 DEF AskAutoRenew
  <2>2. (~sub.autoRenew) \in BOOLEAN
    OBVIOUS
  <2> QED
    BY <2>1, <2>2, Load_T DEF Reading
<1>7. ASSUME NEW later, AskCancel(a, later) PROVE TInv'
  <2>1. \E step \in {"cancelLater", "cancel"} : Load(a, step, 0)
    BY <1>7 DEF AskCancel
  <2> QED
    BY <2>1, Load_T DEF Reading
<1>8. CASE AskMarkOldestPaid(a) \/ \E n \in DOMAIN invoices : AskMarkPaid(a, n)
  <2>1. \E n : Load(a, "payCheck", n)
    BY <1>8 DEF AskMarkOldestPaid, AskMarkPaid
  <2> QED
    BY <2>1, Load_T DEF Reading
<1>9. ASSUME NEW n, NEW value, AskRefund(a, n, value) PROVE TInv'
  <2>1. PICK next : next = [step |-> "refundCheck", no |-> n, value |-> value]
    OBVIOUS
  <2>2. Ask(a, next) /\ next.step = "refundCheck"
    BY <1>9, <2>1 DEF AskRefund
  <2>3. TaskT(next)
    BY <2>2 DEF TaskT, Reading
  <2> QED
    BY <2>2, <2>3, Ask_T
<1> QED
  BY <1>1, <1>2, <1>3, <1>4, <1>5, <1>6, <1>7, <1>8, <1>9 DEF Request
-----------------------------------------------------------------------------
\* A step that ends a request.
LEMMA Ends_T ==
    ASSUME IInv, TInv, NEW a \in Admin, Finish(a), RowT(sub') \/ (sub' = sub /\ invoices' = invoices),
           InvoicesT(invoices'), SameTries(invoices, invoices'), UNCHANGED <<requests, faults>>
    PROVE  TInv'
<1>1. Go(a, Idle) /\ Counted
  BY DEF Finish, Counted, TInv
<1>2. SubT(sub', invoices')
  BY DEF TInv, SubT
<1> QED
  BY <1>1, <1>2, Idle_T, Admin_T

\* It writes the subscription only.
LEMMA Writes_T ==
    ASSUME IInv, TInv, NEW a \in Admin, NEW step, NEW row, Writes(a, step, row), RowT(row)
    PROVE  TInv'
<1>1. Finish(a) /\ RowT(sub') /\ invoices' = invoices /\ UNCHANGED <<requests, faults>>
  BY DEF Writes
<1>2. InvoicesT(invoices') /\ SameTries(invoices, invoices')
  BY <1>1, Same_T DEF TInv
<1> QED
  BY <1>1, <1>2, Ends_T

\* An invoice is written without its amount and refunds.
LEMMA Written_T ==
    ASSUME NEW v, InvoiceT(v), NEW status \in {"PAID", "VOID", "FAILED"}, NEW u,
           u = [v EXCEPT !.status = status, !.retry = None]
    PROVE  InvoiceT(u) /\ u.tries = v.tries
<1>1. status \in Settled \cup Unpaid \cup {"VOID"} /\ None \in Int
  BY DEF Settled, Unpaid, None
<1>2. u \in Invoice /\ u.amount = v.amount /\ u.tries = v.tries
  BY <1>1 DEF InvoiceT, Invoice, Days
<1> QED
  BY <1>2 DEF InvoiceT

\* All invoices of some statuses are moved to another.
LEMMA MoveAll_T ==
    ASSUME IInv, TInv, NEW from, NEW to \in {"VOID", "FAILED"}, MoveAll(from, to)
    PROVE  InvoicesT(invoices') /\ SameTries(invoices, invoices')
<1>1. Record(invoices') /\ DOMAIN invoices' = DOMAIN invoices
  BY DEF MoveAll, Record
<1>2. IsList(invoices')
  BY <1>1 DEF IsList, IInv, AreInvoices
<1>3. ASSUME NEW n \in DOMAIN invoices
      PROVE  InvoiceT(invoices'[n]) /\ invoices'[n].tries = invoices[n].tries
  <2>1. PICK v : v = invoices[n]
    OBVIOUS
  <2>2. InvoiceT(v)
    BY <2>1 DEF TInv, InvoicesT
  <2>3. PICK u : u = [v EXCEPT !.status = to, !.retry = None]
    OBVIOUS
  <2>4. invoices'[n] = u \/ invoices'[n] = v
    BY <2>1, <2>3 DEF MoveAll
  <2>5. InvoiceT(u) /\ u.tries = v.tries
    BY <2>2, <2>3, Written_T
  <2> QED
    BY <2>1, <2>2, <2>4, <2>5
<1>4. InvoicesT(invoices')
  BY <1>1, <1>2, <1>3, Map_T DEF TInv
<1> QED
  BY <1>1, <1>3, <1>4 DEF SameTries

\* One invoice is written.
LEMMA One_T ==
    ASSUME IInv, TInv, NEW n \in DOMAIN invoices, NEW p, NEW u, p = [invoices EXCEPT ![n] = u], InvoiceT(u)
    PROVE  InvoicesT(p) /\ (u.tries = invoices[n].tries => SameTries(invoices, p))
<1>1. /\ Record(p) /\ DOMAIN p = DOMAIN invoices /\ p[n] = u
      /\ \A m \in DOMAIN invoices : m # n => p[m] = invoices[m]
  BY DEF Record, IInv, AreInvoices, IsList
<1>2. IsList(p)
  BY <1>1 DEF IsList, IInv, AreInvoices
<1>3. ASSUME NEW m \in DOMAIN invoices PROVE InvoiceT(p[m])
  BY <1>1 DEF TInv, InvoicesT
<1>4. InvoicesT(p)
  BY <1>1, <1>2, <1>3, Map_T DEF TInv
<1> QED
  BY <1>1, <1>4 DEF SameTries

\* An invoice is marked paid.
LEMMA SetPaid_T ==
    ASSUME IInv, TInv, NEW n \in DOMAIN invoices, SetPaid(n)
    PROVE  InvoicesT(invoices') /\ SameTries(invoices, invoices')
<1>1. PICK v : v = invoices[n]
  OBVIOUS
<1>2. PICK u : u = [v EXCEPT !.status = "PAID", !.retry = None]
  OBVIOUS
<1>3. InvoiceT(v) /\ Record(invoices)
  BY <1>1 DEF TInv, InvoicesT, IInv, AreInvoices, IsList
<1>4. InvoiceT(u) /\ u.tries = v.tries
  BY <1>2, <1>3, Written_T
<1>5. invoices' = [invoices EXCEPT ![n] = u]
  BY <1>1, <1>2, <1>3 DEF SetPaid, Record
<1> QED
  BY <1>1, <1>4, <1>5, One_T
-----------------------------------------------------------------------------
\* The first subscription and its invoice.
LEMMA AssignWrite_T == ASSUME IInv, TInv, NEW a \in Admin, AssignWrite(a) PROVE TInv'
<1>0. a \in Worker /\ task[a].step = "assign" /\ sub.status = "NONE" /\ Finish(a) /\ UNCHANGED <<requests, faults>>
  BY DEF Worker, AssignWrite
<1>1. PICK plan, renew : plan = task[a].plan /\ renew = task[a].renew
  OBVIOUS
<1>2. plan \in Plan /\ renew \in BOOLEAN
  BY <1>0, <1>1 DEF IInv, TaskOK, TInv, TaskT
<1>3. Price[plan] \in Nat /\ Term[plan] \in Int /\ TrialDays \in Int /\ GraceDays \in Int /\ None \in Int
  BY <1>2, BillingAssumption DEF None
<1>4. PICK left \in Int, grace \in Int, status \in {"TRIAL", "PAYMENT_PENDING", "ACTIVE"}, paid \in {"PAID", "OPEN"} :
        /\ sub' = [Unassigned EXCEPT !.status = status, !.plan = plan, !.left = left,
                                     !.autoRenew = renew, !.grace = grace]
        /\ \/ /\ Price[plan] > 0
              /\ invoices' = Append(invoices, [NewInvoice("INITIAL", plan, Price[plan], left) EXCEPT !.status = paid])
           \/ invoices' = invoices
  <2> DEFINE trial == task[a].trial /\ TrialDays > 0
             priced == ~trial /\ Price[plan] > 0
             pending == priced /\ ~task[a].paid
             left == IF trial THEN TrialDays ELSE Term[plan]
             status == IF trial THEN "TRIAL" ELSE IF pending THEN "PAYMENT_PENDING" ELSE "ACTIVE"
             grace == IF pending THEN GraceDays ELSE None
             paid == IF task[a].paid THEN "PAID" ELSE "OPEN"
  <2>1. left \in Int /\ grace \in Int /\ status \in {"TRIAL", "PAYMENT_PENDING", "ACTIVE"} /\ paid \in {"PAID", "OPEN"}
    BY <1>3
  <2>2. /\ sub' = [Unassigned EXCEPT !.status = status, !.plan = plan, !.left = left,
                                     !.autoRenew = renew, !.grace = grace]
        /\ \/ /\ Price[plan] > 0
              /\ invoices' = Append(invoices, [NewInvoice("INITIAL", plan, Price[plan], left) EXCEPT !.status = paid])
           \/ invoices' = invoices
    BY <1>1 DEF AssignWrite
  <2> HIDE DEF left, grace, status, paid
  <2> QED
    BY <2>1, <2>2
<1>5. RowT(sub')
  <2>1. PICK row : row = [Unassigned EXCEPT !.status = status, !.plan = plan, !.left = left,
                                            !.autoRenew = renew, !.grace = grace]
    OBVIOUS
  <2>2. /\ row.status = status /\ row.plan = plan /\ row.overdue = None
        /\ row \in Row
    BY <1>2, <1>3, <2>1 DEF Unassigned, Row, Statuses, Days
  <2>3. None \in None .. SuspendAfterPastDueDays
    BY BillingAssumption DEF None
  <2>4. RowT(row)
    BY <1>2, <2>2, <2>3 DEF RowT
  <2> QED
    BY <1>4, <2>1, <2>4
<1>6. InvoicesT(invoices') /\ SameTries(invoices, invoices')
  <2>1. CASE invoices' = invoices
    BY <2>1, Same_T DEF TInv
  <2>2. CASE Price[plan] > 0 /\ invoices' = Append(invoices, [NewInvoice("INITIAL", plan, Price[plan], left) EXCEPT !.status = paid])
    <3>1. PICK v : v = [NewInvoice("INITIAL", plan, Price[plan], left) EXCEPT !.status = paid]
      OBVIOUS
    <3>2. PICK amount \in Nat : amount = Price[plan]
      BY <1>3
    <3>3. paid \in Settled \cup Unpaid \cup {"VOID"}
      BY DEF Settled, Unpaid
    <3>4. v \in Invoice /\ v.amount = amount /\ v.tries = 0
      BY <1>2, <1>3, <3>1, <3>2, <3>3 DEF NewInvoice, Invoice, Days
    <3>5. InvoiceT(v)
      BY <2>2, <3>2, <3>4, BillingAssumption DEF InvoiceT
    <3>6. invoices = <<>>
      BY <1>0 DEF TInv, SubT, RowT
    <3>7. Len(invoices) < MaxInvoices
      BY <3>6, BillingAssumption
    <3> QED
      BY <2>2, <3>1, <3>5, <3>7, Append_T DEF TInv
  <2> QED
    BY <1>4, <2>1, <2>2
<1> QED
  BY <1>0, <1>5, <1>6, Ends_T

\* The plan is changed at once, and the difference invoiced.
LEMMA ChangeWrite_T == ASSUME IInv, TInv, NEW a \in Admin, ChangeWrite(a) PROVE TInv'
<1>0. a \in Worker /\ task[a].step = "change" /\ Finish(a) /\ UNCHANGED <<requests, faults>>
  BY DEF Worker, ChangeWrite
<1>1. PICK seen, next : seen = task[a].seen /\ next = task[a].arg
  OBVIOUS
<1>2. RowT(sub) /\ seen \in Row /\ seen.plan \in Plan /\ next \in Plan
  BY <1>0, <1>1, Read_T DEF Reading, IInv, TaskOK
<1>3. PICK l \in Int, tn \in Nat \ {0}, ts \in Nat \ {0}, pn \in Nat, ps \in Nat, old \in Int :
        l = seen.left /\ tn = Term[next] /\ ts = Term[seen.plan] /\ pn = Price[next] /\ ps = Price[seen.plan]
        /\ old = sub.left
  BY <1>2, BillingAssumption DEF RowT, Row, Days
<1>4. PICK left \in Int, days \in Int, amount \in Int :
        /\ sub' = [sub EXCEPT !.plan = next, !.pending = NoPlan, !.left = days]
        /\ \/ amount > 0 /\ Create("UPGRADE", next, amount, left)
           \/ invoices' = invoices
  <2> DEFINE bill == seen.status = "ACTIVE" /\ Upgrade(seen.plan, next)
             remaining == Clamp(l, ts)
             share(p) == (p * remaining) \div ts
             amount == (IF tn = ts THEN share(pn) ELSE pn) - share(ps)
             left == IF tn = ts THEN l ELSE tn
             days == IF bill /\ tn # ts THEN left ELSE old
  <2>1. remaining \in Nat
    BY DEF Clamp
  <2>2. ASSUME NEW p \in Nat PROVE share(p) \in Int
    <3> HIDE DEF remaining
    <3> QED
      BY <2>1
  <2>3. amount \in Int
    <3> HIDE DEF share
    <3> QED
      BY <2>2
  <2>4. left \in Int /\ days \in Int
    OBVIOUS
  <2>5. /\ sub' = [sub EXCEPT !.plan = next, !.pending = NoPlan, !.left = days]
        /\ \/ amount > 0 /\ Create("UPGRADE", next, amount, left)
           \/ invoices' = invoices
    BY <1>1, <1>2, <1>3 DEF ChangeWrite, RowT, Row
  <2> HIDE DEF amount, left, days
  <2> QED
    BY <2>3, <2>4, <2>5
<1>5. RowT(sub')
  <2>1. PICK row : row = [sub EXCEPT !.plan = next, !.pending = NoPlan, !.left = days]
    OBVIOUS
  <2>2. row \in Row /\ row.status = sub.status /\ row.plan = next /\ row.overdue = sub.overdue
    BY <1>2, <2>1 DEF RowT, Row, Days
  <2> QED
    BY <1>2, <1>4, <2>1, <2>2 DEF RowT
<1>6. InvoicesT(invoices') /\ SameTries(invoices, invoices')
  <2>1. CASE invoices' = invoices
    BY <2>1, Same_T DEF TInv
  <2>2. CASE amount > 0 /\ Create("UPGRADE", next, amount, left)
    <3>1. PICK v : v = NewInvoice("UPGRADE", next, amount, left)
      OBVIOUS
    <3>2. amount \in Nat /\ None \in Int /\ "OPEN" \in Settled \cup Unpaid \cup {"VOID"}
      BY <2>2 DEF None, Unpaid
    <3>3. v \in Invoice /\ v.amount = amount /\ v.tries = 0
      BY <1>2, <3>1, <3>2 DEF NewInvoice, Invoice, Days
    <3>4. InvoiceT(v)
      BY <2>2, <3>3, BillingAssumption DEF InvoiceT
    <3> QED
      BY <2>2, <3>1, <3>4, Append_T DEF Create, TInv
  <2> QED
    BY <1>4, <2>1, <2>2
<1> QED
  BY <1>0, <1>5, <1>6, Ends_T

\* The writes of the subscription only.
LEMMA RowWrite_T ==
    ASSUME IInv, TInv, NEW a \in Admin,
           \/ ScheduleWrite(a) \/ UnscheduleWrite(a) \/ CancelLaterWrite(a) \/ ResumeWrite(a)
           \/ SuspendWrite(a) \/ ReleaseWrite(a) \/ PreferencesWrite(a)
           \/ ExtendWrite(a) \/ ExtendGraceWrite(a) \/ ReactivateWrite(a)
    PROVE  TInv'
<1>0. /\ a \in Worker
      /\ task[a].step \in {"schedule", "unschedule", "cancelLater", "resume", "forceSuspend",
                            "release", "preferences", "extend", "extendGrace", "forceReactivate"}
  BY DEF Worker, ScheduleWrite, UnscheduleWrite, CancelLaterWrite, ResumeWrite, SuspendWrite,
         ReleaseWrite, PreferencesWrite, ExtendWrite, ExtendGraceWrite, ReactivateWrite, Writes
<1>1. PICK seen, arg : seen = task[a].seen /\ arg = task[a].arg
  OBVIOUS
<1>2. RowT(sub) /\ seen \in Row /\ seen.plan \in Plan
  BY <1>0, <1>1, Read_T DEF Reading
<1>3. TaskOK(task[a], invoices, sub) /\ TaskT(task[a])
  BY <1>0 DEF IInv, TInv
<1>4. /\ None \in Int /\ None \in None .. SuspendAfterPastDueDays
      /\ {"ACTIVE", "SUSPENDED", "PAYMENT_PENDING"} \subseteq Statuses
  BY BillingAssumption DEF None, Statuses
<1>5. ASSUME NEW step, NEW row, Writes(a, step, row), row \in Row, row.status # "NONE", row.plan = sub.plan,
             row.overdue = sub.overdue \/ row.overdue = None
      PROVE  TInv'
  <2>1. RowT(row)
    BY <1>2, <1>4, <1>5 DEF RowT
  <2> QED
    BY <1>5, <2>1, Writes_T
<1>6. CASE ScheduleWrite(a)
  <2>1. PICK row : row = [sub EXCEPT !.pending = arg]
    OBVIOUS
  <2>2. Writes(a, "schedule", row) /\ arg \in Plan
    BY <1>1, <1>3, <1>6, <2>1 DEF ScheduleWrite, Writes, TaskOK
  <2>3. row \in Row /\ row.status = sub.status /\ row.plan = sub.plan /\ row.overdue = sub.overdue
    BY <1>2, <2>1, <2>2 DEF RowT, Row
  <2> QED
    BY <1>2, <1>5, <2>2, <2>3 DEF RowT
<1>7. CASE UnscheduleWrite(a) \/ CancelLaterWrite(a) \/ ResumeWrite(a) \/ ReleaseWrite(a)
  <2>1. PICK first, second, third, fourth :
          /\ first = [sub EXCEPT !.pending = NoPlan]
          /\ second = [sub EXCEPT !.ending = TRUE, !.pending = NoPlan]
          /\ third = [sub EXCEPT !.ending = FALSE]
          /\ fourth = [sub EXCEPT !.paused = FALSE, !.pausedFor = None]
    OBVIOUS
  <2>2. \/ Writes(a, "unschedule", first) \/ Writes(a, "cancelLater", second)
        \/ Writes(a, "resume", third) \/ Writes(a, "release", fourth)
    BY <1>7, <2>1 DEF UnscheduleWrite, CancelLaterWrite, ResumeWrite, ReleaseWrite
  <2>3. first \in Row /\ first.status = sub.status /\ first.plan = sub.plan /\ first.overdue = sub.overdue
    BY <1>2, <2>1 DEF RowT, Row
  <2>4. second \in Row /\ second.status = sub.status /\ second.plan = sub.plan /\ second.overdue = sub.overdue
    BY <1>2, <2>1 DEF RowT, Row
  <2>5. third \in Row /\ third.status = sub.status /\ third.plan = sub.plan /\ third.overdue = sub.overdue
    BY <1>2, <2>1 DEF RowT, Row
  <2>6. fourth \in Row /\ fourth.status = sub.status /\ fourth.plan = sub.plan /\ fourth.overdue = sub.overdue
    BY <1>2, <1>4, <2>1 DEF RowT, Row, Days
  <2>7. sub.status # "NONE"
    BY <1>2 DEF RowT
  <2> QED
    BY <1>5, <2>2, <2>3, <2>4, <2>5, <2>6, <2>7
<1>8. CASE SuspendWrite(a)
  <2>1. PICK row : row = [sub EXCEPT !.status = "SUSPENDED", !.paused = TRUE, !.pausedFor = arg]
    OBVIOUS
  <2>2. Writes(a, "forceSuspend", row) /\ arg \in Int
    BY <1>1, <1>3, <1>8, <2>1 DEF SuspendWrite, Writes, TaskT
  <2>3. row \in Row /\ row.status = "SUSPENDED" /\ row.plan = sub.plan /\ row.overdue = sub.overdue
    BY <1>2, <1>4, <2>1, <2>2 DEF RowT, Row, Days
  <2> QED
    BY <1>5, <2>2, <2>3
<1>9. CASE PreferencesWrite(a)
  <2>1. PICK row : row = [sub EXCEPT !.autoRenew = arg]
    OBVIOUS
  <2>2. Writes(a, "preferences", row) /\ arg \in BOOLEAN
    BY <1>1, <1>3, <1>9, <2>1 DEF PreferencesWrite, Writes, TaskT
  <2>3. row \in Row /\ row.status = sub.status /\ row.plan = sub.plan /\ row.overdue = sub.overdue
    BY <1>2, <2>1, <2>2 DEF RowT, Row
  <2> QED
    BY <1>2, <1>5, <2>2, <2>3 DEF RowT
<1>10. CASE ExtendWrite(a)
  <2>1. PICK l \in Int : l = seen.left
    BY <1>2 DEF Row, Days
  <2>2. PICK days \in Int : days = arg
    BY <1>1, <1>3, <1>10 DEF ExtendWrite, Writes, TaskOK
  <2>3. PICK left \in Int : left = (IF seen.status = "EXPIRED" /\ l < 0 THEN 0 ELSE l) + days
    BY <2>1, <2>2
  <2>4. PICK status : status = IF seen.status = "EXPIRED" THEN "ACTIVE" ELSE sub.status
    OBVIOUS
  <2>5. status \in Statuses \cup {"NONE"} /\ status # "NONE"
    BY <1>2, <1>4, <2>4 DEF RowT, Row
  <2>6. PICK row : row = [sub EXCEPT !.left = left, !.status = status]
    OBVIOUS
  <2>7. Writes(a, "extend", row)
    BY <1>1, <1>2, <1>10, <2>1, <2>2, <2>3, <2>4, <2>6 DEF ExtendWrite, RowT, Row
  <2>8. row \in Row /\ row.status = status /\ row.plan = sub.plan /\ row.overdue = sub.overdue
    BY <1>2, <2>5, <2>6 DEF RowT, Row, Days
  <2> QED
    BY <1>5, <2>5, <2>7, <2>8
<1>11. CASE ExtendGraceWrite(a)
  <2>1. PICK g \in Int : g = seen.grace
    BY <1>2 DEF Row, Days
  <2>2. PICK days \in Int : days = arg
    BY <1>1, <1>3, <1>11 DEF ExtendGraceWrite, Writes, TaskOK
  <2>3. PICK date \in Int : date = (IF g > 0 THEN g ELSE 0) + days
    BY <2>1, <2>2
  <2>4. PICK row : row = [sub EXCEPT !.status = "PAYMENT_PENDING", !.overdue = None, !.grace = date]
    OBVIOUS
  <2>5. Writes(a, "extendGrace", row)
    BY <1>1, <1>11, <2>1, <2>2, <2>3, <2>4 DEF ExtendGraceWrite
  <2>6. row \in Row /\ row.status = "PAYMENT_PENDING" /\ row.plan = sub.plan /\ row.overdue = None
    BY <1>2, <1>4, <2>4 DEF RowT, Row, Days
  <2> QED
    BY <1>5, <2>5, <2>6
<1>12. CASE ReactivateWrite(a)
  <2>1. PICK l \in Int, old \in Int, term \in Int : l = seen.left /\ old = sub.left /\ term = Term[seen.plan]
    BY <1>2, BillingAssumption DEF RowT, Row, Days
  <2>2. PICK left \in Int : left = IF l <= 0 THEN term ELSE old
    BY <2>1
  <2>3. PICK row : row = [sub EXCEPT !.status = "ACTIVE", !.grace = None, !.overdue = None, !.ending = FALSE,
                                     !.left = left, !.paused = TRUE, !.pausedFor = arg]
    OBVIOUS
  <2>4. Writes(a, "forceReactivate", row) /\ arg \in Int
    BY <1>1, <1>2, <1>3, <1>12, <2>1, <2>2, <2>3 DEF ReactivateWrite, Writes, TaskT, RowT, Row
  <2>5. row \in Row /\ row.status = "ACTIVE" /\ row.plan = sub.plan /\ row.overdue = None
    BY <1>2, <1>4, <2>3, <2>4 DEF RowT, Row, Days
  <2> QED
    BY <1>5, <2>4, <2>5
<1> QED
  BY <1>6, <1>7, <1>8, <1>9, <1>10, <1>11, <1>12

\* The subscription is cancelled, and its unpaid invoices with it.
LEMMA CancelWrite_T == ASSUME IInv, TInv, NEW a \in Admin, CancelWrite(a) PROVE TInv'
<1>0. /\ a \in Worker /\ task[a].step = "cancel" /\ Finish(a) /\ UNCHANGED <<requests, faults>>
      /\ MoveAll(Unpaid, "VOID")
  BY DEF Worker, CancelWrite
<1>1. RowT(sub)
  BY <1>0, Read_T DEF Reading
<1>2. PICK row : row = [sub EXCEPT !.status = "CANCELLED", !.ending = FALSE, !.grace = None,
                                   !.overdue = None, !.pending = NoPlan]
  OBVIOUS
<1>3. None \in Int /\ None \in None .. SuspendAfterPastDueDays
  BY BillingAssumption DEF None
<1>4. row \in Row /\ row.status = "CANCELLED" /\ row.plan = sub.plan /\ row.overdue = None
  BY <1>1, <1>2, <1>3 DEF RowT, Row, Days, Statuses
<1>5. RowT(row)
  BY <1>1, <1>3, <1>4 DEF RowT
<1>6. sub' = row
  BY <1>2 DEF CancelWrite
<1>7. InvoicesT(invoices') /\ SameTries(invoices, invoices')
  BY <1>0, MoveAll_T
<1> QED
  BY <1>0, <1>5, <1>6, <1>7, Ends_T

\* The period of an invoice.
LEMMA FromNow_T ==
    ASSUME NEW v \in Invoice PROVE FromNow(v.left, v.plan) \in Int
<1>1. v.left \in Int /\ Term[v.plan] \in Int
  BY BillingAssumption DEF Invoice, Days
<1> QED
  BY <1>1 DEF FromNow

\* An administrator notes a payment.
LEMMA Pay_T == ASSUME IInv, TInv, NEW a \in Admin, PayCheck(a) \/ PayWrite(a) PROVE TInv'
<1>0. a \in Worker /\ task[a].step \in {"payCheck", "payWrite"}
  BY DEF Worker, PayCheck, PayWrite
<1>1. RowT(sub) /\ TaskOK(task[a], invoices, sub) /\ TaskT(task[a])
  BY <1>0, Read_T DEF Reading, IInv, TInv
<1>2. PICK n \in DOMAIN invoices : n = task[a].arg
  BY <1>0, <1>1 DEF TaskOK
<1>3. CASE PayCheck(a)
  <2>1. PICK next : next = [task[a] EXCEPT !.step = "payWrite"]
    OBVIOUS
  <2>2. next.step = "payWrite" /\ next.seen = task[a].seen
    BY <1>0, <1>1, <2>1 DEF TaskOK, Record, Reading
  <2>3. task[a].seen \in Row
    BY <1>0, <1>1 DEF TaskT, Reading
  <2>4. TaskT(next)
    BY <2>2, <2>3 DEF TaskT
  <2>5. /\ Go(a, next) /\ SubT(sub', invoices') /\ InvoicesT(invoices') /\ SameTries(invoices, invoices')
        /\ Counted
    BY <1>3, <2>1, Same_T DEF PayCheck, TInv, Counted
  <2> QED
    BY <2>4, <2>5, Admin_T
<1>4. CASE PayWrite(a)
  <2>1. PICK v \in Invoice : v = invoices[n]
    BY DEF TInv, InvoicesT, InvoiceT
  <2>2. PICK left \in Int : left = FromNow(v.left, v.plan)
    BY FromNow_T
  <2>3. PICK status : status = IF task[a].seen.paused /\ task[a].seen.status = "SUSPENDED" THEN sub.status ELSE "ACTIVE"
    OBVIOUS
  <2>4. status \in Statuses \cup {"NONE"} /\ status # "NONE"
    BY <1>1, <2>3 DEF RowT, Row, Statuses
  <2>5. PICK row : row = [sub EXCEPT !.left = left, !.grace = None, !.overdue = None, !.status = status]
    OBVIOUS
  <2>6. None \in Int /\ None \in None .. SuspendAfterPastDueDays
    BY BillingAssumption DEF None
  <2>7. row \in Row /\ row.status = status /\ row.plan = sub.plan /\ row.overdue = None
    BY <1>1, <2>4, <2>5, <2>6 DEF RowT, Row, Days
  <2>8. RowT(row)
    BY <1>1, <2>4, <2>6, <2>7 DEF RowT
  <2>9. sub' = sub \/ sub' = row
    BY <1>1, <1>2, <1>4, <2>1, <2>2, <2>3, <2>5 DEF PayWrite, RowT, Row
  <2>10. InvoicesT(invoices') /\ SameTries(invoices, invoices')
    BY <1>2, <1>4, SetPaid_T DEF PayWrite
  <2>11. Finish(a) /\ UNCHANGED <<requests, faults>>
    BY <1>4 DEF PayWrite
  <2> QED
    BY <1>1, <2>8, <2>9, <2>10, <2>11, Ends_T
<1> QED
  BY <1>3, <1>4

\* A refund.
LEMMA Refund_T == ASSUME IInv, TInv, NEW a \in Admin, RefundCheck(a) \/ RefundWrite(a) PROVE TInv'
<1>0. a \in Worker /\ task[a].step \in {"refundCheck", "refundWrite"}
  BY DEF Worker, RefundCheck, RefundWrite
<1>1. TaskOK(task[a], invoices, sub) /\ TaskT(task[a])
  BY <1>0 DEF IInv, TInv
<1>2. PICK n \in DOMAIN invoices, value \in Nat : n = task[a].no /\ value = task[a].value
  BY <1>0, <1>1 DEF TaskOK
<1>3. PICK v : v = invoices[n] /\ InvoiceT(v)
  BY DEF TInv, InvoicesT
<1>4. CASE RefundCheck(a)
  <2>1. PICK next : next = [step |-> "refundWrite", no |-> n, value |-> value, before |-> v.refunded]
    OBVIOUS
  <2>2. next.step = "refundWrite" /\ next.before \in Nat
    BY <1>3, <2>1 DEF InvoiceT, Invoice
  <2>3. TaskT(next)
    BY <2>2 DEF TaskT, Reading
  <2>4. /\ Go(a, next) /\ SubT(sub', invoices') /\ InvoicesT(invoices') /\ SameTries(invoices, invoices')
        /\ Counted
    BY <1>2, <1>3, <1>4, <2>1, Same_T DEF RefundCheck, TInv, Counted
  <2> QED
    BY <2>3, <2>4, Admin_T
<1>5. CASE RefundWrite(a)
  <2>1. PICK before \in Nat : before = task[a].before
    BY <1>1, <1>5 DEF RefundWrite, TaskT
  <2>2. PICK refunded \in Nat, rows \in Nat : refunded = before + value /\ rows = v.rows + value
    BY <1>3 DEF InvoiceT, Invoice
  <2>3. PICK status \in {"REFUNDED", "PARTIALLY_REFUNDED"} :
          status = IF refunded >= v.amount THEN "REFUNDED" ELSE "PARTIALLY_REFUNDED"
    OBVIOUS
  <2>4. PICK u : u = [v EXCEPT !.rows = rows, !.refunded = refunded, !.status = status]
    OBVIOUS
  <2>5. status \in Settled \cup Unpaid \cup {"VOID"}
    BY DEF Settled
  <2>6. u \in Invoice /\ u.amount = v.amount /\ u.tries = v.tries
    BY <1>3, <2>4, <2>5 DEF InvoiceT, Invoice
  <2>7. InvoiceT(u)
    BY <1>3, <2>6 DEF InvoiceT
  <2>8. Record(invoices) /\ v \in Invoice
    BY <1>3 DEF IInv, AreInvoices, IsList, InvoiceT
  <2>9. invoices' = [invoices EXCEPT ![n] = u]
    BY <1>2, <1>3, <1>5, <2>1, <2>2, <2>3, <2>4, <2>8 DEF RefundWrite, Invoice, Record
  <2>10. InvoicesT(invoices') /\ SameTries(invoices, invoices')
    BY <1>3, <2>6, <2>7, <2>9, One_T
  <2>11. Finish(a) /\ UNCHANGED <<requests, faults>> /\ sub' = sub
    BY <1>5 DEF RefundWrite
  <2>12. RowT(sub)
    <3>1. invoices # <<>>
      <4>1. n \in DOMAIN invoices
        OBVIOUS
      <4> QED
        BY <4>1
    <3> QED
      BY <3>1 DEF TInv, SubT
  <2> QED
    BY <2>10, <2>11, <2>12, Ends_T
<1> QED
  BY <1>4, <1>5

\* Every write of a request.
LEMMA Write_T == ASSUME IInv, TInv, NEW a \in Admin, Write(a) PROVE TInv'
BY AssignWrite_T, ChangeWrite_T, RowWrite_T, CancelWrite_T, Pay_T, Refund_T DEF Write
-----------------------------------------------------------------------------
\* A step of the checks that leaves the tries as they are.
LEMMA Cron_T ==
    ASSUME IInv, TInv, NEW next, Go(Cron, next), TaskT(next),
           SubT(sub', invoices'), InvoicesT(invoices'), SameTries(invoices, invoices'),
           Again(next) => Again(task[Cron]) /\ next.no = task[Cron].no, UNCHANGED <<requests, faults>>
    PROVE  TInv'
<1>1. Cron \in Worker
  BY DEF Worker
<1>2. task'[Cron] = next
  BY <1>1 DEF Go, IInv, Record
<1>3. TriesT(task'[Cron], invoices')
  BY <1>2, Tries_T
<1>4. Counted
  BY DEF Counted, TInv
<1> QED
  BY <1>1, <1>3, <1>4, Step_T

\* It writes the subscription only, and charges nothing next.
LEMMA CronWrites_T ==
    ASSUME IInv, TInv, NEW step, NEW row, NEW next, CronWrites(step, row, next), RowT(row),
           TaskT(next), ~Again(next)
    PROVE  TInv'
<1>1. Go(Cron, next) /\ sub' = row /\ invoices' = invoices /\ UNCHANGED <<requests, faults>>
  BY DEF CronWrites
<1>2. SubT(sub', invoices') /\ InvoicesT(invoices') /\ SameTries(invoices, invoices')
  BY <1>1, Same_T DEF TInv, SubT
<1> QED
  BY <1>1, <1>2, Cron_T

\* Checks are under way of a subscription that is there.
LEMMA There_T ==
    ASSUME IInv, TInv, task[Cron].step \notin {"idle", "assign", "refundCheck", "refundWrite"}
    PROVE  Cron \in Worker /\ RowT(sub) /\ TaskOK(task[Cron], invoices, sub) /\ TaskT(task[Cron])
<1>1. Cron \in Worker
  BY DEF Worker
<1>2. TaskOK(task[Cron], invoices, sub) /\ TaskT(task[Cron])
  BY <1>1 DEF IInv, TInv
<1>3. sub.status # "NONE"
  BY <1>2 DEF TaskOK
<1> QED
  BY <1>1, <1>2, <1>3 DEF TInv, SubT

\* A task that has read nothing and charges nothing.
LEMMA Plain_T ==
    ASSUME NEW step \in {"pastDue", "suspend", "unpause", "unpaused", "pending", "grace", "overdue", "idle"}
    PROVE  TaskT([step |-> step]) /\ ~Again([step |-> step])
BY DEF TaskT, Again, Reading

\* What the checks do next.
LEMMA After_T ==
    ASSUME NEW stage, NEW s \in Row
    PROVE  TaskT(After(stage, s)) /\ ~Again(After(stage, s))
<1>1. ASSUME NEW step \in {"term", "retry"}, NEW next, next = [step |-> step, seen |-> s]
      PROVE  TaskT(next) /\ ~Again(next)
  <2>1. next.step = step /\ next.seen = s
    BY <1>1
  <2> QED
    BY <2>1 DEF TaskT, Again
<1>2. \/ \E step \in {"pastDue", "suspend", "unpause", "idle"} : After(stage, s) = [step |-> step]
      \/ \E step \in {"term", "retry"} : After(stage, s) = [step |-> step, seen |-> s]
  BY DEF After, AfterOverride, Idle
<1> QED
  BY <1>1, <1>2, Plain_T

\* What follows the end of a period.
LEMMA AfterTerm_T == ASSUME NEW seen PROVE TaskT(AfterTerm(seen)) /\ ~Again(AfterTerm(seen))
<1>1. AfterTerm(seen) = [step |-> "idle"] \/ AfterTerm(seen) = [step |-> "pending"]
  BY DEF AfterTerm, Idle
<1> QED
  BY <1>1, Plain_T

\* A scheduled change of plan.
LEMMA Changed_T ==
    ASSUME NEW r, RowT(r), NEW s \in Row, s.plan \in Plan
    PROVE  RowT(Changed(r, s)) /\ NextPlan(s) \in Plan
<1>1. CASE s.pending = NoPlan
  BY <1>1 DEF Changed, NextPlan
<1>2. CASE s.pending # NoPlan
  <2>1. PICK p \in Plan : p = s.pending
    BY <1>2 DEF Row
  <2>2. PICK u : u = [r EXCEPT !.plan = p, !.pending = NoPlan]
    OBVIOUS
  <2>3. u \in Row /\ u.plan = p /\ u.status = r.status /\ u.overdue = r.overdue
    BY <2>2 DEF RowT, Row
  <2>4. RowT(u)
    BY <2>3 DEF RowT
  <2>5. Changed(r, s) = u /\ NextPlan(s) = p
    BY <1>2, <2>1, <2>2 DEF Changed, NextPlan
  <2> QED
    BY <2>4, <2>5
<1> QED
  BY <1>1, <1>2

\* Looking, and what follows from a look without a charge.
LEMMA Look_T == ASSUME IInv, TInv, Look \/ Unpause \/ SuspendOverdue PROVE TInv'
<1>1. CASE Look
  <2>1. PICK next : next = After(task[Cron].step, sub)
    OBVIOUS
  <2>2. sub \in Row
    BY DEF TInv, SubT, RowT
  <2>3. TaskT(next) /\ ~Again(next)
    BY <2>1, <2>2, After_T
  <2>4. /\ Go(Cron, next) /\ UNCHANGED <<requests, faults>>
        /\ SubT(sub', invoices') /\ InvoicesT(invoices') /\ SameTries(invoices, invoices')
    BY <1>1, <2>1, Same_T DEF Look, TInv
  <2> QED
    BY <2>3, <2>4, Cron_T
<1>2. CASE Unpause
  <2>1. RowT(sub)
    BY <1>2, There_T DEF Unpause, CronWrites
  <2>2. PICK row : row = [sub EXCEPT !.paused = FALSE, !.pausedFor = None]
    OBVIOUS
  <2>3. None \in Int
    BY DEF None
  <2>4. row \in Row /\ row.status = sub.status /\ row.plan = sub.plan /\ row.overdue = sub.overdue
    BY <2>1, <2>2, <2>3 DEF RowT, Row, Days
  <2>5. RowT(row)
    BY <2>1, <2>4 DEF RowT
  <2> QED
    BY <1>2, <2>2, <2>5, Plain_T, CronWrites_T DEF Unpause
<1>3. CASE SuspendOverdue
  <2>1. RowT(sub)
    BY <1>3, There_T DEF SuspendOverdue, CronWrites
  <2>2. PICK row : row = [sub EXCEPT !.status = "SUSPENDED"]
    OBVIOUS
  <2>3. row \in Row /\ row.status = "SUSPENDED" /\ row.plan = sub.plan /\ row.overdue = sub.overdue
    BY <2>1, <2>2 DEF RowT, Row, Statuses
  <2>4. RowT(row)
    BY <2>1, <2>3 DEF RowT
  <2> QED
    BY <1>3, <2>2, <2>4, Plain_T, CronWrites_T DEF SuspendOverdue, Idle
<1> QED
  BY <1>1, <1>2, <1>3

\* The end of a period, and the renewals of a row.
LEMMA Term_T ==
    ASSUME IInv, TInv, EndCancelled \/ EndExpired \/ RenewFree \/ PaymentMissed
    PROVE  TInv'
<1>0. task[Cron].step \in {"term", "missed"}
  BY DEF EndCancelled, EndExpired, RenewFree, Renews, PaymentMissed
<1>1. RowT(sub) /\ Seen \in Row /\ Seen.plan \in Plan
  <2>1. Cron \in Worker
    BY DEF Worker
  <2> QED
    BY <1>0, <2>1, Read_T DEF Reading, Seen
<1>2. PICK c, next : c = Changed(sub, Seen) /\ next = AfterTerm(Seen)
  OBVIOUS
<1>3. RowT(c) /\ NextPlan(Seen) \in Plan /\ TaskT(next) /\ ~Again(next)
  BY <1>1, <1>2, Changed_T, AfterTerm_T
<1>4. PICK left \in Int, days \in Int : left = Seen.left + Term[NextPlan(Seen)] /\ days = GraceDays
  <2>1. Seen.left \in Int /\ Term[NextPlan(Seen)] \in Int /\ GraceDays \in Int
    BY <1>1, <1>3, BillingAssumption DEF Row, Days
  <2> QED
    BY <2>1
<1>5. PICK cancelled, expired, renewed, waiting :
        /\ cancelled = [sub EXCEPT !.status = "CANCELLED", !.ending = FALSE, !.pending = NoPlan]
        /\ expired = [sub EXCEPT !.status = "EXPIRED"]
        /\ renewed = [c EXCEPT !.status = "ACTIVE", !.left = left]
        /\ waiting = [c EXCEPT !.status = "PAYMENT_PENDING", !.grace = days]
  OBVIOUS
<1>6. RowT(cancelled)
  <2>1. cancelled \in Row /\ cancelled.status = "CANCELLED" /\ cancelled.plan = sub.plan /\ cancelled.overdue = sub.overdue
    BY <1>1, <1>5 DEF RowT, Row, Statuses
  <2> QED
    BY <1>1, <2>1 DEF RowT
<1>7. RowT(expired)
  <2>1. expired \in Row /\ expired.status = "EXPIRED" /\ expired.plan = sub.plan /\ expired.overdue = sub.overdue
    BY <1>1, <1>5 DEF RowT, Row, Statuses
  <2> QED
    BY <1>1, <2>1 DEF RowT
<1>8. RowT(renewed)
  <2>1. renewed \in Row /\ renewed.status = "ACTIVE" /\ renewed.plan = c.plan /\ renewed.overdue = c.overdue
    BY <1>3, <1>5 DEF RowT, Row, Statuses, Days
  <2> QED
    BY <1>3, <2>1 DEF RowT
<1>9. RowT(waiting)
  <2>1. waiting \in Row /\ waiting.status = "PAYMENT_PENDING" /\ waiting.plan = c.plan /\ waiting.overdue = c.overdue
    BY <1>3, <1>5 DEF RowT, Row, Statuses, Days
  <2> QED
    BY <1>3, <2>1 DEF RowT
<1>10. \/ CronWrites("term", cancelled, next) \/ CronWrites("term", expired, next)
       \/ CronWrites("term", renewed, next) \/ CronWrites("missed", waiting, next)
  BY <1>2, <1>4, <1>5 DEF EndCancelled, EndExpired, RenewFree, PaymentMissed
<1> QED
  BY <1>3, <1>6, <1>7, <1>8, <1>9, <1>10, CronWrites_T

\* A renewal is invoiced.
LEMMA MakeInvoice_T == ASSUME IInv, TInv, MakeInvoice PROVE TInv'
<1>0. task[Cron].step = "term" /\ Cron \in Worker
  BY DEF MakeInvoice, Renews, Worker
<1>1. RowT(sub) /\ Seen \in Row /\ Seen.plan \in Plan /\ NextPlan(Seen) \in Plan
  <2>1. RowT(sub) /\ Seen \in Row /\ Seen.plan \in Plan
    BY <1>0, Read_T DEF Reading, Seen
  <2> QED
    BY <2>1, Changed_T
<1>2. PICK p \in Plan : p = NextPlan(Seen)
  BY <1>1
<1>3. PICK amount \in Nat, left \in Int : amount = Price[p] /\ left = Seen.left + Term[p]
  <2>1. Seen.left \in Int /\ Term[p] \in Int /\ Price[p] \in Nat
    BY <1>1, BillingAssumption DEF Row, Days
  <2> QED
    BY <2>1
<1>4. PICK v : v = NewInvoice("RENEWAL", p, amount, left)
  OBVIOUS
<1>5. InvoiceT(v)
  <2>1. None \in Int /\ "OPEN" \in Settled \cup Unpaid \cup {"VOID"}
    BY DEF None, Unpaid
  <2>2. v \in Invoice /\ v.amount = amount /\ v.tries = 0
    BY <1>4, <2>1 DEF NewInvoice, Invoice, Days
  <2>3. amount > 0
    BY <1>2, <1>3 DEF MakeInvoice
  <2> QED
    BY <2>2, <2>3, BillingAssumption DEF InvoiceT
<1>6. Len(invoices) < MaxInvoices /\ invoices' = Append(invoices, v)
  BY <1>2, <1>3, <1>4 DEF MakeInvoice, Create
<1>7. InvoicesT(invoices') /\ SameTries(invoices, invoices')
  BY <1>5, <1>6, Append_T DEF TInv
<1>8. PICK next : next = [step |-> IF Gateway THEN "charge" ELSE "missed", for |-> "term",
                          seen |-> Seen, no |-> Len(invoices) + 1]
  OBVIOUS
<1>9. next.step \in {"charge", "missed"} /\ next.for = "term" /\ next.seen = Seen
  BY <1>8
<1>10. TaskT(next) /\ ~Again(next)
  BY <1>1, <1>9 DEF TaskT, Again
<1>11. Go(Cron, next) /\ sub' = sub /\ UNCHANGED <<requests, faults>>
  BY <1>8 DEF MakeInvoice
<1>12. SubT(sub', invoices')
  BY <1>1, <1>11 DEF SubT
<1> QED
  BY <1>7, <1>10, <1>11, <1>12, Cron_T

\* An invoice to charge again is found, which has tries left, or none.
LEMMA FindRetry_T == ASSUME IInv, TInv, FindRetry PROVE TInv'
<1>0. task[Cron].step = "retry" /\ Cron \in Worker
  BY DEF FindRetry, Worker
<1>1. RowT(sub) /\ Seen \in Row
  BY <1>0, Read_T DEF Reading, Seen
<1>2. PICK n : n = Oldest(Retriable)
  OBVIOUS
<1>3. PICK charge, grace : charge = [step |-> "charge", for |-> "retry", seen |-> Seen, no |-> n]
                           /\ grace = [step |-> "grace"]
  OBVIOUS
<1>4. \/ Go(Cron, grace)
      \/ Go(Cron, charge) /\ invoices[n].tries <= RetryAttempts
  BY <1>2, <1>3 DEF FindRetry
<1>5. sub' = sub /\ invoices' = invoices /\ UNCHANGED <<requests, faults>>
  BY DEF FindRetry
<1>6. SubT(sub', invoices') /\ InvoicesT(invoices') /\ SameTries(invoices, invoices')
  BY <1>5, Same_T DEF TInv
<1>7. CASE Go(Cron, grace)
  BY <1>3, <1>5, <1>6, <1>7, Plain_T, Cron_T
<1>8. CASE Go(Cron, charge) /\ invoices[n].tries <= RetryAttempts
  <2>1. charge.step = "charge" /\ charge.seen = Seen /\ charge.no = n
    BY <1>3
  <2>2. TaskT(charge)
    BY <1>1, <2>1 DEF TaskT
  <2>3. task'[Cron] = charge
    BY <1>0, <1>8 DEF Go, IInv, Record
  <2>4. TriesT(task'[Cron], invoices')
    BY <1>5, <1>8, <2>1, <2>3 DEF TriesT
  <2>5. Counted
    BY <1>5 DEF Counted, TInv
  <2> QED
    BY <1>0, <1>6, <1>8, <2>2, <2>4, <2>5, Step_T
<1> QED
  BY <1>4, <1>7, <1>8

\* The gateway's answer, and the invoice it is about.
LEMMA Charge_T == ASSUME IInv, TInv, Charge \/ CronPayCheck \/ CronPayWrite \/ Declined PROVE TInv'
<1>0. task[Cron].step \in {"charge", "paidCheck", "paidWrite", "declined"}
  BY DEF Charge, CronPayCheck, CronPayWrite, Declined
<1>1. Cron \in Worker /\ RowT(sub) /\ TaskOK(task[Cron], invoices, sub) /\ TaskT(task[Cron])
  BY <1>0, There_T
<1>2. PICK t : t = task[Cron]
  OBVIOUS
<1>3. /\ Record(t) /\ {"step", "seen", "no", "for"} \subseteq DOMAIN t /\ t.no \in DOMAIN invoices
      /\ t.seen \in Row
  BY <1>0, <1>1, <1>2 DEF TaskOK, TaskT, Reading
<1>4. ASSUME NEW step \in {"paidCheck", "paidWrite", "declined", "renew", "missed"}, NEW next,
             next = [t EXCEPT !.step = step]
      PROVE  TaskT(next) /\ next.step = step /\ next.no = t.no /\ next.for = t.for
  <2>1. next.step = step /\ next.seen = t.seen /\ next.no = t.no /\ next.for = t.for
    BY <1>3, <1>4 DEF Record
  <2> QED
    BY <1>3, <2>1 DEF TaskT
<1>5. CASE Charge \/ CronPayCheck
  <2>1. PICK step \in {"paidCheck", "paidWrite", "declined"} : Go(Cron, [t EXCEPT !.step = step])
    BY <1>2, <1>5 DEF Charge, CronPayCheck
  <2>2. PICK next : next = [t EXCEPT !.step = step]
    OBVIOUS
  <2>3. TaskT(next) /\ (Again(next) => Again(task[Cron]) /\ next.no = task[Cron].no)
    BY <1>0, <1>2, <1>4, <2>2 DEF Again
  <2>4. /\ UNCHANGED <<requests, faults>>
        /\ SubT(sub', invoices') /\ InvoicesT(invoices') /\ SameTries(invoices, invoices')
    BY <1>5, Same_T DEF Charge, CronPayCheck, TInv
  <2> QED
    BY <2>1, <2>2, <2>3, <2>4, Cron_T
<1>6. CASE CronPayWrite
  <2>1. PICK next : next = [t EXCEPT !.step = "renew"]
    OBVIOUS
  <2>2. TaskT(next) /\ ~Again(next)
    BY <1>4, <2>1 DEF Again
  <2>3. Go(Cron, next) /\ SetPaid(t.no) /\ sub' = sub /\ UNCHANGED <<requests, faults>>
    BY <1>2, <1>6, <2>1 DEF CronPayWrite
  <2>4. InvoicesT(invoices') /\ SameTries(invoices, invoices')
    BY <1>3, <2>3, SetPaid_T
  <2>5. SubT(sub', invoices')
    BY <1>1, <2>3 DEF SubT
  <2> QED
    BY <2>2, <2>3, <2>4, <2>5, Cron_T
<1>7. CASE Declined
  <2>1. PICK v : v = invoices[t.no] /\ InvoiceT(v)
    BY <1>3 DEF TInv, InvoicesT
  <2>2. PICK before \in Nat, limit \in Nat : before = v.tries /\ limit = RetryAttempts
    BY <2>1, BillingAssumption DEF InvoiceT, Invoice
  <2>3. t.for # "term" => before <= limit
    <3> SUFFICES ASSUME t.for # "term" PROVE before <= limit
      OBVIOUS
    <3>1. Again(task[Cron])
      BY <1>0, <1>2 DEF Again
    <3> QED
      BY <1>2, <2>1, <2>2, <3>1 DEF TInv, TriesT
  <2>4. PICK tries \in Nat : tries = IF t.for = "term" THEN 1 ELSE before + 1
    OBVIOUS
  <2>5. tries <= limit + 1
    BY <2>3, <2>4
  <2>6. PICK date : date = IF (IF t.for = "term" THEN limit > 0 ELSE tries <= limit) THEN RetryIntervalDays ELSE None
    OBVIOUS
  <2>7. date \in Int
    BY <2>6, BillingAssumption DEF None
  <2>8. PICK u : u = [v EXCEPT !.tries = tries, !.retry = date]
    OBVIOUS
  <2>9. u \in Invoice /\ u.amount = v.amount /\ u.tries = tries
    BY <2>1, <2>7, <2>8 DEF InvoiceT, Invoice, Days
  <2>10. InvoiceT(u)
    BY <2>1, <2>2, <2>5, <2>9 DEF InvoiceT
  <2>11. Record(invoices) /\ v \in Invoice
    BY <2>1 DEF IInv, AreInvoices, IsList, InvoiceT
  <2>12. invoices' = [invoices EXCEPT ![t.no] = u]
    BY <1>2, <1>3, <1>7, <2>1, <2>2, <2>4, <2>6, <2>8, <2>11 DEF Declined, Invoice, Record
  <2>13. InvoicesT(invoices')
    BY <1>3, <2>10, <2>12, One_T
  <2>14. PICK next : next = IF t.for = "term" THEN [t EXCEPT !.step = "missed"] ELSE [step |-> "grace"]
    OBVIOUS
  <2>15. TaskT(next) /\ ~Again(next)
    <3>1. CASE t.for = "term"
      BY <1>4, <2>14, <3>1 DEF Again
    <3>2. CASE t.for # "term"
      BY <2>14, <3>2, Plain_T
    <3> QED
      BY <3>1, <3>2
  <2>16. Go(Cron, next) /\ sub' = sub /\ UNCHANGED <<requests, faults>>
    BY <1>2, <1>7, <2>14 DEF Declined
  <2>17. SubT(sub', invoices') /\ Counted
    BY <1>1, <2>16 DEF SubT, Counted, TInv
  <2>18. task'[Cron] = next
    BY <1>1, <2>16 DEF Go, IInv, Record
  <2>19. TriesT(task'[Cron], invoices')
    BY <2>15, <2>18 DEF TriesT
  <2> QED
    BY <1>1, <2>13, <2>15, <2>16, <2>17, <2>19, Step_T
<1> QED
  BY <1>5, <1>6, <1>7

\* A paid renewal.
LEMMA Renew_T == ASSUME IInv, TInv, RenewPaid \/ RenewRetried PROVE TInv'
<1>0. task[Cron].step = "renew" /\ Cron \in Worker
  BY DEF RenewPaid, RenewRetried, Worker
<1>1. RowT(sub) /\ Seen \in Row /\ Seen.plan \in Plan /\ TaskOK(task[Cron], invoices, sub)
  BY <1>0, Read_T DEF Reading, Seen, IInv
<1>2. PICK v \in Invoice : v = invoices[task[Cron].no]
  BY <1>0, <1>1 DEF TaskOK, TInv, InvoicesT, InvoiceT
<1>3. PICK left \in Int, days \in Int : left = v.left /\ days = FromNow(v.left, v.plan)
  BY FromNow_T DEF Invoice, Days
<1>4. None \in Int /\ None \in None .. SuspendAfterPastDueDays
  BY BillingAssumption DEF None
<1>5. CASE RenewPaid
  <2>1. PICK c, next : c = Changed(sub, Seen) /\ next = AfterTerm(Seen)
    OBVIOUS
  <2>2. RowT(c) /\ TaskT(next) /\ ~Again(next)
    BY <1>1, <2>1, Changed_T, AfterTerm_T
  <2>3. PICK row : row = [c EXCEPT !.status = "ACTIVE", !.left = left]
    OBVIOUS
  <2>4. row \in Row /\ row.status = "ACTIVE" /\ row.plan = c.plan /\ row.overdue = c.overdue
    BY <2>2, <2>3 DEF RowT, Row, Statuses, Days
  <2>5. RowT(row)
    BY <2>2, <2>4 DEF RowT
  <2>6. CronWrites("renew", row, next)
    BY <1>2, <1>3, <1>5, <2>1, <2>3 DEF RenewPaid
  <2> QED
    BY <2>2, <2>5, <2>6, CronWrites_T
<1>6. CASE RenewRetried
  <2>1. PICK row : row = [sub EXCEPT !.status = "ACTIVE", !.grace = None, !.overdue = None, !.left = days]
    OBVIOUS
  <2>2. row \in Row /\ row.status = "ACTIVE" /\ row.plan = sub.plan /\ row.overdue = None
    BY <1>1, <1>4, <2>1 DEF RowT, Row, Statuses, Days
  <2>3. RowT(row)
    BY <1>1, <1>4, <2>2 DEF RowT
  <2>4. CronWrites("renew", row, [step |-> "grace"])
    BY <1>2, <1>3, <1>6, <2>1 DEF RenewRetried
  <2> QED
    BY <2>3, <2>4, Plain_T, CronWrites_T
<1> QED
  BY <1>5, <1>6

\* The date for a payment is missed.
LEMMA ToPastDue_T == ASSUME IInv, TInv, ToPastDue PROVE TInv'
<1>1. RowT(sub)
  BY There_T DEF ToPastDue
<1>2. PICK row : row = [sub EXCEPT !.status = "PAST_DUE", !.overdue = 0]
  OBVIOUS
<1>3. row \in Row /\ row.status = "PAST_DUE" /\ row.plan = sub.plan /\ row.overdue = 0
  <2>1. PICK d \in Int : d = 0
    OBVIOUS
  <2>2. row = [sub EXCEPT !.status = "PAST_DUE", !.overdue = d]
    BY <1>2, <2>1
  <2>3. row \in Row /\ row.status = "PAST_DUE" /\ row.plan = sub.plan /\ row.overdue = d
    BY <1>1, <2>2 DEF RowT, Row, Statuses, Days
  <2> QED
    BY <2>1, <2>3
<1>4. 0 \in None .. SuspendAfterPastDueDays
  BY BillingAssumption DEF None
<1>5. RowT(row)
  BY <1>1, <1>3, <1>4 DEF RowT
<1>6. MoveAll({"OPEN"}, "FAILED") /\ sub' = row /\ Go(Cron, [step |-> "overdue"]) /\ UNCHANGED <<requests, faults>>
  BY <1>2 DEF ToPastDue
<1>7. InvoicesT(invoices') /\ SameTries(invoices, invoices') /\ SubT(sub', invoices')
  BY <1>5, <1>6, MoveAll_T DEF SubT
<1> QED
  BY <1>6, <1>7, Plain_T, Cron_T

\* Every step of the checks.
LEMMA CronStep_T == ASSUME IInv, TInv, CronStep PROVE TInv'
BY Look_T, Term_T, MakeInvoice_T, FindRetry_T, Charge_T, Renew_T, ToPastDue_T DEF CronStep
-----------------------------------------------------------------------------
\* A failure or a refusal writes nothing.
LEMMA Fails_T == ASSUME IInv, TInv, NEW w \in Worker, Fails(w) \/ Refused(w) PROVE TInv'
<1>1. Go(w, Idle) /\ sub' = sub /\ invoices' = invoices
  BY DEF Fails, Refused, Finish
<1>2. Counted
  <2>1. PICK f \in 0 .. MaxFaults : f = faults
    BY DEF TInv
  <2>2. requests' = requests /\ (faults' = faults \/ (faults < MaxFaults /\ faults' = faults + 1))
    BY DEF Fails, Refused
  <2>3. f < MaxFaults => f + 1 \in 0 .. MaxFaults
    BY BillingAssumption
  <2> QED
    BY <2>1, <2>2, <2>3 DEF Counted, TInv
<1>3. SubT(sub', invoices') /\ InvoicesT(invoices') /\ SameTries(invoices, invoices')
  BY <1>1, Same_T DEF TInv
<1>4. task'[Cron] = Idle \/ task'[Cron] = task[Cron]
  BY <1>1 DEF Go, IInv, Record, Worker
<1>5. TriesT(task'[Cron], invoices')
  <2>1. ~Again(Idle)
    BY DEF Again, Idle
  <2> QED
    BY <1>3, <1>4, <2>1, Tries_T
<1> QED
  BY <1>1, <1>2, <1>3, <1>5, Idle_T, Step_T

\* A day passes.
LEMMA Tick_T == ASSUME IInv, TInv, Tick PROVE TInv'
<1>1. ASSUME NEW d \in Int PROVE Closer(d) \in Int /\ Sooner(d) \in Int
  BY BillingAssumption DEF Closer, Sooner
<1>2. RowT(sub)
  BY DEF Tick, TInv, SubT
<1>3. RowT(sub')
  <2>1. PICK l \in Int, g \in Int, f \in Int, o \in None .. SuspendAfterPastDueDays :
          l = sub.left /\ g = sub.grace /\ f = sub.pausedFor /\ o = sub.overdue
    BY <1>2 DEF RowT, Row, Days
  <2>2. PICK left \in Int, grace \in Int, for \in Int :
          left = Closer(l) /\ grace = Sooner(g) /\ for = Sooner(f)
    BY <1>1
  <2>3. PICK overdue : overdue = IF o \in 0 .. SuspendAfterPastDueDays - 1 THEN o + 1 ELSE o
    OBVIOUS
  <2>4. overdue \in None .. SuspendAfterPastDueDays /\ overdue \in Int
    BY <2>3, BillingAssumption DEF None
  <2>5. PICK row : row = [sub EXCEPT !.left = left, !.grace = grace, !.pausedFor = for, !.overdue = overdue]
    OBVIOUS
  <2>6. row \in Row /\ row.status = sub.status /\ row.plan = sub.plan /\ row.overdue = overdue
    BY <1>2, <2>4, <2>5 DEF RowT, Row, Days
  <2>7. sub' = row
    BY <1>2, <2>1, <2>2, <2>3, <2>5 DEF Tick, RowT, Row
  <2> QED
    BY <1>2, <2>4, <2>6, <2>7 DEF RowT
<1>4. Record(invoices') /\ DOMAIN invoices' = DOMAIN invoices
  BY DEF Tick, Record
<1>5. IsList(invoices')
  BY <1>4 DEF IsList, IInv, AreInvoices
<1>6. ASSUME NEW n \in DOMAIN invoices PROVE InvoiceT(invoices'[n]) /\ invoices'[n].tries = invoices[n].tries
  <2>1. PICK v : v = invoices[n] /\ InvoiceT(v)
    BY DEF TInv, InvoicesT
  <2>2. PICK l \in Int, r \in Int : l = v.left /\ r = v.retry
    BY <2>1 DEF InvoiceT, Invoice, Days
  <2>3. PICK left \in Int, date \in Int : left = Closer(l) /\ date = Sooner(r)
    BY <1>1
  <2>4. PICK u : u = [v EXCEPT !.left = left, !.retry = date]
    OBVIOUS
  <2>5. u \in Invoice /\ u.amount = v.amount /\ u.tries = v.tries
    BY <2>1, <2>4 DEF InvoiceT, Invoice, Days
  <2>6. invoices'[n] = u
    BY <2>1, <2>2, <2>3, <2>4 DEF Tick, InvoiceT, Invoice
  <2> QED
    BY <2>1, <2>5, <2>6 DEF InvoiceT
<1>7. InvoicesT(invoices') /\ SameTries(invoices, invoices')
  BY <1>4, <1>5, <1>6, Map_T DEF TInv, SameTries
<1>8. task' = task /\ requests' = requests /\ faults' = faults
  BY DEF Tick
<1>9. TriesT(task'[Cron], invoices')
  BY <1>7, <1>8, Tries_T
<1> QED
  BY <1>3, <1>7, <1>8, <1>9 DEF TInv, SubT

\* Every step keeps the types.
LEMMA Next_T == ASSUME IInv, TInv, [Next]_vars PROVE TInv'
<1>1. CASE Next
  <2>1. ASSUME NEW a \in Admin, Request(a) \/ Write(a) PROVE TInv'
    BY <2>1, Request_T, Write_T
  <2>2. ASSUME NEW w \in Worker, Fails(w) \/ Refused(w) PROVE TInv'
    BY <2>2, Fails_T
  <2> QED
    BY <1>1, <2>1, <2>2, CronStep_T, Tick_T DEF Next
<1>2. CASE UNCHANGED vars
  BY <1>2 DEF vars, TInv, TriesT
<1> QED
  BY <1>1, <1>2

\* The types hold at the start.
LEMMA Init_T == ASSUME Init PROVE TInv
<1>1. PICK row : row = Unassigned
  OBVIOUS
<1>2. row \in Row /\ row.status = "NONE" /\ row.plan = NoPlan /\ row.overdue = None
  BY <1>1 DEF Unassigned, Row, Days, None
<1>3. None \in None .. SuspendAfterPastDueDays
  BY BillingAssumption DEF None
<1>4. SubT(sub, invoices)
  BY <1>1, <1>2, <1>3 DEF Init, SubT
<1>5. InvoicesT(invoices)
  BY BillingAssumption DEF Init, InvoicesT
<1>6. \A w \in Worker : TaskT(task[w]) /\ ~Again(task[w])
  BY Plain_T DEF Init, Idle
<1>7. TriesT(task[Cron], invoices)
  BY <1>6 DEF TriesT, Worker
<1>8. requests \in 0 .. MaxRequests /\ faults \in 0 .. MaxFaults
  BY BillingAssumption DEF Init
<1> QED
  BY <1>4, <1>5, <1>6, <1>7, <1>8 DEF TInv

\* Types: a shop has a plan exactly if it has a subscription, days overdue and
\* tries are within their limits, no invoice is for nothing; for any number of
\* administrators and whatever settings.
THEOREM Spec_TypeOK == Spec => []TypeOK
<1>1. IInv /\ TInv /\ [Next]_vars => TInv'
  BY Next_T
<1>2. Init => TInv
  BY Init_T
<1>3. IInv /\ TInv => TypeOK
  <2> SUFFICES ASSUME IInv, TInv PROVE TypeOK
    OBVIOUS
  <2>1. sub \in Row /\ sub.overdue \in None .. SuspendAfterPastDueDays /\ (sub.status # "NONE" <=> sub.plan \in Plan)
    BY BillingAssumption DEF TInv, SubT, RowT
  <2>2. \A n \in DOMAIN invoices :
           invoices[n] \in Invoice /\ invoices[n].amount > 0 /\ invoices[n].tries <= RetryAttempts + 1
    BY DEF TInv, InvoicesT, InvoiceT
  <2>3. Len(invoices) <= MaxInvoices
    BY DEF TInv, InvoicesT
  <2>4. \A w \in Worker : "step" \in DOMAIN task[w]
    BY DEF IInv, TaskOK
  <2>5. requests <= MaxRequests /\ faults <= MaxFaults
    BY BillingAssumption DEF TInv
  <2> QED
    BY <2>1, <2>2, <2>3, <2>4, <2>5 DEF TypeOK
<1> QED
  BY <1>1, <1>2, <1>3, Spec_IInv, PTL DEF Spec
=============================================================================
