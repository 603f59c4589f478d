------------------------------- MODULE Billing -------------------------------
(***************************************************************************)
(* The subscription of one shop: what administrators do to it, and what    *)
(* the billing checks of BillingAutomationService do every quarter of an   *)
(* hour.  A request reads the subscription and writes it later, in one     *)
(* transaction; the checks write one row after the other, from what they   *)
(* read before.  Nothing is locked in between.                             *)
(*                                                                         *)
(* A plan stands for a plan on a billing cycle.  Times are days from now:  *)
(* a day passes only while no request is under way.  trialEndsAt is left   *)
(* out, on a TRIAL it is currentPeriodEnd and elsewhere nobody reads it;   *)
(* so are reminders, the history of events and messages, which only a      *)
(* reader sees.  That any write can fail is Fails.                         *)
(***************************************************************************)
EXTENDS Integers, Sequences, FiniteSets

CONSTANTS
    Admin,          \* requests of administrators in progress at the same time
    Cron,           \* the billing checks
    Plan, NoPlan,   \* plans on a cycle; no plan scheduled
    Price, Term,    \* Price[p], and Term[p]: days of a cycle
    TrialDays, GraceDays, SuspendAfterPastDueDays,
    RetryAttempts, RetryIntervalDays,
    Gateway,        \* whether the shop's payment gateway is registered (none is, so far)
    ExtraDays,      \* days an administrator may add or hold an override for
    RefundValues,   \* amounts of refunds one can ask for
    MaxLate,        \* bound: a time further past than this counts as this
    MaxInvoices,    \* bound: invoices of the shop
    MaxRequests,    \* bound: requests of administrators
    MaxFaults       \* bound: requests or checks that fail half-way

ASSUME BillingAssumption ==
    /\ Cron \notin Admin /\ NoPlan \notin Plan
    /\ Price \in [Plan -> Nat] /\ Term \in [Plan -> Nat \ {0}]
    /\ {TrialDays, GraceDays, SuspendAfterPastDueDays, RetryAttempts, RetryIntervalDays,
        MaxLate, MaxRequests, MaxFaults} \subseteq Nat
    /\ {MaxInvoices, SuspendAfterPastDueDays} \subseteq Nat \ {0}
    /\ ExtraDays \subseteq Nat \ {0} /\ RefundValues \subseteq Nat
    /\ Gateway \in BOOLEAN

VARIABLES
    sub,            \* the row of ShopSubscription
    invoices,       \* the shop's invoices, oldest first
    task,           \* task[w]: what a request, or the checks, do next
    requests,       \* requests so far
    faults          \* failures so far

vars == <<sub, invoices, task, requests, faults>>

Worker == Admin \cup {Cron}
None == -1          \* a date that is not set
Idle == [step |-> "idle"]

Statuses == {"TRIAL", "ACTIVE", "PAYMENT_PENDING", "PAST_DUE", "EXPIRED", "CANCELLED", "SUSPENDED"}
Settled == {"PAID", "PARTIALLY_REFUNDED", "REFUNDED"}
Unpaid == {"OPEN", "FAILED"}

Unassigned ==
    [status |-> "NONE", plan |-> NoPlan, left |-> 0, grace |-> None, overdue |-> None,
     autoRenew |-> TRUE, ending |-> FALSE, paused |-> FALSE, pausedFor |-> None, pending |-> NoPlan]

Init ==
    /\ sub = Unassigned
    /\ invoices = <<>>
    /\ task = [w \in Worker |-> Idle]
    /\ requests = 0
    /\ faults = 0
-----------------------------------------------------------------------------
Go(w, next) == task' = [task EXCEPT ![w] = next]
Finish(w) == Go(w, Idle)

\* A cycle of plan p from now for a period that is over by now, else what is left.
FromNow(left, p) == IF left <= 0 THEN Term[p] ELSE left

NewInvoice(kind, p, amount, left) ==
    [kind |-> kind, plan |-> p, amount |-> amount, left |-> left, status |-> "OPEN",
     tries |-> 0, retry |-> None, refunded |-> 0, rows |-> 0]

\* InvoicesService.create; amount is rounded to the smallest coin there.
Create(kind, p, amount, left) ==
    /\ Len(invoices) < MaxInvoices
    /\ invoices' = Append(invoices, NewInvoice(kind, p, amount, left))

Oldest(S) == CHOOSE n \in S : \A m \in S : n <= m
Among(statuses) == {n \in DOMAIN invoices : invoices[n].status \in statuses}

\* Mutant of MoveAll: the status is not part of the update's condition.
MoveAllBlindly(from, to) ==
    invoices' = [n \in DOMAIN invoices |-> [invoices[n] EXCEPT !.status = to, !.retry = None]]

\* updateMany from one of the statuses: rows in another status are left alone.
MoveAll(from, to) ==
    invoices' = [n \in DOMAIN invoices |->
        IF invoices[n].status \in from
        THEN [invoices[n] EXCEPT !.status = to, !.retry = None] ELSE invoices[n]]

\* The last statement of InvoicesService.markPaid.
SetPaid(n) ==
    invoices' = [invoices EXCEPT ![n].status = "PAID", ![n].retry = None]
-----------------------------------------------------------------------------
(***************************************************************************)
(* Requests.  Each loads the subscription, and goes on if its guards hold. *)
(***************************************************************************)
Ask(a, next) ==
    /\ task[a] = Idle
    /\ requests < MaxRequests
    /\ requests' = requests + 1
    /\ Go(a, next)
    /\ UNCHANGED <<sub, invoices, faults>>

Clamp(days, most) == IF days < 0 THEN 0 ELSE IF days > most THEN most ELSE days

Load(a, step, arg) == sub.status # "NONE" /\ Ask(a, [step |-> step, seen |-> sub, arg |-> arg])

Upgrade(p, q) == Price[q] * Term[p] > Price[p] * Term[q]

AskAssign(a, p, trial, paid, renew) ==
    /\ sub.status = "NONE"
    /\ Ask(a, [step |-> "assign", plan |-> p, trial |-> trial, paid |-> paid, renew |-> renew])

\* A cheaper or equal plan on another cycle waits for the renewal, whatever is asked.
AskChangePlan(a, p, now) ==
    /\ sub.plan # p
    /\ sub.status \in {"TRIAL", "ACTIVE"}
    /\ LET later == ~Upgrade(sub.plan, p) /\ Term[p] # Term[sub.plan]
           applyNow == now /\ ~(later /\ sub.status = "ACTIVE")
       IN  Load(a, IF applyNow \/ sub.status = "TRIAL" THEN "change" ELSE "schedule", p)

AskUnschedule(a)     == sub.pending # NoPlan /\ Load(a, "unschedule", 0)
AskExtend(a, d)      == sub.status \in {"TRIAL", "ACTIVE", "EXPIRED"} /\ Load(a, "extend", d)
AskExtendGrace(a, d) == sub.status \in {"PAYMENT_PENDING", "PAST_DUE"} /\ Load(a, "extendGrace", d)
AskResume(a)         == sub.ending /\ Load(a, "resume", 0)
AskSuspend(a, d)     == Load(a, "forceSuspend", d)
AskReactivate(a, d)  == Load(a, "forceReactivate", d)
AskRelease(a)        == sub.paused /\ Load(a, "release", 0)
AskAutoRenew(a)      == Load(a, "preferences", ~sub.autoRenew)

AskCancel(a, periodEnd) ==
    /\ sub.status # "CANCELLED"
    /\ Load(a, IF periodEnd /\ sub.status \in {"ACTIVE", "TRIAL"} THEN "cancelLater" ELSE "cancel", 0)

\* Any invoice of the shop may be named; if none is, it is the oldest unpaid one.
AskMarkPaid(a, n) == n \in DOMAIN invoices /\ Load(a, "payCheck", n)
AskMarkOldestPaid(a) == Among(Unpaid) # {} /\ Load(a, "payCheck", Oldest(Among(Unpaid)))

AskRefund(a, n, value) ==
    n \in DOMAIN invoices /\ Ask(a, [step |-> "refundCheck", no |-> n, value |-> value])

Request(a) ==
    \/ \E p \in Plan, trial, paid, renew \in BOOLEAN : AskAssign(a, p, trial, paid, renew)
    \/ \E p \in Plan, now \in BOOLEAN : AskChangePlan(a, p, now)
    \/ \E d \in ExtraDays : AskExtend(a, d) \/ AskExtendGrace(a, d)
    \/ \E d \in ExtraDays \cup {None} : AskSuspend(a, d) \/ AskReactivate(a, d)
    \/ AskUnschedule(a) \/ AskResume(a) \/ AskRelease(a) \/ AskAutoRenew(a)
    \/ \E later \in BOOLEAN : AskCancel(a, later)
    \/ AskMarkOldestPaid(a)
    \/ \E n \in DOMAIN invoices :
          AskMarkPaid(a, n) \/ \E value \in RefundValues : AskRefund(a, n, value)
-----------------------------------------------------------------------------
\* Step of request a that ends it and writes the subscription only.
Writes(a, step, row) ==
    /\ task[a].step = step
    /\ sub' = row
    /\ Finish(a)
    /\ UNCHANGED <<invoices, requests, faults>>

\* assign: the shop's row is unique, of two requests one fails.
AssignWrite(a) ==
    /\ task[a].step = "assign"
    /\ sub.status = "NONE"
    /\ LET t == task[a]
           trial == t.trial /\ TrialDays > 0
           priced == ~trial /\ Price[t.plan] > 0
           pending == priced /\ ~t.paid
           left == IF trial THEN TrialDays ELSE Term[t.plan]
           invoice == NewInvoice("INITIAL", t.plan, Price[t.plan], left)
       IN  /\ sub' = [Unassigned EXCEPT
                        !.status = IF trial THEN "TRIAL"
                                   ELSE IF pending THEN "PAYMENT_PENDING" ELSE "ACTIVE",
                        !.plan = t.plan, !.left = left, !.autoRenew = t.renew,
                        !.grace = IF pending THEN GraceDays ELSE None]
           /\ IF priced
              THEN invoices' = Append(invoices, [invoice EXCEPT !.status = IF t.paid THEN "PAID" ELSE "OPEN"])
              ELSE UNCHANGED invoices
    /\ Finish(a)
    /\ UNCHANGED <<requests, faults>>

ScheduleWrite(a) == Writes(a, "schedule", [sub EXCEPT !.pending = task[a].arg])

\* changePlan at once; the unused part of the current cycle is credited, of
\* which days an extension added to it are left out.
ChangeWrite(a) ==
    /\ task[a].step = "change"
    /\ LET seen == task[a].seen
           next == task[a].arg
           sameCycle == Term[next] = Term[seen.plan]
           bill == seen.status = "ACTIVE" /\ Upgrade(seen.plan, next)
           remaining == Clamp(seen.left, Term[seen.plan])
           share(p) == (Price[p] * remaining) \div Term[seen.plan]
           amount == (IF sameCycle THEN share(next) ELSE Price[next]) - share(seen.plan)
           left == IF sameCycle THEN seen.left ELSE Term[next]
       IN  /\ sub' = [sub EXCEPT !.plan = next, !.pending = NoPlan,
                                 !.left = IF bill /\ ~sameCycle THEN left ELSE @]
           /\ IF bill /\ amount > 0 THEN Create("UPGRADE", next, amount, left) ELSE UNCHANGED invoices
    /\ Finish(a)
    /\ UNCHANGED <<requests, faults>>

UnscheduleWrite(a) == Writes(a, "unschedule", [sub EXCEPT !.pending = NoPlan])

ExtendWrite(a) ==
    LET seen == task[a].seen
        base == IF seen.status = "EXPIRED" /\ seen.left < 0 THEN 0 ELSE seen.left
    IN  Writes(a, "extend", [sub EXCEPT !.left = base + task[a].arg,
                                        !.status = IF seen.status = "EXPIRED" THEN "ACTIVE" ELSE @])

ExtendGraceWrite(a) ==
    LET seen == task[a].seen
        base == IF seen.grace > 0 THEN seen.grace ELSE 0
    IN  Writes(a, "extendGrace", [sub EXCEPT !.status = "PAYMENT_PENDING", !.overdue = None,
                                             !.grace = base + task[a].arg])

CancelLaterWrite(a) == Writes(a, "cancelLater", [sub EXCEPT !.ending = TRUE, !.pending = NoPlan])

CancelWrite(a) ==
    /\ task[a].step = "cancel"
    /\ MoveAll(Unpaid, "VOID")
    /\ sub' = [sub EXCEPT !.status = "CANCELLED", !.ending = FALSE, !.grace = None,
                          !.overdue = None, !.pending = NoPlan]
    /\ Finish(a)
    /\ UNCHANGED <<requests, faults>>

ResumeWrite(a) == Writes(a, "resume", [sub EXCEPT !.ending = FALSE])

SuspendWrite(a) ==
    Writes(a, "forceSuspend", [sub EXCEPT !.status = "SUSPENDED", !.paused = TRUE,
                                          !.pausedFor = task[a].arg])

ReactivateWrite(a) ==
    LET seen == task[a].seen
    IN  Writes(a, "forceReactivate",
               [sub EXCEPT !.status = "ACTIVE", !.grace = None, !.overdue = None, !.ending = FALSE,
                           !.left = IF seen.left <= 0 THEN Term[seen.plan] ELSE @,
                           !.paused = TRUE, !.pausedFor = task[a].arg])

ReleaseWrite(a) == Writes(a, "release", [sub EXCEPT !.paused = FALSE, !.pausedFor = None])

PreferencesWrite(a) == Writes(a, "preferences", [sub EXCEPT !.autoRenew = task[a].arg])

\* markPaid, in its transaction: read the invoice, then write it by its id.
PayCheck(a) ==
    /\ task[a].step = "payCheck"
    /\ invoices[task[a].arg].status \in Unpaid
    /\ Go(a, [task[a] EXCEPT !.step = "payWrite"])
    /\ UNCHANGED <<sub, invoices, requests, faults>>

PayWrite(a) ==
    /\ task[a].step = "payWrite"
    /\ SetPaid(task[a].arg)
    /\ LET paid == invoices[task[a].arg]
           seen == task[a].seen
           held == seen.paused /\ seen.status = "SUSPENDED"
       IN  sub' = IF paid.kind = "UPGRADE" \/ seen.status = "CANCELLED" THEN sub
                  ELSE [sub EXCEPT !.left = FromNow(paid.left, paid.plan), !.grace = None,
                                   !.overdue = None, !.status = IF held THEN @ ELSE "ACTIVE"]
    /\ Finish(a)
    /\ UNCHANGED <<requests, faults>>

\* Mutant of Refundable: the amount that is left is not looked at.
RefundableAnyAmount(invoice, value) ==
    invoice.status \in {"PAID", "PARTIALLY_REFUNDED"} /\ value > 0

Refundable(invoice, value) ==
    /\ invoice.status \in {"PAID", "PARTIALLY_REFUNDED"}
    /\ value > 0
    /\ value <= invoice.amount - invoice.refunded

\* InvoicesService.refund: read the invoice, then add the refund and write the sum.
RefundCheck(a) ==
    /\ task[a].step = "refundCheck"
    /\ Refundable(invoices[task[a].no], task[a].value)
    /\ Go(a, [step |-> "refundWrite", no |-> task[a].no, value |-> task[a].value,
              before |-> invoices[task[a].no].refunded])
    /\ UNCHANGED <<sub, invoices, requests, faults>>

RefundWrite(a) ==
    /\ task[a].step = "refundWrite"
    /\ LET n == task[a].no
           refunded == task[a].before + task[a].value
       IN  invoices' = [invoices EXCEPT
                ![n].rows = @ + task[a].value,
                ![n].refunded = refunded,
                ![n].status = IF refunded >= invoices[n].amount
                              THEN "REFUNDED" ELSE "PARTIALLY_REFUNDED"]
    /\ Finish(a)
    /\ UNCHANGED <<sub, requests, faults>>

Write(a) ==
    \/ AssignWrite(a) \/ ScheduleWrite(a) \/ ChangeWrite(a) \/ UnscheduleWrite(a)
    \/ ExtendWrite(a) \/ ExtendGraceWrite(a) \/ CancelLaterWrite(a) \/ CancelWrite(a)
    \/ ResumeWrite(a) \/ SuspendWrite(a) \/ ReactivateWrite(a) \/ ReleaseWrite(a)
    \/ PreferencesWrite(a) \/ PayCheck(a) \/ PayWrite(a) \/ RefundCheck(a) \/ RefundWrite(a)
-----------------------------------------------------------------------------
(***************************************************************************)
(* The billing checks.                                                     *)
(***************************************************************************)
\* What process does next with what it reads: at the start of a run, once an
\* override is over, or behind the branches before "pending", "grace", "overdue".
AfterOverride(stage, s) ==
    CASE stage \in {"idle", "unpaused"} /\ s.status \in {"TRIAL", "ACTIVE"} ->
            IF s.left <= 0 THEN [step |-> "term", seen |-> s] ELSE Idle
      [] stage \in {"idle", "unpaused", "pending"} /\ s.status = "PAYMENT_PENDING" ->
            [step |-> "retry", seen |-> s]
      [] stage = "grace" /\ s.status = "PAYMENT_PENDING" ->
            IF s.grace <= 0 THEN [step |-> "pastDue"] ELSE Idle
      [] s.status = "PAST_DUE" ->
            IF s.overdue >= SuspendAfterPastDueDays THEN [step |-> "suspend"] ELSE Idle
      [] OTHER -> Idle

After(stage, s) ==
    IF stage = "idle" /\ s.paused
    THEN IF s.pausedFor = 0 THEN [step |-> "unpause"] ELSE Idle
    ELSE AfterOverride(stage, s)

\* Invoices retryPayment may charge; retryAttempts is looked at for the oldest only.
Retriable ==
    {n \in DOMAIN invoices : invoices[n].status = "OPEN" /\ invoices[n].retry = 0}

\* Mutant of WorthARun: a payment that is pending is left to the administrators.
WorthARunUnlessPending ==
    /\ sub.status \in {"TRIAL", "ACTIVE", "PAST_DUE"}
    /\ After("idle", sub) # Idle

\* runAll selects these statuses.  A run that would change nothing is left out.
WorthARun ==
    /\ sub.status \in {"TRIAL", "ACTIVE", "PAYMENT_PENDING", "PAST_DUE"}
    /\ After("idle", sub) # Idle
    /\ sub.status = "PAYMENT_PENDING" /\ ~sub.paused => sub.grace <= 0 \/ (Gateway /\ Retriable # {})

Look ==
    /\ task[Cron].step \in {"idle", "unpaused", "pending", "grace", "overdue"}
    /\ task[Cron] = Idle => WorthARun
    /\ Go(Cron, After(task[Cron].step, sub))
    /\ UNCHANGED <<sub, invoices, requests, faults>>

CronWrites(step, row, next) ==
    /\ task[Cron].step = step
    /\ sub' = row
    /\ Go(Cron, next)
    /\ UNCHANGED <<invoices, requests, faults>>

Unpause ==
    CronWrites("unpause", [sub EXCEPT !.paused = FALSE, !.pausedFor = None], [step |-> "unpaused"])

\* After the end of a trial the run is over, after a paid period it goes on.
AfterTerm(seen) == IF seen.status = "TRIAL" THEN Idle ELSE [step |-> "pending"]

Seen == task[Cron].seen

EndCancelled ==
    /\ task[Cron].step = "term" /\ Seen.ending
    /\ CronWrites("term", [sub EXCEPT !.status = "CANCELLED", !.ending = FALSE, !.pending = NoPlan],
                  AfterTerm(Seen))

EndExpired ==
    /\ task[Cron].step = "term" /\ ~Seen.ending /\ ~Seen.autoRenew
    /\ CronWrites("term", [sub EXCEPT !.status = "EXPIRED"], AfterTerm(Seen))

\* Mutant of Changed: whether a change is scheduled is not asked.
ChangedAlways(row, s) == [row EXCEPT !.plan = s.pending, !.pending = NoPlan]

\* A scheduled change of plan takes effect with the renewal.
NextPlan(s) == IF s.pending # NoPlan THEN s.pending ELSE s.plan
Changed(row, s) ==
    IF s.pending # NoPlan THEN [row EXCEPT !.plan = s.pending, !.pending = NoPlan] ELSE row

Renews == task[Cron].step = "term" /\ ~Seen.ending /\ Seen.autoRenew

RenewFree ==
    /\ Renews /\ Price[NextPlan(Seen)] = 0
    /\ CronWrites("term", [Changed(sub, Seen) EXCEPT !.status = "ACTIVE",
                                                   !.left = Seen.left + Term[NextPlan(Seen)]],
                  AfterTerm(Seen))

MakeInvoice ==
    /\ Renews /\ Price[NextPlan(Seen)] > 0
    /\ LET p == NextPlan(Seen) IN Create("RENEWAL", p, Price[p], Seen.left + Term[p])
    /\ Go(Cron, [step |-> IF Gateway THEN "charge" ELSE "missed", for |-> "term",
                 seen |-> Seen, no |-> Len(invoices) + 1])
    /\ UNCHANGED <<sub, requests, faults>>

\* retryPayment finds the invoice to charge, or there is nothing to retry.
FindRetry ==
    /\ task[Cron].step = "retry"
    /\ LET n == Oldest(Retriable) IN
       Go(Cron, IF Gateway /\ Retriable # {} /\ invoices[n].tries <= RetryAttempts
                THEN [step |-> "charge", for |-> "retry", seen |-> Seen, no |-> n]
                ELSE [step |-> "grace"])
    /\ UNCHANGED <<sub, invoices, requests, faults>>

\* Mutant of Charge: an answer that is no refusal counts as paid.
ChargeHopes ==
    /\ task[Cron].step = "charge"
    /\ \E next \in {"paidCheck", "renew", "declined"} : Go(Cron, [task[Cron] EXCEPT !.step = next])
    /\ UNCHANGED <<sub, invoices, requests, faults>>

\* The gateway takes the money, or declines, fails or cannot be reached.
Charge ==
    /\ task[Cron].step = "charge"
    /\ \E next \in {"paidCheck", "declined"} : Go(Cron, [task[Cron] EXCEPT !.step = next])
    /\ UNCHANGED <<sub, invoices, requests, faults>>

CronPayCheck ==
    /\ task[Cron].step = "paidCheck"
    /\ invoices[task[Cron].no].status \in Unpaid
    /\ Go(Cron, [task[Cron] EXCEPT !.step = "paidWrite"])
    /\ UNCHANGED <<sub, invoices, requests, faults>>

CronPayWrite ==
    /\ task[Cron].step = "paidWrite"
    /\ SetPaid(task[Cron].no)
    /\ Go(Cron, [task[Cron] EXCEPT !.step = "renew"])
    /\ UNCHANGED <<sub, requests, faults>>

RenewPaid ==
    /\ task[Cron].step = "renew" /\ task[Cron].for = "term"
    /\ CronWrites("renew", [Changed(sub, Seen) EXCEPT !.status = "ACTIVE",
                                                    !.left = invoices[task[Cron].no].left],
                  AfterTerm(Seen))

RenewRetried ==
    /\ task[Cron].step = "renew" /\ task[Cron].for = "retry"
    /\ LET paid == invoices[task[Cron].no] IN
       CronWrites("renew", [sub EXCEPT !.status = "ACTIVE", !.grace = None, !.overdue = None,
                                       !.left = FromNow(paid.left, paid.plan)],
                  [step |-> "grace"])

\* One more try is noted on the invoice, with the day of the next one.
Declined ==
    /\ task[Cron].step = "declined"
    /\ LET n == task[Cron].no
           tries == IF task[Cron].for = "term" THEN 1 ELSE invoices[n].tries + 1
           more == IF task[Cron].for = "term" THEN RetryAttempts > 0 ELSE tries <= RetryAttempts
       IN  invoices' = [invoices EXCEPT ![n].tries = tries,
                                        ![n].retry = IF more THEN RetryIntervalDays ELSE None]
    /\ Go(Cron, IF task[Cron].for = "term" THEN [task[Cron] EXCEPT !.step = "missed"]
                ELSE [step |-> "grace"])
    /\ UNCHANGED <<sub, requests, faults>>

PaymentMissed ==
    /\ task[Cron].step = "missed"
    /\ CronWrites("missed", [Changed(sub, Seen) EXCEPT !.status = "PAYMENT_PENDING", !.grace = GraceDays],
                  AfterTerm(Seen))

ToPastDue ==
    /\ task[Cron].step = "pastDue"
    /\ MoveAll({"OPEN"}, "FAILED")
    /\ sub' = [sub EXCEPT !.status = "PAST_DUE", !.overdue = 0]
    /\ Go(Cron, [step |-> "overdue"])
    /\ UNCHANGED <<requests, faults>>

SuspendOverdue == CronWrites("suspend", [sub EXCEPT !.status = "SUSPENDED"], Idle)

CronStep ==
    \/ Look \/ Unpause \/ EndCancelled \/ EndExpired \/ RenewFree \/ MakeInvoice \/ FindRetry
    \/ Charge \/ CronPayCheck \/ CronPayWrite \/ RenewPaid \/ RenewRetried \/ Declined
    \/ PaymentMissed \/ ToPastDue \/ SuspendOverdue
-----------------------------------------------------------------------------
\* A statement fails or the process stops: what is written so far stays.  The
\* checks start again later.
Fails(w) ==
    /\ task[w] # Idle
    /\ faults < MaxFaults
    /\ faults' = faults + 1
    /\ Finish(w)
    /\ UNCHANGED <<sub, invoices, requests>>

\* A guard that holds no more refuses, no fault; so does the bound on invoices.
Refused(w) ==
    /\ \/ task[w].step = "assign" /\ sub.status # "NONE"
       \/ task[w].step = "payCheck" /\ invoices[task[w].arg].status \notin Unpaid
       \/ task[w].step = "paidCheck" /\ invoices[task[w].no].status \notin Unpaid
       \/ task[w].step = "refundCheck" /\ ~Refundable(invoices[task[w].no], task[w].value)
       \/ task[w].step \in {"term", "change"} /\ Len(invoices) = MaxInvoices
    /\ Finish(w)
    /\ UNCHANGED <<sub, invoices, requests, faults>>

Sooner(d) == IF d > 0 THEN d - 1 ELSE d
Closer(d) == IF d > -MaxLate THEN d - 1 ELSE d

Tick ==
    /\ \A w \in Worker : task[w] = Idle
    /\ sub.status # "NONE"
    /\ sub' = [sub EXCEPT !.left = Closer(@), !.grace = Sooner(@), !.pausedFor = Sooner(@),
                          !.overdue = IF @ \in 0 .. SuspendAfterPastDueDays - 1 THEN @ + 1 ELSE @]
    /\ invoices' = [n \in DOMAIN invoices |->
                       [invoices[n] EXCEPT !.left = Closer(@), !.retry = Sooner(@)]]
    /\ UNCHANGED <<task, requests, faults>>

Next ==
    \/ \E a \in Admin : Request(a) \/ Write(a)
    \/ CronStep
    \/ \E w \in Worker : Fails(w) \/ Refused(w)
    \/ Tick

Spec == Init /\ [][Next]_vars

\* Requests and checks that have begun go on, the checks start again and again,
\* and days pass; nothing is assumed of administrators or of the gateway.
FairSpec ==
    /\ Spec
    /\ \A a \in Admin : WF_vars(Write(a) \/ Refused(a))
    /\ WF_vars(CronStep \/ Refused(Cron))
    /\ SF_vars(Tick)
-----------------------------------------------------------------------------
(***************************************************************************)
(* Properties.                                                             *)
(***************************************************************************)
Days == Int
Row == [status : Statuses \cup {"NONE"}, plan : Plan \cup {NoPlan}, left : Days, grace : Days,
        overdue : Days, autoRenew : BOOLEAN, ending : BOOLEAN, paused : BOOLEAN,
        pausedFor : Days, pending : Plan \cup {NoPlan}]
Invoice == [kind : {"INITIAL", "RENEWAL", "UPGRADE"}, plan : Plan, amount : Nat, left : Days,
            status : Settled \cup Unpaid \cup {"VOID"}, tries : Nat, retry : Days,
            refunded : Nat, rows : Nat]

\* Types.  A subscription that waits for a payment has a date when it stops
\* waiting, a scheduled plan is none it has already, an invoice that can be
\* retried is unpaid, and the tries are within the limit.
TypeOK ==
    /\ sub \in Row
    /\ sub.status # "NONE" <=> sub.plan \in Plan
    /\ sub.overdue \in None .. SuspendAfterPastDueDays
    /\ \A n \in DOMAIN invoices :
          /\ invoices[n] \in Invoice
          /\ invoices[n].amount > 0
          /\ invoices[n].tries <= RetryAttempts + 1
    /\ Len(invoices) <= MaxInvoices
    /\ \A w \in Worker : "step" \in DOMAIN task[w]
    /\ requests <= MaxRequests
    /\ faults <= MaxFaults

\* Money that came in is never forgotten: an invoice once paid stays paid or
\* refunded, whatever cancellation, missed date or payment had read it before.
PaidStaysPaid ==
    [][\A n \in DOMAIN invoices :
          invoices[n].status \in Settled => invoices'[n].status \in Settled]_vars

\* What an invoice says was refunded has really been refunded and is not more
\* than its amount, however refunds and payments of it interleave.
RefundRecordSound ==
    \A n \in DOMAIN invoices :
        invoices[n].refunded <= invoices[n].amount /\ invoices[n].refunded <= invoices[n].rows

\* The billing checks lengthen a period only for a free plan, or for an invoice
\* that was paid, to the end it says.
RenewedOnlyIfPaid ==
    [][ task'[Cron] # task[Cron] /\ sub'.left > sub.left
        => \/ Price[NextPlan(task[Cron].seen)] = 0
           \/ \E n \in DOMAIN invoices :
                 /\ invoices[n].status \in Settled
                 /\ sub'.left \in {invoices[n].left, FromNow(invoices[n].left, invoices[n].plan)} ]_vars

\* An administrator holds the shop as it is, until released.
Held == sub.paused /\ sub.pausedFor = None

\* A payment is missing, or overdue since a known date.  (A payment that is
\* noted while an administrator holds the shop clears the date, and the checks
\* may have made the shop PAST_DUE again by then: without a date they leave it.)
Missing ==
    \/ sub.status = "PAYMENT_PENDING"
    \/ sub.status = "PAST_DUE" /\ sub.overdue # None

\* Nobody keeps ordering on an unpaid invoice for ever: a payment that is
\* missing is settled, or the subscription is ended or suspended.
UnpaidIsSettled == Missing ~> ~Missing \/ Held
=============================================================================
