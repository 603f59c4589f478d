# A TLA+ model of PrintSetu

PrintSetu connects three programs: a customer's web page (scan a QR code, upload
documents, confirm a quote), a backend (NestJS, Postgres through Prisma, Redis
through BullMQ, S3) and a print agent on the shop's computer that is reached over
a socket or polls, prints, and reports back. This directory models the logic of the
backend, of the agent and of two pages with state of their own, checks it with TLC
and proves part of it with TLAPS.

Paths below are relative to `src/printsetu-backend/src/` unless they start with
`agent/`, which stands for `src/printsetu-print-agent/src/`, or `web/`, which stands
for `src/printsetu-frontend/src/app/`.

## 1. Inventory

| Component | State | Operations | What is hard | What makes it correct |
|---|---|---|---|---|
| Print-job state machine and repository (`print/print-job-state-machine.ts`, `print-jobs.repository.ts`) | `PrintJob.status` | `canTransition`, `transition` (compare-and-swap) | every caller read the status earlier | the status moves only along the table, one of several racing writers wins |
| Print pipeline (`print/print-jobs.service.ts`, `print-jobs.processor.ts`) | job rows, the BullMQ dispatch queue | confirm, PRINT, dispatch, report, reconcile, clear history | requests, worker, cron jobs and reports interleave; retries; crashes between writes | one winner per click; one agent per attempt; erased only if printed |
| Retention (`retention/retention.service.ts`) | documents, object storage | `sweep`, `flagStalePrinting` (cron) | overlapping sweeps, failed deletions, late reports | a closed order leaves nothing, a printed order is closed in the end |
| Print agent (`agent/job-processor.ts`, `index.ts`, `socket-client.ts`) | jobs in progress (memory), socket | handle, poll, report with retry | lost answers, restarts, duplicate deliveries, uncertain prints | a confirmed print is durable, a printed job is never reported failed |
| Printers, gateway, registry (`printers/*`, `agent-connection/*`) | printer rows, socket map | connect, disconnect, heartbeat, remove, default | a late disconnect of an old socket, writes without guards | a removed printer stays removed, the registry holds the live socket |
| Orders (`print/print-quote.service.ts`, confirm, editor, `print-edit.service.ts`) | quotes, jobs, items, renders | quote, confirm, reorder, delete, settings, edit | check then act, edits against PRINT | places stay distinct, the amount is the sum of its items, a picture is stored for its own document |
| Billing (`subscriptions/*`) | subscription, invoices, refunds | assign, change, grace, cancel, mark paid, refund, daily automation | several writes from one read; charge then crash | a period is paid once; refunds add up |
| Documents (`documents/*`) | document status, analysis queue | upload, analyse, retry, fail | retries that meet their own half-done work | a document ends PROCESSED or ANALYSIS_FAILED |
| E-mail codes, password reset, registration (`auth/*`) | code records; Keycloak and database users | send, verify, consume; register as a saga | two sends at a time; failing half of a saga | a code works once and for few tries; no user in one store only |
| Pricing (`pricing/*`) | rates, quantity tiers | resolve, add, update, deactivate | overlap checked before insert | tiers never overlap |
| Shops, availability (`shops/*`) | opening hours, override | `effectiveAvailability` | boundaries of days and overrides | the answer equals a reference definition |
| QR codes (`qr/*`) | code rows | get or create, regenerate | find then create | one ACTIVE code |
| Business map (`business-map/*`) | tile cache, leads | coverage, lead updates | parallel fetches of one tile | a tile is fetched once |
| Notifications, mail, audit, reports, settings, users, storage | rows | single writes and reads | - | no control of their own |
| The customer's page (`web/customer/order-flow`) | uploads, options, quote, order, `localStorage` | upload, poll, quote, confirm, track, reload, start over | answers in any order, timers, a reload in the middle | what is confirmed is what is on the screen, once |
| The shopkeeper's editor (`web/shopkeeper/document-editor`) | canvas, history, preview, cards | edit, undo, redo, reset, save, move, remove, apply to all | bitmaps and objects made later, a card selected meanwhile | undo steps through what was recorded, the picture stored is of its document |
| Other pages, document analysis, infrastructure | - | - | - | presentation, stateless, configuration |

Interactions: HTTP handlers, cron jobs and the BullMQ worker run concurrently in
one Node process and meet in the database; none holds a lock over two statements.
The worker pushes to the agent through an in-memory registry of sockets; the agent
answers by HTTP. Payloads pushed on a dying socket and answers to reports are lost
silently. A crash of the backend loses requests and sockets, not rows nor queue.

`PROJECT.json` lists what is hard to test, each at its line, with the properties
that would notice (`hazards`).

## 2. Modules

| Module | Models |
|---|---|
| `PrintJobStates` | the statuses and the table of legal transitions |
| `PrintJobLifecycle` | abstract: what one order is promised, without requests, queues, sockets or agents |
| `PrintPipeline` | the backend's handlers, cron jobs and worker, the link, and the agent; its safety properties, among them that it implements `PrintJobLifecycle` |
| `PrintPipelineClaims` | fairness and liveness of the pipeline, and a statement in the repository that the code does not keep |
| `AgentGateway` | the rows of printers, the sockets and heartbeats of their agents, the registry, the default printer, removal: what the pipeline's link abstracts from |
| `OrderEditor` | the shop's editor of an order that is not printed yet: settings, deletion, reordering, prices and the total, against PRINT and against each other |
| `OrderIntake` | how an order comes in, in the backend: upload, the queue of analyses and its workers, quotes, confirmation |
| `OrderFlow` | `OrderIntake` composed with the browser of the customer: uploads, polls, quotes, timers, confirmation, tracking, reload |
| `UndoStack` | abstract: what undo and redo promise |
| `ImageCanvas` | the canvas of one image: edits, undo, redo and reset, and the bitmaps and objects that are computed meanwhile |
| `DocumentEditor` | `ImageCanvas` composed with the page around it and the service that stores its pictures; it implements `UndoStack` |
| `Billing` | the subscription of a shop, its invoices and refunds: administrators, the billing checks, days that pass |
| `Accounts` | codes by e-mail, registration over Keycloak and the database, a new password, enabling and disabling |
| `MC...` | the instances of each for TLC |
| `PrintJobLifecycle_proofs` | invariant of the abstract specification |
| `PrintPipeline_proofs` | types; evidence, erasure, durability, refinement; clicks, agents |
| `OrderEditor_proofs` | places, totals, amounts and tiers, types |
| `AgentGateway_proofs` | types, and that removal is final |
| `DocumentEditor_proofs` | previews, marks, and that undo is an undo stack; the pictures of rows; types |
| `Billing_proofs` | payments, refunds, what a renewal needs; types |
| `OrderFlow_proofs` | types, orders and ordered documents of the backend, the price on the page |
| `Accounts_proofs` | types, tries of a code, a login and its row |

### How `PrintPipeline` corresponds to the code

*State.* `status`, `attempt`, `target` are columns of `PrintJob` (`attemptCount`,
`printerId`), `stored` the documents whose object is in storage, `deleted` those
whose row says `DELETED`. `Docs` tells which documents an order has. Orders may share
some: that a document is in one active order is checked when a quote is made, and two
quotes of it can be made before either is confirmed. `queue` is the BullMQ queue; an
entry carries the job and the tries it has left, never the attempt (`id` only tells
two entries of one job apart). `registry` is the map of
`AgentConnectionRegistry`, `linkUp` what the agents believe, `closing` the dead
sockets whose `handleDisconnect` is due, `removed` the printers with status REMOVED.
`inbox` holds payloads under way, `net` reports under way, `work` the agent's
`inProgress` map with the stage of `JobProcessor.handle`. `evidence` is a history
variable: paper that came out (`"paper"`), the shopkeeper's word (`"shop"`).
`task[s]` is the request in slot `s`: the name of its next step, and what it
remembers from earlier reads.

*Steps.* A handler is cut where it awaits the database: what it read before is in
its task and may be stale when the next step runs.

| Code | Actions |
|---|---|
| `confirmFromQuote` | `ConfirmCreate`, `ConfirmEligible`, then `TriggerRead` or `TriggerGivesUp` (auto-accept) |
| `triggerPrint` | `TriggerRead`, `TriggerQueue`, `TriggerEnqueue` |
| `dispatchToAgent` with BullMQ's retries | `DispatchRead`, then `DispatchOffline` or `DispatchPush`; `Retried` |
| `reportAgentStatus` | `ReportRead`, `ReportPickup`, `ReportApply`, `ReportChain`; the answer reaches the agent in `Answer` |
| `reconcile` | `Reconcile`, `ReconcileFinish` |
| `sweep`, `flagStalePrinting` | `SweepRead`, `SweepErase`, `SweepClose`; `FlagStalePrinting` |
| `clearHistory` | `ClearHistory` (one transaction) |
| `JobProcessor.handle`, `reportWithRetry`, polling | `Receive`, `SendReport`, `Proceed`, `ReportFails`, `PrintDocuments`; `Poll` |
| gateway, registry, `PrintersService.remove` | `Connect`, `HandleDisconnect`, `RemovePrinter` |
| the world | `LinkBreaks`, `ReportLost`, `HandlerFails`, `Crash`, `AgentRestart` |

Abstractions. Time is left out: a job may be stale, a call may time out, a cron job
may fire at any moment. A read directly followed by a compare-and-swap on the status
read is one step where nothing else was read (`Reconcile`, `FlagStalePrinting`): a
stale read loses the swap and changes nothing. One printer has one agent. The
documents of an order print as one step, whose outcome may have used paper even
when it is reported failed or unknown. Payload contents, prices, notifications and
texts are left out; that any of these steps can throw is `HandlerFails`.

### How `OrderEditor` corresponds to the code

*State.* One order: `status`, `priced`, `total` are columns of `PrintJob`, `sheet` its
committed `PrintJobItem` rows (options, copies, amount, place), `released` the items
whose document went back to PROCESSED, `pricing` the shop's `pricingEnabled`.
`task[e]` is the request of editor `e`. `mine[e]` and `gone[e]` are what its
transaction has written and deleted and not committed; `View(e)` is what one of its
statements reads.

*Transactions.* No isolation level is set anywhere, so Postgres runs at READ
COMMITTED: each statement reads what is committed by then. A row another
transaction has written cannot be written (`Writable`) until that one ends, and the
order's own row is held from `WriteTotal` to `Commit`, PRINT waits for it
(`JobLocked`). `overlapped` is a history variable: two requests were in progress at
the same time. A transaction may end without effect at any moment (`Abort`): a
missing row, a deadlock, Prisma's time limit, a crash.

| Code | Actions |
|---|---|
| `getEditableJobOrThrow` and the guards of each operation | `StartDelete`, `StartSettings`, `StartReorder` |
| `shouldReprice`, `getActiveRateOrThrow` | `AskPricing` |
| the transaction of `deleteItem`, `updateItemSettings` | `WriteDelete`, `WriteSettings`; `repriceCombos`: `ReadForReprice`, `WriteAmount`; `recomputeJobAmount`: `ReadForTotal`, `WriteTotal`; `Commit` |
| the transaction of `reorderItems` | `WritePlace` for each item, `Commit` |
| `triggerPrint`'s swap; the settings page | `Press`; `SwitchPricing` |

The rates are a constant, so a rate edited in the middle of a request is left out.
The rows of one repricing may be written in any order.
Renders and texts of a row are left out.

### How `AgentGateway` corresponds to the code

*State.* `status`, `fresh` (`lastHeartbeatAt` within its limit), `default` are columns
of `Printer` and `PrintSettings`; `registry` is the map of
`AgentConnectionRegistry`. A socket has a life in the backend (`socket`: where
`handleConnection` is) and one on the wire (`alive`, and `due` once it broke and
`handleDisconnect` is to come). A handler that has made its checks and awaits its
last statement has left a pair in `writes`; the statement looks at the id only, so
it is written whatever the row has become (`heartbeat`, `markOffline`).

| Code | Actions |
|---|---|
| `register`, `assertPrinterQuota` | `AskRegister`, `CreatePrinter` |
| `handleConnection`, `handleDisconnect`, `onHeartbeat` | `VerifySocket`, `RegisterSocket`; `HandleDisconnect`; `SocketHeartbeat` |
| `AgentController.heartbeat`; `heartbeat`, `markOffline` | `HttpHeartbeat`; `Heartbeat`, `MarkOffline` |
| `sweepStaleHeartbeats` | `SweepStaleHeartbeats` (one statement) |
| `setDefaultForShop`, `remove` | `AskDefault`, `SetDefault`; `AskRemove`, `RemovePrinter` |
| the agent and the world | `Dial`, `SocketBreaks`, `AgentStarts`, `AgentStops`, `HeartbeatsStop`, `Crash` |

### How `OrderIntake` and `OrderFlow` correspond to the code

*State.* `status`, `session`, `counted` are columns of `Document`, `quotes` and
`orders` tables; `analysis[d]` is the job of a document in the BullMQ queue with the
attempts it has made and the worker that has its lock, `run[w]` what worker `w` does,
which may have lost that lock. `task[c]` is what is on connection `c`: first a request
of the browser, then a handler of the backend cut at its awaits, then the answer,
which waits until the browser takes it, in whatever order. `page`, `visit`,
`uploads`, `shown`, `quoting`, `timer`, `key`, `polling`, `uploading`, `confirming`,
`job` are the signals of `OrderFlowComponent`, `saved` is `localStorage`.

| Code | Actions |
|---|---|
| `DocumentsService.upload`, `listForSession` | `UploadGate`, `StoreDocument`, `Enqueue`; `ListDocuments` |
| `DocumentAnalysisProcessor.process`, `onFailed` | `Take`, `ReadDocument`, `StartProcessing`, `StoreResult` or `NoResult`; `OnFailed`, `MarkFailed` |
| BullMQ: a lock that is lost, a worker that stops | `Stalls`, `WorkerStops` |
| `createQuote` | `QuoteCheck`, `MakeQuote` |
| `confirmFromQuote` | `ConfirmCheck`, `Admit`, `CreateOrder` (the transaction), `MakeEligible` |
| `uploadFiles`, `pollSessionDocuments`, `mergeSessionDocuments` | `ChooseFile`, `Uploaded`; `Poll`, `Listed` |
| `setOption`, `scheduleRecalc`, `recalculate` | `SetOption`, `TimerFires`, `Quoted` |
| `goToReview`, `goBack`, `confirm`, `startPolling` | `Review`, `GoBack`; `Confirm`, `Confirmed`; `Track`, `Tracked` |
| `startNewOrder`, `restoreSession` | `StartNewOrder`; `Reload` with the answer in `Listed` or `Tracked` |

Printing is `PrintPipeline`'s: here an order becomes printed or fails at some moment
(`Printed`, `PrintFails`) and is swept (`Sweep`). A quote is the options it fixes;
its price is left out. That the shop is closed, paused or suspended, or a quote has
expired, is a refusal that can come at any time (`UploadGate`, `ConfirmCheck`,
`Admit`). `uploads` is a list in the code: a file whose upload is answered after a
poll has listed it stands there twice (`twice`), the later entry with the default
options, and those are what the next poll keeps. `forgotten` records, for the
property, whose options were put back that way without a new price. Polls are sent
whether or not the ones before were answered.

### How `ImageCanvas` and `DocumentEditor` correspond to the code

*State.* What a state of the canvas contains is split in three, for the three come
back at different times: `look` at once, the bitmap of `ops` when it is computed
(`bitmap` is `appliedOpsKey`, `cache` is `opsCache`), `marks` (the annotations) when
their objects are made. An edit is the number of the tap that made it. `history`,
`pos`, `restoring` are the fields of those names, `jobs` the asynchronous functions
that go on, with `latest` for the comparison with `restoreToken`. The page has the
order it shows (`view`), the selected card, its preview and the downloads that go on
(`previews`, with `latest` for `previewRequest`), and `latest` for what is in
`localStorage`. A request is in `calls` from when it is sent until its answer is
taken. `rows` and `objects` are the database and the object storage; a stored picture
is the document it shows and the number of its call.

| Code | Actions |
|---|---|
| `pushHistory`, `undo`, `redo`, `resetAll` | `Push`; `Undo`, `Redo`, `ResetAll` with `Restore` |
| `setOps`, `computeOps`, `restore`, `restoreAnnotations` | `PushOp`, `ClearPixelEdits`, `OpComputed`; `BitmapRestored`, `MarksRestored`; `ComputationFails` |
| `historyChange$` after its pause (sliders; nudges, texts and styles of annotations) | `EditLook`, `EditMarksLater`, `Settle` |
| `selectIndex`, `loadPreview` | `Select`, `SignLink`, `Download`, `PreviewFails` |
| `onCanvasEditorSave`, `resetEdits`, `onApplyAll` | `Save`, `SaveAnswered`, `SaveRefused`; `ResetEdits`, `ResetAnswered`; `ApplyAll`, `BatchAnswered` |
| `moveItem`, `removeItem`, `commitSettings`, `load` | `MoveItem`, `RemoveItem`, `CommitSettings`, `OrderAnswered`, `CardsAnswered` |
| `applyRenderedImage`, `resetEdit` | `ReadItem`, `UpdateRow`, `DeletePrevious`; `DeleteReset`, `UpdateReset`; `StoreFails`, `ResetFails` |
| the order editor's requests | `WriteOrder`, in one step: their interleaving is `OrderEditor` |

### How `Billing` corresponds to the code

*State.* `sub` is the row of `ShopSubscription` and `invoices` those of `Invoice` with
the refunds recorded for each (`rows` is the sum of its refund rows, `refunded` the
column). Times are days from now (`left`, `grace`, `overdue` counts days since), and
`Tick` lets one pass when no request is under way. `task[w]` is a request of an
administrator, or the billing checks, with the subscription it read (`seen`).

| Code | Actions |
|---|---|
| the operations of `SubscriptionsService` | `Ask...` reads the row and looks at the guards, `...Write` is the transaction |
| `InvoicesService.markPaid`, `refund` | `PayCheck`, `PayWrite`; `RefundCheck`, `RefundWrite` |
| `BillingAutomationService.process` | `Look` reads the row again wherever the code does; `Unpause` |
| `endOfTerm` | `EndCancelled`, `EndExpired`, `RenewFree`, or `MakeInvoice`, `Charge`, `CronPayCheck`, `CronPayWrite`, `RenewPaid`, or `Declined`, `PaymentMissed` |
| `retryPayment`, `toPastDue`, suspension | `FindRetry`, `RenewRetried`; `ToPastDue`; `SuspendOverdue` |
| a statement fails, the process stops | `Fails` (what is written stays) |

### How `Accounts` corresponds to the code

*State.* `record[p]` is the row of `EmailVerification` for a purpose, `login` and
`enabled` are Keycloak's, `row` and `status` the user's row. Codes and logins are
numbered, `guesses` counts what was tried against a code.

| Code | Actions |
|---|---|
| `EmailOtpService.send`, `verify`, `consume` | `CheckTimer`, `StoreCode`, `MailCode`, `MailFails`, `DropCode`; `Verify`, `CountTry`; `Consume` |
| `RegistrationService.register` | `CreateLogin`, `SetUp`, `CreateRow`, and `SetUpFails` or `CommitLost`, then `DeleteLogin` |
| `PasswordResetService.reset`, `AdminUsersService.setStatus` | `SetPassword`; `SwitchLogin`, `SwitchStatus` |
| a call fails or the process stops | `Fails` |

## 3. Runs

| Run | Shows |
|---|---|
| `pipeline_interleaving` | two requests at a time on an order of two documents, overlapping sweeps, failing deletions, a crash: types, `ClickWinsOnce`, `ConfirmedPrintIsDurable`, `ClosedLeavesNothing`, and that the pipeline implements the lifecycle (`ImplementsLifecycle`) |
| `pipeline_printers` | two printers, two requests at a time, retried dispatches, removal and retargeting: `OneAgentPerAttempt` |
| `pipeline_liveness` | `RetentionCompletes`, `PrintingSettles`, `DispatchEnds` |
| `editor` | two editors at a time, a tiered combination in one or two copies, PRINT and the pricing switch beside them: types, `PlacesDistinct`, `TotalIsSum`, `AmountsFollowOrder` |
| `order_flow` | the customer's page and the backend together: types, `OneOrderPerQuote`, `OrderedStaysOrdered`, `ShownIsChosen`, `AnalysisEnds` |
| `document_editor` | the canvas, its page and the store of pictures: types, `ShownIsAsked`, `RenderIsOfItem`, `RenderExists`, `MarksInHistory`, `ImplementsUndoStack`, `BecomesFree` |
| `gateway` | one agent with three sockets, late disconnects, removal, a crash: `RemovedIsFinal`, `StoppedAgentGoesOffline`, `RunningAgentComesOnline` |
| `billing` | an administrator, the billing checks with a gateway that may decline, days, one failure: types, `RefundRecordSound`, `PaidStaysPaid`, `RenewedOnlyIfPaid`, `UnpaidIsSettled` |
| `accounts` | two requests at a time for one address, one failing call or lost answer of a commit: types, `GuessesBounded`, `RowHasLogin`, `NoHalfAccount` |
| `claim_stranded` | refutes `NothingStranded`: a QUEUED order can have nothing under way that would deliver it |
| `claim_removed` | refutes `RemovedStaysRemoved`: a heartbeat in progress brings a removed printer back |
| `claim_chosen` | refutes `ConfirmedIsChosen`: an old quote can be confirmed while a changed option waits for its timer |

The `claim_` runs check one statement each that a comment of the repository
makes and the code does not keep; `findings` in `PROJECT.json` quotes the comment and
tells the counterexample.

*What a property leaves out, because the code does not keep it.* `TotalIsSum` and
`AmountsFollowOrder` are about orders whose editors' requests did not overlap: two of
them each read the rows before the other commits. The run has the overlapping ones,
for `PlacesDistinct`; two deletions at once can also empty an order, which no property
forbids. `RemovedIsFinal` is about a printer whose earlier requests are over and that
has no live socket (`AtRest`), since `claim_removed` shows what happens otherwise.
`RenderIsOfItem` is about a page whose cards stay where they are: the answer to a save
is applied to whichever card is selected by then. `RenderExists` excepts a picture that
`resetEdit` has deleted without having told the row, which is for good if its second
write fails (`lost`). `MarksInHistory` is silent while an edit waits for its pause.
`ShownIsChosen` excepts files that were on the page twice and lost their options to a
poll (`forgotten`). `RowHasLogin` excepts a row whose commit was not heard of: `register`
removes its login all the same (`unheard`). `RefundRecordSound` says that no more is
recorded as refunded than really was; two refunds at a time can record less.
`AnalysisEnds` excepts jobs that are lost: the worker stops between the last attempt
and the mark, or the queue gives up a job that stalled twice, of which `onFailed`
takes no notice.

*Bounds of the pipeline.* The runs have one order. Orders meet in the queue, the
slots and the agent, none of which makes one wait for another or reads another's
state, and in documents they share: there the sweep of one erases what the other
still has. No run shows that; the theorems hold for any orders and any sharing, and
`Spec_ErasedOnlyIfPrinted` says what is left of the promise then. `MaxAttempts` stops PRINT after so many attempts of a job; two are enough for
a report, payload or dispatch of an earlier attempt to meet a later one.
`DispatchTries` and `ReportTries` are 5 and 3 in the code. `DispatchTries` is 2 in
`pipeline_printers` and `pipeline_liveness`, a try that is not the last and one that
is, and 1 in `pipeline_interleaving`, whose documents leave no room for more;
`ReportTries` is 1. An agent polls in `pipeline_liveness`; beside a second printer
polls are left to `Spec_OneAgentPerAttempt`. In `pipeline_printers` the order has no
documents, for an agent's part in an attempt does not depend on them. `MaxPolls`, `MaxNet`, `MaxClosing`
bound what is under way at the same time. `MaxFaults` bounds crashes, restarts,
removals and failing steps; a link that breaks by itself (none where `MaxClosing = 0`), a lost report and a lost race are not
faults and are not counted. Two slots are two requests at a time. The proofs hold
for all values of every bound.

*Editor.* Two items of two pages and one, in one or two copies, cross the boundary of
the tier (three pages) in both directions, by a setting and by a deletion. Two editors
reorder, delete and set options at the same time. There is one combination; an
item that moves to another, with or without a tier or a rate, is left to the theorems,
which are for any. `MaxSwitches` bounds the
pricing switch.

*Order flow.* One document, two options, two connections, two workers: a question and
an answer can overtake each other, a worker that lost its lock meets its successor,
a quote is confirmed twice. A document is on the page twice only if another one was
uploaded before it, so the run does not have that case; `Spec_ShownIsChosen` does.
An instance with two documents and everything else is too large for a run. `Attempts = 2`: one that is not the last,
and the last. `OrderLimit = 2`: an order can be admitted after the first one.

*Document editor.* Two images, one of which was edited on an earlier visit. Three taps
reach a push over the limit of the history (`HistoryLimit = 2`, 60 in the code), an
edit after an undo, and two restores of which the later one ends first; two requests
wait at a time. `CacheSize = 1` makes a bitmap be both found and missing.

*Gateway.* The third socket of the agent comes while the disconnect of the first is
due. With one printer nothing is lost: printers share the quota only.

*Billing.* A free plan and a dear one on a longer cycle make an upgrade, a downgrade
that waits for the renewal and a free renewal happen; two invoices are one that is
due and one that was paid; amounts are 4, and refunds of 2 and 4 are a part and the
whole. Every period, retry and grace is a day or two, so that each boundary is
reached; `MaxLate` counts a time further past than a day as a day. An instance with two
administrators at a time is too large for a run: of what they can do to each other,
changes of the subscription meet those of the checks in the run as well, which hold
what they read for as long; two refunds of an invoice at the same time do not happen
in it. `RefundRecordSound`, `PaidStaysPaid` and `RenewedOnlyIfPaid` are proved for any
number of administrators.

*Accounts.* Two codes, five wrong tries of each, two logins, one failure.

*Symmetry.* Jobs, slots, printers, editors and clients of `Accounts` are interchangeable, and
the runs with `Symmetry` check safety only. Deadlock is not checked: bounds make the
models stop, and so do a system whose only printer is removed and an editor whose
order was sent.

*Fairness.* Handlers under way go on, since Node runs them (`WF` of `HandlerStep`, of
`Write` and `CronStep` in `Billing`, of `Serve` and `Answer` in `DocumentEditor`).
Cron jobs fire for ever (`WF` of `FlagStalePrinting` and `SweepStaleHeartbeats`, `SF`
of `SweepRead`: slots are a bound of the model, so a sweep finds one free again and
again), queues give their entries to workers (`SF` of `DispatchRead`, `WF` of
`WorkerStep`) and call `onFailed`, a running agent goes on, sends heartbeats, and its
calls are answered or time out. Days pass although requests come again and again
(`SF` of `Tick`). In the browser a computation ends and a download arrives or fails.
Nothing is assumed of customers, shopkeepers, administrators, the payment gateway or
the network, nor that an agent ever connects.

## 4. Proofs

Those of the pipeline are for arbitrary sets of jobs, documents, printers and slots,
with any sharing of documents, under `PipelineAssumption` only (the bounds are numbers, the two numbers of tries are
positive, `NoPrinter` is no printer).

* `Spec_TypeOK`. `TypeOK` alone is not inductive: `RemovePrinter` counts a dead
  socket down, so `TypeInv` adds `DeadSocketsAreDue` (a registered printer whose
  agent is not linked has a disconnect due).
* `Spec_ErasedOnlyIfPrinted`, `Spec_ClosedLeavesNothing`,
  `Spec_ConfirmedPrintIsDurable`, `Spec_ImplementsLifecycle`. The invariant is
  `PipelineInv`: types, the invariant of the abstract lifecycle, and soundness of
  what is under way: a PRINTED report has evidence, in whatever of its places it is
  (`ReportsAreSound`: on the wire; `TasksAreSound`: read by a request;
  `WorkIsSound`: about to be sent by an agent), a sweep works on an order that is
  done, what it has not in its list any more is erased unless it failed. Every step
  is shown to be a step of the lifecycle or a stutter; that evidence only grows and
  finished orders stay finished carries the rest over. A document that is gone has an
  order with evidence, not every order that shares it.
* `Spec_ClickWinsOnce`, `Spec_OneAgentPerAttempt`. `AttemptInv`: whoever holds an attempt (a push about to
  happen, a payload, an agent) holds one not above the current one, two holders of
  one attempt are the same printer, and it is the target if the attempt is current.
* `LSpec_LInv`. The abstract lifecycle keeps its own promise.

* `Spec_PlacesDistinct`, for any number of editors. `PlacesInv`: a row in hand is in
  one hand and still there (`Locks`), a request that does not reorder leaves places
  alone (`KeepsPlaces`), a reordering lists every item that is left once and has
  numbered the first ones (`Numbered`). That a list of the right length which names
  every item repeats none is `ListedOnce`, from the theorems on finite sets.
* `Spec_TotalIsSum`, for any number of editors whose requests have not overlapped:
  then one is in progress at most (`OneAtATime`), the others are idle when it takes a
  step (`OthersIdle`), and `TotalsInv` speaks of that one. A transaction that will not write the total leaves
  the amounts it reads alone, one that will has read the rows it leaves. It uses
  `EditorAssumption` only, and nothing about the value of a sum.
* `OrderEditor_proofs!Spec_TypeOK`, `Spec_FreeStaysFree`, for any number of editors,
  `Spec_AmountsFollowOrder`, for any number whose requests have not overlapped. They
  have one hypothesis more, `RatesAreNat`: a rate is a natural number, whatever the number of pages. In the code a rate is a
  positive decimal of two places (`@IsPositive` in `pricing.dto.ts`, `Decimal(10, 2)`
  in the schema), here counted in hundredths. It speaks of all numbers of pages, which
  TLC cannot try, so it is a hypothesis of these theorems and no `ASSUME`.
  `FreeInv`: rows without amounts add up to 0, and a request that found the order free
  will not reprice it. `FollowInv`: a transaction changes the pages of no tiered
  combination but those it has listed for repricing (`SameGroup`), and the updates
  still to come put an item at the tier of the rows the transaction leaves (`AtTier`).
  `SumFunctionOnSet` is a value of a function that the library chooses by its recursive
  equation, so nothing is known of it before it is shown that there is such a function
  (`SumExists`) and that two of them agree (`SumUnique`). Both follow from a smallest
  subset for which they fail (`SmallestSubset`), strict inclusion of finite sets being
  well-founded.

* `AgentGateway_proofs!Spec_TypeOK`, `Spec_RemovedIsFinal`, for any number of printers
  and sockets, under `GatewayAssumption`. The invariant: a dead socket waits for its
  end once (`Sockets`), an agent has one connection (`OneAlive`), a registered socket
  was accepted (`RegisteredIsKnown`). A removed printer at rest has no statement due
  and no socket that could make one, and every way to get one looks at the
  credential first.
* `DocumentEditor_proofs`, for any limits, items and number of taps, under
  `CanvasAssumption` and `ItemsAssumption`. `Spec_ImplementsUndoStack`: whatever a
  step does, `history` and `pos` change in one of six ways (`Moves`), each of which is
  a step of `UndoStack` or a stutter. `Spec_ShownIsAsked`: a download that has not been
  overtaken is for the item asked for last (`Previews`). `Spec_MarksInHistory`: of the
  restores that go on only the latest ends `restoring`, and brings the marks of the
  current state or records what it brings, and edits that are not recorded yet wait for a
  pause (`MarksInv`); a closed canvas has nothing
  left that could come late (`Closed`).
  `Spec_RenderIsOfItem`, `Spec_RenderExists`: `PicInv`. As long as no card was moved,
  the page, the rows and every call and download that is under way are of the document
  they were begun for (`PageInPlace`, `RowsInPlace`). A picture is stored once, for one
  row (`Keys`): what a call will still store nobody knows yet, and what it will delete
  no row names, but its own until it has written it anew.
  `Spec_TypeOK`: `TypesInv` adds that every state, wherever it is kept (history, jobs,
  browser), consists of numbers of taps, and that the cache is cut after every
  computation; a longest prefix that is cached exists by `OneIsLargest`.

* `Billing_proofs`, for any administrators, plans, prices, dates and settings, with a
  gateway or without, under `BillingAssumption`. The invariant (`IInv`) says what a
  task has read and still is true when it writes: the subscription it saw had a plan,
  the invoice it names exists, what it read as refunded is at most the sum of the
  refund rows, a renewal's invoice is settled (`TaskOK`). It is kept because invoices
  only grow (`Grows`: none is lost, no amount changes, refund rows are only added,
  settled stays settled), which every step is shown to keep together with it (`Kept`).
  `Spec_PaidStaysPaid` is a part of `Grows`, `Spec_RefundRecordSound` of the
  invariant: two refunds that read the same sum each write less than there are rows
  for. `Spec_RenewedOnlyIfPaid`: of the steps of the checks only three change the end
  of the period. That some of the invoices have an oldest one (`OneIsSmallest`) is
  from the well-foundedness of inclusion of finite sets, induction being out of reach.
  `Spec_TypeOK`: `TInv` adds the types of what a task is about to write, and two limits
  kept by what was read earlier: an invoice that is charged again has tries left
  (`TriesT`), and a shop without a subscription has no invoice, so its first one is
  within the bound (`SubT`).

* `OrderFlow_proofs`, for any documents, options, connections, workers, taps and
  faults, under `IntakeAssumption` (documents are finitely many, or sessions could not
  be counted) and `FlowAssumption`. `Spec_TypeOK`: `TypeInv` says for every step of
  a request that what it is about exists (`TaskOK`), and an upload is of a document
  that no other upload is of and that has no job (`UploadsOK`); documents, quotes,
  orders and page counts are never taken back (`Grown`), so what is true of a request
  that waits stays true while others are served. `Spec_OneOrderPerQuote` and
  `Spec_OrderedStaysOrdered` are inductive together: every step but the creation of an
  order takes nothing back (`Orderly`), since every write of the analysis is
  conditional on a status an ordered document does not have; the creation uses a
  quote that was not used and checks all its documents again.
  `Spec_ShownIsChosen`: `ShownIsChosen` alone is not inductive, since the answer that
  will be shown was asked for earlier. `PriceInv` adds that the latest request for a
  price asks for what is on the page while no timer runs (`Asks`), that its answer is of
  a quote for that (`Tells`), and that `key` is what is processed on the page, so that a
  poll that asks for no new price changes no option but those in `forgotten`.
* `Accounts_proofs`, for any clients, codes, logins, tries and faults, under the
  assumption of `Accounts`. `Spec_RowHasLogin`, `Spec_NoHalfAccount`: `SagaInv` says who
  holds a login: a registration that goes on holds the one Keycloak has and meets no
  row, one that goes back holds none that a row has, no two hold the same. It holds
  until the answer of a commit is lost (`HeardInv`), which is a fault.
  `Spec_GuessesBounded`: the bound is not inductive, a wrong try being compared,
  counted and forgotten in different steps. `GuessInv` says where the wrong tries of
  a live code are: counted in its record, about to be counted by a request, or lost by a
  call that failed; the sizes of those sets follow from the theorems on finite sets.

Only model-checked: the liveness properties (`RetentionCompletes`, `PrintingSettles`,
`DispatchEnds`, `UnpaidIsSettled`, `StoppedAgentGoesOffline`, `RunningAgentComesOnline`,
`BecomesFree`, `AnalysisEnds`), which are beyond the prover. Every invariant and action
property of a passing run is a theorem.

## 5. Not modelled

* *Pricing*: rates and tiers are constants of `OrderEditor`, so a rate edited in the
  middle of a request is left out; adding a tier is one check and one insert.
* *Shops, availability*: `effectiveAvailability` is a function of hours, overrides and
  the time; `OrderIntake` takes it as a refusal that may come at any time.
* *QR codes*: find, then insert, two statements.
* *Business map*: a cache of tiles, geometry on coordinates, updates of single rows.
* *Notifications, mail, audit, reports, settings, users, storage*: single reads and
  writes, and clients of external services; no control of their own.
* *The rest of the front end*: pages that show what the backend answers, and its
  templates and styles, which are most of its lines.
* *Document analysis service, infrastructure*: a stateless counter of pages, of which
  `OrderIntake` takes the answer or its failure; configuration.

Within components that are modelled: the print-ready copies of a document, whose
deletion is tried once and never looked at; the OS printers an agent reports and
which one the shopkeeper picks; what a quote costs; previews and the validation of
files; logging in, which is Keycloak's, temporary passwords and deleting a user;
plans themselves, reminders and the list of billing events; editing PDFs
(`applyEdit`, the same calls without a canvas), older versions and presets of an
image.

Known deviations that no property is about, since the code promises nothing there:
reports carry the number of their attempt and nobody compares it; an order that a
crash leaves CREATED is not taken up; one failed poll ends the polling of the
customer's page; the bitmap of an operation that was undone while it was computed
stays on the canvas; PRINT may come between the check of an edit and its write; two
quotes of one document both become orders; two deletions at once empty an order; an
order stays PRINTED if the backend stopped before its next write and the agent gave
up; a second renewal is charged after a crash. They are in the list of hazards with the reason.

What could follow: an instance of `OrderFlow` with two documents under a
constraint, and the documents of an order against PRINT and the sweep.
