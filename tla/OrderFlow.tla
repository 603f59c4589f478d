------------------------------ MODULE OrderFlow ------------------------------
(***************************************************************************)
(* The browser of a customer who orders: OrderFlowComponent, composed with *)
(* the backend of OrderIntake.  What is on the screen changes by taps, by  *)
(* the answers to requests in whatever order they come, by timers, and by  *)
(* a reload, which leaves what localStorage keeps.                         *)
(*                                                                         *)
(* quoteSeq is the field `latest` of a quote request: whether none was     *)
(* made later.  Files are uploaded one at a time; a reload is that of the  *)
(* page of a shop that can be ordered from.                                *)
(***************************************************************************)
EXTENDS OrderIntake

CONSTANTS
    Default,        \* the options every file starts with
    MaxTaps         \* bound: options changed, orders started over and reloads

ASSUME FlowAssumption == Default \in Opt /\ MaxTaps \in Nat

VARIABLES
    page,           \* currentStep: "upload", "review" or "status"
    visit,          \* sessionId of the page, 0 if there is none
    uploads,        \* the documents on the page, with status and options
    twice,          \* documents that are on the page a second time, as just uploaded
    shown,          \* the quote on the page, 0 if there is none
    quoting, timer, \* whether its price is stale; whether recalcTimer runs
    key,            \* processedKey: the processed documents seen last
    polling,        \* docPollHandle
    uploading, confirming,
    job,            \* the order the page tracks, 0 if there is none
    saved,          \* localStorage: session and order
    forgotten,      \* documents whose options went back to the default since a price
                    \* was asked for (history, not in the code)
    taps            \* taps so far

formVars == <<page, visit, uploads, twice, key, saved>>
priceVars == <<shown, quoting, timer, forgotten>>
flags == <<polling, uploading, confirming>>
vars == <<intakeVars, formVars, priceVars, flags, job, taps>>
serverVars == <<docVars, jobVars, orderVars>>

Nothing == [session |-> 0, job |-> 0]

Init ==
    /\ IntakeInit
    /\ page = "upload" /\ visit = 0 /\ uploads = <<>> /\ twice = {} /\ key = {}
    /\ shown = 0 /\ quoting = FALSE /\ timer = FALSE /\ forgotten = {}
    /\ polling = FALSE /\ uploading = FALSE /\ confirming = FALSE
    /\ job = 0 /\ saved = Nothing /\ taps = 0
-----------------------------------------------------------------------------
Free(c) == task[c] = NoTask
Request(step) == [NoTask EXCEPT !.step = step, !.session = visit]
Tap == taps < MaxTaps /\ taps' = taps + 1

ProcessedAmong(list) == {d \in DOMAIN list : list[d].status = "PROCESSED"}
Pending == twice # {} \/ \E d \in DOMAIN uploads : uploads[d].status \in {"UPLOADED", "PROCESSING"}
OptionsOf(list) == [d \in ProcessedAmong(list) |-> list[d].opt]

\* The quote requests that are under way are not the latest any more.
Outdated == [c \in Conn |-> [task[c] EXCEPT !.latest = @ /\ task[c].step \notin {"quote", "make", "quoted"}]]

\* recalculate, with the documents `list` of session s, on connection c.
Recalculate(c, list, s) ==
    /\ forgotten' = {}
    /\ IF ProcessedAmong(list) = {}
       THEN /\ shown' = 0 /\ quoting' = FALSE
            /\ task' = [Outdated EXCEPT ![c] = NoTask]
       ELSE /\ quoting' = TRUE /\ UNCHANGED shown
            /\ task' = [Outdated EXCEPT ![c] =
                           [NoTask EXCEPT !.step = "quote", !.session = s, !.items = OptionsOf(list)]]

\* mergeSessionDocuments: the list becomes what the answer on c says.  Of a document
\* that is there twice the later entry's options stay, and the page asks for a price
\* only if other documents are processed now.
Merge(c, docs, s) ==
    LET list == [d \in DOMAIN docs |->
                    [status |-> docs[d],
                     opt |-> IF d \in DOMAIN uploads \ twice THEN uploads[d].opt ELSE Default]]
    IN  /\ uploads' = list /\ twice' = {}
        /\ key' = ProcessedAmong(list)
        /\ IF key' # key
           THEN Recalculate(c, list, s) /\ UNCHANGED timer
           ELSE /\ task' = [task EXCEPT ![c] = NoTask]
                /\ forgotten' = forgotten \cup {d \in twice : uploads[d].opt # Default}
                /\ UNCHANGED <<shown, quoting, timer>>
-----------------------------------------------------------------------------
ChooseFile(c, d) ==
    /\ page = "upload" /\ Free(c)
    /\ status[d] = "NONE" /\ \A b \in Conn : task[b].doc # d
    /\ uploading' = TRUE
    /\ task' = [task EXCEPT ![c] = [Request("upload") EXCEPT !.doc = d]]
    /\ UNCHANGED <<serverVars, faults, formVars, priceVars, polling, confirming, job, taps>>

\* The end of uploadFiles, which also asks for a price.  A document that a poll has
\* listed already is appended all the same.
Uploaded(c) ==
    /\ task[c].step = "uploaded"
    /\ LET t == task[c]
           new == [status |-> "UPLOADED", opt |-> Default]
           list == IF t.ok THEN [d \in DOMAIN uploads \cup {t.doc} |->
                                    IF d \in DOMAIN uploads THEN uploads[d] ELSE new]
                   ELSE uploads
           s == IF t.ok THEN t.session ELSE visit
       IN  /\ uploads' = list /\ visit' = s
           /\ twice' = IF t.ok THEN twice \cup ({t.doc} \cap DOMAIN uploads) ELSE twice
           /\ saved' = IF t.ok THEN [session |-> s, job |-> job] ELSE saved
           /\ key' = ProcessedAmong(list)
           /\ polling' = (polling \/ t.ok \/ Pending)
           /\ Recalculate(c, list, s)
    /\ uploading' = FALSE
    /\ UNCHANGED <<serverVars, faults, page, timer, confirming, job, taps>>

\* setInterval: whether or not the polls before were answered.
Poll(c) ==
    /\ polling /\ visit # 0 /\ Free(c)
    /\ task' = [task EXCEPT ![c] = Request("list")]
    /\ UNCHANGED <<serverVars, faults, formVars, priceVars, flags, job, taps>>

\* The answer to a poll, or to the request that restores a session.
Listed(c) ==
    /\ task[c].step = "listed"
    /\ LET t == task[c]
           pending == \E d \in DOMAIN t.items : t.items[d] \in {"UPLOADED", "PROCESSING"}
       IN  IF t.no = 0
           THEN Merge(c, t.items, visit) /\ polling' = (polling /\ pending) /\ UNCHANGED visit
           ELSE Merge(c, t.items, t.session) /\ polling' = (polling \/ pending) /\ visit' = t.session
    /\ UNCHANGED <<serverVars, faults, page, saved, uploading, confirming, job, taps>>

\* setOption, setCopiesValue: scheduleRecalc marks the price stale.
SetOption(d, o) ==
    /\ page = "upload" /\ d \in ProcessedAmong(uploads)
    /\ uploads[d].opt # o
    /\ Tap
    /\ uploads' = [uploads EXCEPT ![d].opt = o]
    /\ quoting' = TRUE /\ timer' = TRUE
    /\ UNCHANGED <<serverVars, faults, task, page, visit, twice, key, saved, shown, forgotten, flags, job>>

TimerFires(c) ==
    /\ timer /\ Free(c)
    /\ timer' = FALSE
    /\ Recalculate(c, uploads, visit)
    /\ UNCHANGED <<serverVars, faults, formVars, flags, job, taps>>

\* Mutant of Quoted: an answer is shown whether or not it is the latest.
QuotedAnyhow(c) ==
    /\ task[c].step = "quoted"
    /\ shown' = (IF task[c].ok THEN task[c].no ELSE 0) /\ quoting' = FALSE
    /\ task' = [task EXCEPT ![c] = NoTask]
    /\ UNCHANGED <<serverVars, faults, formVars, timer, forgotten, flags, job, taps>>

Quoted(c) ==
    /\ task[c].step = "quoted"
    /\ IF task[c].latest
       THEN shown' = (IF task[c].ok THEN task[c].no ELSE 0) /\ quoting' = FALSE
       ELSE UNCHANGED <<shown, quoting>>
    /\ task' = [task EXCEPT ![c] = NoTask]
    /\ UNCHANGED <<serverVars, faults, formVars, timer, forgotten, flags, job, taps>>
-----------------------------------------------------------------------------
CanContinue ==
    /\ ProcessedAmong(uploads) # {} /\ ~Pending
    /\ ~uploading /\ ~quoting /\ shown # 0

Review ==
    /\ page = "upload" /\ CanContinue
    /\ page' = "review"
    /\ UNCHANGED <<serverVars, faults, task, visit, uploads, twice, key, saved, priceVars, flags, job, taps>>

GoBack ==
    /\ page = "review"
    /\ page' = "upload"
    /\ UNCHANGED <<serverVars, faults, task, visit, uploads, twice, key, saved, priceVars, flags, job, taps>>

\* The button asks for a quote and for no other confirmation under way.
Confirm(c) ==
    /\ page = "review" /\ shown # 0 /\ ~confirming /\ Free(c)
    /\ confirming' = TRUE
    /\ task' = [task EXCEPT ![c] = [Request("confirm") EXCEPT !.no = shown]]
    /\ UNCHANGED <<serverVars, faults, formVars, priceVars, polling, uploading, job, taps>>

Confirmed(c) ==
    /\ task[c].step = "confirmed"
    /\ confirming' = FALSE
    /\ IF task[c].ok
       THEN /\ job' = task[c].no /\ page' = "status"
            /\ saved' = IF visit # 0 THEN [session |-> visit, job |-> task[c].no] ELSE saved
       ELSE UNCHANGED <<job, page, saved>>
    /\ task' = [task EXCEPT ![c] = NoTask]
    /\ UNCHANGED <<serverVars, faults, visit, uploads, twice, key, priceVars, polling, uploading, taps>>

Over == {"RETENTION_PENDING", "DELETED"}
OrderStates == {"CREATED", "PRINT_ELIGIBLE", "PRINT_FAILED"} \cup Over

Track(c) ==
    /\ page = "status" /\ Free(c)
    /\ task' = [task EXCEPT ![c] = [Request("status") EXCEPT !.no = job]]
    /\ UNCHANGED <<serverVars, faults, formVars, priceVars, flags, job, taps>>

\* An answer of startPolling, or the one restoreSession asked for.
Tracked(c) ==
    /\ task[c].step \in OrderStates
    /\ IF task[c].step \in Over
       THEN saved' = Nothing /\ UNCHANGED <<page, visit, job>>
       ELSE IF task[c].ok THEN UNCHANGED <<saved, page, visit, job>>
       ELSE page' = "status" /\ visit' = task[c].session /\ job' = task[c].no /\ UNCHANGED saved
    /\ task' = [task EXCEPT ![c] = NoTask]
    /\ UNCHANGED <<serverVars, faults, uploads, twice, key, priceVars, flags, taps>>
-----------------------------------------------------------------------------
\* Mutant of StartNewOrder: the page is not turned back.
StartNewOrderInPlace ==
    /\ Tap
    /\ IF page = "status" THEN job # 0 ELSE visit # 0 \/ job # 0
    /\ visit' = 0 /\ uploads' = <<>> /\ twice' = {} /\ key' = {} /\ saved' = Nothing
    /\ shown' = 0 /\ quoting' = FALSE /\ timer' = FALSE /\ forgotten' = {}
    /\ polling' = FALSE /\ uploading' = FALSE /\ confirming' = FALSE /\ job' = 0
    /\ task' = Outdated
    /\ UNCHANGED <<serverVars, faults, page>>

\* startNewOrder; what is under way goes on and is taken when it comes.
StartNewOrder ==
    /\ Tap
    /\ IF page = "status" THEN job # 0 ELSE visit # 0 \/ job # 0
    /\ page' = "upload" /\ visit' = 0 /\ uploads' = <<>> /\ twice' = {} /\ key' = {} /\ saved' = Nothing
    /\ shown' = 0 /\ quoting' = FALSE /\ timer' = FALSE /\ forgotten' = {}
    /\ polling' = FALSE /\ uploading' = FALSE /\ confirming' = FALSE /\ job' = 0
    /\ task' = Outdated
    /\ UNCHANGED <<serverVars, faults>>

\* The page is loaded again: nobody waits for the answers of before.
Reload(c) ==
    /\ Tap
    /\ page' = "upload" /\ visit' = 0 /\ uploads' = <<>> /\ twice' = {} /\ key' = {}
    /\ shown' = 0 /\ quoting' = FALSE /\ timer' = FALSE /\ forgotten' = {}
    /\ polling' = FALSE /\ uploading' = FALSE /\ confirming' = FALSE /\ job' = 0
    /\ LET Unheard(b) ==
               IF task[b].step \in {"uploaded", "quoted", "listed", "confirmed", "idle"} \cup OrderStates
               THEN NoTask ELSE [task[b] EXCEPT !.heard = FALSE]
           restore ==
               IF saved.job # 0 THEN [Request("status") EXCEPT !.session = saved.session,
                                                               !.no = saved.job, !.ok = FALSE]
               ELSE IF saved.session # 0 THEN [Request("list") EXCEPT !.session = saved.session, !.no = 1]
               ELSE NoTask
       IN  /\ Unheard(c) = NoTask
           /\ task' = [[b \in Conn |-> Unheard(b)] EXCEPT ![c] = restore]
    /\ UNCHANGED <<serverVars, faults, saved>>

\* The connection of a confirmation breaks: the browser has an error, the
\* backend goes on.
Breaks(c) ==
    /\ task[c].step \in {"confirm", "admit", "order", "eligible"} /\ task[c].heard
    /\ faults < MaxFaults
    /\ faults' = faults + 1
    /\ confirming' = FALSE
    /\ task' = [task EXCEPT ![c].heard = FALSE]
    /\ UNCHANGED <<serverVars, formVars, priceVars, polling, uploading, job, taps>>

\* A question breaks: the page asks no more for its files, or it was restored
\* from what localStorage keeps, which is forgotten then.
AskBreaks(c) ==
    /\ task[c].step \in {"list", "status"} /\ task[c].heard
    /\ faults < MaxFaults
    /\ faults' = faults + 1
    /\ LET restoring == IF task[c].step = "list" THEN task[c].no # 0 ELSE ~task[c].ok
       IN  /\ saved' = IF restoring THEN Nothing ELSE saved
           /\ polling' = (polling /\ (restoring \/ task[c].step # "list"))
    /\ task' = [task EXCEPT ![c] = NoTask]
    /\ UNCHANGED <<serverVars, page, visit, uploads, twice, key, priceVars, uploading, confirming, job, taps>>

Browser ==
    \/ \E c \in Conn :
          \/ \E d \in Doc : ChooseFile(c, d)
          \/ Uploaded(c) \/ Poll(c) \/ Listed(c) \/ TimerFires(c) \/ Quoted(c)
          \/ Confirm(c) \/ Confirmed(c) \/ Track(c) \/ Tracked(c)
          \/ Reload(c) \/ Breaks(c) \/ AskBreaks(c)
    \/ \E d \in Doc, o \in Opt : SetOption(d, o)
    \/ Review \/ GoBack \/ StartNewOrder

Next ==
    \/ Browser
    \/ Backend /\ UNCHANGED <<formVars, priceVars, flags, job, taps>>

Spec == Init /\ [][Next]_vars

\* The workers of the queue and its events go on; nothing is assumed of the customer.
FairSpec ==
    /\ Spec
    /\ \A w \in Worker : WF_vars(WorkerStep(w) /\ UNCHANGED <<formVars, priceVars, flags, job, taps>>)
    /\ \A d \in Doc : WF_vars((OnFailed(d) \/ MarkFailed(d))
                              /\ UNCHANGED <<formVars, priceVars, flags, job, taps>>)
-----------------------------------------------------------------------------
(***************************************************************************)
(* Properties.                                                             *)
(***************************************************************************)
TypeOK ==
    /\ page \in {"upload", "review", "status"}
    /\ visit \in 0 .. Cardinality(Doc)
    /\ twice \subseteq DOMAIN uploads /\ DOMAIN uploads \subseteq Doc
    /\ forgotten \subseteq Doc
    /\ \A d \in DOMAIN uploads : uploads[d].opt \in Opt /\ status[d] # "NONE"
    /\ shown \in 0 .. Len(quotes)
    /\ job \in 0 .. Len(orders)
    /\ page = "status" => job # 0
    /\ \A c \in Conn : task[c].step = "quote" => task[c].items # <<>>
    /\ \A d \in Doc : analysis[d].lock # 0 <=> analysis[d].state \in {"active", "failed", "mark"}

\* These are the documents on the screen, with the options they show there.  A file
\* whose options a poll has put back, since it was on the page twice, has others.
Fits(items) ==
    /\ DOMAIN items = ProcessedAmong(uploads)
    /\ \A d \in ProcessedAmong(uploads) \ forgotten : items[d] = uploads[d].opt

\* A price that is not marked stale is that of the documents on the screen and of
\* the options they show there, once the timer of the last tap has fired: whatever
\* polls overlap and quotes come late.
ShownIsChosen == shown # 0 /\ ~quoting /\ ~timer => Fits(quotes[shown].items)

\* "confirming it would print something other than what the customer chose": the
\* quote that is confirmed is the one for what is on the screen.
ConfirmedIsChosen ==
    [][\A c \in Conn : Confirm(c) => quotes[shown].items = OptionsOf(uploads)]_vars
=============================================================================
