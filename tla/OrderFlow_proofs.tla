--------------------------- MODULE OrderFlow_proofs ---------------------------
(***************************************************************************)
(* Proofs about OrderFlow and the backend it is composed with, OrderIntake,*)
(* for any documents, options, connections and workers, any number of taps *)
(* and faults, and answers in any order.                                   *)
(*                                                                         *)
(*   TypeInv   the types, and what every request and answer is about       *)
(*             exists: what each step has is in TaskOK;                    *)
(*   Grown     what no step takes back, by which an answer that waits stays*)
(*             true while others are served;                               *)
(*   Orderly   what every step but the making of an order keeps, from which*)
(*             OneOrderPerQuote and OrderedStaysOrdered follow;            *)
(*   PriceInv  what the latest request for a price asks for, and what its  *)
(*             answer tells, from which ShownIsChosen follows.             *)
(***************************************************************************)
EXTENDS OrderFlow, SequenceTheorems, FiniteSetTheorems, TLAPS

\* f is a function on S: a record with these fields, a list, a map.
Map(f, S) == f = [x \in S |-> f[x]]
\* q is a list.
IsList(q) == \E n \in Nat : Map(q, 1 .. n)

\* Sessions are numbered, 0 is none: there are at most as many as documents.
Sessions == 0 .. Cardinality(Doc)

\* Documents; a page count, or a session, is of a document there is.
DocsOK ==
    /\ Map(status, Doc)
    /\ Map(session, Doc) /\ \A d \in Doc : session[d] \in Sessions
    /\ \A d \in Doc : session[d] # 0 => status[d] # "NONE"
    /\ \A d \in counted : d \in Doc /\ status[d] # "NONE"

\* Jobs and workers; a job is locked as long as a worker has to do with it.
JobsOK ==
    /\ Map(analysis, Doc)
    /\ \A d \in Doc :
          /\ Map(analysis[d], {"state", "made", "stalls", "lock"})
          /\ analysis[d].lock # 0 <=> analysis[d].state \in {"active", "failed", "mark"}
    /\ Map(run, Worker)
    /\ \A w \in Worker :
          /\ Map(run[w], {"step", "doc", "seen"})
          /\ run[w].step # "idle" => run[w].doc \in Doc
          /\ run[w].step = "start" => run[w].seen \in {"UPLOADED", "ANALYSIS_FAILED"}

\* Quotes are of documents with a page count, orders of quotes there are.
OrdersOK ==
    /\ IsList(quotes)
    /\ \A n \in DOMAIN quotes :
          /\ Map(quotes[n], {"items", "session", "used"})
          /\ \A d \in DOMAIN quotes[n].items : d \in counted
    /\ IsList(orders)
    /\ \A n \in DOMAIN orders :
          /\ Map(orders[n], {"quote", "status"})
          /\ orders[n].quote \in DOMAIN quotes
          /\ orders[n].status \in OrderStates

\* What the request or the answer on connection c is about is there.
TaskOK(c) ==
    LET t == task[c] IN
    /\ Map(t, {"step", "heard", "ok", "latest", "session", "doc", "no", "items"})
    /\ t.session \in Sessions
    /\ t.step \in {"upload", "store"} => t.doc \in Doc
    /\ t.step = "enqueue" \/ (t.step = "uploaded" /\ t.ok) => t.doc \in Doc /\ status[t.doc] # "NONE"
    /\ t.step = "list" => t.session # 0
    /\ t.step = "listed" => \A d \in DOMAIN t.items : d \in Doc /\ status[d] # "NONE"
    /\ t.step \in {"status", "eligible"} \cup OrderStates \/ (t.step = "confirmed" /\ t.ok)
          => t.no \in DOMAIN orders
    /\ t.step \in {"confirm", "admit", "order"} \/ (t.step = "quoted" /\ t.ok) => t.no \in DOMAIN quotes
    /\ t.step = "quote" => t.items # <<>>
    /\ t.step = "make" => \A d \in DOMAIN t.items : d \in counted

\* So with every connection.
TasksOK == Map(task, Conn) /\ \A c \in Conn : TaskOK(c)

\* An upload is of a new document, without a job, and of no other upload's.
Uploading == {"upload", "store", "enqueue"}
UploadsOK ==
    /\ \A d \in Doc : status[d] = "NONE" => analysis[d].state = "none"
    /\ \A c \in Conn : task[c].step \in Uploading => analysis[task[c].doc].state = "none"
    /\ \A c \in Conn : task[c].step \in {"upload", "store"} => status[task[c].doc] = "NONE"
    /\ \A b, c \in Conn :
          task[b].step \in Uploading /\ task[c].step \in Uploading /\ task[b].doc = task[c].doc => b = c

\* What the page shows, and what the browser keeps, is there.
PageOK ==
    /\ page \in {"upload", "review", "status"}
    /\ visit \in Sessions
    /\ Map(uploads, DOMAIN uploads)
    /\ \A d \in DOMAIN uploads :
          /\ d \in Doc /\ status[d] # "NONE"
          /\ Map(uploads[d], {"status", "opt"}) /\ uploads[d].opt \in Opt
    /\ shown \in {0} \cup DOMAIN quotes
    /\ job \in {0} \cup DOMAIN orders
    /\ twice \subseteq DOMAIN uploads /\ forgotten \subseteq Doc
    /\ page = "status" => job # 0
    /\ saved.session \in Sessions /\ saved.job \in {0} \cup DOMAIN orders

\* The inductive invariant on which the others rest.
TypeInv == DocsOK /\ JobsOK /\ OrdersOK /\ TasksOK /\ UploadsOK /\ PageOK

\* What no step takes back.
Grown ==
    /\ \A d \in counted : d \in counted'
    /\ \A n \in DOMAIN quotes : n \in DOMAIN quotes' /\ quotes'[n].items = quotes[n].items
    /\ \A n \in DOMAIN orders : n \in DOMAIN orders'
    /\ \A d \in Doc : status[d] # "NONE" => status'[d] # "NONE"

\* What every step does.
Kept == TypeInv' /\ Grown

\* No document is new, no job is made.
Calm == \A d \in Doc : /\ status[d] = "NONE" => status'[d] = "NONE"
                       /\ analysis[d].state = "none" => analysis'[d].state = "none"
-----------------------------------------------------------------------------
\* A list is a sequence of its elements.
LEMMA ListLen ==
    ASSUME NEW q, IsList(q)
    PROVE  /\ Len(q) \in Nat /\ DOMAIN q = 1 .. Len(q)
           /\ \E S : q \in Seq(S)
<1>1. PICK n \in Nat : DOMAIN q = 1 .. n /\ Map(q, 1 .. n)
  BY DEF IsList, Map
<1> DEFINE S == {q[k] : k \in 1 .. n}
<1>2. q \in [1 .. n -> S]
  BY <1>1 DEF Map
<1>3. q \in Seq(S)
  BY <1>2, SeqDef
<1> QED
  BY <1>1, <1>3, LenProperties

\* A list with one element more.
LEMMA ListAppend ==
    ASSUME NEW q, IsList(q), NEW v
    PROVE  /\ IsList(Append(q, v)) /\ DOMAIN Append(q, v) = 1 .. Len(q) + 1
           /\ \A n \in DOMAIN q : n \in DOMAIN Append(q, v) /\ Append(q, v)[n] = q[n]
           /\ Append(q, v)[Len(q) + 1] = v
           /\ \A n \in DOMAIN Append(q, v) : n \in DOMAIN q \/ n = Len(q) + 1
<1>1. PICK S : q \in Seq(S)
  BY ListLen
<1> DEFINE T == S \cup {v}
<1> DEFINE p == Append(q, v)
<1>2. q \in Seq(T) /\ v \in T
  BY <1>1, SeqMonotonic
<1> HIDE DEF T
<1>3. /\ p \in Seq(T) /\ Len(p) = Len(q) + 1
      /\ \A n \in 1 .. Len(q) : p[n] = q[n]
      /\ p[Len(q) + 1] = v
  BY <1>2, AppendProperties
<1>4. DOMAIN q = 1 .. Len(q) /\ Len(q) \in Nat
  BY ListLen
<1> HIDE DEF p
<1>5. p \in [1 .. Len(p) -> T] /\ DOMAIN p = 1 .. Len(p)
  BY <1>3, LenProperties
<1>6. IsList(p)
  <2>1. Len(p) \in Nat
    BY <1>3, <1>4
  <2> QED
    BY <1>5, <2>1 DEF IsList, Map
<1>7. DOMAIN p = 1 .. Len(q) + 1
  BY <1>3, <1>5
<1>8. \A n \in DOMAIN q : n \in DOMAIN p /\ p[n] = q[n]
  BY <1>3, <1>4, <1>7
<1>9. \A n \in DOMAIN p : n \in DOMAIN q \/ n = Len(q) + 1
  BY <1>4, <1>7
<1> QED
  BY <1>3, <1>6, <1>7, <1>8, <1>9 DEF p

\* A list with another element.
LEMMA ListExcept ==
    ASSUME NEW q, IsList(q), NEW n \in DOMAIN q, NEW v, NEW p, p = [q EXCEPT ![n] = v]
    PROVE  /\ IsList(p) /\ DOMAIN p = DOMAIN q /\ p[n] = v
           /\ \A m \in DOMAIN q : m # n => p[m] = q[m]
BY DEF IsList, Map

\* The files are finite in number, and so are the sessions.
LEMMA Sizes ==
    /\ Cardinality(Doc) \in Nat /\ 0 \in Sessions /\ NoDoc \notin Doc /\ 0 \notin Worker
    /\ Default \in Opt
BY IntakeAssumption, FlowAssumption, FS_CardinalityType DEF Sessions

\* The fields of no request.
LEMMA NoTaskFields ==
    /\ Map(NoTask, {"step", "heard", "ok", "latest", "session", "doc", "no", "items"})
    /\ NoTask.step = "idle" /\ NoTask.session = 0 /\ NoTask.heard /\ NoTask.ok /\ NoTask.latest
    /\ NoTask.no = 0 /\ NoTask.doc = NoDoc
BY DEF NoTask, Map

\* No request is about anything.
LEMMA NoTask_OK == ASSUME NEW c \in Conn, task'[c] = NoTask PROVE TaskOK(c)'
BY NoTaskFields, Sizes DEF TaskOK, OrderStates, Over

\* A request that a step leaves as it was, but for who hears it and whether it
\* is the latest.
LEMMA TaskStays ==
    ASSUME NEW c \in Conn, TaskOK(c), Grown,
           Map(task'[c], {"step", "heard", "ok", "latest", "session", "doc", "no", "items"}),
           task'[c].step = task[c].step, task'[c].ok = task[c].ok, task'[c].session = task[c].session,
           task'[c].doc = task[c].doc, task'[c].no = task[c].no, task'[c].items = task[c].items
    PROVE  TaskOK(c)'
BY DEF TaskOK, Grown

\* A step of the request on one connection.
LEMMA OneTask ==
    ASSUME TasksOK, Grown, NEW c \in Conn, NEW u, task' = [task EXCEPT ![c] = u],
           task'[c] = u => TaskOK(c)'
    PROVE  /\ TasksOK' /\ task'[c] = u /\ \A b \in Conn : b # c => task'[b] = task[b]
<1>1. task'[c] = u /\ Map(task', Conn) /\ \A b \in Conn : b # c => task'[b] = task[b]
  BY DEF TasksOK, Map
<1>2. ASSUME NEW b \in Conn, b # c PROVE TaskOK(b)'
  <2>1. task'[b] = task[b] /\ TaskOK(b)
    BY <1>1, <1>2 DEF TasksOK
  <2>2. Map(task[b], {"step", "heard", "ok", "latest", "session", "doc", "no", "items"})
    BY <2>1 DEF TaskOK
  <2> QED
    BY <2>1, <2>2, TaskStays
<1> QED
  BY <1>1, <1>2 DEF TasksOK

\* The uploads under way are as before, or fewer.
LEMMA UploadsStay ==
    ASSUME UploadsOK, TasksOK, Calm, Grown,
           \A b \in Conn : task'[b].step \in Uploading =>
              /\ task[b].step \in Uploading /\ task'[b].doc = task[b].doc
              /\ task'[b].step \in {"upload", "store"} => task[b].step \in {"upload", "store"}
    PROVE  UploadsOK'
<1>1. \A b \in Conn : task[b].step \in Uploading => task[b].doc \in Doc
  BY DEF TasksOK, TaskOK, Uploading
<1> QED
  BY <1>1 DEF UploadsOK, Calm, Grown, Uploading

\* A request that stays about what it is about.
Same(c) ==
    /\ Map(task'[c], {"step", "heard", "ok", "latest", "session", "doc", "no", "items"})
    /\ task'[c].step = task[c].step /\ task'[c].ok = task[c].ok /\ task'[c].session = task[c].session
    /\ task'[c].doc = task[c].doc /\ task'[c].no = task[c].no /\ task'[c].items = task[c].items

\* A step of the backend leaves the page alone.
LEMMA PageStays ==
    ASSUME PageOK, Grown, UNCHANGED <<formVars, priceVars, flags, job, taps>>
    PROVE  PageOK'
BY DEF PageOK, Grown, formVars, priceVars

\* A step of the browser leaves the backend alone.
LEMMA ServerStays ==
    ASSUME TypeInv, UNCHANGED serverVars
    PROVE  Grown /\ Calm /\ DocsOK' /\ JobsOK' /\ OrdersOK'
BY DEF TypeInv, DocsOK, JobsOK, OrdersOK, Grown, Calm, serverVars, docVars, jobVars, orderVars
-----------------------------------------------------------------------------
(***************************************************************************)
(* The backend: requests.                                                  *)
(***************************************************************************)
\* The variables of the page, and the fields of a request.
pageVars == <<formVars, priceVars, flags, job, taps>>
Fields == {"step", "heard", "ok", "latest", "session", "doc", "no", "items"}

\* A step of the request on connection c that leaves the uploads as they are.
LEMMA Request_Kept ==
    ASSUME TypeInv, UNCHANGED pageVars, Grown, Calm, DocsOK', JobsOK', OrdersOK',
           NEW c \in Conn, NEW u, task' = [task EXCEPT ![c] = u], task'[c] = u => TaskOK(c)',
           u.step \in Uploading => task[c].step = "upload" /\ u.step = "store" /\ u.doc = task[c].doc
    PROVE  Kept
<1>1. TasksOK' /\ task'[c] = u /\ \A b \in Conn : b # c => task'[b] = task[b]
  BY OneTask DEF TypeInv
<1>2. UploadsOK'
  BY <1>1, UploadsStay DEF TypeInv, Uploading
<1>3. PageOK'
  BY PageStays DEF TypeInv, pageVars
<1> QED
  BY <1>1, <1>2, <1>3 DEF Kept, TypeInv

\* The answer, or nothing.
LEMMA Reply_Is ==
    ASSUME NEW c \in Conn, NEW u, Reply(c, u)
    PROVE  \E v \in {u, NoTask} : task' = [task EXCEPT ![c] = v]
BY DEF Reply

\* The answer ends a request that is in order.
LEMMA Reply_Kept ==
    ASSUME TypeInv, UNCHANGED pageVars, Grown, Calm, DocsOK', JobsOK', OrdersOK',
           NEW c \in Conn, NEW u, Reply(c, u), task'[c] = u => TaskOK(c)', u.step \notin Uploading
    PROVE  Kept
<1>1. PICK v \in {u, NoTask} : task' = [task EXCEPT ![c] = v]
  BY Reply_Is
<1>2. task'[c] = v => TaskOK(c)'
  BY <1>1, NoTask_OK
<1>3. v.step \notin Uploading
  BY <1>1, NoTaskFields DEF Uploading
<1> QED
  BY <1>1, <1>2, <1>3, Request_Kept

\* A request that is refused, or fails.
LEMMA Refuse_Kept ==
    ASSUME TypeInv, UNCHANGED pageVars, Grown, Calm, DocsOK', JobsOK', OrdersOK',
           NEW c \in Conn, NEW name \in {"uploaded", "quoted", "confirmed"}, Refuse(c, name)
    PROVE  Kept
<1>0. PICK t : t = task[c]
  OBVIOUS
<1> DEFINE u == [t EXCEPT !.step = name, !.ok = FALSE]
<1>1. Map(t, Fields) /\ t.session \in Sessions
  BY <1>0 DEF TypeInv, TasksOK, TaskOK, Fields
<1>2. Map(u, Fields) /\ u.session = t.session /\ u.step = name /\ u.ok = FALSE
  BY <1>1 DEF Map, Fields
<1>3. Reply(c, u)
  BY <1>0 DEF Refuse
<1> HIDE DEF u
<1>4. task'[c] = u => TaskOK(c)'
  BY <1>1, <1>2 DEF TaskOK, OrderStates, Over, Fields
<1>5. u.step \notin Uploading
  BY <1>2 DEF Uploading
<1> QED
  BY <1>3, <1>4, <1>5, Reply_Kept

\* Requests that only read: they go on, are answered or refused.
LEMMA Reads_Kept ==
    ASSUME TypeInv, UNCHANGED pageVars, NEW c \in Conn,
           UploadGate(c) \/ ListDocuments(c) \/ ReadStatus(c) \/ QuoteCheck(c) \/ ConfirmCheck(c)
           \/ Admit(c) \/ RequestFails(c)
    PROVE  Kept
<1>0. PICK t : t = task[c]
  OBVIOUS
<1>1. Grown /\ Calm /\ DocsOK' /\ JobsOK' /\ OrdersOK'
  <2>1. UNCHANGED serverVars
    BY DEF UploadGate, ListDocuments, ReadStatus, QuoteCheck, ConfirmCheck, Admit, RequestFails, serverVars
  <2> QED
    BY <2>1, ServerStays
<1>2. Map(t, Fields) /\ t.session \in Sessions /\ TaskOK(c)
  BY <1>0 DEF TypeInv, TasksOK, TaskOK, Fields
<1>3. ASSUME NEW name \in {"uploaded", "quoted", "confirmed"}, Refuse(c, name) PROVE Kept
  BY <1>1, <1>3, Refuse_Kept
<1> DEFINE to(step) == [t EXCEPT !.step = step]
<1>4. ASSUME NEW step
      PROVE  /\ Map(to(step), Fields) /\ to(step).session = t.session /\ to(step).step = step
             /\ to(step).doc = t.doc /\ to(step).no = t.no /\ to(step).items = t.items /\ to(step).ok = t.ok
  BY <1>2 DEF Map, Fields
<1>5. ASSUME NEW step, Go(c, step) PROVE task' = [task EXCEPT ![c] = to(step)]
  BY <1>0, <1>5 DEF Go
<1> HIDE DEF to
<1>6. CASE t.step = "upload" /\ Go(c, "store")
  <2> DEFINE u == to("store")
  <2>1. /\ Map(u, Fields) /\ u.session = t.session /\ u.step = "store" /\ u.doc = t.doc
        /\ task' = [task EXCEPT ![c] = u]
    BY <1>4, <1>5, <1>6
  <2> HIDE DEF u
  <2>2. task'[c] = u => TaskOK(c)'
    BY <1>0, <1>2, <1>6, <2>1 DEF TaskOK, OrderStates, Over, Fields
  <2> QED
    BY <1>0, <1>1, <1>6, <2>1, <2>2, Request_Kept
<1>7. CASE t.step = "quote" /\ Go(c, "make") /\ \A d \in DOMAIN t.items : Quotable(c, d)
  <2> DEFINE u == to("make")
  <2>1. /\ Map(u, Fields) /\ u.session = t.session /\ u.step = "make" /\ u.items = t.items
        /\ task' = [task EXCEPT ![c] = u]
    BY <1>4, <1>5, <1>7
  <2>2. \A d \in DOMAIN t.items : d \in counted'
    BY <1>1, <1>7 DEF Quotable, Grown
  <2> HIDE DEF u
  <2>3. task'[c] = u => TaskOK(c)'
    BY <1>2, <2>1, <2>2 DEF TaskOK, OrderStates, Over, Fields
  <2> QED
    BY <1>1, <2>1, <2>3, Request_Kept DEF Uploading
<1>8. CASE (t.step = "confirm" /\ Go(c, "admit")) \/ (t.step = "admit" /\ Go(c, "order"))
  <2>1. PICK step \in {"admit", "order"} : Go(c, step)
    BY <1>8
  <2> DEFINE u == to(step)
  <2>2. /\ Map(u, Fields) /\ u.session = t.session /\ u.step = step /\ u.no = t.no
        /\ task' = [task EXCEPT ![c] = u]
    BY <1>4, <1>5, <2>1
  <2>3. t.no \in DOMAIN quotes'
    BY <1>0, <1>1, <1>2, <1>8 DEF TaskOK, Grown
  <2> HIDE DEF u
  <2>4. task'[c] = u => TaskOK(c)'
    BY <1>2, <2>1, <2>2, <2>3 DEF TaskOK, OrderStates, Over, Fields
  <2> QED
    BY <1>1, <2>1, <2>2, <2>4, Request_Kept DEF Uploading
<1>9. CASE ListDocuments(c)
  <2> DEFINE listed == {d \in Doc : session[d] = t.session}
  <2>0. PICK items : items = [d \in listed |-> status[d]]
    OBVIOUS
  <2> DEFINE u == [t EXCEPT !.step = "listed", !.items = items]
  <2>1. Reply(c, u) /\ t.step = "list"
    BY <1>0, <1>9, <2>0 DEF ListDocuments
  <2>2. Map(u, Fields) /\ u.session = t.session /\ u.step = "listed" /\ u.items = items
    BY <1>2 DEF Map, Fields
  <2>3. \A d \in DOMAIN items : d \in Doc /\ status'[d] # "NONE"
    BY <1>0, <1>1, <1>2, <2>0, <2>1 DEF TaskOK, TypeInv, DocsOK, Grown
  <2> HIDE DEF u
  <2>4. task'[c] = u => TaskOK(c)'
    BY <1>2, <2>2, <2>3 DEF TaskOK, OrderStates, Over, Fields
  <2> QED
    BY <1>1, <2>1, <2>2, <2>4, Reply_Kept DEF Uploading
<1>10. CASE ReadStatus(c)
  <2>0. PICK name : name = orders[t.no].status
    OBVIOUS
  <2>1. Reply(c, to(name)) /\ t.step = "status" /\ t.no \in DOMAIN orders
    BY <1>0, <1>2, <1>10, <2>0 DEF ReadStatus, Answer, TaskOK, to
  <2>2. name \in OrderStates
    BY <2>0, <2>1 DEF TypeInv, OrdersOK
  <2> DEFINE u == to(name)
  <2>3. Map(u, Fields) /\ u.session = t.session /\ u.step = name /\ u.no = t.no
    BY <1>4
  <2>4. t.no \in DOMAIN orders'
    BY <1>1, <2>1 DEF Grown
  <2> HIDE DEF u
  <2>5. task'[c] = u => TaskOK(c)'
    BY <1>2, <2>2, <2>3, <2>4 DEF TaskOK, OrderStates, Over, Fields
  <2> QED
    BY <1>1, <2>1, <2>2, <2>3, <2>5, Reply_Kept DEF Uploading, OrderStates, Over, u
<1>11. CASE RequestFails(c)
  <2>1. \E name \in {"uploaded", "quoted", "confirmed"} : Refuse(c, name)
    BY <1>11 DEF RequestFails
  <2> QED
    BY <1>3, <2>1
<1> QED
  BY <1>0, <1>3, <1>6, <1>7, <1>8, <1>9, <1>10, <1>11 DEF UploadGate, QuoteCheck, ConfirmCheck, Admit

\* There is a session left for a document without one.
LEMMA NewSession ==
    ASSUME DocsOK, NEW d \in Doc, session[d] = 0
    PROVE  1 + Cardinality({session[e] : e \in Doc} \ {0}) \in Sessions \ {0}
<1> DEFINE S == Doc \ {d}
           T == {session[e] : e \in S}
           f == [e \in S |-> session[e]]
           K == {session[e] : e \in Doc} \ {0}
<1>1. IsFiniteSet(Doc) /\ IsFiniteSet(S) /\ Cardinality(S) = Cardinality(Doc) - 1 /\ Cardinality(Doc) \in Nat
  BY IntakeAssumption, FS_RemoveElement, FS_CardinalityType
<1>2. f \in Surjection(S, T)
  BY DEF Surjection
<1>3. IsFiniteSet(T) /\ Cardinality(T) <= Cardinality(S)
  BY <1>1, <1>2, FS_Surjection
<1>4. K \subseteq T
  OBVIOUS
<1>5. IsFiniteSet(K) /\ Cardinality(K) <= Cardinality(T)
  BY <1>3, <1>4, FS_Subset
<1>6. Cardinality(K) \in Nat /\ Cardinality(T) \in Nat
  BY <1>3, <1>5, FS_CardinalityType
<1> QED
  BY <1>1, <1>3, <1>5, <1>6 DEF Sessions

\* A document is stored: it was new, and so its session was none.
LEMMA StoreDocument_Kept ==
    ASSUME TypeInv, UNCHANGED pageVars, NEW c \in Conn, StoreDocument(c)
    PROVE  Kept
<1>0. PICK t : t = task[c]
  OBVIOUS
<1>1. /\ Map(t, Fields) /\ t.session \in Sessions /\ t.step = "store" /\ t.doc \in Doc
      /\ status[t.doc] = "NONE" /\ analysis[t.doc].state = "none"
  BY <1>0 DEF TypeInv, TasksOK, TaskOK, Fields, StoreDocument, UploadsOK, Uploading
<1>2. session[t.doc] = 0
  BY <1>1 DEF TypeInv, DocsOK
<1>3. PICK s \in Sessions \ {0} :
         /\ status' = [status EXCEPT ![t.doc] = "UPLOADED"]
         /\ session' = [session EXCEPT ![t.doc] = s]
         /\ task' = [task EXCEPT ![c].step = "enqueue", ![c].session = s]
  BY <1>0, <1>1, <1>2, NewSession DEF StoreDocument, TypeInv
<1>4. UNCHANGED <<counted, jobVars, orderVars>>
  BY DEF StoreDocument
<1>5. DocsOK'
  BY <1>1, <1>3, <1>4 DEF TypeInv, DocsOK, Map
<1>6. JobsOK' /\ OrdersOK'
  BY <1>4 DEF TypeInv, JobsOK, OrdersOK, jobVars, orderVars
<1>7. Grown
  BY <1>1, <1>3, <1>4 DEF Grown, orderVars, TypeInv, DocsOK, Map
<1> DEFINE u == [t EXCEPT !.step = "enqueue", !.session = s]
<1>8. Map(u, Fields) /\ u.session = s /\ u.step = "enqueue" /\ u.doc = t.doc
  BY <1>1 DEF Map, Fields
<1>9. task' = [task EXCEPT ![c] = u]
  BY <1>0, <1>3 DEF TypeInv, TasksOK, Map
<1>10. status'[t.doc] = "UPLOADED" /\ \A d \in Doc : d # t.doc => status'[d] = status[d]
  BY <1>1, <1>3 DEF TypeInv, DocsOK, Map
<1> HIDE DEF u
<1>11. task'[c] = u => TaskOK(c)'
  BY <1>1, <1>3, <1>8, <1>10 DEF TaskOK, OrderStates, Over, Fields
<1>12. TasksOK' /\ task'[c] = u /\ \A b \in Conn : b # c => task'[b] = task[b]
  BY <1>7, <1>9, <1>11, OneTask DEF TypeInv
<1>13. UploadsOK'
  <2>1. \A b \in Conn : b # c /\ task[b].step \in Uploading => task[b].doc \in Doc /\ task[b].doc # t.doc
    BY <1>0, <1>1 DEF TypeInv, TasksOK, TaskOK, UploadsOK, Uploading
  <2>2. analysis' = analysis
    BY <1>4 DEF jobVars
  <2> QED
    BY <1>0, <1>1, <1>8, <1>10, <1>12, <2>1, <2>2 DEF TypeInv, UploadsOK, Uploading
<1>14. PageOK'
  BY <1>7, PageStays DEF TypeInv, pageVars
<1> QED
  BY <1>5, <1>6, <1>7, <1>12, <1>13, <1>14 DEF Kept, TypeInv

\* Its job is made: there was none.
LEMMA Enqueue_Kept ==
    ASSUME TypeInv, UNCHANGED pageVars, NEW c \in Conn, Enqueue(c)
    PROVE  Kept
<1>0. PICK t : t = task[c]
  OBVIOUS
<1>1. /\ Map(t, Fields) /\ t.session \in Sessions /\ t.step = "enqueue" /\ t.doc \in Doc
      /\ status[t.doc] # "NONE" /\ analysis[t.doc].state = "none"
  BY <1>0 DEF TypeInv, TasksOK, TaskOK, Fields, Enqueue, UploadsOK, Uploading
<1>2. UNCHANGED <<docVars, run, orderVars>>
  BY DEF Enqueue
<1> DEFINE j == [analysis[t.doc] EXCEPT !.state = "waiting"]
<1>3. PICK k : k = j
  OBVIOUS
<1>4. Map(k, {"state", "made", "stalls", "lock"}) /\ k.state = "waiting" /\ k.lock = 0
  <2>1. Map(analysis[t.doc], {"state", "made", "stalls", "lock"}) /\ analysis[t.doc].lock = 0
    BY <1>1 DEF TypeInv, JobsOK
  <2> QED
    BY <1>3, <2>1 DEF Map
<1>5. analysis' = [analysis EXCEPT ![t.doc] = k]
  BY <1>0, <1>3 DEF Enqueue
<1>6. /\ Map(analysis', Doc) /\ analysis'[t.doc] = k
      /\ \A d \in Doc : d # t.doc => analysis'[d] = analysis[d]
  BY <1>1, <1>5 DEF TypeInv, JobsOK, Map
<1>7. DocsOK' /\ OrdersOK' /\ Grown
  BY <1>2 DEF TypeInv, DocsOK, OrdersOK, Grown, docVars, orderVars
<1>8. JobsOK'
  BY <1>2, <1>4, <1>6 DEF TypeInv, JobsOK
<1> DEFINE a == [t EXCEPT !.step = "uploaded"]
<1>9. Map(a, Fields) /\ a.session = t.session /\ a.step = "uploaded" /\ a.doc = t.doc
  BY <1>1 DEF Map, Fields
<1>10. Reply(c, a)
  BY <1>0 DEF Enqueue, Answer
<1> HIDE DEF a
<1>11. PICK u \in {a, NoTask} : task' = [task EXCEPT ![c] = u]
  BY <1>10, Reply_Is
<1>12. status'[t.doc] # "NONE"
  BY <1>1, <1>7 DEF Grown
<1>13. task'[c] = a => TaskOK(c)'
  BY <1>1, <1>9, <1>12 DEF TaskOK, OrderStates, Over, Fields
<1>14. TasksOK' /\ task'[c] = u /\ \A b \in Conn : b # c => task'[b] = task[b]
  BY <1>7, <1>11, <1>13, NoTask_OK, OneTask DEF TypeInv
<1>15. UploadsOK'
  <2>1. \A b \in Conn : b # c /\ task[b].step \in Uploading => task[b].doc \in Doc /\ task[b].doc # t.doc
    BY <1>0, <1>1 DEF TypeInv, TasksOK, TaskOK, UploadsOK, Uploading
  <2>2. status' = status /\ u.step \notin Uploading
    BY <1>2, <1>9, <1>11, NoTaskFields DEF docVars, Uploading
  <2>3. \A b \in Conn : task'[b].step \in Uploading => b # c /\ task'[b] = task[b]
    BY <1>14, <2>2
  <2> QED
    BY <1>6, <1>12, <2>1, <2>2, <2>3 DEF TypeInv, UploadsOK, Uploading
<1>16. PageOK'
  BY <1>7, PageStays DEF TypeInv, pageVars
<1> QED
  BY <1>7, <1>8, <1>14, <1>15, <1>16 DEF Kept, TypeInv

\* A quote is of documents with a page count.
LEMMA MakeQuote_Kept ==
    ASSUME TypeInv, UNCHANGED pageVars, NEW c \in Conn, MakeQuote(c)
    PROVE  Kept
<1>0. PICK t : t = task[c]
  OBVIOUS
<1>1. /\ Map(t, Fields) /\ t.session \in Sessions /\ t.step = "make" /\ \A d \in DOMAIN t.items : d \in counted
  BY <1>0 DEF TypeInv, TasksOK, TaskOK, Fields, MakeQuote
<1>2. PICK q : q = [items |-> t.items, session |-> t.session, used |-> FALSE]
  OBVIOUS
<1>3. Map(q, {"items", "session", "used"}) /\ q.items = t.items
  BY <1>2 DEF Map
<1>4. quotes' = Append(quotes, q) /\ UNCHANGED <<docVars, jobVars, orders>>
  BY <1>0, <1>2 DEF MakeQuote
<1>5. /\ IsList(quotes') /\ Len(quotes) + 1 \in DOMAIN quotes' /\ quotes'[Len(quotes) + 1] = q
      /\ \A n \in DOMAIN quotes : n \in DOMAIN quotes' /\ quotes'[n] = quotes[n]
      /\ \A n \in DOMAIN quotes' : n \in DOMAIN quotes \/ n = Len(quotes) + 1
  BY <1>4, ListAppend, ListLen DEF TypeInv, OrdersOK
<1>6. Grown /\ Calm /\ DocsOK' /\ JobsOK'
  BY <1>4, <1>5 DEF Grown, Calm, TypeInv, DocsOK, JobsOK, docVars, jobVars
<1>7. OrdersOK'
  BY <1>1, <1>3, <1>4, <1>5 DEF TypeInv, OrdersOK, docVars
<1> DEFINE u == [t EXCEPT !.step = "quoted", !.no = Len(quotes) + 1, !.items = <<>>]
<1>8. PICK a : a = u
  OBVIOUS
<1>9. Map(a, Fields) /\ a.session = t.session /\ a.step = "quoted" /\ a.no = Len(quotes) + 1
  BY <1>1, <1>8 DEF Map, Fields
<1>10. Reply(c, a)
  BY <1>0, <1>8 DEF MakeQuote
<1>11. task'[c] = a => TaskOK(c)'
  BY <1>1, <1>5, <1>9 DEF TaskOK, OrderStates, Over, Fields
<1> QED
  BY <1>6, <1>7, <1>9, <1>10, <1>11, Reply_Kept DEF Uploading

\* The documents of a quote become those of an order.
LEMMA CreateOrder_Kept ==
    ASSUME TypeInv, UNCHANGED pageVars, NEW c \in Conn, CreateOrder(c)
    PROVE  Kept
<1>0. PICK t, n : t = task[c] /\ n = t.no
  OBVIOUS
<1>1. Map(t, Fields) /\ t.session \in Sessions /\ t.step = "order" /\ n \in DOMAIN quotes
  BY <1>0 DEF TypeInv, TasksOK, TaskOK, Fields, CreateOrder
<1>2. CASE Taken(n)
  <2>1. Refuse(c, "confirmed") /\ UNCHANGED serverVars
    BY <1>0, <1>2 DEF CreateOrder, serverVars, docVars, orderVars
  <2> QED
    BY <2>1, ServerStays, Refuse_Kept
<1>3. CASE ~Taken(n)
  <2>0. PICK o, q : /\ o = [quote |-> n, status |-> "CREATED"]
                    /\ q = [quotes[n] EXCEPT !.used = TRUE]
    OBVIOUS
  <2>1. /\ orders' = Append(orders, o)
        /\ quotes' = [quotes EXCEPT ![n] = q]
        /\ status' = [d \in Doc |-> IF d \in DOMAIN quotes[n].items THEN "PRINT_ELIGIBLE" ELSE status[d]]
        /\ task' = [task EXCEPT ![c].step = "eligible", ![c].no = Len(orders) + 1]
        /\ UNCHANGED <<session, counted, jobVars>>
    BY <1>0, <1>3, <2>0 DEF CreateOrder
  <2>2. /\ Map(o, {"quote", "status"}) /\ o.quote = n /\ o.status = "CREATED"
        /\ Map(q, {"items", "session", "used"}) /\ q.items = quotes[n].items
    BY <1>1, <2>0 DEF TypeInv, OrdersOK, Map
  <2>3. /\ IsList(orders') /\ Len(orders) + 1 \in DOMAIN orders' /\ orders'[Len(orders) + 1] = o
        /\ \A m \in DOMAIN orders : m \in DOMAIN orders' /\ orders'[m] = orders[m]
        /\ \A m \in DOMAIN orders' : m \in DOMAIN orders \/ m = Len(orders) + 1
    BY <2>1, ListAppend, ListLen DEF TypeInv, OrdersOK
  <2>4. /\ IsList(quotes') /\ DOMAIN quotes' = DOMAIN quotes /\ quotes'[n] = q
        /\ \A m \in DOMAIN quotes : m # n => quotes'[m] = quotes[m]
    BY <1>1, <2>1, ListExcept DEF TypeInv, OrdersOK
  <2>5. /\ Map(status', Doc)
        /\ \A d \in Doc : status'[d] = "NONE" <=> status[d] = "NONE"
    <3>1. \A d \in DOMAIN quotes[n].items : d \in Doc /\ status[d] # "NONE"
      BY <1>1 DEF TypeInv, OrdersOK, DocsOK
    <3> QED
      BY <2>1, <3>1 DEF Map
  <2>6. Grown /\ Calm
    BY <2>1, <2>2, <2>3, <2>4, <2>5 DEF Grown, Calm, jobVars
  <2>7. DocsOK' /\ JobsOK'
    BY <2>1, <2>5 DEF TypeInv, DocsOK, JobsOK, jobVars
  <2>8. OrdersOK'
    <3>1. "CREATED" \in OrderStates
      BY DEF OrderStates
    <3>2. \A m \in DOMAIN quotes' : /\ Map(quotes'[m], {"items", "session", "used"})
                                    /\ \A d \in DOMAIN quotes'[m].items : d \in counted'
      BY <1>1, <2>1, <2>2, <2>4 DEF TypeInv, OrdersOK
    <3>3. \A m \in DOMAIN orders' : /\ Map(orders'[m], {"quote", "status"})
                                    /\ orders'[m].quote \in DOMAIN quotes'
                                    /\ orders'[m].status \in OrderStates
      BY <1>1, <2>2, <2>3, <2>4, <3>1 DEF TypeInv, OrdersOK
    <3> QED
      BY <2>3, <2>4, <3>2, <3>3 DEF OrdersOK
  <2>9. PICK u : u = [t EXCEPT !.step = "eligible", !.no = Len(orders) + 1]
    OBVIOUS
  <2>10. Map(u, Fields) /\ u.session = t.session /\ u.step = "eligible" /\ u.no = Len(orders) + 1
    BY <1>1, <2>9 DEF Map, Fields
  <2>11. task' = [task EXCEPT ![c] = u]
    BY <1>0, <2>1, <2>9 DEF TypeInv, TasksOK, Map
  <2>12. task'[c] = u => TaskOK(c)'
    BY <1>1, <2>3, <2>10 DEF TaskOK, OrderStates, Over, Fields
  <2> QED
    BY <2>6, <2>7, <2>8, <2>10, <2>11, <2>12, Request_Kept DEF Uploading
<1> QED
  BY <1>2, <1>3

\* An order with another status.
LEMMA OrderWritten ==
    ASSUME TypeInv, NEW n \in DOMAIN orders, NEW name \in OrderStates,
           orders' = [orders EXCEPT ![n].status = name], UNCHANGED <<quotes, counted>>
    PROVE  /\ OrdersOK' /\ DOMAIN orders' = DOMAIN orders
           /\ \A m \in DOMAIN orders : orders'[m].quote = orders[m].quote
<1>1. PICK o : o = [orders[n] EXCEPT !.status = name]
  OBVIOUS
<1>2. orders' = [orders EXCEPT ![n] = o]
  BY <1>1
<1>3. Map(o, {"quote", "status"}) /\ o.quote = orders[n].quote /\ o.status = name
  BY <1>1 DEF TypeInv, OrdersOK, Map
<1>4. /\ IsList(orders') /\ DOMAIN orders' = DOMAIN orders /\ orders'[n] = o
      /\ \A m \in DOMAIN orders : m # n => orders'[m] = orders[m]
  <2>1. IsList(orders)
    BY DEF TypeInv, OrdersOK
  <2> QED
    BY <1>2, <2>1 DEF IsList, Map
<1> QED
  BY <1>3, <1>4 DEF TypeInv, OrdersOK

\* The order can be printed, and the customer is told.
LEMMA MakeEligible_Kept ==
    ASSUME TypeInv, UNCHANGED pageVars, NEW c \in Conn, MakeEligible(c)
    PROVE  Kept
<1>0. PICK t : t = task[c]
  OBVIOUS
<1>1. Map(t, Fields) /\ t.session \in Sessions /\ t.step = "eligible" /\ t.no \in DOMAIN orders
  BY <1>0 DEF TypeInv, TasksOK, TaskOK, Fields, MakeEligible
<1>2. /\ orders' = [orders EXCEPT ![t.no].status = "PRINT_ELIGIBLE"] /\ UNCHANGED <<docVars, jobVars, quotes>>
      /\ Reply(c, [t EXCEPT !.step = "confirmed"])
  BY <1>0 DEF MakeEligible, Answer
<1>3. "PRINT_ELIGIBLE" \in OrderStates
  BY DEF OrderStates
<1>4. OrdersOK' /\ DOMAIN orders' = DOMAIN orders
  BY <1>1, <1>2, <1>3, OrderWritten DEF docVars
<1>5. Grown /\ Calm /\ DocsOK' /\ JobsOK'
  BY <1>2, <1>4 DEF Grown, Calm, TypeInv, DocsOK, JobsOK, docVars, jobVars
<1>6. PICK a : a = [t EXCEPT !.step = "confirmed"]
  OBVIOUS
<1>7. Map(a, Fields) /\ a.session = t.session /\ a.step = "confirmed" /\ a.no = t.no
  BY <1>1, <1>6 DEF Map, Fields
<1>8. task'[c] = a => TaskOK(c)'
  BY <1>1, <1>4, <1>7 DEF TaskOK, OrderStates, Over, Fields
<1>9. Reply(c, a)
  BY <1>2, <1>6
<1> QED
  BY <1>4, <1>5, <1>7, <1>8, <1>9, Reply_Kept DEF Uploading

\* Every step of a request keeps the types.
LEMMA Handle_Kept ==
    ASSUME TypeInv, UNCHANGED pageVars, NEW c \in Conn, Handle(c) \/ RequestFails(c)
    PROVE  Kept
BY Reads_Kept, StoreDocument_Kept, Enqueue_Kept, MakeQuote_Kept, CreateOrder_Kept, MakeEligible_Kept DEF Handle
-----------------------------------------------------------------------------
(***************************************************************************)
(* The backend: analyses, and orders afterwards.                           *)
(***************************************************************************)
\* A step of the backend that no request takes.
LEMMA Server_Kept ==
    ASSUME TypeInv, UNCHANGED pageVars, UNCHANGED task, Grown, Calm, DocsOK', JobsOK', OrdersOK'
    PROVE  Kept
<1>1. \A c \in Conn : TaskOK(c)'
  <2> SUFFICES ASSUME NEW c \in Conn PROVE TaskOK(c)'
    OBVIOUS
  <2>1. TaskOK(c) /\ Map(task[c], {"step", "heard", "ok", "latest", "session", "doc", "no", "items"})
    BY DEF TypeInv, TasksOK, TaskOK
  <2> QED
    BY <2>1, TaskStays
<1>2. TasksOK'
  BY <1>1 DEF TypeInv, TasksOK
<1>3. UploadsOK'
  BY UploadsStay DEF TypeInv
<1>4. PageOK'
  BY PageStays DEF TypeInv, pageVars
<1> QED
  BY <1>2, <1>3, <1>4 DEF TypeInv, Kept

\* The status of a document that is there becomes another one.
LEMMA StatusWritten ==
    ASSUME TypeInv, NEW d \in Doc, NEW to, to # "NONE", status[d] # "NONE",
           status' = [status EXCEPT ![d] = to], session' = session,
           counted' = counted \/ counted' = counted \cup {d}
    PROVE  /\ DocsOK' /\ \A e \in Doc : status'[e] = "NONE" <=> status[e] = "NONE"
           /\ \A e \in counted : e \in counted'
BY DEF TypeInv, DocsOK, Map

\* Quotes and orders are as they were.
LEMMA OrdersStay ==
    ASSUME TypeInv, UNCHANGED orderVars, \A d \in counted : d \in counted',
           \A e \in Doc : status'[e] = "NONE" <=> status[e] = "NONE"
    PROVE  OrdersOK' /\ Grown
BY DEF TypeInv, OrdersOK, Grown, orderVars

\* No document is written.
LEMMA DocsStay ==
    ASSUME TypeInv, UNCHANGED docVars
    PROVE  /\ DocsOK' /\ \A e \in Doc : status'[e] = "NONE" <=> status[e] = "NONE"
           /\ \A e \in counted : e \in counted'
BY DEF TypeInv, DocsOK, docVars

\* A step of the analysis, which writes jobs and statuses.
LEMMA Analysis_Kept ==
    ASSUME TypeInv, UNCHANGED <<pageVars, task, orderVars>>, DocsOK', JobsOK',
           \A d \in counted : d \in counted',
           \A e \in Doc : status'[e] = "NONE" <=> status[e] = "NONE",
           \A d \in Doc : analysis[d].state = "none" => analysis'[d].state = "none"
    PROVE  Kept
<1>1. OrdersOK' /\ Grown
  BY OrdersStay
<1>2. Calm
  BY DEF Calm
<1> QED
  BY <1>1, <1>2, Server_Kept

\* The job of one document becomes another one.
LEMMA JobWritten ==
    ASSUME TypeInv, NEW d \in Doc, NEW j, analysis' = [analysis EXCEPT ![d] = j],
           Map(j, {"state", "made", "stalls", "lock"}), j.lock # 0 <=> j.state \in {"active", "failed", "mark"},
           analysis[d].state # "none"
    PROVE  /\ Map(analysis', Doc)
           /\ \A e \in Doc : /\ Map(analysis'[e], {"state", "made", "stalls", "lock"})
                             /\ analysis'[e].lock # 0 <=> analysis'[e].state \in {"active", "failed", "mark"}
           /\ \A e \in Doc : analysis[e].state = "none" => analysis'[e].state = "none"
<1>1. /\ Map(analysis', Doc) /\ analysis'[d] = j
      /\ \A e \in Doc : e # d => analysis'[e] = analysis[e]
  BY DEF TypeInv, JobsOK, Map
<1> QED
  BY <1>1 DEF TypeInv, JobsOK

\* A job whose lock is lost has none; it waits, or is lost.
LEMMA StalledIs ==
    ASSUME NEW a, Map(a, {"state", "made", "stalls", "lock"})
    PROVE  /\ Map(Stalled(a), {"state", "made", "stalls", "lock"})
           /\ Stalled(a).lock = 0 /\ Stalled(a).state \in {"waiting", "lost"}
BY DEF Stalled, Map

\* What one worker does becomes something else.
LEMMA RunWritten ==
    ASSUME TypeInv, NEW w \in Worker, NEW r, run' = [run EXCEPT ![w] = r],
           Map(r, {"step", "doc", "seen"}), r.step # "idle" => r.doc \in Doc,
           r.step = "start" => r.seen \in {"UPLOADED", "ANALYSIS_FAILED"}
    PROVE  /\ Map(run', Worker)
           /\ \A v \in Worker :
                 /\ Map(run'[v], {"step", "doc", "seen"})
                 /\ run'[v].step # "idle" => run'[v].doc \in Doc
                 /\ run'[v].step = "start" => run'[v].seen \in {"UPLOADED", "ANALYSIS_FAILED"}
<1>1. /\ Map(run', Worker) /\ run'[w] = r
      /\ \A v \in Worker : v # w => run'[v] = run[v]
  BY DEF TypeInv, JobsOK, Map
<1> QED
  BY <1>1 DEF TypeInv, JobsOK

\* The fields of no run.
LEMMA NoRunFields == Map(NoRun, {"step", "doc", "seen"}) /\ NoRun.step = "idle"
BY DEF NoRun, Map

\* A worker is done; the job is written if the worker still has it.
LEMMA Ends_Jobs ==
    ASSUME TypeInv, NEW w \in Worker, run[w].step # "idle",
           NEW state \in {"waiting", "failed", "over"}, NEW made, Ends(w, state, made)
    PROVE  JobsOK' /\ \A e \in Doc : analysis[e].state = "none" => analysis'[e].state = "none"
<1>0. PICK d \in Doc : d = run[w].doc
  BY DEF TypeInv, JobsOK
<1>1. PICK j : j = [analysis[d] EXCEPT !.state = state, !.made = made,
                                       !.lock = IF state = "failed" THEN w ELSE 0]
  OBVIOUS
<1>2. w # 0
  BY Sizes
<1>3. Map(j, {"state", "made", "stalls", "lock"}) /\ (j.lock # 0 <=> j.state \in {"active", "failed", "mark"})
  <2>1. Map(analysis[d], {"state", "made", "stalls", "lock"})
    BY DEF TypeInv, JobsOK
  <2>2. Map(j, {"state", "made", "stalls", "lock"}) /\ j.state = state /\ j.lock = IF state = "failed" THEN w ELSE 0
    BY <1>1, <2>1 DEF Map
  <2> QED
    BY <1>2, <2>2
<1>4. run' = [run EXCEPT ![w] = NoRun]
  BY DEF Ends
<1>5. \/ analysis' = analysis
      \/ analysis[d].state # "none" /\ analysis' = [analysis EXCEPT ![d] = j]
  BY <1>0, <1>1 DEF Ends, TypeInv, JobsOK, Map
<1>6. CASE analysis' = analysis
  BY <1>4, <1>6, NoRunFields, RunWritten DEF TypeInv, JobsOK
<1>7. CASE analysis[d].state # "none" /\ analysis' = [analysis EXCEPT ![d] = j]
  BY <1>3, <1>4, <1>7, NoRunFields, RunWritten, JobWritten DEF JobsOK
<1> QED
  BY <1>5, <1>6, <1>7

\* So it is whether the attempt completes or fails.
LEMMA Attempt_Jobs ==
    ASSUME TypeInv, NEW w \in Worker, run[w].step # "idle", Completes(w) \/ AttemptFails(w)
    PROVE  JobsOK' /\ \A e \in Doc : analysis[e].state = "none" => analysis'[e].state = "none"
<1>1. PICK state, made : state \in {"waiting", "failed", "over"} /\ Ends(w, state, made)
  BY DEF Completes, AttemptFails
<1> QED
  BY <1>1, Ends_Jobs

\* What a worker goes on with.
LEMMA Goes_Jobs ==
    ASSUME TypeInv, NEW w \in Worker, NEW r, run' = [run EXCEPT ![w] = r], UNCHANGED analysis,
           Map(r, {"step", "doc", "seen"}), r.step # "idle" => r.doc \in Doc,
           r.step = "start" => r.seen \in {"UPLOADED", "ANALYSIS_FAILED"}
    PROVE  JobsOK' /\ \A e \in Doc : analysis[e].state = "none" => analysis'[e].state = "none"
BY RunWritten DEF TypeInv, JobsOK

\* A worker takes a job.
LEMMA Take_Kept ==
    ASSUME TypeInv, UNCHANGED pageVars, NEW w \in Worker, NEW d \in Doc, Take(w, d)
    PROVE  Kept
<1>1. PICK r, j : /\ r = [step |-> "read", doc |-> d, seen |-> "NONE"]
                  /\ j = [analysis[d] EXCEPT !.state = "active", !.lock = w]
  OBVIOUS
<1>2. w # 0
  BY Sizes
<1>3. Map(j, {"state", "made", "stalls", "lock"}) /\ j.state = "active" /\ j.lock = w
  <2>1. Map(analysis[d], {"state", "made", "stalls", "lock"})
    BY DEF TypeInv, JobsOK
  <2> QED
    BY <1>1, <2>1 DEF Map
<1>4. Map(r, {"step", "doc", "seen"}) /\ r.step = "read" /\ r.doc = d
  BY <1>1 DEF Map
<1>5. /\ run' = [run EXCEPT ![w] = r] /\ analysis' = [analysis EXCEPT ![d] = j] /\ analysis[d].state = "waiting"
      /\ UNCHANGED <<docVars, orderVars, task>>
  BY <1>1 DEF Take, TypeInv, JobsOK, Map
<1>6. JobsOK' /\ \A e \in Doc : analysis[e].state = "none" => analysis'[e].state = "none"
  BY <1>2, <1>3, <1>4, <1>5, RunWritten, JobWritten DEF JobsOK
<1> QED
  BY <1>5, <1>6, DocsStay, Analysis_Kept

\* A worker reads the document, and goes on or is done.
LEMMA ReadDocument_Kept ==
    ASSUME TypeInv, UNCHANGED pageVars, NEW w \in Worker, ReadDocument(w)
    PROVE  Kept
<1>1. run[w].step = "read" /\ UNCHANGED <<docVars, orderVars, task>>
  BY DEF ReadDocument
<1>2. PICK d \in Doc : d = run[w].doc
  BY <1>1 DEF TypeInv, JobsOK
<1>3. JobsOK' /\ \A e \in Doc : analysis[e].state = "none" => analysis'[e].state = "none"
  <2>1. CASE Completes(w)
    BY <1>1, <2>1, Attempt_Jobs
  <2>2. CASE ~Completes(w)
    <3>1. PICK r : r = [run[w] EXCEPT !.step = IF status[d] = "PROCESSING" THEN "analyze" ELSE "start",
                                      !.seen = status[d]]
      OBVIOUS
    <3>2. /\ status[d] \in {"UPLOADED", "ANALYSIS_FAILED", "PROCESSING"}
          /\ run' = [run EXCEPT ![w] = r] /\ UNCHANGED analysis
      BY <1>2, <2>2, <3>1 DEF ReadDocument, TypeInv, JobsOK, Map
    <3>3. /\ Map(r, {"step", "doc", "seen"}) /\ r.doc = d /\ r.seen = status[d]
          /\ r.step = IF status[d] = "PROCESSING" THEN "analyze" ELSE "start"
      <4>1. Map(run[w], {"step", "doc", "seen"})
        BY DEF TypeInv, JobsOK
      <4> QED
        BY <1>2, <3>1, <4>1 DEF Map
    <3>4. r.step = "start" => r.seen \in {"UPLOADED", "ANALYSIS_FAILED"}
      BY <3>2, <3>3
    <3> QED
      BY <3>2, <3>3, <3>4, Goes_Jobs
  <2> QED
    BY <2>1, <2>2
<1> QED
  BY <1>1, <1>3, DocsStay, Analysis_Kept

\* A worker marks the document, or finds that another one has.
LEMMA StartProcessing_Kept ==
    ASSUME TypeInv, UNCHANGED pageVars, NEW w \in Worker, StartProcessing(w)
    PROVE  Kept
<1>1. run[w].step = "start" /\ UNCHANGED <<session, counted, orderVars, task>>
  BY DEF StartProcessing
<1>2. PICK d \in Doc : d = run[w].doc
  BY <1>1 DEF TypeInv, JobsOK
<1>3. run[w].seen \in {"UPLOADED", "ANALYSIS_FAILED"} /\ Map(run[w], {"step", "doc", "seen"})
  BY <1>1 DEF TypeInv, JobsOK
<1>4. CASE AttemptFails(w) /\ UNCHANGED status
  BY <1>1, <1>4, Attempt_Jobs, DocsStay, Analysis_Kept DEF docVars
<1>5. CASE Transition(d, run[w].seen, "PROCESSING") /\ run' = [run EXCEPT ![w].step = "analyze"] /\ UNCHANGED analysis
  <2>1. PICK r : r = [run[w] EXCEPT !.step = "analyze"]
    OBVIOUS
  <2>2. Map(r, {"step", "doc", "seen"}) /\ r.doc = d /\ r.step = "analyze"
    BY <1>2, <1>3, <2>1 DEF Map
  <2>3. run' = [run EXCEPT ![w] = r]
    BY <1>5, <2>1
  <2>4. JobsOK' /\ \A e \in Doc : analysis[e].state = "none" => analysis'[e].state = "none"
    BY <1>5, <2>2, <2>3, Goes_Jobs
  <2>5. status[d] # "NONE" /\ status' = [status EXCEPT ![d] = "PROCESSING"]
    BY <1>3, <1>5 DEF Transition
  <2> QED
    BY <1>1, <2>4, <2>5, StatusWritten, Analysis_Kept
<1> QED
  BY <1>2, <1>4, <1>5 DEF StartProcessing

\* The result is stored, or it comes too late, or there is none.
LEMMA StoreResult_Kept ==
    ASSUME TypeInv, UNCHANGED pageVars, NEW w \in Worker, StoreResult(w) \/ NoResult(w)
    PROVE  Kept
<1>1. run[w].step = "analyze" /\ UNCHANGED <<session, orderVars, task>>
  BY DEF StoreResult, NoResult, docVars
<1>2. PICK d \in Doc : d = run[w].doc
  BY <1>1 DEF TypeInv, JobsOK
<1>3. CASE AttemptFails(w) /\ UNCHANGED <<status, counted>>
  BY <1>1, <1>3, Attempt_Jobs, DocsStay, Analysis_Kept DEF docVars
<1>4. CASE Transition(d, "PROCESSING", "PROCESSED") /\ counted' = counted \cup {d} /\ Completes(w)
  <2>1. status[d] # "NONE" /\ status' = [status EXCEPT ![d] = "PROCESSED"]
    BY <1>4 DEF Transition
  <2> QED
    BY <1>1, <1>4, <2>1, Attempt_Jobs, StatusWritten, Analysis_Kept
<1> QED
  BY <1>2, <1>3, <1>4 DEF StoreResult, NoResult, docVars

\* The queue's own events: a job that failed is handled, a lock is lost.
LEMMA Job_Kept ==
    ASSUME TypeInv, UNCHANGED pageVars, NEW d \in Doc, OnFailed(d) \/ MarkFailed(d) \/ Stalls(d)
    PROVE  Kept
<1>1. Map(analysis[d], {"state", "made", "stalls", "lock"}) /\ (analysis[d].state = "failed" => analysis[d].lock # 0)
  BY DEF TypeInv, JobsOK
<1>2. UNCHANGED <<run, session, counted, orderVars, task>> /\ analysis[d].state # "none"
  BY DEF OnFailed, MarkFailed, Stalls, docVars
<1>3. PICK j : /\ analysis' = [analysis EXCEPT ![d] = j] /\ Map(j, {"state", "made", "stalls", "lock"})
               /\ j.lock # 0 <=> j.state \in {"active", "failed", "mark"}
  <2>1. PICK mark, over, again : /\ mark = [analysis[d] EXCEPT !.state = "mark"]
                                 /\ over = [analysis[d] EXCEPT !.state = "over", !.lock = 0]
                                 /\ again = Stalled(analysis[d])
    OBVIOUS
  <2>2. /\ Map(mark, {"state", "made", "stalls", "lock"}) /\ mark.state = "mark" /\ mark.lock = analysis[d].lock
        /\ Map(over, {"state", "made", "stalls", "lock"}) /\ over.state = "over" /\ over.lock = 0
        /\ Map(again, {"state", "made", "stalls", "lock"}) /\ again.lock = 0 /\ again.state \in {"waiting", "lost"}
    BY <1>1, <2>1, StalledIs DEF Map
  <2>3. \/ analysis[d].state = "failed" /\ analysis' = [analysis EXCEPT ![d] = mark]
        \/ analysis' = [analysis EXCEPT ![d] = over]
        \/ analysis' = [analysis EXCEPT ![d] = again]
    BY <2>1 DEF OnFailed, MarkFailed, Stalls, TypeInv, JobsOK, Map
  <2> QED
    BY <1>1, <2>2, <2>3
<1>4. JobsOK' /\ \A e \in Doc : analysis[e].state = "none" => analysis'[e].state = "none"
  <2>1. Map(run', Worker) /\ \A w \in Worker :
          /\ Map(run'[w], {"step", "doc", "seen"})
          /\ run'[w].step # "idle" => run'[w].doc \in Doc
          /\ run'[w].step = "start" => run'[w].seen \in {"UPLOADED", "ANALYSIS_FAILED"}
    BY <1>2 DEF TypeInv, JobsOK
  <2> QED
    BY <1>2, <1>3, <2>1, JobWritten DEF JobsOK
<1>5. CASE UNCHANGED status
  BY <1>2, <1>4, <1>5, DocsStay, Analysis_Kept DEF docVars
<1>6. CASE ~UNCHANGED status
  <2>1. status[d] # "NONE" /\ status' = [status EXCEPT ![d] = "ANALYSIS_FAILED"]
    BY <1>6 DEF OnFailed, MarkFailed, Stalls, docVars, Transition
  <2> QED
    BY <1>2, <1>4, <2>1, StatusWritten, Analysis_Kept
<1> QED
  BY <1>5, <1>6

\* A worker stops; its jobs wait, or are lost.
LEMMA WorkerStops_Kept ==
    ASSUME TypeInv, UNCHANGED pageVars, NEW w \in Worker, WorkerStops(w)
    PROVE  Kept
<1>1. UNCHANGED <<docVars, orderVars, task>> /\ run' = [run EXCEPT ![w] = NoRun]
  BY DEF WorkerStops
<1>2. analysis' = [d \in Doc |->
           IF analysis[d].lock # w THEN analysis[d]
           ELSE IF analysis[d].state = "active" THEN Stalled(analysis[d])
           ELSE [analysis[d] EXCEPT !.state = "lost", !.lock = 0]]
  BY DEF WorkerStops
<1>3. ASSUME NEW d \in Doc
      PROVE  /\ Map(analysis'[d], {"state", "made", "stalls", "lock"})
             /\ analysis'[d].lock # 0 <=> analysis'[d].state \in {"active", "failed", "mark"}
             /\ analysis[d].state = "none" => analysis'[d].state = "none"
  <2>1. /\ Map(analysis[d], {"state", "made", "stalls", "lock"})
        /\ analysis[d].lock # 0 <=> analysis[d].state \in {"active", "failed", "mark"}
    BY DEF TypeInv, JobsOK
  <2>2. CASE analysis[d].lock # w
    BY <1>2, <2>1, <2>2
  <2>3. CASE analysis[d].lock = w
    <3>1. analysis[d].lock # 0
      BY <2>3, Sizes
    <3>2. \/ analysis'[d] = Stalled(analysis[d])
          \/ analysis'[d] = [analysis[d] EXCEPT !.state = "lost", !.lock = 0]
      BY <1>2, <2>3
    <3>3. /\ Map(analysis'[d], {"state", "made", "stalls", "lock"})
          /\ analysis'[d].lock = 0 /\ analysis'[d].state \in {"waiting", "lost"}
      <4>1. PICK a, lost : a = analysis[d] /\ lost = [a EXCEPT !.state = "lost", !.lock = 0]
        OBVIOUS
      <4>2. Map(a, {"state", "made", "stalls", "lock"})
        BY <2>1, <4>1
      <4>3. Map(lost, {"state", "made", "stalls", "lock"}) /\ lost.lock = 0 /\ lost.state = "lost"
        BY <4>1, <4>2 DEF Map
      <4>4. /\ Map(Stalled(a), {"state", "made", "stalls", "lock"})
            /\ Stalled(a).lock = 0 /\ Stalled(a).state \in {"waiting", "lost"}
        BY <4>2, StalledIs
      <4> QED
        BY <3>2, <4>1, <4>3, <4>4
    <3> QED
      BY <2>1, <3>1, <3>3
  <2> QED
    BY <2>2, <2>3
<1>4. Map(analysis', Doc)
  BY <1>2 DEF Map
<1>5. JobsOK'
  BY <1>1, <1>3, <1>4, NoRunFields, RunWritten DEF JobsOK
<1> QED
  BY <1>1, <1>3, <1>5, DocsStay, Analysis_Kept

\* The order is printed, fails, or is swept with its documents.
LEMMA Printing_Kept ==
    ASSUME TypeInv, UNCHANGED pageVars, NEW n \in DOMAIN orders, Printed(n) \/ PrintFails(n) \/ Sweep(n)
    PROVE  Kept
<1>1. PICK name \in OrderStates : orders' = [orders EXCEPT ![n].status = name]
  BY DEF Printed, PrintFails, Sweep, OrderStates, Over
<1>2. UNCHANGED <<session, counted, jobVars, quotes, task>>
  BY DEF Printed, PrintFails, Sweep, docVars
<1>3. OrdersOK' /\ DOMAIN orders' = DOMAIN orders
  BY <1>1, <1>2, OrderWritten
<1>4. Map(status', Doc) /\ \A d \in Doc : status'[d] = "NONE" <=> status[d] = "NONE"
  <2>1. CASE UNCHANGED status
    BY <2>1 DEF TypeInv, DocsOK
  <2>2. CASE status' = [d \in Doc |-> IF d \in DOMAIN quotes[orders[n].quote].items THEN "DELETED" ELSE status[d]]
    <3>1. \A d \in DOMAIN quotes[orders[n].quote].items : d \in Doc /\ status[d] # "NONE"
      BY DEF TypeInv, OrdersOK, DocsOK
    <3> QED
      BY <2>2, <3>1 DEF Map
  <2> QED
    BY <2>1, <2>2 DEF Printed, PrintFails, Sweep, docVars
<1>5. Grown /\ Calm
  BY <1>2, <1>3, <1>4 DEF Grown, Calm, jobVars
<1>6. DocsOK' /\ JobsOK'
  BY <1>2, <1>4 DEF TypeInv, DocsOK, JobsOK, jobVars
<1> QED
  BY <1>2, <1>3, <1>5, <1>6, Server_Kept

\* Every step of the backend keeps the types.
LEMMA Backend_Kept == ASSUME TypeInv, UNCHANGED pageVars, Backend PROVE Kept
BY Handle_Kept, Take_Kept, ReadDocument_Kept, StartProcessing_Kept, StoreResult_Kept, Job_Kept,
   WorkerStops_Kept, Printing_Kept DEF Backend, WorkerStep
-----------------------------------------------------------------------------
(***************************************************************************)
(* The browser.                                                            *)
(***************************************************************************)
\* A step of the browser: every request is as it was, or a new one that is in order.
LEMMA Browser_Kept ==
    ASSUME TypeInv, UNCHANGED serverVars, Map(task', Conn), PageOK',
           \A b \in Conn : Same(b) \/ (TaskOK(b)' /\ task'[b].step \notin Uploading)
    PROVE  Kept
<1>1. Grown /\ Calm /\ DocsOK' /\ JobsOK' /\ OrdersOK'
  BY ServerStays
<1>2. TasksOK'
  <2> SUFFICES ASSUME NEW b \in Conn, Same(b) PROVE TaskOK(b)'
    BY DEF TasksOK
  <2>1. TaskOK(b)
    BY DEF TypeInv, TasksOK
  <2> QED
    BY <1>1, <2>1, TaskStays DEF Same
<1>3. UploadsOK'
  BY <1>1, UploadsStay DEF TypeInv, Same
<1> QED
  BY <1>1, <1>2, <1>3 DEF Kept, TypeInv

\* One connection has an answer taken or a request sent.
LEMMA OneSame ==
    ASSUME TypeInv, NEW c \in Conn, NEW u, task' = [task EXCEPT ![c] = u]
    PROVE  Map(task', Conn) /\ task'[c] = u /\ \A b \in Conn : b # c => Same(b) /\ task'[b] = task[b]
<1>1. Map(task', Conn) /\ task'[c] = u /\ \A b \in Conn : b # c => task'[b] = task[b]
  BY DEF TypeInv, TasksOK, Map
<1> QED
  BY <1>1 DEF TypeInv, TasksOK, TaskOK, Same

\* A request that is not the latest any more is the same otherwise.
LEMMA OutdatedSame ==
    ASSUME TypeInv
    PROVE  /\ Map(Outdated, Conn)
           /\ \A b \in Conn : LET t == Outdated[b] IN
                 /\ Map(t, Fields) /\ t.heard = task[b].heard
                 /\ t.step = task[b].step /\ t.ok = task[b].ok /\ t.session = task[b].session
                 /\ t.doc = task[b].doc /\ t.no = task[b].no /\ t.items = task[b].items
                 /\ t.latest = (task[b].latest /\ task[b].step \notin {"quote", "make", "quoted"})
<1>1. Map(Outdated, Conn)
  BY DEF Outdated, Map
<1>2. ASSUME NEW b \in Conn
      PROVE  LET t == Outdated[b] IN
                 /\ Map(t, Fields) /\ t.heard = task[b].heard
                 /\ t.step = task[b].step /\ t.ok = task[b].ok /\ t.session = task[b].session
                 /\ t.doc = task[b].doc /\ t.no = task[b].no /\ t.items = task[b].items
                 /\ t.latest = (task[b].latest /\ task[b].step \notin {"quote", "make", "quoted"})
  <2>1. Map(task[b], Fields)
    BY DEF TypeInv, TasksOK, TaskOK, Fields
  <2>2. Outdated[b] = [task[b] EXCEPT !.latest = @ /\ task[b].step \notin {"quote", "make", "quoted"}]
    BY DEF Outdated
  <2> QED
    BY <2>1, <2>2 DEF Map, Fields
<1> QED
  BY <1>1, <1>2

\* The fields of a request of the page.
LEMMA RequestFields ==
    ASSUME NEW step
    PROVE  /\ Map(Request(step), Fields) /\ Request(step).step = step /\ Request(step).session = visit
           /\ Request(step).heard /\ Request(step).ok /\ Request(step).no = 0
BY NoTaskFields DEF Request, Map, Fields

\* A price is asked for, or there is nothing to ask for.
LEMMA Recalculate_Is ==
    ASSUME TypeInv, NEW c \in Conn, NEW list, NEW s \in Sessions, Recalculate(c, list, s)
    PROVE  /\ Map(task', Conn) /\ \A b \in Conn : b # c => Same(b) /\ task'[b] = Outdated[b]
           /\ TaskOK(c)' /\ task'[c].step \notin Uploading /\ forgotten' = {}
           /\ \/ shown' = 0 /\ quoting' = FALSE /\ task'[c] = NoTask
              \/ /\ quoting' = TRUE /\ shown' = shown
                 /\ task'[c].step = "quote" /\ task'[c].items = OptionsOf(list)
<1>1. PICK u : u = [NoTask EXCEPT !.step = "quote", !.session = s, !.items = OptionsOf(list)]
  OBVIOUS
<1>2. Map(u, Fields) /\ u.step = "quote" /\ u.session = s /\ u.items = OptionsOf(list)
  BY <1>1, NoTaskFields DEF Map, Fields
<1>3. PICK v \in {u, NoTask} : /\ task' = [Outdated EXCEPT ![c] = v]
                              /\ \/ shown' = 0 /\ quoting' = FALSE /\ v = NoTask
                                 \/ quoting' = TRUE /\ shown' = shown /\ v = u /\ ProcessedAmong(list) # {}
  BY <1>1 DEF Recalculate
<1>4. Map(task', Conn) /\ task'[c] = v /\ \A b \in Conn : b # c => task'[b] = Outdated[b]
  BY <1>3, OutdatedSame DEF Map
<1>5. \A b \in Conn : b # c => Same(b)
  BY <1>4, OutdatedSame DEF Same, Fields
<1>6. TaskOK(c)'
  <2>1. CASE v = NoTask
    BY <1>4, <2>1, NoTask_OK
  <2>2. CASE v = u /\ ProcessedAmong(list) # {}
    <3>1. OptionsOf(list) # <<>>
      <4>1. DOMAIN OptionsOf(list) = ProcessedAmong(list)
        BY DEF OptionsOf
      <4>2. DOMAIN <<>> = {}
        OBVIOUS
      <4> QED
        BY <2>2, <4>1, <4>2
    <3> QED
      BY <1>2, <1>4, <2>2, <3>1 DEF TaskOK, OrderStates, Over, Fields
  <2> QED
    BY <1>3, <2>1, <2>2
<1>7. v.step \notin Uploading
  BY <1>2, <1>3, NoTaskFields DEF Uploading
<1>8. forgotten' = {}
  BY DEF Recalculate
<1> QED
  BY <1>2, <1>3, <1>4, <1>5, <1>6, <1>7, <1>8

\* The page with another list of documents.
IsForm(list) ==
    /\ Map(list, DOMAIN list)
    /\ \A d \in DOMAIN list :
          /\ d \in Doc /\ status[d] # "NONE"
          /\ Map(list[d], {"status", "opt"}) /\ list[d].opt \in Opt

\* What a restart or a reload leaves.
LEMMA Blank_Page ==
    ASSUME PageOK, UNCHANGED serverVars, page' = "upload", visit' = 0, uploads' = <<>>, shown' = 0, job' = 0,
           twice' = {}, forgotten' = {}, saved' \in {saved, Nothing}
    PROVE  PageOK'
<1>1. Nothing.session = 0 /\ Nothing.job = 0
  BY DEF Nothing
<1>2. DOMAIN uploads' = {} /\ Map(uploads', DOMAIN uploads')
  BY DEF Map
<1>3. saved'.session \in Sessions /\ saved'.job \in {0} \cup DOMAIN orders
  BY <1>1, Sizes DEF PageOK
<1>4. orders' = orders
  BY DEF serverVars, orderVars
<1> QED
  BY <1>2, <1>3, <1>4, Sizes DEF PageOK

\* A document is chosen: one that is new, and no other upload's.
LEMMA ChooseFile_Kept ==
    ASSUME TypeInv, NEW c \in Conn, NEW d \in Doc, ChooseFile(c, d)
    PROVE  Kept
<1>1. PICK u : u = [Request("upload") EXCEPT !.doc = d]
  OBVIOUS
<1>2. Map(u, Fields) /\ u.step = "upload" /\ u.session = visit /\ u.doc = d
  BY <1>1, RequestFields DEF Map, Fields
<1>3. /\ task' = [task EXCEPT ![c] = u] /\ status[d] = "NONE" /\ \A b \in Conn : task[b].doc # d
      /\ UNCHANGED <<serverVars, formVars, priceVars, job>>
  BY <1>1 DEF ChooseFile
<1>4. Map(task', Conn) /\ task'[c] = u /\ \A b \in Conn : b # c => Same(b) /\ task'[b] = task[b]
  BY <1>3, OneSame
<1>5. Grown /\ Calm /\ DocsOK' /\ JobsOK' /\ OrdersOK' /\ UNCHANGED <<status, analysis>>
  BY <1>3, ServerStays DEF serverVars, docVars, jobVars
<1>6. visit \in Sessions
  BY DEF TypeInv, PageOK
<1>7. TaskOK(c)'
  BY <1>2, <1>4, <1>6 DEF TaskOK, OrderStates, Over, Fields
<1>8. TasksOK'
  BY <1>3, <1>5, <1>7, OneTask DEF TypeInv
<1>9. UploadsOK'
  BY <1>2, <1>3, <1>4, <1>5 DEF TypeInv, UploadsOK, Uploading
<1>10. PageOK'
  BY <1>3, <1>5 DEF TypeInv, PageOK, formVars, priceVars, serverVars, orderVars
<1> QED
  BY <1>5, <1>8, <1>9, <1>10 DEF Kept, TypeInv

\* The answer to an upload: the document is on the page, in the session it got.
LEMMA Uploaded_Kept ==
    ASSUME TypeInv, NEW c \in Conn, Uploaded(c)
    PROVE  Kept
<1>0. PICK t : t = task[c]
  OBVIOUS
<1>1. TaskOK(c) /\ t.session \in Sessions /\ t.step = "uploaded"
  BY <1>0 DEF TypeInv, TasksOK, TaskOK, Uploaded
<1>2. PICK list, s :
        /\ list = IF t.ok THEN [d \in DOMAIN uploads \cup {t.doc} |->
                                  IF d \in DOMAIN uploads THEN uploads[d] ELSE [status |-> "UPLOADED", opt |-> Default]]
                  ELSE uploads
        /\ s = IF t.ok THEN t.session ELSE visit
  OBVIOUS
<1>3. /\ uploads' = list /\ visit' = s /\ Recalculate(c, list, s)
      /\ saved' = IF t.ok THEN [session |-> s, job |-> job] ELSE saved
      /\ twice' = IF t.ok THEN twice \cup ({t.doc} \cap DOMAIN uploads) ELSE twice
      /\ UNCHANGED <<serverVars, page, job>>
  BY <1>0, <1>2 DEF Uploaded
<1>4. s \in Sessions
  BY <1>1, <1>2 DEF TypeInv, PageOK
<1>5. IsForm(list)
  <2>1. CASE t.ok
    <3>1. t.doc \in Doc /\ status[t.doc] # "NONE"
      BY <1>0, <1>1, <2>1 DEF TaskOK
    <3>2. PICK card : card = [status |-> "UPLOADED", opt |-> Default]
      OBVIOUS
    <3>3. Map(card, {"status", "opt"}) /\ card.opt \in Opt
      BY <3>2, Sizes DEF Map
    <3>4. list = [d \in DOMAIN uploads \cup {t.doc} |-> IF d \in DOMAIN uploads THEN uploads[d] ELSE card]
      BY <1>2, <2>1, <3>2
    <3>5. DOMAIN list = DOMAIN uploads \cup {t.doc} /\ Map(list, DOMAIN list)
      BY <3>4 DEF Map
    <3>6. \A d \in DOMAIN list : list[d] = IF d \in DOMAIN uploads THEN uploads[d] ELSE card
      BY <3>4
    <3> QED
      BY <3>1, <3>3, <3>5, <3>6 DEF IsForm, TypeInv, PageOK
  <2>2. CASE ~t.ok
    BY <1>2, <2>2 DEF IsForm, TypeInv, PageOK
  <2> QED
    BY <2>1, <2>2
<1>6. /\ Map(task', Conn) /\ \A b \in Conn : Same(b) \/ (TaskOK(b)' /\ task'[b].step \notin Uploading)
      /\ shown' \in {0, shown} /\ forgotten' = {}
  BY <1>3, <1>4, Recalculate_Is
<1>9. twice' \subseteq DOMAIN uploads'
  BY <1>2, <1>3 DEF TypeInv, PageOK
<1>7. saved'.session \in Sessions /\ saved'.job \in {0} \cup DOMAIN orders
  BY <1>3, <1>4 DEF TypeInv, PageOK
<1>8. PageOK'
  BY <1>3, <1>4, <1>5, <1>6, <1>7, <1>9
     DEF TypeInv, PageOK, IsForm, serverVars, docVars, orderVars
<1> QED
  BY <1>3, <1>6, <1>8, Browser_Kept

\* The list of a session becomes the page's.
LEMMA Merge_Is ==
    ASSUME TypeInv, NEW c \in Conn, NEW docs, NEW s \in Sessions, Merge(c, docs, s),
           \A d \in DOMAIN docs : d \in Doc /\ status[d] # "NONE"
    PROVE  /\ IsForm(uploads') /\ shown' \in {0, shown} /\ twice' = {} /\ forgotten' \subseteq Doc
           /\ Map(task', Conn) /\ \A b \in Conn : Same(b) \/ (TaskOK(b)' /\ task'[b].step \notin Uploading)
<1>1. PICK list :
        list = [d \in DOMAIN docs |->
                  [status |-> docs[d],
                   opt |-> IF d \in DOMAIN uploads \ twice THEN uploads[d].opt ELSE Default]]
  OBVIOUS
<1>2. /\ uploads' = list /\ twice' = {}
      /\ \/ Recalculate(c, list, s)
         \/ /\ task' = [task EXCEPT ![c] = NoTask] /\ UNCHANGED <<shown, quoting, timer>>
            /\ forgotten' = forgotten \cup {d \in twice : uploads[d].opt # Default}
  BY <1>1 DEF Merge
<1>6. forgotten' \subseteq Doc
  <2>1. CASE Recalculate(c, list, s)
    BY <2>1 DEF Recalculate
  <2>2. CASE forgotten' = forgotten \cup {d \in twice : uploads[d].opt # Default}
    BY <2>2 DEF TypeInv, PageOK
  <2> QED
    BY <1>2, <2>1, <2>2
<1>3. IsForm(list)
  <2>1. ASSUME NEW d \in DOMAIN docs PROVE Map(list[d], {"status", "opt"}) /\ list[d].opt \in Opt
    <3>1. list[d] = [status |-> docs[d],
                   opt |-> IF d \in DOMAIN uploads \ twice THEN uploads[d].opt ELSE Default]
      BY <1>1
    <3>2. list[d].opt \in Opt
      BY <3>1, Sizes DEF TypeInv, PageOK
    <3> QED
      BY <3>1, <3>2 DEF Map
  <2>2. DOMAIN list = DOMAIN docs /\ Map(list, DOMAIN list)
    BY <1>1 DEF Map
  <2> QED
    BY <2>1, <2>2 DEF IsForm
<1>4. CASE Recalculate(c, list, s)
  BY <1>2, <1>3, <1>4, <1>6, Recalculate_Is
<1>5. CASE task' = [task EXCEPT ![c] = NoTask] /\ UNCHANGED <<shown, quoting, timer>>
  <2>1. Map(task', Conn) /\ task'[c] = NoTask /\ \A b \in Conn : b # c => Same(b)
    BY <1>5, OneSame
  <2>2. TaskOK(c)' /\ NoTask.step \notin Uploading
    BY <2>1, NoTask_OK, NoTaskFields DEF Uploading
  <2> QED
    BY <1>2, <1>3, <1>5, <1>6, <2>1, <2>2
<1> QED
  BY <1>2, <1>4, <1>5

\* The answer to a poll, or of a session restored.
LEMMA Listed_Kept ==
    ASSUME TypeInv, NEW c \in Conn, Listed(c)
    PROVE  Kept
<1>1. /\ task[c].session \in Sessions
      /\ \A d \in DOMAIN task[c].items : d \in Doc /\ status[d] # "NONE"
  BY DEF TypeInv, TasksOK, TaskOK, Listed
<1>2. PICK s \in Sessions : Merge(c, task[c].items, s) /\ visit' \in {visit, s}
  BY <1>1 DEF Listed, TypeInv, PageOK
<1>3. /\ IsForm(uploads') /\ shown' \in {0, shown} /\ twice' = {} /\ forgotten' \subseteq Doc
      /\ Map(task', Conn) /\ \A b \in Conn : Same(b) \/ (TaskOK(b)' /\ task'[b].step \notin Uploading)
  BY <1>1, <1>2, Merge_Is
<1>4. UNCHANGED <<serverVars, page, saved, job>>
  BY DEF Listed
<1>5. PageOK'
  BY <1>2, <1>3, <1>4 DEF TypeInv, PageOK, IsForm, serverVars, docVars, orderVars
<1> QED
  BY <1>3, <1>4, <1>5, Browser_Kept

\* A step of one connection that takes its answer, or sends a request in order.
LEMMA Sends_Kept ==
    ASSUME TypeInv, NEW c \in Conn, NEW u, task' = [task EXCEPT ![c] = u], UNCHANGED serverVars, PageOK',
           task'[c] = u => TaskOK(c)', u.step \notin Uploading
    PROVE  Kept
<1>1. Map(task', Conn) /\ task'[c] = u /\ \A b \in Conn : b # c => Same(b)
  BY OneSame
<1> QED
  BY <1>1, Browser_Kept

\* The page is as it was, or has another quote.
LEMMA Page_Same ==
    ASSUME PageOK, UNCHANGED <<serverVars, formVars, job>>, shown' \in {0} \cup DOMAIN quotes,
           forgotten' \in {forgotten, {}}
    PROVE  PageOK'
BY DEF PageOK, serverVars, docVars, orderVars, formVars

\* The requests of the page: its files, its price, its order.
LEMMA Requests_Kept ==
    ASSUME TypeInv, NEW c \in Conn, Poll(c) \/ Confirm(c) \/ Track(c)
    PROVE  Kept
<1>0. PageOK
  BY DEF TypeInv
<1>1. UNCHANGED serverVars /\ PageOK'
  BY <1>0, Page_Same DEF Poll, Confirm, Track, priceVars, PageOK
<1>2. CASE Poll(c)
  <2>1. PICK u : u = Request("list")
    OBVIOUS
  <2>2. task' = [task EXCEPT ![c] = u] /\ visit # 0 /\ visit \in Sessions
    BY <1>0, <1>2, <2>1 DEF Poll, PageOK
  <2>3. Map(u, Fields) /\ u.step = "list" /\ u.session = visit
    BY <2>1, RequestFields
  <2>4. task'[c] = u => TaskOK(c)'
    BY <2>2, <2>3 DEF TaskOK, OrderStates, Over, Fields
  <2> QED
    BY <1>1, <2>2, <2>3, <2>4, Sends_Kept DEF Uploading
<1>3. CASE Confirm(c)
  <2>1. PICK u : u = [Request("confirm") EXCEPT !.no = shown]
    OBVIOUS
  <2>2. task' = [task EXCEPT ![c] = u] /\ shown \in DOMAIN quotes /\ visit \in Sessions
    BY <1>0, <1>3, <2>1 DEF Confirm, PageOK
  <2>3. Map(u, Fields) /\ u.step = "confirm" /\ u.session = visit /\ u.no = shown
    BY <2>1, RequestFields DEF Map, Fields
  <2>4. shown \in DOMAIN quotes'
    BY <1>1, <2>2 DEF serverVars, orderVars
  <2>5. task'[c] = u => TaskOK(c)'
    BY <2>2, <2>3, <2>4 DEF TaskOK, OrderStates, Over, Fields
  <2> QED
    BY <1>1, <2>2, <2>3, <2>5, Sends_Kept DEF Uploading
<1>4. CASE Track(c)
  <2>1. PICK u : u = [Request("status") EXCEPT !.no = job]
    OBVIOUS
  <2>2. task' = [task EXCEPT ![c] = u] /\ job \in DOMAIN orders /\ visit \in Sessions
    BY <1>0, <1>4, <2>1 DEF Track, PageOK
  <2>3. Map(u, Fields) /\ u.step = "status" /\ u.session = visit /\ u.no = job
    BY <2>1, RequestFields DEF Map, Fields
  <2>4. job \in DOMAIN orders'
    BY <1>1, <2>2 DEF serverVars, orderVars
  <2>5. task'[c] = u => TaskOK(c)'
    BY <2>2, <2>3, <2>4 DEF TaskOK, OrderStates, Over, Fields
  <2> QED
    BY <1>1, <2>2, <2>3, <2>5, Sends_Kept DEF Uploading
<1> QED
  BY <1>2, <1>3, <1>4

\* An answer is taken, and the connection is free.
LEMMA Answers_Kept ==
    ASSUME TypeInv, NEW c \in Conn, Quoted(c) \/ Confirmed(c) \/ Tracked(c) \/ AskBreaks(c)
    PROVE  Kept
<1>0. PageOK /\ TaskOK(c)
  BY DEF TypeInv, TasksOK
<1>1. UNCHANGED serverVars /\ task' = [task EXCEPT ![c] = NoTask]
  BY DEF Quoted, Confirmed, Tracked, AskBreaks
<1>2. Nothing.session \in Sessions /\ Nothing.job = 0
  BY Sizes DEF Nothing
<1>3. CASE Quoted(c)
  <2>1. shown' \in {0} \cup DOMAIN quotes
    BY <1>0, <1>3 DEF Quoted, PageOK, TaskOK
  <2>2. PageOK'
    BY <1>0, <1>1, <1>3, <2>1, Page_Same DEF Quoted
  <2> QED
    BY <1>1, <2>2, NoTask_OK, NoTaskFields, Sends_Kept DEF Uploading
<1>4. CASE Confirmed(c)
  <2>1. CASE task[c].ok
    <3>0. PICK n : n = task[c].no
      OBVIOUS
    <3>1. n \in DOMAIN orders
      BY <1>0, <1>4, <2>1, <3>0 DEF Confirmed, TaskOK
    <3>2. /\ job' = n /\ page' = "status"
          /\ saved' = IF visit # 0 THEN [session |-> visit, job |-> n] ELSE saved
          /\ UNCHANGED <<visit, uploads, twice, shown, forgotten>>
      BY <1>4, <2>1, <3>0 DEF Confirmed, priceVars
    <3>3. n # 0
      BY <3>1, ListLen DEF TypeInv, OrdersOK
    <3>4. saved'.session \in Sessions /\ saved'.job \in {0} \cup DOMAIN orders
      BY <1>0, <3>1, <3>2 DEF PageOK
    <3>5. PageOK'
      BY <1>0, <1>1, <3>1, <3>2, <3>3, <3>4 DEF PageOK, serverVars, docVars, orderVars
    <3> QED
      BY <1>1, <3>5, NoTask_OK, NoTaskFields, Sends_Kept DEF Uploading
  <2>2. CASE ~task[c].ok
    <3>1. UNCHANGED <<formVars, shown, forgotten, job>>
      BY <1>4, <2>2 DEF Confirmed, formVars, priceVars
    <3>2. PageOK'
      BY <1>0, <1>1, <3>1, Page_Same DEF PageOK
    <3> QED
      BY <1>1, <3>2, NoTask_OK, NoTaskFields, Sends_Kept DEF Uploading
  <2> QED
    BY <2>1, <2>2
<1>5. CASE Tracked(c)
  <2>1. task[c].no \in DOMAIN orders /\ task[c].session \in Sessions
    BY <1>0, <1>5 DEF Tracked, TaskOK
  <2>2. task[c].no # 0
    BY <2>1, ListLen DEF TypeInv, OrdersOK
  <2>3. UNCHANGED <<uploads, twice, shown, forgotten>>
    BY <1>5 DEF Tracked, priceVars
  <2>4. /\ page' \in {"upload", "review", "status"} /\ visit' \in Sessions
        /\ job' \in {0} \cup DOMAIN orders /\ (page' = "status" => job' # 0)
    BY <1>0, <1>5, <2>1, <2>2 DEF Tracked, PageOK
  <2>5. saved'.session \in Sessions /\ saved'.job \in {0} \cup DOMAIN orders
    BY <1>0, <1>2, <1>5 DEF Tracked, PageOK
  <2>6. PageOK'
    BY <1>0, <1>1, <2>3, <2>4, <2>5 DEF PageOK, serverVars, docVars, orderVars
  <2> QED
    BY <1>1, <2>6, NoTask_OK, NoTaskFields, Sends_Kept DEF Uploading
<1>6. CASE AskBreaks(c)
  <2>1. UNCHANGED <<page, visit, uploads, twice, shown, forgotten, job>> /\ saved' \in {saved, Nothing}
    BY <1>6 DEF AskBreaks, priceVars
  <2>2. saved'.session \in Sessions /\ saved'.job \in {0} \cup DOMAIN orders
    BY <1>0, <1>2, <2>1 DEF PageOK
  <2>3. PageOK'
    BY <1>0, <1>1, <2>1, <2>2 DEF PageOK, serverVars, docVars, orderVars
  <2> QED
    BY <1>1, <2>3, NoTask_OK, NoTaskFields, Sends_Kept DEF Uploading
<1> QED
  BY <1>3, <1>4, <1>5, <1>6

\* Taps, the timer of their price, and a connection that breaks.
LEMMA Taps_Kept ==
    ASSUME TypeInv,
           \/ Review \/ GoBack \/ StartNewOrder \/ \E d \in Doc, o \in Opt : SetOption(d, o)
           \/ \E c \in Conn : TimerFires(c) \/ Breaks(c)
    PROVE  Kept
<1>0. PageOK /\ Map(task, Conn) /\ \A b \in Conn : Map(task[b], Fields)
  BY DEF TypeInv, TasksOK, TaskOK, Fields
<1>1. UNCHANGED serverVars
  BY DEF Review, GoBack, StartNewOrder, SetOption, TimerFires, Breaks
<1>2. CASE Review \/ GoBack
  <2>1. UNCHANGED <<task, visit, uploads, twice, saved, shown, forgotten, job>> /\ page' \in {"upload", "review"}
    BY <1>2 DEF Review, GoBack, priceVars
  <2>2. PageOK'
    BY <1>0, <1>1, <2>1 DEF PageOK, serverVars, docVars, orderVars
  <2>3. \A b \in Conn : Same(b)
    BY <1>0, <2>1 DEF Same, Fields
  <2> QED
    BY <1>0, <1>1, <2>1, <2>2, <2>3, Browser_Kept
<1>3. CASE StartNewOrder
  <2>1. PageOK'
    BY <1>0, <1>1, <1>3, Blank_Page DEF StartNewOrder
  <2>2. task' = Outdated
    BY <1>3 DEF StartNewOrder
  <2>3. \A b \in Conn : Same(b)
    BY <2>2, OutdatedSame DEF Same, Fields
  <2> QED
    BY <1>1, <2>1, <2>2, <2>3, OutdatedSame, Browser_Kept
<1>4. ASSUME NEW d \in Doc, NEW o \in Opt, SetOption(d, o) PROVE Kept
  <2>1. d \in DOMAIN uploads /\ uploads' = [uploads EXCEPT ![d].opt = o]
        /\ UNCHANGED <<task, page, visit, twice, saved, shown, forgotten, job>>
    BY <1>4 DEF SetOption, ProcessedAmong
  <2>2. PICK card : card = [uploads[d] EXCEPT !.opt = o]
    OBVIOUS
  <2>3. Map(card, {"status", "opt"}) /\ card.opt = o
    BY <1>0, <2>1, <2>2 DEF PageOK, Map
  <2>4. uploads' = [uploads EXCEPT ![d] = card]
    BY <2>1, <2>2
  <2>5. /\ DOMAIN uploads' = DOMAIN uploads /\ Map(uploads', DOMAIN uploads) /\ uploads'[d] = card
        /\ \A e \in DOMAIN uploads : e # d => uploads'[e] = uploads[e]
    BY <1>0, <2>1, <2>4 DEF PageOK, Map
  <2>6. IsForm(uploads')
    BY <1>0, <1>4, <2>3, <2>5 DEF PageOK, IsForm
  <2>7. PageOK'
    BY <1>0, <1>1, <2>1, <2>6 DEF PageOK, IsForm, serverVars, docVars, orderVars
  <2>8. \A b \in Conn : Same(b)
    BY <1>0, <2>1 DEF Same, Fields
  <2> QED
    BY <1>0, <1>1, <2>1, <2>7, <2>8, Browser_Kept
<1>5. ASSUME NEW c \in Conn, TimerFires(c) PROVE Kept
  <2>1. Recalculate(c, uploads, visit) /\ visit \in Sessions /\ UNCHANGED <<formVars, job>>
    BY <1>0, <1>5 DEF TimerFires, PageOK
  <2>2. /\ Map(task', Conn) /\ \A b \in Conn : Same(b) \/ (TaskOK(b)' /\ task'[b].step \notin Uploading)
        /\ shown' \in {0, shown} /\ forgotten' = {}
    BY <2>1, Recalculate_Is
  <2>3. PageOK'
    BY <1>0, <1>1, <2>1, <2>2, Page_Same DEF PageOK
  <2> QED
    BY <1>1, <2>2, <2>3, Browser_Kept
<1>6. ASSUME NEW c \in Conn, Breaks(c) PROVE Kept
  <2>1. PICK u : u = [task[c] EXCEPT !.heard = FALSE]
    OBVIOUS
  <2>2. task' = [task EXCEPT ![c] = u] /\ UNCHANGED <<formVars, priceVars, job>>
    BY <1>6, <2>1 DEF Breaks
  <2>3. Map(task', Conn) /\ task'[c] = u /\ \A b \in Conn : b # c => Same(b)
    BY <2>2, OneSame
  <2>4. /\ Map(u, Fields) /\ u.step = task[c].step /\ u.ok = task[c].ok /\ u.session = task[c].session
        /\ u.doc = task[c].doc /\ u.no = task[c].no /\ u.items = task[c].items
    BY <1>0, <2>1 DEF Map, Fields
  <2>5. Same(c)
    BY <2>3, <2>4 DEF Same, Fields
  <2>6. PageOK'
    BY <1>0, <1>1, <2>2, Page_Same DEF PageOK, priceVars
  <2> QED
    BY <1>1, <2>3, <2>5, <2>6, Browser_Kept
<1> QED
  BY <1>2, <1>3, <1>4, <1>5, <1>6

\* What a reload leaves of the requests under way: nobody waits for them.
LEMMA Reload_Is ==
    ASSUME TypeInv, NEW c \in Conn, Reload(c)
    PROVE  /\ Map(task', Conn)
           /\ \A b \in Conn : b # c => \/ task'[b] = NoTask
                                      \/ /\ Same(b) /\ task'[b].heard = FALSE
                                         /\ task[b].step \notin {"quoted"}
           /\ TaskOK(c)' /\ task'[c].step \in {"idle", "list", "status"}
<1>0. PageOK /\ Map(task, Conn) /\ \A b \in Conn : Map(task[b], Fields)
  BY DEF TypeInv, TasksOK, TaskOK, Fields
<1>1. PICK ask, list : /\ ask = [Request("status") EXCEPT !.session = saved.session, !.no = saved.job, !.ok = FALSE]
                       /\ list = [Request("list") EXCEPT !.session = saved.session, !.no = 1]
  OBVIOUS
<1>2. /\ Map(ask, Fields) /\ ask.step = "status" /\ ask.session = saved.session /\ ask.no = saved.job
      /\ Map(list, Fields) /\ list.step = "list" /\ list.session = saved.session
  <2>1. Map(Request("status"), Fields) /\ Request("status").step = "status"
    BY RequestFields
  <2>2. Map(Request("list"), Fields) /\ Request("list").step = "list"
    BY RequestFields
  <2>3. Map(ask, Fields) /\ ask.step = "status" /\ ask.session = saved.session /\ ask.no = saved.job
    BY <1>1, <2>1 DEF Map, Fields
  <2>4. Map(list, Fields) /\ list.step = "list" /\ list.session = saved.session
    BY <1>1, <2>2 DEF Map, Fields
  <2> QED
    BY <2>3, <2>4
<1> DEFINE Unheard(b) ==
             IF task[b].step \in {"uploaded", "quoted", "listed", "confirmed", "idle"} \cup OrderStates
             THEN NoTask ELSE [task[b] EXCEPT !.heard = FALSE]
<1>3. PICK first : /\ task' = [[b \in Conn |-> Unheard(b)] EXCEPT ![c] = first]
                   /\ \/ first = ask /\ saved.job # 0
                      \/ first = list /\ saved.session # 0
                      \/ first = NoTask
  BY <1>1 DEF Reload
<1>4. Map(task', Conn) /\ task'[c] = first /\ \A b \in Conn : b # c => task'[b] = Unheard(b)
  BY <1>3 DEF Map
<1>5. ASSUME NEW b \in Conn, b # c
      PROVE  \/ task'[b] = NoTask
             \/ Same(b) /\ task'[b].heard = FALSE /\ task[b].step \notin {"quoted"}
  <2>1. PICK t, u : t = task[b] /\ u = [t EXCEPT !.heard = FALSE]
    OBVIOUS
  <2>2. /\ Map(u, Fields) /\ u.step = t.step /\ u.ok = t.ok /\ u.session = t.session
        /\ u.doc = t.doc /\ u.no = t.no /\ u.items = t.items /\ u.heard = FALSE
    BY <1>0, <2>1 DEF Map, Fields
  <2>3. task'[b] = NoTask \/ (task'[b] = u /\ t.step # "quoted")
    BY <1>4, <1>5, <2>1
  <2> QED
    BY <2>1, <2>2, <2>3 DEF Same, Fields
<1>6. orders' = orders
  BY DEF Reload, serverVars, orderVars
<1>7. TaskOK(c)' /\ first.step \in {"idle", "list", "status"}
  <2>1. CASE first = ask /\ saved.job # 0
    BY <1>0, <1>2, <1>4, <1>6, <2>1 DEF TaskOK, PageOK, OrderStates, Over, Fields
  <2>2. CASE first = list /\ saved.session # 0
    BY <1>0, <1>2, <1>4, <2>2 DEF TaskOK, PageOK, OrderStates, Over, Fields
  <2>3. CASE first = NoTask
    BY <1>4, <2>3, NoTask_OK, NoTaskFields
  <2> QED
    BY <1>3, <2>1, <2>2, <2>3
<1> QED
  BY <1>4, <1>5, <1>7

\* The page is loaded again: it asks for what localStorage keeps.
LEMMA Reload_Kept ==
    ASSUME TypeInv, NEW c \in Conn, Reload(c)
    PROVE  Kept
<1>1. UNCHANGED serverVars /\ PageOK'
  BY Blank_Page DEF Reload, TypeInv
<1>2. /\ Map(task', Conn) /\ TaskOK(c)' /\ task'[c].step \notin Uploading
      /\ \A b \in Conn : b # c => task'[b] = NoTask \/ Same(b)
  BY Reload_Is DEF Uploading
<1>3. \A b \in Conn : Same(b) \/ (TaskOK(b)' /\ task'[b].step \notin Uploading)
  BY <1>2, NoTask_OK, NoTaskFields DEF Uploading
<1> QED
  BY <1>1, <1>2, <1>3, Browser_Kept
-----------------------------------------------------------------------------
\* Every step keeps the types, and takes nothing back.
LEMMA Next_Kept == ASSUME TypeInv, [Next]_vars PROVE Kept
<1>1. CASE Browser
  BY <1>1, ChooseFile_Kept, Uploaded_Kept, Listed_Kept, Requests_Kept, Answers_Kept, Taps_Kept, Reload_Kept DEF Browser
<1>2. CASE Backend /\ UNCHANGED pageVars
  BY <1>2, Backend_Kept
<1>3. CASE UNCHANGED vars
  <2>1. UNCHANGED serverVars /\ UNCHANGED pageVars /\ UNCHANGED task
    BY <1>3 DEF vars, serverVars, pageVars, intakeVars
  <2> QED
    BY <2>1, ServerStays, Server_Kept
<1> QED
  BY <1>1, <1>2, <1>3 DEF Next, pageVars

\* There is nothing at first.
LEMMA Init_Types == ASSUME Init PROVE TypeInv
<1>1. /\ status = [d \in Doc |-> "NONE"] /\ session = [d \in Doc |-> 0] /\ counted = {}
      /\ analysis = [d \in Doc |-> NoJob] /\ run = [w \in Worker |-> NoRun]
      /\ quotes = <<>> /\ orders = <<>> /\ task = [c \in Conn |-> NoTask]
  BY DEF Init, IntakeInit
<1>2. /\ page = "upload" /\ visit = 0 /\ uploads = <<>> /\ twice = {} /\ shown = 0 /\ forgotten = {}
      /\ job = 0 /\ saved = Nothing
  BY DEF Init
<1>3. DOMAIN <<>> = {} /\ IsList(<<>>) /\ Map(<<>>, {})
  BY DEF IsList, Map
<1>4. DocsOK
  BY <1>1, Sizes DEF DocsOK, Map
<1>5. JobsOK
  <2>1. Map(NoJob, {"state", "made", "stalls", "lock"}) /\ NoJob.lock = 0 /\ NoJob.state = "none"
    BY DEF NoJob, Map
  <2> QED
    BY <1>1, <2>1, NoRunFields DEF JobsOK, Map
<1>6. OrdersOK
  BY <1>1, <1>3 DEF OrdersOK
<1>7. TasksOK
  <2>1. ASSUME NEW c \in Conn PROVE TaskOK(c)
    BY <1>1, NoTaskFields, Sizes DEF TaskOK, OrderStates, Over
  <2> QED
    BY <1>1, <2>1 DEF TasksOK, Map
<1>8. UploadsOK
  BY <1>1, NoTaskFields DEF UploadsOK, Uploading, NoJob
<1>9. PageOK
  BY <1>2, <1>3, Sizes DEF PageOK, Nothing
<1> QED
  BY <1>4, <1>5, <1>6, <1>7, <1>8, <1>9 DEF TypeInv

\* So the types hold throughout.
LEMMA Spec_TypeInv == Spec => [](TypeInv)
<1>1. TypeInv /\ [Next]_vars => TypeInv'
  BY Next_Kept DEF Kept
<1> QED
  BY <1>1, Init_Types, PTL DEF Spec

\* What is on the page and what a request is about exists, an order is tracked
\* only if there is one, a price is asked for something, and a job is locked
\* exactly as long as a worker has to do with it.
THEOREM Spec_TypeOK == Spec => []TypeOK
<1>1. TypeInv => TypeOK
  <2> SUFFICES ASSUME TypeInv PROVE TypeOK
    OBVIOUS
  <2>1. DOMAIN quotes = 1 .. Len(quotes) /\ Len(quotes) \in Nat /\ DOMAIN orders = 1 .. Len(orders) /\ Len(orders) \in Nat
    BY ListLen DEF TypeInv, OrdersOK
  <2>2. shown \in 0 .. Len(quotes) /\ job \in 0 .. Len(orders)
    BY <2>1 DEF TypeInv, PageOK
  <2>3. \A c \in Conn : task[c].step = "quote" => task[c].items # <<>>
    BY DEF TypeInv, TasksOK, TaskOK
  <2>4. \A d \in Doc : analysis[d].lock # 0 <=> analysis[d].state \in {"active", "failed", "mark"}
    BY DEF TypeInv, JobsOK
  <2> QED
    BY <2>2, <2>3, <2>4 DEF TypeInv, PageOK, Sessions, TypeOK
<1> QED
  BY <1>1, Spec_TypeInv, PTL
-----------------------------------------------------------------------------
(***************************************************************************)
(* Orders.                                                                 *)
(***************************************************************************)
\* What an order leaves its documents in.
Ordered == {"PRINT_ELIGIBLE", "DELETED"}

\* A step that makes no order: no quote is taken back, and no document of an
\* order, or that was one, is analysed again.
Orderly ==
    /\ \A n \in DOMAIN quotes : quotes[n].used => quotes'[n].used
    /\ \A n \in DOMAIN orders' : n \in DOMAIN orders /\ orders'[n].quote = orders[n].quote
    /\ \A d \in Doc : status[d] \in Ordered => status'[d] \in Ordered

\* Such a step keeps the orders in order.
LEMMA Orderly_Keeps ==
    ASSUME TypeInv, TypeInv', Grown, Orderly, OneOrderPerQuote, OrderedStaysOrdered
    PROVE  OneOrderPerQuote' /\ OrderedStaysOrdered'
<1>1. \A n \in DOMAIN orders' : /\ n \in DOMAIN orders /\ orders'[n].quote = orders[n].quote
                               /\ orders[n].quote \in DOMAIN quotes
  BY DEF Orderly, TypeInv, OrdersOK
<1>2. OneOrderPerQuote'
  BY <1>1 DEF Orderly, OneOrderPerQuote
<1>3. ASSUME NEW n \in DOMAIN orders', NEW d \in DOMAIN quotes'[orders'[n].quote].items
      PROVE  d \in counted' /\ status'[d] \in {"PRINT_ELIGIBLE", "DELETED"}
  <2>1. d \in DOMAIN quotes[orders[n].quote].items /\ n \in DOMAIN orders
    BY <1>1, <1>3 DEF Grown
  <2>2. d \in counted /\ status[d] \in {"PRINT_ELIGIBLE", "DELETED"}
    BY <2>1 DEF OrderedStaysOrdered
  <2>3. d \in Doc
    BY <2>2 DEF TypeInv, DocsOK
  <2> QED
    BY <2>2, <2>3 DEF Orderly, Ordered, Grown
<1> QED
  BY <1>2, <1>3 DEF OrderedStaysOrdered

\* A step that writes neither quotes nor orders, nor a document that was ordered.
LEMMA Orderly_Docs ==
    ASSUME TypeInv, UNCHANGED <<quotes, orders>>,
           \/ UNCHANGED status
           \/ \E d \in Doc : \E to : status[d] \notin Ordered /\ status' = [status EXCEPT ![d] = to]
    PROVE  Orderly
BY DEF Orderly, TypeInv, DocsOK, Map

\* An order with another status, and documents that are deleted.
LEMMA Orderly_Status ==
    ASSUME TypeInv, NEW n \in DOMAIN orders, NEW name \in OrderStates,
           orders' = [orders EXCEPT ![n].status = name], UNCHANGED <<quotes, counted>>,
           \A d \in Doc : status[d] \in Ordered => status'[d] \in Ordered
    PROVE  Orderly
BY OrderWritten DEF Orderly

\* Every step but one is of that kind.
LEMMA Steps_Orderly ==
    ASSUME TypeInv, [Next]_vars, \A c \in Conn : ~CreateOrder(c)
    PROVE  Orderly
<1>0. \A d \in Doc : status[d] = "PROCESSING" => status[d] \notin Ordered
  BY DEF Ordered
<1>1. CASE UNCHANGED <<status, quotes, orders>>
  BY <1>1, Orderly_Docs
<1>2. ASSUME NEW c \in Conn, StoreDocument(c) PROVE Orderly
  <2>1. status[task[c].doc] = "NONE" /\ task[c].doc \in Doc
    BY <1>2 DEF StoreDocument, TypeInv, UploadsOK, TasksOK, TaskOK
  <2>2. UNCHANGED <<quotes, orders>> /\ status' = [status EXCEPT ![task[c].doc] = "UPLOADED"]
    BY <1>2 DEF StoreDocument, orderVars
  <2> QED
    BY <2>1, <2>2, Orderly_Docs DEF Ordered
<1>3. ASSUME NEW c \in Conn, MakeQuote(c) PROVE Orderly
  <2>1. PICK q : quotes' = Append(quotes, q)
    BY <1>3 DEF MakeQuote
  <2>2. \A n \in DOMAIN quotes : quotes'[n] = quotes[n]
    BY <2>1, ListAppend DEF TypeInv, OrdersOK
  <2> QED
    BY <1>3, <2>2 DEF MakeQuote, Orderly, docVars
<1>4. ASSUME NEW c \in Conn, MakeEligible(c) PROVE Orderly
  <2>1. task[c].no \in DOMAIN orders
    BY <1>4 DEF MakeEligible, TypeInv, TasksOK, TaskOK
  <2>2. /\ orders' = [orders EXCEPT ![task[c].no].status = "PRINT_ELIGIBLE"]
        /\ UNCHANGED <<quotes, counted, status>>
    BY <1>4 DEF MakeEligible, docVars
  <2> QED
    BY <2>1, <2>2, Orderly_Status DEF OrderStates
<1>6. ASSUME NEW n \in DOMAIN orders, Printed(n) \/ PrintFails(n) \/ Sweep(n) PROVE Orderly
  <2>1. PICK name \in OrderStates : orders' = [orders EXCEPT ![n].status = name]
    BY <1>6 DEF Printed, PrintFails, Sweep, OrderStates, Over
  <2>2. UNCHANGED <<quotes, counted>>
    BY <1>6 DEF Printed, PrintFails, Sweep, docVars
  <2>3. \A d \in Doc : status[d] \in Ordered => status'[d] \in Ordered
    BY <1>6 DEF Printed, PrintFails, Sweep, docVars, Ordered
  <2> QED
    BY <2>1, <2>2, <2>3, Orderly_Status
<1>7. ASSUME NEW w \in Worker, StartProcessing(w) \/ StoreResult(w) PROVE Orderly
  <2>1. UNCHANGED <<quotes, orders>> /\ run[w].step # "idle"
    BY <1>7 DEF StartProcessing, StoreResult, orderVars
  <2>2. PICK d \in Doc : d = run[w].doc
    BY <2>1 DEF TypeInv, JobsOK
  <2>3. run[w].step = "start" => run[w].seen \notin Ordered
    BY DEF TypeInv, JobsOK, Ordered
  <2>4. CASE UNCHANGED status
    BY <2>1, <2>4, Orderly_Docs
  <2>5. CASE ~UNCHANGED status
    <3>1. \E to : status[d] \notin Ordered /\ status' = [status EXCEPT ![d] = to]
      BY <1>0, <1>7, <2>2, <2>3, <2>5 DEF StartProcessing, StoreResult, Transition
    <3> QED
      BY <2>1, <3>1, Orderly_Docs
  <2> QED
    BY <2>4, <2>5
<1>8. ASSUME NEW d \in Doc, MarkFailed(d) PROVE Orderly
  <2>1. UNCHANGED <<quotes, orders>>
    BY <1>8 DEF MarkFailed, orderVars
  <2>2. UNCHANGED status \/ (status[d] \notin Ordered /\ status' = [status EXCEPT ![d] = "ANALYSIS_FAILED"])
    BY <1>0, <1>8 DEF MarkFailed, Transition
  <2> QED
    BY <2>1, <2>2, Orderly_Docs
<1>9. ASSUME NEW c \in Conn,
             UploadGate(c) \/ Enqueue(c) \/ ListDocuments(c) \/ ReadStatus(c) \/ QuoteCheck(c) \/ ConfirmCheck(c)
             \/ Admit(c) \/ RequestFails(c)
      PROVE  UNCHANGED <<status, quotes, orders>>
  BY <1>9 DEF UploadGate, Enqueue, ListDocuments, ReadStatus, QuoteCheck, ConfirmCheck, Admit, RequestFails,
     docVars, orderVars
<1>10. ASSUME NEW w \in Worker,
             (\E d \in Doc : Take(w, d)) \/ ReadDocument(w) \/ NoResult(w) \/ WorkerStops(w)
      PROVE  UNCHANGED <<status, quotes, orders>>
  BY <1>10 DEF Take, ReadDocument, NoResult, WorkerStops, docVars, orderVars
<1>11. ASSUME NEW d \in Doc, OnFailed(d) \/ Stalls(d) PROVE UNCHANGED <<status, quotes, orders>>
  BY <1>11 DEF OnFailed, Stalls, docVars, orderVars
<1>13. ASSUME Browser PROVE UNCHANGED <<status, quotes, orders>>
  <2>1. UNCHANGED serverVars
    BY <1>13 DEF Browser, ChooseFile, Uploaded, Poll, Listed, TimerFires, Quoted, Confirm, Confirmed, Track, Tracked,
       Reload, Breaks, AskBreaks, SetOption, Review, GoBack, StartNewOrder
  <2> QED
    BY <2>1 DEF serverVars, docVars, orderVars
<1>14. ASSUME UNCHANGED vars PROVE UNCHANGED <<status, quotes, orders>>
  BY <1>14 DEF vars, intakeVars, docVars, orderVars
<1>15. ASSUME Backend PROVE Orderly
  <2>1. ASSUME NEW c \in Conn, Handle(c) \/ RequestFails(c) PROVE Orderly
    BY <1>1, <1>2, <1>3, <1>4, <1>9, <2>1 DEF Handle
  <2>2. ASSUME NEW w \in Worker, WorkerStep(w) \/ WorkerStops(w) PROVE Orderly
    BY <1>1, <1>7, <1>10, <2>2 DEF WorkerStep
  <2>3. ASSUME NEW d \in Doc, OnFailed(d) \/ MarkFailed(d) \/ Stalls(d) PROVE Orderly
    BY <1>1, <1>8, <1>11, <2>3
  <2> QED
    BY <1>1, <1>6, <1>15, <2>1, <2>2, <2>3 DEF Backend
<1> QED
  BY <1>1, <1>13, <1>14, <1>15 DEF Next

\* The quote of a new order was no order's, and its documents are the order's.
LEMMA CreateOrder_Orders ==
    ASSUME TypeInv, TypeInv', Grown, OneOrderPerQuote, OrderedStaysOrdered, NEW c \in Conn, CreateOrder(c)
    PROVE  OneOrderPerQuote' /\ OrderedStaysOrdered'
<1>0. PICK n : n = task[c].no
  OBVIOUS
<1>1. n \in DOMAIN quotes
  BY <1>0 DEF CreateOrder, TypeInv, TasksOK, TaskOK
<1>2. CASE Taken(n)
  <2>1. UNCHANGED <<status, quotes, orders>>
    BY <1>0, <1>2 DEF CreateOrder
  <2> QED
    BY <2>1, Orderly_Docs, Orderly_Keeps
<1>3. CASE ~Taken(n)
  <2>1. PICK o, q : /\ o = [quote |-> n, status |-> "CREATED"]
                    /\ q = [quotes[n] EXCEPT !.used = TRUE]
    OBVIOUS
  <2>2. /\ orders' = Append(orders, o)
        /\ quotes' = [quotes EXCEPT ![n] = q]
        /\ status' = [d \in Doc |-> IF d \in DOMAIN quotes[n].items THEN "PRINT_ELIGIBLE" ELSE status[d]]
        /\ counted' = counted
    BY <1>0, <1>3, <2>1 DEF CreateOrder
  <2>3. o.quote = n /\ q.used /\ q.items = quotes[n].items
    BY <1>1, <2>1 DEF TypeInv, OrdersOK, Map
  <2>4. /\ Len(orders) + 1 \in DOMAIN orders' /\ orders'[Len(orders) + 1] = o
        /\ \A m \in DOMAIN orders : m \in DOMAIN orders' /\ orders'[m] = orders[m]
        /\ \A m \in DOMAIN orders' : m \in DOMAIN orders \/ m = Len(orders) + 1
    BY <2>2, ListAppend, ListLen DEF TypeInv, OrdersOK
  <2>5. \A m \in DOMAIN quotes : quotes'[m] = IF m = n THEN q ELSE quotes[m]
    <3>1. IsList(quotes)
      BY DEF TypeInv, OrdersOK
    <3> QED
      BY <1>1, <2>2, <3>1 DEF IsList, Map
  <2>6. \A m \in DOMAIN orders : orders[m].quote # n /\ orders[m].quote \in DOMAIN quotes
    BY <1>3 DEF Taken, TypeInv, OrdersOK
  <2>7. OneOrderPerQuote'
    <3>1. ASSUME NEW m \in DOMAIN orders' PROVE quotes'[orders'[m].quote].used
      BY <1>1, <2>3, <2>4, <2>5, <2>6, <3>1 DEF OneOrderPerQuote
    <3>2. ASSUME NEW m \in DOMAIN orders', NEW k \in DOMAIN orders', orders'[m].quote = orders'[k].quote
          PROVE  m = k
      BY <2>3, <2>4, <2>6, <3>2 DEF OneOrderPerQuote
    <3> QED
      BY <3>1, <3>2 DEF OneOrderPerQuote
  <2>8. ASSUME NEW m \in DOMAIN orders', NEW d \in DOMAIN quotes'[orders'[m].quote].items
        PROVE  d \in counted' /\ status'[d] \in {"PRINT_ELIGIBLE", "DELETED"}
    <3>1. CASE m \in DOMAIN orders
      <4>1. d \in DOMAIN quotes[orders[m].quote].items
        BY <2>4, <2>5, <2>6, <2>8, <3>1
      <4>2. d \in counted /\ status[d] \in {"PRINT_ELIGIBLE", "DELETED"}
        BY <3>1, <4>1 DEF OrderedStaysOrdered
      <4>3. d \in Doc
        BY <4>2 DEF TypeInv, DocsOK
      <4> QED
        BY <2>2, <4>2, <4>3
    <3>2. CASE m = Len(orders) + 1
      <4>1. d \in DOMAIN quotes[n].items
        BY <1>1, <2>3, <2>4, <2>5, <2>8, <3>2
      <4>2. d \in counted /\ d \in Doc
        BY <1>1, <4>1 DEF TypeInv, OrdersOK, DocsOK
      <4> QED
        BY <2>2, <4>1, <4>2
    <3> QED
      BY <2>4, <3>1, <3>2
  <2> QED
    BY <2>7, <2>8 DEF OrderedStaysOrdered
<1> QED
  BY <1>2, <1>3

\* So the orders are in order throughout.
LEMMA Spec_Orders == Spec => [](OneOrderPerQuote /\ OrderedStaysOrdered)
<1> DEFINE Inv == OneOrderPerQuote /\ OrderedStaysOrdered
<1>1. Init => Inv
  BY DEF Init, IntakeInit, OneOrderPerQuote, OrderedStaysOrdered
<1>2. TypeInv /\ TypeInv' /\ Inv /\ [Next]_vars => Inv'
  <2> SUFFICES ASSUME TypeInv, TypeInv', Inv, [Next]_vars PROVE Inv'
    OBVIOUS
  <2>1. Grown
    BY Next_Kept DEF Kept
  <2> QED
    BY <2>1, Steps_Orderly, Orderly_Keeps, CreateOrder_Orders
<1> HIDE DEF Inv
<1>3. Spec => []Inv
  BY <1>1, <1>2, Spec_TypeInv, PTL DEF Spec
<1> QED
  BY <1>3, PTL DEF Inv

\* A quote becomes one order at most, however confirmations of it interleave, and
\* an order is of a quote that was used.
THEOREM Spec_OneOrderPerQuote == Spec => []OneOrderPerQuote
BY Spec_Orders, PTL

\* An ordered document has its pages counted, and no late attempt, retry or failure
\* of its analysis takes it back.
THEOREM Spec_OrderedStaysOrdered == Spec => []OrderedStaysOrdered
BY Spec_Orders, PTL
-----------------------------------------------------------------------------
(***************************************************************************)
(* The price on the page.                                                  *)
(***************************************************************************)
\* The steps of a request for a price.
Pricing == {"quote", "make", "quoted"}

\* The latest request for a price, if it will be heard, asks for what is on the
\* page, unless a later tap waits for its timer; and so does its answer.
Asks(c) ==
    task[c].latest /\ task[c].heard /\ task[c].step \in {"quote", "make"} /\ ~timer
        => Fits(task[c].items)
Tells(c) ==
    task[c].latest /\ task[c].ok /\ task[c].step = "quoted" /\ ~timer
        => Fits(quotes[task[c].no].items)

\* The price on the page, or the one it waits for, is of what is on the page.
PriceInv ==
    /\ key = ProcessedAmong(uploads)
    /\ \A c \in Conn : Asks(c) /\ Tells(c)
    /\ ShownIsChosen

\* A request that is no request for a price, or as it was.
Kin(c) == task'[c] = task[c] \/ task'[c].step \notin Pricing

\* The documents on the page have the options they had, or those are forgotten.
Alike ==
    /\ ProcessedAmong(uploads') = ProcessedAmong(uploads) /\ forgotten \subseteq forgotten'
    /\ \A d \in ProcessedAmong(uploads) \ forgotten' : uploads'[d].opt = uploads[d].opt

\* What was on the page still is.
LEMMA Fits_Stays == ASSUME NEW items, Fits(items), Alike PROVE Fits(items)'
BY DEF Fits, Alike, ProcessedAmong

\* What is asked for is on the page.
LEMMA OptionsFit == Fits(OptionsOf(uploads))
BY DEF Fits, OptionsOf

\* A request as it was asks for what it asked for.
LEMMA Kin_Asks ==
    ASSUME TypeInv, Grown, NEW c \in Conn, Kin(c), Asks(c), Tells(c), timer' = timer,
           Alike
    PROVE  Asks(c)' /\ Tells(c)'
<1>1. CASE task'[c].step \notin Pricing
  BY <1>1 DEF Asks, Tells, Pricing
<1>2. CASE task'[c] = task[c]
  <2>0. PICK t, n : t = task[c] /\ n = t.no
    OBVIOUS
  <2>1. Asks(c)'
    BY <1>2, <2>0, Fits_Stays DEF Asks
  <2>2. t.step = "quoted" /\ t.ok => n \in DOMAIN quotes /\ quotes'[n].items = quotes[n].items
    BY <2>0 DEF TypeInv, TasksOK, TaskOK, Grown
  <2>4. PICK items : items = quotes[n].items
    OBVIOUS
  <2>3. Tells(c)'
    BY <1>2, <2>0, <2>2, <2>4, Fits_Stays DEF Tells
  <2> QED
    BY <2>1, <2>3
<1> QED
  BY <1>1, <1>2 DEF Kin

\* The price on the page is as it was.
LEMMA Shown_Same ==
    ASSUME TypeInv, Grown, ShownIsChosen, UNCHANGED <<shown, quoting, timer>>, Alike
    PROVE  ShownIsChosen'
<1>1. PICK n, items : n = shown /\ items = quotes[n].items
  OBVIOUS
<1>2. n # 0 => n \in DOMAIN quotes /\ quotes'[n].items = items
  BY <1>1 DEF TypeInv, PageOK, Grown
<1> QED
  BY <1>1, <1>2, Fits_Stays DEF ShownIsChosen

\* A step that has nothing to do with prices.
LEMMA Kin_Price ==
    ASSUME TypeInv, Grown, PriceInv, UNCHANGED <<uploads, key, priceVars>>, \A c \in Conn : Kin(c)
    PROVE  PriceInv'
<1>1. timer' = timer /\ Alike /\ key' = ProcessedAmong(uploads') /\ UNCHANGED <<shown, quoting, timer>>
  BY DEF PriceInv, priceVars, Alike
<1> QED
  BY <1>1, Kin_Asks, Shown_Same DEF PriceInv

\* The request that goes on, is answered, or is refused.
LEMMA Go_Is ==
    ASSUME TypeInv, NEW c \in Conn, NEW step, Go(c, step)
    PROVE  /\ task'[c].step = step /\ task'[c].latest = task[c].latest /\ task'[c].heard = task[c].heard
           /\ task'[c].items = task[c].items /\ \A b \in Conn : b # c => task'[b] = task[b]
<1>1. PICK u : u = [task[c] EXCEPT !.step = step]
  OBVIOUS
<1>2. u.step = step /\ u.latest = task[c].latest /\ u.heard = task[c].heard /\ u.items = task[c].items
  BY <1>1 DEF TypeInv, TasksOK, TaskOK, Map
<1>3. task' = [task EXCEPT ![c] = u]
  BY <1>1 DEF Go
<1> QED
  BY <1>2, <1>3 DEF TypeInv, TasksOK, Map

\* The answer is heard by a page that waits for it.
LEMMA Reply_To ==
    ASSUME TypeInv, NEW c \in Conn, NEW u, Reply(c, u)
    PROVE  /\ task'[c] \in {u, NoTask} /\ \A b \in Conn : b # c => task'[b] = task[b]
           /\ task'[c] = IF task[c].heard THEN u ELSE NoTask
BY DEF Reply, TypeInv, TasksOK, Map

\* A request that was served has what it found for its answer.
LEMMA Answer_Is ==
    ASSUME TypeInv, NEW c \in Conn, NEW name, Answer(c, name)
    PROVE  task'[c].step \in {name, "idle"} /\ \A b \in Conn : b # c => task'[b] = task[b]
<1>1. PICK u : u = [task[c] EXCEPT !.step = name]
  OBVIOUS
<1>2. u.step = name
  BY <1>1 DEF TypeInv, TasksOK, TaskOK, Map
<1> QED
  BY <1>1, <1>2, Reply_To, NoTaskFields DEF Answer

\* A request that failed has the error for its answer.
LEMMA Refuse_Is ==
    ASSUME TypeInv, NEW c \in Conn, NEW name, Refuse(c, name)
    PROVE  /\ task'[c].step \in {name, "idle"} /\ (task'[c].step # "idle" => task'[c].ok = FALSE)
           /\ \A b \in Conn : b # c => task'[b] = task[b]
<1>1. PICK u : u = [task[c] EXCEPT !.step = name, !.ok = FALSE]
  OBVIOUS
<1>2. u.step = name /\ u.ok = FALSE
  BY <1>1 DEF TypeInv, TasksOK, TaskOK, Map
<1> QED
  BY <1>1, <1>2, Reply_To, NoTaskFields DEF Refuse

\* A request for a price that is checked, made, refused, or fails.
LEMMA Quoting_Asks ==
    ASSUME TypeInv, Grown, UNCHANGED pageVars, NEW c \in Conn, Asks(c),
           QuoteCheck(c) \/ MakeQuote(c) \/ RequestFails(c)
    PROVE  /\ Asks(c)' /\ Tells(c)' /\ \A b \in Conn : b # c => task'[b] = task[b]
<1>0. UNCHANGED timer /\ Alike
  BY DEF pageVars, formVars, priceVars, Alike
<1>1. ASSUME NEW name \in {"uploaded", "quoted", "confirmed"}, Refuse(c, name)
      PROVE  /\ Asks(c)' /\ Tells(c)' /\ \A b \in Conn : b # c => task'[b] = task[b]
  <2>1. /\ task'[c].step \in {name, "idle"} /\ (task'[c].step # "idle" => task'[c].ok = FALSE)
        /\ \A b \in Conn : b # c => task'[b] = task[b]
    BY <1>1, Refuse_Is
  <2> QED
    BY <2>1 DEF Asks, Tells
<1>2. CASE QuoteCheck(c)
  <2>1. CASE Go(c, "make")
    <3>1. /\ task'[c].step = "make" /\ task'[c].latest = task[c].latest /\ task'[c].heard = task[c].heard
          /\ task'[c].items = task[c].items /\ \A b \in Conn : b # c => task'[b] = task[b]
      BY <2>1, Go_Is
    <3>2. task[c].step = "quote"
      BY <1>2 DEF QuoteCheck
    <3>4. PICK items : items = task[c].items
      OBVIOUS
    <3>3. Asks(c)'
      BY <1>0, <3>1, <3>2, <3>4, Fits_Stays DEF Asks
    <3> QED
      BY <3>1, <3>3 DEF Tells
  <2> QED
    BY <1>1, <1>2, <2>1 DEF QuoteCheck
<1>3. CASE MakeQuote(c)
  <2>1. PICK u, q, t : /\ t = task[c]
                       /\ u = [t EXCEPT !.step = "quoted", !.no = Len(quotes) + 1, !.items = <<>>]
                       /\ q = [items |-> t.items, session |-> t.session, used |-> FALSE]
    OBVIOUS
  <2>2. t.step = "make" /\ quotes' = Append(quotes, q) /\ Reply(c, u)
    BY <1>3, <2>1 DEF MakeQuote
  <2>3. u.step = "quoted" /\ u.no = Len(quotes) + 1 /\ u.latest = t.latest
    BY <2>1 DEF TypeInv, TasksOK, TaskOK, Map
  <2>4. quotes'[Len(quotes) + 1] = q /\ q.items = t.items
    BY <2>1, <2>2, ListAppend DEF TypeInv, OrdersOK
  <2>5. /\ task'[c] = IF t.heard THEN u ELSE NoTask
        /\ \A b \in Conn : b # c => task'[b] = task[b]
    BY <2>1, <2>2, Reply_To
  <2>6. CASE t.heard
    <3>1. t.latest /\ ~timer => Fits(q.items)'
      BY <1>0, <2>1, <2>2, <2>4, <2>6, Fits_Stays DEF Asks
    <3>2. task'[c] = u
      BY <2>5, <2>6
    <3>3. Tells(c)'
      BY <1>0, <2>3, <2>4, <3>1, <3>2 DEF Tells
    <3>4. Asks(c)'
      BY <2>3, <3>2 DEF Asks
    <3> QED
      BY <2>5, <3>3, <3>4
  <2>7. CASE ~t.heard
    BY <2>5, <2>7, NoTaskFields DEF Asks, Tells
  <2> QED
    BY <2>6, <2>7
<1>4. CASE RequestFails(c)
  <2>1. \E name \in {"uploaded", "quoted", "confirmed"} : Refuse(c, name)
    BY <1>4 DEF RequestFails
  <2> QED
    BY <1>1, <2>1
<1> QED
  BY <1>2, <1>3, <1>4

\* Other requests of the backend.
LEMMA Others_Kin ==
    ASSUME TypeInv, NEW c \in Conn,
           \/ UploadGate(c) \/ StoreDocument(c) \/ Enqueue(c) \/ ListDocuments(c) \/ ReadStatus(c)
           \/ ConfirmCheck(c) \/ Admit(c) \/ CreateOrder(c) \/ MakeEligible(c)
    PROVE  \A b \in Conn : Kin(b)
<1> DEFINE Apart == task'[c].step \notin Pricing /\ \A b \in Conn : b # c => task'[b] = task[b]
<1>1. ASSUME NEW step \in {"store", "admit", "order"}, Go(c, step) PROVE Apart
  BY <1>1, Go_Is DEF Pricing
<1>2. ASSUME NEW name \in {"uploaded", "confirmed"} \cup OrderStates, Answer(c, name) PROVE Apart
  BY <1>2, Answer_Is DEF Pricing, OrderStates, Over
<1>3. ASSUME NEW name \in {"uploaded", "confirmed"}, Refuse(c, name) PROVE Apart
  BY <1>3, Refuse_Is DEF Pricing
<1>4. CASE StoreDocument(c)
  <2>1. PICK s : task' = [task EXCEPT ![c].step = "enqueue", ![c].session = s]
    BY <1>4 DEF StoreDocument
  <2>2. PICK u : u = [task[c] EXCEPT !.step = "enqueue", !.session = s]
    OBVIOUS
  <2>3. u.step = "enqueue"
    BY <2>2 DEF TypeInv, TasksOK, TaskOK, Map
  <2>4. task' = [task EXCEPT ![c] = u]
    BY <2>1, <2>2 DEF TypeInv, TasksOK, Map
  <2> QED
    BY <2>3, <2>4 DEF Kin, Pricing, TypeInv, TasksOK, Map
<1>5. CASE CreateOrder(c) /\ ~Refuse(c, "confirmed")
  <2>1. PICK n : task' = [task EXCEPT ![c].step = "eligible", ![c].no = n]
    BY <1>5 DEF CreateOrder
  <2>2. PICK u : u = [task[c] EXCEPT !.step = "eligible", !.no = n]
    OBVIOUS
  <2>3. u.step = "eligible"
    BY <2>2 DEF TypeInv, TasksOK, TaskOK, Map
  <2>4. task' = [task EXCEPT ![c] = u]
    BY <2>1, <2>2 DEF TypeInv, TasksOK, Map
  <2> QED
    BY <2>3, <2>4 DEF Kin, Pricing, TypeInv, TasksOK, Map
<1>6. CASE ListDocuments(c)
  <2>1. PICK items : Reply(c, [task[c] EXCEPT !.step = "listed", !.items = items])
    BY <1>6 DEF ListDocuments
  <2>2. PICK u : u = [task[c] EXCEPT !.step = "listed", !.items = items]
    OBVIOUS
  <2>3. u.step = "listed"
    BY <2>2 DEF TypeInv, TasksOK, TaskOK, Map
  <2>4. Reply(c, u)
    BY <2>1, <2>2
  <2>5. task'[c] \in {u, NoTask} /\ \A b \in Conn : b # c => task'[b] = task[b]
    BY <2>4, Reply_To
  <2> QED
    BY <2>3, <2>5, NoTaskFields DEF Kin, Pricing
<1>7. CASE ReadStatus(c)
  <2>1. orders[task[c].no].status \in OrderStates
    BY <1>7 DEF ReadStatus, TypeInv, TasksOK, TaskOK, OrdersOK
  <2>2. Apart
    BY <1>2, <1>7, <2>1 DEF ReadStatus
  <2> QED
    BY <2>2 DEF Kin
<1>8. CASE UploadGate(c) \/ Enqueue(c) \/ ConfirmCheck(c) \/ Admit(c) \/ MakeEligible(c) \/ Refuse(c, "confirmed")
  <2>1. Apart
    BY <1>1, <1>2, <1>3, <1>8 DEF UploadGate, Enqueue, ConfirmCheck, Admit, MakeEligible
  <2> QED
    BY <2>1 DEF Kin
<1> QED
  BY <1>4, <1>5, <1>6, <1>7, <1>8

\* The steps of the backend.
LEMMA Backend_Price ==
    ASSUME TypeInv, Grown, PriceInv, UNCHANGED pageVars, Backend
    PROVE  PriceInv'
<1>0. /\ UNCHANGED <<uploads, key, priceVars>> /\ timer' = timer /\ key' = ProcessedAmong(uploads')
      /\ Alike /\ UNCHANGED <<shown, quoting, timer>>
  BY DEF pageVars, formVars, priceVars, PriceInv, Alike
<1>1. ASSUME NEW c \in Conn, QuoteCheck(c) \/ MakeQuote(c) \/ RequestFails(c) PROVE PriceInv'
  <2>1. Asks(c)' /\ Tells(c)' /\ \A b \in Conn : b # c => task'[b] = task[b]
    BY <1>1, Quoting_Asks DEF PriceInv
  <2>2. \A b \in Conn : b # c => Asks(b)' /\ Tells(b)'
    BY <1>0, <2>1, Kin_Asks DEF Kin, PriceInv
  <2>3. ShownIsChosen'
    BY <1>0, Shown_Same DEF PriceInv
  <2> QED
    BY <1>0, <2>1, <2>2, <2>3 DEF PriceInv
<1>2. ASSUME NEW c \in Conn, Handle(c), ~(QuoteCheck(c) \/ MakeQuote(c)) PROVE PriceInv'
  BY <1>0, <1>2, Others_Kin, Kin_Price DEF Handle
<1>3. CASE UNCHANGED task
  BY <1>0, <1>3, Kin_Price DEF Kin
<1>4. CASE \/ \E w \in Worker : WorkerStep(w) \/ WorkerStops(w)
           \/ \E d \in Doc : OnFailed(d) \/ MarkFailed(d) \/ Stalls(d)
           \/ \E n \in DOMAIN orders : Printed(n) \/ PrintFails(n) \/ Sweep(n)
  <2>1. UNCHANGED task
    BY <1>4 DEF WorkerStep, Take, ReadDocument, StartProcessing, StoreResult, NoResult, WorkerStops, OnFailed,
       MarkFailed, Stalls, Printed, PrintFails, Sweep
  <2> QED
    BY <1>3, <2>1
<1> QED
  BY <1>1, <1>2, <1>4 DEF Backend

\* A request that is not the latest any more is held to nothing.
LEMMA Outdated_Asks ==
    ASSUME TypeInv, NEW b \in Conn, task'[b] = Outdated[b]
    PROVE  Asks(b)' /\ Tells(b)'
<1>1. /\ Outdated[b].step = task[b].step
      /\ Outdated[b].latest = (task[b].latest /\ task[b].step \notin {"quote", "make", "quoted"})
  BY OutdatedSame
<1>2. Outdated[b].latest => Outdated[b].step \notin {"quote", "make", "quoted"}
  BY <1>1
<1>3. task'[b].latest => task'[b].step \notin {"quote", "make", "quoted"}
  BY <1>2
<1> QED
  BY <1>3 DEF Asks, Tells

\* A price is asked for what is on the page, and others are not the latest then.
LEMMA Recalculate_Price ==
    ASSUME TypeInv, NEW c \in Conn, NEW list, NEW s \in Sessions, Recalculate(c, list, s),
           uploads' = list, key' = ProcessedAmong(list)
    PROVE  PriceInv'
<1>1. /\ \A b \in Conn : b # c => task'[b] = Outdated[b]
      /\ \/ shown' = 0 /\ task'[c] = NoTask
         \/ quoting' = TRUE /\ task'[c].step = "quote" /\ task'[c].items = OptionsOf(list)
  BY Recalculate_Is
<1>2. \A b \in Conn : b # c => Asks(b)' /\ Tells(b)'
  BY <1>1, Outdated_Asks
<1>3. Asks(c)' /\ Tells(c)'
  <2>1. CASE task'[c] = NoTask
    BY <2>1, NoTaskFields DEF Asks, Tells
  <2>2. CASE task'[c].step = "quote" /\ task'[c].items = OptionsOf(list)
    <3>1. Fits(OptionsOf(list))'
      BY DEF Fits, OptionsOf, ProcessedAmong
    <3> QED
      BY <2>2, <3>1 DEF Asks, Tells
  <2> QED
    BY <1>1, <2>1, <2>2
<1>4. ShownIsChosen'
  BY <1>1 DEF ShownIsChosen
<1> QED
  BY <1>2, <1>3, <1>4 DEF PriceInv

\* The list of a session replaces the page's: if the same documents are processed,
\* their options are the same, or forgotten.
LEMMA Merge_Price ==
    ASSUME TypeInv, Grown, PriceInv, NEW c \in Conn, NEW docs, NEW s \in Sessions, Merge(c, docs, s)
    PROVE  PriceInv'
<1>1. PICK list :
        list = [d \in DOMAIN docs |->
                  [status |-> docs[d],
                   opt |-> IF d \in DOMAIN uploads \ twice THEN uploads[d].opt ELSE Default]]
  OBVIOUS
<1>2. /\ uploads' = list /\ key' = ProcessedAmong(list)
      /\ \/ Recalculate(c, list, s)
         \/ /\ key' = key /\ task' = [task EXCEPT ![c] = NoTask] /\ UNCHANGED <<shown, quoting, timer>>
            /\ forgotten' = forgotten \cup {d \in twice : uploads[d].opt # Default}
  BY <1>1 DEF Merge
<1>3. CASE /\ key' = key /\ task' = [task EXCEPT ![c] = NoTask] /\ UNCHANGED <<shown, quoting, timer>>
           /\ forgotten' = forgotten \cup {d \in twice : uploads[d].opt # Default}
  <2>1. ProcessedAmong(list) = ProcessedAmong(uploads)
    BY <1>2, <1>3 DEF PriceInv
  <2>2. ASSUME NEW d \in ProcessedAmong(uploads) \ forgotten' PROVE list[d].opt = uploads[d].opt
    <3>1. d \in DOMAIN docs /\ d \in DOMAIN uploads
      BY <1>1, <2>1, <2>2 DEF ProcessedAmong
    <3>2. d \in twice => uploads[d].opt = Default
      BY <1>3, <2>2
    <3> QED
      BY <1>1, <3>1, <3>2
  <2>3. Alike
    BY <1>2, <1>3, <2>1, <2>2 DEF Alike
  <2>4. \A b \in Conn : Kin(b)
    BY <1>3, OneSame, NoTaskFields DEF Kin, Pricing
  <2> QED
    BY <1>2, <1>3, <2>3, <2>4, Kin_Asks, Shown_Same DEF PriceInv
<1> QED
  BY <1>2, <1>3, Recalculate_Price

\* Steps of the browser that have nothing to do with prices.
LEMMA Browser_Kin ==
    ASSUME TypeInv, NEW c \in Conn,
           \/ \E d \in Doc : ChooseFile(c, d)
           \/ Poll(c) \/ Confirm(c) \/ Confirmed(c) \/ Track(c) \/ Tracked(c) \/ Breaks(c) \/ AskBreaks(c)
    PROVE  UNCHANGED <<uploads, key, priceVars>> /\ \A b \in Conn : Kin(b)
<1>1. UNCHANGED <<uploads, key, priceVars>>
  BY DEF ChooseFile, Poll, Confirm, Confirmed, Track, Tracked, Breaks, AskBreaks, formVars
<1>2. ASSUME NEW u, task' = [task EXCEPT ![c] = u], u.step \notin Pricing PROVE \A b \in Conn : Kin(b)
  BY <1>2, OneSame DEF Kin
<1>3. CASE Confirmed(c) \/ Tracked(c) \/ AskBreaks(c)
  BY <1>1, <1>2, <1>3, NoTaskFields DEF Confirmed, Tracked, AskBreaks, Pricing
<1>4. CASE Poll(c)
  <2>1. PICK u : u = Request("list")
    OBVIOUS
  <2>2. u.step = "list" /\ task' = [task EXCEPT ![c] = u]
    BY <1>4, <2>1, RequestFields DEF Poll
  <2> QED
    BY <1>1, <1>2, <2>2 DEF Pricing
<1>5. ASSUME NEW d \in Doc, ChooseFile(c, d) PROVE \A b \in Conn : Kin(b)
  <2>1. PICK u : u = [Request("upload") EXCEPT !.doc = d]
    OBVIOUS
  <2>2. u.step = "upload" /\ task' = [task EXCEPT ![c] = u]
    BY <1>5, <2>1, RequestFields DEF ChooseFile, Map, Fields
  <2> QED
    BY <1>2, <2>2 DEF Pricing
<1>6. CASE Confirm(c)
  <2>1. PICK u : u = [Request("confirm") EXCEPT !.no = shown]
    OBVIOUS
  <2>2. u.step = "confirm" /\ task' = [task EXCEPT ![c] = u]
    BY <1>6, <2>1, RequestFields DEF Confirm, Map, Fields
  <2> QED
    BY <1>1, <1>2, <2>2 DEF Pricing
<1>7. CASE Track(c)
  <2>1. PICK u : u = [Request("status") EXCEPT !.no = job]
    OBVIOUS
  <2>2. u.step = "status" /\ task' = [task EXCEPT ![c] = u]
    BY <1>7, <2>1, RequestFields DEF Track, Map, Fields
  <2> QED
    BY <1>1, <1>2, <2>2 DEF Pricing
<1>8. CASE Breaks(c)
  <2>1. PICK u : u = [task[c] EXCEPT !.heard = FALSE]
    OBVIOUS
  <2>2. u.step = task[c].step
    BY <2>1 DEF TypeInv, TasksOK, TaskOK, Map
  <2>3. task[c].step \notin Pricing /\ task' = [task EXCEPT ![c] = u]
    BY <1>8, <2>1 DEF Breaks, Pricing
  <2> QED
    BY <1>1, <1>2, <2>2, <2>3
<1> QED
  BY <1>1, <1>3, <1>4, <1>5, <1>6, <1>7, <1>8

\* An option is chosen: the price is stale until the timer has fired.
LEMMA SetOption_Price ==
    ASSUME TypeInv, PriceInv, NEW d, NEW o, SetOption(d, o)
    PROVE  PriceInv'
<1>1. /\ timer' = TRUE /\ quoting' = TRUE /\ key' = key /\ d \in DOMAIN uploads
      /\ uploads' = [uploads EXCEPT ![d].opt = o]
  BY DEF SetOption, ProcessedAmong
<1>2. PICK card : card = [uploads[d] EXCEPT !.opt = o]
  OBVIOUS
<1>3. card.status = uploads[d].status
  BY <1>1, <1>2 DEF TypeInv, PageOK, Map
<1>4. /\ DOMAIN uploads' = DOMAIN uploads /\ uploads'[d] = card
      /\ \A e \in DOMAIN uploads : e # d => uploads'[e] = uploads[e]
  BY <1>1, <1>2 DEF TypeInv, PageOK, Map
<1>5. ProcessedAmong(uploads') = ProcessedAmong(uploads)
  BY <1>3, <1>4 DEF ProcessedAmong
<1> QED
  BY <1>1, <1>5 DEF PriceInv, Asks, Tells, ShownIsChosen

\* An answer is shown if it is the latest.
LEMMA Quoted_Price ==
    ASSUME TypeInv, Grown, PriceInv, NEW c \in Conn, Quoted(c)
    PROVE  PriceInv'
<1>1. /\ task' = [task EXCEPT ![c] = NoTask] /\ task[c].step = "quoted"
      /\ UNCHANGED <<uploads, key, timer, forgotten, quotes>>
      /\ \/ shown' = 0
         \/ shown' = task[c].no /\ task[c].ok /\ task[c].latest
         \/ UNCHANGED <<shown, quoting, timer>>
  BY DEF Quoted, formVars, priceVars, serverVars, orderVars
<1>2. \A b \in Conn : Kin(b)
  BY <1>1, OneSame, NoTaskFields DEF Kin, Pricing
<1>3. Alike /\ key' = ProcessedAmong(uploads')
  BY <1>1 DEF PriceInv, Alike
<1>4. ShownIsChosen'
  <2>1. CASE shown' = 0
    BY <2>1 DEF ShownIsChosen
  <2>2. CASE shown' = task[c].no /\ task[c].ok /\ task[c].latest
    <3>1. PICK n, items : n = task[c].no /\ items = quotes[n].items
      OBVIOUS
    <3>2. ~timer => Fits(items)'
      BY <1>1, <1>3, <2>2, <3>1, Fits_Stays DEF PriceInv, Tells
    <3> QED
      BY <1>1, <2>2, <3>1, <3>2 DEF ShownIsChosen
  <2>3. CASE UNCHANGED <<shown, quoting, timer>>
    BY <1>3, <2>3, Shown_Same DEF PriceInv
  <2> QED
    BY <1>1, <2>1, <2>2, <2>3
<1>5. \A b \in Conn : Asks(b)' /\ Tells(b)'
  BY <1>1, <1>2, <1>3, Kin_Asks DEF PriceInv
<1> QED
  BY <1>3, <1>4, <1>5 DEF PriceInv

\* An order started over, or a page loaded again, has no price, and takes none that
\* was asked for before.
LEMMA Blank_Price ==
    ASSUME TypeInv, StartNewOrder \/ \E c \in Conn : Reload(c)
    PROVE  PriceInv'
<1>1. uploads' = <<>> /\ key' = {} /\ shown' = 0
  BY DEF StartNewOrder, Reload
<1>2. key' = ProcessedAmong(uploads') /\ ShownIsChosen'
  BY <1>1 DEF ProcessedAmong, ShownIsChosen
<1>3. \A b \in Conn : Asks(b)' /\ Tells(b)'
  <2>1. CASE StartNewOrder
    <3>1. task' = Outdated
      BY <2>1 DEF StartNewOrder
    <3> QED
      BY <3>1, Outdated_Asks
  <2>2. ASSUME NEW c \in Conn, Reload(c) PROVE \A b \in Conn : Asks(b)' /\ Tells(b)'
    <3>1. task'[c].step \in {"idle", "list", "status"}
      BY <2>2, Reload_Is
    <3>2. ASSUME NEW b \in Conn, b # c PROVE Asks(b)' /\ Tells(b)'
      <4>1. CASE task'[b] = NoTask
        BY <4>1, NoTaskFields DEF Asks, Tells
      <4>2. CASE Same(b) /\ task'[b].heard = FALSE /\ task[b].step \notin {"quoted"}
        BY <4>2 DEF Asks, Tells, Same
      <4> QED
        BY <2>2, <3>2, <4>1, <4>2, Reload_Is
    <3> QED
      BY <3>1, <3>2 DEF Asks, Tells
  <2> QED
    BY <2>1, <2>2
<1> QED
  BY <1>2, <1>3 DEF PriceInv

\* Every step keeps the price that of what is on the page.
LEMMA Next_Price ==
    ASSUME TypeInv, Grown, PriceInv, [Next]_vars
    PROVE  PriceInv'
<1>0. visit \in Sessions
  BY DEF TypeInv, PageOK
<1>1. CASE Backend /\ UNCHANGED pageVars
  BY <1>1, Backend_Price
<1>2. CASE UNCHANGED vars
  <2>1. UNCHANGED <<uploads, key, priceVars, task>>
    BY <1>2 DEF vars, formVars, intakeVars
  <2> QED
    BY <2>1, Kin_Price DEF Kin
<1>3. ASSUME NEW c \in Conn, Uploaded(c) PROVE PriceInv'
  <2>1. task[c].session \in Sessions
    BY DEF TypeInv, TasksOK, TaskOK
  <2>2. PICK list, s :
          /\ list = IF task[c].ok
                    THEN [d \in DOMAIN uploads \cup {task[c].doc} |->
                            IF d \in DOMAIN uploads THEN uploads[d]
                            ELSE [status |-> "UPLOADED", opt |-> Default]]
                    ELSE uploads
          /\ s = IF task[c].ok THEN task[c].session ELSE visit
    OBVIOUS
  <2>3. uploads' = list /\ key' = ProcessedAmong(list) /\ Recalculate(c, list, s)
    BY <1>3, <2>2 DEF Uploaded
  <2>4. s \in Sessions
    BY <1>0, <2>1, <2>2
  <2> QED
    BY <2>3, <2>4, Recalculate_Price
<1>4. ASSUME NEW c \in Conn, Listed(c) PROVE PriceInv'
  <2>1. task[c].session \in Sessions
    BY DEF TypeInv, TasksOK, TaskOK
  <2>2. PICK s : s = IF task[c].no = 0 THEN visit ELSE task[c].session
    OBVIOUS
  <2>3. Merge(c, task[c].items, s)
    BY <1>4, <2>2 DEF Listed
  <2>4. s \in Sessions
    BY <1>0, <2>1, <2>2
  <2> QED
    BY <2>3, <2>4, Merge_Price
<1>5. ASSUME NEW c \in Conn, TimerFires(c) PROVE PriceInv'
  <2>1. Recalculate(c, uploads, visit) /\ UNCHANGED <<uploads, key>> /\ key = ProcessedAmong(uploads)
    BY <1>5 DEF TimerFires, formVars, PriceInv
  <2> QED
    BY <1>0, <2>1, Recalculate_Price
<1>6. CASE Review \/ GoBack
  <2>1. UNCHANGED <<uploads, key, priceVars, task>>
    BY <1>6 DEF Review, GoBack
  <2> QED
    BY <2>1, Kin_Price DEF Kin
<1>7. ASSUME NEW c \in Conn,
             \/ \E d \in Doc : ChooseFile(c, d)
             \/ Poll(c) \/ Confirm(c) \/ Confirmed(c) \/ Track(c) \/ Tracked(c) \/ Breaks(c) \/ AskBreaks(c)
      PROVE  PriceInv'
  BY <1>7, Browser_Kin, Kin_Price
<1>8. CASE Browser
  BY <1>3, <1>4, <1>5, <1>6, <1>7, <1>8, SetOption_Price, Quoted_Price, Blank_Price DEF Browser
<1> QED
  BY <1>1, <1>2, <1>8 DEF Next, pageVars

\* A price that is not marked stale is that of the documents and options on the
\* screen, once the timer of the last tap has fired, in whatever order answers come.
THEOREM Spec_ShownIsChosen == Spec => []ShownIsChosen
<1>1. Init => PriceInv
  BY NoTaskFields DEF Init, IntakeInit, PriceInv, Asks, Tells, ShownIsChosen, ProcessedAmong
<1>2. TypeInv /\ PriceInv /\ [Next]_vars => PriceInv'
  BY Next_Kept, Next_Price DEF Kept
<1>3. PriceInv => ShownIsChosen
  BY DEF PriceInv
<1> QED
  BY <1>1, <1>2, <1>3, Spec_TypeInv, PTL DEF Spec
=============================================================================
