---------------------------- MODULE DocumentEditor ----------------------------
(***************************************************************************)
(* The page on which the shopkeeper edits the images of an order           *)
(* (DocumentEditorComponent), the canvas on it (ImageCanvas), and the      *)
(* service that stores the pictures it makes (PrintEditService).           *)
(*                                                                         *)
(* A stored picture is the pair of the document it shows and the number of *)
(* its call; the upload of a document is the document alone, and <<>> is   *)
(* no picture.  A request waits for its answer in `calls`: the page goes   *)
(* on meanwhile, and answers come in any order.  previewRequest is the     *)
(* field `latest` of a download.                                           *)
(*                                                                         *)
(* Left out: PDFs (a preview and applyEdit in place of the canvas; the     *)
(* calls are the same), older versions, and PRINT, after which the service *)
(* refuses every edit.  How places and settings are written is OrderEditor *)
(* (here in one step).                                                     *)
(***************************************************************************)
EXTENDS ImageCanvas

CONSTANTS
    Items,          \* the items of the order, in order
    Edited,         \* those edited on this browser before
    MaxCalls        \* bound: requests that wait for an answer at a time

Item == ToSet(Items)

ASSUME ItemsAssumption ==
    /\ Items \in Seq(Item) /\ Items # <<>> /\ IsInjective(Items)
    /\ Edited \subseteq Item /\ MaxCalls \in Nat

VARIABLES
    view,           \* job: its order and renderedS3Key
    sel,            \* selectedIndex
    asked,          \* the item of the latest preview request
    previews,       \* the downloads that go on
    shown,          \* previewBlob: <<>>, or the item it is for and the document it shows
    saved,          \* editorState: <<>> or a state
    latest,         \* localStorage: what loadLatestState finds of an item
    savingEdit, batchBusy,
    calls,          \* requests that wait for their answer
    rows,           \* the order and the renderedS3Key of the database
    objects,        \* the pictures in the store
    shuffled,       \* for a property: a card was moved or removed
    lost            \* for a property: pictures a reset deleted without ever telling the row

pageVars == <<view, sel, asked, previews, shown, saved, latest, savingEdit, batchBusy, shuffled>>
serverVars == <<calls, rows, objects, lost>>
vars == <<canvasVars, taps, faults, pageVars, serverVars>>

\* A state and a picture from an earlier visit.
Before == Snapshot(MaxTaps + 1, MaxTaps + 1, <<MaxTaps + 1>>)
Earlier(i) == <<i, 0>>

\* The cards without that of item i.
Without(order, i) == RemoveAt(order, CHOOSE n \in DOMAIN order : order[n] = i)

Selected == IF sel \in DOMAIN view.order THEN {view.order[sel]} ELSE {}

Init ==
    /\ look = 0 /\ marks = 0 /\ ops = <<>> /\ bitmap = <<>> /\ cache = <<>>
    /\ history = <<>> /\ pos = 0
    /\ restoring = FALSE /\ jobs = {} /\ settling = FALSE
    /\ taps = 0 /\ faults = 0
    /\ rows = [order |-> Items, render |-> [i \in Item |-> IF i \in Edited THEN Earlier(i) ELSE <<>>]]
    /\ view = rows /\ sel = 1
    /\ objects = {Earlier(i) : i \in Edited}
    /\ latest = [i \in Item |-> IF i \in Edited THEN <<Before>> ELSE <<>>]
    /\ asked = Items[1]
    /\ previews = {[item |-> Items[1], original |-> latest[Items[1]] # <<>>, file |-> <<>>, latest |-> TRUE]}
    /\ shown = <<>> /\ saved = latest[Items[1]]
    /\ savingEdit = FALSE /\ batchBusy = FALSE
    /\ calls = {} /\ shuffled = FALSE /\ lost = {}
-----------------------------------------------------------------------------
\* The preview.

\* loadPreview of the item at place n of v: the canvas goes with its file.
LoadPreview(v, n) ==
    IF n \notin DOMAIN v.order THEN UNCHANGED <<asked, previews, shown, saved, canvasVars>>
    ELSE LET item == v.order[n]
             edited == IF v.render[item] # <<>> THEN latest'[item] ELSE <<>>
         IN  /\ asked' = item
             /\ previews' = {[p EXCEPT !.latest = FALSE] : p \in previews} \union
                            {[item |-> item, original |-> edited # <<>>,
                              file |-> <<>>, latest |-> TRUE]}
             /\ shown' = <<>> /\ saved' = edited
             /\ CloseCanvas

\* selectIndex.
SelectIndex(v, n) == sel' = n /\ LoadPreview(v, n)

\* getItemPreviewUrl signs a link to what the item has now.
SignLink(p) ==
    /\ p.file = <<>> /\ p.item \in ToSet(rows.order)
    /\ LET key == rows.render[p.item]
       IN  previews' = (previews \ {p}) \union
                       {[p EXCEPT !.file = IF ~p.original /\ key # <<>> THEN key ELSE <<p.item>>]}
    /\ NoTap /\ UNCHANGED <<canvasVars, view, sel, asked, shown, saved, latest, savingEdit,
                            batchBusy, shuffled, serverVars>>

\* Mutant of Download: an older file replaces the one that was asked for last.
DownloadAny(p) ==
    /\ p.file \in objects \/ p.file = <<p.item>>
    /\ previews' = previews \ {p}
    /\ shown' = <<p.item, p.file[1]>> /\ OpenCanvas(saved)
    /\ NoTap /\ UNCHANGED <<view, sel, asked, saved, latest, savingEdit, batchBusy, shuffled, serverVars>>

\* downloadPreview has the file; only the latest request shows it.
Download(p) ==
    /\ p.file \in objects \/ p.file = <<p.item>>
    /\ previews' = previews \ {p}
    /\ IF p.latest THEN shown' = <<p.item, p.file[1]>> /\ OpenCanvas(saved)
       ELSE UNCHANGED <<shown, canvasVars>>
    /\ NoTap /\ UNCHANGED <<view, sel, asked, saved, latest, savingEdit, batchBusy, shuffled, serverVars>>

\* The item is gone, or the picture behind the link is: preview unavailable.
PreviewFails(p) ==
    /\ IF p.file = <<>> THEN p.item \notin ToSet(rows.order)
       ELSE p.file \notin objects /\ p.file # <<p.item>>
    /\ previews' = previews \ {p}
    /\ NoTap /\ UNCHANGED <<canvasVars, view, sel, asked, shown, saved, latest, savingEdit,
                            batchBusy, shuffled, serverVars>>
-----------------------------------------------------------------------------
\* What the shopkeeper does on the page.

NoJob == [order |-> <<>>, render |-> [i \in Item |-> <<>>]]

MayCall == Cardinality(calls) < MaxCalls

Call(kind, item, picture, rest) ==
    [kind |-> kind, stage |-> "sent", item |-> item, picture |-> picture, before |-> <<>>,
     rest |-> rest, job |-> NoJob, no |-> taps']

\* A card is clicked; next and prev.  To cancel what was done on the canvas
\* loads the preview again, as a click on the card that is selected does.
Select(n) ==
    /\ n \in DOMAIN view.order /\ Tap
    /\ UNCHANGED latest
    /\ SelectIndex(view, n)
    /\ UNCHANGED <<view, savingEdit, batchBusy, shuffled, serverVars>>

\* moveItem: the page shows the new order at once, the moved card is selected,
\* and the canvas stays as it is.
MoveItem(n, m) ==
    /\ {n, m} \subseteq DOMAIN view.order /\ m \in {n - 1, n + 1} /\ Tap /\ MayCall
    /\ LET order == [view.order EXCEPT ![n] = view.order[m], ![m] = view.order[n]]
       IN  /\ view' = [view EXCEPT !.order = order]
           /\ calls' = calls \union {Call("reorder", Items[1], <<>>, order)}
    /\ sel' = m /\ shuffled' = TRUE
    /\ UNCHANGED <<canvasVars, asked, previews, shown, saved, latest, savingEdit, batchBusy, rows, objects, lost>>

\* removeItem.
RemoveItem(i) ==
    /\ i \in ToSet(view.order) /\ Len(view.order) > 1 /\ Tap
    /\ MayCall
    /\ calls' = calls \union {Call("remove", i, <<>>, <<>>)}
    /\ shuffled' = TRUE
    /\ UNCHANGED <<canvasVars, view, sel, asked, previews, shown, saved, latest, savingEdit,
                   batchBusy, rows, objects, lost>>

\* applyAndSave and onCanvasEditorSave: the state is kept on this browser and
\* the picture is uploaded, both for the item that is selected.
Save(i) ==
    /\ IsOpen /\ ~savingEdit /\ i \in Selected /\ Tap
    /\ latest' = [latest EXCEPT ![i] = <<OnCanvas>>]
    /\ MayCall
    /\ calls' = calls \union {Call("save", i, <<shown[2], taps'>>, <<>>)}
    /\ savingEdit' = TRUE
    /\ UNCHANGED <<canvasVars, view, sel, asked, previews, shown, saved, batchBusy, shuffled, rows, objects, lost>>

\* resetEdits, offered for an item with a picture.
ResetEdits(i) ==
    /\ ~savingEdit /\ i \in Selected /\ view.render[i] # <<>> /\ Tap
    /\ MayCall
    /\ calls' = calls \union {Call("reset", i, <<>>, <<>>)}
    /\ UNCHANGED <<canvasVars, pageVars, rows, objects, lost>>

\* commitSettings.
CommitSettings(i) ==
    /\ i \in Selected /\ Tap
    /\ MayCall
    /\ calls' = calls \union {Call("settings", i, <<>>, <<>>)}
    /\ UNCHANGED <<canvasVars, pageVars, rows, objects, lost>>

\* Mutant of NextOfBatch: the picture is made from the file on the page.
NextOfBatchShown(rest, no) ==
    IF rest = <<>> THEN {}
    ELSE {[Call("batch", Head(rest), <<asked, no>>, Tail(rest)) EXCEPT !.no = no]}

\* The next picture of onApplyAll, made from the upload of its item.
NextOfBatch(rest, no) ==
    IF rest = <<>> THEN {}
    ELSE {[Call("batch", Head(rest), <<Head(rest), no>>, Tail(rest)) EXCEPT !.no = no]}

\* onApplyAll.
ApplyAll(i) ==
    /\ IsOpen /\ ~batchBusy /\ i \in Selected /\ Len(view.order) > 1 /\ Tap
    /\ batchBusy' = TRUE
    /\ MayCall
    /\ calls' = calls \union NextOfBatch(Without(view.order, i), taps')
    /\ UNCHANGED <<canvasVars, view, sel, asked, previews, shown, saved, latest, savingEdit,
                   shuffled, rows, objects, lost>>
-----------------------------------------------------------------------------
\* The service: the steps of a call between which others may run.

Becomes(c, d) == calls' = (calls \ {c}) \union {d}
Answered(c) == Becomes(c, [c EXCEPT !.stage = "answered"])
AnsweredWith(c, job) == Becomes(c, [c EXCEPT !.stage = "answered", !.job = job])
\* A refusal, which the page passes over but for the calls it waits for.
Refused(c) ==
    calls' = (calls \ {c}) \union
             IF c.kind \in {"save", "batch", "reorder"} THEN {[c EXCEPT !.stage = "refused"]} ELSE {}
Has(i) == i \in ToSet(rows.order)
Stays == NoTap /\ UNCHANGED <<canvasVars, pageVars, lost>>

\* getEditableItemOrThrow.
ReadItem(c) ==
    /\ c.kind \in {"save", "batch", "reset"} /\ c.stage = "sent"
    /\ IF Has(c.item) THEN Becomes(c, [c EXCEPT !.stage = "read", !.before = rows.render[c.item]])
       ELSE Refused(c)
    /\ Stays /\ UNCHANGED <<rows, objects>>

\* Mutant of UpdateRow: what the picture replaces is deleted first.
UpdateRowLast(c) ==
    /\ c.kind \in {"save", "batch"}
    /\ \/ /\ c.stage = "read"
          /\ Becomes(c, [c EXCEPT !.stage = "written"])
          /\ objects' = (objects \union {c.picture}) \ {c.before}
          /\ UNCHANGED rows
       \/ /\ c.stage = "written"
          /\ rows' = [rows EXCEPT !.render[c.item] = c.picture]
          /\ Answered(c) /\ UNCHANGED objects
    /\ Stays

\* applyRenderedImage: the picture is stored, then the row tells of it.
UpdateRow(c) ==
    /\ c.kind \in {"save", "batch"} /\ c.stage = "read"
    /\ objects' = objects \union {c.picture}
    /\ IF Has(c.item)
       THEN /\ rows' = [rows EXCEPT !.render[c.item] = c.picture]
            /\ Becomes(c, [c EXCEPT !.stage = "written"])
       ELSE Refused(c) /\ UNCHANGED rows
    /\ Stays

\* The picture that was replaced, as it was read before.
DeletePrevious(c) ==
    /\ c.kind \in {"save", "batch"} /\ c.stage = "written"
    /\ objects' = objects \ {c.before}
    /\ Answered(c)
    /\ Stays /\ UNCHANGED rows

\* resetEdit deletes the picture, then tells the row.
DeleteReset(c) ==
    /\ c.kind = "reset" /\ c.stage = "read"
    /\ objects' = objects \ {c.before}
    /\ Becomes(c, [c EXCEPT !.stage = "deleted"])
    /\ Stays /\ UNCHANGED rows

UpdateReset(c) ==
    /\ c.kind = "reset" /\ c.stage = "deleted"
    /\ IF Has(c.item) THEN rows' = [rows EXCEPT !.render[c.item] = <<>>] /\ Answered(c)
       ELSE Refused(c) /\ UNCHANGED rows
    /\ Stays /\ UNCHANGED objects

\* reorderItems, deleteItem, updateItemSettings and getForShop: what they
\* answer is the order as it is then.
WriteOrder(c) ==
    /\ c.kind \in {"reorder", "remove", "settings", "load"} /\ c.stage = "sent"
    /\ \/ /\ c.kind = "reorder" /\ ToSet(c.rest) = ToSet(rows.order)
          /\ rows' = [rows EXCEPT !.order = c.rest] /\ AnsweredWith(c, rows')
       \/ /\ c.kind = "remove" /\ Has(c.item) /\ Len(rows.order) > 1
          /\ rows' = [rows EXCEPT !.order = Without(rows.order, c.item)] /\ AnsweredWith(c, rows')
       \/ /\ c.kind = "load" \/ (c.kind = "settings" /\ Has(c.item))
          /\ AnsweredWith(c, rows) /\ UNCHANGED rows
       \/ /\ \/ c.kind = "reorder" /\ ToSet(c.rest) # ToSet(rows.order)
             \/ c.kind = "remove" /\ (~Has(c.item) \/ Len(rows.order) = 1)
             \/ c.kind = "settings" /\ ~Has(c.item)
          /\ Refused(c) /\ UNCHANGED rows
    /\ Stays /\ UNCHANGED objects

\* The picture cannot be read or stored, or it is stored and the row is not told.
StoreFails(c) ==
    /\ c.kind \in {"save", "batch"} /\ c.stage = "read"
    /\ faults < MaxFaults /\ faults' = faults + 1
    /\ objects' \in {objects, objects \union {c.picture}}
    /\ Refused(c)
    /\ UNCHANGED <<canvasVars, pageVars, taps, rows, lost>>

\* resetEdit stops, or its update fails, after the picture was deleted.
ResetFails(c) ==
    /\ c.kind = "reset" /\ c.stage = "deleted"
    /\ faults < MaxFaults /\ faults' = faults + 1
    /\ lost' = lost \union {c.before}
    /\ Refused(c)
    /\ UNCHANGED <<canvasVars, pageVars, taps, rows, objects>>
-----------------------------------------------------------------------------
\* What the page does with the answers.

Ends(c) == calls' = calls \ {c} /\ UNCHANGED <<rows, objects, lost>>

\* patchSelectedItem, of the item that is selected by now.
Patched(key) ==
    [view EXCEPT !.render = [i \in Item |-> IF i \in Selected THEN key ELSE view.render[i]]]

\* onCanvasEditorSave goes on.
SaveAnswered(c) ==
    /\ c.kind = "save" /\ c.stage = "answered"
    /\ savingEdit' = FALSE /\ view' = Patched(c.picture)
    /\ UNCHANGED latest
    /\ LoadPreview(view', sel)
    /\ Ends(c) /\ NoTap /\ UNCHANGED <<sel, batchBusy, shuffled>>

\* Mutant of SaveRefused: the button stays disabled.
SaveRefusedSaving(c) ==
    /\ c.kind = "save" /\ c.stage = "refused"
    /\ Ends(c) /\ NoTap /\ UNCHANGED <<canvasVars, pageVars>>

SaveRefused(c) ==
    /\ c.kind = "save" /\ c.stage = "refused"
    /\ savingEdit' = FALSE
    /\ Ends(c) /\ NoTap
    /\ UNCHANGED <<canvasVars, view, sel, asked, previews, shown, saved, latest, batchBusy, shuffled>>

\* resetEdits goes on.
ResetAnswered(c) ==
    /\ c.kind = "reset" /\ c.stage = "answered"
    /\ latest' = [latest EXCEPT ![c.item] = <<>>]
    /\ view' = Patched(<<>>)
    /\ LoadPreview(view', sel)
    /\ Ends(c) /\ NoTap /\ UNCHANGED <<sel, savingEdit, batchBusy, shuffled>>

\* One picture of onApplyAll is stored or not, and it takes the next.
BatchAnswered(c) ==
    /\ c.kind = "batch" /\ c.stage \in {"answered", "refused"}
    /\ IF c.stage = "refused" THEN UNCHANGED <<view, latest>>
       ELSE /\ latest' = [latest EXCEPT ![c.item] = <<>>]
            /\ view' = [view EXCEPT !.render[c.item] = c.picture]
    /\ calls' = (calls \ {c}) \union NextOfBatch(c.rest, c.no)
    /\ batchBusy' = (c.rest # <<>>)
    /\ NoTap
    /\ UNCHANGED <<canvasVars, sel, asked, previews, shown, saved, savingEdit, shuffled, rows, objects, lost>>

\* moveItem and commitSettings take the whole answer; a refused order is loaded again.
OrderAnswered(c) ==
    /\ c.kind \in {"reorder", "settings"} /\ c.stage \in {"answered", "refused"}
    /\ view' = IF c.stage = "answered" THEN c.job ELSE view
    /\ calls' = (calls \ {c}) \union
                IF c.kind = "reorder" /\ c.stage = "refused"
                THEN {[c EXCEPT !.kind = "load", !.stage = "sent", !.rest = <<>>]} ELSE {}
    /\ NoTap
    /\ UNCHANGED <<canvasVars, sel, asked, previews, shown, saved, latest, savingEdit, batchBusy,
                   shuffled, rows, objects, lost>>

\* removeItem and load go on with the card at the same place, or the last one.
CardsAnswered(c) ==
    /\ c.kind \in {"remove", "load"} /\ c.stage = "answered"
    /\ view' = c.job /\ UNCHANGED latest
    /\ SelectIndex(c.job, IF sel <= Len(c.job.order) THEN sel ELSE Len(c.job.order))
    /\ Ends(c) /\ NoTap /\ UNCHANGED <<savingEdit, batchBusy, shuffled>>

-----------------------------------------------------------------------------
PageTap ==
    \/ \E n \in 1 .. Len(view.order) : Select(n) \/ \E m \in {n - 1, n + 1} : MoveItem(n, m)
    \/ \E i \in Item : RemoveItem(i) \/ Save(i) \/ ResetEdits(i) \/ CommitSettings(i) \/ ApplyAll(i)

PageGoesOn == \E p \in previews : SignLink(p) \/ Download(p) \/ PreviewFails(p)

Serve(c) ==
    ReadItem(c) \/ UpdateRow(c) \/ DeletePrevious(c) \/ DeleteReset(c) \/ UpdateReset(c) \/ WriteOrder(c)

Answer(c) ==
    \/ SaveAnswered(c) \/ SaveRefused(c) \/ ResetAnswered(c) \/ BatchAnswered(c)
    \/ OrderAnswered(c) \/ CardsAnswered(c)

CanvasStep == CanvasNext /\ UNCHANGED <<pageVars, serverVars>>

Next ==
    \/ CanvasStep \/ PageTap \/ PageGoesOn
    \/ \E c \in calls : Serve(c) \/ Answer(c) \/ StoreFails(c) \/ ResetFails(c)

Spec == Init /\ [][Next]_vars

\* Computations end, requests are answered, and the page takes the answers.
FairSpec ==
    /\ Spec
    /\ WF_vars(CanvasGoesOn /\ UNCHANGED <<pageVars, serverVars>>)
    /\ WF_vars(PageGoesOn)
    /\ WF_vars(\E c \in calls : Serve(c) \/ Answer(c))
-----------------------------------------------------------------------------
TypeOK ==
    /\ {look, marks} \subseteq 0 .. MaxTaps + 1
    /\ ToSet(ops) \subseteq 1 .. MaxTaps + 1 /\ ToSet(bitmap) \subseteq 1 .. MaxTaps + 1
    /\ Len(cache) <= CacheSize
    /\ Len(history) <= HistoryLimit /\ pos \in 0 .. Len(history)
    /\ {restoring, settling, savingEdit, batchBusy, shuffled} \subseteq BOOLEAN
    /\ taps \in 0 .. MaxTaps /\ faults \in 0 .. MaxFaults
    /\ \A v \in {view, rows} : ToSet(v.order) \subseteq Item /\ DOMAIN v.render = Item
    /\ sel \in 1 .. Len(Items)
    /\ asked \in Item /\ \A p \in previews : p.item \in Item
    /\ ToSet(shown) \subseteq Item
    /\ \A i \in Item : Len(latest[i]) <= 1
    /\ \A c \in calls : c.item \in Item /\ c.stage \in {"sent", "read", "written", "deleted", "answered", "refused"}

\* However late the answers come, the image on the page is of the document
\* whose preview was asked for last (previewRequest in loadPreview).
ShownIsAsked == shown # <<>> => shown[1] = asked

\* As long as the cards stay where they are, no picture is ever stored for a
\* document other than the one it shows.
RenderIsOfItem ==
    ~shuffled => \A i \in Item : rows.render[i] # <<>> => rows.render[i][1] = i

\* Whatever saves, resets and batches overlap and wherever they fail, the picture
\* a row names, which is what PRINT sends, is in the store, unless resetEdit
\* deleted that very picture and has not told the row: not yet, or never because
\* it failed between its two writes.
RenderExists ==
    \A i \in ToSet(rows.order) :
        \/ rows.render[i] \in objects \union {<<>>} \union lost
        \/ \E c \in calls : c.kind = "reset" /\ c.stage = "deleted" /\ c.before = rows.render[i]

\* When no state is being restored, no edit waits to be recorded (historyChange$)
\* and no computation has failed, the marks on the canvas are those of the state
\* that undo and redo have arrived at, however many of them were begun before
\* the objects of one were made, and whatever was edited meanwhile.
MarksInHistory ==
    IsOpen /\ ~restoring /\ ~settling /\ faults = 0 => marks = history[pos].marks

\* Undo and redo step through the recorded states and nothing else.
Stack == INSTANCE UndoStack WITH
    Limit <- HistoryLimit,
    State <- [look : Nat, marks : Nat, ops : Seq(Nat)],
    past <- SubSeq(history, 1, pos), future <- SubSeq(history, pos + 1, Len(history))
ImplementsUndoStack == Stack!Spec

\* The editor becomes free again, whatever fails: nothing is restored, saved
\* or applied to all for ever, each of which refuses what the shopkeeper does.
BecomesFree == []<>(~restoring /\ ~savingEdit /\ ~batchBusy)
=============================================================================
