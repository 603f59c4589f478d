----------------------------- MODULE OrderEditor -----------------------------
(***************************************************************************)
(* The shop's editor of one order that is not printed yet: change the      *)
(* settings of an item, delete an item, reorder the items, while the shop  *)
(* may press PRINT or switch its pricing at any moment.                    *)
(*                                                                         *)
(* A request first reads the committed order, and later writes in a        *)
(* transaction.  Postgres runs it at READ COMMITTED: every statement sees  *)
(* what is committed by then and what its own transaction wrote, a row     *)
(* another transaction wrote is locked until that one ends, and a write of *)
(* a row that is gone fails.  Nothing else keeps editors apart.            *)
(*                                                                         *)
(* Rates do not change here while an order is edited; texts, renders and   *)
(* the rest of a row that no price depends on are left out.                *)
(***************************************************************************)
EXTENDS Naturals, Sequences, FiniteSets, Functions

CONSTANTS
    Item,           \* the items the order starts with
    Editor,         \* requests of the editor in progress at the same time
    Combo,          \* combinations of paper, colour and side
    Offered,        \* combinations the shop has an active rate for
    Tiered,         \* combinations with quantity tiers
    Rate(_, _),     \* price per page of a combination, for so many pages in the order
    PageCount,      \* PageCount[i]: pages of the document of item i
    Copies,         \* numbers of copies one can ask for
    QuotedPrice,    \* prices per page an earlier quote may have fixed
    MaxSwitches     \* bound: times the shop switches its pricing

ASSUME EditorAssumption ==
    /\ IsFiniteSet(Item) /\ Item # {}
    /\ Offered \subseteq Combo
    /\ Tiered \subseteq Offered
    /\ PageCount \in [Item -> Nat \ {0}]
    /\ Copies \subseteq Nat \ {0}
    /\ QuotedPrice \subseteq Nat
    /\ MaxSwitches \in Nat

VARIABLES
    status,         \* PrintJob.status: PRINT_ELIGIBLE, or QUEUED once PRINT is accepted
    priced,         \* PrintJob.priced
    sheet,          \* committed rows of the order, a function on the items it still has
    total,          \* PrintJob.amount
    released,       \* items whose document was set back to PROCESSED
    pricing,        \* the shop's pricingEnabled
    switches,       \* times the shop switched its pricing
    task,           \* task[e]: what request e does next
    mine,           \* mine[e]: rows e has written and not committed; e holds their locks
    gone,           \* gone[e]: rows e has deleted and not committed; locked as well
    overlapped      \* history: two requests were in progress at the same time

jobVars  == <<status, priced, sheet, total, released>>
shopVars == <<pricing, switches>>
vars     == <<status, priced, sheet, total, released, pricing, switches, task, mine, gone, overlapped>>

Idle == [step |-> "idle"]
NoRows == [i \in {} |-> 0]
-----------------------------------------------------------------------------
\* Pages of item i that are charged when its row is r.
Billable(i, r) == PageCount[i] * r.copies

\* The items of rows that share combination c, and the pages they come to.
Group(rows, c) == {i \in DOMAIN rows : rows[i].combo = c}
GroupPages(rows, c) ==
    SumFunctionOnSet([i \in DOMAIN rows |-> Billable(i, rows[i])], Group(rows, c))

SumOfAmounts(rows) == SumFunction([i \in DOMAIN rows |-> rows[i].amount])

\* What a statement of request e reads: what is committed, under its own writes.
View(e) ==
    [i \in DOMAIN sheet \ gone[e] |-> IF i \in DOMAIN mine[e] THEN mine[e][i] ELSE sheet[i]]

\* No other transaction has written row i.
Unlocked(e, i) == \A f \in Editor \ {e} : i \notin DOMAIN mine[f] \cup gone[f]

\* Request e can write row i: the row is there, and nobody else holds it.
Writable(e, i) == i \in DOMAIN View(e) /\ Unlocked(e, i)

\* Some transaction holds the row of the order itself.
JobLocked == \E e \in Editor : task[e].step = "close"

Go(e, next) == task' = [task EXCEPT ![e] = next]
PutRow(e, i, row) ==
    mine' = [mine EXCEPT ![e] = [k \in DOMAIN @ \cup {i} |-> IF k = i THEN row ELSE @[k]]]
-----------------------------------------------------------------------------
\* The order as the customer's quote left it: the items in the order they were
\* picked; a priced order charges one price per page in each combination, which
\* need not be the shop's rate of today.
QuotedRow(combo, copies, price, place, i) ==
    [combo  |-> combo[i],
     copies |-> copies[i],
     amount |-> IF priced THEN price[combo[i]] * PageCount[i] * copies[i] ELSE 0,
     place  |-> place[i]]

Init ==
    /\ status = "PRINT_ELIGIBLE"
    /\ priced \in BOOLEAN
    /\ \E combo \in [Item -> Offered], copies \in [Item -> Copies],
          price \in [Offered -> QuotedPrice],
          place \in Injection(Item, 0 .. Cardinality(Item) - 1) :
          sheet = [i \in Item |-> QuotedRow(combo, copies, price, place, i)]
    /\ total = SumOfAmounts(sheet)
    /\ released = {}
    /\ pricing \in BOOLEAN
    /\ switches = 0
    /\ task = [e \in Editor |-> Idle]
    /\ mine = [e \in Editor |-> NoRows]
    /\ gone = [e \in Editor |-> {}]
    /\ overlapped = FALSE
-----------------------------------------------------------------------------
\* getEditableJobOrThrow, and the guards of each operation on what it read.
Editable(e) == task[e].step = "idle" /\ status = "PRINT_ELIGIBLE"

\* The refusal to delete the last item counts the items committed by now.
StartDelete(e, i) ==
    /\ Editable(e)
    /\ i \in DOMAIN sheet
    /\ Cardinality(DOMAIN sheet) # 1
    /\ Go(e, [step |-> "pricing",
              edit |-> [kind |-> "delete", item |-> i, old |-> sheet[i].combo,
                        combo |-> sheet[i].combo, copies |-> sheet[i].copies]])
    /\ UNCHANGED <<jobVars, shopVars, mine, gone>>

\* What the request leaves out keeps the value read here.
StartSettings(e, i, c, n) ==
    /\ Editable(e)
    /\ i \in DOMAIN sheet
    /\ Go(e, [step |-> "pricing",
              edit |-> [kind |-> "settings", item |-> i, old |-> sheet[i].combo,
                        combo |-> c, copies |-> n]])
    /\ UNCHANGED <<jobVars, shopVars, mine, gone>>

\* Mutant of ListsItems: a list that repeats one item and misses another passes.
ListsSomeItems(ids) ==
    /\ Len(ids) = Cardinality(DOMAIN sheet)
    /\ Range(ids) \subseteq DOMAIN sheet

\* The request lists exactly the items of the order.
ListsItems(ids) ==
    /\ Len(ids) = Cardinality(DOMAIN sheet)
    /\ Range(ids) = DOMAIN sheet

StartReorder(e, ids) ==
    /\ Editable(e)
    /\ ListsItems(ids)
    /\ Go(e, [step |-> "place", ids |-> ids, next |-> 1])
    /\ UNCHANGED <<jobVars, shopVars, mine, gone>>

\* shouldReprice; settings of an order that is repriced need a rate.
ShouldReprice == priced /\ pricing

AskPricing(e) ==
    /\ task[e].step = "pricing"
    /\ task[e].edit.kind = "settings" /\ ShouldReprice => task[e].edit.combo \in Offered
    /\ Go(e, [step |-> "write", edit |-> task[e].edit, reprice |-> ShouldReprice])
    /\ UNCHANGED <<jobVars, shopVars, mine, gone>>
-----------------------------------------------------------------------------
\* Inside the transaction.  What follows the first write: the combinations to
\* reprice, with the edited items.
Repricing(edit) ==
    [step |-> "reprice", combos |-> {edit.old, edit.combo}, edited |-> {edit.item}]

\* Mutant of WriteDelete: without repricing the total is left alone.
WriteDeleteOnly(e) ==
    /\ task[e].step = "write" /\ task[e].edit.kind = "delete"
    /\ Writable(e, task[e].edit.item)
    /\ gone' = [gone EXCEPT ![e] = @ \cup {task[e].edit.item}]
    /\ Go(e, IF task[e].reprice THEN Repricing(task[e].edit) ELSE [step |-> "commit"])
    /\ UNCHANGED <<jobVars, shopVars, mine>>

WriteDelete(e) ==
    /\ task[e].step = "write" /\ task[e].edit.kind = "delete"
    /\ Writable(e, task[e].edit.item)
    /\ gone' = [gone EXCEPT ![e] = @ \cup {task[e].edit.item}]
    /\ Go(e, IF task[e].reprice THEN Repricing(task[e].edit) ELSE [step |-> "sum"])
    /\ UNCHANGED <<jobVars, shopVars, mine>>

WriteSettings(e) ==
    /\ task[e].step = "write" /\ task[e].edit.kind = "settings"
    /\ LET edit == task[e].edit IN
       /\ Writable(e, edit.item)
       /\ PutRow(e, edit.item,
                 [View(e)[edit.item] EXCEPT !.combo = edit.combo, !.copies = edit.copies])
    /\ Go(e, IF task[e].reprice THEN Repricing(task[e].edit) ELSE [step |-> "commit"])
    /\ UNCHANGED <<jobVars, shopVars, gone>>

\* Mutant of ToReprice: a new tier is for the edited items only.
ToRepriceEdited(rows, c, edited) == Group(rows, c) \cap edited

\* repriceCombos: which rows of combination c get a new amount.
ToReprice(rows, c, edited) ==
    IF c \in Tiered THEN Group(rows, c) ELSE Group(rows, c) \cap edited

\* One read of the rows decides all new amounts; the updates follow one by one.
ReadForReprice(e) ==
    /\ task[e].step = "reprice"
    /\ LET rows == View(e)
           todo == UNION {ToReprice(rows, c, task[e].edited) : c \in task[e].combos}
       IN  /\ \A c \in task[e].combos : Group(rows, c) # {} => c \in Offered
           /\ Go(e, [step |-> "amounts",
                     todo |-> [i \in todo |-> Rate(rows[i].combo, GroupPages(rows, rows[i].combo))
                                                 * Billable(i, rows[i])]])
    /\ UNCHANGED <<jobVars, shopVars, mine, gone>>

WriteAmount(e, i) ==
    /\ task[e].step = "amounts"
    /\ i \in DOMAIN task[e].todo
    /\ Writable(e, i)
    /\ PutRow(e, i, [View(e)[i] EXCEPT !.amount = task[e].todo[i]])
    /\ Go(e, [task[e] EXCEPT !.todo = Restrict(@, DOMAIN @ \ {i})])
    /\ UNCHANGED <<jobVars, shopVars, gone>>

\* recomputeJobAmount: read the rows, then write the order's own row.
ReadForTotal(e) ==
    /\ \/ task[e].step = "sum"
       \/ task[e].step = "amounts" /\ DOMAIN task[e].todo = {}
    /\ Go(e, [step |-> "total", sum |-> SumOfAmounts(View(e))])
    /\ UNCHANGED <<jobVars, shopVars, mine, gone>>

WriteTotal(e) ==
    /\ task[e].step = "total"
    /\ ~JobLocked
    /\ Go(e, [step |-> "close", sum |-> task[e].sum])
    /\ UNCHANGED <<jobVars, shopVars, mine, gone>>

WritePlace(e) ==
    /\ task[e].step = "place" /\ task[e].next <= Len(task[e].ids)
    /\ LET i == task[e].ids[task[e].next] IN
       /\ Writable(e, i)
       /\ PutRow(e, i, [View(e)[i] EXCEPT !.place = task[e].next - 1])
    /\ Go(e, [task[e] EXCEPT !.next = @ + 1])
    /\ UNCHANGED <<jobVars, shopVars, gone>>

\* The transaction of e has done all it wanted.
Done(e) ==
    \/ task[e].step \in {"commit", "close"}
    \/ task[e].step = "place" /\ task[e].next > Len(task[e].ids)

\* Mutant of Commit: the document of a deleted item is not released.
CommitKeepsDocuments(e) ==
    /\ Done(e)
    /\ sheet' = View(e)
    /\ total' = IF task[e].step = "close" THEN task[e].sum ELSE total
    /\ Go(e, Idle)
    /\ mine' = [mine EXCEPT ![e] = NoRows]
    /\ gone' = [gone EXCEPT ![e] = {}]
    /\ UNCHANGED <<status, priced, released, shopVars>>

Commit(e) ==
    /\ Done(e)
    /\ sheet' = View(e)
    /\ total' = IF task[e].step = "close" THEN task[e].sum ELSE total
    /\ released' = released \cup gone[e]
    /\ Go(e, Idle)
    /\ mine' = [mine EXCEPT ![e] = NoRows]
    /\ gone' = [gone EXCEPT ![e] = {}]
    /\ UNCHANGED <<status, priced, shopVars>>

\* A guard, a missing row, a deadlock, a timeout or a crash ends the request;
\* the database forgets what its transaction wrote.
Abort(e) ==
    /\ task[e].step # "idle"
    /\ Go(e, Idle)
    /\ mine' = [mine EXCEPT ![e] = NoRows]
    /\ gone' = [gone EXCEPT ![e] = {}]
    /\ UNCHANGED <<jobVars, shopVars>>
-----------------------------------------------------------------------------
\* triggerPrint's compare-and-swap writes the order's row, and waits for its lock.
Press ==
    /\ status = "PRINT_ELIGIBLE"
    /\ ~JobLocked
    /\ status' = "QUEUED"
    /\ UNCHANGED <<priced, sheet, total, released, shopVars, task, mine, gone>>

SwitchPricing ==
    /\ switches < MaxSwitches
    /\ pricing' = ~pricing
    /\ switches' = switches + 1
    /\ UNCHANGED <<jobVars, task, mine, gone>>

\* Lists a request may send: repeated or missing items included.
Lists == UNION {[1 .. n -> Item] : n \in 0 .. Cardinality(Item)}

EditorStep(e) ==
    \/ \E i \in Item : StartDelete(e, i) \/ WriteAmount(e, i)
    \/ \E i \in Item, c \in Combo, n \in Copies : StartSettings(e, i, c, n)
    \/ \E ids \in Lists : StartReorder(e, ids)
    \/ AskPricing(e)
    \/ WriteDelete(e)
    \/ WriteSettings(e)
    \/ ReadForReprice(e)
    \/ ReadForTotal(e)
    \/ WriteTotal(e)
    \/ WritePlace(e)
    \/ Commit(e)
    \/ Abort(e)

Step == (\E e \in Editor : EditorStep(e)) \/ Press \/ SwitchPricing

\* Two requests are past their first read and not over.
Overlap == \E e, f \in Editor : e # f /\ task[e] # Idle /\ task[f] # Idle

Next == Step /\ overlapped' = (overlapped \/ Overlap')

Spec == Init /\ [][Next]_vars
-----------------------------------------------------------------------------
(***************************************************************************)
(* Properties.                                                             *)
(***************************************************************************)
Row == [combo : Combo, copies : Copies, amount : Nat, place : Nat]
IsRows(f) == \E S \in SUBSET Item : f \in [S -> Row]
Edit == [kind : {"delete", "settings"}, item : Item, old : Combo, combo : Combo, copies : Copies]
IsTask(t) ==
    \/ t \in {Idle, [step |-> "commit"], [step |-> "sum"]}
    \/ t \in [step : {"pricing"}, edit : Edit]
    \/ t \in [step : {"write"}, edit : Edit, reprice : BOOLEAN]
    \/ t \in [step : {"reprice"}, combos : SUBSET Combo, edited : SUBSET Item]
    \/ \E S \in SUBSET Item : t \in [step : {"amounts"}, todo : [S -> Nat]]
    \/ t \in [step : {"total", "close"}, sum : Nat]
    \/ t \in [step : {"place"}, ids : Lists, next : Nat \ {0}]

\* Every variable has its type; rows in hand belong to the order still, and no
\* row is in two hands.
TypeOK ==
    /\ status \in {"PRINT_ELIGIBLE", "QUEUED"}
    /\ priced \in BOOLEAN
    /\ IsRows(sheet)
    /\ total \in Nat
    /\ released = Item \ DOMAIN sheet
    /\ pricing \in BOOLEAN
    /\ switches \in 0 .. MaxSwitches
    /\ overlapped \in BOOLEAN
    /\ \A e \in Editor :
          /\ IsTask(task[e])
          /\ IsRows(mine[e])
          /\ DOMAIN mine[e] \cup gone[e] \subseteq DOMAIN sheet
          /\ \A f \in Editor \ {e} :
                (DOMAIN mine[e] \cup gone[e]) \cap (DOMAIN mine[f] \cup gone[f]) = {}

\* No two documents of an order claim the same place in the print, whatever
\* reorderings, deletions and settings run at the same time (reorderItems
\* writes one row after the other, from a list checked before it began).
PlacesDistinct == IsInjective([i \in DOMAIN sheet |-> sheet[i].place])

\* The order costs what its items cost (recomputeJobAmount: "Keep the total in
\* step with the remaining items"), as long as no two requests of the editor
\* were under way at the same time: each transaction adds up the rows it sees,
\* and the last one to write the total may not have seen the other's.
TotalIsSum == ~overlapped => total = SumOfAmounts(sheet)

\* An order taken while pricing was off stays free, pricing switched on or not
\* (shouldReprice).  While the shop keeps its pricing on, a change in the pages
\* of a tiered combination moves all its items to the tier of the new number of
\* pages, those nobody edited included (repriceCombos), as long as
\* no two requests of the editor were under way at the same time.
AmountsFollowOrder ==
    [][/\ ~priced => total' = 0 /\ \A i \in DOMAIN sheet' : sheet'[i].amount = 0
       /\ \A c \in Tiered :
             /\ priced /\ pricing /\ switches = 0 /\ ~overlapped
             /\ GroupPages(sheet', c) # GroupPages(sheet, c)
             => \A i \in Group(sheet', c) :
                   sheet'[i].amount = Rate(c, GroupPages(sheet', c)) * Billable(i, sheet'[i])]_vars
=============================================================================
