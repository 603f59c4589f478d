------------------------- MODULE OrderEditor_proofs -------------------------
(***************************************************************************)
(* Places stay distinct for any number of editors, variables keep their    *)
(* types and an order that is not priced stays free; as long as requests   *)
(* come one at a time the total is the sum of the items and their amounts  *)
(* follow the tiers.                                                       *)
(***************************************************************************)
EXTENDS OrderEditor, FiniteSetTheorems, WellFoundedInduction, TLAPS

Held(e) == DOMAIN mine[e] \cup gone[e]

\* The variables are functions, and rows have the fields this proof reads.
IsRow(r) == r = [k \in DOMAIN r |-> r[k]] /\ {"place", "amount"} \subseteq DOMAIN r
HasFields(rows) == \A i \in DOMAIN rows : IsRow(rows[i])

Shape ==
    /\ task = [e \in Editor |-> task[e]]
    /\ mine = [e \in Editor |-> mine[e]]
    /\ gone = [e \in Editor |-> gone[e]]
    /\ DOMAIN sheet \subseteq Item
    /\ HasFields(sheet)
    /\ \A e \in Editor : HasFields(mine[e])

\* Row locks: what a transaction has written is there, and nobody else wrote it.
Locks ==
    /\ \A e \in Editor : Held(e) \subseteq DOMAIN sheet
    /\ \A e, f \in Editor : e # f => Held(e) \cap Held(f) = {}
    /\ \A e \in Editor : task[e].step \in {"idle", "pricing", "write"} => Held(e) = {}

\* A request that does not reorder leaves the places alone.
KeepsPlaces(e) ==
    task[e].step # "place" => \A i \in DOMAIN mine[e] : mine[e][i].place = sheet[i].place

\* A reordering under way lists every item still there once, and has given the
\* first ones their places.
Numbered(ids, n, rows, deleted, left) ==
    /\ Len(ids) \in Nat
    /\ DOMAIN ids = 1 .. Len(ids)
    /\ IsInjective(ids)
    /\ left \subseteq {ids[k] : k \in DOMAIN ids}
    /\ n \in 1 .. Len(ids) + 1
    /\ deleted = {}
    /\ DOMAIN rows = {ids[k] : k \in 1 .. n - 1}
    /\ \A k \in 1 .. n - 1 : rows[ids[k]].place = k - 1

Reordering(e) ==
    task[e].step = "place" =>
        Numbered(task[e].ids, task[e].next, mine[e], gone[e], DOMAIN sheet)

Distinct(rows) == \A i, j \in DOMAIN rows : rows[i].place = rows[j].place => i = j

PlacesInv ==
    /\ Shape
    /\ Locks
    /\ \A e \in Editor : KeepsPlaces(e) /\ Reordering(e)
    /\ Distinct(sheet)
-----------------------------------------------------------------------------
(***************************************************************************)
(* Lemmas about rows and about what a request reads.                       *)
(***************************************************************************)

\* Updating settings leaves place and amount of a row alone.
LEMMA SettingsUpdate ==
    ASSUME NEW r, IsRow(r), NEW x, NEW y
    PROVE  LET s == [r EXCEPT !.combo = x, !.copies = y]
           IN  IsRow(s) /\ s.place = r.place /\ s.amount = r.amount
  BY DEF IsRow

\* Updating the amount leaves the place alone, and the other way round.
LEMMA RowUpdates ==
    ASSUME NEW r, IsRow(r), NEW x
    PROVE  /\ IsRow([r EXCEPT !.amount = x])
           /\ [r EXCEPT !.amount = x].place = r.place
           /\ IsRow([r EXCEPT !.place = x])
           /\ [r EXCEPT !.place = x].place = x
           /\ [r EXCEPT !.place = x].amount = r.amount
  BY DEF IsRow

\* A request reads the rows it has not deleted, its own writes over the
\* committed ones.
LEMMA ViewRows ==
    ASSUME Shape, Locks, NEW e \in Editor
    PROVE  /\ DOMAIN View(e) = DOMAIN sheet \ gone[e]
           /\ HasFields(View(e))
           /\ \A i \in DOMAIN View(e) :
                 View(e)[i] = IF i \in DOMAIN mine[e] THEN mine[e][i] ELSE sheet[i]
  BY DEF Shape, Locks, View, HasFields

\* A list of the right length that names every item names each once.
LEMMA ListedOnce ==
    ASSUME NEW ids \in Lists, DOMAIN sheet \subseteq Item, ListsItems(ids)
    PROVE  /\ Len(ids) \in Nat
           /\ DOMAIN ids = 1 .. Len(ids)
           /\ IsInjective(ids)
           /\ DOMAIN sheet = {ids[k] : k \in DOMAIN ids}
  <1>1. PICK n \in 0 .. Cardinality(Item) : ids \in [1 .. n -> Item]
    BY DEF Lists
  <1>2. IsFiniteSet(Item) /\ Cardinality(Item) \in Nat
    BY EditorAssumption, FS_CardinalityType DEF EditorAssumption
  <1>3. n \in Nat /\ ids \in Seq(Item) /\ Len(ids) = n /\ DOMAIN ids = 1 .. n
    BY <1>1, <1>2
  <1>4. DOMAIN sheet = {ids[k] : k \in DOMAIN ids}
    BY DEF ListsItems, Range
  <1>5. ids \in Surjection(1 .. n, DOMAIN sheet)
    BY <1>1, <1>3, <1>4 DEF Surjection
  <1>6. IsFiniteSet(1 .. n) /\ Cardinality(1 .. n) = n
    BY <1>3, FS_Interval
  <1>7. ids \in Injection(1 .. n, DOMAIN sheet)
    BY <1>3, <1>5, <1>6, FS_Surjection DEF ListsItems
  <1> QED
    BY <1>3, <1>4, <1>7 DEF Injection
-----------------------------------------------------------------------------
(***************************************************************************)
(* Places: what the kinds of steps keep.                                   *)
(***************************************************************************)
Outside == {"idle", "pricing", "write"}

\* A step that only moves on in the request, outside of a reordering.
LEMMA MovesOn ==
    ASSUME PlacesInv, NEW e \in Editor, NEW next, Go(e, next),
           task[e].step # "place", next.step # "place",
           next.step \in Outside => task[e].step \in Outside,
           UNCHANGED <<sheet, mine, gone>>
    PROVE  PlacesInv'
  <1>1. task'[e] = next /\ \A f \in Editor \ {e} : task'[f] = task[f]
    BY DEF PlacesInv, Shape, Go
  <1>2. Shape'
    BY DEF PlacesInv, Shape, Go, HasFields
  <1>3. Locks'
    BY <1>1 DEF PlacesInv, Locks, Held, Outside
  <1>4. \A f \in Editor : KeepsPlaces(f)'
    BY <1>1 DEF PlacesInv, KeepsPlaces
  <1>5. \A f \in Editor : Reordering(f)'
    BY <1>1 DEF PlacesInv, Reordering
  <1> QED
    BY <1>2, <1>3, <1>4, <1>5 DEF PlacesInv, Distinct

\* A write of one row that keeps its place, outside of a reordering.
LEMMA WritesRow ==
    ASSUME PlacesInv, NEW e \in Editor, NEW next, Go(e, next),
           task[e].step # "place", next.step # "place", next.step \notin Outside,
           NEW i, Writable(e, i), NEW row, IsRow(row), row.place = View(e)[i].place,
           PutRow(e, i, row), UNCHANGED <<sheet, gone>>
    PROVE  PlacesInv'
  <1>1. task'[e] = next /\ \A f \in Editor \ {e} : task'[f] = task[f]
    BY DEF PlacesInv, Shape, Go
  <1>2. /\ DOMAIN mine'[e] = DOMAIN mine[e] \cup {i}
        /\ mine'[e][i] = row
        /\ \A k \in DOMAIN mine[e] \ {i} : mine'[e][k] = mine[e][k]
        /\ \A f \in Editor \ {e} : mine'[f] = mine[f]
    BY DEF PlacesInv, Shape, PutRow
  <1>3. i \in DOMAIN sheet \ gone[e] /\ row.place = sheet[i].place
    <2>1. /\ i \in DOMAIN sheet \ gone[e]
          /\ View(e)[i] = IF i \in DOMAIN mine[e] THEN mine[e][i] ELSE sheet[i]
      BY ViewRows DEF PlacesInv, Writable
    <2>2. i \in DOMAIN mine[e] => mine[e][i].place = sheet[i].place
      BY DEF PlacesInv, KeepsPlaces
    <2> QED
      BY <2>1, <2>2
  <1>4. Shape'
    <2>1. HasFields(mine'[e])
      BY <1>2 DEF PlacesInv, Shape, HasFields
    <2>2. \A f \in Editor : HasFields(mine'[f])
      BY <1>2, <2>1 DEF PlacesInv, Shape
    <2> QED
      BY <2>2 DEF PlacesInv, Shape, Go, PutRow
  <1>5. Locks'
    BY <1>1, <1>2, <1>3 DEF PlacesInv, Locks, Held, Outside, Writable, Unlocked
  <1>6. \A f \in Editor : KeepsPlaces(f)'
    BY <1>1, <1>2, <1>3 DEF PlacesInv, KeepsPlaces
  <1>7. \A f \in Editor : Reordering(f)'
    BY <1>1, <1>2 DEF PlacesInv, Reordering
  <1> QED
    BY <1>4, <1>5, <1>6, <1>7 DEF PlacesInv, Distinct

\* A reordering is asked for.
LEMMA StartsReorder ==
    ASSUME PlacesInv, NEW e \in Editor, NEW ids \in Lists, StartReorder(e, ids)
    PROVE  PlacesInv'
  <1> DEFINE next == [step |-> "place", ids |-> ids, next |-> 1]
  <1>1. /\ task[e].step = "idle" /\ Go(e, next)
        /\ sheet' = sheet /\ mine' = mine /\ gone' = gone
    BY DEF StartReorder, Editable, jobVars
  <1>2. task'[e] = next /\ \A f \in Editor \ {e} : task'[f] = task[f]
    BY <1>1 DEF PlacesInv, Shape, Go
  <1>3. Held(e) = {}
    BY <1>1 DEF PlacesInv, Locks
  <1>4. Reordering(e)'
    <2>1. /\ Len(ids) \in Nat /\ DOMAIN ids = 1 .. Len(ids) /\ IsInjective(ids)
          /\ DOMAIN sheet = {ids[k] : k \in DOMAIN ids}
      BY ListedOnce DEF PlacesInv, Shape, StartReorder
    <2>2. task'[e].ids = ids /\ task'[e].next = 1
      BY <1>2
    <2>3. 1 .. 1 - 1 = {} /\ DOMAIN mine[e] = {} /\ gone[e] = {}
      BY <1>3 DEF Held
    <2>4. Numbered(ids, 1, mine[e], gone[e], DOMAIN sheet)
      BY <2>1, <2>3 DEF Numbered
    <2> HIDE DEF next
    <2> QED
      BY <1>1, <2>2, <2>4 DEF Reordering
  <1>5. Shape'
    BY <1>1 DEF PlacesInv, Shape, Go, HasFields
  <1>6. Locks'
    BY <1>1, <1>2 DEF PlacesInv, Locks, Held
  <1>7. \A f \in Editor : KeepsPlaces(f)'
    BY <1>1, <1>2 DEF PlacesInv, KeepsPlaces
  <1>8. \A f \in Editor \ {e} : Reordering(f)'
    BY <1>1, <1>2 DEF PlacesInv, Reordering
  <1> QED
    BY <1>1, <1>4, <1>5, <1>6, <1>7, <1>8 DEF PlacesInv, Distinct

\* A reordering gives the next item its place.
LEMMA PlacesItem ==
    ASSUME PlacesInv, NEW e \in Editor, WritePlace(e)
    PROVE  PlacesInv'
  <1> DEFINE ids == task[e].ids
             n == task[e].next
             i == ids[n]
             row == [View(e)[i] EXCEPT !.place = n - 1]
             next == [task[e] EXCEPT !.next = @ + 1]
  <1>1. /\ task[e].step = "place" /\ n <= Len(ids) /\ Writable(e, i)
        /\ PutRow(e, i, row) /\ Go(e, next)
        /\ sheet' = sheet /\ gone' = gone
    BY DEF WritePlace, jobVars
  <1>2. task'[e] = next /\ \A f \in Editor \ {e} : task'[f] = task[f]
    BY <1>1 DEF PlacesInv, Shape, Go
  <1>3. next.step = "place" /\ next.ids = ids /\ next.next = n + 1
    BY <1>1 DEF PlacesInv, Reordering
  <1>4. /\ DOMAIN mine'[e] = DOMAIN mine[e] \cup {i}
        /\ mine'[e][i] = row
        /\ \A k \in DOMAIN mine[e] \ {i} : mine'[e][k] = mine[e][k]
        /\ \A f \in Editor \ {e} : mine'[f] = mine[f]
    BY <1>1 DEF PlacesInv, Shape, PutRow
  <1>5. IsRow(row) /\ row.place = n - 1
    <2>1. IsRow(View(e)[i])
      BY <1>1, ViewRows DEF PlacesInv, Writable, HasFields
    <2> QED
      BY <2>1, RowUpdates
  <1>6. i \in DOMAIN sheet \ gone[e]
    BY <1>1, ViewRows DEF PlacesInv, Writable
  <1> HIDE DEF row, next
  <1>7. Reordering(e)'
    <2>0. Numbered(ids, n, mine[e], gone[e], DOMAIN sheet)
      BY <1>1 DEF PlacesInv, Reordering
    <2> HIDE DEF ids, n, i
    <2>1. /\ Len(ids) \in Nat /\ DOMAIN ids = 1 .. Len(ids) /\ IsInjective(ids)
          /\ DOMAIN sheet \subseteq {ids[k] : k \in DOMAIN ids}
          /\ n \in 1 .. Len(ids) /\ gone[e] = {}
          /\ DOMAIN mine[e] = {ids[k] : k \in 1 .. n - 1}
          /\ \A k \in 1 .. n - 1 : mine[e][ids[k]].place = k - 1
      BY <1>1, <2>0 DEF Numbered
    <2>2. 1 .. (n + 1) - 1 = (1 .. n - 1) \cup {n} /\ n + 1 \in 1 .. Len(ids) + 1
      BY <2>1
    <2>3. \A k \in 1 .. n - 1 : ids[k] # i
      BY <2>1 DEF IsInjective, i
    <2>4. DOMAIN mine'[e] = {ids[k] : k \in 1 .. (n + 1) - 1}
      BY <1>4, <2>1, <2>2 DEF i
    <2>5. \A k \in 1 .. (n + 1) - 1 : mine'[e][ids[k]].place = k - 1
      BY <1>4, <1>5, <2>1, <2>2, <2>3 DEF i
    <2>6. task'[e].ids = ids /\ task'[e].next = n + 1
      BY <1>2, <1>3
    <2>7. Numbered(ids, n + 1, mine'[e], gone[e], DOMAIN sheet)
      BY <2>1, <2>2, <2>4, <2>5 DEF Numbered
    <2> QED
      BY <1>1, <2>6, <2>7 DEF Reordering
  <1>8. Shape'
    <2>1. HasFields(mine'[e])
      BY <1>4, <1>5 DEF PlacesInv, Shape, HasFields
    <2>2. \A f \in Editor : HasFields(mine'[f])
      BY <1>4, <2>1 DEF PlacesInv, Shape
    <2> QED
      BY <1>1, <2>2 DEF PlacesInv, Shape, Go, PutRow
  <1>9. Locks'
    BY <1>1, <1>2, <1>3, <1>4, <1>6
       DEF PlacesInv, Locks, Held, Writable, Unlocked
  <1>10. \A f \in Editor : KeepsPlaces(f)'
    BY <1>1, <1>2, <1>3, <1>4 DEF PlacesInv, KeepsPlaces
  <1>11. \A f \in Editor \ {e} : Reordering(f)'
    BY <1>1, <1>2, <1>4 DEF PlacesInv, Reordering
  <1> QED
    BY <1>1, <1>7, <1>8, <1>9, <1>10, <1>11 DEF PlacesInv, Distinct
-----------------------------------------------------------------------------
\* A deletion takes a row that nobody holds.
LEMMA DeletesRow ==
    ASSUME PlacesInv, NEW e \in Editor, WriteDelete(e)
    PROVE  PlacesInv'
  <1> DEFINE i == task[e].edit.item
             next == IF task[e].reprice THEN Repricing(task[e].edit) ELSE [step |-> "sum"]
  <1>1. /\ task[e].step = "write" /\ Writable(e, i)
        /\ gone' = [gone EXCEPT ![e] = @ \cup {i}] /\ Go(e, next)
        /\ sheet' = sheet /\ mine' = mine
    BY DEF WriteDelete, jobVars
  <1>2. next.step \in {"reprice", "sum"}
    BY DEF Repricing
  <1> HIDE DEF i, next
  <1>3. task'[e] = next /\ \A f \in Editor \ {e} : task'[f] = task[f]
    BY <1>1 DEF PlacesInv, Shape, Go
  <1>4. gone'[e] = gone[e] \cup {i} /\ \A f \in Editor \ {e} : gone'[f] = gone[f]
    BY <1>1 DEF PlacesInv, Shape
  <1>5. i \in DOMAIN sheet
    BY <1>1, ViewRows DEF PlacesInv, Writable
  <1>6. Shape'
    BY <1>1 DEF PlacesInv, Shape, Go, HasFields
  <1>7. Locks'
    BY <1>1, <1>2, <1>3, <1>4, <1>5 DEF PlacesInv, Locks, Held, Writable, Unlocked
  <1>8. \A f \in Editor : KeepsPlaces(f)'
    BY <1>1, <1>2, <1>3 DEF PlacesInv, KeepsPlaces
  <1>9. \A f \in Editor : Reordering(f)'
    BY <1>1, <1>2, <1>3, <1>4 DEF PlacesInv, Reordering
  <1> QED
    BY <1>1, <1>6, <1>7, <1>8, <1>9 DEF PlacesInv, Distinct

\* The end of a request forgets its writes; what it leaves to the others: rows
\* of theirs are untouched, items only go away.
LEMMA EndsRequest ==
    ASSUME PlacesInv, NEW e \in Editor, Go(e, Idle),
           mine' = [mine EXCEPT ![e] = NoRows], gone' = [gone EXCEPT ![e] = {}],
           DOMAIN sheet' \subseteq DOMAIN sheet,
           DOMAIN sheet \ DOMAIN sheet' \subseteq Held(e),
           \A i \in DOMAIN sheet \ Held(e) : sheet'[i] = sheet[i],
           HasFields(sheet'), Distinct(sheet')
    PROVE  PlacesInv'
  <1>1. task'[e] = Idle /\ \A f \in Editor \ {e} : task'[f] = task[f]
    BY DEF PlacesInv, Shape, Go
  <1>2. /\ mine'[e] = NoRows /\ gone'[e] = {}
        /\ \A f \in Editor \ {e} : mine'[f] = mine[f] /\ gone'[f] = gone[f]
    BY DEF PlacesInv, Shape
  <1>3. DOMAIN NoRows = {}
    BY DEF NoRows
  <1>4. \A f \in Editor \ {e} : Held(f) \cap Held(e) = {} /\ Held(f) \subseteq DOMAIN sheet
    BY DEF PlacesInv, Locks
  <1>5. Shape'
    <2>1. \A f \in Editor : HasFields(mine'[f])
      BY <1>2, <1>3 DEF PlacesInv, Shape, HasFields
    <2> QED
      BY <2>1 DEF PlacesInv, Shape, Go
  <1>6. Locks'
    BY <1>1, <1>2, <1>3, <1>4 DEF PlacesInv, Locks, Held
  <1>7. \A f \in Editor : KeepsPlaces(f)'
    <2>1. KeepsPlaces(e)'
      BY <1>2, <1>3 DEF KeepsPlaces
    <2>2. ASSUME NEW f \in Editor \ {e} PROVE KeepsPlaces(f)'
      <3>1. \A i \in DOMAIN mine[f] : sheet'[i] = sheet[i]
        BY <1>4 DEF Held
      <3> QED
        BY <1>1, <1>2, <3>1 DEF PlacesInv, KeepsPlaces
    <2> QED
      BY <2>1, <2>2
  <1>8. \A f \in Editor : Reordering(f)'
    <2>1. Reordering(e)'
      BY <1>1 DEF Reordering, Idle
    <2>2. ASSUME NEW f \in Editor \ {e}, task[f].step = "place" PROVE Reordering(f)'
      <3>1. Numbered(task[f].ids, task[f].next, mine[f], gone[f], DOMAIN sheet)
        BY <2>2 DEF PlacesInv, Reordering
      <3>2. Numbered(task[f].ids, task[f].next, mine[f], gone[f], DOMAIN sheet')
        BY <3>1 DEF Numbered
      <3> QED
        BY <1>1, <1>2, <3>2 DEF Reordering
    <2> QED
      BY <1>1, <2>1, <2>2 DEF Reordering
  <1> QED
    BY <1>5, <1>6, <1>7, <1>8 DEF PlacesInv

\* Whatever a request commits, the places of the order stay distinct: a
\* reordering has numbered every item that is left, others left places alone.
LEMMA Commits ==
    ASSUME PlacesInv, NEW e \in Editor, Commit(e)
    PROVE  PlacesInv'
  <1>1. /\ sheet' = View(e) /\ Go(e, Idle) /\ Done(e)
        /\ mine' = [mine EXCEPT ![e] = NoRows] /\ gone' = [gone EXCEPT ![e] = {}]
    BY DEF Commit
  <1>2. /\ DOMAIN sheet' = DOMAIN sheet \ gone[e] /\ HasFields(sheet')
        /\ \A i \in DOMAIN sheet' :
              sheet'[i] = IF i \in DOMAIN mine[e] THEN mine[e][i] ELSE sheet[i]
    BY <1>1, ViewRows DEF PlacesInv
  <1>3. Distinct(sheet')
    <2>1. CASE task[e].step # "place"
      <3>1. \A i \in DOMAIN sheet' : sheet'[i].place = sheet[i].place
        BY <1>2, <2>1 DEF PlacesInv, KeepsPlaces
      <3> QED
        BY <1>2, <3>1 DEF PlacesInv, Distinct
    <2>2. CASE task[e].step = "place"
      <3> DEFINE ids == task[e].ids
                 n == task[e].next
      <3>1. Numbered(ids, n, mine[e], gone[e], DOMAIN sheet) /\ n > Len(ids)
        BY <1>1, <2>2 DEF PlacesInv, Reordering, Done
      <3> HIDE DEF ids, n
      <3>2. 1 .. n - 1 = DOMAIN ids
        BY <3>1 DEF Numbered
      <3>3. \A i \in DOMAIN sheet' : \E k \in DOMAIN ids :
               i = ids[k] /\ sheet'[i].place = k - 1
        BY <1>2, <3>1, <3>2 DEF Numbered
      <3>4. DOMAIN ids \subseteq Int
        BY <3>1 DEF Numbered
      <3> QED
        BY <3>3, <3>4 DEF Distinct
    <2> QED
      BY <2>1, <2>2
  <1>4. \A i \in DOMAIN sheet \ Held(e) : sheet'[i] = sheet[i]
    BY <1>2 DEF Held
  <1>5. DOMAIN sheet \ DOMAIN sheet' \subseteq Held(e)
    BY <1>2 DEF Held
  <1> QED
    BY <1>1, <1>2, <1>3, <1>4, <1>5, EndsRequest

LEMMA PlacesStep ==
    ASSUME PlacesInv, [Next]_vars
    PROVE  PlacesInv'
  <1> USE DEF Outside
  <1>1. CASE UNCHANGED vars
    BY <1>1 DEF vars, PlacesInv, Shape, HasFields, Locks, Held, KeepsPlaces, Reordering, Distinct
  <1>2. CASE Press \/ SwitchPricing
    BY <1>2 DEF Press, SwitchPricing, jobVars, PlacesInv, Shape, HasFields, Locks, Held,
                KeepsPlaces, Reordering, Distinct
  <1>3. ASSUME NEW e \in Editor, EditorStep(e) PROVE PlacesInv'
    <2>1. ASSUME NEW i \in Item, StartDelete(e, i) PROVE PlacesInv'
      BY <2>1, MovesOn DEF StartDelete, Editable, jobVars
    <2>2. ASSUME NEW i \in Item, NEW c \in Combo, NEW n \in Copies, StartSettings(e, i, c, n)
          PROVE  PlacesInv'
      BY <2>2, MovesOn DEF StartSettings, Editable, jobVars
    <2>3. ASSUME NEW ids \in Lists, StartReorder(e, ids) PROVE PlacesInv'
      BY <2>3, StartsReorder
    <2>4. CASE AskPricing(e)
      BY <2>4, MovesOn DEF AskPricing, jobVars
    <2>5. CASE WriteDelete(e)
      BY <2>5, DeletesRow
    <2>6. CASE WriteSettings(e)
      <3> DEFINE edit == task[e].edit
                 row == [View(e)[edit.item] EXCEPT !.combo = edit.combo, !.copies = edit.copies]
                 next == IF task[e].reprice THEN Repricing(edit) ELSE [step |-> "commit"]
      <3>1. /\ task[e].step = "write" /\ Writable(e, edit.item)
            /\ PutRow(e, edit.item, row) /\ Go(e, next) /\ UNCHANGED <<sheet, gone>>
        BY <2>6 DEF WriteSettings, jobVars
      <3>2. next.step \in {"reprice", "commit"}
        BY DEF Repricing
      <3>3. IsRow(View(e)[edit.item])
        BY <3>1, ViewRows DEF PlacesInv, Writable, HasFields
      <3>4. IsRow(row) /\ row.place = View(e)[edit.item].place
        <4> DEFINE x == edit.combo
                   y == edit.copies
                   r == View(e)[edit.item]
        <4>1. row = [r EXCEPT !.combo = x, !.copies = y] /\ IsRow(r)
          BY <3>3
        <4> HIDE DEF x, y, r, row
        <4>2. IsRow([r EXCEPT !.combo = x, !.copies = y])
          BY <4>1, SettingsUpdate
        <4>3. [r EXCEPT !.combo = x, !.copies = y].place = r.place
          BY <4>1, SettingsUpdate
        <4> QED
          BY <4>1, <4>2, <4>3 DEF r
      <3> HIDE DEF edit, row, next
      <3> QED
        BY <3>1, <3>2, <3>4, WritesRow
    <2>7. CASE ReadForReprice(e)
      <3>1. /\ task[e].step = "reprice" /\ UNCHANGED <<sheet, mine, gone>>
            /\ \E t : Go(e, [step |-> "amounts", todo |-> t])
        BY <2>7 DEF ReadForReprice, jobVars
      <3> QED
        BY <3>1, MovesOn
    <2>8. ASSUME NEW i \in Item, WriteAmount(e, i) PROVE PlacesInv'
      <3> DEFINE row == [View(e)[i] EXCEPT !.amount = task[e].todo[i]]
                 next == [task[e] EXCEPT !.todo = Restrict(@, DOMAIN @ \ {i})]
      <3>1. /\ task[e].step = "amounts" /\ Writable(e, i)
            /\ PutRow(e, i, row) /\ Go(e, next) /\ UNCHANGED <<sheet, gone>>
        BY <2>8 DEF WriteAmount, jobVars
      <3>2. next.step = "amounts"
        BY <3>1
      <3>3. IsRow(View(e)[i])
        BY <3>1, ViewRows DEF PlacesInv, Writable, HasFields
      <3>4. IsRow(row) /\ row.place = View(e)[i].place
        BY <3>3, RowUpdates
      <3> HIDE DEF row, next
      <3> QED
        BY <3>1, <3>2, <3>4, WritesRow
    <2>9. CASE ReadForTotal(e)
      BY <2>9, MovesOn DEF ReadForTotal, jobVars
    <2>10. CASE WriteTotal(e)
      BY <2>10, MovesOn DEF WriteTotal, jobVars
    <2>11. CASE WritePlace(e)
      BY <2>11, PlacesItem
    <2>12. CASE Commit(e)
      BY <2>12, Commits
    <2>13. CASE Abort(e)
      BY <2>13, EndsRequest DEF Abort, jobVars, PlacesInv, Shape
    <2> QED
      BY <1>3, <2>1, <2>2, <2>3, <2>4, <2>5, <2>6, <2>7, <2>8, <2>9, <2>10, <2>11, <2>12, <2>13
         DEF EditorStep
  <1> QED
    BY <1>1, <1>2, <1>3 DEF Next, Step

LEMMA PlacesInit ==
    ASSUME Init
    PROVE  PlacesInv
  <1>1. PICK combo \in [Item -> Offered], copies \in [Item -> Copies],
             price \in [Offered -> QuotedPrice],
             place \in Injection(Item, 0 .. Cardinality(Item) - 1) :
                sheet = [i \in Item |-> QuotedRow(combo, copies, price, place, i)]
    BY DEF Init
  <1>2. /\ task = [e \in Editor |-> Idle] /\ mine = [e \in Editor |-> NoRows]
        /\ gone = [e \in Editor |-> {}]
    BY DEF Init
  <1>3. DOMAIN sheet = Item /\ \A i \in Item : IsRow(sheet[i]) /\ sheet[i].place = place[i]
    BY <1>1 DEF QuotedRow, IsRow
  <1>4. Distinct(sheet)
    BY <1>1, <1>3 DEF Distinct, Injection, IsInjective
  <1>5. Shape
    BY <1>2, <1>3 DEF Shape, HasFields, NoRows
  <1>6. Locks
    BY <1>2 DEF Locks, Held, NoRows
  <1>7. \A e \in Editor : KeepsPlaces(e) /\ Reordering(e)
    BY <1>2 DEF KeepsPlaces, Reordering, NoRows, Idle
  <1> QED
    BY <1>4, <1>5, <1>6, <1>7 DEF PlacesInv

\* The invariant behind the theorems of this module holds.
THEOREM Spec_PlacesInv == Spec => []PlacesInv
  <1>1. Init => PlacesInv
    BY PlacesInit
  <1>2. PlacesInv /\ [Next]_vars => PlacesInv'
    BY PlacesStep
  <1> QED
    BY <1>1, <1>2, PTL DEF Spec

\* No two documents of an order claim the same place in the print, whatever
\* number of requests edit it at the same time (reorderItems).
THEOREM Spec_PlacesDistinct == Spec => []PlacesDistinct
  <1>1. PlacesInv => PlacesDistinct
    BY DEF PlacesInv, Distinct, PlacesDistinct, IsInjective
  <1> QED
    BY <1>1, Spec_PlacesInv, PTL
-----------------------------------------------------------------------------
(***************************************************************************)
(* Requests one at a time: the total follows the items.                    *)
(***************************************************************************)
\* As long as requests have come one at a time, one is under way at most.
OneAtATime == ~overlapped => ~Overlap

LEMMA OneAtATimeStep ==
    ASSUME OneAtATime, [Next]_vars
    PROVE  OneAtATime'
  <1>1. CASE Next
    BY <1>1 DEF Next, OneAtATime
  <1>2. CASE UNCHANGED vars
    BY <1>2 DEF vars, OneAtATime, Overlap
  <1> QED
    BY <1>1, <1>2

\* A request that takes a step is under way before it or after it.
LEMMA StepsAreBusy ==
    ASSUME PlacesInv, NEW e \in Editor, EditorStep(e)
    PROVE  /\ task[e] # Idle \/ task'[e] # Idle
           /\ \A f \in Editor \ {e} : task'[f] = task[f]
  <1>1. \E next : Go(e, next)
    BY DEF EditorStep, StartDelete, WriteAmount, StartSettings, StartReorder, AskPricing,
       WriteDelete, WriteSettings, ReadForReprice, ReadForTotal, WriteTotal, WritePlace,
       Commit, Abort
  <1>2. \A f \in Editor \ {e} : task'[f] = task[f]
    BY <1>1 DEF Go, PlacesInv, Shape
  <1>3. ASSUME task[e] = Idle PROVE task'[e] # Idle
    <2>1. task[e].step = "idle"
      BY <1>3 DEF Idle
    <2>2. \/ \E i \in Item : StartDelete(e, i)
          \/ \E i \in Item, c \in Combo, n \in Copies : StartSettings(e, i, c, n)
          \/ \E ids \in Lists : StartReorder(e, ids)
      BY <2>1 DEF EditorStep, WriteAmount, AskPricing, WriteDelete, WriteSettings,
         ReadForReprice, ReadForTotal, WriteTotal, WritePlace, Commit, Done, Abort
    <2>3. task'[e].step \in {"pricing", "place"}
      BY <2>2 DEF StartDelete, StartSettings, StartReorder, Go, PlacesInv, Shape
    <2> QED
      BY <2>3 DEF Idle
  <1> QED
    BY <1>2, <1>3

\* So nobody else is under way when a request takes a step.
LEMMA OthersIdle ==
    ASSUME PlacesInv, OneAtATime, OneAtATime', ~overlapped, ~overlapped',
           NEW g \in Editor, EditorStep(g), NEW e \in Editor, e # g
    PROVE  task'[e] = Idle
  BY StepsAreBusy DEF OneAtATime, Overlap

Amounts(rows) == [i \in DOMAIN rows |-> rows[i].amount]

\* A transaction that will not write the total leaves the amounts alone; one
\* that will has read the rows it leaves.
TotalInv(e) ==
    /\ total = SumOfAmounts(sheet)
    /\ task[e].step \in {"commit", "place"} => Amounts(View(e)) = Amounts(sheet)
    /\ task[e].step \in {"total", "close"} => task[e].sum = SumOfAmounts(View(e))

LEMMA SameAmounts ==
    ASSUME NEW r, NEW s, Amounts(r) = Amounts(s)
    PROVE  SumOfAmounts(r) = SumOfAmounts(s)
  BY DEF Amounts, SumOfAmounts

\* Writing a row without changing its amount changes no amount that is read.
LEMMA KeepsAmounts ==
    ASSUME PlacesInv, NEW e \in Editor, NEW i, Writable(e, i), NEW row,
           row.amount = View(e)[i].amount, PutRow(e, i, row), UNCHANGED <<sheet, gone>>
    PROVE  Amounts(View(e)') = Amounts(View(e))
  <1>1. /\ DOMAIN mine'[e] = DOMAIN mine[e] \cup {i}
        /\ mine'[e][i] = row
        /\ \A k \in DOMAIN mine[e] \ {i} : mine'[e][k] = mine[e][k]
    BY DEF PlacesInv, Shape, PutRow
  <1>2. DOMAIN View(e)' = DOMAIN View(e)
    BY DEF View
  <1>3. ASSUME NEW k \in DOMAIN View(e) PROVE View(e)'[k].amount = View(e)[k].amount
    <2>1. View(e)'[k] = IF k = i THEN row ELSE View(e)[k]
      BY <1>1 DEF View
    <2> QED
      BY <2>1
  <1> QED
    BY <1>2, <1>3 DEF Amounts

\* A transaction that has written nothing reads the committed amounts.
LEMMA ReadsCommitted ==
    ASSUME PlacesInv, NEW e \in Editor, Held(e) = {}
    PROVE  Amounts(View(e)) = Amounts(sheet)
  <1>1. DOMAIN mine[e] = {} /\ gone[e] = {}
    BY DEF Held
  <1>2. View(e) = [i \in DOMAIN sheet |-> sheet[i]]
    BY <1>1 DEF View
  <1> QED
    BY <1>2 DEF Amounts

LEMMA TotalStep ==
    ASSUME NEW e \in Editor, PlacesInv, TotalInv(e),
           EditorStep(e) \/ Press \/ SwitchPricing \/ UNCHANGED vars
    PROVE  TotalInv(e)'
  <1> DEFINE Last == {"commit", "place", "total", "close"}
  <1>1. ASSUME NEW next, Go(e, next), next.step \notin Last, UNCHANGED <<sheet, total>>
        PROVE  TotalInv(e)'
    <2>1. task'[e] = next
      BY <1>1 DEF PlacesInv, Shape, Go
    <2> QED
      BY <1>1, <2>1 DEF TotalInv
  <1>2. ASSUME task'[e] = task[e], UNCHANGED <<sheet, total, mine, gone>>
        PROVE  TotalInv(e)'
    BY <1>2 DEF TotalInv, View
  <1>3. CASE UNCHANGED vars \/ Press \/ SwitchPricing
    BY <1>2, <1>3 DEF vars, Press, SwitchPricing, jobVars
  <1>4. CASE EditorStep(e)
    <2>1. ASSUME NEW i \in Item, StartDelete(e, i) PROVE TotalInv(e)'
      BY <1>1, <2>1 DEF StartDelete, jobVars
    <2>2. ASSUME NEW i \in Item, NEW c \in Combo, NEW n \in Copies, StartSettings(e, i, c, n)
          PROVE  TotalInv(e)'
      BY <1>1, <2>2 DEF StartSettings, jobVars
    <2>3. ASSUME NEW ids \in Lists, StartReorder(e, ids) PROVE TotalInv(e)'
      <3>1. /\ task[e].step = "idle" /\ UNCHANGED <<sheet, total, mine, gone>>
            /\ task'[e].step = "place"
        BY <2>3 DEF StartReorder, Editable, jobVars, Go, PlacesInv, Shape
      <3>2. Amounts(View(e)) = Amounts(sheet)
        BY <3>1, ReadsCommitted DEF PlacesInv, Locks
      <3> QED
        BY <3>1, <3>2 DEF TotalInv, View
    <2>4. CASE AskPricing(e)
      BY <1>1, <2>4 DEF AskPricing, jobVars
    <2>5. CASE WriteDelete(e)
      <3> DEFINE next == IF task[e].reprice THEN Repricing(task[e].edit) ELSE [step |-> "sum"]
      <3>1. Go(e, next) /\ next.step \notin Last /\ UNCHANGED <<sheet, total>>
        BY <2>5 DEF WriteDelete, Repricing, jobVars
      <3> HIDE DEF next
      <3> QED
        BY <1>1, <3>1
    <2>6. CASE WriteSettings(e)
      <3> DEFINE edit == task[e].edit
                 x == edit.combo
                 y == edit.copies
                 r == View(e)[edit.item]
                 row == [r EXCEPT !.combo = x, !.copies = y]
      <3>1. /\ task[e].step = "write" /\ Writable(e, edit.item)
            /\ PutRow(e, edit.item, row) /\ UNCHANGED <<sheet, total, gone>>
            /\ Go(e, IF task[e].reprice THEN Repricing(edit) ELSE [step |-> "commit"])
        BY <2>6 DEF WriteSettings, jobVars
      <3>2. task'[e].step \in {"reprice", "commit"}
        BY <3>1 DEF Repricing, Go, PlacesInv, Shape
      <3>3. IsRow(r)
        BY <3>1, ViewRows DEF PlacesInv, Writable, HasFields
      <3>4. row.amount = r.amount
        <4> HIDE DEF x, y, r
        <4> QED
          BY <3>3, SettingsUpdate
      <3>5. Amounts(View(e)) = Amounts(sheet)
        BY <3>1, ReadsCommitted DEF PlacesInv, Locks
      <3> HIDE DEF edit, x, y, row
      <3>6. Amounts(View(e)') = Amounts(View(e))
        BY <3>1, <3>4, KeepsAmounts
      <3> QED
        BY <3>1, <3>2, <3>5, <3>6 DEF TotalInv, Amounts
    <2>7. CASE ReadForReprice(e)
      <3>1. UNCHANGED <<sheet, total>> /\ \E t : Go(e, [step |-> "amounts", todo |-> t])
        BY <2>7 DEF ReadForReprice, jobVars
      <3> QED
        BY <1>1, <3>1
    <2>8. ASSUME NEW i \in Item, WriteAmount(e, i) PROVE TotalInv(e)'
      <3> DEFINE next == [task[e] EXCEPT !.todo = Restrict(@, DOMAIN @ \ {i})]
      <3>1. Go(e, next) /\ next.step = "amounts" /\ UNCHANGED <<sheet, total>>
        BY <2>8 DEF WriteAmount, jobVars
      <3> HIDE DEF next
      <3> QED
        BY <1>1, <3>1
    <2>9. CASE ReadForTotal(e)
      <3>1. /\ task'[e] = [step |-> "total", sum |-> SumOfAmounts(View(e))]
            /\ UNCHANGED <<sheet, total, mine, gone>>
        BY <2>9 DEF ReadForTotal, jobVars, Go, PlacesInv, Shape
      <3>2. View(e)' = View(e)
        BY <3>1 DEF View
      <3>3. SumOfAmounts(View(e))' = SumOfAmounts(View(e))
        BY <3>2 DEF SumOfAmounts
      <3> QED
        BY <3>1, <3>3 DEF TotalInv, SumOfAmounts
    <2>10. CASE WriteTotal(e)
      <3>1. /\ task[e].step = "total" /\ task'[e] = [step |-> "close", sum |-> task[e].sum]
            /\ UNCHANGED <<sheet, total, mine, gone>>
        BY <2>10 DEF WriteTotal, jobVars, Go, PlacesInv, Shape
      <3>2. View(e)' = View(e)
        BY <3>1 DEF View
      <3> QED
        BY <3>1, <3>2 DEF TotalInv, SumOfAmounts
    <2>11. CASE WritePlace(e)
      <3> DEFINE i == task[e].ids[task[e].next]
                 x == task[e].next - 1
                 r == View(e)[i]
                 row == [r EXCEPT !.place = x]
      <3>1. /\ task[e].step = "place" /\ Writable(e, i)
            /\ PutRow(e, i, row) /\ UNCHANGED <<sheet, total, gone>>
            /\ Go(e, [task[e] EXCEPT !.next = @ + 1])
        BY <2>11 DEF WritePlace, jobVars
      <3>2. task'[e].step = "place"
        <4> DEFINE next == [task[e] EXCEPT !.next = @ + 1]
        <4>1. next.step = "place"
          BY <3>1
        <4>2. task'[e] = next
          BY <3>1 DEF Go, PlacesInv, Shape
        <4> QED
          BY <4>1, <4>2
      <3>3. IsRow(r)
        BY <3>1, ViewRows DEF PlacesInv, Writable, HasFields
      <3>4. row.amount = r.amount
        <4> HIDE DEF x, r
        <4> QED
          BY <3>3, RowUpdates
      <3>5. Amounts(View(e)) = Amounts(sheet)
        BY <3>1 DEF TotalInv
      <3> HIDE DEF i, x, row
      <3>6. Amounts(View(e)') = Amounts(View(e))
        BY <3>1, <3>4, KeepsAmounts
      <3> QED
        BY <3>1, <3>2, <3>5, <3>6 DEF TotalInv, Amounts
    <2>12. CASE Commit(e)
      <3>1. /\ sheet' = View(e) /\ Done(e) /\ task'[e] = Idle
            /\ total' = IF task[e].step = "close" THEN task[e].sum ELSE total
        BY <2>12 DEF Commit, Go, PlacesInv, Shape
      <3>2. task[e].step # "close" => Amounts(View(e)) = Amounts(sheet)
        BY <3>1 DEF Done, TotalInv
      <3>3. total' = SumOfAmounts(View(e))
        BY <3>1, <3>2, SameAmounts DEF TotalInv
      <3>4. SumOfAmounts(sheet)' = SumOfAmounts(View(e))
        BY <3>1 DEF SumOfAmounts
      <3> QED
        BY <3>1, <3>3, <3>4 DEF TotalInv, Idle
    <2>13. CASE Abort(e)
      BY <1>1, <2>13 DEF Abort, Idle, jobVars
    <2> QED
      BY <1>4, <2>1, <2>2, <2>3, <2>4, <2>5, <2>6, <2>7, <2>8, <2>9, <2>10, <2>11, <2>12, <2>13
         DEF EditorStep
  <1> QED
    BY <1>3, <1>4

\* The total, for any number of requests.
TotalsInv ==
    ~overlapped => total = SumOfAmounts(sheet) /\ \A e \in Editor : TotalInv(e)

LEMMA TotalsStep ==
    ASSUME PlacesInv, OneAtATime, TotalsInv, [Next]_vars
    PROVE  TotalsInv'
  <1> SUFFICES ASSUME ~overlapped'
               PROVE  /\ total' = SumOfAmounts(sheet')
                      /\ \A e \in Editor : TotalInv(e)'
    BY DEF TotalsInv, SumOfAmounts
  <1>1. ~overlapped
    BY DEF Next, vars
  <1>2. total = SumOfAmounts(sheet) /\ \A e \in Editor : TotalInv(e)
    BY <1>1 DEF TotalsInv
  <1>3. CASE Press \/ SwitchPricing \/ UNCHANGED vars
    <2>1. total' = total /\ sheet' = sheet
      BY <1>3 DEF Press, SwitchPricing, vars, jobVars
    <2>2. \A e \in Editor : TotalInv(e)'
      BY <1>2, <1>3, TotalStep
    <2> QED
      BY <1>2, <2>1, <2>2
  <1>4. ASSUME NEW g \in Editor, EditorStep(g)
        PROVE  /\ total' = SumOfAmounts(sheet')
               /\ \A e \in Editor : TotalInv(e)'
    <2>1. TotalInv(g)'
      BY <1>2, <1>4, TotalStep
    <2>2. total' = SumOfAmounts(sheet')
      BY <2>1 DEF TotalInv, SumOfAmounts
    <2>3. ASSUME NEW e \in Editor, e # g PROVE TotalInv(e)'
      <3>1. task'[e].step = "idle"
        BY <1>1, <1>4, <2>3, OneAtATimeStep, OthersIdle DEF Idle
      <3> QED
        BY <2>1, <3>1 DEF TotalInv
    <2> QED
      BY <2>1, <2>2, <2>3
  <1> QED
    BY <1>3, <1>4 DEF Next, Step

\* As long as requests of the editor come one at a time, the order costs what
\* its items cost, whatever is repriced, and PRINT may come in between
\* (deleteItem, updateItemSettings, recomputeJobAmount).
THEOREM Spec_TotalIsSum == Spec => []TotalIsSum
  <1> DEFINE Inv == OneAtATime /\ TotalsInv
  <1>1. Init => Inv
    BY DEF Init, OneAtATime, Overlap, TotalsInv, TotalInv, Idle
  <1>2. PlacesInv /\ Inv /\ [Next]_vars => Inv'
    BY OneAtATimeStep, TotalsStep
  <1>3. Inv => TotalIsSum
    BY DEF TotalsInv, TotalIsSum
  <1> QED
    BY <1>1, <1>2, <1>3, Spec_PlacesInv, PTL DEF Spec
-----------------------------------------------------------------------------
(***************************************************************************)
(* Sums over finite sets: what SumFunctionOnSet returns.  Its recursion has*)
(* one solution on the subsets of a finite set, for a set on which two     *)
(* solutions differ would have a smallest such subset.                     *)
(***************************************************************************)
\* Of some subsets of a finite set one holds no other.
LEMMA SmallestSubset ==
    ASSUME NEW S, IsFiniteSet(S), NEW T, T \subseteq SUBSET S, T # {}
    PROVE  \E t \in T : \A u \in T : u \subseteq t => u = t
  <1> DEFINE R == StrictSubsetOrdering(S)
             F == FiniteSubsetsOf(S)
  <1>1. T \subseteq F
    BY FS_Subset DEF FiniteSubsetsOf
  <1>2. IsWellFoundedOn(R, F)
    BY FS_StrictSubsetOrderingWellFounded
  <1>3. PICK t \in T : \A u \in T : ~(<<u, t>> \in R)
    BY <1>1, <1>2, WFMin
  <1> QED
    BY <1>3 DEF StrictSubsetOrdering

\* The sum over a set is the last value of a function on its subsets.
Pick(s) == CHOOSE x \in s : TRUE
IsSum(fun, S, f) ==
    f = [s \in SUBSET S |-> IF s = {} THEN 0 ELSE fun[Pick(s)] + f[s \ {Pick(s)}]]

LEMMA SumIs ==
    ASSUME NEW fun, NEW S
    PROVE  SumFunctionOnSet(fun, S) = (CHOOSE f : IsSum(fun, S, f))[S]
  BY DEF SumFunctionOnSet, FoldFunctionOnSet, MapThenFoldSet, IsSum, Pick

LEMMA SumEquation ==
    ASSUME NEW fun, NEW S, NEW f, IsSum(fun, S, f), NEW s \in SUBSET S
    PROVE  f[s] = IF s = {} THEN 0 ELSE fun[Pick(s)] + f[s \ {Pick(s)}]
  BY DEF IsSum

LEMMA PickIn == ASSUME NEW s, s # {} PROVE Pick(s) \in s
  BY DEF Pick

\* Such functions agree where both are defined.
LEMMA SumUnique ==
    ASSUME NEW fun, NEW S, NEW T, IsFiniteSet(S), NEW f, NEW g,
           IsSum(fun, S, f), IsSum(fun, T, g), NEW s \in (SUBSET S) \cap (SUBSET T)
    PROVE  f[s] = g[s]
  <1> DEFINE Bad == {t \in (SUBSET S) \cap (SUBSET T) : f[t] # g[t]}
  <1>1. SUFFICES ASSUME Bad # {} PROVE FALSE
    OBVIOUS
  <1>2. PICK t \in Bad : \A u \in Bad : u \subseteq t => u = t
    <2>1. Bad \subseteq SUBSET S
      OBVIOUS
    <2> HIDE DEF Bad
    <2> QED
      BY <1>1, <2>1, SmallestSubset
  <1>3. t # {}
    BY <1>2, SumEquation
  <1>4. Pick(t) \in t
    BY <1>3, PickIn
  <1>5. f[t \ {Pick(t)}] = g[t \ {Pick(t)}]
    BY <1>2, <1>4
  <1>6. /\ f[t] = fun[Pick(t)] + f[t \ {Pick(t)}]
        /\ g[t] = fun[Pick(t)] + g[t \ {Pick(t)}]
    <2>1. t \in SUBSET S
      BY <1>2
    <2>2. t \in SUBSET T
      BY <1>2
    <2> HIDE DEF Bad
    <2>3. f[t] = fun[Pick(t)] + f[t \ {Pick(t)}]
      BY <1>3, <2>1, SumEquation
    <2>4. g[t] = fun[Pick(t)] + g[t \ {Pick(t)}]
      BY <1>3, <2>2, SumEquation
    <2> QED
      BY <2>3, <2>4
  <1> QED
    BY <1>2, <1>5, <1>6

\* There is one for every finite set.
LEMMA SumExists ==
    ASSUME NEW fun, NEW S, IsFiniteSet(S)
    PROVE  IsSum(fun, S, CHOOSE f : IsSum(fun, S, f))
  <1> DEFINE H(s) == CHOOSE f : IsSum(fun, s, f)
             Bad == {s \in SUBSET S : ~IsSum(fun, s, H(s))}
  <1>1. SUFFICES ASSUME Bad # {} PROVE FALSE
    OBVIOUS
  <1>2. PICK t \in Bad : \A u \in Bad : u \subseteq t => u = t
    <2>1. Bad \subseteq SUBSET S
      OBVIOUS
    <2> HIDE DEF Bad
    <2> QED
      BY <1>1, <2>1, SmallestSubset
  <1> DEFINE g == [u \in SUBSET t |-> IF u = {} THEN 0 ELSE fun[Pick(u)] + H(u \ {Pick(u)})[u \ {Pick(u)}]]
  <1>3. ASSUME NEW v \in SUBSET t, v # t PROVE IsSum(fun, v, H(v)) /\ IsFiniteSet(v)
    BY <1>2, <1>3, FS_Subset
  <1>4. ASSUME NEW v \in SUBSET t, v # t PROVE g[v] = H(v)[v]
    <2>1. CASE v = {}
      <3>1. g[v] = 0
        BY <2>1
      <3>2. IsSum(fun, v, H(v))
        BY <1>3, <1>4
      <3> HIDE DEF H
      <3>3. H(v)[v] = 0
        BY <2>1, <3>2, SumEquation
      <3> QED
        BY <3>1, <3>3
    <2>2. CASE v # {}
      <3> DEFINE w == v \ {Pick(v)}
      <3>1. Pick(v) \in v
        BY <2>2, PickIn
      <3>2. w \in SUBSET t /\ w # t /\ w \in SUBSET v
        BY <1>4, <3>1
      <3>3. IsSum(fun, v, H(v)) /\ IsSum(fun, w, H(w)) /\ IsFiniteSet(v)
        BY <1>3, <1>4, <3>2
      <3>4. g[v] = fun[Pick(v)] + H(w)[w]
        BY <2>2
      <3> HIDE DEF H, g, w
      <3>5. H(v)[w] = H(w)[w]
        <4>1. w \in (SUBSET v) \cap (SUBSET w)
          BY <3>2
        <4> QED
          BY <3>3, <4>1, SumUnique
      <3>6. H(v)[v] = fun[Pick(v)] + H(v)[w]
        BY <2>2, <3>3, SumEquation DEF w
      <3> QED
        BY <3>4, <3>5, <3>6
    <2> QED
      BY <2>1, <2>2
  <1>5. g = [u \in SUBSET t |-> IF u = {} THEN 0 ELSE fun[Pick(u)] + g[u \ {Pick(u)}]]
    <2>1. ASSUME NEW u \in SUBSET t, u # {}
          PROVE  H(u \ {Pick(u)})[u \ {Pick(u)}] = g[u \ {Pick(u)}]
      <3>1. Pick(u) \in u
        BY <2>1, PickIn
      <3>2. u \ {Pick(u)} \in SUBSET t /\ u \ {Pick(u)} # t
        BY <3>1
      <3> HIDE DEF g, H
      <3> QED
        BY <1>4, <3>2
    <2> DEFINE k(u) == u \ {Pick(u)}
    <2>2. \A u \in SUBSET t : u # {} => H(k(u))[k(u)] = g[k(u)]
      BY <2>1
    <2>3. g = [u \in SUBSET t |-> IF u = {} THEN 0 ELSE fun[Pick(u)] + H(k(u))[k(u)]]
      OBVIOUS
    <2> HIDE DEF H, g, k
    <2>4. g = [u \in SUBSET t |-> IF u = {} THEN 0 ELSE fun[Pick(u)] + g[k(u)]]
      BY <2>2, <2>3
    <2> QED
      BY <2>4 DEF k
  <1>6. IsSum(fun, t, g)
    BY <1>5 DEF IsSum
  <1>7. IsSum(fun, t, H(t))
    BY <1>6
  <1> QED
    BY <1>2, <1>7

\* A sum is one of its terms and the sum of the others.
LEMMA SumStep ==
    ASSUME NEW fun, NEW S, IsFiniteSet(S), S # {}
    PROVE  /\ Pick(S) \in S
           /\ SumFunctionOnSet(fun, S)
                = fun[Pick(S)] + SumFunctionOnSet(fun, S \ {Pick(S)})
  <1> DEFINE T == S \ {Pick(S)}
             f == CHOOSE h : IsSum(fun, S, h)
             g == CHOOSE h : IsSum(fun, T, h)
  <1>1. IsFiniteSet(T)
    BY FS_Subset
  <1>2. IsSum(fun, S, f) /\ IsSum(fun, T, g)
    BY <1>1, SumExists
  <1>3. SumFunctionOnSet(fun, S) = f[S] /\ SumFunctionOnSet(fun, T) = g[T]
    BY SumIs
  <1>4. T \in SUBSET S
    OBVIOUS
  <1> HIDE DEF f, g, T
  <1>5. f[T] = g[T]
    <2>1. T \in (SUBSET S) \cap (SUBSET T)
      BY <1>4
    <2> QED
      BY <1>2, <2>1, SumUnique
  <1>6. f[S] = fun[Pick(S)] + f[T]
    BY <1>2, SumEquation DEF T
  <1> QED
    BY <1>3, <1>5, <1>6, PickIn DEF T

LEMMA SumOfNone == ASSUME NEW fun PROVE SumFunctionOnSet(fun, {}) = 0
  <1>1. IsFiniteSet({})
    BY FS_EmptySet
  <1>2. IsSum(fun, {}, CHOOSE f : IsSum(fun, {}, f))
    BY <1>1, SumExists
  <1> QED
    BY <1>2, SumIs, SumEquation

\* A sum of numbers is a number.
LEMMA SumIsNat ==
    ASSUME NEW fun, NEW S, IsFiniteSet(S), \A x \in S : fun[x] \in Nat
    PROVE  SumFunctionOnSet(fun, S) \in Nat
  <1> DEFINE Bad == {s \in SUBSET S : SumFunctionOnSet(fun, s) \notin Nat}
  <1>1. SUFFICES ASSUME Bad # {} PROVE FALSE
    OBVIOUS
  <1>2. PICK t \in Bad : \A u \in Bad : u \subseteq t => u = t
    <2>1. Bad \subseteq SUBSET S
      OBVIOUS
    <2> HIDE DEF Bad
    <2> QED
      BY <1>1, <2>1, SmallestSubset
  <1>3. t # {}
    BY <1>2, SumOfNone
  <1>4. IsFiniteSet(t)
    BY FS_Subset
  <1>5. Pick(t) \in t /\ SumFunctionOnSet(fun, t) = fun[Pick(t)] + SumFunctionOnSet(fun, t \ {Pick(t)})
    BY <1>3, <1>4, SumStep
  <1>6. SumFunctionOnSet(fun, t \ {Pick(t)}) \in Nat
    BY <1>2, <1>5
  <1> QED
    BY <1>2, <1>5, <1>6

\* A sum of zeros is zero.
LEMMA SumOfZeros ==
    ASSUME NEW fun, NEW S, IsFiniteSet(S), \A x \in S : fun[x] = 0
    PROVE  SumFunctionOnSet(fun, S) = 0
  <1> DEFINE Bad == {s \in SUBSET S : SumFunctionOnSet(fun, s) # 0}
  <1>1. SUFFICES ASSUME Bad # {} PROVE FALSE
    OBVIOUS
  <1>2. PICK t \in Bad : \A u \in Bad : u \subseteq t => u = t
    <2>1. Bad \subseteq SUBSET S
      OBVIOUS
    <2> HIDE DEF Bad
    <2> QED
      BY <1>1, <2>1, SmallestSubset
  <1>3. t # {}
    BY <1>2, SumOfNone
  <1>4. IsFiniteSet(t)
    BY FS_Subset
  <1>5. Pick(t) \in t /\ SumFunctionOnSet(fun, t) = fun[Pick(t)] + SumFunctionOnSet(fun, t \ {Pick(t)})
    BY <1>3, <1>4, SumStep
  <1>6. SumFunctionOnSet(fun, t \ {Pick(t)}) = 0
    BY <1>2, <1>5
  <1> QED
    BY <1>2, <1>5, <1>6

\* Equal terms make equal sums.
LEMMA SameSum ==
    ASSUME NEW fun, NEW gun, NEW S, IsFiniteSet(S), \A x \in S : fun[x] = gun[x]
    PROVE  SumFunctionOnSet(fun, S) = SumFunctionOnSet(gun, S)
  <1> DEFINE Bad == {s \in SUBSET S : SumFunctionOnSet(fun, s) # SumFunctionOnSet(gun, s)}
  <1>1. SUFFICES ASSUME Bad # {} PROVE FALSE
    OBVIOUS
  <1>2. PICK t \in Bad : \A u \in Bad : u \subseteq t => u = t
    <2>1. Bad \subseteq SUBSET S
      OBVIOUS
    <2> HIDE DEF Bad
    <2> QED
      BY <1>1, <2>1, SmallestSubset
  <1>3. t # {}
    BY <1>2, SumOfNone
  <1>4. IsFiniteSet(t)
    BY FS_Subset
  <1>5. /\ Pick(t) \in t
        /\ SumFunctionOnSet(fun, t) = fun[Pick(t)] + SumFunctionOnSet(fun, t \ {Pick(t)})
        /\ SumFunctionOnSet(gun, t) = gun[Pick(t)] + SumFunctionOnSet(gun, t \ {Pick(t)})
    BY <1>3, <1>4, SumStep
  <1>6. SumFunctionOnSet(fun, t \ {Pick(t)}) = SumFunctionOnSet(gun, t \ {Pick(t)})
    BY <1>2, <1>5
  <1>7. fun[Pick(t)] = gun[Pick(t)]
    BY <1>5
  <1> QED
    BY <1>2, <1>5, <1>6, <1>7
-----------------------------------------------------------------------------
(***************************************************************************)
(* Types, for any number of editors.                                       *)
(***************************************************************************)
TypeInv ==
    /\ status \in {"PRINT_ELIGIBLE", "QUEUED"}
    /\ priced \in BOOLEAN
    /\ IsRows(sheet)
    /\ total \in Nat
    /\ released = Item \ DOMAIN sheet
    /\ pricing \in BOOLEAN
    /\ switches \in 0 .. MaxSwitches
    /\ \A e \in Editor : IsTask(task[e]) /\ IsRows(mine[e])

RatesAreNat == \A c \in Offered, n \in Nat : Rate(c, n) \in Nat

\* Rows are a function on items.
LEMMA RowsAre ==
    ASSUME NEW rows
    PROVE  IsRows(rows) <=>
              /\ DOMAIN rows \subseteq Item
              /\ rows = [i \in DOMAIN rows |-> rows[i]]
              /\ \A i \in DOMAIN rows : rows[i] \in Row
  BY DEF IsRows

\* What a request reads are rows.
LEMMA ViewIsRows ==
    ASSUME TypeInv, NEW e \in Editor
    PROVE  IsRows(View(e))
  <1>1. /\ DOMAIN sheet \subseteq Item /\ \A i \in DOMAIN sheet : sheet[i] \in Row
        /\ \A i \in DOMAIN mine[e] : mine[e][i] \in Row
    BY RowsAre DEF TypeInv
  <1>2. /\ DOMAIN View(e) \subseteq Item
        /\ View(e) = [i \in DOMAIN View(e) |-> View(e)[i]]
        /\ \A i \in DOMAIN View(e) : View(e)[i] \in Row
    BY <1>1 DEF View
  <1> QED
    BY <1>2, RowsAre

\* The pages of a row are counted, whatever its copies.
LEMMA BillableIsNat ==
    ASSUME NEW i \in Item, NEW r \in Row
    PROVE  Billable(i, r) \in Nat
  <1>1. PageCount[i] \in Nat
    BY EditorAssumption DEF EditorAssumption
  <1>2. r.copies \in Nat
    BY EditorAssumption DEF EditorAssumption, Row
  <1>3. \A m, n \in Nat : m * n \in Nat
    OBVIOUS
  <1> QED
    BY <1>1, <1>2, <1>3 DEF Billable

\* So are the pages of a group, and the amounts of rows add up to a number.
LEMMA SumsAreNat ==
    ASSUME NEW rows, IsRows(rows), NEW c
    PROVE  GroupPages(rows, c) \in Nat /\ SumOfAmounts(rows) \in Nat
  <1>1. DOMAIN rows \subseteq Item /\ \A i \in DOMAIN rows : rows[i] \in Row
    BY RowsAre
  <1>2. IsFiniteSet(DOMAIN rows)
    BY <1>1, EditorAssumption, FS_Subset DEF EditorAssumption
  <1>3. Group(rows, c) \subseteq DOMAIN rows /\ IsFiniteSet(Group(rows, c))
    BY <1>2, FS_Subset DEF Group
  <1>4. GroupPages(rows, c) \in Nat
    <2> DEFINE f == [i \in DOMAIN rows |-> Billable(i, rows[i])]
    <2>1. \A i \in Group(rows, c) : f[i] \in Nat
      BY <1>1, <1>3, BillableIsNat
    <2> HIDE DEF f
    <2>2. SumFunctionOnSet(f, Group(rows, c)) \in Nat
      BY <1>3, <2>1, SumIsNat
    <2> QED
      BY <2>2 DEF f, GroupPages
  <1>5. SumOfAmounts(rows) \in Nat
    <2> DEFINE f == [i \in DOMAIN rows |-> rows[i].amount]
    <2>1. DOMAIN f = DOMAIN rows /\ \A i \in DOMAIN rows : f[i] \in Nat
      BY <1>1 DEF Row
    <2> HIDE DEF f
    <2>2. SumFunctionOnSet(f, DOMAIN f) \in Nat
      BY <1>2, <2>1, SumIsNat
    <2>3. SumFunction(f) \in Nat
      BY <2>2 DEF SumFunction, SumFunctionOnSet, FoldFunction
    <2> QED
      BY <2>3 DEF f, SumOfAmounts
  <1> QED
    BY <1>4, <1>5

\* What a task carries.
LEMMA TaskFields ==
    ASSUME NEW t, IsTask(t)
    PROVE  /\ t.step \in {"pricing", "write"} => t.edit \in Edit
           /\ t.step = "write" => t.reprice \in BOOLEAN
           /\ t.step = "reprice" => t.combos \subseteq Combo /\ t.edited \subseteq Item
           /\ t.step = "amounts" =>
                 \E S \in SUBSET Item : t.todo \in [S -> Nat] /\ t = [step |-> "amounts", todo |-> t.todo]
           /\ t.step \in {"total", "close"} => t.sum \in Nat
           /\ t.step = "place" =>
                 /\ t.ids \in Lists /\ t.next \in Nat \ {0}
                 /\ t = [step |-> "place", ids |-> t.ids, next |-> t.next]
  <1>1. CASE t \in {Idle, [step |-> "commit"], [step |-> "sum"]}
    BY <1>1 DEF Idle
  <1>2. CASE t \in [step : {"pricing"}, edit : Edit]
    BY <1>2
  <1>3. CASE t \in [step : {"write"}, edit : Edit, reprice : BOOLEAN]
    BY <1>3
  <1>4. CASE t \in [step : {"reprice"}, combos : SUBSET Combo, edited : SUBSET Item]
    BY <1>4
  <1>5. CASE \E S \in SUBSET Item : t \in [step : {"amounts"}, todo : [S -> Nat]]
    BY <1>5
  <1>6. CASE t \in [step : {"total", "close"}, sum : Nat]
    BY <1>6
  <1>7. CASE t \in [step : {"place"}, ids : Lists, next : Nat \ {0}]
    BY <1>7
  <1> QED
    BY <1>1, <1>2, <1>3, <1>4, <1>5, <1>6, <1>7 DEF IsTask

\* A request goes on with a task, and with what it has written.
LEMMA TypeMoves ==
    ASSUME TypeInv, PlacesInv, NEW e \in Editor, NEW next, Go(e, next), IsTask(next),
           \A f \in Editor \ {e} : mine'[f] = mine[f], IsRows(mine'[e]),
           UNCHANGED <<jobVars, shopVars>>
    PROVE  TypeInv'
  <1>1. task'[e] = next /\ \A f \in Editor \ {e} : task'[f] = task[f]
    BY DEF PlacesInv, Shape, Go
  <1>2. \A f \in Editor : IsTask(task'[f]) /\ IsRows(mine'[f])
    BY <1>1 DEF TypeInv
  <1> QED
    BY <1>2 DEF TypeInv, jobVars, shopVars

LEMMA TypeGoes ==
    ASSUME TypeInv, PlacesInv, NEW e \in Editor, NEW next, Go(e, next), IsTask(next),
           UNCHANGED <<jobVars, shopVars, mine>>
    PROVE  TypeInv'
  <1>1. IsRows(mine'[e]) /\ \A f \in Editor \ {e} : mine'[f] = mine[f]
    BY DEF TypeInv
  <1> QED
    BY <1>1, TypeMoves

LEMMA TypeWrites ==
    ASSUME TypeInv, PlacesInv, NEW e \in Editor, NEW next, Go(e, next), IsTask(next),
           NEW i, Writable(e, i), NEW row \in Row, PutRow(e, i, row),
           UNCHANGED <<jobVars, shopVars>>
    PROVE  TypeInv'
  <1>1. /\ mine'[e] = [k \in DOMAIN mine[e] \cup {i} |-> IF k = i THEN row ELSE mine[e][k]]
        /\ \A f \in Editor \ {e} : mine'[f] = mine[f]
    BY DEF PlacesInv, Shape, PutRow
  <1>2. i \in Item
    BY ViewIsRows, RowsAre DEF Writable
  <1>3. DOMAIN mine[e] \subseteq Item /\ \A k \in DOMAIN mine[e] : mine[e][k] \in Row
    BY RowsAre DEF TypeInv
  <1>4. IsRows(mine'[e])
    <2>1. mine'[e] \in [DOMAIN mine[e] \cup {i} -> Row]
      BY <1>1, <1>3
    <2>2. DOMAIN mine[e] \cup {i} \in SUBSET Item
      BY <1>2, <1>3
    <2> QED
      BY <2>1, <2>2 DEF IsRows
  <1> QED
    BY <1>1, <1>4, TypeMoves

LEMMA NoRowsAre == IsRows(NoRows)
  BY DEF IsRows, NoRows

LEMMA TypeInit == Init => TypeInv
  <1> SUFFICES ASSUME Init PROVE TypeInv
    OBVIOUS
  <1>1. PICK combo \in [Item -> Offered], copies \in [Item -> Copies],
             price \in [Offered -> QuotedPrice],
             place \in Injection(Item, 0 .. Cardinality(Item) - 1) :
             sheet = [i \in Item |-> QuotedRow(combo, copies, price, place, i)]
    BY DEF Init
  <1>2. ASSUME NEW i \in Item PROVE QuotedRow(combo, copies, price, place, i) \in Row
    <2>1. combo[i] \in Combo /\ copies[i] \in Copies /\ combo[i] \in Offered
      BY EditorAssumption DEF EditorAssumption
    <2>2. place[i] \in Nat
      <3>1. Cardinality(Item) \in Nat
        BY EditorAssumption, FS_CardinalityType DEF EditorAssumption
      <3>2. place[i] \in 0 .. Cardinality(Item) - 1
        BY DEF Injection
      <3> QED
        BY <3>1, <3>2
    <2>3. price[combo[i]] \in Nat /\ PageCount[i] \in Nat /\ copies[i] \in Nat
      BY <2>1, EditorAssumption DEF EditorAssumption
    <2>4. \A m, n \in Nat : m * n \in Nat
      OBVIOUS
    <2>5. price[combo[i]] * PageCount[i] * copies[i] \in Nat
      BY <2>3, <2>4
    <2> QED
      BY <2>1, <2>2, <2>5 DEF QuotedRow, Row
  <1>3. sheet \in [Item -> Row]
    BY <1>1, <1>2
  <1>4. IsRows(sheet) /\ DOMAIN sheet = Item
    BY <1>3 DEF IsRows
  <1>5. total \in Nat
    BY <1>4, SumsAreNat DEF Init
  <1>6. \A e \in Editor : IsTask(task[e]) /\ IsRows(mine[e])
    BY NoRowsAre DEF Init, IsTask
  <1>7. switches \in 0 .. MaxSwitches
    BY EditorAssumption DEF Init, EditorAssumption
  <1> QED
    BY <1>4, <1>5, <1>6, <1>7 DEF Init, TypeInv

LEMMA TypeStep ==
    ASSUME RatesAreNat, PlacesInv, TypeInv, [Next]_vars
    PROVE  TypeInv'
  <1>1. CASE UNCHANGED vars
    BY <1>1 DEF vars, TypeInv
  <1>2. CASE Press
    BY <1>2 DEF Press, shopVars, TypeInv
  <1>3. CASE SwitchPricing
    <2>1. switches' \in 0 .. MaxSwitches /\ pricing' \in BOOLEAN
      BY <1>3, EditorAssumption DEF SwitchPricing, TypeInv, EditorAssumption
    <2> QED
      BY <1>3, <2>1 DEF SwitchPricing, jobVars, TypeInv
  <1>4. ASSUME NEW e \in Editor, EditorStep(e) PROVE TypeInv'
    <2> DEFINE t == task[e]
    <2>0. IsTask(t) /\ IsRows(mine[e]) /\ IsRows(sheet) /\ IsRows(View(e))
      BY ViewIsRows DEF TypeInv
    <2>1. ASSUME NEW i \in Item, StartDelete(e, i) PROVE TypeInv'
      <3> DEFINE c == sheet[i].combo
                 n == sheet[i].copies
                 edit == [kind |-> "delete", item |-> i, old |-> c, combo |-> c, copies |-> n]
      <3>1. /\ i \in DOMAIN sheet /\ Go(e, [step |-> "pricing", edit |-> edit])
            /\ UNCHANGED <<jobVars, shopVars, mine>>
        BY <2>1 DEF StartDelete
      <3>2. c \in Combo /\ n \in Copies
        BY <2>0, <3>1, RowsAre DEF Row
      <3>3. edit \in Edit
        BY <3>2 DEF Edit
      <3> HIDE DEF edit
      <3>4. IsTask([step |-> "pricing", edit |-> edit])
        BY <3>3 DEF IsTask
      <3> QED
        BY <3>1, <3>4, TypeGoes
    <2>2. ASSUME NEW i \in Item, NEW c \in Combo, NEW n \in Copies, StartSettings(e, i, c, n)
          PROVE  TypeInv'
      <3> DEFINE o == sheet[i].combo
                 edit == [kind |-> "settings", item |-> i, old |-> o, combo |-> c, copies |-> n]
      <3>1. /\ i \in DOMAIN sheet /\ Go(e, [step |-> "pricing", edit |-> edit])
            /\ UNCHANGED <<jobVars, shopVars, mine>>
        BY <2>2 DEF StartSettings
      <3>2. o \in Combo
        BY <2>0, <3>1, RowsAre DEF Row
      <3>3. edit \in Edit
        BY <3>2 DEF Edit
      <3> HIDE DEF edit
      <3>4. IsTask([step |-> "pricing", edit |-> edit])
        BY <3>3 DEF IsTask
      <3> QED
        BY <3>1, <3>4, TypeGoes
    <2>3. ASSUME NEW ids \in Lists, StartReorder(e, ids) PROVE TypeInv'
      <3>1. Go(e, [step |-> "place", ids |-> ids, next |-> 1]) /\ UNCHANGED <<jobVars, shopVars, mine>>
        BY <2>3 DEF StartReorder
      <3>2. IsTask([step |-> "place", ids |-> ids, next |-> 1])
        BY DEF IsTask
      <3> QED
        BY <3>1, <3>2, TypeGoes
    <2>4. CASE AskPricing(e)
      <3>1. PICK edit, b : edit = t.edit /\ b = ShouldReprice
        OBVIOUS
      <3>2. /\ t.step = "pricing" /\ Go(e, [step |-> "write", edit |-> edit, reprice |-> b])
            /\ UNCHANGED <<jobVars, shopVars, mine>>
        BY <2>4, <3>1 DEF AskPricing
      <3>3. edit \in Edit
        BY <2>0, <3>1, <3>2, TaskFields
      <3>4. b \in BOOLEAN
        BY <3>1 DEF ShouldReprice, TypeInv
      <3>5. IsTask([step |-> "write", edit |-> edit, reprice |-> b])
        BY <3>3, <3>4 DEF IsTask
      <3> QED
        BY <3>2, <3>5, TypeGoes
    <2>5. ASSUME t.step = "write"
          PROVE  IsTask(Repricing(t.edit)) /\ IsTask([step |-> "sum"]) /\ IsTask([step |-> "commit"])
      <3>1. PICK edit : edit = t.edit
        OBVIOUS
      <3>2. edit.old \in Combo /\ edit.combo \in Combo /\ edit.item \in Item
        BY <2>0, <2>5, <3>1, TaskFields DEF Edit
      <3>3. {edit.old, edit.combo} \in SUBSET Combo /\ {edit.item} \in SUBSET Item
        BY <3>2
      <3>4. IsTask(Repricing(edit))
        BY <3>3 DEF IsTask, Repricing
      <3> QED
        BY <3>1, <3>4 DEF IsTask
    <2>6. CASE WriteDelete(e)
      <3> DEFINE next == IF t.reprice THEN Repricing(t.edit) ELSE [step |-> "sum"]
      <3>1. t.step = "write" /\ Go(e, next) /\ UNCHANGED <<jobVars, shopVars, mine>>
        BY <2>6 DEF WriteDelete
      <3>2. IsTask(next)
        BY <2>5, <3>1
      <3> HIDE DEF next
      <3> QED
        BY <3>1, <3>2, TypeGoes
    <2>7. CASE WriteSettings(e)
      <3> DEFINE next == IF t.reprice THEN Repricing(t.edit) ELSE [step |-> "commit"]
      <3>1. PICK i, x, y, r : i = t.edit.item /\ x = t.edit.combo /\ y = t.edit.copies /\ r = View(e)[i]
        OBVIOUS
      <3>2. PICK row : row = [r EXCEPT !.combo = x, !.copies = y]
        OBVIOUS
      <3>3. /\ t.step = "write" /\ Go(e, next) /\ UNCHANGED <<jobVars, shopVars>>
            /\ Writable(e, i) /\ PutRow(e, i, row)
        BY <2>7, <3>1, <3>2 DEF WriteSettings
      <3>4. IsTask(next)
        BY <2>5, <3>3
      <3>5. x \in Combo /\ y \in Copies
        BY <2>0, <3>1, <3>3, TaskFields DEF Edit
      <3>6. r \in Row
        BY <2>0, <3>1, <3>3, RowsAre DEF Writable
      <3>7. row \in Row
        BY <3>2, <3>5, <3>6 DEF Row
      <3> HIDE DEF next
      <3> QED
        BY <3>3, <3>4, <3>7, TypeWrites
    <2>8. CASE ReadForReprice(e)
      <3> DEFINE S == UNION {ToReprice(View(e), c, t.edited) : c \in t.combos}
      <3>1. PICK rows : rows = View(e)
        OBVIOUS
      <3> DEFINE f == [i \in S |-> Rate(rows[i].combo, GroupPages(rows, rows[i].combo)) * Billable(i, rows[i])]
      <3>2. /\ t.step = "reprice" /\ Go(e, [step |-> "amounts", todo |-> f])
            /\ UNCHANGED <<jobVars, shopVars, mine>>
            /\ \A c \in t.combos : Group(rows, c) # {} => c \in Offered
        BY <2>8, <3>1 DEF ReadForReprice
      <3>3. IsRows(rows) /\ DOMAIN rows \subseteq Item /\ \A i \in DOMAIN rows : rows[i] \in Row
        BY <2>0, <3>1, RowsAre
      <3>4. ASSUME NEW i \in S PROVE i \in DOMAIN rows /\ rows[i].combo \in Offered
        <4>1. PICK c \in t.combos : i \in ToReprice(rows, c, t.edited)
          BY <3>1, <3>4
        <4>2. i \in Group(rows, c)
          BY <4>1 DEF ToReprice
        <4> QED
          BY <3>2, <4>2 DEF Group
      <3>5. ASSUME NEW i \in S
            PROVE  Rate(rows[i].combo, GroupPages(rows, rows[i].combo)) * Billable(i, rows[i]) \in Nat
        <4>1. i \in DOMAIN rows /\ rows[i].combo \in Offered
          BY <3>4, <3>5
        <4>2. GroupPages(rows, rows[i].combo) \in Nat /\ Billable(i, rows[i]) \in Nat
          BY <3>3, <4>1, SumsAreNat, BillableIsNat
        <4>3. Rate(rows[i].combo, GroupPages(rows, rows[i].combo)) \in Nat
          BY <4>1, <4>2 DEF RatesAreNat
        <4>4. \A m, n \in Nat : m * n \in Nat
          OBVIOUS
        <4> QED
          BY <4>2, <4>3, <4>4
      <3>6. S \in SUBSET Item
        BY <3>3, <3>4
      <3> HIDE DEF S
      <3>7. f \in [S -> Nat]
        BY <3>5
      <3> HIDE DEF f
      <3>8. IsTask([step |-> "amounts", todo |-> f])
        BY <3>6, <3>7 DEF IsTask
      <3> QED
        BY <3>2, <3>8, TypeGoes
    <2>9. ASSUME NEW i \in Item, WriteAmount(e, i) PROVE TypeInv'
      <3>1. PICK td, r : td = t.todo /\ r = View(e)[i]
        OBVIOUS
      <3>2. PICK row : row = [r EXCEPT !.amount = td[i]]
        OBVIOUS
      <3>3. /\ t.step = "amounts" /\ i \in DOMAIN td
            /\ Go(e, [t EXCEPT !.todo = Restrict(td, DOMAIN td \ {i})])
            /\ Writable(e, i) /\ PutRow(e, i, row) /\ UNCHANGED <<jobVars, shopVars>>
        BY <2>9, <3>1, <3>2 DEF WriteAmount
      <3>4. PICK S \in SUBSET Item : td \in [S -> Nat] /\ t = [step |-> "amounts", todo |-> td]
        BY <2>0, <3>1, <3>3, TaskFields
      <3>5. [t EXCEPT !.todo = Restrict(td, DOMAIN td \ {i})]
              = [step |-> "amounts", todo |-> Restrict(td, DOMAIN td \ {i})]
        BY <3>4
      <3>6. Restrict(td, DOMAIN td \ {i}) \in [S \ {i} -> Nat]
        BY <3>4 DEF Restrict
      <3>7. IsTask([step |-> "amounts", todo |-> Restrict(td, DOMAIN td \ {i})])
        BY <3>6 DEF IsTask
      <3>8. r \in Row /\ td[i] \in Nat
        BY <2>0, <3>1, <3>3, <3>4, RowsAre DEF Writable
      <3>9. row \in Row
        BY <3>2, <3>8 DEF Row
      <3> QED
        BY <3>3, <3>5, <3>7, <3>9, TypeWrites
    <2>10. CASE ReadForTotal(e)
      <3>1. PICK n : n = SumOfAmounts(View(e))
        OBVIOUS
      <3>2. n \in Nat
        BY <2>0, <3>1, SumsAreNat
      <3>3. IsTask([step |-> "total", sum |-> n])
        BY <3>2 DEF IsTask
      <3>4. Go(e, [step |-> "total", sum |-> n]) /\ UNCHANGED <<jobVars, shopVars, mine>>
        BY <2>10, <3>1 DEF ReadForTotal
      <3> QED
        BY <3>3, <3>4, TypeGoes
    <2>11. CASE WriteTotal(e)
      <3>1. PICK n : n = t.sum
        OBVIOUS
      <3>2. t.step = "total" /\ Go(e, [step |-> "close", sum |-> n]) /\ UNCHANGED <<jobVars, shopVars, mine>>
        BY <2>11, <3>1 DEF WriteTotal
      <3>3. n \in Nat
        BY <2>0, <3>1, <3>2, TaskFields
      <3>4. IsTask([step |-> "close", sum |-> n])
        BY <3>3 DEF IsTask
      <3> QED
        BY <3>2, <3>4, TypeGoes
    <2>12. CASE WritePlace(e)
      <3>1. PICK ids, n, r : ids = t.ids /\ n = t.next /\ r = View(e)[ids[n]]
        OBVIOUS
      <3>2. PICK row : row = [r EXCEPT !.place = n - 1]
        OBVIOUS
      <3>3. /\ t.step = "place" /\ Go(e, [t EXCEPT !.next = n + 1])
            /\ Writable(e, ids[n]) /\ PutRow(e, ids[n], row) /\ UNCHANGED <<jobVars, shopVars>>
        BY <2>12, <3>1, <3>2 DEF WritePlace
      <3>4. /\ ids \in Lists /\ n \in Nat \ {0}
            /\ t = [step |-> "place", ids |-> ids, next |-> n]
        BY <2>0, <3>1, <3>3, TaskFields
      <3>5. [t EXCEPT !.next = n + 1] = [step |-> "place", ids |-> ids, next |-> n + 1]
        BY <3>4
      <3>6. IsTask([step |-> "place", ids |-> ids, next |-> n + 1])
        <4>1. n + 1 \in Nat \ {0}
          BY <3>4
        <4> QED
          BY <3>4, <4>1 DEF IsTask
      <3>7. r \in Row
        BY <2>0, <3>1, <3>3, RowsAre DEF Writable
      <3>8. n - 1 \in Nat
        BY <3>4
      <3>9. row \in Row
        BY <3>2, <3>7, <3>8 DEF Row
      <3> QED
        BY <3>3, <3>5, <3>6, <3>9, TypeWrites
    <2>13. CASE Commit(e)
      <3>1. /\ Done(e) /\ sheet' = View(e) /\ released' = released \cup gone[e]
            /\ total' = IF t.step = "close" THEN t.sum ELSE total
            /\ mine' = [mine EXCEPT ![e] = NoRows] /\ Go(e, Idle)
            /\ status' = status /\ priced' = priced /\ pricing' = pricing /\ switches' = switches
        BY <2>13 DEF Commit, shopVars
      <3>2. total' \in Nat
        BY <2>0, <3>1, TaskFields DEF TypeInv
      <3>3. released' = Item \ DOMAIN sheet'
        <4>1. DOMAIN sheet' = DOMAIN sheet \ gone[e] /\ gone[e] \subseteq DOMAIN sheet
          BY <3>1, ViewRows DEF PlacesInv, Locks, Held
        <4>2. released = Item \ DOMAIN sheet /\ DOMAIN sheet \subseteq Item
          BY DEF TypeInv, PlacesInv, Shape
        <4> QED
          BY <3>1, <4>1, <4>2
      <3>4. \A f \in Editor : IsTask(task'[f]) /\ IsRows(mine'[f])
        <4>1. IsTask(Idle)
          BY DEF IsTask
        <4> QED
          BY <3>1, <4>1, NoRowsAre DEF PlacesInv, Shape, Go, TypeInv
      <3> QED
        BY <2>0, <3>1, <3>2, <3>3, <3>4 DEF TypeInv
    <2>14. CASE Abort(e)
      <3>1. mine' = [mine EXCEPT ![e] = NoRows] /\ Go(e, Idle) /\ UNCHANGED <<jobVars, shopVars>>
        BY <2>14 DEF Abort
      <3>2. IsTask(Idle)
        BY DEF IsTask
      <3>3. IsRows(mine'[e]) /\ \A f \in Editor \ {e} : mine'[f] = mine[f]
        BY <3>1, NoRowsAre DEF PlacesInv, Shape
      <3> QED
        BY <3>1, <3>2, <3>3, TypeMoves
    <2> HIDE DEF t
    <2> QED
      BY <1>4, <2>1, <2>2, <2>3, <2>4, <2>6, <2>7, <2>8, <2>9, <2>10, <2>11, <2>12, <2>13, <2>14
         DEF EditorStep
  <1> QED
    BY <1>1, <1>2, <1>3, <1>4 DEF Next, Step

\* Whatever number of requests edit the order, the variables keep their types,
\* rows in hand belong to the order still, and no row is in two hands.
THEOREM Spec_TypeOK ==
    ASSUME RatesAreNat
    PROVE  Spec => []TypeOK
  <1>1. Init => TypeInv
    BY TypeInit
  <1>2. PlacesInv /\ TypeInv /\ [Next]_vars => TypeInv'
    BY TypeStep
  <1> DEFINE Told == overlapped \in BOOLEAN
  <1>3. Init => Told
    BY DEF Init
  <1>4. Told /\ [Next]_vars => Told'
    BY DEF Next, vars
  <1>5. PlacesInv /\ TypeInv /\ Told => TypeOK
    BY DEF PlacesInv, Locks, Held, TypeInv, TypeOK
  <1> QED
    BY <1>1, <1>2, <1>3, <1>4, <1>5, Spec_PlacesInv, PTL DEF Spec
-----------------------------------------------------------------------------
(***************************************************************************)
(* Amounts.                                                                *)
(***************************************************************************)
Free(rows) == \A i \in DOMAIN rows : rows[i].amount = 0

\* An order that is not priced has nothing that a price could come from.
FreeInv ==
    ~priced =>
        /\ total = 0 /\ Free(sheet)
        /\ \A e \in Editor :
              /\ Free(mine[e])
              /\ task[e].step \notin {"reprice", "amounts"}
              /\ task[e].step = "write" => ~task[e].reprice
              /\ task[e].step \in {"total", "close"} => task[e].sum = 0

LEMMA FreeView ==
    ASSUME Free(sheet), NEW e \in Editor, Free(mine[e])
    PROVE  Free(View(e))
  BY DEF Free, View

LEMMA FreeSum ==
    ASSUME NEW rows, IsRows(rows), Free(rows)
    PROVE  SumOfAmounts(rows) = 0
  <1> DEFINE f == [i \in DOMAIN rows |-> rows[i].amount]
  <1>1. IsFiniteSet(DOMAIN rows)
    BY RowsAre, EditorAssumption, FS_Subset DEF EditorAssumption
  <1>2. DOMAIN f = DOMAIN rows /\ \A i \in DOMAIN rows : f[i] = 0
    BY DEF Free
  <1> HIDE DEF f
  <1>3. SumFunctionOnSet(f, DOMAIN f) = 0
    BY <1>1, <1>2, SumOfZeros
  <1>4. SumFunction(f) = 0
    BY <1>3 DEF SumFunction
  <1> QED
    BY <1>4 DEF f, SumOfAmounts

\* A request goes on with a task that prices nothing.
LEMMA FreeMoves ==
    ASSUME FreeInv, PlacesInv, NEW e \in Editor, NEW next, Go(e, next),
           priced' = priced,
           ~priced =>
              /\ total' = 0 /\ Free(sheet') /\ Free(mine'[e])
              /\ next.step \notin {"reprice", "amounts"}
              /\ next.step = "write" => ~next.reprice
              /\ next.step \in {"total", "close"} => next.sum = 0,
           \A f \in Editor \ {e} : mine'[f] = mine[f]
    PROVE  FreeInv'
  <1>1. task'[e] = next /\ \A f \in Editor \ {e} : task'[f] = task[f]
    BY DEF PlacesInv, Shape, Go
  <1> QED
    BY <1>1 DEF FreeInv

LEMMA FreeGoes ==
    ASSUME FreeInv, PlacesInv, NEW e \in Editor, NEW next, Go(e, next),
           ~priced =>
              /\ next.step \notin {"reprice", "amounts"}
              /\ next.step = "write" => ~next.reprice
              /\ next.step \in {"total", "close"} => next.sum = 0,
           UNCHANGED <<jobVars, mine>>
    PROVE  FreeInv'
  <1>1. priced' = priced /\ \A f \in Editor \ {e} : mine'[f] = mine[f]
    BY DEF jobVars
  <1>2. ~priced => total' = 0 /\ Free(sheet') /\ Free(mine'[e])
    BY DEF FreeInv, jobVars
  <1> QED
    BY <1>1, <1>2, FreeMoves

LEMMA FreeWrites ==
    ASSUME FreeInv, PlacesInv, NEW e \in Editor, NEW next, Go(e, next),
           ~priced =>
              /\ next.step \notin {"reprice", "amounts", "write", "total", "close"},
           NEW i, Writable(e, i), NEW row, ~priced => row.amount = View(e)[i].amount,
           PutRow(e, i, row), UNCHANGED jobVars
    PROVE  FreeInv'
  <1>1. /\ mine'[e] = [k \in DOMAIN mine[e] \cup {i} |-> IF k = i THEN row ELSE mine[e][k]]
        /\ \A f \in Editor \ {e} : mine'[f] = mine[f]
    BY DEF PlacesInv, Shape, PutRow
  <1>2. ~priced => Free(mine'[e])
    <2> SUFFICES ASSUME ~priced PROVE Free(mine'[e])
      OBVIOUS
    <2>1. Free(View(e)) /\ Free(mine[e])
      BY FreeView DEF FreeInv
    <2>2. row.amount = 0
      BY <2>1 DEF Free, Writable
    <2> QED
      BY <1>1, <2>1, <2>2 DEF Free
  <1>3. priced' = priced /\ (~priced => total' = 0 /\ Free(sheet'))
    BY DEF FreeInv, jobVars
  <1> QED
    BY <1>1, <1>2, <1>3, FreeMoves

LEMMA FreeInit == Init => FreeInv
  <1> SUFFICES ASSUME Init, ~priced PROVE FreeInv
    BY DEF FreeInv
  <1>1. PICK combo \in [Item -> Offered], copies \in [Item -> Copies],
             price \in [Offered -> QuotedPrice],
             place \in Injection(Item, 0 .. Cardinality(Item) - 1) :
             sheet = [i \in Item |-> QuotedRow(combo, copies, price, place, i)]
    BY DEF Init
  <1>2. Free(sheet)
    BY <1>1 DEF Free, QuotedRow
  <1>3. IsRows(sheet)
    BY TypeInit DEF TypeInv
  <1>4. total = 0
    BY <1>2, <1>3, FreeSum DEF Init
  <1>5. \A e \in Editor : Free(mine[e]) /\ task[e].step = "idle"
    BY DEF Init, Free, NoRows, Idle
  <1> QED
    BY <1>2, <1>4, <1>5 DEF FreeInv

LEMMA FreeStep ==
    ASSUME FreeInv, PlacesInv, TypeInv, [Next]_vars
    PROVE  FreeInv'
  <1>1. CASE UNCHANGED vars
    BY <1>1 DEF vars, FreeInv, Free
  <1>2. CASE Press \/ SwitchPricing
    BY <1>2 DEF Press, SwitchPricing, jobVars, FreeInv, Free
  <1>3. ASSUME NEW e \in Editor, EditorStep(e) PROVE FreeInv'
    <2> DEFINE t == task[e]
    <2>0. /\ IsRows(View(e)) /\ (~priced => Free(View(e)))
          /\ ~priced =>
                /\ t.step \notin {"reprice", "amounts"}
                /\ t.step = "write" => ~t.reprice
                /\ t.step \in {"total", "close"} => t.sum = 0
      BY ViewIsRows, FreeView DEF FreeInv
    <2>1. ASSUME NEW i \in Item, StartDelete(e, i) PROVE FreeInv'
      <3>1. UNCHANGED <<jobVars, mine>> /\ \E edit : Go(e, [step |-> "pricing", edit |-> edit])
        BY <2>1 DEF StartDelete
      <3> QED
        BY <3>1, FreeGoes
    <2>2. ASSUME NEW i \in Item, NEW c \in Combo, NEW n \in Copies, StartSettings(e, i, c, n)
          PROVE  FreeInv'
      <3>1. UNCHANGED <<jobVars, mine>> /\ \E edit : Go(e, [step |-> "pricing", edit |-> edit])
        BY <2>2 DEF StartSettings
      <3> QED
        BY <3>1, FreeGoes
    <2>3. ASSUME NEW ids \in Lists, StartReorder(e, ids) PROVE FreeInv'
      BY <2>3, FreeGoes DEF StartReorder
    <2>4. CASE AskPricing(e)
      <3>1. PICK edit, b : edit = t.edit /\ b = ShouldReprice
        OBVIOUS
      <3>2. Go(e, [step |-> "write", edit |-> edit, reprice |-> b]) /\ UNCHANGED <<jobVars, mine>>
        BY <2>4, <3>1 DEF AskPricing
      <3>3. ~priced => ~b
        BY <3>1 DEF ShouldReprice
      <3> QED
        BY <3>2, <3>3, FreeGoes
    <2>5. CASE WriteDelete(e)
      <3> DEFINE next == IF t.reprice THEN Repricing(t.edit) ELSE [step |-> "sum"]
      <3>1. t.step = "write" /\ Go(e, next) /\ UNCHANGED <<jobVars, mine>>
        BY <2>5 DEF WriteDelete
      <3>2. ~priced => next.step = "sum"
        BY <2>0, <3>1
      <3> HIDE DEF next
      <3> QED
        BY <3>1, <3>2, FreeGoes
    <2>6. CASE WriteSettings(e)
      <3> DEFINE next == IF t.reprice THEN Repricing(t.edit) ELSE [step |-> "commit"]
      <3>1. PICK i, x, y, r : i = t.edit.item /\ x = t.edit.combo /\ y = t.edit.copies /\ r = View(e)[i]
        OBVIOUS
      <3>2. PICK row : row = [r EXCEPT !.combo = x, !.copies = y]
        OBVIOUS
      <3>3. /\ t.step = "write" /\ Go(e, next) /\ UNCHANGED jobVars
            /\ Writable(e, i) /\ PutRow(e, i, row)
        BY <2>6, <3>1, <3>2 DEF WriteSettings
      <3>4. ~priced => next.step = "commit"
        BY <2>0, <3>3
      <3>5. r \in Row
        BY <2>0, <3>1, <3>3, RowsAre DEF Writable
      <3>6. row.amount = r.amount
        BY <3>2, <3>5 DEF Row
      <3> HIDE DEF next
      <3> QED
        BY <3>1, <3>3, <3>4, <3>6, FreeWrites
    <2>7. CASE ReadForReprice(e)
      <3>1. UNCHANGED <<jobVars, mine>> /\ priced /\ \E f : Go(e, [step |-> "amounts", todo |-> f])
        BY <2>0, <2>7 DEF ReadForReprice, TypeInv
      <3> QED
        BY <3>1, FreeGoes
    <2>8. ASSUME NEW i \in Item, WriteAmount(e, i) PROVE FreeInv'
      <3>1. priced /\ priced' = priced
        BY <2>0, <2>8 DEF WriteAmount, jobVars, TypeInv
      <3> QED
        BY <3>1 DEF FreeInv
    <2>9. CASE ReadForTotal(e)
      <3>1. PICK n : n = SumOfAmounts(View(e))
        OBVIOUS
      <3>2. ~priced => n = 0
        BY <2>0, <3>1, FreeSum
      <3>3. Go(e, [step |-> "total", sum |-> n]) /\ UNCHANGED <<jobVars, mine>>
        BY <2>9, <3>1 DEF ReadForTotal
      <3> QED
        BY <3>2, <3>3, FreeGoes
    <2>10. CASE WriteTotal(e)
      <3>1. PICK n : n = t.sum
        OBVIOUS
      <3>2. t.step = "total" /\ Go(e, [step |-> "close", sum |-> n]) /\ UNCHANGED <<jobVars, mine>>
        BY <2>10, <3>1 DEF WriteTotal
      <3> QED
        BY <2>0, <3>1, <3>2, FreeGoes
    <2>11. CASE WritePlace(e)
      <3>1. PICK ids, n, r : ids = t.ids /\ n = t.next /\ r = View(e)[ids[n]]
        OBVIOUS
      <3>2. PICK row : row = [r EXCEPT !.place = n - 1]
        OBVIOUS
      <3>3. /\ t.step = "place" /\ Go(e, [t EXCEPT !.next = n + 1])
            /\ Writable(e, ids[n]) /\ PutRow(e, ids[n], row) /\ UNCHANGED jobVars
        BY <2>11, <3>1, <3>2 DEF WritePlace
      <3>4. PICK next : next = [t EXCEPT !.next = n + 1]
        OBVIOUS
      <3>5. next.step = "place"
        BY <3>3, <3>4, TaskFields DEF TypeInv
      <3>6. r \in Row
        BY <2>0, <3>1, <3>3, RowsAre DEF Writable
      <3>7. row.amount = r.amount
        BY <3>2, <3>6 DEF Row
      <3> QED
        BY <3>1, <3>3, <3>4, <3>5, <3>7, FreeWrites
    <2>12. CASE Commit(e) \/ Abort(e)
      <3>1. /\ Go(e, Idle) /\ mine' = [mine EXCEPT ![e] = NoRows] /\ priced' = priced
            /\ sheet' \in {sheet, View(e)}
            /\ total' = total \/ (t.step = "close" /\ total' = t.sum)
        BY <2>12 DEF Commit, Abort, jobVars
      <3>2. ~priced => total' = 0 /\ Free(sheet')
        BY <2>0, <3>1 DEF FreeInv
      <3>3. /\ mine'[e] = NoRows /\ \A f \in Editor \ {e} : mine'[f] = mine[f]
            /\ Free(NoRows) /\ Idle.step = "idle"
        BY <3>1 DEF PlacesInv, Shape, Free, NoRows, Idle
      <3> QED
        BY <3>1, <3>2, <3>3, FreeMoves
    <2> HIDE DEF t
    <2> QED
      BY <1>3, <2>1, <2>2, <2>3, <2>4, <2>5, <2>6, <2>7, <2>8, <2>9, <2>10, <2>11, <2>12
         DEF EditorStep
  <1> QED
    BY <1>1, <1>2, <1>3 DEF Next, Step
-----------------------------------------------------------------------------
(***************************************************************************)
(* Requests one at a time, and a shop that has kept its pricing on: amounts*)
(* follow the tiers.                                                       *)
(***************************************************************************)
Kept == priced /\ pricing /\ switches = 0

\* Two rows functions have the same items in combination c, for as many copies.
SameGroup(r, s, c) ==
    Group(r, c) = Group(s, c) /\ \A i \in Group(r, c) : r[i].copies = s[i].copies

\* What item i is to cost at the tier that combination c has reached.
Due(rows, c, i) == Rate(c, GroupPages(rows, c)) * Billable(i, rows[i])

\* The items of combination c are at their tier, but for updates still to come.
AtTier(rows, todo, c) ==
    \A i \in Group(rows, c) :
       (IF i \in DOMAIN todo THEN todo[i] ELSE rows[i].amount) = Due(rows, c, i)

NoTodo == [i \in {} |-> 0]

\* A transaction changes the pages of no tiered combination but those it
\* reprices; it reads what the updates of each are to be from the rows it leaves.
FollowInv(e) ==
    /\ task[e].step \in {"pricing", "write"} =>
          /\ task[e].edit.item \in DOMAIN sheet
          /\ task[e].edit.old = sheet[task[e].edit.item].combo
    /\ Kept =>
          /\ task[e].step \notin {"sum", "commit"}
          /\ task[e].step = "write" => task[e].reprice
          /\ task[e].step = "reprice" =>
                \A c \in Tiered \ task[e].combos : SameGroup(View(e), sheet, c)
          /\ task[e].step = "amounts" =>
                \A c \in Tiered : SameGroup(View(e), sheet, c) \/ AtTier(View(e), task[e].todo, c)
          /\ task[e].step \in {"total", "close"} =>
                \A c \in Tiered : SameGroup(View(e), sheet, c) \/ AtTier(View(e), NoTodo, c)
          /\ task[e].step = "place" => \A c \in Tiered : SameGroup(View(e), sheet, c)

\* The same items for as many copies come to the same pages.
LEMMA SamePages ==
    ASSUME NEW r, NEW s, NEW c, SameGroup(r, s, c), IsRows(r)
    PROVE  GroupPages(r, c) = GroupPages(s, c)
  <1> DEFINE f == [i \in DOMAIN r |-> Billable(i, r[i])]
             g == [i \in DOMAIN s |-> Billable(i, s[i])]
             G == Group(r, c)
  <1>1. G = Group(s, c) /\ G \subseteq DOMAIN r /\ G \subseteq DOMAIN s
    BY DEF SameGroup, Group
  <1>2. \A i \in G : f[i] = g[i]
    BY <1>1 DEF SameGroup, Billable
  <1>3. IsFiniteSet(G)
    BY <1>1, RowsAre, EditorAssumption, FS_Subset DEF EditorAssumption
  <1> HIDE DEF f, g, G
  <1>4. SumFunctionOnSet(f, G) = SumFunctionOnSet(g, G)
    BY <1>2, <1>3, SameSum
  <1> QED
    BY <1>1, <1>4 DEF f, g, G, GroupPages

LEMMA SameGroupSym == ASSUME NEW r, NEW s, NEW c, SameGroup(r, s, c) PROVE SameGroup(s, r, c)
  BY DEF SameGroup

\* An update of a row that is neither of its combination nor of its copies
\* leaves every group alone.
LEMMA PutKeepsGroups ==
    ASSUME NEW r, IsRows(r), NEW i \in DOMAIN r, NEW row \in Row,
           row.combo = r[i].combo, row.copies = r[i].copies, NEW s, s = [r EXCEPT ![i] = row]
    PROVE  /\ IsRows(s) /\ DOMAIN s = DOMAIN r /\ s[i] = row
           /\ \A k \in DOMAIN r : k # i => s[k] = r[k]
           /\ \A c : SameGroup(s, r, c)
  <1>1. /\ DOMAIN s = DOMAIN r /\ s[i] = row /\ \A k \in DOMAIN r : k # i => s[k] = r[k]
        /\ s = [k \in DOMAIN s |-> s[k]]
    BY RowsAre
  <1>2. IsRows(s)
    BY <1>1, RowsAre
  <1>3. ASSUME NEW c PROVE SameGroup(s, r, c)
    BY <1>1 DEF SameGroup, Group
  <1> QED
    BY <1>1, <1>2, <1>3

\* and what its items are to cost.
LEMMA SameDue ==
    ASSUME NEW r, NEW s, NEW c, SameGroup(s, r, c), IsRows(s), NEW k \in Group(r, c)
    PROVE  Due(s, c, k) = Due(r, c, k)
  <1>1. GroupPages(s, c) = GroupPages(r, c)
    BY SamePages
  <1>2. Billable(k, s[k]) = Billable(k, r[k])
    BY DEF SameGroup, Billable
  <1> QED
    BY <1>1, <1>2 DEF Due

\* A write of a row is read by the request itself.
LEMMA ViewPut ==
    ASSUME PlacesInv, NEW e \in Editor, NEW i, Writable(e, i), NEW row, PutRow(e, i, row),
           UNCHANGED <<sheet, gone>>
    PROVE  i \in DOMAIN View(e) /\ View(e)' = [View(e) EXCEPT ![i] = row]
  <1>1. /\ DOMAIN mine'[e] = DOMAIN mine[e] \cup {i}
        /\ mine'[e][i] = row
        /\ \A k \in DOMAIN mine[e] \ {i} : mine'[e][k] = mine[e][k]
    BY DEF PlacesInv, Shape, PutRow
  <1> QED
    BY <1>1 DEF View, Writable

\* A request that has written nothing reads what is committed.
LEMMA ViewSheet ==
    ASSUME TypeInv, NEW e \in Editor, Held(e) = {}
    PROVE  View(e) = sheet
  <1>1. DOMAIN mine[e] = {} /\ gone[e] = {}
    BY DEF Held
  <1>2. View(e) = [i \in DOMAIN sheet |-> sheet[i]]
    BY <1>1 DEF View
  <1> QED
    BY <1>2, RowsAre DEF TypeInv

LEMMA SameGroupRefl == ASSUME NEW r, NEW c PROVE SameGroup(r, r, c)
  BY DEF SameGroup

LEMMA FollowStep ==
    ASSUME NEW e \in Editor, PlacesInv, TypeInv, FollowInv(e),
           EditorStep(e) \/ Press \/ SwitchPricing \/ UNCHANGED vars
    PROVE  FollowInv(e)'
  <1>1. Kept' => Kept
    <2>1. CASE SwitchPricing
      BY <2>1 DEF SwitchPricing, Kept, TypeInv
    <2>2. CASE UNCHANGED <<priced, pricing, switches>>
      BY <2>2 DEF Kept
    <2>3. CASE EditorStep(e)
      BY <2>2, <2>3 DEF EditorStep, StartDelete, WriteAmount, StartSettings, StartReorder,
         AskPricing, WriteDelete, WriteSettings, ReadForReprice, ReadForTotal, WriteTotal,
         WritePlace, Commit, Abort, jobVars, shopVars
    <2> QED
      BY <2>1, <2>2, <2>3 DEF vars, Press, shopVars
  <1>2. ASSUME task'[e] = task[e], UNCHANGED <<sheet, mine, gone>> PROVE FollowInv(e)'
    <2>1. View(e)' = View(e)
      BY <1>2 DEF View
    <2> QED
      BY <1>1, <1>2, <2>1 DEF FollowInv
  <1>3. CASE UNCHANGED vars \/ Press \/ SwitchPricing
    BY <1>2, <1>3 DEF vars, Press, SwitchPricing, jobVars
  <1>4. CASE EditorStep(e)
    <2>0. IsRows(View(e)) /\ IsRows(sheet) /\ IsTask(task[e])
      BY ViewIsRows DEF TypeInv
    <2>1. ASSUME NEW i \in Item, StartDelete(e, i) PROVE FollowInv(e)'
      <3>1. /\ i \in DOMAIN sheet /\ sheet' = sheet
            /\ task'[e].step = "pricing" /\ task'[e].edit.item = i
            /\ task'[e].edit.old = sheet[i].combo
        BY <2>1 DEF StartDelete, jobVars, Go, PlacesInv, Shape
      <3> QED
        BY <3>1 DEF FollowInv
    <2>2. ASSUME NEW i \in Item, NEW c \in Combo, NEW n \in Copies, StartSettings(e, i, c, n)
          PROVE  FollowInv(e)'
      <3>1. /\ i \in DOMAIN sheet /\ sheet' = sheet
            /\ task'[e].step = "pricing" /\ task'[e].edit.item = i
            /\ task'[e].edit.old = sheet[i].combo
        BY <2>2 DEF StartSettings, jobVars, Go, PlacesInv, Shape
      <3> QED
        BY <3>1 DEF FollowInv
    <2>3. ASSUME NEW ids \in Lists, StartReorder(e, ids) PROVE FollowInv(e)'
      <3>1. /\ task[e].step = "idle" /\ UNCHANGED <<sheet, mine, gone>>
            /\ task'[e].step = "place"
        BY <2>3 DEF StartReorder, Editable, jobVars, Go, PlacesInv, Shape
      <3>2. View(e)' = View(e)
        BY <3>1 DEF View
      <3>3. View(e) = sheet
        BY <3>1, ViewSheet DEF PlacesInv, Locks
      <3> QED
        BY <3>1, <3>2, <3>3, SameGroupRefl DEF FollowInv
    <2>4. CASE AskPricing(e)
      <3>1. /\ task[e].step = "pricing" /\ task'[e].step = "write" /\ sheet' = sheet
            /\ task'[e].edit = task[e].edit /\ task'[e].reprice = ShouldReprice
            /\ UNCHANGED <<priced, pricing, switches>>
        BY <2>4 DEF AskPricing, jobVars, shopVars, Go, PlacesInv, Shape
      <3> QED
        BY <1>1, <3>1 DEF FollowInv, Kept, ShouldReprice
    <2>5. CASE WriteDelete(e)
      <3>1. PICK i, o : i = task[e].edit.item /\ o = task[e].edit.old
        OBVIOUS
      <3>2. /\ task[e].step = "write" /\ sheet' = sheet /\ mine' = mine
            /\ gone' = [gone EXCEPT ![e] = @ \cup {i}]
            /\ task'[e] = IF task[e].reprice THEN Repricing(task[e].edit) ELSE [step |-> "sum"]
        BY <2>5, <3>1 DEF WriteDelete, jobVars, Go, PlacesInv, Shape
      <3>3. task'[e].step \notin {"pricing", "write"}
        BY <3>2 DEF Repricing
      <3>4. SUFFICES ASSUME Kept, Kept' PROVE FollowInv(e)'
        BY <1>1, <3>3 DEF FollowInv
      <3>5. task'[e].step = "reprice" /\ o \in task'[e].combos
        BY <3>1, <3>2, <3>4 DEF FollowInv, Repricing
      <3>6. i \in DOMAIN sheet /\ o = sheet[i].combo
        BY <3>1, <3>2 DEF FollowInv
      <3>7. View(e) = sheet /\ Held(e) = {}
        BY <3>2, ViewSheet DEF PlacesInv, Locks
      <3>8. /\ DOMAIN View(e)' = DOMAIN sheet \ {i}
            /\ \A k \in DOMAIN sheet \ {i} : View(e)'[k] = sheet[k]
        <4>1. gone'[e] = {i} /\ DOMAIN mine'[e] = {}
          BY <3>2, <3>7 DEF Held, PlacesInv, Shape
        <4> QED
          BY <3>2, <4>1 DEF View
      <3>9. ASSUME NEW c, c # o PROVE SameGroup(View(e)', sheet, c)
        BY <3>6, <3>8, <3>9 DEF SameGroup, Group
      <3>10. \A c \in Tiered \ task'[e].combos : SameGroup(View(e)', sheet, c)
        BY <3>5, <3>9
      <3> QED
        BY <3>2, <3>3, <3>5, <3>10 DEF FollowInv
    <2>6. CASE WriteSettings(e)
      <3>1. PICK i, o, x, y, r : /\ i = task[e].edit.item /\ o = task[e].edit.old
                                 /\ x = task[e].edit.combo /\ y = task[e].edit.copies
                                 /\ r = View(e)[i]
        OBVIOUS
      <3>2. PICK row : row = [r EXCEPT !.combo = x, !.copies = y]
        OBVIOUS
      <3>3. /\ task[e].step = "write" /\ sheet' = sheet /\ gone' = gone
            /\ Writable(e, i) /\ PutRow(e, i, row)
            /\ task'[e] = IF task[e].reprice THEN Repricing(task[e].edit) ELSE [step |-> "commit"]
        BY <2>6, <3>1, <3>2 DEF WriteSettings, jobVars, Go, PlacesInv, Shape
      <3>4. task'[e].step \notin {"pricing", "write"}
        BY <3>3 DEF Repricing
      <3>5. SUFFICES ASSUME Kept, Kept' PROVE FollowInv(e)'
        BY <1>1, <3>4 DEF FollowInv
      <3>6. task'[e].step = "reprice" /\ o \in task'[e].combos /\ x \in task'[e].combos
        BY <3>1, <3>3, <3>5 DEF FollowInv, Repricing
      <3>7. i \in DOMAIN sheet /\ o = sheet[i].combo
        BY <3>1, <3>3 DEF FollowInv
      <3>8. View(e) = sheet
        BY <3>3, ViewSheet DEF PlacesInv, Locks
      <3>9. View(e)' = [sheet EXCEPT ![i] = row]
        BY <3>3, <3>8, ViewPut
      <3>10. row.combo = x
        BY <2>0, <3>1, <3>2, <3>7, <3>8, RowsAre DEF Row
      <3>11. ASSUME NEW c, c # o, c # x PROVE SameGroup(View(e)', sheet, c)
        BY <3>7, <3>9, <3>10, <3>11 DEF SameGroup, Group
      <3>12. \A c \in Tiered \ task'[e].combos : SameGroup(View(e)', sheet, c)
        BY <3>6, <3>11
      <3> QED
        BY <3>3, <3>4, <3>6, <3>12 DEF FollowInv
    <2>7. CASE ReadForReprice(e)
      <3>1. PICK rows, cs, ed : rows = View(e) /\ cs = task[e].combos /\ ed = task[e].edited
        OBVIOUS
      <3> DEFINE S == UNION {ToReprice(rows, c, ed) : c \in cs}
      <3>2. PICK td : td = [i \in S |-> Rate(rows[i].combo, GroupPages(rows, rows[i].combo))
                                           * Billable(i, rows[i])]
        OBVIOUS
      <3>3. /\ task[e].step = "reprice" /\ UNCHANGED <<sheet, mine, gone>>
            /\ task'[e] = [step |-> "amounts", todo |-> td]
        BY <2>7, <3>1, <3>2 DEF ReadForReprice, jobVars, Go, PlacesInv, Shape
      <3>4. View(e)' = rows
        BY <3>1, <3>3 DEF View
      <3>5. ASSUME Kept, NEW c \in Tiered
            PROVE  SameGroup(rows, sheet, c) \/ AtTier(rows, td, c)
        <4>1. CASE c \notin cs
          BY <3>1, <3>3, <3>5, <4>1 DEF FollowInv
        <4>2. CASE c \in cs
          <5>1. Group(rows, c) \subseteq S
            BY <4>2 DEF ToReprice
          <5>2. ASSUME NEW i \in Group(rows, c) PROVE i \in DOMAIN td /\ td[i] = Due(rows, c, i)
            <6>1. i \in S /\ rows[i].combo = c
              BY <5>1 DEF Group
            <6> HIDE DEF S
            <6> QED
              BY <3>2, <6>1 DEF Due
          <5> QED
            BY <5>2 DEF AtTier
        <4> QED
          BY <4>1, <4>2
      <3> HIDE DEF S
      <3>6. task'[e].step = "amounts" /\ task'[e].todo = td
        BY <3>3
      <3> QED
        BY <1>1, <3>3, <3>4, <3>5, <3>6 DEF FollowInv
    <2>8. ASSUME NEW i \in Item, WriteAmount(e, i) PROVE FollowInv(e)'
      <3>1. PICK td, rows, r : td = task[e].todo /\ rows = View(e) /\ r = rows[i]
        OBVIOUS
      <3>2. PICK row, rest : row = [r EXCEPT !.amount = td[i]] /\ rest = Restrict(td, DOMAIN td \ {i})
        OBVIOUS
      <3>3. /\ task[e].step = "amounts" /\ i \in DOMAIN td
            /\ task'[e] = [task[e] EXCEPT !.todo = rest]
            /\ Writable(e, i) /\ PutRow(e, i, row) /\ sheet' = sheet /\ gone' = gone
        BY <2>8, <3>1, <3>2 DEF WriteAmount, jobVars, Go, PlacesInv, Shape
      <3>4. task'[e].step = "amounts" /\ task'[e].todo = rest
        BY <2>0, <3>1, <3>3, TaskFields
      <3>5. i \in DOMAIN rows /\ View(e)' = [rows EXCEPT ![i] = row]
        BY <3>1, <3>3, ViewPut
      <3>6. PICK new : new = [rows EXCEPT ![i] = row]
        OBVIOUS
      <3>7. IsRows(rows) /\ r \in Row /\ td[i] \in Nat
        BY <2>0, <3>1, <3>3, <3>5, RowsAre, TaskFields
      <3>8. row \in Row /\ row.combo = r.combo /\ row.copies = r.copies /\ row.amount = td[i]
        BY <3>2, <3>7 DEF Row
      <3>9. /\ DOMAIN new = DOMAIN rows /\ new[i] = row
            /\ \A k \in DOMAIN rows : k # i => new[k] = rows[k]
            /\ \A c : SameGroup(new, rows, c)
            /\ IsRows(new)
        <4>1. row.combo = rows[i].combo /\ row.copies = rows[i].copies
          BY <3>1, <3>8
        <4>2. /\ DOMAIN new = DOMAIN rows /\ new[i] = row
              /\ \A k \in DOMAIN rows : k # i => new[k] = rows[k]
          BY <3>5, <3>6, <3>7, <3>8, <4>1, PutKeepsGroups
        <4>3. \A c : SameGroup(new, rows, c)
          BY <3>5, <3>6, <3>7, <3>8, <4>1, PutKeepsGroups
        <4>4. IsRows(new)
          BY <3>5, <3>6, <3>7, <3>8, <4>1, PutKeepsGroups
        <4> QED
          BY <4>2, <4>3, <4>4
      <3>10. ASSUME Kept, NEW c \in Tiered
             PROVE  SameGroup(new, sheet, c) \/ AtTier(new, rest, c)
        <4>1. SameGroup(rows, sheet, c) \/ AtTier(rows, td, c)
          BY <3>1, <3>3, <3>10 DEF FollowInv
        <4>2. ASSUME SameGroup(rows, sheet, c) PROVE SameGroup(new, sheet, c)
          BY <3>9, <4>2 DEF SameGroup
        <4>3. ASSUME AtTier(rows, td, c) PROVE AtTier(new, rest, c)
          <5>1. Group(new, c) = Group(rows, c) /\ Group(rows, c) \subseteq DOMAIN rows
            BY <3>9 DEF SameGroup, Group
          <5>2. ASSUME NEW k \in Group(rows, c)
                PROVE  (IF k \in DOMAIN rest THEN rest[k] ELSE new[k].amount) = Due(new, c, k)
            <6>1. (IF k \in DOMAIN td THEN td[k] ELSE rows[k].amount) = Due(rows, c, k)
              BY <4>3 DEF AtTier
            <6>2. Due(new, c, k) = Due(rows, c, k) /\ k \in DOMAIN rows
              BY <3>9, <5>1, SameDue
            <6>3. DOMAIN rest = DOMAIN td \ {i} /\ (k \in DOMAIN rest => rest[k] = td[k])
              BY <3>2 DEF Restrict
            <6>4. CASE k = i
              BY <3>3, <3>8, <3>9, <6>1, <6>2, <6>3, <6>4
            <6>5. CASE k # i
              BY <3>9, <6>1, <6>2, <6>3, <6>5
            <6> QED
              BY <6>4, <6>5
          <5> QED
            BY <5>1, <5>2 DEF AtTier
        <4> QED
          BY <4>1, <4>2, <4>3
      <3> QED
        BY <1>1, <3>3, <3>4, <3>5, <3>6, <3>10 DEF FollowInv
    <2>9. CASE ReadForTotal(e)
      <3>1. /\ task'[e].step = "total" /\ UNCHANGED <<sheet, mine, gone>>
            /\ task[e].step = "sum" \/ (task[e].step = "amounts" /\ DOMAIN task[e].todo = {})
        BY <2>9 DEF ReadForTotal, jobVars, Go, PlacesInv, Shape
      <3>2. PICK td, rows : td = task[e].todo /\ rows = View(e)
        OBVIOUS
      <3>3. View(e)' = rows
        BY <3>1, <3>2 DEF View
      <3>4. ASSUME Kept, NEW c \in Tiered
            PROVE  SameGroup(rows, sheet, c) \/ AtTier(rows, NoTodo, c)
        <4>1. /\ DOMAIN td = {}
              /\ SameGroup(rows, sheet, c) \/ AtTier(rows, td, c)
          BY <3>1, <3>2, <3>4 DEF FollowInv
        <4> QED
          BY <4>1 DEF AtTier, NoTodo
      <3> QED
        BY <1>1, <3>1, <3>3, <3>4 DEF FollowInv
    <2>10. CASE WriteTotal(e)
      <3>1. /\ task[e].step = "total" /\ task'[e].step = "close" /\ UNCHANGED <<sheet, mine, gone>>
        BY <2>10 DEF WriteTotal, jobVars, Go, PlacesInv, Shape
      <3>2. View(e)' = View(e)
        BY <3>1 DEF View
      <3> QED
        BY <1>1, <3>1, <3>2 DEF FollowInv
    <2>11. CASE WritePlace(e)
      <3>1. PICK ids, n, rows, r : /\ ids = task[e].ids /\ n = task[e].next
                                   /\ rows = View(e) /\ r = rows[ids[n]]
        OBVIOUS
      <3>2. PICK row, i : row = [r EXCEPT !.place = n - 1] /\ i = ids[n]
        OBVIOUS
      <3>3. /\ task[e].step = "place" /\ task'[e] = [task[e] EXCEPT !.next = n + 1]
            /\ Writable(e, i) /\ PutRow(e, i, row) /\ sheet' = sheet /\ gone' = gone
        BY <2>11, <3>1, <3>2 DEF WritePlace, jobVars, Go, PlacesInv, Shape
      <3>4. task'[e].step = "place" /\ n \in Nat \ {0}
        BY <2>0, <3>1, <3>3, TaskFields
      <3>5. i \in DOMAIN rows /\ View(e)' = [rows EXCEPT ![i] = row]
        BY <3>1, <3>3, ViewPut
      <3>6. IsRows(rows) /\ r \in Row /\ n - 1 \in Nat
        BY <2>0, <3>1, <3>2, <3>4, <3>5, RowsAre
      <3>7. row \in Row /\ row.combo = r.combo /\ row.copies = r.copies
        BY <3>2, <3>6 DEF Row
      <3>8. PICK new : new = [rows EXCEPT ![i] = row]
        OBVIOUS
      <3>9. \A c : SameGroup(new, rows, c)
        <4>1. row.combo = rows[i].combo /\ row.copies = rows[i].copies /\ row \in Row
          BY <3>1, <3>2, <3>7
        <4> QED
          BY <3>5, <3>6, <3>8, <4>1, PutKeepsGroups
      <3>10. ASSUME Kept, NEW c \in Tiered PROVE SameGroup(new, sheet, c)
        <4>1. SameGroup(rows, sheet, c)
          BY <3>1, <3>3, <3>10 DEF FollowInv
        <4> QED
          BY <3>9, <4>1 DEF SameGroup
      <3> QED
        BY <1>1, <3>3, <3>4, <3>5, <3>8, <3>10 DEF FollowInv
    <2>12. CASE Commit(e) \/ Abort(e)
      <3>1. task'[e].step = "idle"
        BY <2>12 DEF Commit, Abort, Go, Idle, PlacesInv, Shape
      <3> QED
        BY <3>1 DEF FollowInv
    <2> QED
      BY <1>4, <2>1, <2>2, <2>3, <2>4, <2>5, <2>6, <2>7, <2>8, <2>9, <2>10, <2>11, <2>12
         DEF EditorStep
  <1> QED
    BY <1>3, <1>4

\* The same for any number of requests.
FollowsInv == ~overlapped => \A e \in Editor : FollowInv(e)

LEMMA FollowsStep ==
    ASSUME PlacesInv, TypeInv, OneAtATime, FollowsInv, [Next]_vars
    PROVE  FollowsInv'
  <1> SUFFICES ASSUME ~overlapped', NEW e \in Editor
               PROVE  FollowInv(e)'
    BY DEF FollowsInv
  <1>1. ~overlapped
    BY DEF Next, vars
  <1>2. FollowInv(e)
    BY <1>1 DEF FollowsInv
  <1>3. CASE Press \/ SwitchPricing \/ UNCHANGED vars
    BY <1>2, <1>3, FollowStep
  <1>4. ASSUME NEW g \in Editor, EditorStep(g) PROVE FollowInv(e)'
    <2>1. CASE e = g
      BY <1>2, <1>4, <2>1, FollowStep
    <2>2. CASE e # g
      <3>1. task'[e].step = "idle"
        BY <1>1, <1>4, <2>2, OneAtATimeStep, OthersIdle DEF Idle
      <3> QED
        BY <3>1 DEF FollowInv
    <2> QED
      BY <2>1, <2>2
  <1> QED
    BY <1>3, <1>4 DEF Next, Step

\* Only a commit changes the order, and what it commits is at its tier.
LEMMA CommitsFollow ==
    ASSUME PlacesInv, TypeInv, \A e \in Editor : FollowInv(e), [Next]_vars,
           Kept, NEW c \in Tiered, GroupPages(sheet', c) # GroupPages(sheet, c)
    PROVE  \A i \in Group(sheet', c) :
              sheet'[i].amount = Rate(c, GroupPages(sheet', c)) * Billable(i, sheet'[i])
  <1>1. sheet' # sheet
    OBVIOUS
  <1>2. PICK e \in Editor : Commit(e)
    BY <1>1 DEF Next, Step, vars, Press, SwitchPricing, EditorStep, StartDelete, WriteAmount,
       StartSettings, StartReorder, AskPricing, WriteDelete, WriteSettings, ReadForReprice,
       ReadForTotal, WriteTotal, WritePlace, Abort, jobVars
  <1>3. PICK rows : rows = View(e)
    OBVIOUS
  <1>4. sheet' = rows /\ Done(e) /\ IsRows(rows)
    BY <1>2, <1>3, ViewIsRows DEF TypeInv, Commit
  <1>5. SameGroup(rows, sheet, c) \/ AtTier(rows, NoTodo, c)
    BY <1>3, <1>4 DEF Done, FollowInv
  <1>6. AtTier(rows, NoTodo, c)
    BY <1>4, <1>5, SamePages
  <1>7. \A i \in Group(rows, c) : rows[i].amount = Due(rows, c, i)
    BY <1>6 DEF AtTier, NoTodo
  <1> QED
    BY <1>4, <1>7 DEF Due

\* An order taken while pricing was off stays free, whatever number of requests
\* edit it, pricing switched on or not (shouldReprice).
THEOREM Spec_FreeStaysFree ==
    ASSUME RatesAreNat
    PROVE  Spec => [](~priced => total = 0 /\ \A i \in DOMAIN sheet : sheet[i].amount = 0)
  <1> DEFINE Goal == ~priced => total = 0 /\ \A i \in DOMAIN sheet : sheet[i].amount = 0
  <1>1. Init => TypeInv /\ FreeInv
    BY TypeInit, FreeInit
  <1>2. PlacesInv /\ TypeInv /\ FreeInv /\ [Next]_vars => TypeInv' /\ FreeInv'
    BY TypeStep, FreeStep
  <1>3. FreeInv => Goal
    BY DEF FreeInv, Free
  <1> QED
    BY <1>1, <1>2, <1>3, Spec_PlacesInv, PTL DEF Spec

\* As long as requests of the editor come one at a time, a change in the pages of
\* a tiered combination moves all its items to the tier of the new number of
\* pages, those nobody edited included (repriceCombos).
THEOREM Spec_AmountsFollowOrder ==
    ASSUME RatesAreNat
    PROVE  Spec => AmountsFollowOrder
  <1> DEFINE Inv == PlacesInv /\ TypeInv /\ FreeInv /\ OneAtATime /\ FollowsInv
             A == /\ ~priced => total' = 0 /\ \A i \in DOMAIN sheet' : sheet'[i].amount = 0
                  /\ \A c \in Tiered :
                        /\ priced /\ pricing /\ switches = 0 /\ ~overlapped
                        /\ GroupPages(sheet', c) # GroupPages(sheet, c)
                        => \A i \in Group(sheet', c) :
                              sheet'[i].amount = Rate(c, GroupPages(sheet', c)) * Billable(i, sheet'[i])
  <1>1. Init => Inv
    <2>1. Init => OneAtATime /\ FollowsInv
      BY DEF Init, OneAtATime, Overlap, FollowsInv, FollowInv, Idle
    <2> QED
      BY <2>1, PlacesInit, TypeInit, FreeInit
  <1>2. Inv /\ [Next]_vars => Inv'
    BY PlacesStep, TypeStep, FreeStep, OneAtATimeStep, FollowsStep
  <1>3. Inv /\ [Next]_vars => A
    <2> SUFFICES ASSUME Inv, [Next]_vars PROVE A
      OBVIOUS
    <2>1. priced' = priced
      BY DEF Next, Step, vars, Press, SwitchPricing, EditorStep, StartDelete, WriteAmount,
         StartSettings, StartReorder, AskPricing, WriteDelete, WriteSettings, ReadForReprice,
         ReadForTotal, WriteTotal, WritePlace, Commit, Abort, jobVars
    <2>2. FreeInv'
      BY FreeStep
    <2>3. ~priced => total' = 0 /\ \A i \in DOMAIN sheet' : sheet'[i].amount = 0
      BY <2>1, <2>2 DEF FreeInv, Free
    <2>4. ASSUME NEW c \in Tiered, priced /\ pricing /\ switches = 0, ~overlapped,
                 GroupPages(sheet', c) # GroupPages(sheet, c)
          PROVE  \A i \in Group(sheet', c) :
                    sheet'[i].amount = Rate(c, GroupPages(sheet', c)) * Billable(i, sheet'[i])
      BY <2>4, CommitsFollow DEF Kept, FollowsInv
    <2> QED
      BY <2>3, <2>4
  <1>4. Inv /\ [Next]_vars => [A]_vars
    BY <1>3
  <1> HIDE DEF Inv
  <1>5. Spec => [][A]_vars
    BY <1>1, <1>2, <1>4, PTL DEF Spec
  <1> QED
    BY <1>5 DEF AmountsFollowOrder
=============================================================================
