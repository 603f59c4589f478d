------------------------ MODULE DocumentEditor_proofs ------------------------
(***************************************************************************)
(* Proofs about the document editor: it implements UndoStack, the image on *)
(* the page is the one asked for last, the marks on the canvas are those   *)
(* of the state undo and redo have arrived at, a row names a picture of    *)
(* its document, that picture is in the store, and nothing outgrows its    *)
(* bound.                                                                  *)
(*                                                                         *)
(* The first three rest on one inductive invariant (IInv): the types of    *)
(* what is recorded, restored and kept on the browser, that a closed       *)
(* canvas has nothing going on, that only the latest restore ends          *)
(* restoring (MarksInv), and that only the latest download is for the item *)
(* asked for (Previews).  What a step may do to the recorded states is     *)
(* listed once (Moves); each move is a step of the abstract stack.         *)
(*                                                                         *)
(* The next two rest on a second one (PicInv): that cards, downloads and   *)
(* requests are of the document they are for as long as no card was moved  *)
(* (PageInPlace, RowsInPlace), and that a picture is stored once, for one  *)
(* row, so that nobody deletes another's (Keys).  The types are last       *)
(* (TypesInv): edits are numbers of taps wherever a state is kept.         *)
(***************************************************************************)
EXTENDS DocumentEditor, SequenceTheorems, FiniteSetTheorems, WellFoundedInduction, TLAPS

CanvasState == [look : Nat, marks : Nat, ops : Seq(Nat)]

Job == [stage : {"op", "ops", "marks"}, to : CanvasState, push : BOOLEAN, latest : BOOLEAN, no : Nat]

\* The recorded states, of which one is the current one unless none is open.
HistoryTypes ==
    /\ history \in Seq(CanvasState)
    /\ pos \in 0 .. Len(history)
    /\ pos = 0 <=> history = <<>>
    /\ Len(history) <= HistoryLimit

\* What can become of the recorded states in a step.
Moves ==
    \/ UNCHANGED historyVars
    \/ history # <<>> /\ \E s \in CanvasState : Push(s)
    \/ pos > 1 /\ pos' = pos - 1 /\ history' = history
    \/ pos > 0 /\ pos < Len(history) /\ pos' = pos + 1 /\ history' = history
    \/ \E s \in CanvasState : history' = <<s>> /\ pos' = 1
    \/ history' = <<>> /\ pos' = 0
-----------------------------------------------------------------------------
LEMMA LenEmpty == Len(<<>>) = 0
OBVIOUS

\* State s recorded behind the p-th of h, and what that makes of those up to there.
Recorded(h, p, s, limit) ==
    LET kept == Append(SubSeq(h, 1, p), s) IN IF Len(kept) > limit THEN Tail(kept) ELSE kept

RecordedOn(past, s, limit) == Append(IF Len(past) < limit THEN past ELSE Tail(past), s)

\* A new state is recorded: what is left, and what undo and redo can reach then.
LEMMA RecordSeq ==
    ASSUME NEW S, NEW h \in Seq(S), NEW p \in 1 .. Len(h), NEW s \in S,
           NEW limit \in Nat \ {0}, Len(h) <= limit,
           NEW g, g = Recorded(h, p, s, limit)
    PROVE  /\ g \in Seq(S) /\ g # <<>> /\ Len(g) \in 1 .. limit /\ Len(g) \in Nat /\ g[Len(g)] = s
           /\ SubSeq(g, 1, Len(g)) = g
           /\ SubSeq(g, Len(g) + 1, Len(g)) = <<>>
           /\ g = RecordedOn(SubSeq(h, 1, p), s, limit)
<1> DEFINE kept == SubSeq(h, 1, p)
<1> DEFINE all == Append(kept, s)
<1>1. kept \in Seq(S) /\ Len(kept) = p
  BY SubSeqProperties
<1> HIDE DEF kept, all
<1>2. all \in Seq(S) /\ Len(all) = p + 1 /\ all[p + 1] = s /\ all # <<>>
  <2>1. \A q \in Seq(S) : /\ Append(q, s) \in Seq(S) /\ Len(Append(q, s)) = Len(q) + 1
                          /\ Append(q, s)[Len(q) + 1] = s /\ Append(q, s) # <<>>
    BY AppendProperties
  <2> QED
    BY <1>1, <2>1, Zenon DEF all
<1>3. Tail(all) \in Seq(S) /\ Len(Tail(all)) = p /\ Tail(all)[p] = s /\ Tail(all) = Append(Tail(kept), s)
  <2>1. /\ Tail(all) \in Seq(S) /\ Len(Tail(all)) = Len(all) - 1
        /\ \A i \in 1 .. Len(Tail(all)) : Tail(all)[i] = all[i + 1]
    BY <1>2, HeadTailProperties, Zenon
  <2>2. kept # <<>>
    BY <1>1, EmptySeq
  <2>3. Tail(all) = Append(Tail(kept), s)
    BY <1>1, <2>2, HeadTailAppend, Zenon DEF all
  <2>4. Len(Tail(all)) = p /\ p \in 1 .. p
    BY <1>2, <2>1
  <2>5. Tail(all)[p] = s
    BY <1>2, <2>1, <2>4
  <2> QED
    BY <2>1, <2>3, <2>4, <2>5
<1>4. g = IF p + 1 > limit THEN Tail(all) ELSE all
  BY <1>2 DEF all, kept, Recorded
<1>5. g \in Seq(S) /\ Len(g) \in 1 .. limit /\ g[Len(g)] = s
  <2>1. CASE p + 1 > limit
    <3>1. p = limit /\ limit \in 1 .. limit
      <4>1. Len(h) \in Nat
        OBVIOUS
      <4> QED
        BY <2>1, <4>1
    <3>2. g = Tail(all)
      BY <1>4, <2>1, Zenon
    <3> QED
      BY <1>3, <3>1, <3>2, Zenon
  <2>2. CASE ~(p + 1 > limit)
    BY <1>2, <1>4, <2>2
  <2> QED
    BY <2>1, <2>2
<1>6. g = RecordedOn(kept, s, limit)
  BY <1>1, <1>3, <1>4 DEF all, RecordedOn
<1>7. SubSeq(g, 1, Len(g)) = g /\ SubSeq(g, Len(g) + 1, Len(g)) = <<>> /\ g # <<>>
  <2>1. SubSeq(g, 1, Len(g)) = g
    BY <1>5, SubSeqFull
  <2>2. SubSeq(g, Len(g) + 1, Len(g)) = <<>>
    BY <1>5, SubSeqEmpty
  <2>3. g # <<>>
    BY <1>5, LenEmpty
  <2> QED
    BY <2>1, <2>2, <2>3
<1>8. Len(g) \in Nat
  BY <1>5
<1> QED
  BY <1>5, <1>6, <1>7, <1>8, Zenon DEF kept

\* One step back from the p-th state, and one forward.
LEMMA UndoSeq ==
    ASSUME NEW S, NEW h \in Seq(S), NEW p \in 2 .. Len(h)
    PROVE  /\ Len(SubSeq(h, 1, p)) = p
           /\ SubSeq(h, 1, p - 1) = SubSeq(SubSeq(h, 1, p), 1, p - 1)
           /\ SubSeq(h, p, Len(h)) = <<SubSeq(h, 1, p)[p]>> \o SubSeq(h, p + 1, Len(h))
<1>1. Len(SubSeq(h, 1, p)) = p /\ SubSeq(h, 1, p)[p] = h[p]
  BY SubSeqProperties
<1>2. SubSeq(h, 1, p - 1) = SubSeq(SubSeq(h, 1, p), 1, p - 1)
  BY SubSeqOfSubSeq, SubSeqProperties
<1>3. SubSeq(h, p, Len(h)) = <<h[p]>> \o SubSeq(h, p + 1, Len(h))
  BY SubSeqRecursiveFirst
<1> QED
  BY <1>1, <1>2, <1>3

LEMMA RedoSeq ==
    ASSUME NEW S, NEW h \in Seq(S), NEW p \in 1 .. Len(h), p < Len(h)
    PROVE  /\ SubSeq(h, p + 1, Len(h)) # <<>>
           /\ SubSeq(h, 1, p + 1) = Append(SubSeq(h, 1, p), Head(SubSeq(h, p + 1, Len(h))))
           /\ SubSeq(h, p + 2, Len(h)) = Tail(SubSeq(h, p + 1, Len(h)))
<1>1. /\ Head(SubSeq(h, p + 1, Len(h))) = h[p + 1]
      /\ Tail(SubSeq(h, p + 1, Len(h))) = SubSeq(h, p + 2, Len(h))
  BY HeadTailOfSubSeq
<1>2. SubSeq(h, p + 1, Len(h)) # <<>>
  <2>1. Len(SubSeq(h, p + 1, Len(h))) > 0
    BY SubSeqProperties
  <2> QED
    BY <2>1
<1>3. SubSeq(h, 1, p + 1) = Append(SubSeq(h, 1, p), h[p + 1])
  <2>1. SubSeq(h, 1, p + 1) = SubSeq(h, 1, p) \o <<h[p + 1]>>
    BY SubSeqRecursiveSecond
  <2>2. SubSeq(h, 1, p) \in Seq(S) /\ h[p + 1] \in S
    BY SubSeqProperties
  <2> QED
    BY <2>1, <2>2, AppendIsConcat
<1> QED
  BY <1>1, <1>2, <1>3

\* The moves keep the types.
LEMMA Moves_History ==
    ASSUME HistoryTypes, Moves
    PROVE  HistoryTypes'
<1> USE DEF HistoryTypes
<1>1. CASE UNCHANGED historyVars
  BY <1>1 DEF historyVars
<1>2. ASSUME history # <<>>, NEW s \in CanvasState, Push(s) PROVE HistoryTypes'
  <2>1. CASE history[pos] = s
    BY <1>2, <2>1 DEF Push, historyVars
  <2>2. CASE history[pos] # s
    <3>1. pos \in 1 .. Len(history)
      BY <1>2
    <3>2. history' = Recorded(history, pos, s, HistoryLimit)
      BY <1>2, <2>2 DEF Push, Recorded
    <3>3. history' \in Seq(CanvasState) /\ history' # <<>> /\ Len(history') \in 1 .. HistoryLimit
      <4>1. /\ history \in Seq(CanvasState) /\ Len(history) <= HistoryLimit
            /\ HistoryLimit \in Nat \ {0} /\ s \in CanvasState
        BY CanvasAssumption
      <4> HIDE DEF HistoryTypes
      <4> QED
        BY <3>1, <3>2, <4>1, RecordSeq
    <3> QED
      BY <1>2, <2>2, <3>3, CanvasAssumption DEF Push
  <2> QED
    BY <2>1, <2>2
<1>3. CASE pos > 1 /\ pos' = pos - 1 /\ history' = history
  BY <1>3
<1>4. CASE pos > 0 /\ pos < Len(history) /\ pos' = pos + 1 /\ history' = history
  BY <1>4
<1>5. ASSUME NEW s \in CanvasState, history' = <<s>>, pos' = 1 PROVE HistoryTypes'
  BY <1>5, CanvasAssumption
<1>6. CASE history' = <<>> /\ pos' = 0
  BY <1>6, CanvasAssumption
<1> QED
  BY <1>1, <1>2, <1>3, <1>4, <1>5, <1>6 DEF Moves

\* Each of these moves is one of the abstract undo stack.
LEMMA Moves_Refine ==
    ASSUME HistoryTypes, Moves
    PROVE  [Stack!Next]_<<SubSeq(history, 1, pos), SubSeq(history, pos + 1, Len(history))>>
<1> DEFINE past == SubSeq(history, 1, pos)
<1> DEFINE future == SubSeq(history, pos + 1, Len(history))
<1> USE DEF HistoryTypes
<1>0. past \in Seq(CanvasState) /\ Len(past) = pos
  OBVIOUS
<1>a. past' \in Seq(CanvasState)
  BY Moves_History
<1>1. CASE UNCHANGED historyVars
  BY <1>1 DEF historyVars
<1>2. ASSUME history # <<>>, NEW s \in CanvasState, Push(s)
      PROVE  Stack!Next \/ UNCHANGED historyVars
  <2>1. CASE history[pos] = s
    BY <1>2, <2>1 DEF Push, historyVars
  <2>2. CASE history[pos] # s
    <3>1. pos \in 1 .. Len(history)
      BY <1>2
    <3>2. pos' = Len(history')
      BY <1>2, <2>2 DEF Push
    <3>3. /\ SubSeq(history', 1, Len(history')) = history' /\ history' # <<>>
          /\ SubSeq(history', Len(history') + 1, Len(history')) = <<>>
          /\ Len(history') \in Nat /\ history'[Len(history')] = s
          /\ history' = Append(IF Len(past) < HistoryLimit THEN past ELSE Tail(past), s)
      <4>1. history' = Recorded(history, pos, s, HistoryLimit)
        BY <1>2, <2>2 DEF Push, Recorded
      <4>2. /\ history \in Seq(CanvasState) /\ Len(history) <= HistoryLimit
            /\ HistoryLimit \in Nat \ {0} /\ s \in CanvasState
        BY CanvasAssumption
      <4> HIDE DEF past, HistoryTypes
      <4>3. /\ SubSeq(history', 1, Len(history')) = history' /\ history' # <<>>
            /\ SubSeq(history', Len(history') + 1, Len(history')) = <<>>
            /\ Len(history') \in Nat /\ history'[Len(history')] = s
        BY <3>1, <4>1, <4>2, RecordSeq
      <4>4. history' = RecordedOn(past, s, HistoryLimit)
        BY <3>1, <4>1, <4>2, RecordSeq DEF past
      <4> QED
        BY <4>3, <4>4, Zenon DEF RecordedOn
    <3>4. past # <<>>
      BY <1>0, <3>1
    <3>5. past' = history' /\ future' = <<>>
      BY <3>2, <3>3
    <3> QED
      BY <1>a, <3>3, <3>4, <3>5 DEF Stack!Next, Stack!Record, CanvasState
  <2> QED
    BY <2>1, <2>2
<1>3. CASE pos > 1 /\ pos' = pos - 1 /\ history' = history
  <2>1. Stack!Undo
    BY <1>3, <1>0, UndoSeq DEF Stack!Undo
  <2> QED
    BY <2>1, <1>a DEF Stack!Next, CanvasState
<1>4. CASE pos > 0 /\ pos < Len(history) /\ pos' = pos + 1 /\ history' = history
  <2>1. Stack!Redo
    BY <1>4, <1>0, RedoSeq DEF Stack!Redo
  <2> QED
    BY <2>1, <1>a DEF Stack!Next, CanvasState
<1>5. ASSUME NEW s \in CanvasState, history' = <<s>>, pos' = 1 PROVE Stack!Next
  <2>1. past' = <<s>> /\ future' = <<>> /\ Len(<<s>>) = 1
    <3>1. <<s>> \in Seq(CanvasState) /\ Len(<<s>>) = 1
      OBVIOUS
    <3>2. SubSeq(<<s>>, 1, 1) = <<s>>
      BY <3>1, SubSeqFull
    <3>3. SubSeq(<<s>>, 2, 1) = <<>>
      BY SubSeqEmpty
    <3> QED
      BY <1>5, <3>1, <3>2, <3>3
  <2>2. Stack!Open
    BY <2>1 DEF Stack!Open
  <2> QED
    BY <2>2, <1>a DEF Stack!Next, CanvasState
<1>6. CASE history' = <<>> /\ pos' = 0
  <2>1. past' = <<>> /\ future' = <<>>
    BY <1>6
  <2>2. Stack!Close
    BY <2>1 DEF Stack!Close
  <2> QED
    BY <2>2, <1>a DEF Stack!Next, CanvasState
<1>7. UNCHANGED historyVars => UNCHANGED <<past, future>>
  BY DEF historyVars
<1> QED
  BY <1>1, <1>2, <1>3, <1>4, <1>5, <1>6, <1>7 DEF Moves
-----------------------------------------------------------------------------
(***************************************************************************)
(* The canvas.                                                             *)
(***************************************************************************)
CanvasTypes ==
    /\ HistoryTypes
    /\ look \in Nat /\ marks \in Nat /\ ops \in Seq(Nat)
    /\ restoring \in BOOLEAN
    /\ jobs \subseteq Job
    /\ taps \in Nat /\ faults \in Nat

\* Nothing is left of a canvas that is closed.
Closed == history = <<>> => ops = <<>> /\ jobs = {} /\ settling = FALSE

\* Of the restores that go on only the latest one ends restoring; it brings the
\* marks of the current state, or records what it brings.
MarksInv ==
    faults = 0 =>
        /\ history # <<>> /\ ~restoring /\ ~settling => marks = history[pos].marks
        /\ \A j \in jobs : j.latest => restoring /\ (j.push \/ j.to.marks = history[pos].marks)
        /\ \A j, k \in jobs : j.latest /\ k.latest => j = k

\* What a step on the canvas has to keep.
CanvasKept == CanvasTypes' /\ Closed' /\ Moves /\ (MarksInv => MarksInv')

LEMMA BlankType == Blank \in CanvasState /\ Blank.ops = <<>> /\ Blank.marks = 0
BY DEF Blank, CanvasState

LEMMA SnapshotType ==
    ASSUME NEW l \in Nat, NEW m \in Nat, NEW o \in Seq(Nat)
    PROVE  Snapshot(l, m, o) \in CanvasState /\ Snapshot(l, m, o).marks = m
BY DEF Snapshot, CanvasState

\* After a state is recorded it is the current one.
LEMMA Push_Current ==
    ASSUME HistoryTypes, history # <<>>, NEW s \in CanvasState, Push(s)
    PROVE  HistoryTypes' /\ history' # <<>> /\ history'[pos'] = s
<1>1. HistoryTypes'
  BY Moves_History DEF Moves
<1>2. CASE history[pos] = s
  BY <1>1, <1>2 DEF Push, historyVars
<1>3. CASE history[pos] # s
  <2>1. history' = Recorded(history, pos, s, HistoryLimit) /\ pos' = Len(history')
    BY <1>3 DEF Push, Recorded
  <2>2. pos \in 1 .. Len(history)
    BY DEF HistoryTypes
  <2> QED
    BY <1>1, <2>1, <2>2, RecordSeq, CanvasAssumption DEF HistoryTypes
<1> QED
  BY <1>2, <1>3

\* pushHistory of what is on the canvas m with operations o.
LEMMA PushIf_Kept ==
    ASSUME HistoryTypes, history # <<>>, NEW s \in CanvasState, NEW quiet, PushIf(quiet, s)
    PROVE  /\ HistoryTypes' /\ history' # <<>> /\ Moves
           /\ quiet => history'[pos'] = s
           /\ ~quiet => history' = history /\ pos' = pos
<1>1. CASE quiet
  BY <1>1, Push_Current DEF PushIf, Moves
<1>2. CASE ~quiet
  BY <1>2 DEF PushIf, Moves, historyVars, HistoryTypes
<1> QED
  BY <1>1, <1>2

LEMMA OvertakenType ==
    ASSUME jobs \subseteq Job
    PROVE  Overtaken \subseteq Job /\ \A j \in Overtaken : j.latest = FALSE
BY DEF Overtaken, Job
-----------------------------------------------------------------------------
\* What the shopkeeper draws or moves.
LEMMA Edit_Kept ==
    ASSUME CanvasTypes, Closed, EditMarks \/ EditMarksLater \/ EditLook \/ PushOp \/ ClearPixelEdits
    PROVE  CanvasKept
<1> USE DEF CanvasTypes
<1>0. taps' \in Nat /\ faults' = faults /\ history # <<>>
  BY DEF Tap, EditMarks, EditMarksLater, EditLook, PushOp, ClearPixelEdits, IsOpen, Closed
<1>1. CASE EditMarks
  <2>1. Snapshot(look, taps', ops) \in CanvasState /\ Snapshot(look, taps', ops).marks = taps'
    BY <1>0, SnapshotType
  <2>2. PushIf(~restoring, Snapshot(look, taps', ops)) /\ marks' = taps'
        /\ UNCHANGED <<look, ops, restoring, jobs, settling>>
    BY <1>1 DEF EditMarks, Quiet
  <2>3. /\ HistoryTypes' /\ history' # <<>> /\ Moves
        /\ ~restoring => history'[pos'] = Snapshot(look, taps', ops)
        /\ restoring => history' = history /\ pos' = pos
    BY <1>0, <2>1, <2>2, PushIf_Kept
  <2>4. CanvasTypes' /\ Closed'
    BY <1>0, <2>2, <2>3 DEF Closed
  <2>5. MarksInv => MarksInv'
    BY <1>0, <2>1, <2>2, <2>3 DEF MarksInv
  <2> QED
    BY <2>3, <2>4, <2>5 DEF CanvasKept
<1>2. CASE EditLook \/ EditMarksLater
  <2>1. CanvasTypes' /\ Closed' /\ Moves
    BY <1>0, <1>2 DEF EditLook, EditMarksLater, historyVars, HistoryTypes, Closed, Moves
  <2>2. MarksInv => MarksInv'
    BY <1>0, <1>2 DEF EditLook, EditMarksLater, historyVars, MarksInv
  <2> QED
    BY <2>1, <2>2 DEF CanvasKept
<1>3. CASE PushOp
  <2> DEFINE job == [stage |-> "op", to |-> [Blank EXCEPT !.ops = ops'], push |-> TRUE,
                     latest |-> FALSE, no |-> taps']
  <2>1. ops' \in Seq(Nat)
    BY <1>0, <1>3 DEF PushOp
  <2>2. job \in Job /\ ~job.latest
    BY <1>0, <2>1 DEF Job, Blank, CanvasState
  <2>3. jobs' = jobs \union {job} /\ UNCHANGED <<look, marks, historyVars, restoring, settling>>
    BY <1>3 DEF PushOp
  <2> HIDE DEF job
  <2>4. CanvasTypes' /\ Closed' /\ Moves
    BY <1>0, <2>1, <2>2, <2>3 DEF historyVars, HistoryTypes, Closed, Moves
  <2>5. MarksInv => MarksInv'
    BY <1>0, <2>2, <2>3 DEF historyVars, MarksInv
  <2> QED
    BY <2>4, <2>5 DEF CanvasKept
<1>4. CASE ClearPixelEdits
  <2>1. Snapshot(look, marks, <<>>) \in CanvasState /\ Snapshot(look, marks, <<>>).marks = marks
    BY SnapshotType, EmptySeq
  <2>2. PushIf(~restoring, Snapshot(look, marks, <<>>)) /\ ops' = <<>>
        /\ UNCHANGED <<look, marks, restoring, jobs, settling>>
    BY <1>4 DEF ClearPixelEdits, Quiet
  <2>3. /\ HistoryTypes' /\ history' # <<>> /\ Moves
        /\ ~restoring => history'[pos'] = Snapshot(look, marks, <<>>)
        /\ restoring => history' = history /\ pos' = pos
    BY <1>0, <2>1, <2>2, PushIf_Kept
  <2>4. CanvasTypes' /\ Closed'
    BY <1>0, <2>2, <2>3 DEF Closed
  <2>5. MarksInv => MarksInv'
    BY <1>0, <2>1, <2>2, <2>3 DEF MarksInv
  <2> QED
    BY <2>3, <2>4, <2>5 DEF CanvasKept
<1> QED
  BY <1>1, <1>2, <1>3, <1>4

\* A state is restored, at once or as far as it goes.
LEMMA Restore_Kept ==
    ASSUME CanvasTypes, NEW s \in CanvasState, NEW push \in BOOLEAN, Restore(s, push), taps' \in Nat
    PROVE  /\ look' \in Nat /\ marks' \in Nat /\ ops' \in Seq(Nat) /\ restoring' \in BOOLEAN
           /\ jobs' \subseteq Job /\ settling' = settling
           /\ push => Push(s) \/ UNCHANGED historyVars
           /\ ~restoring' => marks' = s.marks /\ (push => Push(s))
           /\ \A j \in jobs' : j.latest => restoring' /\ j.to = s /\ j.push = push
           /\ \A j, k \in jobs' : j.latest /\ k.latest => j = k
<1> DEFINE job == [stage |-> "marks", to |-> s, push |-> push, latest |-> TRUE, no |-> taps']
<1> DEFINE waiting == IF AtOnce(s.ops) THEN job ELSE [job EXCEPT !.stage = "ops"]
<1>1. waiting \in Job /\ waiting.to = s /\ waiting.push = push
  BY DEF Job
<1>2. s.look \in Nat /\ s.marks \in Nat /\ s.ops \in Seq(Nat)
  BY DEF CanvasState
<1>3. look' = s.look /\ ops' = s.ops /\ settling' = settling
  BY DEF Restore
<1>4. \/ /\ marks' = s.marks /\ restoring' = FALSE /\ jobs' = Overtaken
         /\ push => Push(s)
      \/ /\ restoring' = TRUE /\ marks' = marks /\ jobs' = Overtaken \union {waiting}
         /\ push => UNCHANGED historyVars
  BY DEF Restore
<1> HIDE DEF waiting
<1>5. Overtaken \subseteq Job /\ \A j \in Overtaken : j.latest = FALSE
  BY OvertakenType DEF CanvasTypes
<1>6. CASE /\ marks' = s.marks /\ restoring' = FALSE /\ jobs' = Overtaken
           /\ push => Push(s)
  BY <1>2, <1>3, <1>5, <1>6
<1>7. CASE /\ restoring' = TRUE /\ marks' = marks /\ jobs' = Overtaken \union {waiting}
           /\ push => UNCHANGED historyVars
  BY <1>1, <1>2, <1>3, <1>5, <1>7 DEF CanvasTypes
<1> QED
  BY <1>4, <1>6, <1>7

\* Undo, redo and reset.
LEMMA Travel_Kept ==
    ASSUME CanvasTypes, Closed, Undo \/ Redo \/ ResetAll
    PROVE  CanvasKept
<1>0. taps' \in Nat /\ faults' = faults
  <2>1. Tap
    BY Zenon DEF Undo, Redo, ResetAll
  <2> QED
    BY <2>1 DEF CanvasTypes, Tap
<1>1. ASSUME NEW s \in CanvasState, Restore(s, FALSE), Moves, history' # <<>>, history'[pos'] = s
      PROVE  CanvasKept
  <2>1. /\ look' \in Nat /\ marks' \in Nat /\ ops' \in Seq(Nat) /\ restoring' \in BOOLEAN
        /\ jobs' \subseteq Job
        /\ ~restoring' => marks' = s.marks
        /\ \A j \in jobs' : j.latest => restoring' /\ j.to = s
        /\ \A j, k \in jobs' : j.latest /\ k.latest => j = k
    BY <1>0, <1>1, Restore_Kept
  <2>2. HistoryTypes'
    BY <1>1, Moves_History DEF CanvasTypes
  <2>3. CanvasTypes' /\ Closed'
    BY <1>0, <1>1, <2>1, <2>2 DEF CanvasTypes, Closed
  <2>4. MarksInv'
    BY <1>1, <2>1 DEF MarksInv
  <2> QED
    BY <1>1, <2>3, <2>4 DEF CanvasKept
<1>2. CASE Undo
  <2>1. history' = history /\ pos' = pos - 1 /\ pos > 1 /\ Restore(history[pos - 1], FALSE)
    BY <1>2 DEF Undo
  <2>2. pos - 1 \in 1 .. Len(history) /\ history[pos - 1] \in CanvasState /\ history # <<>>
    BY <2>1, ElementOfSeq DEF CanvasTypes, HistoryTypes
  <2> QED
    BY <1>1, <2>1, <2>2 DEF Moves
<1>3. CASE Redo
  <2>1. history' = history /\ pos' = pos + 1 /\ pos < Len(history) /\ Restore(history[pos + 1], FALSE)
    BY <1>3 DEF Redo
  <2>2. pos > 0 /\ pos + 1 \in 1 .. Len(history) /\ history # <<>>
    BY <2>1, LenEmpty DEF CanvasTypes, HistoryTypes
  <2>3. history[pos + 1] \in CanvasState
    BY <2>2, ElementOfSeq DEF CanvasTypes, HistoryTypes
  <2> QED
    BY <1>1, <2>1, <2>2, <2>3 DEF Moves
<1>4. CASE ResetAll
  <2>0. Restore(Blank, TRUE) /\ pos > 1
    BY <1>4, Zenon DEF ResetAll
  <2>1. history # <<>> /\ HistoryTypes
    BY <2>0 DEF CanvasTypes, HistoryTypes
  <2>2. /\ look' \in Nat /\ marks' \in Nat /\ ops' \in Seq(Nat) /\ restoring' \in BOOLEAN
        /\ jobs' \subseteq Job
        /\ Push(Blank) \/ UNCHANGED historyVars
        /\ ~restoring' => marks' = Blank.marks /\ Push(Blank)
        /\ \A j \in jobs' : j.latest => restoring' /\ j.push
        /\ \A j, k \in jobs' : j.latest /\ k.latest => j = k
    BY <1>0, <2>0, Restore_Kept, BlankType
  <2>3. Moves /\ HistoryTypes' /\ history' # <<>> /\ (Push(Blank) => history'[pos'] = Blank)
    <3>1. CASE Push(Blank)
      BY <2>1, <3>1, BlankType, Push_Current DEF Moves
    <3>2. CASE UNCHANGED historyVars /\ ~Push(Blank)
      BY <2>1, <3>2 DEF Moves, historyVars, HistoryTypes
    <3> QED
      BY <2>2, <3>1, <3>2
  <2>4. CanvasTypes' /\ Closed'
    BY <1>0, <2>2, <2>3 DEF CanvasTypes, Closed
  <2>5. MarksInv'
    BY <2>2, <2>3 DEF MarksInv
  <2> QED
    BY <2>3, <2>4, <2>5 DEF CanvasKept
<1> QED
  BY <1>2, <1>3, <1>4
-----------------------------------------------------------------------------
\* The end of a restore that is over, with the marks m.
LEMMA EndRestore_Kept ==
    ASSUME CanvasTypes, Closed, NEW j \in jobs, NEW m \in Nat, EndRestore(j, m),
           j.latest => m = j.to.marks, ~j.latest => m = marks,
           NoTap, UNCHANGED <<look, ops, settling>>
    PROVE  CanvasKept
<1> DEFINE s == Snapshot(look, m, ops)
<1>0. /\ history # <<>> /\ HistoryTypes /\ j \in Job
      /\ s \in CanvasState /\ s.marks = m
  BY SnapshotType DEF CanvasTypes, Closed
<1>1. /\ jobs' = jobs \ {j} /\ restoring' = (restoring /\ ~j.latest) /\ marks' = m
      /\ PushIf(j.push /\ ~restoring', s)
  BY DEF EndRestore
<1> HIDE DEF s
<1>2. /\ HistoryTypes' /\ history' # <<>> /\ Moves
      /\ j.push /\ ~restoring' => history'[pos'] = s
      /\ ~(j.push /\ ~restoring') => history' = history /\ pos' = pos
  BY <1>0, <1>1, PushIf_Kept
<1>3. restoring' \in BOOLEAN /\ (j.latest => ~restoring') /\ (~j.latest => restoring' = restoring)
  BY <1>0, <1>1 DEF CanvasTypes, Job
<1>4. CanvasTypes' /\ Closed'
  BY <1>1, <1>2, <1>3 DEF CanvasTypes, Closed, NoTap
<1>5. ASSUME MarksInv, faults' = 0
      PROVE  /\ ~restoring' /\ ~settling' => marks' = history'[pos'].marks
             /\ \A k \in jobs' : k.latest => restoring' /\ (k.push \/ k.to.marks = history'[pos'].marks)
             /\ \A i, k \in jobs' : i.latest /\ k.latest => i = k
  <2>0. /\ ~restoring /\ ~settling => marks = history[pos].marks
        /\ \A k \in jobs : k.latest => restoring /\ (k.push \/ k.to.marks = history[pos].marks)
        /\ \A i, k \in jobs : i.latest /\ k.latest => i = k
    BY <1>0, <1>5 DEF MarksInv, NoTap
  <2>1. CASE j.latest
    <3>1. \A k \in jobs' : ~k.latest
      BY <1>1, <2>0, <2>1
    <3>2. m = j.to.marks /\ (j.push \/ j.to.marks = history[pos].marks)
      BY <2>0, <2>1
    <3>3. marks' = history'[pos'].marks
      BY <1>0, <1>1, <1>2, <1>3, <2>1, <3>2
    <3> QED
      BY <3>1, <3>3
  <2>2. CASE ~j.latest
    <3>1. restoring' = restoring /\ m = marks
      BY <1>3, <2>2
    <3>2. ~restoring /\ ~settling => marks' = history'[pos'].marks
      BY <1>0, <1>1, <1>2, <2>0, <3>1
    <3>3. restoring => history' = history /\ pos' = pos
      BY <1>2, <3>1
    <3> QED
      BY <1>1, <2>0, <3>1, <3>2, <3>3
  <2> QED
    BY <2>1, <2>2
<1> QED
  BY <1>2, <1>4, <1>5 DEF CanvasKept, MarksInv

\* What goes on after the shopkeeper has let go.
LEMMA GoesOn_Kept ==
    ASSUME CanvasTypes, Closed, CanvasGoesOn
    PROVE  CanvasKept
<1>1. ASSUME history # <<>>, PushIf(~restoring, OnCanvas), NoTap,
             UNCHANGED <<look, marks, ops, restoring>>, jobs' \subseteq jobs
      PROVE  CanvasKept
  <2>1. OnCanvas \in CanvasState /\ OnCanvas.marks = marks
    BY SnapshotType DEF OnCanvas, CanvasTypes
  <2>2. /\ HistoryTypes' /\ history' # <<>> /\ Moves
        /\ ~restoring => history'[pos'] = OnCanvas
        /\ restoring => history' = history /\ pos' = pos
    BY <1>1, <2>1, PushIf_Kept DEF CanvasTypes
  <2>3. CanvasTypes' /\ Closed'
    BY <1>1, <2>2 DEF CanvasTypes, Closed, NoTap
  <2>4. MarksInv => MarksInv'
    BY <1>1, <2>1, <2>2 DEF MarksInv, NoTap
  <2> QED
    BY <2>2, <2>3, <2>4 DEF CanvasKept
<1>2. CASE Settle
  <2>1. history # <<>>
    BY <1>2 DEF Settle, Closed
  <2> QED
    BY <1>1, <1>2, <2>1 DEF Settle, Quiet
<1>3. ASSUME NEW j \in jobs, OpComputed(j) PROVE CanvasKept
  <2>1. history # <<>>
    BY DEF Closed
  <2> QED
    BY <1>1, <1>3, <2>1 DEF OpComputed, Quiet
<1>4. ASSUME NEW j \in jobs, BitmapRestored(j) PROVE CanvasKept
  <2>0. history # <<>> /\ j \in Job /\ j.to.marks \in Nat
    BY DEF Closed, CanvasTypes, Job, CanvasState
  <2>1. CASE ~j.latest
    <3>1. EndRestore(j, marks) /\ NoTap /\ UNCHANGED <<look, ops, settling>>
      BY <1>4, <2>1 DEF BitmapRestored
    <3> QED
      BY <2>1, <3>1, EndRestore_Kept DEF CanvasTypes
  <2>2. CASE j.latest /\ NothingToMake(j.to)
    <3>1. EndRestore(j, j.to.marks) /\ NoTap /\ UNCHANGED <<look, ops, settling>>
      BY <1>4, <2>2 DEF BitmapRestored
    <3> QED
      BY <2>0, <2>2, <3>1, EndRestore_Kept
  <2>3. CASE j.latest /\ ~NothingToMake(j.to)
    <3> DEFINE k == [j EXCEPT !.stage = "marks"]
    <3>1. k \in Job /\ k.latest = j.latest /\ k.push = j.push /\ k.to = j.to
      BY <2>0 DEF Job
    <3>2. /\ jobs' = (jobs \ {j}) \union {k} /\ UNCHANGED <<look, marks, ops, restoring, settling, historyVars>>
          /\ NoTap
      BY <1>4, <2>3 DEF BitmapRestored
    <3> HIDE DEF k
    <3>3. CanvasTypes' /\ Closed' /\ Moves
      BY <2>0, <3>1, <3>2 DEF CanvasTypes, Closed, Moves, historyVars, HistoryTypes, NoTap
    <3>4. MarksInv => MarksInv'
      BY <2>3, <3>1, <3>2 DEF MarksInv, NoTap, historyVars
    <3> QED
      BY <3>3, <3>4 DEF CanvasKept
  <2> QED
    BY <2>1, <2>2, <2>3
<1>5. ASSUME NEW j \in jobs, MarksRestored(j) PROVE CanvasKept
  <2>1. j.to.marks \in Nat /\ marks \in Nat
    BY DEF CanvasTypes, Job, CanvasState
  <2>2. NoTap /\ UNCHANGED <<look, ops, settling>> /\ EndRestore(j, IF j.latest THEN j.to.marks ELSE marks)
    BY <1>5 DEF MarksRestored
  <2> QED
    BY <2>1, <2>2, EndRestore_Kept
<1> QED
  BY <1>2, <1>3, <1>4, <1>5 DEF CanvasGoesOn

\* A computation fails.
LEMMA Fails_Kept ==
    ASSUME CanvasTypes, Closed, NEW j \in jobs, ComputationFails(j)
    PROVE  CanvasKept
<1>1. restoring' \in BOOLEAN /\ faults' \in Nat /\ faults' # 0
  BY DEF ComputationFails, CanvasTypes
<1>2. CanvasTypes' /\ Closed' /\ Moves
  BY <1>1 DEF ComputationFails, CanvasTypes, Closed, Moves, historyVars, HistoryTypes
<1> QED
  BY <1>1, <1>2 DEF CanvasKept, MarksInv

\* The canvas is closed, and opened with the state saved with its image.
LEMMA Close_Kept ==
    ASSUME CanvasTypes, CloseCanvas, taps' \in Nat, faults' = faults
    PROVE  CanvasKept
<1>1. CanvasTypes' /\ Closed' /\ Moves
  <2>1. Moves
    BY DEF CloseCanvas, Moves
  <2>2. HistoryTypes'
    BY <2>1, Moves_History DEF CanvasTypes
  <2> QED
    BY <2>1, <2>2, EmptySeq DEF CloseCanvas, CanvasTypes, Closed
<1>2. MarksInv'
  BY DEF CloseCanvas, MarksInv
<1> QED
  BY <1>1, <1>2 DEF CanvasKept

LEMMA Open_Kept ==
    ASSUME CanvasTypes, saved \in Seq(CanvasState), OpenCanvas(saved), NoTap
    PROVE  CanvasKept
<1> DEFINE s == IF saved = <<>> THEN Blank ELSE saved[1]
<1> DEFINE slow == s.ops # <<>> \/ s.marks # 0
<1> DEFINE job == [stage |-> IF s.ops # <<>> THEN "ops" ELSE "marks",
                   to |-> s, push |-> TRUE, latest |-> TRUE, no |-> taps]
<1>1. s \in CanvasState
  <2>1. saved # <<>> => 1 \in 1 .. Len(saved)
    BY EmptySeq
  <2> QED
    BY <2>1, BlankType, ElementOfSeq
<1>2. s.look \in Nat /\ s.ops \in Seq(Nat) /\ job \in Job /\ job.push
  BY <1>1 DEF CanvasState, Job, CanvasTypes
<1>3. /\ history' = <<Blank>> /\ pos' = 1 /\ marks' = 0
      /\ look' = s.look /\ ops' = s.ops /\ restoring' = slow
      /\ jobs' = IF ~slow THEN {} ELSE {job}
  BY DEF OpenCanvas
<1>a. slow \in BOOLEAN
  OBVIOUS
<1> HIDE DEF s, slow, job
<1>4. Moves
  BY <1>3, BlankType DEF Moves
<1>5. HistoryTypes' /\ history' # <<>> /\ history'[pos'] = Blank
  <2>1. history' # <<>> /\ history'[pos'] = Blank
    BY <1>3
  <2> QED
    BY <1>4, <2>1, Moves_History DEF CanvasTypes
<1>6. CanvasTypes' /\ Closed'
  BY <1>2, <1>3, <1>5, <1>a DEF CanvasTypes, Closed, NoTap
<1>7. MarksInv'
  BY <1>2, <1>3, <1>5, BlankType DEF MarksInv
<1> QED
  BY <1>4, <1>6, <1>7 DEF CanvasKept
-----------------------------------------------------------------------------
(***************************************************************************)
(* The page.                                                               *)
(***************************************************************************)
\* v has the fields of a job; its cards are items.
IsJob(v) == v = [order |-> v.order, render |-> v.render] /\ v.order \in Seq(Item)

IsCall(c) ==
    /\ c = [k \in DOMAIN c |-> c[k]] /\ {"kind", "stage", "before", "rest", "job", "no"} \subseteq DOMAIN c
    /\ IsJob(c.job) /\ c.rest \in Seq(Item)

PageTypes ==
    /\ saved \in Seq(CanvasState)
    /\ latest \in [Item -> Seq(CanvasState)]
    /\ IsJob(view) /\ IsJob(rows)
    /\ \A c \in calls : IsCall(c)

\* The downloads that have been overtaken are known; what is shown is what the
\* latest one is for.
IsPreview(p) ==
    p = [k \in DOMAIN p |-> p[k]] /\ {"item", "file", "latest"} \subseteq DOMAIN p

Previews ==
    /\ \A p \in previews : IsPreview(p) /\ (p.latest => p.item = asked)
    /\ shown # <<>> => shown[1] = asked

\* What a step of the page has to keep, and what it asks of the canvas.
CanvasAsked ==
    \/ UNCHANGED canvasVars /\ taps' \in Nat /\ faults' \in Nat /\ (faults' = 0 => faults = 0)
    \/ CloseCanvas /\ taps' \in Nat /\ faults' = faults
    \/ OpenCanvas(saved) /\ NoTap

PageKept == PageTypes' /\ Previews' /\ CanvasAsked

\* A card that is taken out leaves the others.
LEMMA WithoutType ==
    ASSUME NEW order \in Seq(Item), NEW i, \E n \in DOMAIN order : order[n] = i
    PROVE  Without(order, i) \in Seq(Item)
<1> DEFINE n == CHOOSE m \in DOMAIN order : order[m] = i
<1>1. n \in DOMAIN order
  OBVIOUS
<1> HIDE DEF n
<1>2. n \in 1 .. Len(order)
  BY <1>1, LenProperties
<1>3. SubSeq(order, 1, n - 1) \in Seq(Item) /\ SubSeq(order, n + 1, Len(order)) \in Seq(Item)
  BY <1>2, SubSeqProperties
<1> QED
  BY <1>3, ConcatProperties DEF Without, RemoveAt, n

LEMMA OldType ==
    ASSUME NEW p, IsPreview(p)
    PROVE  IsPreview([p EXCEPT !.latest = FALSE]) /\ [p EXCEPT !.latest = FALSE].latest = FALSE
BY DEF IsPreview

\* loadPreview.
LEMMA LoadPreview_Kept ==
    ASSUME PageTypes, Previews, latest' \in [Item -> Seq(CanvasState)], NEW v, IsJob(v), NEW n, LoadPreview(v, n)
    PROVE  saved' \in Seq(CanvasState) /\ Previews' /\ (UNCHANGED canvasVars \/ CloseCanvas)
<1>1. CASE n \notin DOMAIN v.order
  BY <1>1 DEF LoadPreview, PageTypes, Previews
<1>2. CASE n \in DOMAIN v.order
  <2> DEFINE item == v.order[n]
             edited == IF v.render[item] # <<>> THEN latest'[item] ELSE <<>>
             new == [item |-> item, original |-> edited # <<>>,
                     file |-> <<>>, latest |-> TRUE]
             Old(p) == [p EXCEPT !.latest = FALSE]
  <2>1. item \in Item
    BY <1>2 DEF IsJob
  <2>2. edited \in Seq(CanvasState)
    BY <2>1, EmptySeq
  <2>3. IsPreview(new) /\ new.item = item
    BY DEF IsPreview
  <2>4. \A p \in previews : IsPreview(Old(p)) /\ Old(p).latest = FALSE
    BY OldType DEF Previews
  <2>5. /\ asked' = item /\ previews' = {Old(p) : p \in previews} \union {new}
        /\ shown' = <<>> /\ saved' = edited /\ CloseCanvas
    BY <1>2 DEF LoadPreview
  <2> HIDE DEF item, edited, new, Old
  <2> QED
    BY <2>2, <2>3, <2>4, <2>5 DEF Previews
<1> QED
  BY <1>1, <1>2

LEMMA CallType ==
    ASSUME NEW kind, NEW item, NEW picture, NEW rest \in Seq(Item)
    PROVE  IsCall(Call(kind, item, picture, rest))
BY EmptySeq DEF IsCall, IsJob, Call, NoJob

\* The fields that are changed leave the others as they are.
LEMMA OrderType ==
    ASSUME NEW v, IsJob(v), NEW order \in Seq(Item)
    PROVE  IsJob([v EXCEPT !.order = order])
BY DEF IsJob

LEMMA BeforeType ==
    ASSUME NEW c, IsCall(c), NEW before
    PROVE  IsCall([c EXCEPT !.stage = "read", !.before = before])
BY DEF IsCall

LEMMA AnswerType ==
    ASSUME NEW c, IsCall(c), NEW job, IsJob(job)
    PROVE  IsCall([c EXCEPT !.stage = "answered", !.job = job])
BY DEF IsCall

LEMMA ReloadType ==
    ASSUME NEW c, IsCall(c), NEW none \in Seq(Item)
    PROVE  IsCall([c EXCEPT !.kind = "load", !.stage = "sent", !.rest = none])
BY DEF IsCall

\* Answers and refusals change the stage of a call only.
LEMMA StageType ==
    ASSUME NEW c, IsCall(c), NEW stage
    PROVE  IsCall([c EXCEPT !.stage = stage])
BY DEF IsCall, IsJob

LEMMA NextOfBatchType ==
    ASSUME NEW rest \in Seq(Item), NEW no
    PROVE  \A c \in NextOfBatch(rest, no) : IsCall(c)
<1>1. CASE rest = <<>>
  BY <1>1 DEF NextOfBatch
<1>2. CASE rest # <<>>
  <2>1. Tail(rest) \in Seq(Item)
    BY <1>2, HeadTailProperties
  <2>2. IsCall(Call("batch", Head(rest), <<Head(rest), no>>, Tail(rest)))
    BY <2>1, CallType
  <2>3. \A c : IsCall(c) => IsCall([c EXCEPT !.no = no])
    BY DEF IsCall, IsJob
  <2> QED
    BY <1>2, <2>2, <2>3 DEF NextOfBatch
<1> QED
  BY <1>1, <1>2

\* Clicks on the page.
LEMMA PageTap_Kept ==
    ASSUME CanvasTypes, PageTypes, Previews, PageTap
    PROVE  PageKept
<1>0. ASSUME Tap PROVE taps' \in Nat /\ faults' = faults /\ faults' \in Nat
  BY <1>0 DEF Tap, CanvasTypes
<1>1. ASSUME NEW n \in 1 .. Len(view.order), Select(n) PROVE PageKept
  <2>1. /\ latest' = latest /\ LoadPreview(view, n) /\ Tap
        /\ UNCHANGED <<view, savingEdit, batchBusy, shuffled, serverVars>>
    BY <1>1 DEF Select, SelectIndex
  <2>2. saved' \in Seq(CanvasState) /\ Previews' /\ (UNCHANGED canvasVars \/ CloseCanvas)
    BY <2>1, LoadPreview_Kept DEF PageTypes
  <2> QED
    BY <1>0, <2>1, <2>2 DEF PageKept, PageTypes, CanvasAsked, serverVars
<1>2. ASSUME NEW c, IsCall(c), calls' = calls \union {c}, Tap, IsJob(view'),
             latest' \in [Item -> Seq(CanvasState)],
             UNCHANGED <<canvasVars, asked, previews, shown, saved, rows>>
      PROVE  PageKept
  BY <1>0, <1>2 DEF PageKept, PageTypes, Previews, CanvasAsked
<1>3. ASSUME NEW n \in 1 .. Len(view.order), NEW m \in {n - 1, n + 1}, MoveItem(n, m) PROVE PageKept
  <2> DEFINE order == [view.order EXCEPT ![n] = view.order[m], ![m] = view.order[n]]
  <2>1. order \in Seq(Item)
    <3>1. view.order \in Seq(Item) /\ n \in DOMAIN view.order /\ m \in DOMAIN view.order
      BY <1>3 DEF MoveItem, PageTypes, IsJob
    <3>2. /\ view.order \in [1 .. Len(view.order) -> Item] /\ Len(view.order) \in Nat
          /\ DOMAIN view.order = 1 .. Len(view.order)
      BY <3>1, LenProperties
    <3>3. order \in [1 .. Len(view.order) -> Item]
      BY <3>1, <3>2
    <3> QED
      BY <3>2, <3>3, SeqDef
  <2>2. IsCall(Call("reorder", Items[1], <<>>, order))
    BY <2>1, CallType
  <2>3. /\ calls' = calls \union {Call("reorder", Items[1], <<>>, order)} /\ Tap
        /\ view' = [view EXCEPT !.order = order]
        /\ UNCHANGED <<canvasVars, asked, previews, shown, saved, latest, rows>>
    BY <1>3 DEF MoveItem
  <2> HIDE DEF order
  <2>4. IsJob(view')
    BY <2>1, <2>3 DEF IsJob, PageTypes
  <2> QED
    BY <1>2, <2>2, <2>3, <2>4 DEF PageTypes
<1>4. ASSUME NEW i \in Item, RemoveItem(i) \/ ResetEdits(i) \/ CommitSettings(i) PROVE PageKept
  <2>1. \E kind \in {"remove", "reset", "settings"} : calls' = calls \union {Call(kind, i, <<>>, <<>>)}
    BY <1>4 DEF RemoveItem, ResetEdits, CommitSettings
  <2>2. PICK kind \in {"remove", "reset", "settings"} : calls' = calls \union {Call(kind, i, <<>>, <<>>)}
    BY <2>1
  <2>3. IsCall(Call(kind, i, <<>>, <<>>))
    BY CallType, EmptySeq
  <2>4. Tap /\ UNCHANGED <<canvasVars, view, asked, previews, shown, saved, latest, rows>>
    BY <1>4 DEF RemoveItem, ResetEdits, CommitSettings, pageVars
  <2> QED
    BY <1>2, <2>2, <2>3, <2>4 DEF PageTypes
<1>5. ASSUME NEW i \in Item, Save(i) PROVE PageKept
  <2>1. IsCall(Call("save", i, <<shown[2], taps'>>, <<>>))
    BY CallType, EmptySeq
  <2>2. <<OnCanvas>> \in Seq(CanvasState)
    BY SnapshotType DEF OnCanvas, CanvasTypes
  <2>3. /\ calls' = calls \union {Call("save", i, <<shown[2], taps'>>, <<>>)} /\ Tap
        /\ latest' = [latest EXCEPT ![i] = <<OnCanvas>>]
        /\ UNCHANGED <<canvasVars, view, asked, previews, shown, saved, rows>>
    BY <1>5 DEF Save
  <2>4. latest' \in [Item -> Seq(CanvasState)]
    BY <2>2, <2>3 DEF PageTypes
  <2> QED
    BY <1>2, <2>1, <2>3, <2>4 DEF PageTypes
<1>6. ASSUME NEW i \in Item, ApplyAll(i) PROVE PageKept
  <2>1. i \in Selected /\ Tap /\ calls' = calls \union NextOfBatch(Without(view.order, i), taps')
        /\ UNCHANGED <<canvasVars, view, asked, previews, shown, saved, latest, rows>>
    BY <1>6 DEF ApplyAll
  <2>2. Without(view.order, i) \in Seq(Item)
    BY <2>1, WithoutType DEF Selected, PageTypes, IsJob
  <2>3. \A c \in NextOfBatch(Without(view.order, i), taps') : IsCall(c)
    BY <2>2, NextOfBatchType
  <2> QED
    BY <1>0, <2>1, <2>3 DEF PageKept, PageTypes, Previews, CanvasAsked
<1> QED
  BY <1>1, <1>3, <1>4, <1>5, <1>6 DEF PageTap

\* Downloads.
LEMMA PageGoesOn_Kept ==
    ASSUME CanvasTypes, PageTypes, Previews, NEW p \in previews, SignLink(p) \/ Download(p) \/ PreviewFails(p)
    PROVE  PageKept
<1>0. taps' \in Nat /\ faults' \in Nat /\ faults' = faults /\ NoTap
  BY DEF SignLink, Download, PreviewFails, NoTap, CanvasTypes
<1>1. PageTypes'
  BY DEF SignLink, Download, PreviewFails, PageTypes, serverVars
<1>2. CASE SignLink(p)
  <2> DEFINE file == IF ~p.original /\ rows.render[p.item] # <<>> THEN rows.render[p.item] ELSE <<p.item>>
  <2>1. previews' = (previews \ {p}) \union {[p EXCEPT !.file = file]} /\ UNCHANGED <<canvasVars, asked, shown>>
    BY <1>2 DEF SignLink
  <2>2. /\ IsPreview([p EXCEPT !.file = file])
        /\ [p EXCEPT !.file = file].latest = p.latest /\ [p EXCEPT !.file = file].item = p.item
    BY DEF Previews, IsPreview
  <2> HIDE DEF file
  <2> QED
    BY <1>0, <1>1, <2>1, <2>2 DEF PageKept, Previews, CanvasAsked
<1>3. CASE Download(p)
  <2>1. previews' \subseteq previews /\ asked' = asked
    BY <1>3 DEF Download
  <2>2. \/ p.latest /\ shown' = <<p.item, p.file[1]>> /\ OpenCanvas(saved)
        \/ UNCHANGED <<shown, canvasVars>>
    BY <1>3 DEF Download
  <2> QED
    BY <1>0, <1>1, <2>1, <2>2 DEF PageKept, Previews, CanvasAsked
<1>4. CASE PreviewFails(p)
  BY <1>0, <1>1, <1>4 DEF PreviewFails, PageKept, Previews, CanvasAsked
<1> QED
  BY <1>2, <1>3, <1>4

\* The service changes rows, objects and the call it serves.
LEMMA Serve_Kept ==
    ASSUME CanvasTypes, PageTypes, Previews, NEW c \in calls, Serve(c)
    PROVE  PageKept
<1>0. IsCall(c) /\ Stays
  BY DEF PageTypes, Serve, ReadItem, UpdateRow, DeletePrevious, DeleteReset, UpdateReset, WriteOrder
<1>a. \A stage : IsCall([c EXCEPT !.stage = stage])
  BY <1>0, StageType
<1>b. \A before : IsCall([c EXCEPT !.stage = "read", !.before = before])
  BY <1>0, BeforeType
<1>c. \A job : IsJob(job) => IsCall([c EXCEPT !.stage = "answered", !.job = job])
  BY <1>0, AnswerType
<1>d. \A render : IsJob([rows EXCEPT !.render = render])
  BY DEF PageTypes, IsJob
<1>e. \A order \in Seq(Item) : IsJob([rows EXCEPT !.order = order])
  BY OrderType DEF PageTypes
<1>1. ASSUME IsJob(rows'), NEW d, IsCall(d), calls' = (calls \ {c}) \union {d} \/ calls' = calls \ {c}
      PROVE  PageKept
  BY <1>0, <1>1 DEF PageKept, PageTypes, Previews, CanvasAsked, CanvasTypes, Stays, NoTap, pageVars
<1>2. ASSUME IsJob(rows'), Refused(c) PROVE PageKept
  BY <1>1, <1>2, <1>a DEF Refused
<1>3. ASSUME IsJob(rows'), Answered(c) PROVE PageKept
  BY <1>1, <1>3, <1>a DEF Answered, Becomes
<1>4. ASSUME IsJob(rows'), NEW job, IsJob(job), AnsweredWith(c, job) PROVE PageKept
  BY <1>1, <1>4, <1>c DEF AnsweredWith, Becomes
<1>5. IsJob(rows)
  BY DEF PageTypes
<1>6. CASE ReadItem(c)
  BY <1>1, <1>2, <1>5, <1>6, <1>b DEF ReadItem, Becomes
<1>7. CASE UpdateRow(c)
  BY <1>1, <1>2, <1>5, <1>7, <1>a, <1>d DEF UpdateRow, Becomes
<1>8. CASE DeletePrevious(c) \/ DeleteReset(c)
  BY <1>1, <1>3, <1>5, <1>8, <1>a DEF DeletePrevious, DeleteReset, Becomes
<1>9. CASE UpdateReset(c)
  BY <1>2, <1>3, <1>5, <1>9, <1>d DEF UpdateReset
<1>10. CASE WriteOrder(c)
  <2>1. CASE c.kind = "reorder" /\ rows' = [rows EXCEPT !.order = c.rest] /\ AnsweredWith(c, rows')
    BY <1>0, <1>4, <1>e, <2>1 DEF IsCall
  <2>2. CASE Has(c.item) /\ rows' = [rows EXCEPT !.order = Without(rows.order, c.item)] /\ AnsweredWith(c, rows')
    <3>1. Without(rows.order, c.item) \in Seq(Item)
      BY <1>5, <2>2, WithoutType DEF Has, ToSet, IsJob
    <3> QED
      BY <1>4, <1>e, <2>2, <3>1
  <2>3. CASE AnsweredWith(c, rows) /\ UNCHANGED rows
    BY <1>4, <1>5, <2>3
  <2>4. CASE Refused(c) /\ UNCHANGED rows
    BY <1>2, <1>5, <2>4
  <2> QED
    BY <1>10, <2>1, <2>2, <2>3, <2>4 DEF WriteOrder
<1> QED
  BY <1>6, <1>7, <1>8, <1>9, <1>10 DEF Serve

\* The service fails.
LEMMA StoreFails_Kept ==
    ASSUME CanvasTypes, PageTypes, Previews, NEW c \in calls, StoreFails(c) \/ ResetFails(c)
    PROVE  PageKept
<1>1. \A stage : IsCall([c EXCEPT !.stage = stage])
  BY StageType DEF PageTypes
<1>2. faults' = faults + 1 /\ faults' \in Nat /\ faults' # 0
      /\ UNCHANGED <<canvasVars, pageVars, taps, rows>>
  BY DEF StoreFails, ResetFails, CanvasTypes
<1>3. \A d \in calls' : IsCall(d)
  BY <1>1 DEF StoreFails, ResetFails, Refused, PageTypes
<1> QED
  BY <1>2, <1>3 DEF PageKept, PageTypes, Previews, CanvasAsked, CanvasTypes, pageVars

\* The page takes an answer.
LEMMA Answer_Kept ==
    ASSUME CanvasTypes, PageTypes, Previews, NEW c \in calls, Answer(c)
    PROVE  PageKept
<1>0. taps' \in Nat /\ faults' \in Nat /\ faults' = faults /\ NoTap /\ IsCall(c) /\ IsJob(view)
      /\ rows' = rows
  BY DEF Answer, SaveAnswered, SaveRefused, ResetAnswered, BatchAnswered, OrderAnswered, CardsAnswered,
      Ends, NoTap, CanvasTypes, PageTypes
<1>1. ASSUME NEW v, IsJob(v), view' = v, NEW n, LoadPreview(v, n), calls' \subseteq calls,
             latest' \in [Item -> Seq(CanvasState)]
      PROVE  PageKept
  <2>1. saved' \in Seq(CanvasState) /\ Previews' /\ (UNCHANGED canvasVars \/ CloseCanvas)
    BY <1>1, LoadPreview_Kept
  <2> QED
    BY <1>0, <1>1, <2>1 DEF PageKept, PageTypes, CanvasAsked
<1>2. ASSUME \A d \in calls' : IsCall(d), IsJob(view'), latest' \in [Item -> Seq(CanvasState)],
             UNCHANGED <<canvasVars, asked, previews, shown, saved>>
      PROVE  PageKept
  BY <1>0, <1>2 DEF PageKept, PageTypes, Previews, CanvasAsked
<1>3. \A render : IsJob([view EXCEPT !.render = render])
  BY <1>0 DEF IsJob
<1>4. CASE SaveAnswered(c)
  BY <1>1, <1>3, <1>4 DEF SaveAnswered, Patched, Ends, PageTypes
<1>5. CASE SaveRefused(c)
  BY <1>0, <1>2, <1>5 DEF SaveRefused, Ends, PageTypes
<1>6. CASE ResetAnswered(c)
  <2>1. latest' \in [Item -> Seq(CanvasState)]
    BY <1>6, EmptySeq DEF ResetAnswered, PageTypes
  <2> QED
    BY <1>1, <1>3, <1>6, <2>1 DEF ResetAnswered, Patched, Ends
<1>7. CASE BatchAnswered(c)
  <2>1. latest' \in [Item -> Seq(CanvasState)]
    BY <1>7, EmptySeq DEF BatchAnswered, PageTypes
  <2>2. IsJob(view')
    BY <1>0, <1>3, <1>7 DEF BatchAnswered
  <2>3. \A d \in calls' : IsCall(d)
    BY <1>0, <1>7, NextOfBatchType DEF BatchAnswered, PageTypes, IsCall
  <2> QED
    BY <1>2, <1>7, <2>1, <2>2, <2>3 DEF BatchAnswered
<1>8. CASE OrderAnswered(c)
  <2>1. IsJob(view')
    BY <1>0, <1>8 DEF OrderAnswered, IsCall
  <2>2. IsCall([c EXCEPT !.kind = "load", !.stage = "sent", !.rest = <<>>])
    BY <1>0, EmptySeq, ReloadType
  <2>3. \A d \in calls' : IsCall(d)
    BY <1>8, <2>2 DEF OrderAnswered, PageTypes
  <2> QED
    BY <1>2, <1>8, <2>1, <2>3 DEF OrderAnswered, PageTypes
<1>9. CASE CardsAnswered(c)
  BY <1>0, <1>1, <1>9 DEF CardsAnswered, SelectIndex, Ends, PageTypes, IsCall
<1> QED
  BY <1>4, <1>5, <1>6, <1>7, <1>8, <1>9 DEF Answer
-----------------------------------------------------------------------------
(***************************************************************************)
(* The whole.                                                              *)
(***************************************************************************)
IInv == CanvasTypes /\ Closed /\ MarksInv /\ PageTypes /\ Previews

LEMMA Init_IInv == Init => IInv
<1> SUFFICES ASSUME Init PROVE IInv
  OBVIOUS
<1>1. CanvasTypes /\ Closed /\ MarksInv
  <2>1. HistoryTypes
    BY CanvasAssumption, EmptySeq DEF Init, HistoryTypes
  <2> QED
    BY <2>1, EmptySeq DEF Init, CanvasTypes, Closed, MarksInv
<1>2. <<Before>> \in Seq(CanvasState)
  <2>1. MaxTaps + 1 \in Nat /\ <<MaxTaps + 1>> \in Seq(Nat)
    BY CanvasAssumption
  <2>2. Before \in CanvasState
    BY <2>1, SnapshotType DEF Before
  <2> QED
    BY <2>2
<1>3. latest \in [Item -> Seq(CanvasState)]
  BY <1>2, EmptySeq DEF Init
<1>4. 1 \in 1 .. Len(Items) /\ Items[1] \in Item
  BY ItemsAssumption
<1>5. IsJob(rows) /\ IsJob(view)
  BY ItemsAssumption DEF Init, IsJob
<1>6. PageTypes
  BY <1>3, <1>4, <1>5 DEF Init, PageTypes
<1>7. Previews
  BY DEF Init, Previews, IsPreview
<1> QED
  BY <1>1, <1>6, <1>7 DEF IInv

\* Every step keeps the invariant, and is a step of the undo stack or none.
LEMMA Next_IInv == IInv /\ [Next]_vars => IInv' /\ Moves
<1> SUFFICES ASSUME IInv, [Next]_vars PROVE IInv' /\ Moves
  OBVIOUS
<1> USE DEF IInv
<1>1. ASSUME UNCHANGED canvasVars, taps' \in Nat, faults' \in Nat, faults' = 0 => faults = 0
      PROVE  CanvasKept
  BY <1>1 DEF canvasVars, historyVars, CanvasKept, CanvasTypes, HistoryTypes, Closed, Moves, MarksInv
<1>2. ASSUME PageKept PROVE IInv' /\ Moves
  BY <1>1, <1>2, Close_Kept, Open_Kept DEF PageKept, CanvasAsked, CanvasKept, PageTypes, CanvasTypes
<1>3. CASE CanvasStep
  <2>1. CanvasKept
    BY <1>3, Edit_Kept, Travel_Kept, GoesOn_Kept, Fails_Kept DEF CanvasStep, CanvasNext, CanvasTap
  <2>2. PageTypes' /\ Previews'
    BY <1>3 DEF CanvasStep, pageVars, serverVars, PageTypes, Previews
  <2> QED
    BY <2>1, <2>2 DEF CanvasKept
<1>4. CASE PageTap
  BY <1>2, <1>4, PageTap_Kept
<1>5. CASE PageGoesOn
  BY <1>2, <1>5, PageGoesOn_Kept DEF PageGoesOn
<1>6. ASSUME NEW c \in calls, Serve(c) \/ Answer(c) \/ StoreFails(c) \/ ResetFails(c) PROVE IInv' /\ Moves
  BY <1>2, <1>6, Serve_Kept, Answer_Kept, StoreFails_Kept
<1>7. CASE UNCHANGED vars
  <2>1. CanvasKept
    BY <1>1, <1>7 DEF vars, CanvasTypes
  <2> QED
    BY <1>7, <2>1 DEF vars, pageVars, serverVars, PageTypes, Previews, CanvasKept
<1> QED
  BY <1>3, <1>4, <1>5, <1>6, <1>7 DEF Next

LEMMA Spec_IInv == Spec => []IInv
BY Init_IInv, Next_IInv, PTL DEF Spec

\* However late the answers come, the image on the page is of the document whose
\* preview was asked for last, for any number of items, requests and downloads.
THEOREM Spec_ShownIsAsked == Spec => []ShownIsAsked
<1>1. IInv => ShownIsAsked
  BY DEF IInv, Previews, ShownIsAsked
<1> QED
  BY <1>1, Spec_IInv, PTL

\* When nothing is being restored, no edit waits to be recorded and no
\* computation has failed, the marks on the canvas are those of the current
\* recorded state, for any limit of the history and any number of edits.
THEOREM Spec_MarksInHistory == Spec => []MarksInHistory
<1>1. IInv => MarksInHistory
  BY DEF IInv, MarksInv, MarksInHistory, IsOpen
<1> QED
  BY <1>1, Spec_IInv, PTL

\* The editor implements the undo stack: whatever the canvas restores and the
\* page loads in between, undo and redo step through what was recorded.
THEOREM Spec_ImplementsUndoStack == Spec => ImplementsUndoStack
<1>1. Init => Stack!Init
  <2> SUFFICES ASSUME Init PROVE Stack!Init
    OBVIOUS
  <2>1. history = <<>> /\ pos = 0
    BY DEF Init
  <2>2. SubSeq(<<>>, 1, 0) = <<>> /\ SubSeq(<<>>, 0 + 1, Len(<<>>)) = <<>>
    BY SubSeqEmpty, LenEmpty
  <2> QED
    BY <2>1, <2>2 DEF Stack!Init
<1>2. IInv /\ [Next]_vars =>
        [Stack!Next]_<<SubSeq(history, 1, pos), SubSeq(history, pos + 1, Len(history))>>
  BY Next_IInv, Moves_Refine DEF IInv, CanvasTypes
<1> QED
  BY <1>1, <1>2, Spec_IInv, PTL DEF Spec, ImplementsUndoStack, Stack!Spec
-----------------------------------------------------------------------------
(***************************************************************************)
(* The pictures in the store.                                              *)
(***************************************************************************)
Picture == Item \X Nat
Key == {<<>>} \cup Picture

\* The cards, each once.
IsOrder(q) == q \in Seq(Item) /\ IsInjective(q) /\ Len(q) \in 1 .. Len(Items)
IsRow(v) == v = [order |-> v.order, render |-> v.render] /\ IsOrder(v.order) /\ v.render \in [Item -> Key]

\* The calls that make a picture.
Making == {"save", "batch"}

CallOK(c) ==
    /\ DOMAIN c = {"kind", "stage", "item", "picture", "before", "rest", "job", "no"}
    /\ c.stage \in {"sent", "read", "written", "deleted", "answered", "refused"}
    /\ c.item \in Item /\ c.before \in Key /\ c.no \in Nat
    /\ c.kind \in Making => c.picture \in Picture /\ c.picture[2] = c.no
    /\ c.kind = "batch" =>
          c.picture[1] = c.item /\ c.rest \in Seq(Item) /\ IsInjective(c.rest) /\ c.item \notin ToSet(c.rest)
    /\ c.kind = "reorder" => IsOrder(c.rest)
    /\ c.kind \in {"reorder", "remove", "settings", "load"} /\ c.stage = "answered" => IsRow(c.job)

PageOK ==
    /\ IsRow(view) /\ sel \in 1 .. Len(Items) /\ asked \in Item
    /\ \A p \in previews : IsPreview(p) /\ p.item \in Item /\ p.file \in Key \cup {<<p.item>>}
    /\ shown = <<>> \/ shown \in Item \X Item
    /\ history # <<>> => shown # <<>>

RowsOK == IsRow(rows) /\ objects \subseteq Picture /\ \A c \in calls : CallOK(c)

\* As long as no card was moved or removed: the cards are where they were, and
\* every picture, made or to be made, and every download is of its document.
PageInPlace == ~shuffled =>
    /\ view.order = Items /\ asked = Items[sel]
    /\ \A p \in previews : p.file # <<>> => p.file[1] = p.item
    /\ shown # <<>> => shown[2] = shown[1]

CallInPlace(c) ==
    /\ c.kind \notin {"reorder", "remove", "load"}
    /\ c.kind = "settings" /\ c.stage = "answered" => c.job.order = Items
    /\ c.kind = "save" => c.picture[1] = c.item

RowsInPlace == ~shuffled =>
    /\ rows.order = Items
    /\ \A i \in Item : rows.render[i] # <<>> => rows.render[i][1] = i
    /\ \A c \in calls : CallInPlace(c)

\* The pictures call c may still store, and those a row or a call knows.
Due(c) == (IF c.kind \in Making /\ c.stage \in {"sent", "read"} THEN {c.picture} ELSE {})
          \cup (IF c.kind = "batch" THEN {<<i, c.no>> : i \in ToSet(c.rest)} ELSE {})
Known == {<<>>} \cup {rows.render[i] : i \in Item} \cup {c.before : c \in calls}

\* What call c is to delete no row names but, until c has written it anew, its own.
KeepsOff(c, render) ==
    \A i \in Item : c.before # <<>> /\ c.before = render[i] => i = c.item /\ c.stage # "written"

\* A picture is stored once, for one row: what is to be stored is not known yet,
\* nor due from another call.
Keys ==
    /\ \A k \in Known : k # <<>> => k[2] \in 0 .. taps
    /\ \A c \in calls : c.no \in 1 .. taps
    /\ \A c \in calls : Due(c) \cap Known = {}
    /\ \A c, d \in calls : c # d => Due(c) \cap Due(d) = {}
    /\ \A i, j \in Item : rows.render[i] = rows.render[j] => i = j \/ rows.render[i] = <<>>
    /\ \A c \in calls : KeepsOff(c, rows.render)

PicInv == PageOK /\ RowsOK /\ PageInPlace /\ RowsInPlace /\ Keys /\ RenderExists
-----------------------------------------------------------------------------
\* A card is taken out: the others stay, in order.
LEMMA Without_Is ==
    ASSUME NEW q, IsOrder(q), NEW i \in ToSet(q)
    PROVE  /\ Without(q, i) \in Seq(Item) /\ IsInjective(Without(q, i))
           /\ Len(Without(q, i)) = Len(q) - 1 /\ i \notin ToSet(Without(q, i))
           /\ ToSet(Without(q, i)) \subseteq ToSet(q)
<1>1. PICK n : n = CHOOSE m \in DOMAIN q : q[m] = i
  OBVIOUS
<1>2. n \in 1 .. Len(q) /\ q[n] = i /\ q \in Seq(Item) /\ Len(q) \in Nat /\ DOMAIN q = 1 .. Len(q)
  BY <1>1 DEF ToSet, IsOrder
<1>3. PICK a, b : a = SubSeq(q, 1, n - 1) /\ b = SubSeq(q, n + 1, Len(q))
  OBVIOUS
<1>4. a \in Seq(Item) /\ Len(a) = n - 1 /\ \A k \in 1 .. n - 1 : a[k] = q[k]
  BY <1>2, <1>3, SubSeqProperties
<1>5. b \in Seq(Item) /\ Len(b) = Len(q) - n /\ \A k \in 1 .. Len(q) - n : b[k] = q[k + n]
  <2>1. \A k \in n + 1 .. Len(q) : q[k] \in Item
    BY <1>2
  <2>2. b \in Seq(Item) /\ Len(b) = IF n + 1 <= Len(q) THEN Len(q) - (n + 1) + 1 ELSE 0
    BY <1>2, <1>3, <2>1, SubSeqProperties
  <2>3. \A k \in 1 .. Len(q) - (n + 1) + 1 : b[k] = q[n + 1 + k - 1]
    BY <1>2, <1>3, <2>1, SubSeqProperties
  <2>4. PICK l \in Nat : l = Len(q)
    BY <1>2
  <2>6. /\ l - (n + 1) + 1 = l - n
        /\ (IF n + 1 <= l THEN l - (n + 1) + 1 ELSE 0) = l - n
    <3>1. n \in 1 .. l
      BY <1>2, <2>4
    <3>2. l - (n + 1) + 1 = l - n
      BY <3>1
    <3>3. ~(n + 1 <= l) => l - n = 0
      BY <3>1
    <3> QED
      BY <3>2, <3>3
  <2>5. \A k \in 1 .. Len(q) - n : n + 1 + k - 1 = k + n
    BY <1>2
  <2> QED
    BY <2>2, <2>3, <2>4, <2>5, <2>6
<1>6. Without(q, i) = a \o b
  BY <1>1, <1>3 DEF Without, RemoveAt
<1>7. PICK w : w = a \o b
  OBVIOUS
<1>8. /\ w \in Seq(Item) /\ Len(w) = Len(q) - 1 /\ DOMAIN w = 1 .. Len(q) - 1
      /\ \A k \in 1 .. Len(q) - 1 : w[k] = IF k <= n - 1 THEN q[k] ELSE q[k + 1]
  <2>1. w \in Seq(Item) /\ Len(w) = Len(a) + Len(b)
    BY <1>4, <1>5, <1>7, ConcatProperties
  <2>2. \A k \in 1 .. Len(a) + Len(b) : w[k] = IF k <= Len(a) THEN a[k] ELSE b[k - Len(a)]
    BY <1>4, <1>5, <1>7, ConcatProperties
  <2>3. Len(a) + Len(b) = Len(q) - 1 /\ DOMAIN w = 1 .. Len(w)
    BY <1>2, <1>4, <1>5, <2>1
  <2>4. ASSUME NEW k \in 1 .. Len(q) - 1 PROVE w[k] = IF k <= n - 1 THEN q[k] ELSE q[k + 1]
    <3>1. CASE k <= n - 1
      BY <1>2, <1>4, <2>2, <2>3, <3>1
    <3>2. CASE ~(k <= n - 1)
      <4>1. k - (n - 1) \in 1 .. Len(q) - n /\ (k - (n - 1)) + n = k + 1
        BY <1>2, <3>2
      <4> QED
        BY <1>2, <1>4, <1>5, <2>2, <2>3, <3>2, <4>1
    <3> QED
      BY <3>1, <3>2
  <2> QED
    BY <2>1, <2>3, <2>4
<1>9. \A k, l \in 1 .. Len(q) : q[k] = q[l] => k = l
  BY <1>2 DEF IsOrder, IsInjective
<1>10. IsInjective(w)
  <2>1. ASSUME NEW k \in 1 .. Len(q) - 1, NEW l \in 1 .. Len(q) - 1, w[k] = w[l] PROVE k = l
    <3>1. PICK x, y : x = (IF k <= n - 1 THEN k ELSE k + 1) /\ y = (IF l <= n - 1 THEN l ELSE l + 1)
      OBVIOUS
    <3>2. x \in 1 .. Len(q) /\ y \in 1 .. Len(q) /\ (x = y => k = l)
      BY <1>2, <3>1
    <3>3. w[k] = q[x] /\ w[l] = q[y]
      BY <1>8, <3>1
    <3> QED
      BY <1>9, <2>1, <3>2, <3>3
  <2> QED
    BY <1>8, <2>1 DEF IsInjective
<1>11. \A k \in 1 .. Len(q) - 1 : w[k] # i
  BY <1>2, <1>8, <1>9
<1>12. \A k \in 1 .. Len(q) - 1 : \E l \in 1 .. Len(q) : w[k] = q[l]
  <2>1. ASSUME NEW k \in 1 .. Len(q) - 1 PROVE \E l \in 1 .. Len(q) : w[k] = q[l]
    <3>1. k \in 1 .. Len(q) /\ k + 1 \in 1 .. Len(q)
      BY <1>2
    <3> QED
      BY <1>8, <3>1
  <2> QED
    BY <2>1
<1>13. i \notin ToSet(w) /\ ToSet(w) \subseteq ToSet(q)
  BY <1>2, <1>8, <1>11, <1>12 DEF ToSet
<1> QED
  BY <1>6, <1>7, <1>8, <1>10, <1>13

\* Two cards change places.
LEMMA Swap_Is ==
    ASSUME NEW q, IsOrder(q), NEW n \in DOMAIN q, NEW m \in DOMAIN q
    PROVE  IsOrder([q EXCEPT ![n] = q[m], ![m] = q[n]])
<1>1. PICK w : w = [q EXCEPT ![n] = q[m], ![m] = q[n]]
  OBVIOUS
<1>2. q \in Seq(Item) /\ Len(q) \in Nat /\ DOMAIN q = 1 .. Len(q) /\ \A k \in 1 .. Len(q) : q[k] \in Item
  BY DEF IsOrder
<1>3. /\ w \in [1 .. Len(q) -> Item]
      /\ \A k \in 1 .. Len(q) : w[k] = IF k = m THEN q[n] ELSE IF k = n THEN q[m] ELSE q[k]
  BY <1>1, <1>2
<1>4. w \in Seq(Item) /\ DOMAIN w = 1 .. Len(q)
  BY <1>2, <1>3, SeqDef
<1>5. Len(w) = Len(q)
  BY <1>2, <1>4, LenProperties
<1>6. IsInjective(w)
  BY <1>2, <1>3, <1>4 DEF IsOrder, IsInjective
<1> QED
  BY <1>1, <1>4, <1>5, <1>6 DEF IsOrder
-----------------------------------------------------------------------------
\* A call stores pictures with its own number.
LEMMA Due_Is ==
    ASSUME NEW c, CallOK(c), NEW k \in Due(c)
    PROVE  k \in Picture /\ k # <<>> /\ k[2] = c.no
<1>1. k \in Picture /\ k[2] = c.no
  <2>1. CASE c.kind \in Making /\ k = c.picture
    BY <2>1 DEF CallOK
  <2>2. ASSUME c.kind = "batch", NEW i \in ToSet(c.rest), k = <<i, c.no>> PROVE k \in Picture /\ k[2] = c.no
    <3>1. i \in Item /\ c.no \in Nat
      BY <2>2 DEF CallOK, ToSet
    <3> QED
      BY <2>2, <3>1 DEF Picture
  <2> QED
    BY <2>1, <2>2 DEF Due
<1>2. k # <<>>
  BY <1>1 DEF Picture
<1> QED
  BY <1>1, <1>2

\* A step that leaves rows and calls alone.
LEMMA Keys_Same ==
    ASSUME Keys, UNCHANGED <<rows, calls>>, taps \in Nat, taps' \in {taps, taps + 1}
    PROVE  Keys'
<1>1. \A n : (n \in 0 .. taps => n \in 0 .. taps') /\ (n \in 1 .. taps => n \in 1 .. taps')
  OBVIOUS
<1>2. Known' = Known
  BY DEF Known
<1>3. \A k \in Known' : k # <<>> => k[2] \in 0 .. taps'
  BY <1>1, <1>2 DEF Keys
<1>4. \A c \in calls' : c.no \in 1 .. taps'
  BY <1>1 DEF Keys
<1> QED
  BY <1>2, <1>3, <1>4 DEF Keys

\* A step of call c, which goes on as d or not at all.
LEMMA Keys_Step ==
    ASSUME Keys, NEW c \in calls, NEW d, calls' \subseteq (calls \ {c}) \union {d},
           rows'.render = rows.render, taps' = taps,
           Due(d) \subseteq Due(c), d.no = c.no, d.before \in Known, KeepsOff(d, rows.render)
    PROVE  Keys'
<1>1. \A k \in Known' : k \in Known
  BY DEF Known
<1>2. \A e \in calls' : e = d \/ (e \in calls /\ e # c)
  OBVIOUS
<1>3. \A e \in calls' : e.no \in 1 .. taps /\ Due(e) \cap Known' = {} /\ KeepsOff(e, rows.render)
  BY <1>1, <1>2 DEF Keys
<1>4. \A e, f \in calls' : e # f => Due(e) \cap Due(f) = {}
  <2>1. ASSUME NEW e \in calls', NEW f \in calls', e # f PROVE Due(e) \cap Due(f) = {}
    <3>1. CASE e = d
      BY <1>2, <2>1, <3>1 DEF Keys
    <3>2. CASE f = d
      BY <1>2, <2>1, <3>2 DEF Keys
    <3>3. CASE e # d /\ f # d
      BY <1>2, <2>1, <3>3 DEF Keys
    <3> QED
      BY <3>1, <3>2, <3>3
  <2> QED
    BY <2>1
<1>5. \A k \in Known' : k # <<>> => k[2] \in 0 .. taps
  BY <1>1 DEF Keys
<1> QED
  BY <1>3, <1>4, <1>5 DEF Keys

\* A new call has a number of its own.
LEMMA Keys_New ==
    ASSUME Keys, \A c \in calls : CallOK(c), taps \in Nat, taps' = taps + 1,
           NEW d, CallOK(d), d.no = taps', d.before = <<>>, calls' \subseteq calls \union {d}, rows' = rows
    PROVE  Keys'
<1>1. \A k \in Known' : k \in Known
  BY DEF Known
<1>2. \A c \in calls : c.no \in 1 .. taps
  BY DEF Keys
<1>3. \A k \in Due(d) : k # <<>> /\ k[2] = taps'
  BY Due_Is
<1>4. Due(d) \cap Known = {}
  <2>1. ASSUME NEW k \in Due(d), k \in Known PROVE FALSE
    <3>1. k[2] = taps' /\ k[2] \in 0 .. taps
      BY <1>3, <2>1 DEF Keys
    <3> QED
      BY <3>1
  <2> QED
    BY <2>1
<1>5. \A c \in calls : Due(d) \cap Due(c) = {}
  <2>1. ASSUME NEW c \in calls, NEW k \in Due(d), k \in Due(c) PROVE FALSE
    <3>1. k[2] = taps' /\ k[2] = c.no /\ c.no \in 1 .. taps
      BY <1>2, <1>3, <2>1, Due_Is
    <3> QED
      BY <3>1
  <2> QED
    BY <2>1
<1>6. \A e \in calls' : e.no \in 1 .. taps' /\ Due(e) \cap Known' = {} /\ KeepsOff(e, rows'.render)
  <2>1. ASSUME NEW e \in calls PROVE e.no \in 1 .. taps' /\ Due(e) \cap Known' = {} /\ KeepsOff(e, rows'.render)
    BY <1>1, <1>2 DEF Keys
  <2>2. d.no \in 1 .. taps' /\ Due(d) \cap Known' = {} /\ KeepsOff(d, rows'.render)
    BY <1>1, <1>4 DEF KeepsOff
  <2> QED
    BY <2>1, <2>2
<1>7. \A e, f \in calls' : e # f => Due(e) \cap Due(f) = {}
  <2>1. ASSUME NEW e \in calls', NEW f \in calls', e # f PROVE Due(e) \cap Due(f) = {}
    <3>1. CASE e = d
      BY <1>5, <2>1, <3>1
    <3>2. CASE f = d
      BY <1>5, <2>1, <3>2
    <3>3. CASE e # d /\ f # d
      BY <2>1, <3>3 DEF Keys
    <3> QED
      BY <3>1, <3>2, <3>3
  <2> QED
    BY <2>1
<1>8. \A k \in Known' : k # <<>> => k[2] \in 0 .. taps'
  <2>1. \A n \in 0 .. taps : n \in 0 .. taps'
    OBVIOUS
  <2> QED
    BY <1>1, <2>1 DEF Keys
<1> QED
  BY <1>6, <1>7, <1>8 DEF Keys

\* A row names the picture a call has stored, or none; nobody else deletes it.
LEMMA Keys_Row ==
    ASSUME Keys, NEW c \in calls, CallOK(c), NEW d, calls' \subseteq (calls \ {c}) \union {d}, taps' = taps,
           rows.render \in [Item -> Key], NEW key, rows'.render = [rows.render EXCEPT ![c.item] = key],
           d.no = c.no, d.item = c.item, d.before = c.before, Due(d) \subseteq Due(c) \ {key},
           key = <<>> \/ key \in Due(c)
    PROVE  Keys'
<1>0. c.item \in Item /\ \A i \in Item : rows'.render[i] = IF i = c.item THEN key ELSE rows.render[i]
  BY DEF CallOK
<1>1. \A k \in Known' : k \in Known \/ k = key
  BY <1>0 DEF Known
<1>2. \A e \in calls' : e = d \/ (e \in calls /\ e # c)
  OBVIOUS
<1>3. \A e \in calls : e.before \in Known
  BY DEF Known
<1>4. key = <<>> \/ (key \notin Known /\ \A e \in calls : e # c => key \notin Due(e))
  BY DEF Keys
<1>5. \A e \in calls : e # c => key \notin Due(e)
  <2>1. <<>> \in Known
    BY DEF Known
  <2> QED
    BY <1>4, <2>1 DEF Keys
<1>6. \A e \in calls' : e.no \in 1 .. taps /\ Due(e) \cap Known' = {}
  BY <1>1, <1>2, <1>5 DEF Keys
<1>7. \A e, f \in calls' : e # f => Due(e) \cap Due(f) = {}
  <2>1. ASSUME NEW e \in calls', NEW f \in calls', e # f PROVE Due(e) \cap Due(f) = {}
    <3>1. CASE e = d
      BY <1>2, <2>1, <3>1 DEF Keys
    <3>2. CASE f = d
      BY <1>2, <2>1, <3>2 DEF Keys
    <3>3. CASE e # d /\ f # d
      BY <1>2, <2>1, <3>3 DEF Keys
    <3> QED
      BY <3>1, <3>2, <3>3
  <2> QED
    BY <2>1
<1>8. \A k \in Known' : k # <<>> => k[2] \in 0 .. taps
  <2>1. \A k \in Due(c) : k[2] \in 0 .. taps
    <3>1. c.no \in 0 .. taps
      BY DEF Keys
    <3> QED
      BY <3>1, Due_Is
  <2> QED
    BY <1>1, <2>1 DEF Keys
<1>9. \A i, j \in Item : rows'.render[i] = rows'.render[j] => i = j \/ rows'.render[i] = <<>>
  <2>1. \A i \in Item : rows.render[i] \in Known
    BY DEF Known
  <2> QED
    BY <1>0, <1>4, <2>1 DEF Keys
<1>10. ASSUME NEW e \in calls' PROVE KeepsOff(e, rows'.render)
  <2>1. CASE e \in calls
    BY <1>0, <1>3, <1>4, <2>1 DEF Keys, KeepsOff
  <2>2. ASSUME e = d, NEW i \in Item, d.before # <<>>, d.before = rows'.render[i]
        PROVE  i = d.item /\ d.stage # "written"
    <3>1. key # d.before
      BY <1>3, <1>4, <2>2
    <3>2. i # c.item /\ d.before = rows.render[i]
      BY <1>0, <2>2, <3>1
    <3>3. i = c.item
      BY <2>2, <3>2 DEF Keys, KeepsOff
    <3> QED
      BY <3>2, <3>3
  <2> QED
    BY <1>2, <2>1, <2>2 DEF KeepsOff
<1> QED
  BY <1>6, <1>7, <1>8, <1>9, <1>10 DEF Keys
-----------------------------------------------------------------------------
\* The new calls of the page.
LEMMA Call_OK ==
    ASSUME NEW kind, NEW item \in Item, NEW picture, NEW rest, taps' \in Nat,
           kind \in Making => picture \in Picture /\ picture[2] = taps',
           kind # "batch", kind = "reorder" => IsOrder(rest)
    PROVE  LET d == Call(kind, item, picture, rest)
           IN  CallOK(d) /\ d.no = taps' /\ d.before = <<>> /\ d.kind = kind /\ d.stage = "sent"
               /\ d.item = item /\ d.picture = picture
BY DEF Call, CallOK, Key, NoJob

\* The next of a batch.
LEMMA NextOfBatch_OK ==
    ASSUME NEW rest \in Seq(Item), IsInjective(rest), NEW no \in Nat
    PROVE  \/ NextOfBatch(rest, no) = {}
           \/ \E d : /\ NextOfBatch(rest, no) = {d} /\ CallOK(d) /\ d.no = no /\ d.before = <<>>
                     /\ d.kind = "batch" /\ d.stage = "sent" /\ Due(d) \subseteq {<<i, no>> : i \in ToSet(rest)}
<1>1. CASE rest = <<>>
  BY <1>1 DEF NextOfBatch
<1>2. CASE rest # <<>>
  <2>1. /\ Head(rest) \in Item /\ Tail(rest) \in Seq(Item) /\ Len(rest) \in Nat /\ Len(rest) > 0
        /\ Len(Tail(rest)) = Len(rest) - 1 /\ Head(rest) = rest[1]
        /\ \A n \in 1 .. Len(rest) - 1 : Tail(rest)[n] = rest[n + 1]
    BY <1>2, HeadTailProperties
  <2>2. \A n, m \in 1 .. Len(rest) : rest[n] = rest[m] => n = m
    BY DEF IsInjective
  <2>3. DOMAIN Tail(rest) = 1 .. Len(rest) - 1 /\ \A n \in 1 .. Len(rest) - 1 : n + 1 \in 1 .. Len(rest) /\ n + 1 # 1
    BY <2>1
  <2>4. IsInjective(Tail(rest))
    <3>1. ASSUME NEW n \in 1 .. Len(rest) - 1, NEW m \in 1 .. Len(rest) - 1, Tail(rest)[n] = Tail(rest)[m]
          PROVE  n = m
      <4>1. n + 1 = m + 1
        BY <2>1, <2>2, <2>3, <3>1
      <4> QED
        BY <4>1
    <3> QED
      BY <2>3, <3>1 DEF IsInjective
  <2>5. Head(rest) \notin ToSet(Tail(rest))
    BY <2>1, <2>2, <2>3 DEF ToSet
  <2>6. ToSet(Tail(rest)) \subseteq ToSet(rest) /\ Head(rest) \in ToSet(rest)
    BY <2>1, <2>3 DEF ToSet
  <2>7. PICK h, t : h = Head(rest) /\ t = Tail(rest)
    OBVIOUS
  <2>8. PICK d : d = [Call("batch", h, <<h, no>>, t) EXCEPT !.no = no]
    OBVIOUS
  <2>9. NextOfBatch(rest, no) = {d}
    BY <1>2, <2>7, <2>8 DEF NextOfBatch
  <2>10. /\ DOMAIN d = {"kind", "stage", "item", "picture", "before", "rest", "job", "no"}
         /\ d.kind = "batch" /\ d.stage = "sent" /\ d.item = h /\ d.picture = <<h, no>>
         /\ d.before = <<>> /\ d.rest = t /\ d.no = no
    BY <2>8 DEF Call
  <2>11. CallOK(d)
    BY <2>1, <2>4, <2>5, <2>7, <2>10 DEF CallOK, Key, Picture
  <2>12. Due(d) \subseteq {<<i, no>> : i \in ToSet(rest)}
    BY <2>6, <2>7, <2>10 DEF Due
  <2> QED
    BY <2>9, <2>10, <2>11, <2>12
<1> QED
  BY <1>1, <1>2

\* A call that goes on without an answer of the order.
LEMMA Stage_OK ==
    ASSUME NEW c, CallOK(c), NEW stage,
           \/ stage \in {"read", "written", "deleted", "refused"}
           \/ stage = "answered" /\ c.kind \in {"save", "batch", "reset"}
    PROVE  LET d == [c EXCEPT !.stage = stage]
           IN  /\ CallOK(d) /\ d.no = c.no /\ d.before = c.before /\ d.kind = c.kind /\ d.stage = stage
               /\ d.item = c.item /\ d.picture = c.picture /\ d.rest = c.rest
<1>1. PICK d : d = [c EXCEPT !.stage = stage]
  OBVIOUS
<1>2. /\ DOMAIN d = DOMAIN c /\ d.stage = stage /\ d.no = c.no /\ d.before = c.before /\ d.kind = c.kind
      /\ d.item = c.item /\ d.picture = c.picture /\ d.rest = c.rest /\ d.job = c.job
  BY <1>1 DEF CallOK
<1>3. CallOK(d)
  BY <1>2 DEF CallOK, Making
<1> QED
  BY <1>1, <1>2, <1>3

\* A call that is answered with the order, or has read the picture.
LEMMA Answered_OK ==
    ASSUME NEW c, CallOK(c), NEW job, IsRow(job), NEW d, d = [c EXCEPT !.stage = "answered", !.job = job]
    PROVE  /\ CallOK(d) /\ d.no = c.no /\ d.before = c.before /\ d.kind = c.kind /\ d.stage = "answered"
           /\ d.item = c.item /\ d.picture = c.picture /\ d.rest = c.rest /\ d.job = job
<1>1. /\ DOMAIN d = DOMAIN c /\ d.stage = "answered" /\ d.no = c.no /\ d.before = c.before /\ d.kind = c.kind
      /\ d.item = c.item /\ d.picture = c.picture /\ d.rest = c.rest /\ d.job = job
  BY DEF CallOK
<1>2. CallOK(d)
  BY <1>1 DEF CallOK
<1> QED
  BY <1>1, <1>2

LEMMA Read_OK ==
    ASSUME NEW c, CallOK(c), c.kind \in {"save", "batch", "reset"}, NEW before \in Key
    PROVE  LET d == [c EXCEPT !.stage = "read", !.before = before]
           IN  /\ CallOK(d) /\ d.no = c.no /\ d.before = before /\ d.kind = c.kind /\ d.stage = "read"
               /\ d.item = c.item /\ d.picture = c.picture /\ d.rest = c.rest
<1>1. PICK d : d = [c EXCEPT !.stage = "read", !.before = before]
  OBVIOUS
<1>2. /\ DOMAIN d = DOMAIN c /\ d.stage = "read" /\ d.no = c.no /\ d.before = before /\ d.kind = c.kind
      /\ d.item = c.item /\ d.picture = c.picture /\ d.rest = c.rest /\ d.job = c.job
  BY <1>1 DEF CallOK
<1>3. CallOK(d)
  BY <1>2 DEF CallOK
<1> QED
  BY <1>1, <1>2, <1>3

LEMMA Reload_OK ==
    ASSUME NEW c, CallOK(c), c.kind = "reorder"
    PROVE  LET d == [c EXCEPT !.kind = "load", !.stage = "sent", !.rest = <<>>]
           IN  CallOK(d) /\ d.no = c.no /\ d.before = c.before /\ d.kind = "load" /\ d.stage = "sent"
               /\ d.item = c.item /\ Due(d) = {}
<1>1. PICK d : d = [c EXCEPT !.kind = "load", !.stage = "sent", !.rest = <<>>]
  OBVIOUS
<1>2. /\ DOMAIN d = DOMAIN c /\ d.stage = "sent" /\ d.no = c.no /\ d.before = c.before /\ d.kind = "load"
      /\ d.item = c.item
  BY <1>1 DEF CallOK
<1>3. CallOK(d) /\ Due(d) = {}
  BY <1>2 DEF CallOK, Making, Due
<1> QED
  BY <1>1, <1>2, <1>3
-----------------------------------------------------------------------------
\* What is done on the canvas.
LEMMA CanvasStep_Pic ==
    ASSUME IInv, PicInv, CanvasStep
    PROVE  PicInv'
<1>1. history # <<>>
  <2>1. history # <<>> \/ pos > 1 \/ pos < Len(history) \/ ops # <<>> \/ jobs # {} \/ settling
    BY DEF CanvasStep, CanvasNext, CanvasTap, CanvasGoesOn, EditMarks, EditMarksLater, EditLook, PushOp, ClearPixelEdits,
        Undo, Redo, ResetAll, Settle, IsOpen
  <2>2. ops # <<>> \/ jobs # {} \/ settling => history # <<>>
    BY DEF IInv, Closed
  <2>3. pos > 1 \/ pos < Len(history) => history # <<>>
    BY LenEmpty DEF IInv, CanvasTypes, HistoryTypes
  <2> QED
    BY <2>1, <2>2, <2>3
<1>2. taps \in Nat /\ taps' \in {taps, taps + 1}
  BY DEF CanvasStep, CanvasNext, CanvasTap, CanvasGoesOn, EditMarks, EditMarksLater, EditLook, PushOp, ClearPixelEdits,
      Undo, Redo, ResetAll, Settle, OpComputed, BitmapRestored, MarksRestored, ComputationFails, Tap, NoTap,
      IInv, CanvasTypes
<1>3. UNCHANGED <<pageVars, serverVars>>
  BY DEF CanvasStep
<1>4. shown # <<>>
  BY <1>1 DEF PicInv, PageOK
<1>5. PageOK' /\ PageInPlace'
  BY <1>3, <1>4 DEF PicInv, PageOK, PageInPlace, pageVars
<1>6. RowsOK' /\ RowsInPlace' /\ RenderExists'
  BY <1>3 DEF PicInv, RowsOK, RowsInPlace, RenderExists, pageVars, serverVars
<1>7. Keys'
  BY <1>2, <1>3, Keys_Same DEF PicInv, serverVars
<1> QED
  BY <1>5, <1>6, <1>7 DEF PicInv

\* The preview of the item at place n of v is loaded.
LEMMA LoadPreview_Pic ==
    ASSUME PageOK, NEW v, IsRow(v), view' = v, sel' \in 1 .. Len(Items), LoadPreview(v, sel')
    PROVE  /\ PageOK'
           /\ sel' \in DOMAIN v.order => asked' = v.order[sel'] /\ shown' = <<>>
           /\ \A p \in previews' : p.file = <<>> \/ \E q \in previews : p.file = q.file /\ p.item = q.item
<1>0. v.order \in Seq(Item) /\ v.render \in [Item -> Key]
  BY DEF IsRow, IsOrder
<1>1. CASE sel' \notin DOMAIN v.order
  <2>1. UNCHANGED <<asked, previews, shown, history>>
    BY <1>1 DEF LoadPreview, canvasVars, historyVars
  <2> QED
    BY <1>1, <2>1 DEF PageOK
<1>2. CASE sel' \in DOMAIN v.order
  <2>1. PICK item : item = v.order[sel'] /\ item \in Item
    BY <1>0, <1>2
  <2>2. PICK new : /\ asked' = item /\ shown' = <<>> /\ CloseCanvas
                   /\ new.item = item /\ new.file = <<>> /\ IsPreview(new)
                   /\ previews' = {[p EXCEPT !.latest = FALSE] : p \in previews} \union {new}
    <3>1. PICK edited : /\ asked' = item /\ shown' = <<>> /\ CloseCanvas
                        /\ previews' = {[p EXCEPT !.latest = FALSE] : p \in previews} \union
                            {[item |-> item, original |-> edited # <<>>,
                              file |-> <<>>, latest |-> TRUE]}
      BY <1>2, <2>1 DEF LoadPreview
    <3>2. PICK new : new = [item |-> item, original |-> edited # <<>>,
                            file |-> <<>>, latest |-> TRUE]
      OBVIOUS
    <3>3. new.item = item /\ new.file = <<>> /\ IsPreview(new)
      BY <3>2 DEF IsPreview
    <3> QED
      BY <3>1, <3>2, <3>3
  <2>3. ASSUME NEW q \in previews
        PROVE  LET p == [q EXCEPT !.latest = FALSE] IN IsPreview(p) /\ p.item = q.item /\ p.file = q.file
    BY DEF PageOK, IsPreview
  <2>4. \A p \in previews' : p = new \/ \E q \in previews : IsPreview(p) /\ p.item = q.item /\ p.file = q.file
    BY <2>2, <2>3
  <2>5. \A p \in previews' : IsPreview(p) /\ p.item \in Item /\ p.file \in Key \cup {<<p.item>>}
    BY <2>1, <2>2, <2>4 DEF PageOK, Key
  <2>6. history' = <<>>
    BY <2>2 DEF CloseCanvas
  <2>7. PageOK'
    BY <2>1, <2>2, <2>5, <2>6 DEF PageOK
  <2> QED
    BY <2>1, <2>2, <2>4, <2>7
<1> QED
  BY <1>1, <1>2

\* A click that sends a request, or none, and leaves the canvas as it is.
LEMMA Sends_Pic ==
    ASSUME IInv, PicInv, Tap, NEW d, CallOK(d), d.no = taps', d.before = <<>>, calls' \subseteq calls \union {d},
           calls \subseteq calls', UNCHANGED <<rows, objects, lost>>, ~shuffled' => ~shuffled /\ CallInPlace(d)
    PROVE  RowsOK' /\ RowsInPlace' /\ Keys' /\ RenderExists'
<1>1. taps \in Nat /\ taps' = taps + 1
  BY DEF Tap, IInv, CanvasTypes
<1>2. \A c \in calls : CallOK(c)
  BY DEF PicInv, RowsOK
<1>3. Keys'
  BY <1>1, <1>2, Keys_New DEF PicInv
<1>4. RowsOK' /\ RowsInPlace'
  BY DEF PicInv, RowsOK, RowsInPlace
<1>5. RenderExists'
  BY DEF PicInv, RenderExists
<1> QED
  BY <1>3, <1>4, <1>5

LEMMA Select_Pic ==
    ASSUME IInv, PicInv, NEW n \in 1 .. Len(view.order), Select(n)
    PROVE  PicInv'
<1>1. IsRow(view) /\ Tap /\ sel' = n /\ LoadPreview(view, n) /\ UNCHANGED <<view, shuffled, serverVars>>
  BY DEF Select, SelectIndex, PicInv, PageOK
<1>2. n \in 1 .. Len(Items) /\ n \in DOMAIN view.order
  <2>1. Len(view.order) \in 1 .. Len(Items) /\ view.order \in Seq(Item)
    BY <1>1 DEF IsRow, IsOrder
  <2>2. n \in DOMAIN view.order
    BY <2>1
  <2>3. PICK a, b : a = Len(view.order) /\ b = Len(Items) /\ a \in 1 .. b
    BY <2>1
  <2>4. n \in 1 .. b
    BY <2>3
  <2> QED
    BY <2>2, <2>3, <2>4
<1>3. /\ PageOK' /\ asked' = view.order[n] /\ shown' = <<>>
      /\ \A p \in previews' : p.file = <<>> \/ \E q \in previews : p.file = q.file /\ p.item = q.item
  <2>1. view' = view /\ sel' = n
    BY <1>1
  <2> QED
    BY <1>1, <1>2, <2>1, LoadPreview_Pic DEF PicInv
<1>4. PageInPlace'
  BY <1>1, <1>3 DEF PicInv, PageInPlace
<1>5. RowsOK' /\ RowsInPlace' /\ RenderExists'
  BY <1>1 DEF PicInv, RowsOK, RowsInPlace, RenderExists, serverVars
<1>6. taps \in Nat /\ taps' = taps + 1
  BY <1>1 DEF Tap, IInv, CanvasTypes
<1>7. Keys'
  BY <1>1, <1>6, Keys_Same DEF PicInv, serverVars
<1> QED
  BY <1>3, <1>4, <1>5, <1>7 DEF PicInv

LEMMA MoveItem_Pic ==
    ASSUME IInv, PicInv, NEW n \in 1 .. Len(view.order), NEW m \in {n - 1, n + 1}, MoveItem(n, m)
    PROVE  PicInv'
<1>1. PICK order : /\ order = [view.order EXCEPT ![n] = view.order[m], ![m] = view.order[n]]
                   /\ view' = [view EXCEPT !.order = order]
                   /\ calls' = calls \union {Call("reorder", Items[1], <<>>, order)}
  BY DEF MoveItem
<1>2. /\ n \in DOMAIN view.order /\ m \in DOMAIN view.order /\ Tap /\ sel' = m /\ shuffled' = TRUE
      /\ UNCHANGED <<canvasVars, asked, previews, shown, rows, objects, lost>>
  BY DEF MoveItem
<1>3. IsRow(view)
  BY DEF PicInv, PageOK
<1>4. IsOrder(order)
  BY <1>1, <1>2, <1>3, Swap_Is DEF IsRow
<1>5. IsRow(view')
  BY <1>1, <1>3, <1>4 DEF IsRow
<1>6. PICK d : d = Call("reorder", Items[1], <<>>, order)
  OBVIOUS
<1>7. taps' \in Nat /\ Items[1] \in Item
  BY <1>2, ItemsAssumption DEF Tap, IInv, CanvasTypes
<1>8. CallOK(d) /\ d.no = taps' /\ d.before = <<>>
  BY <1>4, <1>6, <1>7, Call_OK DEF Making
<1>9. RowsOK' /\ RowsInPlace' /\ Keys' /\ RenderExists'
  BY <1>1, <1>2, <1>6, <1>8, Sends_Pic
<1>10. m \in 1 .. Len(Items)
  <2>1. Len(view.order) \in 1 .. Len(Items) /\ DOMAIN view.order = 1 .. Len(view.order)
    BY <1>3 DEF IsRow, IsOrder
  <2>2. PICK a, b : a = Len(view.order) /\ b = Len(Items) /\ a \in 1 .. b /\ m \in 1 .. a
    BY <1>2, <2>1
  <2>3. m \in 1 .. b
    BY <2>2
  <2> QED
    BY <2>2, <2>3
<1>11. PageOK'
  BY <1>2, <1>5, <1>10 DEF PicInv, PageOK, canvasVars, historyVars
<1>12. PageInPlace'
  BY <1>2 DEF PageInPlace
<1> QED
  BY <1>9, <1>11, <1>12 DEF PicInv

\* The other clicks leave what the page shows as it is.
LEMMA Click_Pic ==
    ASSUME IInv, PicInv, NEW i \in Item,
           RemoveItem(i) \/ Save(i) \/ ResetEdits(i) \/ CommitSettings(i) \/ ApplyAll(i)
    PROVE  PicInv'
<1>1. Tap /\ UNCHANGED <<canvasVars, view, sel, asked, previews, shown, rows, objects, lost>>
  BY DEF RemoveItem, Save, ResetEdits, CommitSettings, ApplyAll, pageVars
<1>2. PageOK'
  BY <1>1 DEF PicInv, PageOK, canvasVars, historyVars
<1>3. shuffled' = TRUE \/ shuffled' = shuffled
  BY DEF RemoveItem, Save, ResetEdits, CommitSettings, ApplyAll, pageVars
<1>4. PageInPlace'
  BY <1>1, <1>3 DEF PicInv, PageInPlace
<1>5. taps' \in Nat
  BY <1>1 DEF Tap, IInv, CanvasTypes
<1>6. RowsOK' /\ RowsInPlace' /\ Keys' /\ RenderExists'
  <2>1. ASSUME NEW kind \in {"remove", "reset", "settings"}, calls' = calls \union {Call(kind, i, <<>>, <<>>)},
               kind = "remove" => shuffled' = TRUE
        PROVE  RowsOK' /\ RowsInPlace' /\ Keys' /\ RenderExists'
    <3>1. PICK d : d = Call(kind, i, <<>>, <<>>)
      OBVIOUS
    <3>2. CallOK(d) /\ d.no = taps' /\ d.before = <<>> /\ d.kind = kind /\ d.stage = "sent"
      BY <1>5, <3>1, Call_OK DEF Making
    <3>3. ~shuffled' => ~shuffled /\ CallInPlace(d)
      BY <1>3, <2>1, <3>2 DEF CallInPlace
    <3> QED
      BY <1>1, <2>1, <3>1, <3>2, <3>3, Sends_Pic
  <2>2. CASE RemoveItem(i)
    BY <2>1, <2>2 DEF RemoveItem
  <2>3. CASE ResetEdits(i)
    BY <2>1, <2>3 DEF ResetEdits
  <2>4. CASE CommitSettings(i)
    BY <2>1, <2>4 DEF CommitSettings
  <2>5. CASE Save(i)
    <3>1. /\ IsOpen /\ i \in Selected /\ shuffled' = shuffled
          /\ calls' = calls \union {Call("save", i, <<shown[2], taps'>>, <<>>)}
      BY <2>5 DEF Save
    <3>2. shown \in Item \X Item
      BY <3>1 DEF IsOpen, PicInv, PageOK
    <3>3. PICK picture : picture = <<shown[2], taps'>> /\ picture \in Picture /\ picture[2] = taps'
                         /\ picture[1] = shown[2]
      <4>1. shown[2] \in Item
        BY <3>2
      <4>2. PICK t, document : t = taps' /\ document = shown[2]
        OBVIOUS
      <4>3. <<document, t>> \in Picture
        BY <1>5, <4>1, <4>2 DEF Picture
      <4>4. <<document, t>>[1] = document /\ <<document, t>>[2] = t
        OBVIOUS
      <4> QED
        BY <4>2, <4>3, <4>4
    <3>4. PICK d : d = Call("save", i, picture, <<>>)
      OBVIOUS
    <3>5. /\ CallOK(d) /\ d.no = taps' /\ d.before = <<>> /\ d.kind = "save" /\ d.stage = "sent"
          /\ d.item = i /\ d.picture = picture
      BY <1>5, <3>3, <3>4, Call_OK DEF Making
    <3>6. ~shuffled' => ~shuffled /\ CallInPlace(d)
      <4>1. ASSUME ~shuffled PROVE picture[1] = i
        <5>1. i = Items[sel] /\ asked = Items[sel]
          BY <3>1, <4>1 DEF Selected, PicInv, PageInPlace
        <5>2. shown[1] = asked /\ shown[2] = shown[1]
          BY <3>2, <4>1 DEF IInv, Previews, PicInv, PageInPlace
        <5> QED
          BY <3>3, <5>1, <5>2
      <4> QED
        BY <3>1, <3>5, <4>1 DEF CallInPlace
    <3> QED
      BY <1>1, <3>1, <3>3, <3>4, <3>5, <3>6, Sends_Pic
  <2>6. CASE ApplyAll(i)
    <3>1. /\ i \in Selected /\ Len(view.order) > 1 /\ shuffled' = shuffled
          /\ calls' = calls \union NextOfBatch(Without(view.order, i), taps')
      BY <2>6 DEF ApplyAll
    <3>2. PICK rest : rest = Without(view.order, i) /\ rest \in Seq(Item) /\ IsInjective(rest)
      <4>1. IsOrder(view.order) /\ i \in ToSet(view.order)
        BY <3>1 DEF Selected, ToSet, PicInv, PageOK, IsRow
      <4> QED
        BY <4>1, Without_Is
    <3>3. CASE NextOfBatch(rest, taps') = {}
      <4>1. PICK d : d = Call("settings", i, <<>>, <<>>)
        OBVIOUS
      <4>2. CallOK(d) /\ d.no = taps' /\ d.before = <<>> /\ d.kind = "settings" /\ d.stage = "sent"
        BY <1>5, <4>1, Call_OK DEF Making
      <4> QED
        BY <1>1, <3>1, <3>2, <3>3, <4>2, Sends_Pic DEF CallInPlace
    <3>4. CASE NextOfBatch(rest, taps') # {}
      <4>1. PICK d : NextOfBatch(rest, taps') = {d} /\ CallOK(d) /\ d.no = taps' /\ d.before = <<>> /\ d.kind = "batch"
        BY <1>5, <3>2, <3>4, NextOfBatch_OK
      <4>2. CallInPlace(d)
        BY <4>1 DEF CallInPlace
      <4> QED
        BY <1>1, <3>1, <3>2, <4>1, <4>2, Sends_Pic
    <3> QED
      BY <3>3, <3>4
  <2> QED
    BY <2>2, <2>3, <2>4, <2>5, <2>6
<1> QED
  BY <1>2, <1>4, <1>6 DEF PicInv

\* Downloads.
LEMMA PageGoesOn_Pic ==
    ASSUME IInv, PicInv, NEW p \in previews, SignLink(p) \/ Download(p) \/ PreviewFails(p)
    PROVE  PicInv'
<1>1. NoTap /\ UNCHANGED <<view, sel, asked, shuffled, serverVars>>
  BY DEF SignLink, Download, PreviewFails
<1>2. RowsOK' /\ RowsInPlace' /\ RenderExists'
  BY <1>1 DEF PicInv, RowsOK, RowsInPlace, RenderExists, serverVars
<1>3. Keys'
  BY <1>1, Keys_Same DEF PicInv, serverVars, NoTap, IInv, CanvasTypes
<1>4. IsPreview(p) /\ p.item \in Item /\ p.file \in Key \cup {<<p.item>>}
  BY DEF PicInv, PageOK
<1>5. PageOK' /\ PageInPlace'
  <2>1. ASSUME \A q \in previews' : q \in previews \/ (IsPreview(q) /\ q.item \in Item /\ q.file \in Key \cup {<<q.item>>}),
               \A q \in previews' : ~shuffled => q \in previews \/ q.file[1] = q.item,
               shown' = <<>> \/ shown' \in Item \X Item, history' # <<>> => shown' # <<>>,
               ~shuffled /\ shown' # <<>> => shown'[2] = shown'[1]
        PROVE  PageOK' /\ PageInPlace'
    <3>1. PageOK'
      BY <1>1, <2>1 DEF PicInv, PageOK
    <3>2. PageInPlace'
      BY <1>1, <2>1 DEF PicInv, PageInPlace
    <3> QED
      BY <3>1, <3>2
  <2>2. /\ shown = <<>> \/ shown \in Item \X Item
        /\ history # <<>> => shown # <<>>
        /\ ~shuffled /\ shown # <<>> => shown[2] = shown[1]
    BY DEF PicInv, PageOK, PageInPlace
  <2>3. CASE SignLink(p)
    <3>1. PICK key : key = rows.render[p.item]
      OBVIOUS
    <3>2. PICK file : /\ file = (IF ~p.original /\ key # <<>> THEN key ELSE <<p.item>>)
                      /\ previews' = (previews \ {p}) \union {[p EXCEPT !.file = file]}
      BY <2>3, <3>1 DEF SignLink
    <3>3. PICK q : q = [p EXCEPT !.file = file]
      OBVIOUS
    <3>4. IsPreview(q) /\ q.item = p.item /\ q.file = file
      BY <1>4, <3>3 DEF IsPreview
    <3>5. key \in Key /\ (~shuffled /\ key # <<>> => key[1] = p.item)
      BY <1>4, <3>1 DEF PicInv, RowsOK, IsRow, RowsInPlace
    <3>6. file \in Key \cup {<<p.item>>} /\ (~shuffled => file[1] = p.item)
      BY <3>2, <3>5
    <3>7. UNCHANGED <<shown, history>>
      BY <2>3 DEF SignLink, canvasVars, historyVars
    <3> QED
      BY <1>4, <2>1, <2>2, <3>2, <3>3, <3>4, <3>6, <3>7
  <2>4. CASE Download(p)
    <3>1. previews' \subseteq previews /\ (p.file \in objects \/ p.file = <<p.item>>)
      BY <2>4 DEF Download
    <3>2. p.file[1] \in Item /\ p.file # <<>>
      BY <1>4, <3>1 DEF PicInv, RowsOK, Picture
    <3>3. ~shuffled => p.file[1] = p.item
      BY <3>2 DEF PicInv, PageInPlace
    <3>4. CASE shown' = <<p.item, p.file[1]>>
      BY <1>4, <2>1, <3>1, <3>2, <3>3, <3>4
    <3>5. CASE UNCHANGED <<shown, canvasVars>>
      BY <2>1, <2>2, <3>1, <3>5 DEF canvasVars, historyVars
    <3> QED
      BY <2>4, <3>4, <3>5 DEF Download
  <2>5. CASE PreviewFails(p)
    BY <2>1, <2>2, <2>5 DEF PreviewFails, canvasVars, historyVars
  <2> QED
    BY <2>3, <2>4, <2>5
<1> QED
  BY <1>2, <1>3, <1>5 DEF PicInv
-----------------------------------------------------------------------------
\* A step of the service leaves the page as it is.
LEMMA Stays_Pic ==
    ASSUME PicInv, Stays
    PROVE  PageOK' /\ PageInPlace' /\ taps' = taps /\ shuffled' = shuffled /\ lost' = lost
BY DEF PicInv, PageOK, PageInPlace, Stays, NoTap, canvasVars, historyVars, pageVars

\* Call c goes on as d, or not at all, and the rows stay.
LEMMA GoesOn_Pic ==
    ASSUME PicInv, NEW c \in calls, NEW d, CallOK(d), calls' \subseteq (calls \ {c}) \union {d},
           taps' = taps, shuffled' = shuffled, rows' = rows, objects' \subseteq Picture,
           Due(d) \subseteq Due(c), d.no = c.no, d.before \in Known, KeepsOff(d, rows.render),
           ~shuffled => CallInPlace(d)
    PROVE  RowsOK' /\ RowsInPlace' /\ Keys'
<1>1. RowsOK' /\ RowsInPlace'
  BY DEF PicInv, RowsOK, RowsInPlace
<1>2. Keys'
  BY Keys_Step DEF PicInv
<1> QED
  BY <1>1, <1>2

\* The pictures stay, and no reset ends before its time.
LEMMA Exists_Kept ==
    ASSUME RenderExists, rows'.render = rows.render, ToSet(rows'.order) \subseteq ToSet(rows.order),
           objects \subseteq objects', lost' = lost, NEW c \in calls, calls \ {c} \subseteq calls',
           c.kind # "reset" \/ c.stage # "deleted"
    PROVE  RenderExists'
BY DEF RenderExists

\* What a call knows, and that it keeps off the others, goes with it.
LEMMA Call_Is ==
    ASSUME PicInv, NEW c \in calls
    PROVE  /\ CallOK(c) /\ c.before \in Known /\ KeepsOff(c, rows.render)
           /\ ~shuffled => CallInPlace(c)
           /\ \A d : d.before = c.before /\ d.item = c.item /\ d.stage # "written" => KeepsOff(d, rows.render)
<1>1. CallOK(c) /\ c.before \in Known /\ KeepsOff(c, rows.render) /\ (~shuffled => CallInPlace(c))
  BY DEF PicInv, RowsOK, RowsInPlace, Keys, Known
<1> QED
  BY <1>1 DEF KeepsOff

\* A call that ends, is refused or is answered without the order, but for a
\* reset that has deleted a picture.
LEMMA Ends_Pic ==
    ASSUME PicInv, NEW c \in calls, taps' = taps, shuffled' = shuffled, rows' = rows,
           objects' \subseteq objects \cup Picture, NEW stage,
           stage = "refused" \/ (stage = "answered" /\ c.kind \in {"save", "batch", "reset"}),
           calls' \subseteq (calls \ {c}) \union {[c EXCEPT !.stage = stage]}
    PROVE  RowsOK' /\ RowsInPlace' /\ Keys'
<1>1. PICK d : d = [c EXCEPT !.stage = stage]
  OBVIOUS
<1>2. CallOK(c) /\ c.before \in Known /\ KeepsOff(c, rows.render) /\ (~shuffled => CallInPlace(c))
  BY Call_Is
<1>3. /\ CallOK(d) /\ d.no = c.no /\ d.before = c.before /\ d.kind = c.kind /\ d.stage = stage
      /\ d.item = c.item /\ d.picture = c.picture /\ d.rest = c.rest
  BY <1>1, <1>2, Stage_OK
<1>4. Due(d) \subseteq Due(c)
  BY <1>3 DEF Due
<1>5. KeepsOff(d, rows.render)
  BY <1>2, <1>3 DEF KeepsOff
<1>6. ~shuffled => CallInPlace(d)
  BY <1>2, <1>3 DEF CallInPlace
<1>7. objects' \subseteq Picture
  BY DEF PicInv, RowsOK
<1> QED
  BY <1>1, <1>2, <1>3, <1>4, <1>5, <1>6, <1>7, GoesOn_Pic

LEMMA Refused_Pic ==
    ASSUME PicInv, NEW c \in calls, taps' = taps, shuffled' = shuffled, rows' = rows, lost' = lost,
           objects \subseteq objects', objects' \subseteq objects \cup Picture, Refused(c),
           c.kind # "reset" \/ c.stage # "deleted"
    PROVE  RowsOK' /\ RowsInPlace' /\ Keys' /\ RenderExists'
<1>1. calls' \subseteq (calls \ {c}) \union {[c EXCEPT !.stage = "refused"]} /\ calls \ {c} \subseteq calls'
  BY DEF Refused
<1>2. RowsOK' /\ RowsInPlace' /\ Keys'
  BY <1>1, Ends_Pic
<1>3. RenderExists'
  BY <1>1, Exists_Kept DEF PicInv
<1> QED
  BY <1>2, <1>3

LEMMA ReadItem_Pic ==
    ASSUME PicInv, NEW c \in calls, ReadItem(c)
    PROVE  PicInv'
<1>1. /\ c.kind \in {"save", "batch", "reset"} /\ c.stage = "sent" /\ Stays /\ UNCHANGED <<rows, objects>>
      /\ Refused(c) \/ Becomes(c, [c EXCEPT !.stage = "read", !.before = rows.render[c.item]])
  BY DEF ReadItem
<1>2. PageOK' /\ PageInPlace' /\ taps' = taps /\ shuffled' = shuffled /\ lost' = lost
  BY <1>1, Stays_Pic
<1>3. CASE Refused(c)
  BY <1>1, <1>2, <1>3, Refused_Pic DEF PicInv
<1>4. CASE Becomes(c, [c EXCEPT !.stage = "read", !.before = rows.render[c.item]])
  <2>1. PICK key : key = rows.render[c.item]
    OBVIOUS
  <2>2. PICK d : d = [c EXCEPT !.stage = "read", !.before = key]
    OBVIOUS
  <2>3. CallOK(c) /\ KeepsOff(c, rows.render) /\ (~shuffled => CallInPlace(c))
    BY Call_Is
  <2>4. key \in Key /\ key \in Known
    BY <2>1, <2>3 DEF PicInv, RowsOK, IsRow, CallOK, Known
  <2>5. /\ CallOK(d) /\ d.no = c.no /\ d.before = key /\ d.kind = c.kind /\ d.stage = "read"
        /\ d.item = c.item /\ d.picture = c.picture /\ d.rest = c.rest
    BY <1>1, <2>2, <2>3, <2>4, Read_OK
  <2>6. Due(d) \subseteq Due(c)
    BY <1>1, <2>5 DEF Due
  <2>7. KeepsOff(d, rows.render)
    <3>1. \A i \in Item : rows.render[c.item] = rows.render[i] => i = c.item \/ rows.render[i] = <<>>
      BY <2>3 DEF PicInv, Keys, CallOK
    <3> QED
      BY <2>1, <2>5, <3>1 DEF KeepsOff
  <2>8. ~shuffled => CallInPlace(d)
    BY <2>3, <2>5, <1>1 DEF CallInPlace
  <2>9. calls' = (calls \ {c}) \union {d}
    BY <1>4, <2>1, <2>2 DEF Becomes
  <2>10. objects' \subseteq Picture
    BY <1>1 DEF PicInv, RowsOK
  <2>11. RowsOK' /\ RowsInPlace' /\ Keys'
    BY <1>1, <1>2, <2>4, <2>5, <2>6, <2>7, <2>8, <2>9, <2>10, GoesOn_Pic
  <2>12. RenderExists'
    BY <1>1, <1>2, <2>9, Exists_Kept DEF PicInv
  <2> QED
    BY <1>2, <2>11, <2>12 DEF PicInv
<1> QED
  BY <1>1, <1>3, <1>4

\* Call c gives its row another picture, or none, and goes on as d.
LEMMA Row_Pic ==
    ASSUME PicInv, NEW c \in calls, NEW d, CallOK(d), calls' = (calls \ {c}) \union {d}, NEW key \in Key,
           taps' = taps, shuffled' = shuffled, rows' = [rows EXCEPT !.render[c.item] = key],
           objects' \subseteq objects \cup Picture, d.no = c.no, d.item = c.item, d.before = c.before,
           Due(d) \subseteq Due(c) \ {key}, key = <<>> \/ key \in Due(c),
           ~shuffled => CallInPlace(d) /\ (key # <<>> => key[1] = c.item)
    PROVE  /\ RowsOK' /\ RowsInPlace' /\ Keys'
           /\ rows'.order = rows.order
           /\ \A i \in Item : rows'.render[i] = IF i = c.item THEN key ELSE rows.render[i]
<1>1. IsRow(rows) /\ CallOK(c)
  BY DEF PicInv, RowsOK
<1>2. PICK render : render = [rows.render EXCEPT ![c.item] = key] /\ render \in [Item -> Key]
  BY <1>1 DEF IsRow
<1>3. rows'.render = render /\ rows'.order = rows.order /\ rows' = [order |-> rows.order, render |-> render]
  BY <1>1, <1>2 DEF IsRow
<1>4. \A i \in Item : render[i] = IF i = c.item THEN key ELSE rows.render[i]
  BY <1>1, <1>2 DEF IsRow
<1>5. IsRow(rows')
  BY <1>1, <1>2, <1>3 DEF IsRow
<1>6. RowsOK'
  BY <1>5 DEF PicInv, RowsOK
<1>7. RowsInPlace'
  BY <1>3, <1>4 DEF PicInv, RowsInPlace
<1>8. Keys'
  BY <1>1, <1>2, <1>3, Keys_Row DEF PicInv, IsRow
<1> QED
  BY <1>3, <1>4, <1>6, <1>7, <1>8

LEMMA UpdateRow_Pic ==
    ASSUME PicInv, NEW c \in calls, UpdateRow(c)
    PROVE  PicInv'
<1>1. c.kind \in Making /\ c.stage = "read" /\ Stays /\ objects' = objects \union {c.picture}
  BY DEF UpdateRow, Making
<1>2. PageOK' /\ PageInPlace' /\ taps' = taps /\ shuffled' = shuffled /\ lost' = lost
  BY <1>1, Stays_Pic
<1>3. CallOK(c) /\ (~shuffled => CallInPlace(c))
  BY Call_Is
<1>4. PICK key : key = c.picture /\ key \in Picture /\ key \in Key /\ key[2] = c.no /\ key \in Due(c)
  BY <1>1, <1>3 DEF CallOK, Key, Due
<1>5. CASE Refused(c) /\ UNCHANGED rows
  BY <1>1, <1>2, <1>4, <1>5, Refused_Pic DEF PicInv
<1>6. CASE rows' = [rows EXCEPT !.render[c.item] = c.picture] /\ Becomes(c, [c EXCEPT !.stage = "written"])
  <2>1. PICK d : d = [c EXCEPT !.stage = "written"]
    OBVIOUS
  <2>2. /\ CallOK(d) /\ d.no = c.no /\ d.before = c.before /\ d.kind = c.kind /\ d.stage = "written"
        /\ d.item = c.item /\ d.picture = c.picture /\ d.rest = c.rest
    BY <1>3, <2>1, Stage_OK
  <2>3. Due(d) \subseteq Due(c) \ {key}
    <3>1. c.kind = "batch" => key[1] = c.item /\ c.item \notin ToSet(c.rest)
      BY <1>3, <1>4 DEF CallOK
    <3> QED
      BY <1>1, <2>2, <3>1 DEF Due
  <2>4. ~shuffled => CallInPlace(d) /\ key[1] = c.item
    BY <1>1, <1>3, <1>4, <2>2 DEF CallInPlace, CallOK, Making
  <2>5. calls' = (calls \ {c}) \union {d}
    BY <1>6, <2>1 DEF Becomes
  <2>6. /\ RowsOK' /\ RowsInPlace' /\ Keys' /\ rows'.order = rows.order
        /\ \A i \in Item : rows'.render[i] = IF i = c.item THEN key ELSE rows.render[i]
    BY <1>1, <1>2, <1>4, <1>6, <2>2, <2>3, <2>4, <2>5, Row_Pic
  <2>7. RenderExists'
    <3>1. ASSUME NEW i \in ToSet(rows.order)
          PROVE  \/ rows'.render[i] \in objects' \union {<<>>} \union lost'
                 \/ \E e \in calls' : e.kind = "reset" /\ e.stage = "deleted" /\ e.before = rows'.render[i]
      <4>1. i \in Item
        BY DEF PicInv, RowsOK, IsRow, IsOrder, ToSet
      <4>2. CASE i = c.item
        BY <1>1, <1>4, <2>6, <4>1, <4>2
      <4>3. CASE i # c.item
        BY <1>1, <1>2, <2>5, <2>6, <4>1, <4>3 DEF PicInv, RenderExists, Making
      <4> QED
        BY <4>2, <4>3
    <3> QED
      BY <2>6, <3>1 DEF RenderExists
  <2> QED
    BY <1>2, <2>6, <2>7 DEF PicInv
<1> QED
  BY <1>5, <1>6 DEF UpdateRow

LEMMA DeletePrevious_Pic ==
    ASSUME PicInv, NEW c \in calls, DeletePrevious(c)
    PROVE  PicInv'
<1>1. /\ c.kind \in {"save", "batch"} /\ c.stage = "written" /\ Stays /\ UNCHANGED rows
      /\ objects' = objects \ {c.before} /\ calls' = (calls \ {c}) \union {[c EXCEPT !.stage = "answered"]}
  BY DEF DeletePrevious, Answered, Becomes
<1>2. PageOK' /\ PageInPlace' /\ taps' = taps /\ shuffled' = shuffled /\ lost' = lost
  BY <1>1, Stays_Pic
<1>3. RowsOK' /\ RowsInPlace' /\ Keys'
  BY <1>1, <1>2, Ends_Pic
<1>4. \A i \in Item : c.before = rows.render[i] => c.before = <<>>
  BY <1>1, Call_Is DEF KeepsOff
<1>5. ToSet(rows.order) \subseteq Item
  BY DEF PicInv, RowsOK, IsRow, IsOrder, ToSet
<1>6. RenderExists'
  BY <1>1, <1>2, <1>4, <1>5 DEF PicInv, RenderExists
<1> QED
  BY <1>2, <1>3, <1>6 DEF PicInv

LEMMA DeleteReset_Pic ==
    ASSUME PicInv, NEW c \in calls, DeleteReset(c)
    PROVE  PicInv'
<1>1. /\ c.kind = "reset" /\ c.stage = "read" /\ Stays /\ UNCHANGED rows
      /\ objects' = objects \ {c.before} /\ calls' = (calls \ {c}) \union {[c EXCEPT !.stage = "deleted"]}
  BY DEF DeleteReset, Becomes
<1>2. PageOK' /\ PageInPlace' /\ taps' = taps /\ shuffled' = shuffled /\ lost' = lost
  BY <1>1, Stays_Pic
<1>3. PICK d : d = [c EXCEPT !.stage = "deleted"]
  OBVIOUS
<1>4. CallOK(c) /\ c.before \in Known /\ KeepsOff(c, rows.render) /\ (~shuffled => CallInPlace(c))
  BY Call_Is
<1>5. /\ CallOK(d) /\ d.no = c.no /\ d.before = c.before /\ d.kind = "reset" /\ d.stage = "deleted" /\ d.item = c.item
  BY <1>1, <1>3, <1>4, Stage_OK
<1>6. Due(d) \subseteq Due(c) /\ KeepsOff(d, rows.render) /\ (~shuffled => CallInPlace(d))
  BY <1>4, <1>5 DEF Due, Making, KeepsOff, CallInPlace
<1>7. objects' \subseteq Picture
  BY <1>1 DEF PicInv, RowsOK
<1>8. RowsOK' /\ RowsInPlace' /\ Keys'
  BY <1>1, <1>2, <1>3, <1>4, <1>5, <1>6, <1>7, GoesOn_Pic
<1>9. RenderExists'
  <2>1. ASSUME NEW i \in ToSet(rows.order)
        PROVE  \/ rows.render[i] \in objects' \union {<<>>} \union lost
               \/ \E e \in calls' : e.kind = "reset" /\ e.stage = "deleted" /\ e.before = rows.render[i]
    <3>1. CASE rows.render[i] = c.before
      BY <1>1, <1>3, <1>5, <3>1
    <3>2. CASE rows.render[i] # c.before
      BY <1>1, <3>2 DEF PicInv, RenderExists
    <3> QED
      BY <3>1, <3>2
  <2> QED
    BY <1>1, <1>2, <2>1 DEF RenderExists
<1> QED
  BY <1>2, <1>8, <1>9 DEF PicInv

LEMMA UpdateReset_Pic ==
    ASSUME PicInv, NEW c \in calls, UpdateReset(c)
    PROVE  PicInv'
<1>1. /\ c.kind = "reset" /\ c.stage = "deleted" /\ Stays /\ UNCHANGED objects
      /\ \/ Has(c.item) /\ rows' = [rows EXCEPT !.render[c.item] = <<>>] /\ Answered(c)
         \/ ~Has(c.item) /\ Refused(c) /\ UNCHANGED rows
  BY DEF UpdateReset
<1>2. PageOK' /\ PageInPlace' /\ taps' = taps /\ shuffled' = shuffled /\ lost' = lost
  BY <1>1, Stays_Pic
<1>3. CallOK(c) /\ (~shuffled => CallInPlace(c))
  BY Call_Is
<1>4. /\ ToSet(rows.order) \subseteq Item
      /\ \A i \in Item : c.before = rows.render[i] => i = c.item \/ rows.render[i] = <<>>
  BY Call_Is DEF KeepsOff, PicInv, RowsOK, IsRow, IsOrder, ToSet
<1>5. CASE Has(c.item) /\ rows' = [rows EXCEPT !.render[c.item] = <<>>] /\ Answered(c)
  <2>1. PICK d : d = [c EXCEPT !.stage = "answered"]
    OBVIOUS
  <2>2. /\ CallOK(d) /\ d.no = c.no /\ d.before = c.before /\ d.kind = "reset" /\ d.stage = "answered" /\ d.item = c.item
    BY <1>1, <1>3, <2>1, Stage_OK
  <2>3. Due(d) = {} /\ CallInPlace(d) /\ <<>> \in Key
    BY <2>2 DEF Due, Making, CallInPlace, Key
  <2>4. calls' = (calls \ {c}) \union {d}
    BY <1>5, <2>1 DEF Answered, Becomes
  <2>5. /\ RowsOK' /\ RowsInPlace' /\ Keys' /\ rows'.order = rows.order
        /\ \A i \in Item : rows'.render[i] = IF i = c.item THEN <<>> ELSE rows.render[i]
    BY <1>1, <1>2, <1>5, <2>2, <2>3, <2>4, Row_Pic
  <2>6. RenderExists'
    BY <1>1, <1>2, <1>4, <2>4, <2>5 DEF PicInv, RenderExists
  <2> QED
    BY <1>2, <2>5, <2>6 DEF PicInv
<1>6. CASE ~Has(c.item) /\ Refused(c) /\ UNCHANGED rows
  <2>1. calls' = calls \ {c}
    BY <1>1, <1>6 DEF Refused
  <2>2. RowsOK' /\ RowsInPlace' /\ Keys'
    BY <1>1, <1>2, <1>6, <2>1, Ends_Pic
  <2>3. RenderExists'
    BY <1>1, <1>2, <1>4, <1>6, <2>1 DEF PicInv, RenderExists, Has
  <2> QED
    BY <1>2, <2>2, <2>3 DEF PicInv
<1> QED
  BY <1>1, <1>5, <1>6

LEMMA WriteOrder_Pic ==
    ASSUME PicInv, NEW c \in calls, WriteOrder(c)
    PROVE  PicInv'
<1>1. c.kind \in {"reorder", "remove", "settings", "load"} /\ c.stage = "sent" /\ Stays /\ UNCHANGED objects
  BY DEF WriteOrder
<1>2. PageOK' /\ PageInPlace' /\ taps' = taps /\ shuffled' = shuffled /\ lost' = lost
  BY <1>1, Stays_Pic
<1>3. CallOK(c) /\ c.before \in Known /\ KeepsOff(c, rows.render) /\ (~shuffled => CallInPlace(c))
  BY Call_Is
<1>4. IsRow(rows)
  BY DEF PicInv, RowsOK
<1>5. ASSUME NEW order, IsOrder(order), ToSet(order) \subseteq ToSet(rows.order), rows' = [rows EXCEPT !.order = order],
             AnsweredWith(c, rows'), shuffled \/ (c.kind = "settings" /\ order = rows.order)
      PROVE  PicInv'
  <2>1. rows'.order = order /\ rows'.render = rows.render /\ IsRow(rows')
    BY <1>4, <1>5 DEF IsRow
  <2>a. PICK job : job = rows'
    OBVIOUS
  <2>b. IsRow(job)
    BY <2>1, <2>a DEF IsRow
  <2>2. PICK d : d = [c EXCEPT !.stage = "answered", !.job = job]
    OBVIOUS
  <2>3. /\ CallOK(d) /\ d.no = c.no /\ d.before = c.before /\ d.kind = c.kind /\ d.stage = "answered"
        /\ d.item = c.item /\ d.job = job
    <3>1. CallOK(c)
      BY <1>3
    <3>2. CallOK(d)
      BY <3>1, <2>b, <2>2, Answered_OK
    <3>3. /\ d.no = c.no /\ d.before = c.before /\ d.kind = c.kind /\ d.stage = "answered"
          /\ d.item = c.item /\ d.job = job
      BY <3>1, <2>2 DEF CallOK
    <3> QED
      BY <3>2, <3>3
  <2>4. Due(d) = {} /\ KeepsOff(d, rows.render)
    BY <1>1, <1>3, <2>3 DEF Due, Making, KeepsOff
  <2>5. calls' = (calls \ {c}) \union {d}
    BY <1>5, <2>a, <2>2 DEF AnsweredWith, Becomes
  <2>6. Keys'
    BY <1>2, <1>3, <2>1, <2>3, <2>4, <2>5, Keys_Step DEF PicInv
  <2>7. ~shuffled => rows'.order = Items /\ CallInPlace(d)
    BY <1>1, <1>3, <1>5, <2>1, <2>a, <2>3 DEF CallInPlace, PicInv, RowsInPlace
  <2>8. RowsOK' /\ RowsInPlace'
    BY <1>1, <1>2, <2>1, <2>3, <2>5, <2>7 DEF PicInv, RowsOK, RowsInPlace
  <2>9. RenderExists'
    BY <1>1, <1>2, <1>5, <2>1, <2>5, Exists_Kept DEF PicInv
  <2> QED
    BY <1>2, <2>6, <2>8, <2>9 DEF PicInv
<1>6. CASE c.kind = "reorder" /\ ToSet(c.rest) = ToSet(rows.order)
           /\ rows' = [rows EXCEPT !.order = c.rest] /\ AnsweredWith(c, rows')
  BY <1>3, <1>5, <1>6 DEF CallOK, CallInPlace
<1>7. CASE c.kind = "remove" /\ Has(c.item) /\ Len(rows.order) > 1
           /\ rows' = [rows EXCEPT !.order = Without(rows.order, c.item)] /\ AnsweredWith(c, rows')
  <2>1. PICK order : order = Without(rows.order, c.item)
    OBVIOUS
  <2>2. /\ order \in Seq(Item) /\ IsInjective(order) /\ Len(order) = Len(rows.order) - 1
        /\ ToSet(order) \subseteq ToSet(rows.order)
    BY <1>4, <1>7, <2>1, Without_Is DEF Has, IsRow
  <2>3. IsOrder(order)
    <3>1. Len(rows.order) \in 1 .. Len(Items)
      BY <1>4 DEF IsRow, IsOrder
    <3>2. PICK a, b, l : a = Len(rows.order) /\ b = Len(Items) /\ l = Len(order)
                         /\ a \in 1 .. b /\ a > 1 /\ l = a - 1
      BY <1>7, <2>2, <3>1
    <3>3. l \in 1 .. b
      BY <3>2
    <3> QED
      BY <2>2, <3>2, <3>3 DEF IsOrder
  <2> QED
    BY <1>3, <1>5, <1>7, <2>1, <2>2, <2>3 DEF CallInPlace
<1>8. CASE (c.kind = "load" \/ (c.kind = "settings" /\ Has(c.item))) /\ AnsweredWith(c, rows) /\ UNCHANGED rows
  <2>1. rows' = [rows EXCEPT !.order = rows.order] /\ IsOrder(rows.order)
    BY <1>4, <1>8 DEF IsRow
  <2> QED
    BY <1>3, <1>5, <1>8, <2>1 DEF CallInPlace
<1>9. CASE Refused(c) /\ UNCHANGED rows
  BY <1>1, <1>2, <1>9, Refused_Pic DEF PicInv
<1> QED
  BY <1>6, <1>7, <1>8, <1>9 DEF WriteOrder

LEMMA StoreFails_Pic ==
    ASSUME PicInv, NEW c \in calls, StoreFails(c)
    PROVE  PicInv'
<1>1. c.kind \in Making /\ c.stage = "read" /\ Refused(c) /\ UNCHANGED <<canvasVars, pageVars, taps, rows, lost>>
  BY DEF StoreFails, Making
<1>a. objects \subseteq objects' /\ objects' \subseteq objects \cup Picture
  BY <1>1 DEF StoreFails, PicInv, RowsOK, CallOK
<1>2. RowsOK' /\ RowsInPlace' /\ Keys' /\ RenderExists'
  BY <1>1, <1>a, Refused_Pic DEF pageVars
<1>3. PageOK' /\ PageInPlace'
  BY <1>1 DEF PicInv, PageOK, PageInPlace, canvasVars, historyVars, pageVars
<1> QED
  BY <1>2, <1>3 DEF PicInv

LEMMA ResetFails_Pic ==
    ASSUME PicInv, NEW c \in calls, ResetFails(c)
    PROVE  PicInv'
<1>1. /\ c.kind = "reset" /\ c.stage = "deleted" /\ calls' = calls \ {c} /\ lost' = lost \union {c.before}
      /\ UNCHANGED <<canvasVars, pageVars, taps, rows, objects>>
  BY DEF ResetFails, Refused
<1>2. RowsOK' /\ RowsInPlace' /\ Keys'
  BY <1>1, Ends_Pic DEF pageVars
<1>3. RenderExists'
  BY <1>1 DEF PicInv, RenderExists
<1>4. PageOK' /\ PageInPlace'
  BY <1>1 DEF PicInv, PageOK, PageInPlace, canvasVars, historyVars, pageVars
<1> QED
  BY <1>2, <1>3, <1>4 DEF PicInv
-----------------------------------------------------------------------------
\* The page takes an answer: what becomes of the requests.
LEMMA Answer_Calls ==
    ASSUME PicInv, NEW c \in calls, Answer(c)
    PROVE  /\ RowsOK' /\ RowsInPlace' /\ Keys' /\ RenderExists'
           /\ UNCHANGED <<shuffled, taps>>
<1>1. UNCHANGED <<shuffled, taps, rows, objects, lost>> /\ c.stage \in {"answered", "refused"}
  BY DEF Answer, SaveAnswered, SaveRefused, ResetAnswered, BatchAnswered, OrderAnswered, CardsAnswered, NoTap, Ends
<1>2. calls \ {c} \subseteq calls'
  BY DEF Answer, SaveAnswered, SaveRefused, ResetAnswered, BatchAnswered, OrderAnswered, CardsAnswered, Ends
<1>3. RenderExists'
  BY <1>1, <1>2, Exists_Kept DEF PicInv
<1>4. CallOK(c) /\ c.before \in Known /\ KeepsOff(c, rows.render) /\ (~shuffled => CallInPlace(c))
  BY Call_Is
<1>5. objects' \subseteq Picture
  BY <1>1 DEF PicInv, RowsOK
<1>6. CASE calls' = calls \ {c}
  <2>1. RowsOK' /\ RowsInPlace' /\ Keys'
    BY <1>1, <1>6, Ends_Pic
  <2> QED
    BY <1>1, <1>3, <2>1
<1>7. CASE BatchAnswered(c)
  <2>1. /\ c.kind = "batch" /\ calls' = (calls \ {c}) \union NextOfBatch(c.rest, c.no)
    BY <1>7 DEF BatchAnswered
  <2>2. c.rest \in Seq(Item) /\ IsInjective(c.rest) /\ c.no \in Nat
    BY <1>4, <2>1 DEF CallOK
  <2>3. CASE NextOfBatch(c.rest, c.no) # {}
    <3>1. PICK d : /\ NextOfBatch(c.rest, c.no) = {d} /\ CallOK(d) /\ d.no = c.no /\ d.before = <<>>
                   /\ d.kind = "batch" /\ d.stage = "sent" /\ Due(d) \subseteq {<<i, c.no>> : i \in ToSet(c.rest)}
      BY <2>2, <2>3, NextOfBatch_OK
    <3>2. Due(d) \subseteq Due(c) /\ d.before \in Known /\ KeepsOff(d, rows.render) /\ CallInPlace(d)
      BY <2>1, <3>1 DEF Due, Known, KeepsOff, CallInPlace
    <3>3. calls' \subseteq (calls \ {c}) \union {d}
      BY <2>1, <3>1
    <3>4. RowsOK' /\ RowsInPlace' /\ Keys'
      BY <1>1, <1>5, <3>1, <3>2, <3>3, GoesOn_Pic
    <3> QED
      BY <1>1, <1>3, <3>4
  <2> QED
    BY <1>6, <2>1, <2>3
<1>8. CASE OrderAnswered(c)
  <2>1. CASE c.kind = "reorder" /\ calls' = (calls \ {c}) \union
                {[c EXCEPT !.kind = "load", !.stage = "sent", !.rest = <<>>]}
    <3>1. PICK d : d = [c EXCEPT !.kind = "load", !.stage = "sent", !.rest = <<>>]
      OBVIOUS
    <3>2. CallOK(d) /\ d.no = c.no /\ d.before = c.before /\ d.kind = "load" /\ d.stage = "sent"
          /\ d.item = c.item /\ Due(d) = {}
      BY <1>4, <2>1, <3>1, Reload_OK
    <3>3. KeepsOff(d, rows.render) /\ shuffled
      BY <1>4, <2>1, <3>2 DEF KeepsOff, CallInPlace
    <3>4. RowsOK' /\ RowsInPlace' /\ Keys'
      BY <1>1, <1>4, <1>5, <2>1, <3>1, <3>2, <3>3, GoesOn_Pic
    <3> QED
      BY <1>1, <1>3, <3>4
  <2> QED
    BY <1>6, <1>8, <2>1 DEF OrderAnswered
<1> QED
  BY <1>6, <1>7, <1>8 DEF Answer, SaveAnswered, SaveRefused, ResetAnswered, CardsAnswered, Ends

\* What the page makes of it.
LEMMA Answer_Page ==
    ASSUME IInv, PicInv, NEW c \in calls, Answer(c)
    PROVE  PageOK' /\ PageInPlace'
<1>1. CallOK(c) /\ (~shuffled => CallInPlace(c)) /\ shuffled' = shuffled
  BY Call_Is, Answer_Calls
<1>2. IsRow(view) /\ sel \in 1 .. Len(Items)
  BY DEF PicInv, PageOK
<1>3. ASSUME IsRow(view'), ~shuffled => view'.order = Items, UNCHANGED <<canvasVars, sel, asked, previews, shown>>
      PROVE  PageOK' /\ PageInPlace'
  BY <1>1, <1>3 DEF PicInv, PageOK, PageInPlace, canvasVars, historyVars
<1>4. ASSUME NEW v, IsRow(v), view' = v, sel' \in 1 .. Len(Items), LoadPreview(v, sel'),
             ~shuffled => v.order = Items
      PROVE  PageOK' /\ PageInPlace'
  <2>1. /\ PageOK'
        /\ sel' \in DOMAIN v.order => asked' = v.order[sel'] /\ shown' = <<>>
        /\ \A p \in previews' : p.file = <<>> \/ \E q \in previews : p.file = q.file /\ p.item = q.item
    BY <1>4, LoadPreview_Pic DEF PicInv
  <2>2. ASSUME ~shuffled PROVE sel' \in DOMAIN v.order
    BY <1>4, <2>2, ItemsAssumption
  <2>3. PageInPlace'
    BY <1>1, <1>4, <2>1, <2>2 DEF PicInv, PageInPlace
  <2> QED
    BY <2>1, <2>3
<1>5. ASSUME NEW render \in [Item -> Key]
      PROVE  LET v == [view EXCEPT !.render = render] IN IsRow(v) /\ v.order = view.order
  BY <1>2 DEF IsRow
<1>6. ASSUME NEW key \in Key, NEW v, v = Patched(key)
      PROVE  IsRow(v) /\ v.order = view.order
  <2>1. PICK render : render = [i \in Item |-> IF i \in Selected THEN key ELSE view.render[i]]
    OBVIOUS
  <2>2. render \in [Item -> Key]
    BY <1>2, <2>1 DEF IsRow
  <2> QED
    BY <1>5, <1>6, <2>1, <2>2 DEF Patched
<1>7. ~shuffled => view.order = Items
  BY DEF PicInv, PageInPlace
<1>8. CASE SaveAnswered(c)
  <2>1. c.picture \in Key
    BY <1>1, <1>8 DEF SaveAnswered, CallOK, Making, Key
  <2>2. PICK v : v = Patched(c.picture) /\ view' = v /\ LoadPreview(v, sel) /\ sel' = sel
    BY <1>8 DEF SaveAnswered
  <2>3. IsRow(v) /\ v.order = view.order
    BY <1>6, <2>1, <2>2
  <2> QED
    BY <1>2, <1>4, <1>7, <2>2, <2>3
<1>9. CASE SaveRefused(c)
  BY <1>2, <1>3, <1>7, <1>9 DEF SaveRefused
<1>10. CASE ResetAnswered(c)
  <2>1. PICK v : v = Patched(<<>>) /\ view' = v /\ LoadPreview(v, sel) /\ sel' = sel
    BY <1>10 DEF ResetAnswered
  <2>2. IsRow(v) /\ v.order = view.order
    BY <1>6, <2>1 DEF Key
  <2> QED
    BY <1>2, <1>4, <1>7, <2>1, <2>2
<1>11. CASE BatchAnswered(c)
  <2>1. c.item \in Item /\ c.picture \in Key
    BY <1>1, <1>11 DEF BatchAnswered, CallOK, Making, Key
  <2>2. PICK render : render = [view.render EXCEPT ![c.item] = c.picture] /\ render \in [Item -> Key]
    BY <1>2, <2>1 DEF IsRow
  <2>3. view' = view \/ view' = [view EXCEPT !.render = render]
    BY <1>11, <2>2 DEF BatchAnswered
  <2>4. IsRow(view') /\ view'.order = view.order
    BY <1>2, <2>2, <2>3 DEF IsRow
  <2> QED
    BY <1>3, <1>7, <1>11, <2>4 DEF BatchAnswered
<1>12. CASE OrderAnswered(c)
  <2>1. c.stage = "answered" => IsRow(c.job) /\ (~shuffled => c.job.order = Items)
    BY <1>1, <1>12 DEF OrderAnswered, CallOK, CallInPlace
  <2> QED
    BY <1>2, <1>3, <1>7, <1>12, <2>1 DEF OrderAnswered
<1>13. CASE CardsAnswered(c)
  <2>1. PICK v : v = c.job /\ view' = v /\ IsRow(v) /\ shuffled
    BY <1>1, <1>13 DEF CardsAnswered, CallOK, CallInPlace
  <2>2. sel' = (IF sel <= Len(v.order) THEN sel ELSE Len(v.order)) /\ LoadPreview(v, sel')
    BY <1>13, <2>1 DEF CardsAnswered, SelectIndex
  <2>3. sel' \in 1 .. Len(Items)
    BY <1>2, <2>1, <2>2 DEF IsRow, IsOrder
  <2> QED
    BY <1>4, <2>1, <2>2, <2>3
<1> QED
  BY <1>8, <1>9, <1>10, <1>11, <1>12, <1>13 DEF Answer
-----------------------------------------------------------------------------
LEMMA Init_PicInv == Init => PicInv
<1> SUFFICES ASSUME Init PROVE PicInv
  OBVIOUS
<1>1. IsOrder(Items) /\ 1 \in 1 .. Len(Items) /\ Items[1] \in Item
  BY ItemsAssumption DEF IsOrder
<1>2. \A i \in Item : rows.render[i] = (IF i \in Edited THEN <<i, 0>> ELSE <<>>)
  BY DEF Init, Earlier
<1>3. \A i \in Item : <<i, 0>> \in Picture /\ <<i, 0>> \in Key /\ <<i, 0>>[1] = i /\ <<i, 0>>[2] = 0
  BY DEF Picture, Key
<1>4. rows.render \in [Item -> Key]
  <2>1. rows.render = [i \in Item |-> IF i \in Edited THEN Earlier(i) ELSE <<>>]
    BY DEF Init
  <2>2. DOMAIN rows.render = Item /\ rows.render = [i \in Item |-> rows.render[i]]
    BY <2>1
  <2>3. \A i \in Item : rows.render[i] \in Key
    BY <1>2, <1>3 DEF Key
  <2> QED
    BY <2>2, <2>3
<1>5. rows = [order |-> Items, render |-> rows.render] /\ view = rows
  BY DEF Init
<1>6. IsRow(rows) /\ IsRow(view) /\ rows.order = Items
  BY <1>1, <1>4, <1>5 DEF IsRow
<1>7. objects \subseteq Picture
  BY <1>3, ItemsAssumption DEF Init, Earlier
<1>8. PageOK
  BY <1>1, <1>6 DEF Init, PageOK, IsPreview, Key
<1>9. RowsOK
  BY <1>6, <1>7 DEF Init, RowsOK
<1>10. PageInPlace
  BY <1>5, <1>6 DEF Init, PageInPlace
<1>11. RowsInPlace
  BY <1>2, <1>3, <1>6 DEF Init, RowsInPlace
<1>12. Keys
  <2>1. calls = {} /\ taps = 0 /\ 0 \in 0 .. 0
    BY DEF Init
  <2>2. \A k \in Known : k = <<>> \/ \E i \in Item : k = <<i, 0>>
    BY <1>2, <2>1 DEF Known
  <2>3. \A i, j \in Item : rows.render[i] = rows.render[j] => i = j \/ rows.render[i] = <<>>
    <3>1. ASSUME NEW i \in Item, NEW j \in Item, rows.render[i] = rows.render[j], rows.render[i] # <<>>
          PROVE  i = j
      <4>1. rows.render[i] = <<i, 0>> /\ rows.render[j] = <<j, 0>>
        BY <1>2, <3>1
      <4>2. <<i, 0>>[1] = i /\ <<j, 0>>[1] = j
        OBVIOUS
      <4> QED
        BY <3>1, <4>1, <4>2
    <3> QED
      BY <3>1
  <2> QED
    BY <1>3, <2>1, <2>2, <2>3 DEF Keys
<1>13. RenderExists
  <2>1. ToSet(rows.order) = Item
    BY <1>6 DEF Item
  <2>2. \A i \in Edited : <<i, 0>> \in objects
    BY DEF Init, Earlier
  <2> QED
    BY <1>2, <2>1, <2>2 DEF RenderExists
<1> QED
  BY <1>8, <1>9, <1>10, <1>11, <1>12, <1>13 DEF PicInv

LEMMA Next_PicInv == IInv /\ PicInv /\ [Next]_vars => PicInv'
<1> SUFFICES ASSUME IInv, PicInv, [Next]_vars PROVE PicInv'
  OBVIOUS
<1>1. CASE CanvasStep
  BY <1>1, CanvasStep_Pic
<1>2. CASE PageTap
  BY <1>2, Select_Pic, MoveItem_Pic, Click_Pic DEF PageTap
<1>3. CASE PageGoesOn
  BY <1>3, PageGoesOn_Pic DEF PageGoesOn
<1>4. ASSUME NEW c \in calls, Serve(c) PROVE PicInv'
  BY <1>4, ReadItem_Pic, UpdateRow_Pic, DeletePrevious_Pic, DeleteReset_Pic, UpdateReset_Pic, WriteOrder_Pic DEF Serve
<1>5. ASSUME NEW c \in calls, Answer(c) PROVE PicInv'
  BY <1>5, Answer_Calls, Answer_Page DEF PicInv
<1>6. ASSUME NEW c \in calls, StoreFails(c) \/ ResetFails(c) PROVE PicInv'
  BY <1>6, StoreFails_Pic, ResetFails_Pic
<1>7. CASE UNCHANGED vars
  <2>1. PageOK' /\ PageInPlace'
    BY <1>7 DEF PicInv, PageOK, PageInPlace, vars, canvasVars, historyVars, pageVars
  <2>2. RowsOK' /\ RowsInPlace' /\ RenderExists'
    BY <1>7 DEF PicInv, RowsOK, RowsInPlace, RenderExists, vars, pageVars, serverVars
  <2>3. Keys'
    BY <1>7, Keys_Same DEF PicInv, vars, serverVars, IInv, CanvasTypes
  <2> QED
    BY <2>1, <2>2, <2>3 DEF PicInv
<1> QED
  BY <1>1, <1>2, <1>3, <1>4, <1>5, <1>6, <1>7 DEF Next

LEMMA Spec_PicInv == Spec => []PicInv
BY Init_PicInv, Next_PicInv, Spec_IInv, PTL DEF Spec

\* As long as the cards stay where they are, the picture a row names shows the
\* document of that row, in whatever order saves, resets and the pictures of
\* onApplyAll are read, stored and answered, and whatever fails.
THEOREM Spec_RenderIsOfItem == Spec => []RenderIsOfItem
<1>1. PicInv => RenderIsOfItem
  BY DEF PicInv, RowsInPlace, RenderIsOfItem
<1> QED
  BY <1>1, Spec_PicInv, PTL

\* The picture a row names is in the store unless a reset deleted that very
\* picture and has not told the row, or never will because it failed: no save
\* deletes what another one has stored, whatever fails.
THEOREM Spec_RenderExists == Spec => []RenderExists
<1>1. PicInv => RenderExists
  BY DEF PicInv
<1> QED
  BY <1>1, Spec_PicInv, PTL
-----------------------------------------------------------------------------
(***************************************************************************)
(* The types, which bound what the shopkeeper does.                        *)
(***************************************************************************)
\* The taps that made an edit, and that of an earlier visit.
Mark == 0 .. MaxTaps + 1
Edits == Seq(1 .. MaxTaps + 1)
Kept == [look : Mark, marks : Mark, ops : Edits]

Bounds == taps \in 0 .. MaxTaps /\ faults \in 0 .. MaxFaults

CanvasBounds ==
    /\ look \in Mark /\ marks \in Mark /\ ops \in Edits /\ bitmap \in Edits
    /\ cache \in Seq(Edits) /\ Len(cache) <= CacheSize
    /\ settling \in BOOLEAN
    /\ history \in Seq(Kept)
    /\ \A j \in jobs : j.to \in Kept

\* What this browser keeps of an item: a state or nothing.
Stored == {q \in Seq(Kept) : Len(q) <= 1}

PageBounds ==
    /\ {savingEdit, batchBusy, shuffled} \subseteq BOOLEAN
    /\ saved \in Stored /\ latest \in [Item -> Stored]

\* A finite set of numbers has a largest one: of the sets of what is above each
\* of them one is smallest.
LEMMA OneIsLargest ==
    ASSUME NEW top \in Nat, NEW K, K \subseteq 0 .. top, K # {}
    PROVE  \E n \in K : \A m \in K : m <= n
<1> DEFINE Above(n) == n + 1 .. top
           T == {Above(n) : n \in K}
           R == StrictSubsetOrdering(Nat)
           F == FiniteSubsetsOf(Nat)
<1>1. T \subseteq F /\ T # {}
  <2>1. ASSUME NEW n \in K PROVE Above(n) \in F
    <3>1. n \in Nat /\ IsFiniteSet(n + 1 .. top)
      BY FS_Interval
    <3>2. n + 1 .. top \in SUBSET Nat
      BY <3>1
    <3> QED
      BY <3>1, <3>2 DEF FiniteSubsetsOf
  <2> QED
    BY <2>1
<1>2. IsWellFoundedOn(R, F)
  BY FS_StrictSubsetOrderingWellFounded
<1>3. PICK t \in T : \A u \in T : ~(<<u, t>> \in R)
  BY <1>1, <1>2, WFMin
<1>4. PICK n \in K : t = Above(n)
  OBVIOUS
<1>5. ASSUME NEW m \in K PROVE m <= n
  <2>1. ~(<<Above(m), Above(n)>> \in R)
    BY <1>3, <1>4
  <2>2. ~(Above(m) \subseteq Above(n) /\ Above(m) # Above(n))
    <3>1. Above(m) \subseteq Nat /\ Above(n) \subseteq Nat
      OBVIOUS
    <3> QED
      BY <2>1, <3>1 DEF StrictSubsetOrdering
  <2>3. ASSUME n < m PROVE FALSE
    <3>1. Above(m) \subseteq Above(n) /\ m \in Above(n) /\ m \notin Above(m)
      BY <2>3
    <3> QED
      BY <2>2, <3>1
  <2> QED
    BY <2>3
<1> QED
  BY <1>5

\* The cache keeps no more than it may.
LEMMA CachedType ==
    ASSUME CanvasBounds, NEW o \in Edits
    PROVE  Cached(o) \in Seq(Edits) /\ Len(Cached(o)) <= CacheSize
<1> DEFINE K == {n \in 0 .. Len(o) : n = 0 \/ SubSeq(o, 1, n) \in ToSet(cache)}
           start == CHOOSE n \in K : \A m \in K : m <= n
           more == [n \in 1 .. Len(o) - start |-> SubSeq(o, 1, start + n)]
           all == cache \o more
<1>1. Len(o) \in Nat
  BY DEF Edits
<1>2. start \in 0 .. Len(o)
  <2>1. 0 \in K
    BY <1>1
  <2>2. \E n \in K : \A m \in K : m <= n
    <3>1. K \subseteq 0 .. Len(o) /\ K # {}
      BY <2>1
    <3> HIDE DEF K
    <3> QED
      BY <1>1, <3>1, OneIsLargest
  <2>3. start \in K
    BY <2>2
  <2> QED
    BY <2>3
<1> HIDE DEF start
<1>3. more \in Seq(Edits)
  <2>1. ASSUME NEW n \in 1 .. Len(o) - start PROVE SubSeq(o, 1, start + n) \in Edits
    <3>1. start + n \in 1 .. Len(o)
      BY <1>1, <1>2
    <3>2. \A i \in 1 .. start + n : o[i] \in 1 .. MaxTaps + 1
      <4>1. \A i \in 1 .. start + n : i \in 1 .. Len(o)
        BY <1>1, <1>2, <3>1
      <4> QED
        BY <4>1, ElementOfSeq DEF Edits
    <3> QED
      BY <3>1, <3>2, SubSeqProperties DEF Edits
  <2>2. Len(o) - start \in Nat
    BY <1>1, <1>2
  <2> HIDE DEF Edits
  <2>3. more \in [1 .. Len(o) - start -> Edits]
    BY <2>1
  <2> QED
    BY <2>2, <2>3, SeqDef
<1> HIDE DEF more
<1>4. all \in Seq(Edits)
  BY <1>3, ConcatProperties DEF CanvasBounds
<1>5. Len(all) \in Nat
  BY <1>4
<1> HIDE DEF all
<1>6. CASE Len(all) > CacheSize
  <2>1. Cached(o) = SubSeq(all, Len(all) - CacheSize + 1, Len(all))
    BY <1>6 DEF Cached, all, more, start
  <2>2. CacheSize \in Nat /\ Len(all) - CacheSize + 1 \in 1 .. Len(all) + 1
    BY <1>5, <1>6, CanvasAssumption DEF CanvasAssumption
  <2>3. /\ SubSeq(all, Len(all) - CacheSize + 1, Len(all)) \in Seq(Edits)
        /\ Len(SubSeq(all, Len(all) - CacheSize + 1, Len(all))) = CacheSize
    BY <1>4, <1>5, <2>2, SubSeqProperties
  <2> QED
    BY <2>1, <2>2, <2>3
<1>7. CASE ~(Len(all) > CacheSize)
  <2>1. Cached(o) = SubSeq(all, 1, Len(all))
    BY <1>7 DEF Cached, all, more, start
  <2>2. CacheSize \in Nat
    BY CanvasAssumption DEF CanvasAssumption
  <2>3. SubSeq(all, 1, Len(all)) = all
    BY <1>4, SubSeqFull
  <2> QED
    BY <1>4, <1>5, <1>7, <2>1, <2>2, <2>3
<1> QED
  BY <1>6, <1>7

LEMMA KeptType ==
    ASSUME NEW l \in Mark, NEW m \in Mark, NEW o \in Edits
    PROVE  Snapshot(l, m, o) \in Kept
BY DEF Snapshot, Kept

LEMMA NoneKept == <<>> \in Edits /\ 0 \in Mark /\ Blank \in Kept
<1>1. <<>> \in Edits
  BY EmptySeq DEF Edits
<1>2. 0 \in Mark
  BY CanvasAssumption DEF CanvasAssumption, Mark
<1> QED
  BY <1>1, <1>2 DEF Blank, Kept

\* What is recorded is kept as it is.
LEMMA Push_Bounds ==
    ASSUME HistoryTypes, history # <<>>, history \in Seq(Kept), NEW s \in Kept, NEW quiet,
           PushIf(quiet, s)
    PROVE  history' \in Seq(Kept)
<1>1. CASE ~quiet \/ history[pos] = s
  BY <1>1 DEF PushIf, Push, historyVars
<1>2. CASE quiet /\ history[pos] # s
  <2>1. history' = Recorded(history, pos, s, HistoryLimit)
    BY <1>2 DEF PushIf, Push, Recorded
  <2>2. pos \in 1 .. Len(history) /\ Len(history) <= HistoryLimit /\ HistoryLimit \in Nat \ {0}
    BY CanvasAssumption DEF HistoryTypes
  <2> HIDE DEF Kept
  <2> QED
    BY <2>1, <2>2, RecordSeq
<1> QED
  BY <1>1, <1>2

\* A tap makes an edit.
LEMMA TapType ==
    ASSUME Bounds, Tap
    PROVE  Bounds' /\ taps' \in Mark /\ taps' \in 1 .. MaxTaps + 1
BY CanvasAssumption DEF Bounds, Tap, Mark, CanvasAssumption

\* A state is restored.
LEMMA Restore_Bounds ==
    ASSUME CanvasBounds, HistoryTypes, history # <<>>, NEW s \in Kept, NEW push \in BOOLEAN,
           Restore(s, push), push \/ UNCHANGED history
    PROVE  CanvasBounds'
<1> DEFINE job == [stage |-> "marks", to |-> s, push |-> push, latest |-> TRUE, no |-> taps']
           waiting == IF AtOnce(s.ops) THEN job ELSE [job EXCEPT !.stage = "ops"]
<1>1. s.look \in Mark /\ s.marks \in Mark /\ s.ops \in Edits
  BY DEF Kept
<1>2. waiting.to = s
  OBVIOUS
<1>3. /\ look' = s.look /\ ops' = s.ops /\ bitmap' \in {s.ops, bitmap}
      /\ UNCHANGED <<cache, settling>>
      /\ marks' \in {s.marks, marks}
      /\ jobs' \subseteq Overtaken \union {waiting}
      /\ push => Push(s) \/ UNCHANGED historyVars
  BY DEF Restore
<1> HIDE DEF waiting
<1>4. \A j \in jobs' : j.to \in Kept
  <2>1. \A j \in Overtaken : \E k \in jobs : j.to = k.to
    <3>1. ASSUME NEW k \in jobs PROVE [k EXCEPT !.latest = FALSE].to = k.to
      OBVIOUS
    <3> QED
      BY <3>1 DEF Overtaken
  <2> QED
    BY <1>2, <1>3, <2>1 DEF CanvasBounds
<1>5. history' \in Seq(Kept)
  <2>1. ASSUME Push(s) PROVE history' \in Seq(Kept)
    BY <2>1, Push_Bounds DEF PushIf, CanvasBounds
  <2> QED
    BY <1>3, <2>1 DEF CanvasBounds, historyVars
<1> QED
  BY <1>1, <1>3, <1>4, <1>5 DEF CanvasBounds

\* What happens on the canvas.
LEMMA CanvasStep_Bounds ==
    ASSUME IInv, Bounds, CanvasBounds, CanvasNext
    PROVE  Bounds' /\ CanvasBounds'
<1> USE DEF IInv, CanvasTypes
<1>1. CASE EditMarks
  <2>1. Bounds' /\ taps' \in Mark
    BY <1>1, TapType DEF EditMarks
  <2>2. Snapshot(look, taps', ops) \in Kept
    BY <2>1, KeptType DEF CanvasBounds
  <2>3. history' \in Seq(Kept)
    BY <1>1, <2>2, Push_Bounds DEF EditMarks, CanvasBounds, IsOpen
  <2> QED
    BY <1>1, <2>1, <2>3 DEF EditMarks, CanvasBounds
<1>2. CASE EditLook \/ EditMarksLater
  <2>1. Bounds' /\ taps' \in Mark
    BY <1>2, TapType DEF EditLook, EditMarksLater
  <2> QED
    BY <1>2, <2>1 DEF EditLook, EditMarksLater, CanvasBounds, historyVars
<1>3. CASE PushOp
  <2>1. Bounds' /\ taps' \in 1 .. MaxTaps + 1
    BY <1>3, TapType DEF PushOp
  <2>2. ops' \in Edits
    BY <1>3, <2>1 DEF PushOp, CanvasBounds, Edits
  <2>3. [Blank EXCEPT !.ops = ops'] \in Kept
    BY <2>2, NoneKept DEF Kept
  <2>4. PICK job : /\ job = [stage |-> "op", to |-> [Blank EXCEPT !.ops = ops'], push |-> TRUE,
                             latest |-> FALSE, no |-> taps']
                   /\ jobs' = jobs \union {job}
    BY <1>3 DEF PushOp
  <2>5. job.to \in Kept
    BY <2>3, <2>4
  <2>6. \A j \in jobs' : j.to \in Kept
    BY <2>4, <2>5 DEF CanvasBounds
  <2> QED
    BY <1>3, <2>1, <2>2, <2>6 DEF PushOp, CanvasBounds, historyVars
<1>4. CASE ClearPixelEdits
  <2>1. Bounds' /\ history # <<>>
    BY <1>4, TapType DEF ClearPixelEdits, Closed
  <2>2. Snapshot(look, marks, <<>>) \in Kept
    BY KeptType, NoneKept DEF CanvasBounds
  <2>3. history' \in Seq(Kept)
    BY <1>4, <2>1, <2>2, Push_Bounds DEF ClearPixelEdits, CanvasBounds
  <2> QED
    BY <1>4, <2>1, <2>3, NoneKept DEF ClearPixelEdits, CanvasBounds
<1>5. CASE Undo
  <2>1. /\ pos > 1 /\ Tap /\ Restore(history[pos - 1], FALSE) /\ UNCHANGED history
    BY <1>5 DEF Undo
  <2>2. pos - 1 \in 1 .. Len(history) /\ history # <<>>
    BY <2>1 DEF HistoryTypes
  <2>3. history[pos - 1] \in Kept
    BY <2>2, ElementOfSeq DEF CanvasBounds
  <2> QED
    BY <2>1, <2>2, <2>3, TapType, Restore_Bounds
<1>6. CASE Redo
  <2>1. /\ pos < Len(history) /\ Tap /\ Restore(history[pos + 1], FALSE) /\ UNCHANGED history
    BY <1>6 DEF Redo
  <2>2. pos + 1 \in 1 .. Len(history) /\ history # <<>>
    BY <2>1, LenEmpty DEF HistoryTypes
  <2>3. history[pos + 1] \in Kept
    BY <2>2, ElementOfSeq DEF CanvasBounds
  <2> QED
    BY <2>1, <2>2, <2>3, TapType, Restore_Bounds
<1>7. CASE ResetAll
  <2>1. pos > 1 /\ Tap /\ Restore(Blank, TRUE)
    BY <1>7, Zenon DEF ResetAll
  <2>2. history # <<>>
    BY <2>1 DEF HistoryTypes
  <2> QED
    BY <2>1, <2>2, TapType, NoneKept, Restore_Bounds
<1>8. CASE Settle
  <2>1. history # <<>>
    BY <1>8 DEF Settle, Closed
  <2>2. OnCanvas \in Kept
    BY KeptType DEF OnCanvas, CanvasBounds
  <2>3. history' \in Seq(Kept)
    BY <1>8, <2>1, <2>2, Push_Bounds DEF Settle, CanvasBounds
  <2> QED
    BY <1>8, <2>3 DEF Settle, NoTap, Bounds, CanvasBounds
<1>9. ASSUME NEW j \in jobs, OpComputed(j) PROVE Bounds' /\ CanvasBounds'
  <2>1. history # <<>>
    BY DEF Closed
  <2>2. OnCanvas \in Kept /\ j.to.ops \in Edits
    BY KeptType DEF OnCanvas, CanvasBounds, Kept
  <2>3. history' \in Seq(Kept)
    BY <1>9, <2>1, <2>2, Push_Bounds DEF OpComputed, CanvasBounds
  <2>4. cache' \in Seq(Edits) /\ Len(cache') <= CacheSize
    BY <1>9, <2>2, CachedType DEF OpComputed
  <2> QED
    BY <1>9, <2>2, <2>3, <2>4 DEF OpComputed, NoTap, Bounds, CanvasBounds
<1>10. ASSUME NEW j \in jobs, NEW m \in Mark, EndRestore(j, m), ops' = ops, look' = look
       PROVE  history' \in Seq(Kept) /\ marks' \in Mark /\ jobs' \subseteq jobs
  <2>1. history # <<>>
    BY DEF Closed
  <2>2. Snapshot(look, m, ops) \in Kept
    BY KeptType DEF CanvasBounds
  <2> QED
    BY <1>10, <2>1, <2>2, Push_Bounds DEF EndRestore, CanvasBounds
<1>11. ASSUME NEW j \in jobs, BitmapRestored(j) PROVE Bounds' /\ CanvasBounds'
  <2>1. j.to.ops \in Edits /\ j.to.marks \in Mark /\ marks \in Mark
    BY DEF CanvasBounds, Kept
  <2>2. /\ bitmap' = j.to.ops /\ cache' = Cached(j.to.ops) /\ NoTap /\ UNCHANGED <<look, ops, settling>>
        /\ \/ EndRestore(j, marks) \/ EndRestore(j, j.to.marks)
           \/ /\ jobs' = (jobs \ {j}) \union {[j EXCEPT !.stage = "marks"]}
              /\ UNCHANGED <<marks, restoring, historyVars>>
    BY <1>11 DEF BitmapRestored
  <2>3. cache' \in Seq(Edits) /\ Len(cache') <= CacheSize
    BY <2>1, <2>2, CachedType
  <2>4. history' \in Seq(Kept) /\ marks' \in Mark /\ \A k \in jobs' : k.to \in Kept
    <3>1. CASE EndRestore(j, marks) \/ EndRestore(j, j.to.marks)
      BY <1>10, <2>1, <2>2, <3>1 DEF CanvasBounds
    <3>2. CASE /\ jobs' = (jobs \ {j}) \union {[j EXCEPT !.stage = "marks"]}
               /\ UNCHANGED <<marks, restoring, historyVars>>
      <4>1. [j EXCEPT !.stage = "marks"].to = j.to
        OBVIOUS
      <4> QED
        BY <3>2, <4>1 DEF historyVars, CanvasBounds
    <3> QED
      BY <2>2, <3>1, <3>2
  <2> QED
    BY <2>1, <2>2, <2>3, <2>4 DEF NoTap, Bounds, CanvasBounds
<1>12. ASSUME NEW j \in jobs, MarksRestored(j) PROVE Bounds' /\ CanvasBounds'
  <2>1. j.to.marks \in Mark /\ marks \in Mark
    BY DEF CanvasBounds, Kept
  <2>2. /\ EndRestore(j, j.to.marks) \/ EndRestore(j, marks)
        /\ NoTap /\ UNCHANGED <<look, ops, bitmap, cache, settling>>
    BY <1>12 DEF MarksRestored
  <2>3. history' \in Seq(Kept) /\ marks' \in Mark /\ jobs' \subseteq jobs
    BY <1>10, <2>1, <2>2
  <2> QED
    BY <2>2, <2>3 DEF NoTap, Bounds, CanvasBounds
<1>13. ASSUME NEW j \in jobs, ComputationFails(j) PROVE Bounds' /\ CanvasBounds'
  BY <1>13, CanvasAssumption DEF ComputationFails, Bounds, CanvasBounds, historyVars, CanvasAssumption
<1> QED
  BY <1>1, <1>2, <1>3, <1>4, <1>5, <1>6, <1>7, <1>8, <1>9, <1>11, <1>12, <1>13
     DEF CanvasNext, CanvasTap, CanvasGoesOn

-----------------------------------------------------------------------------
LEMMA StoredType ==
    /\ <<>> \in Stored
    /\ \A s \in Kept : <<s>> \in Stored
    /\ \A q \in Stored : q # <<>> => q[1] \in Kept
<1>1. <<>> \in Stored
  BY EmptySeq, LenEmpty DEF Stored
<1>2. ASSUME NEW s \in Kept PROVE <<s>> \in Stored
  <2> HIDE DEF Kept
  <2> QED
    BY DEF Stored
<1>3. ASSUME NEW q \in Stored, q # <<>> PROVE q[1] \in Kept
  <2>1. q \in Seq(Kept) /\ 1 \in 1 .. Len(q)
    BY <1>3, EmptySeq DEF Stored
  <2> QED
    BY <2>1, ElementOfSeq
<1> QED
  BY <1>1, <1>2, <1>3

LEMMA Close_Bounds ==
    ASSUME CloseCanvas
    PROVE  CanvasBounds'
<1>1. <<>> \in Seq(Edits) /\ <<>> \in Seq(Kept) /\ Len(<<>>) <= CacheSize
  BY EmptySeq, LenEmpty, CanvasAssumption DEF CanvasAssumption
<1> QED
  BY <1>1, NoneKept DEF CloseCanvas, CanvasBounds

LEMMA Open_Bounds ==
    ASSUME saved \in Stored, OpenCanvas(saved)
    PROVE  CanvasBounds'
<1>1. PICK s : s = IF saved = <<>> THEN Blank ELSE saved[1]
  OBVIOUS
<1>2. s \in Kept
  BY <1>1, StoredType, NoneKept
<1>3. s.look \in Mark /\ s.ops \in Edits
  BY <1>2 DEF Kept
<1>4. PICK job : /\ job = [stage |-> IF s.ops # <<>> THEN "ops" ELSE "marks",
                           to |-> s, push |-> TRUE, latest |-> TRUE, no |-> taps]
                 /\ jobs' = {} \/ jobs' = {job}
  BY <1>1 DEF OpenCanvas
<1>5. job.to = s
  BY <1>4
<1>6. \A j \in jobs' : j.to \in Kept
  BY <1>2, <1>4, <1>5
<1>7. settling' = FALSE /\ cache' = <<>> /\ bitmap' = <<>> /\ marks' = 0
  BY DEF OpenCanvas
<1>8. history' = <<Blank>> /\ look' = s.look /\ ops' = s.ops
  BY <1>1 DEF OpenCanvas
<1>9. history' \in Seq(Kept)
  <2> HIDE DEF Kept
  <2> QED
    BY <1>8, NoneKept
<1>10. cache' \in Seq(Edits) /\ Len(cache') <= CacheSize
  BY <1>7, EmptySeq, LenEmpty, CanvasAssumption DEF CanvasAssumption
<1> QED
  BY <1>3, <1>6, <1>7, <1>8, <1>9, <1>10, NoneKept DEF CanvasBounds

LEMMA Canvas_Same ==
    ASSUME CanvasBounds, UNCHANGED canvasVars
    PROVE  CanvasBounds'
BY DEF CanvasBounds, canvasVars, historyVars

\* The preview is loaded: of the item, what this browser keeps of it.
LEMMA LoadPreview_Bounds ==
    ASSUME CanvasBounds, PageBounds, latest' \in [Item -> Stored], NEW v, v.order \in Seq(Item), NEW n, LoadPreview(v, n)
    PROVE  saved' \in Stored /\ CanvasBounds'
<1>1. CASE n \notin DOMAIN v.order
  BY <1>1, Canvas_Same DEF LoadPreview, PageBounds
<1>2. CASE n \in DOMAIN v.order
  <2>1. PICK item, edited :
            /\ item = v.order[n]
            /\ edited = IF v.render[item] # <<>> THEN latest'[item] ELSE <<>>
            /\ saved' = edited /\ CloseCanvas
    BY <1>2 DEF LoadPreview
  <2>2. item \in Item
    BY <1>2, <2>1
  <2> QED
    BY <2>1, <2>2, StoredType, Close_Bounds
<1> QED
  BY <1>1, <1>2

TypesInv == Bounds /\ CanvasBounds /\ PageBounds

\* The shopkeeper taps on the page.
LEMMA PageTap_Bounds ==
    ASSUME PicInv, TypesInv, PageTap
    PROVE  TypesInv'
<1>1. Bounds'
  <2>1. Tap
    BY Zenon DEF PageTap, Select, MoveItem, RemoveItem, Save, ResetEdits, CommitSettings, ApplyAll
  <2> QED
    BY <2>1, TapType DEF TypesInv
<1>2. ASSUME UNCHANGED <<canvasVars, saved>>, latest' \in [Item -> Stored], savingEdit' \in BOOLEAN,
             batchBusy' \in BOOLEAN, shuffled' \in BOOLEAN
      PROVE  TypesInv'
  <2>1. CanvasBounds'
    BY <1>2, Canvas_Same DEF TypesInv
  <2> QED
    BY <1>1, <1>2, <2>1 DEF TypesInv, PageBounds
<1>3. saved \in Stored /\ latest \in [Item -> Stored] /\ {savingEdit, batchBusy, shuffled} \subseteq BOOLEAN
  BY DEF TypesInv, PageBounds
<1>4. ASSUME NEW n, Select(n) PROVE TypesInv'
  <2>1. LoadPreview(view, n) /\ UNCHANGED <<latest, savingEdit, batchBusy, shuffled>>
    BY <1>4 DEF Select, SelectIndex
  <2>2. view.order \in Seq(Item)
    BY DEF PicInv, PageOK, IsRow, IsOrder
  <2>3. saved' \in Stored /\ CanvasBounds'
    BY <1>3, <2>1, <2>2, LoadPreview_Bounds DEF TypesInv
  <2> QED
    BY <1>1, <1>3, <2>1, <2>3 DEF TypesInv, PageBounds
<1>5. ASSUME NEW n, NEW m, MoveItem(n, m) PROVE TypesInv'
  BY <1>2, <1>3, <1>5 DEF MoveItem
<1>6. ASSUME NEW i \in Item, Save(i) PROVE TypesInv'
  <2>1. OnCanvas \in Kept
    BY KeptType DEF OnCanvas, TypesInv, CanvasBounds
  <2>2. latest' = [latest EXCEPT ![i] = <<OnCanvas>>] /\ <<OnCanvas>> \in Stored
    BY <1>6, <2>1, StoredType DEF Save
  <2>3. latest' \in [Item -> Stored]
    BY <1>3, <2>2
  <2> QED
    BY <1>2, <1>3, <1>6, <2>3 DEF Save
<1>7. ASSUME NEW i \in Item, RemoveItem(i) \/ ResetEdits(i) \/ CommitSettings(i) \/ ApplyAll(i) PROVE TypesInv'
  BY <1>2, <1>3, <1>7 DEF RemoveItem, ResetEdits, CommitSettings, ApplyAll, pageVars
<1> QED
  BY <1>4, <1>5, <1>6, <1>7 DEF PageTap

\* A preview comes, and with it the canvas.
LEMMA PageGoesOn_Bounds ==
    ASSUME TypesInv, PageGoesOn
    PROVE  TypesInv'
<1>1. UNCHANGED <<taps, faults, saved, latest, savingEdit, batchBusy, shuffled>>
  BY DEF PageGoesOn, SignLink, Download, PreviewFails, NoTap
<1>2. UNCHANGED canvasVars \/ OpenCanvas(saved)
  BY DEF PageGoesOn, SignLink, Download, PreviewFails
<1>3. CanvasBounds'
  BY <1>2, Canvas_Same, Open_Bounds DEF TypesInv, PageBounds
<1> QED
  BY <1>1, <1>3 DEF TypesInv, Bounds, PageBounds

LEMMA Serve_Bounds ==
    ASSUME TypesInv, NEW c \in calls, Serve(c) \/ StoreFails(c) \/ ResetFails(c)
    PROVE  TypesInv'
<1>1. UNCHANGED <<canvasVars, pageVars>> /\ taps' = taps
  BY DEF Serve, ReadItem, UpdateRow, DeletePrevious, DeleteReset, UpdateReset, WriteOrder, StoreFails, ResetFails,
         Stays, NoTap
<1>2. faults' = faults \/ (faults < MaxFaults /\ faults' = faults + 1)
  BY DEF Serve, ReadItem, UpdateRow, DeletePrevious, DeleteReset, UpdateReset, WriteOrder, StoreFails, ResetFails,
         Stays, NoTap
<1>3. Bounds'
  BY <1>1, <1>2, CanvasAssumption DEF TypesInv, Bounds, CanvasAssumption
<1> QED
  BY <1>1, <1>3, Canvas_Same DEF TypesInv, PageBounds, pageVars

\* The page takes an answer.
LEMMA Answer_Bounds ==
    ASSUME IInv, PicInv, TypesInv, NEW c \in calls, Answer(c)
    PROVE  TypesInv'
<1>1. UNCHANGED <<taps, faults, shuffled>>
  BY DEF Answer, SaveAnswered, SaveRefused, ResetAnswered, BatchAnswered, OrderAnswered, CardsAnswered, NoTap
<1>2. savingEdit' \in BOOLEAN /\ batchBusy' \in BOOLEAN
  BY DEF Answer, SaveAnswered, SaveRefused, ResetAnswered, BatchAnswered, OrderAnswered, CardsAnswered,
         TypesInv, PageBounds
<1>3. latest' \in [Item -> Stored]
  <2>1. latest' = latest \/ latest' = [latest EXCEPT ![c.item] = <<>>]
    BY DEF Answer, SaveAnswered, SaveRefused, ResetAnswered, BatchAnswered, OrderAnswered, CardsAnswered
  <2> QED
    BY <2>1, StoredType DEF TypesInv, PageBounds
<1>4. saved' \in Stored /\ CanvasBounds'
  <2>1. ASSUME NEW v, view' = v, NEW n, LoadPreview(v, n)
        PROVE  saved' \in Stored /\ CanvasBounds'
    <3>1. IsRow(view')
      BY Answer_Page DEF PageOK
    <3> QED
      BY <1>3, <2>1, <3>1, LoadPreview_Bounds DEF TypesInv, IsRow, IsOrder
  <2>2. CASE UNCHANGED <<canvasVars, saved>>
    BY <2>2, Canvas_Same DEF TypesInv, PageBounds
  <2> QED
    BY <2>1, <2>2 DEF Answer, SaveAnswered, SaveRefused, ResetAnswered, BatchAnswered, OrderAnswered,
                      CardsAnswered, SelectIndex
<1> QED
  BY <1>1, <1>2, <1>3, <1>4 DEF TypesInv, Bounds, PageBounds

LEMMA Init_TypesInv == Init => TypesInv
<1> SUFFICES ASSUME Init PROVE TypesInv
  OBVIOUS
<1>1. <<>> \in Seq(Edits) /\ <<>> \in Seq(Kept) /\ Len(<<>>) <= CacheSize
  BY EmptySeq, LenEmpty, CanvasAssumption DEF CanvasAssumption
<1>2. CanvasBounds
  BY <1>1, NoneKept DEF Init, CanvasBounds
<1>3. Bounds
  BY CanvasAssumption DEF Init, Bounds, CanvasAssumption
<1>4. Before \in Kept
  <2>1. MaxTaps + 1 \in Mark /\ MaxTaps + 1 \in 1 .. MaxTaps + 1
    BY CanvasAssumption DEF CanvasAssumption, Mark
  <2>2. <<MaxTaps + 1>> \in Edits
    BY <2>1 DEF Edits
  <2> QED
    BY <2>1, <2>2, KeptType DEF Before
<1>5. <<Before>> \in Stored
  BY <1>4, StoredType
<1>6. latest \in [Item -> Stored]
  BY <1>5, StoredType DEF Init
<1>7. saved \in Stored
  <2>1. Items[1] \in Item
    BY ItemsAssumption DEF ItemsAssumption, Item
  <2> QED
    BY <1>6, <2>1 DEF Init
<1>8. {savingEdit, batchBusy, shuffled} \subseteq BOOLEAN
  BY DEF Init
<1> QED
  BY <1>2, <1>3, <1>6, <1>7, <1>8 DEF TypesInv, PageBounds

LEMMA Next_TypesInv == IInv /\ PicInv /\ TypesInv /\ [Next]_vars => TypesInv'
<1> SUFFICES ASSUME IInv, PicInv, TypesInv, [Next]_vars PROVE TypesInv'
  OBVIOUS
<1>1. CASE CanvasStep
  <2>1. Bounds' /\ CanvasBounds' /\ UNCHANGED pageVars
    BY <1>1, CanvasStep_Bounds DEF CanvasStep, TypesInv
  <2> QED
    BY <2>1 DEF TypesInv, PageBounds, pageVars
<1>2. CASE PageTap
  BY <1>2, PageTap_Bounds
<1>3. CASE PageGoesOn
  BY <1>3, PageGoesOn_Bounds
<1>4. ASSUME NEW c \in calls, Serve(c) \/ StoreFails(c) \/ ResetFails(c) PROVE TypesInv'
  BY <1>4, Serve_Bounds
<1>5. ASSUME NEW c \in calls, Answer(c) PROVE TypesInv'
  BY <1>5, Answer_Bounds
<1>6. CASE UNCHANGED vars
  BY <1>6, Canvas_Same DEF TypesInv, Bounds, PageBounds, vars, pageVars
<1> QED
  BY <1>1, <1>2, <1>3, <1>4, <1>5, <1>6 DEF Next

\* Nothing outgrows its bound, however long the shopkeeper goes on: the states
\* that undo can reach, the bitmaps that are kept, and what the browser keeps of
\* an item; what is edited, shown and asked for is of an item of the order.
THEOREM Spec_TypeOK == Spec => []TypeOK
<1>1. ASSUME IInv, PicInv, TypesInv PROVE TypeOK
  <2>1. {look, marks} \subseteq 0 .. MaxTaps + 1
    BY <1>1 DEF TypesInv, CanvasBounds, Mark
  <2>2. \A o \in Edits : ToSet(o) \subseteq 1 .. MaxTaps + 1
    <3> DEFINE S == 1 .. MaxTaps + 1
    <3> HIDE DEF S
    <3>1. ASSUME NEW o \in Seq(S) PROVE ToSet(o) \subseteq S
      <4>1. \A i \in DOMAIN o : o[i] \in S
        BY ElementOfSeq
      <4> QED
        BY <4>1 DEF ToSet
    <3> QED
      BY <3>1 DEF Edits, S
  <2>3. ToSet(ops) \subseteq 1 .. MaxTaps + 1 /\ ToSet(bitmap) \subseteq 1 .. MaxTaps + 1 /\ Len(cache) <= CacheSize
    BY <1>1, <2>2 DEF TypesInv, CanvasBounds
  <2>4. Len(history) <= HistoryLimit /\ pos \in 0 .. Len(history) /\ restoring \in BOOLEAN
    BY <1>1 DEF IInv, CanvasTypes, HistoryTypes
  <2>5. {restoring, settling, savingEdit, batchBusy, shuffled} \subseteq BOOLEAN
    BY <1>1, <2>4 DEF TypesInv, CanvasBounds, PageBounds
  <2>6. taps \in 0 .. MaxTaps /\ faults \in 0 .. MaxFaults
    BY <1>1 DEF TypesInv, Bounds
  <2>7. \A v \in {view, rows} : ToSet(v.order) \subseteq Item /\ DOMAIN v.render = Item
    <3>1. IsRow(view) /\ IsRow(rows)
      BY <1>1 DEF PicInv, PageOK, RowsOK
    <3>2. ASSUME NEW v, IsRow(v) PROVE ToSet(v.order) \subseteq Item /\ DOMAIN v.render = Item
      BY <3>2, ElementOfSeq DEF IsRow, IsOrder, ToSet
    <3> QED
      BY <3>1, <3>2
  <2>8. sel \in 1 .. Len(Items) /\ asked \in Item /\ \A p \in previews : p.item \in Item
    BY <1>1 DEF PicInv, PageOK
  <2>9. ToSet(shown) \subseteq Item
    <3>1. CASE shown = <<>>
      BY <3>1 DEF ToSet
    <3>2. ASSUME NEW a \in Item, NEW b \in Item, shown = <<a, b>> PROVE ToSet(shown) \subseteq Item
      <4>1. shown \in Seq(Item)
        BY <3>2
      <4> QED
        BY <4>1, ElementOfSeq DEF ToSet
    <3> QED
      BY <1>1, <3>1, <3>2 DEF PicInv, PageOK
  <2>10. \A i \in Item : Len(latest[i]) <= 1
    BY <1>1 DEF TypesInv, PageBounds, Stored
  <2>11. \A c \in calls : c.item \in Item /\ c.stage \in {"sent", "read", "written", "deleted", "answered", "refused"}
    BY <1>1 DEF PicInv, RowsOK, CallOK
  <2> QED
    BY <2>1, <2>3, <2>4, <2>5, <2>6, <2>7, <2>8, <2>9, <2>10, <2>11 DEF TypeOK
<1> QED
  BY <1>1, Init_TypesInv, Next_TypesInv, Spec_IInv, Spec_PicInv, PTL DEF Spec
=============================================================================
