----------------------------- MODULE ImageCanvas -----------------------------
(***************************************************************************)
(* The editor of one image, ImageCanvasEditorComponent: what is on its     *)
(* canvas, undo and redo.                                                  *)
(*                                                                         *)
(* A state has three parts, for they come back at different times.  `look` *)
(* (paper, layout, colours, rotation) is set at once.  `ops` lists the     *)
(* pixel operations; the bitmap they make of the image is computed while   *)
(* the browser goes on, unless it is one of the last few (opsCache).       *)
(* `marks` (the annotations) comes back last, once its objects are made.   *)
(* An edit is the number of the tap that made it; what an edit does to the *)
(* picture is left out, and so are older versions, presets and the crop    *)
(* box, which are edits of these parts too.                                *)
(*                                                                         *)
(* restoreToken is the field `latest` of a job: whether no restore was     *)
(* begun after it.                                                         *)
(***************************************************************************)
EXTENDS Integers, Sequences, FiniteSets, SequencesExt

CONSTANTS
    HistoryLimit,   \* HISTORY_LIMIT
    CacheSize,      \* bitmaps opsCache keeps
    MaxTaps,        \* bound: what the shopkeeper does
    MaxFaults       \* bound: failures

ASSUME CanvasAssumption ==
    /\ {CacheSize, MaxTaps, MaxFaults} \subseteq Nat
    /\ HistoryLimit \in Nat \ {0}

VARIABLES
    look, marks,    \* what is on the canvas
    ops, bitmap,    \* opsList; appliedOpsKey, the operations whose bitmap it shows
    cache,          \* opsCache, the oldest first
    history, pos,   \* the recorded states, none if no image is open; the current one
    restoring,      \* whether a state is being restored: nothing is recorded then
    jobs,           \* the restores and operations that go on
    settling,       \* whether the last edit is still to be recorded (historyChange$)
    taps, faults

historyVars == <<history, pos>>
canvasVars == <<look, marks, ops, bitmap, cache, historyVars, restoring, jobs, settling>>

Blank == [look |-> 0, marks |-> 0, ops |-> <<>>]
IsOpen == history # <<>>
Quiet == ~restoring

\* The state of a canvas whose marks are m and operations o.
Snapshot(l, m, o) == [look |-> l, marks |-> m, ops |-> o]
OnCanvas == Snapshot(look, marks, ops)

Tap == taps < MaxTaps /\ taps' = taps + 1 /\ UNCHANGED faults
NoTap == UNCHANGED <<taps, faults>>
-----------------------------------------------------------------------------
\* Mutant of Push: what was undone stays behind the new state.
PushKeepsRedo(s) ==
    IF history[pos] = s THEN UNCHANGED historyVars
    ELSE LET kept == Append(history, s)
         IN  /\ history' = IF Len(kept) > HistoryLimit THEN Tail(kept) ELSE kept
             /\ pos' = Len(history')

\* Mutant of Push: the oldest state is never forgotten.
PushUnlimited(s) ==
    IF history[pos] = s THEN UNCHANGED historyVars
    ELSE history' = Append(SubSeq(history, 1, pos), s) /\ pos' = Len(history')

\* pushHistory of state s.
Push(s) ==
    IF history[pos] = s THEN UNCHANGED historyVars
    ELSE LET kept == Append(SubSeq(history, 1, pos), s)
         IN  /\ history' = IF Len(kept) > HistoryLimit THEN Tail(kept) ELSE kept
             /\ pos' = Len(history')

\* pushHistory, which records nothing while a state is being restored.
PushIf(quiet, s) == IF quiet THEN Push(s) ELSE UNCHANGED historyVars

\* computeOps has the bitmap of `o` without computing it.
AtOnce(o) == o \in {<<>>, bitmap} \union ToSet(cache)

\* computeOps starts from the longest prefix of `o` that is kept, and puts the
\* bitmap of each longer one; cachePut keeps the most recent.
Cached(o) ==
    LET kept == {n \in 0 .. Len(o) : n = 0 \/ SubSeq(o, 1, n) \in ToSet(cache)}
        start == CHOOSE n \in kept : \A m \in kept : m <= n
        all == cache \o [n \in 1 .. Len(o) - start |-> SubSeq(o, 1, start + n)]
    IN  SubSeq(all, IF Len(all) > CacheSize THEN Len(all) - CacheSize + 1 ELSE 1, Len(all))

\* Objects are made unless there are none to make, or none other than those there.
NothingToMake(s) == s.marks \in {marks, 0}

Overtaken == {[j EXCEPT !.latest = FALSE] : j \in jobs}

\* restore(s), as far as it goes before it waits for a bitmap or for objects;
\* with `push`, what it restored is recorded once it ends.
Restore(s, push) ==
    LET job == [stage |-> "marks", to |-> s, push |-> push, latest |-> TRUE, no |-> taps']
    IN  /\ look' = s.look /\ ops' = s.ops
        /\ bitmap' = IF AtOnce(s.ops) THEN s.ops ELSE bitmap
        /\ IF AtOnce(s.ops) /\ NothingToMake(s)
           THEN /\ marks' = s.marks /\ restoring' = FALSE /\ jobs' = Overtaken
                /\ IF push THEN Push(s) ELSE TRUE
           ELSE /\ restoring' = TRUE /\ UNCHANGED marks
                /\ jobs' = Overtaken \union {IF AtOnce(s.ops) THEN job ELSE [job EXCEPT !.stage = "ops"]}
                /\ IF push THEN UNCHANGED historyVars ELSE TRUE
        /\ UNCHANGED <<cache, settling>>

\* ngAfterViewInit: the image as it is, then the state saved with it, if any.
OpenCanvas(saved) ==
    /\ history' = <<Blank>> /\ pos' = 1
    /\ marks' = 0 /\ bitmap' = <<>> /\ cache' = <<>> /\ settling' = FALSE
    /\ LET s == IF saved = <<>> THEN Blank ELSE saved[1]
           slow == s.ops # <<>> \/ s.marks # 0
       IN  /\ look' = s.look /\ ops' = s.ops /\ restoring' = slow
           /\ jobs' = IF ~slow THEN {}
                      ELSE {[stage |-> IF s.ops # <<>> THEN "ops" ELSE "marks",
                             to |-> s, push |-> TRUE, latest |-> TRUE, no |-> taps]}

\* ngOnDestroy: what goes on has nothing to show any more.
CloseCanvas ==
    /\ look' = 0 /\ marks' = 0 /\ ops' = <<>> /\ bitmap' = <<>> /\ cache' = <<>>
    /\ history' = <<>> /\ pos' = 0
    /\ restoring' = FALSE /\ jobs' = {} /\ settling' = FALSE
-----------------------------------------------------------------------------
\* What the shopkeeper does on the canvas.  Nothing waits for a computation:
\* its overlay covers the stage, not the tools, and keys are heard all along.

\* An annotation is drawn, dragged or deleted.
EditMarks ==
    /\ IsOpen /\ Tap
    /\ marks' = taps'
    /\ PushIf(Quiet, Snapshot(look, taps', ops))
    /\ UNCHANGED <<look, ops, bitmap, cache, restoring, jobs, settling>>

\* An annotation is nudged, typed in or given another style: the change is
\* recorded when the shopkeeper pauses.
EditMarksLater ==
    /\ IsOpen /\ Tap
    /\ marks' = taps' /\ settling' = TRUE
    /\ UNCHANGED <<look, ops, bitmap, cache, historyVars, restoring, jobs>>

\* A slider is moved; recorded at a pause, too.
EditLook ==
    /\ IsOpen /\ Tap
    /\ look' = taps' /\ settling' = TRUE
    /\ UNCHANGED <<marks, ops, bitmap, cache, historyVars, restoring, jobs>>

\* pushOp: setOps lists the operation and computes its bitmap.
PushOp ==
    /\ IsOpen /\ Tap
    /\ ops' = Append(ops, taps')
    /\ jobs' = jobs \union {[stage |-> "op", to |-> [Blank EXCEPT !.ops = ops'], push |-> TRUE,
                        latest |-> FALSE, no |-> taps']}
    /\ UNCHANGED <<look, marks, bitmap, cache, historyVars, restoring, settling>>

\* clearPixelEdits: the image itself needs no computation.
ClearPixelEdits ==
    /\ ops # <<>> /\ Tap
    /\ ops' = <<>> /\ bitmap' = <<>>
    /\ PushIf(Quiet, Snapshot(look, marks, <<>>))
    /\ UNCHANGED <<look, marks, cache, restoring, jobs, settling>>

Undo ==
    /\ pos > 1 /\ Tap
    /\ pos' = pos - 1
    /\ Restore(history[pos - 1], FALSE)
    /\ UNCHANGED history

Redo ==
    /\ pos < Len(history) /\ Tap
    /\ pos' = pos + 1
    /\ Restore(history[pos + 1], FALSE)
    /\ UNCHANGED history

\* resetAll, to the state the image was opened in.
ResetAll ==
    /\ pos > 1 /\ Tap
    /\ Restore(Blank, TRUE)
-----------------------------------------------------------------------------
\* What comes later.

\* historyChange$ after its pause; what it finds while a state is being restored
\* is never recorded.
Settle ==
    /\ settling /\ settling' = FALSE
    /\ PushIf(Quiet, OnCanvas)
    /\ NoTap /\ UNCHANGED <<look, marks, ops, bitmap, cache, restoring, jobs>>

\* setOps of an operation goes on: the bitmap is shown even if the list of
\* operations has changed since, and the state there is now is recorded.
OpComputed(j) ==
    /\ j.stage = "op"
    /\ bitmap' = j.to.ops /\ cache' = Cached(j.to.ops)
    /\ jobs' = jobs \ {j}
    /\ PushIf(Quiet, OnCanvas)
    /\ NoTap /\ UNCHANGED <<look, marks, ops, restoring, settling>>

\* The end of restore: only the latest one ends restoring.
EndRestore(j, m) ==
    /\ jobs' = jobs \ {j}
    /\ restoring' = (restoring /\ ~j.latest)
    /\ marks' = m
    /\ PushIf(j.push /\ ~restoring', Snapshot(look, m, ops))

\* restore goes on once it has its bitmap, shown even if it was overtaken.
BitmapRestored(j) ==
    /\ j.stage = "ops"
    /\ bitmap' = j.to.ops /\ cache' = Cached(j.to.ops)
    /\ IF ~j.latest THEN EndRestore(j, marks)
       ELSE IF NothingToMake(j.to) THEN EndRestore(j, j.to.marks)
       ELSE /\ jobs' = (jobs \ {j}) \union {[j EXCEPT !.stage = "marks"]}
            /\ UNCHANGED <<marks, restoring, historyVars>>
    /\ NoTap /\ UNCHANGED <<look, ops, settling>>

\* Mutant of MarksRestored: marks come back although another restore was begun.
MarksRestoredLate(j) ==
    /\ j.stage = "marks"
    /\ EndRestore(j, j.to.marks)
    /\ NoTap /\ UNCHANGED <<look, ops, bitmap, cache, settling>>

\* restoreAnnotations goes on once it has the objects.
MarksRestored(j) ==
    /\ j.stage = "marks"
    /\ EndRestore(j, IF j.latest THEN j.to.marks ELSE marks)
    /\ NoTap /\ UNCHANGED <<look, ops, bitmap, cache, settling>>

\* Mutant of ComputationFails: restoring is not reset.
ComputationFailsRestoring(j) ==
    /\ faults < MaxFaults /\ faults' = faults + 1
    /\ jobs' = jobs \ {j}
    /\ UNCHANGED <<look, marks, ops, bitmap, cache, historyVars, restoring, settling, taps>>

\* A bitmap or an object cannot be made; restore has a `finally`.
ComputationFails(j) ==
    /\ faults < MaxFaults /\ faults' = faults + 1
    /\ jobs' = jobs \ {j}
    /\ restoring' = (restoring /\ ~j.latest)
    /\ UNCHANGED <<look, marks, ops, bitmap, cache, historyVars, settling, taps>>

CanvasGoesOn ==
    Settle \/ \E j \in jobs : OpComputed(j) \/ BitmapRestored(j) \/ MarksRestored(j)

CanvasTap ==
    EditMarks \/ EditMarksLater \/ EditLook \/ PushOp \/ ClearPixelEdits \/ Undo \/ Redo \/ ResetAll

CanvasNext == CanvasTap \/ CanvasGoesOn \/ \E j \in jobs : ComputationFails(j)
=============================================================================
