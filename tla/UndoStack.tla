------------------------------ MODULE UndoStack ------------------------------
(***************************************************************************)
(* What undo and redo promise to the one who edits: the states that were   *)
(* recorded, in order, of which the last of `past` is the current one, and *)
(* those that were undone, the next to redo first.  An editor that is not  *)
(* open has none.                                                          *)
(***************************************************************************)
EXTENDS Integers, Sequences

CONSTANTS State, Limit

VARIABLES past, future

Init == past = <<>> /\ future = <<>>

Open == Len(past') = 1 /\ future' = <<>>
Close == past' = <<>> /\ future' = <<>>

\* A new state ends what could be redone; the oldest one is forgotten when
\* there are too many.
Record ==
    /\ past # <<>> /\ past' # <<>>
    /\ LET new == past'[Len(past')]
       IN  past' = Append(IF Len(past) < Limit THEN past ELSE Tail(past), new)
    /\ future' = <<>>

\* The first state that is left is never undone.
Undo ==
    /\ Len(past) > 1
    /\ past' = SubSeq(past, 1, Len(past) - 1)
    /\ future' = <<past[Len(past)]>> \o future

Redo ==
    /\ future # <<>>
    /\ past' = Append(past, Head(future))
    /\ future' = Tail(future)

Next == /\ past' \in Seq(State)
        /\ Open \/ Close \/ Record \/ Undo \/ Redo

Spec == Init /\ [][Next]_<<past, future>>
=============================================================================
