------------------------------ MODULE UndoStack ------------------------------
(***************************************************************************)
(* What undo and redo promise: the states of an edited line form a path,   *)
(* and the user walks back and forth along it, at most `Levels' steps      *)
(* back.  A new edit cuts off the states ahead.                            *)
(***************************************************************************)
EXTENDS Integers, Sequences

CONSTANTS
  States,   \* states of the line: its text and the cursor
  Levels    \* the number of steps that can be undone

VARIABLES
  now,      \* the line
  past,     \* the states that undo goes back to, the next one last
  future    \* the states that redo goes to, the next one first

Newest(s) == IF Len(s) > Levels THEN Tail(s) ELSE s

(* An edit: the state before it can be restored, or the edit continues the
   last one and is undone together with it. *)
Edit ==
  /\ now' \in States
  /\ future' = <<>>
  /\ \/ past' = Newest(Append(past, now))
     \/ past # <<>> /\ past' = past

Undo ==
  /\ past # <<>>
  /\ now' = past[Len(past)]
  /\ past' = SubSeq(past, 1, Len(past) - 1)
  /\ future' = <<now>> \o future

Redo ==
  /\ future # <<>>
  /\ now' = Head(future)
  /\ past' = Append(past, now)
  /\ future' = Tail(future)

(* A movement of the cursor, or a change made on behalf of a nested mode. *)
Unrecorded == now' \in States /\ UNCHANGED <<past, future>>

(* The line is put to another use. *)
Reset == now' \in States /\ past' = <<>> /\ future' = <<>>

UndoInit == now \in States /\ past = <<>> /\ future = <<>>

UndoNext == Edit \/ Undo \/ Redo \/ Unrecorded \/ Reset

UndoSpec == UndoInit /\ [][UndoNext]_<<now, past, future>>
=============================================================================
