------------------------------- MODULE EditLine -------------------------------
(***************************************************************************)
(* The command line of CLEX: the editing functions (edit.c), undo and redo *)
(* (undo.c) and the completion as far as it edits the line (completion.c). *)
(* One action is one round of the control loop (control.c): undo_before(), *)
(* the function of the key, undo_after().                                  *)
(*                                                                         *)
(* Characters are model values; all that matters is which of them is the   *)
(* space.  The state of a line is its text and the cursor.  The displayed  *)
(* part is not part of it: the functions compute it anew when they have    *)
(* moved the cursor (edit_adjust()), and this computation is checked for   *)
(* lines of all lengths.  The exception is a macro with "$c", which moves  *)
(* the cursor back after the computation.                                  *)
(***************************************************************************)
EXTENDS Integers, Sequences

CONSTANTS
  Chars,       \* characters that can be typed
  Space,       \* the space, one of them
  Separators,  \* characters between which completion looks for a word
  Slash,       \* the character that completion appends to a directory
  Texts,       \* texts inserted by one key: names, macros, completions
  Recalls,     \* lines recalled from the history
  MaxLen,      \* bound: the longest line
  Levels,      \* UNDO_LEVELS
  MergeLimit,  \* insertions that are longer than this together are not joined
  ScrCols,     \* columns of the screen
  OFFSET_STEP, \* the displayed part of a long line moves by multiples of it
  Areas,       \* the values of display.textline_area
  Prompts,     \* lengths of the prompt
  LongLine,    \* bound: the longest line in CursorOnScreen
  Unused       \* the contents of a slot that is not in use

ASSUME CharsAssumption == Space \in Separators /\ Separators \subseteq Chars
ASSUME TextsAssumption ==
  /\ MaxLen \in Nat
  /\ Texts \cup Recalls \subseteq Seq(Chars \cup {Slash})
  /\ \A t \in Recalls : Len(t) <= MaxLen
ASSUME LevelsAssumption ==
  Levels \in Nat \ {0} /\ MergeLimit \in Nat /\ ScrCols \in Nat
(* The narrowest screen holds the longest prompt and two steps more. *)
ASSUME AreasAssumption ==
  /\ OFFSET_STEP \in Nat \ {0} /\ LongLine \in Nat
  /\ Areas \subseteq Nat /\ Prompts \subseteq Nat
  /\ \A a \in Areas, p \in Prompts : p + OFFSET_STEP < a

VARIABLES
  line, curs,    \* the line: text and cursor, 0 .. Len(line)
  undo,          \* the ring of saved states
  undo_base,     \* index of the first entry
  undo_levels,   \* occupied entries for undo
  redo_levels,   \* entries usable for redo
  last_op,       \* last editing operation: code, pos, len
  mode,          \* "FILE", or the completion panel is displayed: "COMPL", or
                 \* "HIST" for lines from the history
  unseen         \* auxiliary: the line was changed without a record since
                 \* the newest record

linevars == <<line, curs>>
undovars == <<undo, undo_base, undo_levels, redo_levels, last_op, unseen>>
vars == <<linevars, undovars, mode>>

Here == [line |-> line, curs |-> curs]
(* pos and len are those of an insertion or a deletion, and 0 for every other
   operation, where nothing reads them. *)
Op(code, pos, len) == [code |-> code, pos |-> pos, len |-> len]
Fits(t) == Len(t.line) <= MaxLen

-----------------------------------------------------------------------------
(* Editing functions: the line t after the function. *)

To(t, c) == [t EXCEPT !.curs = c]

(* insert_space() and the copy into it *)
Inserted(t, s) ==
  [line |-> SubSeq(t.line, 1, t.curs) \o s
              \o SubSeq(t.line, t.curs + 1, Len(t.line)),
   curs |-> t.curs + Len(s)]

(* delete_chars(): n characters at the cursor *)
Deleted(t, n) ==
  [t EXCEPT !.line = SubSeq(t.line, 1, t.curs)
                       \o SubSeq(t.line, t.curs + n + 1, Len(t.line))]

(* edit_nu_putstr() *)
Put(s) == [line |-> s, curs |-> Len(s)]

SpaceAt(s, i) == i \in DOMAIN s /\ s[i] = Space

Least(S) == CHOOSE i \in S : \A j \in S : i <= j
Greatest(S) == CHOOSE i \in S : \A j \in S : i >= j

(* The beginnings of words, the ends of words, the positions from which only
   spaces follow to the next word. *)
WordStart(t) ==
  Greatest({i \in 0 .. t.curs :
              i = 0 \/ (SpaceAt(t.line, i) /\ ~SpaceAt(t.line, i + 1) /\ i < t.curs)})

WordEnd(s, c) == Least({i \in c .. Len(s) : i = Len(s) \/ SpaceAt(s, i + 1)})
NextWord(s, c) == Least({i \in c .. Len(s) : ~SpaceAt(s, i + 1)})

(* cx_edit_begin() ... cx_edit_w_right(): what a key makes of the cursor *)
Moves(t) ==
  {0, Len(t.line)}
    \cup (IF t.curs > 0 THEN {t.curs - 1, WordStart(t)} ELSE {})
    \cup (IF t.curs < Len(t.line)
          THEN {t.curs + 1, NextWord(t.line, WordEnd(t.line, t.curs))} ELSE {})
    \cup {IF t.curs > ScrCols THEN t.curs - ScrCols ELSE 0}
    \cup {IF t.curs + ScrCols < Len(t.line) THEN t.curs + ScrCols ELSE Len(t.line)}

cx_edit_backsp(t) == IF t.curs > 0 THEN Deleted(To(t, t.curs - 1), 1) ELSE t
cx_edit_delchar(t) == IF t.curs < Len(t.line) THEN Deleted(t, 1) ELSE t
cx_edit_delend(t) == Deleted(t, Len(t.line) - t.curs)
cx_edit_kill == Put(<<>>)

(* edit_w_del(): the word under the cursor and the spaces after it *)
edit_w_del(t) ==
  IF t.curs = Len(t.line) \/ SpaceAt(t.line, t.curs + 1) THEN t
  ELSE LET s == Greatest({i \in 0 .. t.curs : i = 0 \/ SpaceAt(t.line, i)})
       IN  Deleted(To(t, s), NextWord(t.line, WordEnd(t.line, t.curs)) - s)

-----------------------------------------------------------------------------
(* The displayed part *)

ROUND_UP(x) == ((x + OFFSET_STEP - 1) \div OFFSET_STEP) * OFFSET_STEP
ROUND_DOWN(x) == (x \div OFFSET_STEP) * OFFSET_STEP

(* Mutant: the position of the continuation mark is not reserved. *)
Screen_NoMark(size, c, area) == area

(* The last position for the cursor: one is reserved for the mark > unless
   the cursor is at the end of the line. *)
Screen(size, c, area) == IF c # size THEN area - 1 ELSE area

(* Blank space to the right of the text is used up in steps. *)
Filled(size, offset, area) ==
  LET delta == area - (1 + size - offset)
      o == offset - ROUND_DOWN(delta)
  IN  IF offset = 0 \/ delta < OFFSET_STEP THEN offset
      ELSE IF o < 0 THEN 0 ELSE o

(* edit_adjust(): the new offset of a line of this size, with the cursor
   at c. *)
edit_adjust(size, c, offset, area, promptlen) ==
  LET screen == Screen(size, c, area)
      left == IF offset > c THEN ROUND_DOWN(c) ELSE offset
      full == Filled(size, left, area)
      o == IF full = 0 /\ promptlen + c > screen THEN OFFSET_STEP ELSE full
      delta == 1 + c - o - screen
  IN  IF o # 0 /\ delta > 0 THEN o + ROUND_UP(delta) ELSE o

(* screen_refresh(): where the cursor is, behind the prompt or the mark <. *)
Position(c, offset, promptlen) ==
  IF offset # 0 THEN 1 + c - offset ELSE c + promptlen

-----------------------------------------------------------------------------
(* undo.c *)

(* cmp_strings(): l is s with n characters inserted at pos. *)
cmp_strings(s, l, pos, n) ==
  /\ pos >= 0
  /\ SubSeq(l, 1, pos) = SubSeq(s, 1, pos)
  /\ SubSeq(l, pos + n + 1, Len(l)) = SubSeq(s, pos + 1, Len(s))

(* tell_edit_op(): which operation turned b into a? *)
tell_edit_op(b, a) ==
  LET n == Len(a.line) - Len(b.line)
  IN  CASE a.line = b.line -> Op("NONE", 0, 0)
        [] n > 0 /\ cmp_strings(b.line, a.line, a.curs - n, n)
             -> Op("INS", a.curs - n, n)
        [] n < 0 /\ cmp_strings(a.line, b.line, a.curs, -n)
             -> Op("DEL", a.curs, -n)
        [] OTHER -> Op("CHANGE", 0, 0)

(* Mutant: the place of the insertions is not compared. *)
Merge_Anywhere(op) ==
  \/ op.code = "INS" /\ last_op.code = "INS" /\ op.len + last_op.len < MergeLimit
  \/ /\ op.code = "DEL" /\ last_op.code = "DEL"
     /\ op.len = 1 /\ last_op.len = 1
     /\ op.pos \in {last_op.pos, last_op.pos - 1}

(* Can this edit operation be merged with the previous one? *)
Merge(op) ==
  \/ /\ op.code = "INS" /\ last_op.code = "INS"
     /\ op.len + last_op.len < MergeLimit
     /\ op.pos = last_op.pos + last_op.len
  \/ /\ op.code = "DEL" /\ last_op.code = "DEL"
     /\ op.len = 1 /\ last_op.len = 1
     /\ op.pos \in {last_op.pos, last_op.pos - 1}

Slot(i) == (undo_base + i) % Levels

(* The slots that are in use when n of them are, from index b on; what the
   others hold is never read. *)
Kept(ring, b, n) ==
  [i \in 0 .. Levels - 1 |->
     IF (i - b + Levels) % Levels < n THEN ring[i] ELSE Unused]

(* Mutant: the counter is not limited. *)
LevelsAfter_Unlimited == undo_levels + 1

(* A full ring recycles its oldest entry. *)
LevelsAfter == IF undo_levels < Levels THEN undo_levels + 1 ELSE Levels

(* Mutant: the base is not moved. *)
BaseAfter_Fixed == undo_base

BaseAfter == IF undo_levels < Levels THEN undo_base ELSE (undo_base + 1) % Levels

(* undo_after(), with t the line after the operation *)
undo_after(t) ==
  LET op == tell_edit_op(Here, t)
  IN  IF op.code = "NONE" THEN UNCHANGED undovars
      ELSE /\ last_op' = op
           /\ redo_levels' = 0
           /\ IF Merge(op)
              THEN /\ undo' = Kept(undo, undo_base, undo_levels)
                   /\ UNCHANGED <<undo_base, undo_levels, unseen>>
              ELSE /\ undo' = Kept([undo EXCEPT ![Slot(undo_levels)] = Here],
                                   BaseAfter, LevelsAfter)
                   /\ undo_base' = BaseAfter
                   /\ undo_levels' = LevelsAfter
                   /\ unseen' = FALSE

(* undo_reset(): undo_base stays where it is. *)
undo_reset ==
  /\ last_op' = Op("NONE", 0, 0)
  /\ undo_levels' = 0 /\ redo_levels' = 0
  /\ undo' = Kept(undo, 0, 0)
  /\ unseen' = FALSE
  /\ UNCHANGED undo_base

(* undo_redo(): the line and the saved state change places. *)
Swap(i) ==
  /\ line' = undo[Slot(i)].line
  /\ curs' = undo[Slot(i)].curs
  /\ undo' = [undo EXCEPT ![Slot(i)] = Here]
  /\ last_op' = Op("CHANGE", 0, 0)
  /\ unseen' = FALSE
  /\ UNCHANGED undo_base

-----------------------------------------------------------------------------
(* Rounds of the control loop.  In the completion panel an editing key edits
   the line and closes the panel. *)

Becomes(t) == line' = t.line /\ curs' = t.curs

Edited(t) == Fits(t) /\ Becomes(t) /\ undo_after(t) /\ mode' = "FILE"

(* The nested control loop has left `disable' set: nothing is recorded. *)
Unrecorded(t) ==
  /\ Fits(t) /\ Becomes(t)
  /\ unseen' = (unseen \/ t.line # line)
  /\ UNCHANGED <<undo, undo_base, undo_levels, redo_levels, last_op>>

Move == \E c \in Moves(Here) : Edited(To(Here, c))

Insert == \E c \in Chars : Edited(Inserted(Here, <<c>>))

(* Pasting of names, macros of the function keys; "$c" is the place in the
   inserted text where the cursor stays. *)
InsertText ==
  \E s \in Texts : \E c \in curs .. curs + Len(s) : Edited(To(Inserted(Here, s), c))

Delete ==
  \E t \in {cx_edit_backsp(Here), cx_edit_delchar(Here), cx_edit_delend(Here),
            edit_w_del(Here), cx_edit_kill} : Edited(t)

(* ctrl-P, ctrl-N in the file panel *)
Recall == mode = "FILE" /\ \E s \in Recalls : Edited(Put(s))

(* <enter>: the command was executed, cx_edit_kill() and undo_reset(). *)
cx_files_enter ==
  /\ mode = "FILE" /\ line # <<>>
  /\ Becomes(cx_edit_kill)
  /\ undo_reset
  /\ UNCHANGED mode

cx_undo ==
  /\ undo_levels > 0
  /\ Swap(undo_levels - 1)
  /\ undo_levels' = undo_levels - 1
  /\ redo_levels' = redo_levels + 1
  /\ mode' = "FILE"

cx_redo ==
  /\ redo_levels > 0
  /\ Swap(undo_levels)
  /\ undo_levels' = undo_levels + 1
  /\ redo_levels' = redo_levels - 1
  /\ mode' = "FILE"

(* compl_file(): the word around the cursor, and the cursor at its end. *)
InWord ==
  \/ curs > 0 /\ line[curs] \notin Separators
  \/ curs < Len(line) /\ line[curs + 1] \notin Separators

EndOfWord(s, c) == Least({i \in c .. Len(s) : i = Len(s) \/ s[i + 1] \in Separators})
AtWordEnd == To(Here, EndOfWord(line, curs))

(* Lines from the history complete the whole line. *)
AtLineEnd == To(Here, Len(line))

(* insert_candidate(): the rest of the name, and a slash or a space; a space
   that is already there is skipped. *)
insert_candidate(t, s) ==
  LET u == Inserted(t, s)
  IN  {Inserted(u, <<Slash>>),
       IF SpaceAt(u.line, u.curs + 1) THEN To(u, u.curs + 1)
       ELSE Inserted(u, <<Space>>)}

Rests == Texts \cup {<<>>}

(* show_results() with one candidate, and with more than the panel holds:
   then the common part of all candidates is inserted. *)
CompleteAtOnce ==
  /\ mode = "FILE"
  /\ \E s \in Rests :
       \/ InWord /\ \E t \in insert_candidate(AtWordEnd, s)
                            \cup {Inserted(AtWordEnd, s)} : Edited(t)
       \/ line # <<>> /\ Edited(Inserted(AtLineEnd, s))

(* show_results() with several candidates: the common part is inserted and
   the completion panel opens in a nested control loop. *)
OpenCompletion ==
  /\ mode = "FILE"
  /\ \E s \in Rests :
       \/ InWord /\ Unrecorded(Inserted(AtWordEnd, s)) /\ mode' = "COMPL"
       \/ line # <<>> /\ Unrecorded(Inserted(AtLineEnd, s)) /\ mode' = "HIST"

cx_compl_complete ==
  \E s \in Rests :
    \/ mode = "COMPL" /\ \E t \in insert_candidate(Here, s) : Edited(t)
    \/ mode = "HIST" /\ Edited(Inserted(Here, s))

(* ctrl-C in the completion panel *)
CancelCompletion ==
  /\ mode # "FILE"
  /\ mode' = "FILE"
  /\ UNCHANGED <<linevars, undovars>>

-----------------------------------------------------------------------------
Init ==
  /\ line = <<>> /\ curs = 0
  /\ undo = [i \in 0 .. Levels - 1 |-> Unused]
  /\ undo_base = 0 /\ undo_levels = 0 /\ redo_levels = 0
  /\ last_op = Op("NONE", 0, 0)
  /\ mode = "FILE"
  /\ unseen = FALSE

Next ==
  \/ Move \/ Insert \/ InsertText \/ Delete \/ Recall
  \/ cx_files_enter
  \/ cx_undo \/ cx_redo
  \/ CompleteAtOnce \/ OpenCompletion \/ cx_compl_complete \/ CancelCompletion

Spec == Init /\ [][Next]_vars

-----------------------------------------------------------------------------
(* Properties *)

(* The states that undo and redo go to, in the order of the walk. *)
Past == [i \in 1 .. undo_levels |-> undo[Slot(i - 1)]]
Future == [i \in 1 .. redo_levels |-> undo[Slot(undo_levels + i - 1)]]

Lines == UNION {[1 .. n -> Chars \cup {Slash}] : n \in 0 .. MaxLen}
LineStates ==
  UNION {[line : {t}, curs : 0 .. Len(t)] : t \in Lines}

(***************************************************************************)
(* The ring of snapshots with its three counters implements a walk along   *)
(* the states of the line: undo restores text and cursor, redo returns to  *)
(* what the undo left, a new edit forgets what lies ahead and never what   *)
(* lies behind, but for the oldest state when the ring is full (undo.c).   *)
(***************************************************************************)
Walk == INSTANCE UndoStack
          WITH States <- LineStates, now <- Here, past <- Past, future <- Future
ImplementsUndo == Walk!UndoSpec

(***************************************************************************)
(* However many edits were joined, what one undo takes back is one piece   *)
(* of text inserted in, or one piece deleted from, the saved line          *)
(* (undo_after()), unless a nested mode changed the line meanwhile.        *)
(***************************************************************************)
JoinedEditsAreOne ==
  (undo_levels > 0 /\ ~unseen) =>
    LET saved == undo[Slot(undo_levels - 1)].line
        n == Len(line) - Len(saved)
    IN  CASE last_op.code = "INS" ->
               n > 0 /\ cmp_strings(saved, line, last_op.pos + last_op.len - n, n)
          [] last_op.code = "DEL" -> n < 0 /\ cmp_strings(line, saved, last_op.pos, -n)
          [] OTHER -> TRUE

(***************************************************************************)
(* Wherever the cursor goes in a line of any length, whatever part of it   *)
(* was displayed before, on a window of any size: edit_adjust() leaves the *)
(* cursor behind the prompt or the mark < and before the mark >, and the   *)
(* offset a multiple of the step.  (The lines are those of the CONSTANTS,  *)
(* not those of the state: it is enough to look at them in a few states.)  *)
(***************************************************************************)
CursorOnScreen ==
  undo_levels + redo_levels = 0 /\ line = <<>> =>
  \A area \in Areas, p \in Prompts, size \in 0 .. LongLine :
    \A c \in 0 .. size, k \in 0 .. LongLine \div OFFSET_STEP + 1 :
      LET o == edit_adjust(size, c, k * OFFSET_STEP, area, p)
      IN  /\ o >= 0 /\ o % OFFSET_STEP = 0
          /\ Position(c, o, p) \in (IF o = 0 THEN p ELSE 1)
                                     .. (IF c = size THEN area ELSE area - 1)

(* The counters stay in the ring, and no slot in use is stale. *)
TypeOK ==
  /\ line \in Lines /\ curs \in 0 .. Len(line)
  /\ undo_base \in 0 .. Levels - 1
  /\ undo_levels \in 0 .. Levels /\ redo_levels \in 0 .. Levels - undo_levels
  /\ \A i \in 0 .. Levels - 1 :
       undo[Slot(i)] \in IF i < undo_levels + redo_levels THEN LineStates ELSE {Unused}
  /\ mode \in {"FILE", "COMPL", "HIST"}
=============================================================================
