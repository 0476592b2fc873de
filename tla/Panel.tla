-------------------------------- MODULE Panel --------------------------------
(***************************************************************************)
(* The cursor, the visible window and the drawing of the CLEX panels       *)
(* (panel.c, the panel part of inout.c, the panel part of control_loop()   *)
(* in control.c, the handlers in select.c, sort.c and bookmarks.c that     *)
(* move the cursor themselves).                                            *)
(*                                                                         *)
(* A panel has extra lines -Extra .. -1 (the code's `min' is -Extra) and   *)
(* regular lines 0 .. cnt-1; the window shows the lines from `top' on.     *)
(* Modes nest: the panel on the top of `stack' is the global `panel', the  *)
(* panels below it are those of the control_loop() instances that wait.    *)
(*                                                                         *)
(* What has been drawn is state of its own: win_panel_opt() redraws only   *)
(* two rows, chosen by what a static copy remembers of the last drawing.   *)
(* A row shows nothing, or <<panel, line, cursor bar?, selection mark?>>.  *)
(*                                                                         *)
(* One action is one key press, a change of the window size or the end of  *)
(* a mode, with everything that the program does before it waits for the   *)
(* next key.                                                               *)
(***************************************************************************)
EXTENDS Integers, Sequences

CONSTANTS
  Panels,     \* panel descriptors (PANEL_DESC)
  First,      \* the panel that CLEX starts with
  Type,       \* Type[p]: the type of the panel, one of PanelTypes
  Extra,      \* Extra[p]: number of extra lines
  Counts,     \* Counts[p]: the numbers of regular lines that p may have
  PanLines,   \* the heights of the panel area that the terminal may have
  Depth       \* bound on the nesting of the modes

(* Only the types of panels with handlers of their own are told apart. *)
PanelTypes == {"FILE", "MENU", "SORT", "BM_MANAGER", "LIST"}

(* The panels that are prepared anew each time a mode with them begins. *)
Transient == {"SORT", "BM_MANAGER"}

ASSUME PanelsAssumption ==
  /\ First \in Panels
  /\ Type \in [Panels -> PanelTypes]
  /\ Extra \in [Panels -> Nat]
  /\ Counts \in [Panels -> SUBSET Nat]
  /\ \A p \in Panels : Counts[p] # {}

(* The sort panel has 13 lines; cx_sort_cycle_H() needs 11 of them. *)
ASSUME SortAssumption ==
  \A p \in Panels : Type[p] = "SORT" => \A c \in Counts[p] : c > 10

(* screen_draw_all() refuses windows that are too small. *)
ASSUME WindowAssumption == PanLines \subseteq Nat \ {0} /\ PanLines # {}

ASSUME DepthAssumption == Depth \in Nat \ {0}

VARIABLES
  pd,        \* the descriptors: cnt, top, curs and the marked lines
  stack,     \* the panels of the nested control loops, the active one last
  panlines,  \* display.panlines
  screen,    \* what the rows of the panel area show
  save,      \* the static save_top, save_curs, save_ptype of draw_panel()
  alive      \* FALSE: the program has read a line that does not exist

vars == <<pd, stack, panlines, screen, save, alive>>

-----------------------------------------------------------------------------
(* Descriptors *)

min(p) == -Extra[p]
LIMIT_MIN(x, bound) == IF x < bound THEN bound ELSE x
LIMIT_MAX(x, bound) == IF x > bound THEN bound ELSE x

VALID_CURSOR(d) == d.cnt > 0 /\ d.curs >= 0 /\ d.curs < d.cnt

(* Mutant: the window is moved before the cursor is brought into bounds,
   and the cursor follows the window. *)
pan_adjust_CursorFollows(p, d, n) ==
  LET top == LIMIT_MIN(LIMIT_MAX(d.top, d.cnt - n), min(p))
      curs == LIMIT_MIN(LIMIT_MAX(LIMIT_MIN(d.curs, top), top + n - 1), min(p))
  IN  [d EXCEPT !.top = top, !.curs = LIMIT_MAX(curs, LIMIT_MIN(d.cnt - 1, min(p)))]

(* Mutant: "bottom of the screen shouldn't be left blank" is forgotten. *)
pan_adjust_LeavesBlank(p, d, n) ==
  LET top == LIMIT_MIN(LIMIT_MAX(d.top, d.cnt - 1), min(p))
      curs == LIMIT_MIN(LIMIT_MAX(d.curs, d.cnt - 1), min(p))
      shown == IF top > curs \/ top <= curs - n THEN curs - n \div 3 ELSE top
  IN  [d EXCEPT !.top = LIMIT_MIN(shown, min(p)), !.curs = curs]

(* Mutant: the window may begin above the first line. *)
pan_adjust_NoTopLimit(p, d, n) ==
  LET top == LIMIT_MIN(LIMIT_MAX(d.top, d.cnt - 1), min(p))
      curs == LIMIT_MIN(LIMIT_MAX(d.curs, d.cnt - 1), min(p))
      shown == IF top > curs \/ top <= curs - n THEN curs - n \div 3 ELSE top
  IN  [d EXCEPT !.top = LIMIT_MAX(shown, d.cnt - n), !.curs = curs]

(* Brings the cursor and the window of descriptor d into bounds. *)
pan_adjust(p, d, n) ==
  LET top == LIMIT_MIN(LIMIT_MAX(d.top, d.cnt - 1), min(p))
      curs == LIMIT_MIN(LIMIT_MAX(d.curs, d.cnt - 1), min(p))
      shown == IF top > curs \/ top <= curs - n THEN curs - n \div 3 ELSE top
  IN  [d EXCEPT !.top = LIMIT_MIN(LIMIT_MAX(shown, d.cnt - n), min(p)),
                !.curs = curs]

-----------------------------------------------------------------------------
(* Drawing *)

Blank == <<>>

(* draw_panel_line(): what it writes for line ln ... *)
Drawn(p, d, ln) ==
  IF ln >= d.cnt THEN Blank ELSE <<p, ln, d.curs = ln, ln \in d.marks>>

(* ... and whether there is something to write.  Line numbers below zero
   index the array of extra lines. *)
Exists(p, d, ln) == ln < d.cnt => ln >= min(p)

(* draw_panel(0): the active panel p, with descriptor d, is drawn into n rows. *)
FullScreen(p, d, n) == [y \in 0 .. n - 1 |-> Drawn(p, d, d.top + y)]

win_panel(p, d, n) ==
  /\ screen' = FullScreen(p, d, n)
  /\ save' = [top |-> d.top, curs |-> d.curs, type |-> Type[p]]
  /\ alive' = \A y \in 0 .. n - 1 : Exists(p, d, d.top + y)

(* Mutant: the row that the cursor has left is not redrawn. *)
TwoRows_NewOnly(p, d) == {d.curs}

(* The lines that draw_panel(1) redraws: the old and the new current line. *)
TwoRows(p, d) == {save.curs, d.curs}

(* draw_panel(1): only if the window has not moved since the last drawing. *)
win_panel_opt(p, d) ==
  IF save.type # Type[p] \/ save.top # d.top
  THEN win_panel(p, d, panlines)
  ELSE /\ screen' = [y \in DOMAIN screen |->
                       IF d.top + y \in TwoRows(p, d)
                       THEN Drawn(p, d, d.top + y) ELSE screen[y]]
       /\ save' = [save EXCEPT !.curs = d.curs]
       /\ alive' = \A ln \in TwoRows(p, d) : Exists(p, d, ln)

-----------------------------------------------------------------------------
(* Keys that move the cursor in any panel: tab_panel *)

active == stack[Len(stack)]
here == pd[active]

(* A handler leaves descriptor d and calls win_panel_opt(). *)
Shows(d) ==
  /\ pd' = [pd EXCEPT ![active] = d]
  /\ win_panel_opt(active, d)
  /\ UNCHANGED <<stack, panlines>>

(* The same with win_panel(). *)
ShowsAll(d) ==
  /\ pd' = [pd EXCEPT ![active] = d]
  /\ win_panel(active, d, panlines)
  /\ UNCHANGED <<stack, panlines>>

(* LIMIT_MIN(panel->top,panel->curs - display.panlines + 1) *)
FollowDown(d) == [d EXCEPT !.top = LIMIT_MIN(@, d.curs - panlines + 1)]

cx_pan_up ==
  /\ alive /\ here.curs > min(active)
  /\ Shows([here EXCEPT !.curs = @ - 1, !.top = LIMIT_MAX(@, here.curs - 1)])

cx_pan_down ==
  /\ alive /\ here.curs < here.cnt - 1
  /\ Shows(FollowDown([here EXCEPT !.curs = @ + 1]))

cx_pan_home ==
  /\ alive
  /\ Shows([here EXCEPT !.top = min(active), !.curs = min(active)])

cx_pan_end ==
  /\ alive
  /\ Shows(FollowDown([here EXCEPT !.curs = here.cnt - 1]))

(* Mutant: the cursor skips a page and one line more. *)
PageUp_TooFar(d) == LIMIT_MIN(d.curs - panlines - 1, min(active))

PageUp(d) == LIMIT_MIN(d.curs - panlines, min(active))

cx_pan_pgup ==
  /\ alive /\ here.curs > min(active)
  /\ IF here.curs > here.top
     THEN Shows([here EXCEPT !.curs = here.top])
     ELSE Shows([here EXCEPT !.curs = PageUp(here), !.top = PageUp(here)])

cx_pan_pgdown ==
  LET bottom == here.top + panlines - 1
      curs == IF here.curs < bottom THEN bottom ELSE here.curs + panlines
  IN  /\ alive /\ here.curs < here.cnt - 1
      /\ Shows(FollowDown([here EXCEPT !.curs = LIMIT_MAX(curs, here.cnt - 1)]))

-----------------------------------------------------------------------------
(* Handlers of one panel that move the cursor themselves *)

(* File panel: toggle the mark of the current file, cursor down. *)
cx_select_toggle ==
  LET d == [here EXCEPT !.marks =
              IF here.curs \in @ THEN @ \ {here.curs} ELSE @ \cup {here.curs}]
  IN  /\ alive /\ Type[active] = "FILE" /\ VALID_CURSOR(here)
      /\ IF here.curs < here.cnt - 1
         THEN Shows(FollowDown([d EXCEPT !.curs = @ + 1]))
         ELSE Shows(d)

(* Menus: callfn() sets the cursor to the line of the function that a key
   invokes; the function itself follows as a step of its own. *)
callfn ==
  /\ alive /\ Type[active] = "MENU"
  /\ \E in \in 0 .. here.cnt - 1 :
       /\ in # here.curs
       /\ Shows(pan_adjust(active, [here EXCEPT !.curs = in], panlines))

(* Sort panel: key H cycles through lines 8, 9 and 10. *)
cx_sort_cycle_H ==
  /\ alive /\ Type[active] = "SORT"
  /\ Shows([here EXCEPT !.curs = IF @ < 8 THEN 8 ELSE 8 + ((@ - 7) % 3)])

(* Bookmark manager: exchange the current bookmark with its neighbour. *)
cx_bm_mng_up ==
  /\ alive /\ Type[active] = "BM_MANAGER" /\ VALID_CURSOR(here)
  /\ here.curs # 0
  /\ ShowsAll([here EXCEPT !.curs = @ - 1])

cx_bm_mng_down ==
  /\ alive /\ Type[active] = "BM_MANAGER" /\ VALID_CURSOR(here)
  /\ here.curs # here.cnt - 1
  /\ ShowsAll([here EXCEPT !.curs = @ + 1])

cx_bm_mng_del ==
  LET d == [here EXCEPT !.cnt = @ - 1]
  IN  /\ alive /\ Type[active] = "BM_MANAGER" /\ VALID_CURSOR(here)
      /\ here.cnt - 1 \in Counts[active]
      /\ ShowsAll(IF d.curs = d.cnt
                  THEN pan_adjust(active, [d EXCEPT !.curs = @ - 1], panlines)
                  ELSE d)

(* The extra line -1: the list is read from its file again. *)
cx_bm_mng_revert ==
  /\ alive /\ Type[active] = "BM_MANAGER" /\ here.curs = -1
  /\ \E c \in Counts[active] : ShowsAll([here EXCEPT !.cnt = c])

(* The list is full when there is no larger count (BM_ENTRIES_LIMIT). *)
cx_bm_mng_new ==
  /\ alive /\ Type[active] = "BM_MANAGER"
  /\ here.cnt + 1 \in Counts[active]
  /\ ShowsAll(pan_adjust(active,
       [here EXCEPT !.curs = LIMIT_MIN(@, -1) + 1, !.cnt = @ + 1], panlines))

-----------------------------------------------------------------------------
(* Panels that get a new contents, modes, the size of the window *)

(* A listing, a filter or a help page gives panel q new lines, marks, a new
   cursor and a remembered window.  The cursor is found by name or
   remembered, so it may be out of bounds. *)
Listings(q) ==
  {d \in [cnt : Counts[q], top : {min(q), pd[q].top},
          curs : min(q) .. LIMIT_MIN(pd[q].cnt, 1), marks : {{}, pd[q].marks}] :
     d.marks \subseteq 0 .. d.cnt - 1}

(* What the preparation function of a mode leaves in its panel q. *)
Prepared(q) ==
  CASE Type[q] = "MENU" -> {pd[q]}
    [] Type[q] = "SORT" -> {[pd[q] EXCEPT !.top = min(q), !.curs = 0]}
    [] Type[q] = "BM_MANAGER" ->
         {[pd[q] EXCEPT !.cnt = c, !.top = min(q), !.curs = min(q)] : c \in Counts[q]}
    [] OTHER -> {pd[q]} \cup Listings(q)

(* filter_update(), list_directory(), changedir(), help pages: the active
   panel is adjusted and drawn. *)
Relist ==
  /\ alive /\ Type[active] \in {"FILE", "LIST"}
  /\ \E d \in Listings(active) : ShowsAll(pan_adjust(active, d, panlines))

(* list_both_directories(), changedir() from the main menu: the panel of a
   waiting mode changes, the active one is drawn. *)
RelistBelow ==
  /\ alive
  /\ \E i \in 1 .. Len(stack) - 1 : \E d \in Listings(stack[i]) :
       /\ Type[stack[i]] \in {"FILE", "LIST"}
       /\ pd' = [pd EXCEPT ![stack[i]] = d]
  /\ win_panel(active, here, panlines)
  /\ UNCHANGED <<stack, panlines>>

(* Mutant: the panel to return to is drawn as it is. *)
Enters_AsIs(rest, q, d) ==
  /\ pd' = [rest EXCEPT ![q] = d]
  /\ win_panel(q, d, panlines)
  /\ UNCHANGED panlines

(* Panel q becomes `panel': it is adjusted (the size of the window might
   have changed) and drawn.  `rest' are the descriptors of the others. *)
Enters(rest, q, d) ==
  /\ pd' = [rest EXCEPT ![q] = pan_adjust(q, d, panlines)]
  /\ win_panel(q, pan_adjust(q, d, panlines), panlines)
  /\ UNCHANGED panlines

Initial(p) ==
  [cnt |-> CHOOSE c \in Counts[p] : TRUE, top |-> min(p), curs |-> min(p),
   marks |-> {}]

(* The active panel is left; nothing reads a transient panel after that. *)
Left ==
  IF Type[active] \in Transient
  THEN [pd EXCEPT ![active] = Initial(active)] ELSE pd

(* control_loop(): a nested mode with panel q begins ... *)
BeginMode ==
  /\ alive /\ Len(stack) < Depth
  /\ \E q \in Panels \ {stack[i] : i \in DOMAIN stack} :
       /\ Type[q] # "FILE"
       /\ stack' = Append(stack, q)
       /\ \E d \in Prepared(q) : Enters(pd, q, d)

(* ... the mode passes control to another mode (next_mode); the outermost
   mode does so only when the two file panels are exchanged ... *)
ChangeMode ==
  /\ alive
  /\ \E q \in Panels \ {stack[i] : i \in DOMAIN stack} :
       /\ Type[q] = "FILE" <=> Type[active] = "FILE"
       /\ stack' = [stack EXCEPT ![Len(stack)] = q]
       /\ \E d \in Prepared(q) : Enters(Left, q, d)

(* ... the nested mode ends, the panel of the mode that waited is back. *)
EndMode ==
  /\ alive /\ Len(stack) > 1
  /\ stack' = SubSeq(stack, 1, Len(stack) - 1)
  /\ Enters(Left, stack[Len(stack) - 1], pd[stack[Len(stack) - 1]])

(* Mutant: the number of rows is updated after the panel has been drawn. *)
Resize_OldRows ==
  /\ alive
  /\ \E n \in PanLines :
       /\ n # panlines
       /\ panlines' = n
       /\ pd' = [pd EXCEPT ![active] = pan_adjust(active, here, panlines)]
       /\ win_panel(active, pan_adjust(active, here, panlines), panlines)
       /\ UNCHANGED stack

(* screen_draw_all() *)
Resize ==
  /\ alive
  /\ \E n \in PanLines :
       /\ n # panlines
       /\ panlines' = n
       /\ pd' = [pd EXCEPT ![active] = pan_adjust(active, here, n)]
       /\ win_panel(active, pan_adjust(active, here, n), n)
       /\ UNCHANGED stack

-----------------------------------------------------------------------------
(* The program has crashed. *)
Crashed == ~alive /\ UNCHANGED vars

Init ==
  /\ panlines \in PanLines
  /\ stack = <<First>>
  /\ pd = [p \in Panels |-> Initial(p)]
  /\ screen = FullScreen(First, Initial(First), panlines)
  /\ save = [top |-> min(First), curs |-> min(First), type |-> Type[First]]
  /\ alive = TRUE

Move == cx_pan_up \/ cx_pan_down \/ cx_pan_home \/ cx_pan_end
Page == cx_pan_pgup \/ cx_pan_pgdown
BmManager ==
  \/ cx_bm_mng_up \/ cx_bm_mng_down \/ cx_bm_mng_del \/ cx_bm_mng_new
  \/ cx_bm_mng_revert
Modes == BeginMode \/ ChangeMode \/ EndMode

Next ==
  \/ Move \/ Page \/ cx_select_toggle \/ callfn \/ cx_sort_cycle_H
  \/ BmManager \/ Relist \/ RelistBelow \/ Modes \/ Resize \/ Crashed

Spec == Init /\ [][Next]_vars

-----------------------------------------------------------------------------
(* Properties *)

(* Types: every descriptor is a PANEL_DESC, the stack of control loops names
   each panel at most once, the rows are those of the panel area. *)
TypeOK ==
  /\ panlines \in PanLines
  /\ stack \in Seq(Panels) /\ Len(stack) \in 1 .. Depth
  /\ \A i, j \in DOMAIN stack : stack[i] = stack[j] => i = j
  /\ pd \in [Panels -> [cnt : Nat, top : Int, curs : Int, marks : SUBSET Nat]]
  /\ \A p \in Panels : pd[p].cnt \in Counts[p]
  /\ DOMAIN screen = 0 .. panlines - 1
  /\ save \in [top : Int, curs : Int, type : PanelTypes]
  /\ alive \in BOOLEAN

(* The handlers that call pan_adjust(), or begin at the first line. *)
Adjusts ==
  \/ Relist \/ Modes \/ Resize \/ callfn \/ cx_bm_mng_new \/ cx_pan_home
  \/ cx_bm_mng_del /\ here.curs = here.cnt - 1

(* The cursor is on a line of the panel, and that line is in the window. *)
InWindow ==
  /\ here.curs \in min(active) .. LIMIT_MIN(here.cnt - 1, min(active))
  /\ here.curs \in here.top .. here.top + panlines - 1

(* Three handlers move the cursor without moving the window.  Every other
   key, mode and change of the window finds or brings the cursor into the
   window and leaves it there (pan_adjust(): "always in bounds", "cursor
   must be visible"), also when the cursor has been out of it before. *)
MovesAlone == cx_bm_mng_up \/ cx_bm_mng_down \/ cx_sort_cycle_H

CursorVisible ==
  [][alive' /\ ((InWindow /\ ~MovesAlone) \/ Adjusts) => InWindow']_vars

(* No row at the bottom of the window is blank while there are lines above
   the window that could fill it (the comment at the end of pan_adjust()).
   Two handlers shorten the list without moving the window; no other key,
   mode or change of the window leaves rows blank that were not. *)
Filled == here.top \in min(active) .. LIMIT_MIN(here.cnt - panlines, min(active))

Shortens == cx_bm_mng_del \/ cx_bm_mng_revert

NoBlankBottom == [][(Filled /\ ~Shortens) \/ Adjusts => Filled']_vars

(* The rows show what a complete redraw would show: the partial redraw of
   win_panel_opt() never leaves a stale cursor bar or selection mark, not
   even after a nested mode, a change of the window size or a cursor that
   has left the window. *)
ScreenCurrent == screen = FullScreen(active, here, panlines)

(* Every line that is drawn exists: draw_panel_extra_line() never indexes
   the array of extra lines below its first element, except that alt-End
   puts the cursor on line -1 of an empty panel without extra lines. *)
DrawsExistingLines == alive \/ (here.cnt = 0 /\ Extra[active] = 0)

(* A change of the window size and the return from a nested mode keep the
   cursor on its line; only a waiting panel whose lines were taken away gets
   another one. *)
CursorKept ==
  [][(Resize \/ EndMode) =>
       LET p == stack'[Len(stack')]
       IN  pd[p].curs < pd[p].cnt => pd'[p].curs = pd[p].curs]_vars

(* Paging shows every line: consecutive windows leave no line between them
   out, and a page key that is not ignored moves the cursor. *)
NoLineSkipped ==
  [][Page /\ InWindow =>
       /\ pd'[active].top - here.top \in -panlines .. panlines
       /\ pd'[active].curs # here.curs]_vars

=============================================================================
