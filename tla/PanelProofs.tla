----------------------------- MODULE PanelProofs ------------------------------
(***************************************************************************)
(* Theorems about module Panel, for any set of panels, any numbers of      *)
(* lines and any sizes of the window.                                      *)
(*                                                                         *)
(* The invariant: the descriptor of the active panel is Placed, i.e. its   *)
(* cursor and its window do not begin above the first line and the cursor  *)
(* is not below the last one, and the rows and the memory of draw_panel()  *)
(* agree with the descriptor, so redrawing two rows is enough as long as   *)
(* the window has not moved.  The cursor need not be in the window.  That  *)
(* the handlers keep or bring it there, and leave no row blank without     *)
(* need, is shown step by step: pan_adjust() makes any descriptor Good.    *)
(***************************************************************************)
EXTENDS Panel, TLAPS

Descriptor(p) == [cnt : Counts[p], top : Int, curs : Int, marks : SUBSET Nat]

Placed(p, d) ==
  /\ d.curs \in min(p) .. LIMIT_MIN(d.cnt - 1, min(p))
  /\ d.top >= min(p)

(* The conditions InWindow and Filled, for any panel and descriptor. *)
CursorIn(p, d, n) ==
  /\ d.curs \in min(p) .. LIMIT_MIN(d.cnt - 1, min(p))
  /\ d.curs \in d.top .. d.top + n - 1

NoBlank(p, d, n) == d.top \in min(p) .. LIMIT_MIN(d.cnt - n, min(p))

Good(p, d, n) == CursorIn(p, d, n) /\ NoBlank(p, d, n)

(* What draw_panel() remembers, and what it has drawn. *)
Remembered(p, d) == [top |-> d.top, curs |-> d.curs, type |-> Type[p]]

DescriptorsTyped(ds) ==
  /\ ds \in [Panels -> [cnt : Nat, top : Int, curs : Int, marks : SUBSET Nat]]
  /\ \A p \in Panels : ds[p].cnt \in Counts[p]

Typed ==
  /\ panlines \in PanLines
  /\ stack \in Seq(Panels) /\ Len(stack) \in 1 .. Depth
  /\ \A i, j \in DOMAIN stack : stack[i] = stack[j] => i = j
  /\ DescriptorsTyped(pd)
  /\ alive \in BOOLEAN

(* The cursors of the panels that wait may be below their last line, but not
   above the first: that is what EndMode relies on. *)
BelowTop(ds) == \A p \in Panels : ds[p].curs >= min(p)

Inv ==
  /\ Typed
  /\ alive => Placed(active, here) /\ BelowTop(pd)
  /\ ~alive => here.cnt = 0 /\ Extra[active] = 0
  /\ save = Remembered(active, here)
  /\ screen = FullScreen(active, here, panlines)

USE DEF LIMIT_MIN, LIMIT_MAX

-----------------------------------------------------------------------------
(* Lemmas about descriptors *)

LEMMA Constants ==
  ASSUME NEW p \in Panels
  PROVE  /\ min(p) \in Int /\ min(p) <= 0
         /\ Counts[p] \subseteq Nat
         /\ Type[p] \in PanelTypes
         /\ PanLines \subseteq Nat \ {0}
  BY PanelsAssumption, WindowAssumption DEF min

LEMMA Third ==
  ASSUME NEW n \in Nat \ {0}
  PROVE  n \div 3 \in Nat /\ n \div 3 < n
  OBVIOUS

(* pan_adjust() makes any descriptor Good and changes only cursor and window. *)
LEMMA Adjusted ==
  ASSUME NEW p \in Panels, NEW d \in Descriptor(p), NEW n \in Nat \ {0}
  PROVE  /\ pan_adjust(p, d, n) \in Descriptor(p)
         /\ Good(p, pan_adjust(p, d, n), n)
         /\ pan_adjust(p, d, n).cnt = d.cnt
         /\ pan_adjust(p, d, n).marks = d.marks
  <1>1. d.cnt \in Nat /\ d.top \in Int /\ d.curs \in Int /\ d.cnt \in Counts[p]
    BY Constants DEF Descriptor
  <1>2. min(p) \in Int /\ min(p) <= 0
    BY Constants
  <1>3. n \div 3 \in Nat /\ n \div 3 < n
    BY Third
  <1> DEFINE top == LIMIT_MIN(LIMIT_MAX(d.top, d.cnt - 1), min(p))
             curs == LIMIT_MIN(LIMIT_MAX(d.curs, d.cnt - 1), min(p))
             shown == IF top > curs \/ top <= curs - n THEN curs - n \div 3 ELSE top
             final == LIMIT_MIN(LIMIT_MAX(shown, d.cnt - n), min(p))
  <1>4. pan_adjust(p, d, n) = [d EXCEPT !.top = final, !.curs = curs]
    BY DEF pan_adjust
  <1>5. top \in Int /\ curs \in Int /\ curs >= min(p)
        /\ curs <= LIMIT_MIN(d.cnt - 1, min(p))
    BY <1>1, <1>2
  <1>6. shown \in Int /\ shown <= curs /\ shown > curs - n
    <2> HIDE DEF top, curs
    <2> QED BY <1>3, <1>5
  <1>7. /\ final \in Int
        /\ final \in min(p) .. LIMIT_MIN(d.cnt - n, min(p))
        /\ final <= curs /\ curs <= final + n - 1
    <2> HIDE DEF top, curs, shown
    <2> QED BY <1>1, <1>2, <1>5, <1>6
  <1> HIDE DEF top, curs, shown, final
  <1>8. [d EXCEPT !.top = final, !.curs = curs] \in Descriptor(p)
    BY <1>5, <1>7 DEF Descriptor
  <1>9. /\ [d EXCEPT !.top = final, !.curs = curs].top = final
        /\ [d EXCEPT !.top = final, !.curs = curs].curs = curs
        /\ [d EXCEPT !.top = final, !.curs = curs].cnt = d.cnt
        /\ [d EXCEPT !.top = final, !.curs = curs].marks = d.marks
    BY DEF Descriptor
  <1> QED
    BY <1>1, <1>2, <1>4, <1>5, <1>7, <1>8, <1>9 DEF Good, CursorIn, NoBlank

(* The conditions as inequalities. *)
LEMMA Bounds ==
  ASSUME NEW p \in Panels, NEW d \in Descriptor(p), NEW n \in Nat \ {0}
  PROVE  /\ d.cnt \in Nat /\ d.top \in Int /\ d.curs \in Int
         /\ min(p) \in Int /\ min(p) <= 0
         /\ Placed(p, d) <=> /\ min(p) <= d.top /\ min(p) <= d.curs
                             /\ d.curs < d.cnt \/ d.curs = min(p)
         /\ CursorIn(p, d, n) <=>
              /\ min(p) <= d.curs /\ (d.curs < d.cnt \/ d.curs = min(p))
              /\ d.top <= d.curs /\ d.curs < d.top + n
         /\ NoBlank(p, d, n) <=>
              min(p) <= d.top /\ (d.top + n <= d.cnt \/ d.top = min(p))
  <1>1. /\ d.cnt \in Nat /\ d.top \in Int /\ d.curs \in Int
        /\ min(p) \in Int /\ min(p) <= 0
    BY Constants DEF Descriptor
  <1>2. Placed(p, d) <=> /\ min(p) <= d.top /\ min(p) <= d.curs
                         /\ d.curs < d.cnt \/ d.curs = min(p)
    BY <1>1 DEF Placed
  <1>3. CursorIn(p, d, n) <=>
          /\ min(p) <= d.curs /\ (d.curs < d.cnt \/ d.curs = min(p))
          /\ d.top <= d.curs /\ d.curs < d.top + n
    BY <1>1 DEF CursorIn
  <1>4. NoBlank(p, d, n) <=>
          min(p) <= d.top /\ (d.top + n <= d.cnt \/ d.top = min(p))
    BY <1>1 DEF NoBlank
  <1> QED BY <1>1, <1>2, <1>3, <1>4

LEMMA GoodIsPlaced ==
  ASSUME NEW p \in Panels, NEW d \in Descriptor(p), NEW n \in Nat \ {0},
         Good(p, d, n)
  PROVE  Placed(p, d)
  BY Bounds DEF Good

-----------------------------------------------------------------------------
(* Lemmas about the drawing *)

LEMMA DrawnAll ==
  ASSUME NEW p \in Panels, NEW d \in Descriptor(p), NEW n \in Nat \ {0},
         win_panel(p, d, n)
  PROVE  /\ d.top >= min(p) => alive' = TRUE
         /\ save' = Remembered(p, d)
         /\ screen' = FullScreen(p, d, n)
  <1>1. ASSUME d.top >= min(p), NEW y \in 0 .. n - 1
        PROVE  Exists(p, d, d.top + y)
    BY <1>1, Bounds DEF Exists
  <1> QED
    BY <1>1 DEF win_panel, Remembered

(* A key may move the cursor and change the mark of the line that the cursor
   was on: then redrawing two rows is as good as redrawing all of them. *)
LEMMA DrawnTwo ==
  ASSUME Inv, alive, active \in Panels, panlines \in Nat \ {0},
         here \in Descriptor(active), NEW d \in Descriptor(active),
         d.top >= min(active), d.cnt = here.cnt,
         \A ln \in Int : ln # here.curs => (ln \in d.marks <=> ln \in here.marks),
         win_panel_opt(active, d)
  PROVE  /\ d.curs >= min(active) => alive' = TRUE
         /\ save' = Remembered(active, d)
         /\ screen' = FullScreen(active, d, panlines)
  <1>1. /\ here.curs >= min(active)
        /\ save = Remembered(active, here)
        /\ screen = FullScreen(active, here, panlines)
    BY Bounds DEF Inv
  <1>2. save.type = Type[active] /\ save.top = here.top /\ save.curs = here.curs
    BY <1>1 DEF Remembered
  <1>3. CASE here.top # d.top
    BY <1>2, <1>3, DrawnAll DEF win_panel_opt
  <1>4. CASE here.top = d.top
    <2>1. /\ screen' = [y \in DOMAIN screen |->
                          IF d.top + y \in TwoRows(active, d)
                          THEN Drawn(active, d, d.top + y) ELSE screen[y]]
          /\ save' = [save EXCEPT !.curs = d.curs]
          /\ alive' = \A ln \in TwoRows(active, d) : Exists(active, d, ln)
      BY <1>2, <1>4 DEF win_panel_opt
    <2>2. TwoRows(active, d) = {here.curs, d.curs}
      BY <1>2 DEF TwoRows
    <2>3. d.curs >= min(active) => alive' = TRUE
      BY <1>1, <2>1, <2>2 DEF Exists
    <2>4. save' = Remembered(active, d)
      BY <1>1, <1>4, <2>1 DEF Remembered
    <2>5. ASSUME NEW y \in 0 .. panlines - 1
          PROVE  (IF d.top + y \in TwoRows(active, d)
                  THEN Drawn(active, d, d.top + y) ELSE screen[y])
                 = Drawn(active, d, d.top + y)
      <3>1. screen[y] = Drawn(active, here, d.top + y)
        BY <1>1, <1>4 DEF FullScreen
      <3>2. d.top + y \in Int
        BY Bounds
      <3>3. CASE d.top + y \notin TwoRows(active, d)
        BY <2>2, <3>1, <3>2, <3>3 DEF Drawn
      <3> QED BY <3>3
    <2>6. DOMAIN screen = 0 .. panlines - 1
      BY <1>1 DEF FullScreen
    <2>7. screen' = FullScreen(active, d, panlines)
      BY <2>1, <2>5, <2>6 DEF FullScreen
    <2> QED BY <2>3, <2>4, <2>7
  <1> QED BY <1>3, <1>4

-----------------------------------------------------------------------------
(* The active panel *)

LEMMA Active ==
  ASSUME Typed
  PROVE  /\ active \in Panels
         /\ panlines \in Nat \ {0} /\ panlines \in PanLines
         /\ here \in Descriptor(active)
  BY WindowAssumption, DepthAssumption
     DEF Typed, DescriptorsTyped, Descriptor, active, here

(* The descriptor of the active panel as long as the program runs. *)
LEMMA Here ==
  ASSUME Inv, alive
  PROVE  /\ active \in Panels /\ panlines \in Nat \ {0} /\ panlines \in PanLines
         /\ here \in Descriptor(active)
         /\ here.cnt \in Nat /\ here.top \in Int /\ here.curs \in Int
         /\ min(active) \in Int /\ min(active) <= 0
         /\ min(active) <= here.top /\ min(active) <= here.curs
         /\ here.curs < here.cnt \/ here.curs = min(active)
         /\ InWindow => here.top <= here.curs /\ here.curs < here.top + panlines
         /\ Filled => here.top + panlines <= here.cnt \/ here.top = min(active)
  <1>1. /\ active \in Panels /\ panlines \in Nat \ {0} /\ panlines \in PanLines
        /\ here \in Descriptor(active) /\ Placed(active, here)
    BY Active DEF Inv
  <1>2. /\ InWindow <=> CursorIn(active, here, panlines)
        /\ Filled <=> NoBlank(active, here, panlines)
    BY DEF InWindow, CursorIn, Filled, NoBlank
  <1> QED BY <1>1, <1>2, Bounds

(* The descriptor of panel p becomes d. *)
LEMMA Replaced ==
  ASSUME NEW ds, DescriptorsTyped(ds), NEW p \in Panels, NEW d \in Descriptor(p)
  PROVE  LET es == [ds EXCEPT ![p] = d]
         IN  /\ DescriptorsTyped(es)
             /\ es[p] = d /\ \A q \in Panels \ {p} : es[q] = ds[q]
             /\ BelowTop(ds) /\ d.curs >= min(p) => BelowTop(es)
  <1>. DEFINE es == [ds EXCEPT ![p] = d]
  <1>1. d \in [cnt : Nat, top : Int, curs : Int, marks : SUBSET Nat]
        /\ d.cnt \in Counts[p]
    BY Constants DEF Descriptor
  <1>2. es[p] = d /\ \A q \in Panels \ {p} : es[q] = ds[q]
    BY DEF DescriptorsTyped
  <1>3. DescriptorsTyped(es)
    BY <1>1 DEF DescriptorsTyped
  <1>4. BelowTop(ds) /\ d.curs >= min(p) => BelowTop(es)
    BY <1>2 DEF BelowTop
  <1> QED BY <1>2, <1>3, <1>4

(* After a step that leaves the active panel q with descriptor d, in n rows. *)
Reached(q, d, n) ==
  /\ Inv'
  /\ CursorIn(q, d, n) => InWindow'
  /\ NoBlank(q, d, n) => Filled'

(* What the steps promise: a key keeps the cursor in the window and the rows
   filled, pan_adjust() makes both so. *)
Kept == Inv' /\ (alive' /\ InWindow => InWindow') /\ (Filled => Filled')
Fitted == Inv' /\ InWindow' /\ Filled'

LEMMA ReachedGood ==
  ASSUME NEW q, NEW d, NEW n, Reached(q, d, n), Good(q, d, n)
  PROVE  Fitted
  BY DEF Reached, Good, Fitted

LEMMA Arrived ==
  ASSUME NEW q \in Panels, NEW d \in Descriptor(q), NEW n \in Nat \ {0},
         Placed(q, d) \/ ~alive', active' = q, here' = d, panlines' = n, Typed',
         alive' => BelowTop(pd'),
         ~alive' => d.cnt = 0 /\ Extra[q] = 0,
         save' = Remembered(q, d), screen' = FullScreen(q, d, n)
  PROVE  Reached(q, d, n)
  <1>1. Inv'
    BY DEF Inv, Placed, BelowTop, Remembered, FullScreen, Drawn, min
  <1>2. CursorIn(q, d, n) => InWindow'
    BY DEF CursorIn, InWindow, min
  <1>3. NoBlank(q, d, n) => Filled'
    BY DEF NoBlank, Filled, min
  <1> QED BY <1>1, <1>2, <1>3 DEF Reached

(* The active panel stays, its descriptor becomes d. *)
LEMMA Restored ==
  ASSUME Inv, alive, NEW d \in Descriptor(active),
         pd' = [pd EXCEPT ![active] = d], UNCHANGED <<stack, panlines>>,
         \/ Placed(active, d) /\ alive' = TRUE
         \/ d.cnt = 0 /\ Extra[active] = 0 /\ alive' = FALSE,
         save' = Remembered(active, d),
         screen' = FullScreen(active, d, panlines)
  PROVE  Reached(active, d, panlines)
  <1>1. /\ active \in Panels /\ panlines \in Nat \ {0}
        /\ DescriptorsTyped(pd) /\ BelowTop(pd)
    BY Active DEF Inv, Typed
  <1>. DEFINE es == [pd EXCEPT ![active] = d]
  <1>2. DescriptorsTyped(es)
    BY <1>1, Replaced
  <1>3. es[active] = d
    BY <1>1, Replaced
  <1>4. d.curs >= min(active) => BelowTop(es)
    BY <1>1, Replaced
  <1>. HIDE DEF es
  <1>5. pd' = es
    BY DEF es
  <1>6. active' = active /\ here' = d
    BY <1>5, <1>3 DEF active, here
  <1>7. Typed' /\ (d.curs >= min(active) => BelowTop(pd'))
    BY <1>1, <1>2, <1>5, <1>4 DEF Inv, Typed, DescriptorsTyped
  <1>8. Placed(active, d) => d.curs >= min(active)
    BY <1>1, Bounds
  <1> QED BY <1>1, <1>2, <1>6, <1>7, <1>8, Arrived

LEMMA ShownAll ==
  ASSUME Inv, alive, NEW d \in Descriptor(active), Placed(active, d), ShowsAll(d)
  PROVE  Reached(active, d, panlines)
  <1>1. active \in Panels /\ panlines \in Nat \ {0} /\ d.top >= min(active)
    BY Active, Bounds DEF Inv
  <1>2. win_panel(active, d, panlines)
    BY DEF ShowsAll
  <1>3. /\ alive' = TRUE
        /\ save' = Remembered(active, d)
        /\ screen' = FullScreen(active, d, panlines)
    BY <1>1, <1>2, DrawnAll
  <1> QED BY <1>3, Restored DEF ShowsAll

LEMMA Shown ==
  ASSUME Inv, alive, NEW d \in Descriptor(active), Placed(active, d),
         d.cnt = here.cnt,
         \A ln \in Int : ln # here.curs => (ln \in d.marks <=> ln \in here.marks),
         Shows(d)
  PROVE  Reached(active, d, panlines)
  <1>1. /\ active \in Panels /\ panlines \in Nat \ {0}
        /\ here \in Descriptor(active)
        /\ d.top >= min(active) /\ d.curs >= min(active)
    BY Active, Bounds DEF Inv
  <1>2. win_panel_opt(active, d)
    BY DEF Shows
  <1>3. /\ alive' = TRUE
        /\ save' = Remembered(active, d)
        /\ screen' = FullScreen(active, d, panlines)
    BY <1>1, <1>2, DrawnTwo
  <1> QED BY <1>3, Restored DEF Shows

-----------------------------------------------------------------------------
(* The keys *)

(* What a cursor key leaves in the descriptor: window t and cursor c. *)
Key(d, t, c) == [d EXCEPT !.top = t, !.curs = c]

LEMMA Moved ==
  ASSUME NEW p \in Panels, NEW d \in Descriptor(p), NEW t \in Int, NEW c \in Int
  PROVE  /\ Key(d, t, c) \in Descriptor(p)
         /\ Key(d, t, c).top = t /\ Key(d, t, c).curs = c
         /\ Key(d, t, c).cnt = d.cnt /\ Key(d, t, c).marks = d.marks
  BY DEF Descriptor, Key

(* The window follows the cursor down. *)
LEMMA Followed ==
  ASSUME NEW p \in Panels, NEW d \in Descriptor(p), NEW c \in Int
  PROVE  FollowDown([d EXCEPT !.curs = c]) =
           Key(d, LIMIT_MIN(d.top, c - panlines + 1), c)
  BY DEF FollowDown, Descriptor, Key

(* The forms in which the handlers write their results. *)
LEMMA KeyForms ==
  ASSUME NEW p \in Panels, NEW d \in Descriptor(p), NEW c \in Int
  PROVE  /\ [d EXCEPT !.curs = @ - 1, !.top = LIMIT_MAX(@, d.curs - 1)]
              = Key(d, LIMIT_MAX(d.top, d.curs - 1), d.curs - 1)
         /\ [d EXCEPT !.curs = @ + 1] = [d EXCEPT !.curs = d.curs + 1]
         /\ [d EXCEPT !.curs = @ + 1] = Key(d, d.top, d.curs + 1)
         /\ [d EXCEPT !.curs = @ - 1] = Key(d, d.top, d.curs - 1)
         /\ [d EXCEPT !.curs = c] = Key(d, d.top, c)
         /\ [d EXCEPT !.curs = c, !.top = c] = Key(d, c, c)
         /\ [d EXCEPT !.top = c, !.curs = c] = Key(d, c, c)
  BY DEF Descriptor, Key

LEMMA Marked ==
  ASSUME NEW p \in Panels, NEW d \in Descriptor(p), NEW m \in SUBSET Nat
  PROVE  /\ [d EXCEPT !.marks = m] \in Descriptor(p)
         /\ [d EXCEPT !.marks = m].top = d.top
         /\ [d EXCEPT !.marks = m].curs = d.curs
         /\ [d EXCEPT !.marks = m].cnt = d.cnt
         /\ [d EXCEPT !.marks = m].marks = m
         /\ [d EXCEPT !.marks = IF d.curs \in @ THEN @ \ {d.curs} ELSE @ \cup {d.curs}]
              = [d EXCEPT !.marks = IF d.curs \in d.marks THEN d.marks \ {d.curs}
                                    ELSE d.marks \cup {d.curs}]
  BY DEF Descriptor

(* One bookmark less, one bookmark more, a descriptor that begins anew. *)
LEMMA Removed ==
  ASSUME NEW p \in Panels, NEW d \in Descriptor(p), d.cnt - 1 \in Counts[p]
  PROVE  /\ [d EXCEPT !.cnt = @ - 1] \in Descriptor(p)
         /\ [d EXCEPT !.cnt = @ - 1].cnt = d.cnt - 1
         /\ [d EXCEPT !.cnt = @ - 1].top = d.top
         /\ [d EXCEPT !.cnt = @ - 1].curs = d.curs
  BY DEF Descriptor

LEMMA Inserted ==
  ASSUME NEW p \in Panels, NEW d \in Descriptor(p), d.cnt + 1 \in Counts[p]
  PROVE  [d EXCEPT !.curs = LIMIT_MIN(@, -1) + 1, !.cnt = @ + 1] \in Descriptor(p)
  <1> DEFINE c == LIMIT_MIN(d.curs, -1) + 1
             e == [d EXCEPT !.curs = c]
  <1>1. c \in Int
    BY DEF Descriptor
  <1>2. [d EXCEPT !.curs = LIMIT_MIN(@, -1) + 1, !.cnt = @ + 1]
        = [e EXCEPT !.cnt = d.cnt + 1]
    BY DEF Descriptor
  <1> HIDE DEF c
  <1>3. e \in Descriptor(p)
    BY <1>1 DEF Descriptor
  <1> HIDE DEF e
  <1>4. [e EXCEPT !.cnt = d.cnt + 1] \in Descriptor(p)
    BY <1>3 DEF Descriptor
  <1> QED BY <1>2, <1>4

LEMMA Anew ==
  ASSUME NEW p \in Panels, NEW d \in Descriptor(p), NEW m \in Int, NEW n \in Int,
         NEW c \in Counts[p]
  PROVE  /\ [d EXCEPT !.top = m, !.curs = n] \in Descriptor(p)
         /\ [d EXCEPT !.cnt = c, !.top = m, !.curs = n] \in Descriptor(p)
  <1> DEFINE e == [d EXCEPT !.cnt = c]
  <1>1. e \in Descriptor(p)
    BY DEF Descriptor
  <1>2. [d EXCEPT !.cnt = c, !.top = m, !.curs = n] = Key(e, m, n)
    BY DEF Key
  <1>3. [d EXCEPT !.top = m, !.curs = n] = Key(d, m, n)
    BY DEF Key
  <1> HIDE DEF e
  <1> QED BY <1>1, <1>2, <1>3, Moved

LEMMA SortForm ==
  ASSUME NEW p \in Panels, NEW d \in Descriptor(p)
  PROVE  [d EXCEPT !.curs = IF @ < 8 THEN 8 ELSE 8 + ((@ - 7) % 3)]
         = [d EXCEPT !.curs = IF d.curs < 8 THEN 8 ELSE 8 + ((d.curs - 7) % 3)]
  BY DEF Descriptor

(* The cursor keys: the descriptor gets the window t and the cursor c. *)
LEMMA KeyStep ==
  ASSUME Inv, alive, NEW t \in Int, NEW c \in Int,
         min(active) <= t, min(active) <= c, c < here.cnt \/ c = min(active),
         Shows(Key(here, t, c)) \/ ShowsAll(Key(here, t, c))
  PROVE  /\ Inv'
         /\ t <= c /\ c < t + panlines => InWindow'
         /\ t + panlines <= here.cnt \/ t = min(active) => Filled'
  <1>. DEFINE d == Key(here, t, c)
  <1>1. /\ d \in Descriptor(active) /\ d.top = t /\ d.curs = c
        /\ d.cnt = here.cnt /\ d.marks = here.marks
    BY Here, Moved
  <1>2. Shows(d) \/ ShowsAll(d)
    OBVIOUS
  <1>. HIDE DEF d
  <1>3. /\ Placed(active, d)
        /\ t <= c /\ c < t + panlines => CursorIn(active, d, panlines)
        /\ t + panlines <= here.cnt \/ t = min(active) => NoBlank(active, d, panlines)
    BY <1>1, Here, Bounds
  <1>4. Reached(active, d, panlines)
    BY <1>1, <1>2, <1>3, Shown, ShownAll
  <1> QED BY <1>3, <1>4 DEF Reached

LEMMA HereForms ==
  ASSUME Inv, alive, NEW c \in Int
  PROVE  /\ [here EXCEPT !.curs = c] = Key(here, here.top, c)
         /\ [here EXCEPT !.curs = c, !.top = c] = Key(here, c, c)
         /\ [here EXCEPT !.top = c, !.curs = c] = Key(here, c, c)
  <1>1. active \in Panels /\ here \in Descriptor(active)
    BY Here
  <1> QED BY <1>1, KeyForms

LEMMA HomeStep == ASSUME Inv, cx_pan_home PROVE Fitted
  <1> DEFINE c == min(active)
  <1>1. /\ alive /\ c \in Int /\ c < c + panlines
    BY Here DEF cx_pan_home
  <1>2. Shows([here EXCEPT !.top = c, !.curs = c])
    BY DEF cx_pan_home
  <1> HIDE DEF c
  <1>3. Shows(Key(here, c, c))
    BY <1>1, <1>2, HereForms
  <1> QED BY <1>1, <1>3, KeyStep DEF c, Fitted

(* On an empty panel without extra lines the program crashes. *)
LEMMA EndStep == ASSUME Inv, cx_pan_end PROVE Kept
  <1>0. alive
    BY DEF cx_pan_end
  <1> DEFINE c == here.cnt - 1
             t == LIMIT_MIN(here.top, c - panlines + 1)
  <1>1. Shows(Key(here, t, c)) /\ t \in Int /\ c \in Int
    BY <1>0, Here, Followed DEF cx_pan_end
  <1>2. CASE c >= min(active)
    <2>1. /\ min(active) <= t /\ c < here.cnt
          /\ InWindow => t <= c /\ c < t + panlines
          /\ Filled => t + panlines <= here.cnt \/ t = min(active)
      BY <1>0, <1>2, Here
    <2> HIDE DEF c, t
    <2> QED BY <1>0, <1>1, <1>2, <2>1, KeyStep DEF Kept
  <1>3. CASE ~(c >= min(active))
    <2>1. /\ here.cnt = 0 /\ min(active) = 0 /\ c = -1 /\ here.curs = 0
          /\ t = here.top /\ here.top >= 0
      BY <1>0, <1>3, Here
    <2>2. Extra[active] = 0
      BY <2>1, Here, <1>0, PanelsAssumption DEF min
    <2> DEFINE d == Key(here, t, c)
    <2>3. /\ d \in Descriptor(active) /\ d.top = t /\ d.curs = c
          /\ d.cnt = here.cnt /\ d.marks = here.marks
      BY <1>0, <1>1, Here, Moved
    <2>4. Shows(d)
      BY <1>1
    <2> HIDE DEF c, t, d
    <2>5. win_panel_opt(active, d)
      BY <2>4 DEF Shows
    <2>6. /\ save' = Remembered(active, d)
          /\ screen' = FullScreen(active, d, panlines)
      BY <1>0, <2>1, <2>3, <2>5, Here, DrawnTwo
    <2>7. alive' = FALSE
      <3>1. save.type = Type[active] /\ save.top = d.top
        BY <2>1, <2>3 DEF Inv, Remembered
      <3>2. alive' = \A ln \in TwoRows(active, d) : Exists(active, d, ln)
        BY <2>5, <3>1 DEF win_panel_opt
      <3>3. -1 \in TwoRows(active, d) /\ ~Exists(active, d, -1)
        BY <2>1, <2>3 DEF TwoRows, Exists
      <3> QED BY <3>2, <3>3
    <2>8. Reached(active, d, panlines)
      BY <1>0, <2>1, <2>2, <2>3, <2>4, <2>6, <2>7, Restored DEF Shows
    <2>9. Filled => NoBlank(active, d, panlines)
      BY <1>0, <2>1, <2>3, Here, Bounds
    <2> QED BY <2>7, <2>8, <2>9 DEF Kept, Reached
  <1> QED BY <1>2, <1>3

LEMMA MoveStep == ASSUME Inv, Move PROVE Kept
  <1>1. CASE cx_pan_up
    <2> DEFINE c == here.curs - 1
               t == LIMIT_MAX(here.top, c)
    <2>0. alive
      BY <1>1 DEF cx_pan_up
    <2>1. Shows(Key(here, t, c))
      BY <1>1, <2>0, Here, KeyForms DEF cx_pan_up
    <2>2. /\ t \in Int /\ c \in Int /\ min(active) <= t /\ min(active) <= c
          /\ c < here.cnt \/ c = min(active)
          /\ InWindow => t <= c /\ c < t + panlines
          /\ Filled => t + panlines <= here.cnt \/ t = min(active)
      BY <1>1, <2>0, Here DEF cx_pan_up
    <2> HIDE DEF c, t
    <2> QED BY <2>0, <2>1, <2>2, KeyStep DEF Kept
  <1>2. CASE cx_pan_down
    <2> DEFINE c == here.curs + 1
               t == LIMIT_MIN(here.top, c - panlines + 1)
    <2>0. alive
      BY <1>2 DEF cx_pan_down
    <2>1. Shows(FollowDown([here EXCEPT !.curs = c]))
      BY <1>2, <2>0, Here, KeyForms DEF cx_pan_down
    <2>2. /\ t \in Int /\ c \in Int /\ min(active) <= t /\ min(active) <= c
          /\ c < here.cnt
          /\ InWindow => t <= c /\ c < t + panlines
          /\ Filled => t + panlines <= here.cnt \/ t = min(active)
      BY <1>2, <2>0, Here DEF cx_pan_down
    <2> HIDE DEF c
    <2>3. Shows(Key(here, t, c))
      BY <2>0, <2>1, <2>2, Here, Followed
    <2> HIDE DEF t
    <2> QED BY <2>0, <2>2, <2>3, KeyStep DEF Kept
  <1> QED BY <1>1, <1>2, HomeStep, EndStep DEF Move, Fitted, Kept

LEMMA PageStep == ASSUME Inv, Page PROVE Kept
  <1>0. alive
    BY DEF Page, cx_pan_pgup, cx_pan_pgdown
  <1>1. CASE cx_pan_pgup
    <2>1. CASE here.curs > here.top /\ Shows([here EXCEPT !.curs = here.top])
      <3> DEFINE c == here.top
      <3>1. /\ c \in Int /\ min(active) <= c /\ c < c + panlines
            /\ c < here.cnt
            /\ Filled => c + panlines <= here.cnt \/ c = min(active)
        BY <1>0, <2>1, Here
      <3>2. [here EXCEPT !.curs = c] = Key(here, c, c)
        BY <1>0, <3>1, HereForms
      <3>3. Shows(Key(here, c, c))
        BY <2>1, <3>2
      <3> HIDE DEF c
      <3> QED BY <1>0, <3>1, <3>3, KeyStep DEF Kept
    <2>2. CASE /\ ~ (here.curs > here.top)
               /\ Shows([here EXCEPT !.curs = PageUp(here), !.top = PageUp(here)])
      <3> DEFINE c == PageUp(here)
      <3>1. /\ c \in Int /\ min(active) <= c /\ c < c + panlines
            /\ c < here.cnt
            /\ Filled => c + panlines <= here.cnt \/ c = min(active)
        BY <1>0, <1>1, <2>2, Here DEF PageUp, cx_pan_pgup
      <3>2. Shows(Key(here, c, c))
        BY <1>0, <2>2, <3>1, HereForms
      <3> HIDE DEF c
      <3> QED BY <1>0, <3>1, <3>2, KeyStep DEF Kept
    <2> QED BY <1>1, <2>1, <2>2 DEF cx_pan_pgup
  <1>2. CASE cx_pan_pgdown
    <2> DEFINE bottom == here.top + panlines - 1
               next == IF here.curs < bottom THEN bottom ELSE here.curs + panlines
               c == LIMIT_MAX(next, here.cnt - 1)
               t == LIMIT_MIN(here.top, c - panlines + 1)
    <2>1. /\ c \in Int /\ c < here.cnt /\ here.curs <= c
      BY <1>0, <1>2, Here DEF cx_pan_pgdown
    <2>2. Shows(FollowDown([here EXCEPT !.curs = c]))
      BY <1>2 DEF cx_pan_pgdown
    <2> HIDE DEF c
    <2>3. Shows(Key(here, t, c))
      BY <1>0, <2>1, <2>2, Here, Followed
    <2>4. /\ t \in Int /\ min(active) <= t /\ min(active) <= c
          /\ InWindow => t <= c /\ c < t + panlines
          /\ Filled => t + panlines <= here.cnt \/ t = min(active)
      BY <1>0, <2>1, Here
    <2> HIDE DEF t
    <2> QED BY <1>0, <2>1, <2>3, <2>4, KeyStep DEF Kept
  <1> QED BY <1>1, <1>2 DEF Page

(* Toggling a mark moves the cursor down when there is a line below. *)
LEMMA ToggleStep == ASSUME Inv, cx_select_toggle PROVE Kept
  <1> DEFINE marks == IF here.curs \in here.marks THEN here.marks \ {here.curs}
                      ELSE here.marks \cup {here.curs}
             d == [here EXCEPT !.marks =
                     IF here.curs \in @ THEN @ \ {here.curs} ELSE @ \cup {here.curs}]
             c == here.curs + 1
             t == LIMIT_MIN(here.top, c - panlines + 1)
  <1>1. alive /\ here.curs >= 0 /\ here.curs < here.cnt
    BY DEF cx_select_toggle, VALID_CURSOR
  <1>2. /\ d \in Descriptor(active)
        /\ d.top = here.top /\ d.curs = here.curs /\ d.cnt = here.cnt
        /\ \A ln \in Int : ln # here.curs => (ln \in d.marks <=> ln \in here.marks)
    <2>1. marks \in SUBSET Nat
      BY <1>1, Here DEF Descriptor
    <2>2. d = [here EXCEPT !.marks = marks]
      BY <1>1, Here, Marked DEF Descriptor
    <2>3. \A ln \in Int : ln # here.curs => (ln \in marks <=> ln \in here.marks)
      OBVIOUS
    <2> HIDE DEF d, marks
    <2> QED BY <1>1, <2>1, <2>2, <2>3, Here, Marked
  <1>3. \/ here.curs < here.cnt - 1 /\ Shows(FollowDown([d EXCEPT !.curs = @ + 1]))
        \/ ~ (here.curs < here.cnt - 1) /\ Shows(d)
    BY DEF cx_select_toggle
  <1> HIDE DEF d
  <1>4. CASE ~ (here.curs < here.cnt - 1) /\ Shows(d)
    <2>1. /\ Placed(active, d)
          /\ InWindow => CursorIn(active, d, panlines)
          /\ Filled => NoBlank(active, d, panlines)
      BY <1>1, <1>2, Here, Bounds
    <2>2. Reached(active, d, panlines)
      BY <1>1, <1>2, <1>4, <2>1, Shown
    <2> QED BY <2>1, <2>2 DEF Reached, Kept
  <1>5. CASE here.curs < here.cnt - 1 /\ Shows(FollowDown([d EXCEPT !.curs = @ + 1]))
    <2>1. /\ t \in Int /\ c \in Int /\ min(active) <= t /\ min(active) <= c
          /\ c < here.cnt
          /\ InWindow => t <= c /\ c < t + panlines
          /\ Filled => t + panlines <= here.cnt \/ t = min(active)
      BY <1>1, <1>5, Here
    <2>2. Shows(FollowDown([d EXCEPT !.curs = c]))
      BY <1>1, <1>2, <1>5, <2>1, Here, KeyForms
    <2> HIDE DEF c
    <2>3. Shows(Key(d, t, c))
      BY <1>1, <1>2, <2>1, <2>2, Here, Followed
    <2> HIDE DEF t
    <2> DEFINE e == Key(d, t, c)
    <2>4. /\ e \in Descriptor(active)
          /\ e.top = t /\ e.curs = c /\ e.cnt = d.cnt /\ e.marks = d.marks
      BY <1>1, <1>2, <2>1, Here, Moved
    <2>5. Shows(e)
      BY <2>3
    <2> HIDE DEF e
    <2>6. /\ Placed(active, e)
          /\ InWindow => CursorIn(active, e, panlines)
          /\ Filled => NoBlank(active, e, panlines)
      BY <1>1, <1>2, <2>1, <2>4, Here, Bounds
    <2>7. Reached(active, e, panlines)
      BY <1>1, <1>2, <2>4, <2>5, <2>6, Shown
    <2> QED BY <2>6, <2>7 DEF Reached, Kept
  <1> QED BY <1>3, <1>4, <1>5

LEMMA HotkeyStep == ASSUME Inv, callfn PROVE Fitted
  <1>0. alive
    BY DEF callfn
  <1>1. PICK in \in 0 .. here.cnt - 1 :
          Shows(pan_adjust(active, [here EXCEPT !.curs = in], panlines))
    BY DEF callfn
  <1>2. in \in Int
    BY <1>0, Here
  <1>3. Shows(pan_adjust(active, Key(here, here.top, in), panlines))
    BY <1>0, <1>1, <1>2, Here, KeyForms
  <1> DEFINE d == Key(here, here.top, in)
             e == pan_adjust(active, d, panlines)
  <1>4. d \in Descriptor(active) /\ d.cnt = here.cnt /\ d.marks = here.marks
    BY <1>0, <1>2, Here, Moved
  <1> HIDE DEF d
  <1>5. /\ e \in Descriptor(active) /\ Good(active, e, panlines)
        /\ e.cnt = here.cnt /\ e.marks = here.marks
    BY <1>0, <1>4, Here, Adjusted
  <1>6. Shows(e)
    BY <1>3 DEF d
  <1> HIDE DEF e
  <1>7. Placed(active, e)
    BY <1>0, <1>5, Here, GoodIsPlaced
  <1>8. Reached(active, e, panlines)
    BY <1>0, <1>5, <1>6, <1>7, Shown
  <1> QED BY <1>5, <1>8, ReachedGood

-----------------------------------------------------------------------------
(* The handlers that move the cursor or the last line, but not the window *)

LEMMA SortStep == ASSUME Inv, cx_sort_cycle_H PROVE Inv' /\ (Filled => Filled')
  <1>0. alive /\ Type[active] = "SORT"
    BY DEF cx_sort_cycle_H
  <1> DEFINE c == IF here.curs < 8 THEN 8 ELSE 8 + ((here.curs - 7) % 3)
  <1>1. c \in 8 .. 10
    BY <1>0, Here
  <1>2. Shows([here EXCEPT !.curs = c])
    BY <1>0, Here, SortForm DEF cx_sort_cycle_H
  <1> HIDE DEF c
  <1>3. Shows(Key(here, here.top, c))
    <2>1. c \in Int
      BY <1>1
    <2> QED BY <1>0, <1>2, <2>1, HereForms
  <1>4. here.cnt > 10
    <2>1. here.cnt \in Counts[active]
      BY <1>0, Here DEF Descriptor
    <2> QED BY <1>0, <2>1, Here, SortAssumption
  <1> QED BY <1>0, <1>1, <1>3, <1>4, Here, KeyStep

LEMMA BookmarkMoves ==
  ASSUME Inv, cx_bm_mng_up \/ cx_bm_mng_down
  PROVE  Inv' /\ (Filled => Filled')
  <1>0. alive /\ here.curs >= 0 /\ here.curs < here.cnt
    BY DEF cx_bm_mng_up, cx_bm_mng_down, VALID_CURSOR
  <1>1. CASE cx_bm_mng_up
    <2>1. here.curs > 0
      BY <1>0, <1>1, Here DEF cx_bm_mng_up
    <2>2. ShowsAll(Key(here, here.top, here.curs - 1))
      BY <1>0, <1>1, Here, KeyForms DEF cx_bm_mng_up
    <2> QED BY <1>0, <2>1, <2>2, Here, KeyStep
  <1>2. CASE cx_bm_mng_down
    <2>1. here.curs + 1 < here.cnt
      BY <1>0, <1>2, Here DEF cx_bm_mng_down
    <2>2. ShowsAll(Key(here, here.top, here.curs + 1))
      BY <1>0, <1>2, Here, KeyForms DEF cx_bm_mng_down
    <2> QED BY <1>0, <2>1, <2>2, Here, KeyStep
  <1> QED BY <1>1, <1>2

LEMMA DeleteStep ==
  ASSUME Inv, cx_bm_mng_del
  PROVE  /\ Inv' /\ (InWindow => InWindow')
         /\ here.curs = here.cnt - 1 => Fitted
  <1> DEFINE d == [here EXCEPT !.cnt = @ - 1]
             e == Key(d, d.top, d.curs - 1)
             a == pan_adjust(active, e, panlines)
  <1>1. /\ alive /\ here.curs >= 0 /\ here.curs < here.cnt
        /\ here.cnt - 1 \in Counts[active]
    BY DEF cx_bm_mng_del, VALID_CURSOR
  <1>2. /\ d \in Descriptor(active) /\ d.cnt = here.cnt - 1
        /\ d.top = here.top /\ d.curs = here.curs
    BY <1>1, Here, Removed
  <1>3. ShowsAll(IF d.curs = d.cnt
                 THEN pan_adjust(active, [d EXCEPT !.curs = @ - 1], panlines)
                 ELSE d)
    BY DEF cx_bm_mng_del
  <1> HIDE DEF d
  <1>4. [d EXCEPT !.curs = @ - 1] = e /\ e \in Descriptor(active)
    <2>1. d.top \in Int /\ d.curs - 1 \in Int
      BY <1>1, <1>2, Here
    <2>2. [d EXCEPT !.curs = @ - 1] = e
      BY <1>1, <1>2, <2>1, Here, KeyForms
    <2>3. e \in Descriptor(active)
      BY <1>1, <1>2, <2>1, Here, Moved
    <2> QED BY <2>2, <2>3
  <1> HIDE DEF e
  <1>5. CASE d.curs = d.cnt
    <2>1. a \in Descriptor(active) /\ Good(active, a, panlines)
      BY <1>1, <1>4, Here, Adjusted
    <2>2. ShowsAll(a)
      BY <1>3, <1>4, <1>5
    <2> HIDE DEF a
    <2>3. Reached(active, a, panlines)
      BY <1>1, <2>1, <2>2, Here, GoodIsPlaced, ShownAll
    <2> QED BY <2>1, <2>3, ReachedGood DEF Fitted
  <1>6. CASE d.curs # d.cnt
    <2>1. /\ Placed(active, d) /\ here.curs # here.cnt - 1
          /\ InWindow => CursorIn(active, d, panlines)
      BY <1>1, <1>2, <1>6, Here, Bounds
    <2>2. Reached(active, d, panlines)
      BY <1>1, <1>2, <1>3, <1>6, <2>1, ShownAll
    <2> QED BY <2>1, <2>2 DEF Reached
  <1> QED BY <1>5, <1>6

LEMMA RevertStep == ASSUME Inv, cx_bm_mng_revert PROVE Inv' /\ (InWindow => InWindow')
  <1>1. alive /\ here.curs = -1
    BY DEF cx_bm_mng_revert
  <1>2. PICK c \in Counts[active] : ShowsAll([here EXCEPT !.cnt = c])
    BY DEF cx_bm_mng_revert
  <1> DEFINE d == [here EXCEPT !.cnt = c]
  <1>3. /\ d \in Descriptor(active) /\ d.cnt = c /\ c \in Nat
        /\ d.top = here.top /\ d.curs = here.curs
    BY <1>1, Here, Constants DEF Descriptor
  <1>4. ShowsAll(d)
    BY <1>2
  <1> HIDE DEF d
  <1>5. /\ Placed(active, d)
        /\ InWindow => CursorIn(active, d, panlines)
    BY <1>1, <1>3, Here, Bounds
  <1>6. Reached(active, d, panlines)
    BY <1>1, <1>3, <1>4, <1>5, ShownAll
  <1> QED BY <1>5, <1>6 DEF Reached

LEMMA InsertStep == ASSUME Inv, cx_bm_mng_new PROVE Fitted
  <1> DEFINE d == [here EXCEPT !.curs = LIMIT_MIN(@, -1) + 1, !.cnt = @ + 1]
             a == pan_adjust(active, d, panlines)
  <1>1. alive
    BY DEF cx_bm_mng_new
  <1>2. d \in Descriptor(active)
    BY <1>1, Here, Inserted DEF cx_bm_mng_new
  <1>3. ShowsAll(a)
    BY DEF cx_bm_mng_new
  <1> HIDE DEF d
  <1>4. a \in Descriptor(active) /\ Good(active, a, panlines)
    BY <1>1, <1>2, Here, Adjusted
  <1> HIDE DEF a
  <1>5. Reached(active, a, panlines)
    BY <1>1, <1>3, <1>4, Here, GoodIsPlaced, ShownAll
  <1> QED BY <1>4, <1>5, ReachedGood

-----------------------------------------------------------------------------
(* New listings, modes, the size of the window *)

LEMMA Listed ==
  ASSUME Typed, NEW q \in Panels
  PROVE  Listings(q) \subseteq Descriptor(q) /\ Prepared(q) \subseteq Descriptor(q)
  <1>1. pd[q] \in Descriptor(q)
    BY DEF Typed, DescriptorsTyped, Descriptor
  <1>2. /\ pd[q].cnt \in Nat /\ pd[q].top \in Int /\ pd[q].marks \in SUBSET Nat
        /\ min(q) \in Int
    BY <1>1, Constants DEF Descriptor
  <1>3. min(q) .. LIMIT_MIN(pd[q].cnt, 1) \subseteq Int
    BY <1>2
  <1>4. Listings(q) \subseteq Descriptor(q)
    BY <1>2, <1>3 DEF Listings, Descriptor
  <1>5. [pd[q] EXCEPT !.top = min(q), !.curs = 0] \in Descriptor(q)
    <2>1. PICK c \in Counts[q] : TRUE
      BY PanelsAssumption
    <2>2. 0 \in Int
      OBVIOUS
    <2> QED BY <1>1, <1>2, <2>1, <2>2, Anew
  <1>6. ASSUME NEW c \in Counts[q]
        PROVE  [pd[q] EXCEPT !.cnt = c, !.top = min(q), !.curs = min(q)]
               \in Descriptor(q)
    BY <1>1, <1>2, <1>6, Anew
  <1>7. CASE Type[q] = "MENU"
    BY <1>1, <1>4, <1>7 DEF Prepared
  <1>8. CASE Type[q] = "SORT"
    BY <1>4, <1>5, <1>8 DEF Prepared
  <1>9. CASE Type[q] = "BM_MANAGER"
    BY <1>4, <1>6, <1>9 DEF Prepared
  <1>10. CASE Type[q] \notin {"MENU", "SORT", "BM_MANAGER"}
    BY <1>1, <1>4, <1>10 DEF Prepared
  <1> QED BY <1>7, <1>8, <1>9, <1>10

LEMMA InitialDescriptor ==
  ASSUME NEW p \in Panels
  PROVE  /\ Initial(p) \in Descriptor(p)
         /\ Initial(p).top = min(p) /\ Initial(p).curs = min(p)
         /\ Initial(p).curs >= min(p)
  <1>1. (CHOOSE c \in Counts[p] : TRUE) \in Counts[p]
    BY PanelsAssumption
  <1> QED BY <1>1, Constants DEF Initial, Descriptor

(* The descriptors that a mode leaves behind. *)
LEMMA Leaving ==
  ASSUME Inv, alive
  PROVE  /\ DescriptorsTyped(pd) /\ BelowTop(pd)
         /\ DescriptorsTyped(Left) /\ BelowTop(Left)
  <1>1. DescriptorsTyped(pd) /\ BelowTop(pd) /\ active \in Panels
    BY Here DEF Inv, Typed
  <1> DEFINE d == Initial(active)
  <1>2. d \in Descriptor(active) /\ d.curs >= min(active)
    BY <1>1, InitialDescriptor
  <1> HIDE DEF d
  <1>3. DescriptorsTyped([pd EXCEPT ![active] = d])
    BY <1>1, <1>2, Replaced
  <1>4. BelowTop([pd EXCEPT ![active] = d])
    BY <1>1, <1>2, Replaced
  <1> QED BY <1>1, <1>3, <1>4 DEF Left, d

(* Panel q with the Good descriptor e becomes or stays the active one. *)
LEMMA Entered ==
  ASSUME NEW rest, DescriptorsTyped(rest), BelowTop(rest),
         NEW q \in Panels, NEW e \in Descriptor(q), NEW n \in PanLines,
         Good(q, e, n), win_panel(q, e, n),
         pd' = [rest EXCEPT ![q] = e], panlines' = n,
         stack' \in Seq(Panels), Len(stack') \in 1 .. Depth,
         \A i, j \in DOMAIN stack' : stack'[i] = stack'[j] => i = j,
         stack'[Len(stack')] = q
  PROVE  Fitted
  <1>1. n \in Nat \ {0}
    BY WindowAssumption
  <1>2. Placed(q, e) /\ e.top >= min(q) /\ e.curs >= min(q)
    BY <1>1, GoodIsPlaced, Bounds
  <1>3. /\ alive' = TRUE
        /\ save' = Remembered(q, e)
        /\ screen' = FullScreen(q, e, n)
    BY <1>1, <1>2, DrawnAll
  <1> DEFINE es == [rest EXCEPT ![q] = e]
  <1>4. DescriptorsTyped(es)
    BY Replaced
  <1>5. es[q] = e
    BY Replaced
  <1>6. BelowTop(es)
    BY <1>2, Replaced
  <1>7. pd' = es
    OBVIOUS
  <1> HIDE DEF es
  <1>8. active' = q /\ here' = e
    BY <1>5, <1>7 DEF active, here
  <1>9. Typed'
    BY <1>3, <1>4, <1>7 DEF Typed, DescriptorsTyped
  <1>10. Reached(q, e, n)
    BY <1>1, <1>2, <1>3, <1>6, <1>7, <1>8, <1>9, Arrived
  <1> QED BY <1>10, ReachedGood

LEMMA EnteredMode ==
  ASSUME Inv, alive, NEW rest, DescriptorsTyped(rest), BelowTop(rest),
         NEW q \in Panels, NEW d \in Descriptor(q), Enters(rest, q, d),
         stack' \in Seq(Panels), Len(stack') \in 1 .. Depth,
         \A i, j \in DOMAIN stack' : stack'[i] = stack'[j] => i = j,
         stack'[Len(stack')] = q
  PROVE  Fitted
  <1> DEFINE e == pan_adjust(q, d, panlines)
  <1>1. panlines \in PanLines /\ panlines \in Nat \ {0}
    BY Here
  <1>2. e \in Descriptor(q) /\ Good(q, e, panlines)
    BY <1>1, Adjusted
  <1>3. /\ pd' = [rest EXCEPT ![q] = e] /\ win_panel(q, e, panlines)
        /\ panlines' = panlines
    BY DEF Enters
  <1> HIDE DEF e
  <1> QED BY <1>1, <1>2, <1>3, Entered

LEMMA RelistStep == ASSUME Inv, Relist PROVE Fitted
  <1>1. alive
    BY DEF Relist
  <1>2. PICK d \in Listings(active) : ShowsAll(pan_adjust(active, d, panlines))
    BY DEF Relist
  <1> DEFINE a == pan_adjust(active, d, panlines)
  <1>3. d \in Descriptor(active)
    BY <1>1, <1>2, Here, Listed DEF Inv
  <1>4. a \in Descriptor(active) /\ Good(active, a, panlines)
    BY <1>1, <1>3, Here, Adjusted
  <1>5. ShowsAll(a)
    BY <1>2
  <1> HIDE DEF a
  <1>6. Reached(active, a, panlines)
    BY <1>1, <1>4, <1>5, Here, GoodIsPlaced, ShownAll
  <1> QED BY <1>4, <1>6, ReachedGood

LEMMA RelistBelowStep == ASSUME Inv, RelistBelow PROVE Kept
  <1>1. alive /\ Typed
    BY DEF RelistBelow, Inv
  <1>2. PICK i \in 1 .. Len(stack) - 1 : \E d \in Listings(stack[i]) :
          pd' = [pd EXCEPT ![stack[i]] = d]
    BY DEF RelistBelow
  <1>3. PICK d \in Listings(stack[i]) : pd' = [pd EXCEPT ![stack[i]] = d]
    BY <1>2
  <1>4. win_panel(active, here, panlines) /\ UNCHANGED <<stack, panlines>>
    BY DEF RelistBelow
  <1> DEFINE p == stack[i]
             es == [pd EXCEPT ![p] = d]
  <1>5. p \in Panels /\ p # active
    <2>1. /\ stack \in Seq(Panels) /\ Len(stack) \in Nat
          /\ i \in DOMAIN stack /\ Len(stack) \in DOMAIN stack /\ i # Len(stack)
      BY <1>1, <1>2, DepthAssumption DEF Typed
    <2>2. stack[i] # stack[Len(stack)]
      BY <1>1, <2>1 DEF Typed
    <2> QED BY <2>1, <2>2 DEF active
  <1>6. pd' = es
    BY <1>3
  <1>7. d \in Listings(p)
    BY <1>3
  <1> HIDE DEF p, es
  <1>8. d \in Descriptor(p)
    BY <1>1, <1>5, <1>7, Listed
  <1>9. d.curs >= min(p)
    <2>1. min(p) \in Int /\ pd[p].cnt \in Int
      BY <1>1, <1>5, Constants DEF Typed, DescriptorsTyped
    <2>2. d.curs \in min(p) .. LIMIT_MIN(pd[p].cnt, 1)
      BY <1>7 DEF Listings
    <2> QED BY <2>1, <2>2
  <1>10. DescriptorsTyped(es)
    BY <1>1, <1>5, <1>8, Replaced DEF Typed, es
  <1>11. BelowTop(es)
    BY <1>1, <1>5, <1>8, <1>9, Replaced DEF Typed, Inv, es
  <1>12. \A q \in Panels \ {p} : es[q] = pd[q]
    BY <1>1, <1>5, <1>8, Replaced DEF Typed, es
  <1>13. active' = active /\ here' = here
    BY <1>1, <1>4, <1>5, <1>6, <1>12, Here DEF active, here
  <1>14. /\ alive' = TRUE
         /\ save' = Remembered(active, here)
         /\ screen' = FullScreen(active, here, panlines)
    BY <1>1, <1>4, Here, DrawnAll
  <1>15. Typed'
    BY <1>1, <1>4, <1>6, <1>10, <1>14 DEF Typed, DescriptorsTyped
  <1>16. Placed(active, here)
    BY <1>1 DEF Inv
  <1>17. Reached(active, here, panlines)
    BY <1>1, <1>4, <1>6, <1>11, <1>13, <1>14, <1>15, <1>16, Here, Arrived
  <1> QED BY <1>17 DEF Reached, Kept, InWindow, CursorIn, Filled, NoBlank

LEMMA ModeStep == ASSUME Inv, Modes PROVE Fitted
  <1>1. /\ stack \in Seq(Panels) /\ Len(stack) \in 1 .. Depth
        /\ \A i, j \in DOMAIN stack : stack[i] = stack[j] => i = j
        /\ Depth \in Nat /\ Typed
    BY DepthAssumption DEF Inv, Typed
  <1>2. CASE BeginMode
    <2>1. PICK q \in Panels \ {stack[i] : i \in DOMAIN stack} :
            /\ stack' = Append(stack, q)
            /\ \E d \in Prepared(q) : Enters(pd, q, d)
      BY <1>2 DEF BeginMode
    <2>2. PICK d \in Prepared(q) : Enters(pd, q, d)
      BY <2>1
    <2>3. d \in Descriptor(q)
      BY <1>1, <2>1, <2>2, Listed
    <2>4. /\ stack' \in Seq(Panels) /\ Len(stack') \in 1 .. Depth
          /\ stack'[Len(stack')] = q
          /\ \A i, j \in DOMAIN stack' : stack'[i] = stack'[j] => i = j
      BY <1>1, <1>2, <2>1 DEF BeginMode
    <2>5. alive
      BY <1>2 DEF BeginMode
    <2> QED BY <2>1, <2>2, <2>3, <2>4, <2>5, Leaving, EnteredMode
  <1>3. CASE ChangeMode
    <2>1. PICK q \in Panels \ {stack[i] : i \in DOMAIN stack} :
            /\ stack' = [stack EXCEPT ![Len(stack)] = q]
            /\ \E d \in Prepared(q) : Enters(Left, q, d)
      BY <1>3 DEF ChangeMode
    <2>2. PICK d \in Prepared(q) : Enters(Left, q, d)
      BY <2>1
    <2>3. d \in Descriptor(q)
      BY <1>1, <2>1, <2>2, Listed
    <2>4. /\ stack' \in Seq(Panels) /\ Len(stack') = Len(stack)
          /\ stack'[Len(stack')] = q
      BY <1>1, <2>1
    <2>5. ASSUME NEW i \in DOMAIN stack', NEW j \in DOMAIN stack',
                 stack'[i] = stack'[j]
          PROVE  i = j
      BY <1>1, <2>1, <2>5
    <2>6. alive
      BY <1>3 DEF ChangeMode
    <2> QED BY <1>1, <2>1, <2>2, <2>3, <2>4, <2>5, <2>6, Leaving, EnteredMode
  <1>4. CASE EndMode
    <2> DEFINE q == stack[Len(stack) - 1]
    <2>1. /\ stack' = SubSeq(stack, 1, Len(stack) - 1) /\ Len(stack) > 1
          /\ Enters(Left, q, pd[q]) /\ alive
      BY <1>4 DEF EndMode
    <2>2. q \in Panels
      BY <1>1, <2>1
    <2>3. pd[q] \in Descriptor(q)
      BY <1>1, <2>2 DEF Typed, DescriptorsTyped, Descriptor
    <2>4. /\ stack' \in Seq(Panels) /\ Len(stack') \in 1 .. Depth
          /\ stack'[Len(stack')] = q
          /\ \A i, j \in DOMAIN stack' : stack'[i] = stack'[j] => i = j
      BY <1>1, <2>1
    <2> QED BY <2>1, <2>2, <2>3, <2>4, Leaving, EnteredMode
  <1> QED BY <1>2, <1>3, <1>4 DEF Modes

LEMMA ResizeStep == ASSUME Inv, Resize PROVE Fitted
  <1>1. PICK n \in PanLines :
          /\ panlines' = n
          /\ pd' = [pd EXCEPT ![active] = pan_adjust(active, here, n)]
          /\ win_panel(active, pan_adjust(active, here, n), n)
          /\ UNCHANGED stack
    BY DEF Resize
  <1>0. alive
    BY DEF Resize
  <1> DEFINE e == pan_adjust(active, here, n)
  <1>2. e \in Descriptor(active) /\ Good(active, e, n)
    BY <1>0, Here, Adjusted, WindowAssumption
  <1>3. pd' = [pd EXCEPT ![active] = e] /\ win_panel(active, e, n)
    BY <1>1
  <1> HIDE DEF e
  <1>4. Typed
    BY DEF Inv
  <1>5. /\ stack' \in Seq(Panels) /\ Len(stack') \in 1 .. Depth
        /\ \A i, j \in DOMAIN stack' : stack'[i] = stack'[j] => i = j
        /\ stack'[Len(stack')] = active
    BY <1>1, <1>4 DEF Typed, active
  <1> QED BY <1>0, <1>1, <1>2, <1>3, <1>5, Here, Leaving, Entered


(* The handlers that call pan_adjust(), or begin at the first line. *)
LEMMA AdjustStep == ASSUME Inv, Adjusts PROVE Fitted
  <1>1. ASSUME cx_bm_mng_del, here.curs = here.cnt - 1
        PROVE  Fitted
    BY <1>1, DeleteStep
  <1> QED
    BY <1>1, RelistStep, ModeStep, ResizeStep, HotkeyStep, InsertStep, HomeStep
       DEF Adjusts

(* The bookmark manager and the sort panel. *)
LEMMA WindowStays ==
  ASSUME Inv, BmManager \/ cx_sort_cycle_H
  PROVE  /\ Inv'
         /\ ~MovesAlone /\ InWindow => InWindow'
         /\ ~Shortens /\ Filled => Filled'
  <1>1. CASE cx_bm_mng_up \/ cx_bm_mng_down
    BY <1>1, BookmarkMoves DEF MovesAlone
  <1>2. CASE cx_bm_mng_del
    BY <1>2, DeleteStep DEF Shortens
  <1>3. CASE cx_bm_mng_new
    BY <1>3, InsertStep DEF Fitted
  <1>4. CASE cx_bm_mng_revert
    BY <1>4, RevertStep DEF Shortens
  <1>5. CASE cx_sort_cycle_H
    BY <1>5, SortStep DEF MovesAlone
  <1> QED BY <1>1, <1>2, <1>3, <1>4, <1>5 DEF BmManager

(* Nothing changes. *)
LEMMA Stutter ==
  ASSUME Inv, UNCHANGED vars
  PROVE  Inv' /\ (InWindow => InWindow') /\ (Filled => Filled')
  <1>1. Inv'
    BY DEF vars, Inv, Typed, DescriptorsTyped, BelowTop, active, here, Placed,
           Remembered, FullScreen, Drawn, min
  <1>2. InWindow => InWindow'
    BY DEF vars, InWindow, active, here, min
  <1>3. Filled => Filled'
    BY DEF vars, Filled, active, here, min
  <1> QED BY <1>1, <1>2, <1>3

(* What a step does to the active panel, one step per kind of action. *)
LEMMA NextStep ==
  ASSUME Inv, [Next]_vars
  PROVE  /\ Inv'
         /\ alive' /\ ~MovesAlone /\ InWindow => InWindow'
         /\ ~Shortens /\ Filled => Filled'
  <1>1. CASE Move \/ Page \/ cx_select_toggle \/ RelistBelow
    BY <1>1, MoveStep, PageStep, ToggleStep, RelistBelowStep DEF Kept
  <1>2. CASE callfn \/ Relist \/ Modes \/ Resize
    BY <1>2, HotkeyStep, RelistStep, ModeStep, ResizeStep DEF Fitted
  <1>3. CASE BmManager \/ cx_sort_cycle_H
    BY <1>3, WindowStays
  <1>4. CASE Crashed \/ UNCHANGED vars
    BY <1>4, Stutter DEF Crashed
  <1> QED BY <1>1, <1>2, <1>3, <1>4 DEF Next

LEMMA InitInv ==
  ASSUME Init
  PROVE  Inv
  <1>1. \A p \in Panels :
          /\ Initial(p) \in Descriptor(p)
          /\ Initial(p).top = min(p) /\ Initial(p).curs = min(p)
          /\ Initial(p).curs >= min(p)
    BY InitialDescriptor
  <1>2. /\ panlines \in Nat \ {0} /\ First \in Panels
        /\ pd = [p \in Panels |-> Initial(p)] /\ alive = TRUE
    BY PanelsAssumption, WindowAssumption DEF Init
  <1>3. active = First /\ here = Initial(First)
    BY <1>2 DEF Init, active, here
  <1>4. Typed
    <2>1. \A p \in Panels :
            /\ Initial(p) \in [cnt : Nat, top : Int, curs : Int, marks : SUBSET Nat]
            /\ Initial(p).cnt \in Counts[p]
      BY <1>1, Constants DEF Descriptor
    <2>2. DescriptorsTyped(pd)
      BY <1>2, <2>1 DEF DescriptorsTyped
    <2> QED BY <1>2, <2>2, DepthAssumption DEF Init, Typed
  <1>5. BelowTop(pd)
    BY <1>1, <1>2 DEF BelowTop
  <1>6. Placed(First, Initial(First))
    BY <1>1, <1>2, Bounds
  <1>7. save = Remembered(First, Initial(First))
    BY <1>1, <1>2 DEF Init, Remembered
  <1> QED BY <1>2, <1>3, <1>4, <1>5, <1>6, <1>7 DEF Init, Inv

LEMMA InvImplies ==
  ASSUME Inv
  PROVE  TypeOK /\ ScreenCurrent /\ DrawsExistingLines
  <1>1. DOMAIN screen = 0 .. panlines - 1
    BY DEF Inv, FullScreen
  <1>2. save \in [top : Int, curs : Int, type : PanelTypes]
    <2>1. /\ active \in Panels /\ here.top \in Int /\ here.curs \in Int
          /\ Type[active] \in PanelTypes
      BY Active, Constants DEF Inv, Descriptor
    <2> QED BY <2>1 DEF Inv, Remembered
  <1>3. TypeOK
    BY <1>1, <1>2 DEF Inv, Typed, DescriptorsTyped, TypeOK
  <1> QED
    BY <1>3 DEF Inv, Typed, ScreenCurrent, DrawsExistingLines

-----------------------------------------------------------------------------
(* Theorems *)

(* The inductive invariant of the panels: whatever keys are pressed, modes
   nested and window sizes chosen, the active descriptor is Placed, and rows
   and memory of draw_panel() agree with it. *)
THEOREM PanelInvariant == Spec => []Inv
  BY InitInv, NextStep, PTL DEF Spec

(* The descriptors keep their types, the stack of control loops never names a
   panel twice (control.c). *)
THEOREM PanelTyped == Spec => []TypeOK
  BY PanelInvariant, InvImplies, PTL

(* Every key, mode and change of the window keeps the cursor in the panel and
   in the window, or brings it there, but for the three handlers that move
   the cursor alone: any number of lines and of rows, empty panels included
   (panel.c, control_loop(), screen_draw_all(), bookmarks.c). *)
THEOREM PanelCorrect == Spec => CursorVisible
  <1>1. Inv /\ [Next]_vars =>
          [alive' /\ ((InWindow /\ ~MovesAlone) \/ Adjusts) => InWindow']_vars
    <2> SUFFICES ASSUME Inv, [Next]_vars, alive',
                        (InWindow /\ ~MovesAlone) \/ Adjusts
                 PROVE  InWindow'
      OBVIOUS
    <2> QED BY NextStep, AdjustStep DEF Fitted
  <1> QED BY <1>1, PanelInvariant, PTL DEF Spec, CursorVisible

(* No key, mode or change of the window leaves a row at the bottom blank while
   lines above the window could fill it, but for the two handlers that
   shorten the list alone; pan_adjust() fills the rows that were left blank. *)
THEOREM WindowFilled == Spec => NoBlankBottom
  <1>1. Inv /\ [Next]_vars => [(Filled /\ ~Shortens) \/ Adjusts => Filled']_vars
    <2> SUFFICES ASSUME Inv, [Next]_vars, (Filled /\ ~Shortens) \/ Adjusts
                 PROVE  Filled'
      OBVIOUS
    <2> QED BY NextStep, AdjustStep DEF Fitted
  <1> QED BY <1>1, PanelInvariant, PTL DEF Spec, NoBlankBottom

(* Neither drawing routine ever asks for a line that does not exist: the
   array of extra lines is indexed below its first element only when the
   active panel has no lines and no extra lines (draw_panel_line()). *)
THEOREM LinesExist == Spec => []DrawsExistingLines
  BY PanelInvariant, InvImplies, PTL

(* The optimized drawing of win_panel_opt() is as good as a complete one:
   the rows always show the active panel as it is (draw_panel()). *)
THEOREM ScreenCorrect == Spec => []ScreenCurrent
  BY PanelInvariant, InvImplies, PTL

-----------------------------------------------------------------------------
(* The return to a waiting panel, and the page keys *)

(* A change of the window size, or a return to a panel that has waited,
   leaves the cursor on its line. *)
LEMMA AdjustKeeps ==
  ASSUME NEW p \in Panels, NEW d \in Descriptor(p), NEW n \in PanLines,
         min(p) <= d.curs, d.curs < d.cnt
  PROVE  pan_adjust(p, d, n).curs = d.curs
  <1>1. d.cnt \in Nat /\ d.curs \in Int /\ min(p) \in Int
    BY Constants DEF Descriptor
  <1>2. pan_adjust(p, d, n).curs = LIMIT_MIN(LIMIT_MAX(d.curs, d.cnt - 1), min(p))
    BY DEF pan_adjust, Descriptor
  <1> QED BY <1>1, <1>2

LEMMA KeepsCursor ==
  ASSUME Inv, Resize \/ EndMode,
         pd[stack'[Len(stack')]].curs < pd[stack'[Len(stack')]].cnt
  PROVE  pd'[stack'[Len(stack')]].curs = pd[stack'[Len(stack')]].curs
  <1>0. alive /\ Typed /\ BelowTop(pd)
    BY DEF Resize, EndMode, Inv
  <1>1. /\ stack \in Seq(Panels) /\ Len(stack) \in Nat \ {0}
        /\ panlines \in PanLines /\ DescriptorsTyped(pd)
    BY <1>0, DepthAssumption DEF Typed
  <1>2. \E n \in PanLines :
          LET p == stack'[Len(stack')]
          IN  p \in Panels /\ pd'[p] = pan_adjust(p, pd[p], n)
    <2>1. CASE Resize
      <3>1. PICK n \in PanLines :
              pd' = [pd EXCEPT ![active] = pan_adjust(active, pd[active], n)]
        BY <2>1 DEF Resize, here
      <3>2. stack'[Len(stack')] = active /\ active \in Panels
        BY <1>0, <2>1, Here DEF Resize, active
      <3> QED BY <1>1, <3>1, <3>2 DEF DescriptorsTyped
    <2>2. CASE EndMode
      <3> DEFINE q == stack[Len(stack) - 1]
      <3>1. stack' = SubSeq(stack, 1, Len(stack) - 1) /\ Len(stack) > 1
        BY <2>2 DEF EndMode
      <3>2. q \in Panels /\ stack'[Len(stack')] = q
        BY <1>1, <3>1
      <3>3. pd' = [Left EXCEPT ![q] = pan_adjust(q, pd[q], panlines)]
        BY <2>2 DEF EndMode, Enters
      <3>4. Left = pd \/ \E d : Left = [pd EXCEPT ![active] = d]
        BY DEF Left
      <3> HIDE DEF q
      <3> QED BY <1>0, <1>1, <3>2, <3>3, <3>4, Here DEF DescriptorsTyped
    <2> QED BY <2>1, <2>2
  <1> DEFINE p == stack'[Len(stack')]
  <1>3. PICK n \in PanLines :
          p \in Panels /\ pd'[p] = pan_adjust(p, pd[p], n)
    BY <1>2
  <1>4. pd[p].curs < pd[p].cnt
    OBVIOUS
  <1> HIDE DEF p
  <1>5. pd[p] \in Descriptor(p) /\ min(p) <= pd[p].curs
    <2>1. pd[p] \in Descriptor(p) /\ min(p) \in Int
      BY <1>1, <1>3, Constants DEF DescriptorsTyped, Descriptor
    <2>2. pd[p].curs >= min(p) /\ pd[p].curs \in Int
      BY <1>0, <1>3, <2>1 DEF BelowTop, Descriptor
    <2> QED BY <2>1, <2>2
  <1>6. pd'[p].curs = pan_adjust(p, pd[p], n).curs
    BY <1>3
  <1>7. pd'[p].curs = pd[p].curs
    BY <1>3, <1>4, <1>5, <1>6, AdjustKeeps
  <1> QED BY <1>7 DEF p

(* A change of the window size and the return from a nested mode keep the
   cursor on its line, unless the line was taken away in the meantime
   (pan_adjust() as called by screen_draw_all() and control_loop()). *)
THEOREM CursorStays == Spec => CursorKept
  <1>1. Inv =>
          ((Resize \/ EndMode) =>
             LET p == stack'[Len(stack')]
             IN  pd[p].curs < pd[p].cnt => pd'[p].curs = pd[p].curs)
    BY KeepsCursor
  <1> QED BY <1>1, PanelInvariant, PTL DEF CursorKept

LEMMA PageMoves ==
  ASSUME Inv, Page, InWindow
  PROVE  /\ pd'[active].top - here.top \in -panlines .. panlines
         /\ pd'[active].curs # here.curs
  <1>0. alive
    BY DEF Page, cx_pan_pgup, cx_pan_pgdown
  <1>1. \A d : Shows(d) => pd'[active] = d
    BY <1>0, Here DEF Shows, Inv, Typed, DescriptorsTyped
  <1>2. CASE cx_pan_pgup
    <2>1. CASE here.curs > here.top /\ Shows([here EXCEPT !.curs = here.top])
      <3>1. pd'[active].top = here.top /\ pd'[active].curs = here.top
        BY <1>0, <1>1, <2>1, Here DEF Descriptor
      <3> QED BY <1>0, <2>1, <3>1, Here
    <2>2. CASE /\ ~ (here.curs > here.top)
               /\ Shows([here EXCEPT !.curs = PageUp(here), !.top = PageUp(here)])
      <3>1. /\ PageUp(here) \in Int /\ PageUp(here) < here.curs
            /\ here.curs = here.top /\ PageUp(here) >= here.top - panlines
        BY <1>0, <1>2, <2>2, Here DEF PageUp, cx_pan_pgup
      <3>2. pd'[active].top = PageUp(here) /\ pd'[active].curs = PageUp(here)
        BY <1>0, <1>1, <2>2, Here DEF Descriptor
      <3> QED BY <1>0, <3>1, <3>2, Here
    <2> QED BY <1>2, <2>1, <2>2 DEF cx_pan_pgup
  <1>3. CASE cx_pan_pgdown
    <2> DEFINE bottom == here.top + panlines - 1
               next == IF here.curs < bottom THEN bottom ELSE here.curs + panlines
               c == LIMIT_MAX(next, here.cnt - 1)
    <2>1. /\ c \in Int /\ here.curs < c /\ c <= here.top + 2 * panlines - 1
      BY <1>0, <1>3, Here DEF cx_pan_pgdown
    <2>2. Shows(FollowDown([here EXCEPT !.curs = c]))
      BY <1>3 DEF cx_pan_pgdown
    <2> HIDE DEF c
    <2>3. Shows(Key(here, LIMIT_MIN(here.top, c - panlines + 1), c))
      BY <1>0, <2>1, <2>2, Here, Followed
    <2>4. /\ pd'[active].top = LIMIT_MIN(here.top, c - panlines + 1)
          /\ pd'[active].curs = c
      <3>1. LIMIT_MIN(here.top, c - panlines + 1) \in Int
        BY <1>0, <2>1, Here
      <3> QED BY <1>0, <1>1, <2>1, <2>3, <3>1, Here, Moved
    <2> QED BY <1>0, <2>1, <2>4, Here
  <1> QED BY <1>2, <1>3 DEF Page

(* Paging shows every line: consecutive windows leave no line between them
   out, and a page key that is not ignored moves the cursor, in windows of
   one row and panels of one line too (cx_pan_pgup(), cx_pan_pgdown()). *)
THEOREM PagingIsComplete == Spec => NoLineSkipped
  <1>1. Inv => (Page /\ InWindow =>
                  /\ pd'[active].top - here.top \in -panlines .. panlines
                  /\ pd'[active].curs # here.curs)
    BY PageMoves
  <1> QED BY <1>1, PanelInvariant, PTL DEF NoLineSkipped
=============================================================================
