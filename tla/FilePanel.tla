------------------------------ MODULE FilePanel ------------------------------
(***************************************************************************)
(* The two file panels of CLEX: their listings, the selection marks, the   *)
(* panel filter and the exchange of the panels (list.c, filter.c,          *)
(* filepanel.c, select.c, the callers in cfg.c, sort.c and exec.c).        *)
(*                                                                         *)
(* One action is one key press handled by control_loop(): the handler and  *)
(* everything control_loop() does after it, the deferred filter_update()   *)
(* included.  A command that is entered is different: within one key press *)
(* it can read the directory several times (the key `t' of the prompt      *)
(* after a command, "br", "wcd" and "cdgit"), and the filter is updated    *)
(* after the last of them only.  There each reading is an action of its    *)
(* own.  Between any two actions other programs may change the directories *)
(* behind CLEX's back.                                                     *)
(*                                                                         *)
(* A panel's array of FILE_ENTRY pointers is abstracted to three sets of   *)
(* names: `shown' (entries 0 .. cnt-1), `saved' (cnt .. filt_cnt-1, only   *)
(* when the filter is on) and `marks' (the entries with the select bit).   *)
(* The counters that the program keeps beside the array are kept as they   *)
(* are, because they are what can go wrong: the array is scanned until a   *)
(* counter is satisfied, not until its end.                                *)
(*                                                                         *)
(* `stale' is a history variable, not a field of the program: the panel    *)
(* has been read under the filter, so filepanel_read() has added filt_sel  *)
(* to `selected', and filt_sel has not been computed again since.  No step *)
(* depends on it.                                                          *)
(***************************************************************************)
EXTENDS Integers, FiniteSets, Sequences

CONSTANTS
  Dirs,        \* directories
  Root,        \* the root directory, always accessible
  Home,        \* the user's home directory
  Above,       \* Above[d]: the proper ancestors of d, the nearest one first
  Files,       \* names of ordinary files and subdirectories
  Contents,    \* the sets of files that a directory may contain
  HiddenFiles, \* those of them that begin with a dot
  DotDirs,     \* the names "." and ".."
  Patterns,    \* filter expressions
  NoPattern,   \* the empty filter expression
  Incomplete,  \* patterns check_sre() rejects: an open bracket or quote
  Matches,     \* Matches[e]: the names that match the expression e
  HideModes,   \* the values of SHOW_HIDDEN
  SortKeys,    \* sort order together with the grouping of file types
  Unsorted,    \* the key of a listing that has not been sorted
  Unreliable,  \* directories that may become inaccessible
  External     \* directories that other programs change at any time

Names == Files \cup DotDirs

ASSUME DirsAssumption ==
  /\ {Root, Home} \subseteq Dirs
  /\ Unreliable \subseteq Dirs \ {Root}
  /\ Above \in [Dirs -> Seq(Dirs)]
  /\ \A d \in Dirs \ {Root} :
       Len(Above[d]) > 0 /\ Above[d][Len(Above[d])] = Root

ASSUME NamesAssumption ==
  /\ IsFiniteSet(Files) /\ IsFiniteSet(DotDirs)
  /\ Files \cap DotDirs = {} /\ HiddenFiles \subseteq Files
  /\ Contents \subseteq SUBSET Files

ASSUME PatternsAssumption ==
  /\ NoPattern \in Patterns \ Incomplete
  /\ Incomplete \subseteq Patterns
  /\ Matches \in [Patterns -> SUBSET Names]
  /\ Matches[NoPattern] = Names

ASSUME SettingsAssumption ==
  /\ HideModes \subseteq {"show", "hide_home", "hide_always"}
  /\ Unsorted \notin SortKeys
  /\ External \subseteq Dirs

VARIABLES
  world,       \* what opendir(), readdir() and chdir() would find now, and
               \* the SHOW_HIDDEN setting that directory_read() consults
  fpanel,      \* the two PANEL_FILE structures, panel_f1 and panel_f2
  ppanel_file, \* which of them is the primary panel
  sort_key,    \* panel_sort.order and the GROUP_FILES setting
  cmd,         \* the last reading of the command in progress, or "none"
  fault        \* "none", or the read of a wrong file entry that occurred

vars == <<world, fpanel, ppanel_file, sort_key, cmd, fault>>

PanelIds == {1, 2}
Other(p) == 3 - p

World == [contents : [Dirs -> Contents],
          access   : [Dirs -> {"ok", "noread", "gone"}],
          hide     : HideModes]

Panel == [dir : Dirs, shown : SUBSET Names, saved : SUBSET Names,
          marks : SUBSET Names, selected : Int, filt_sel : Int,
          filtering : 0 .. 2, filter : Patterns,
          sorted : SortKeys \cup {Unsorted}, expired : BOOLEAN,
          stale : BOOLEAN]

Entries(r) == r.shown \cup r.saved

(***************************************************************************)
(* What a scan of directory d lists: "." and ".." always, the hidden files *)
(* only if SHOW_HIDDEN allows it.                                          *)
(***************************************************************************)
Hiding(w, d) ==
  \/ w.hide = "hide_always"
  \/ w.hide = "hide_home" /\ d = Home

Visible(w, d) ==
  DotDirs \cup
    (IF Hiding(w, d) THEN w.contents[d] \ HiddenFiles ELSE w.contents[d])

Listing(w, d) == IF w.access[d] = "ok" THEN Visible(w, d) ELSE {}

-----------------------------------------------------------------------------
(* Reading a directory. *)

(***************************************************************************)
(* The marked entries met by a loop over the array that stops after n of   *)
(* them.  The displayed entries precede the saved ones, the order within   *)
(* each part is the sort order.  No result: the loop runs past the last    *)
(* entry.                                                                  *)
(***************************************************************************)
MarkedScan(r, n) ==
  {S \in SUBSET r.marks :
     /\ Cardinality(S) = n
     /\ S \subseteq r.shown \/ (r.marks \cap r.shown) \subseteq S}

(* Mutant: the marks on concealed files are not counted. *)
SuspendedCount_ShownOnly(r) == r.selected

(***************************************************************************)
(* filepanel_read(): suspend the filter, rebuild the array and resume the  *)
(* filter.  Marked entries that still exist keep their mark.  The result   *)
(* is the set of possible panels; it is empty when the loop over the       *)
(* marked entries leaves the listing.                                      *)
(***************************************************************************)
SuspendedCount(r) ==
  IF r.filtering = 0 THEN r.selected ELSE r.selected + r.filt_sel

Emptied(r) ==
  [r EXCEPT !.shown = {}, !.saved = {}, !.marks = {}, !.selected = 0]

Rebuilt(r, w, S) ==
  [r EXCEPT !.shown = Visible(w, r.dir), !.saved = {},
            !.marks = S \cap Visible(w, r.dir),
            !.selected = Cardinality(S \cap Visible(w, r.dir))]

directory_read(r, w) ==
  IF w.access[r.dir] = "ok"
    THEN {Rebuilt(r, w, S) : S \in MarkedScan(r, SuspendedCount(r))}
    ELSE {Emptied(r)}

filepanel_read(r, w, key) ==
  {[s EXCEPT !.sorted = IF r.filtering = 0 THEN key ELSE Unsorted,
             !.expired = FALSE,
             !.stale = r.filtering # 0 /\ r.filt_sel # 0]
     : s \in directory_read(r, w)}

-----------------------------------------------------------------------------
(* The filter. *)

(***************************************************************************)
(* filter_update_file() and the pan_adjust() that follows it.              *)
(***************************************************************************)
Filtered(r, key) ==
  LET match == Entries(r) \cap Matches[r.filter]
      rest  == Entries(r) \ match
  IN  [r EXCEPT !.shown = match, !.saved = rest,
                !.selected = Cardinality(r.marks \cap match),
                !.filt_sel = Cardinality(r.marks \cap rest),
                !.sorted = key, !.stale = FALSE]

filter_update(r, key) ==
  IF Entries(r) = {} \/ r.filter \in Incomplete
    THEN r
    ELSE Filtered(r, key)

(***************************************************************************)
(* filter_on_file() and filter_off_file().  The expression and filt_sel    *)
(* are not used while the filter is off, and filter_on_file() resets them; *)
(* here they have their reset values as long as the filter is off.         *)
(***************************************************************************)
filter_on(r) == [r EXCEPT !.filtering = 1]

(* Mutant: `selected' is not corrected when the concealed files return. *)
filter_off_KeepsCount(r, key) ==
  [r EXCEPT !.shown = Entries(r), !.saved = {}, !.sorted = key,
            !.filter = NoPattern,
            !.filtering = 0, !.filt_sel = 0]

filter_off(r, key) ==
  [r EXCEPT !.shown = Entries(r), !.saved = {}, !.sorted = key,
            !.filter = NoPattern,
            !.filtering = 0, !.selected = @ + r.filt_sel, !.filt_sel = 0]

(* Mutant: the filter is not updated after a reread. *)
Displayed_NoUpdate(r, key) == r

(* What control_loop() does for a panel that it starts to display. *)
Displayed(r, key) ==
  IF r.filtering = 0 THEN r ELSE filter_update(r, key)

(* list_directory(), then the filter_update() it has asked for. *)
Reread(r, w, key) == {Displayed(s, key) : s \in filepanel_read(r, w, key)}

-----------------------------------------------------------------------------
(* Selection: each changed mark changes the counter by one. *)

Mark(r, S) ==
  LET new == (S \ DotDirs) \ r.marks
  IN  [r EXCEPT !.marks = @ \cup new, !.selected = @ + Cardinality(new)]

(* Mutant: the counter is not decremented. *)
Unmark_KeepsCount(r, S) == [r EXCEPT !.marks = @ \ S]

Unmark(r, S) ==
  [r EXCEPT !.marks = @ \ S, !.selected = @ - Cardinality(r.marks \cap S)]

(* Mutant: the directories "." and ".." can be selected. *)
Toggle_DotDirs(r, S) ==
  LET old == r.marks \cap S
      new == S \ r.marks
  IN  [r EXCEPT !.marks = (@ \ old) \cup new,
                !.selected = @ + Cardinality(new) - Cardinality(old)]

Toggle(r, S) ==
  LET old == r.marks \cap S
      new == (S \ DotDirs) \ r.marks
  IN  [r EXCEPT !.marks = (@ \ old) \cup new,
                !.selected = @ + Cardinality(new) - Cardinality(old)]

-----------------------------------------------------------------------------
(* Building blocks of the actions. *)

pf == fpanel[ppanel_file]          \* the primary panel
other == fpanel[Other(ppanel_file)]

Running == fault = "none"

(* CLEX waits for a key. *)
Idle == Running /\ cmd = "none"

(* Only the primary panel changes. *)
SetPrimary(r) ==
  /\ fpanel' = [fpanel EXCEPT ![ppanel_file] = r]
  /\ UNCHANGED <<world, ppanel_file, sort_key, cmd, fault>>

(***************************************************************************)
(* Panel p becomes one of the panels S that a reading can return, if it    *)
(* does return.  The other panel is left in the state o, and it expires as *)
(* well when the user data were refreshed.                                 *)
(***************************************************************************)
Becomes(p, S, o) ==
  IF S = {}
    THEN fault' = "overrun" /\ UNCHANGED fpanel
    ELSE /\ \E s \in S, u \in BOOLEAN :
              fpanel' = [q \in PanelIds |->
                           IF q = p THEN s ELSE [o EXCEPT !.expired = @ \/ u]]
         /\ UNCHANGED fault

(* list_directory() of panel p, in the state r, and its filter_update() *)
list_directory(p, r, o, w, key) == Becomes(p, Reread(r, w, key), o)

Accessible(w, d) == w.access[d] # "gone"

(* The ancestor of d that the search in find_valid_cwd() ends with. *)
NearestAccessible(w, d) ==
  {Above[d][i] : i \in {j \in DOMAIN Above[d] :
                          /\ Accessible(w, Above[d][j])
                          /\ \A k \in 1 .. j - 1 : ~Accessible(w, Above[d][k])}}

(***************************************************************************)
(* find_valid_cwd(): the panel r leaves its inaccessible directory for the *)
(* nearest accessible ancestor.                                            *)
(***************************************************************************)
find_valid_cwd(r, w) ==
  {[r EXCEPT !.selected = 0, !.dir = d] : d \in NearestAccessible(w, r.dir)}

(* Mutant: the marks are carried to the new directory. *)
Moved_WithMarks(r, d) == [r EXCEPT !.dir = d]

(* changedir(): the new working directory is d. *)
Moved(r, d) == IF r.dir = d THEN r ELSE [r EXCEPT !.dir = d, !.selected = 0]

(***************************************************************************)
(* What changedir() makes of the panel r before it reads it: it has moved  *)
(* to the desired directory or, when getcwd() fails there and there is no  *)
(* way back, to wherever find_valid_cwd() leads.                           *)
(***************************************************************************)
Arrivals(r, w) ==
  {Moved(r, d) : d \in {e \in Dirs : Accessible(w, e)}}
    \cup (IF Accessible(w, r.dir) THEN {} ELSE find_valid_cwd(r, w))

(* Mutant: the other panel does not expire. *)
Expire_Nothing(r) == r

Expire(r) == [r EXCEPT !.expired = TRUE]

-----------------------------------------------------------------------------
(* Selection of files. *)

cx_select_toggle ==
  /\ Idle
  /\ \E f \in pf.shown : SetPrimary(Toggle(pf, {f}))

cx_select_invert == Idle /\ SetPrimary(Toggle(pf, pf.shown))

(* Two items of the main menu. *)
cx_select_allfiles == Idle /\ SetPrimary(Mark(pf, pf.shown))

cx_select_nofiles == Idle /\ SetPrimary(Unmark(pf, pf.shown))

(* Mutant: the focus is switched without a test. *)
FocusOff_NoTest(r) == [r EXCEPT !.filtering = @ + 1]

(***************************************************************************)
(* select_prepare() moves the focus off the filter.  The pattern is then   *)
(* applied to the displayed files, or the user gives up.                   *)
(***************************************************************************)
FocusOff(r) == [r EXCEPT !.filtering = IF @ = 1 THEN 2 ELSE @]

cx_select_files ==
  /\ Idle
  /\ \/ SetPrimary(FocusOff(pf))
     \/ \E e \in Patterns \ (Incomplete \cup {NoPattern}) :
          LET S == pf.shown \cap Matches[e]
          IN  \/ SetPrimary(FocusOff(Mark(pf, S)))
              \/ SetPrimary(FocusOff(Unmark(pf, S)))

-----------------------------------------------------------------------------
(* The filter keys. *)

TurnFilterOff == SetPrimary(filter_off(pf, sort_key))

(* ctrl-F *)
cx_filter ==
  /\ Idle
  /\ \/ pf.filtering = 0 /\ SetPrimary(filter_on(pf))
     \/ pf.filtering # 0 /\ pf.filter = NoPattern /\ TurnFilterOff
     \/ /\ pf.filtering # 0 /\ pf.filter # NoPattern
        /\ SetPrimary([pf EXCEPT !.filtering = 3 - @])

(* Enter while the focus is on the filter line. *)
FilterEnter == Idle /\ pf.filtering = 1 /\ TurnFilterOff

(* "panel filter" in the main menu *)
cx_filter_toggle ==
  /\ Idle
  /\ \/ pf.filtering = 0 /\ SetPrimary(filter_on(pf))
     \/ pf.filtering # 0 /\ TurnFilterOff

(* Any key that edits the filter expression. *)
FilterEdit ==
  /\ Idle
  /\ pf.filtering = 1
  /\ \E e \in Patterns \ {pf.filter} :
       SetPrimary(filter_update([pf EXCEPT !.filter = e], sort_key))

(***************************************************************************)
(* The paste menu inserts the name of the current file.  Its guard tests   *)
(* the panel of the menu and not the file panel.                           *)
(***************************************************************************)
cx_insert_filename ==
  /\ Idle
  /\ pf.shown = {}
  /\ fault' = "unlisted"
  /\ UNCHANGED <<world, fpanel, ppanel_file, sort_key, cmd>>

(***************************************************************************)
(* "$S" in a command template inserts the names of `selected' marked files *)
(* into the command line.  The panels do not change, but the loop may run  *)
(* past the last entry.                                                    *)
(***************************************************************************)
edit_macro ==
  /\ Idle
  /\ MarkedScan(pf, pf.selected) = {}
  /\ fault' = "overrun"
  /\ UNCHANGED <<world, fpanel, ppanel_file, sort_key, cmd>>

-----------------------------------------------------------------------------
(* Reading the directories again. *)

cx_files_reread ==
  /\ Idle
  /\ list_directory(ppanel_file, pf, other, world, sort_key)
  /\ UNCHANGED <<world, ppanel_file, sort_key, cmd>>

(***************************************************************************)
(* config_apply() after a change of SHOW_HIDDEN or of another setting that *)
(* requires a reread; GROUP_FILES or COLLATION may have changed together   *)
(* with it.                                                                *)
(***************************************************************************)
SetAndReread ==
  /\ Idle
  /\ \E h \in HideModes, k \in SortKeys :
       /\ world' = [world EXCEPT !.hide = h]
       /\ sort_key' = k
  /\ list_directory(ppanel_file, pf, Expire(other), world', sort_key')
  /\ UNCHANGED <<ppanel_file, cmd>>

changedir ==
  /\ Idle
  /\ \E r \in Arrivals(pf, world) :
       list_directory(ppanel_file, r, other, world, sort_key)
  /\ UNCHANGED <<world, ppanel_file, sort_key, cmd>>

(* ctrl-X *)
cx_files_exchange ==
  /\ Idle
  /\ ppanel_file' = Other(ppanel_file)
  /\ \/ /\ ~Accessible(world, other.dir)
        /\ \E r \in find_valid_cwd(other, world) :
             list_directory(Other(ppanel_file), r, pf, world, sort_key)
     \/ /\ Accessible(world, other.dir) /\ other.expired
        /\ list_directory(Other(ppanel_file), other, pf, world, sort_key)
     \/ /\ Accessible(world, other.dir) /\ ~other.expired
        /\ fpanel' = [fpanel EXCEPT ![Other(ppanel_file)] =
                                      Displayed(other, sort_key)]
        /\ UNCHANGED fault
  /\ UNCHANGED <<world, sort_key, cmd>>

(* Mutant: files of the same name are deselected without being compared. *)
Compared_ByName(these, those, same) ==
  Unmark(Mark(these, these.shown), these.shown \cap those.shown)

(***************************************************************************)
(* compare_panels(): list_both_directories(), then all files are selected  *)
(* in both panels and the matching pairs are deselected again.  `same' is  *)
(* the set of names whose files are equal at the chosen level; `these' is  *)
(* the one and `those' the other of the two reread panels.                 *)
(***************************************************************************)
Compared(these, those, same) ==
  Unmark(Mark(these, these.shown), these.shown \cap those.shown \cap same)

compare_panels(same) ==
  /\ Idle
  /\ IF \/ Reread(pf, world, sort_key) = {}
        \/ Reread(other, world, sort_key) = {}
       THEN fault' = "overrun" /\ UNCHANGED fpanel
       ELSE /\ \E r1 \in Reread(pf, world, sort_key),
                  r2 \in Reread(other, world, sort_key) :
                 fpanel' = [q \in PanelIds |->
                   IF q = ppanel_file
                     THEN [Compared(r1, r2, same) EXCEPT !.sorted = sort_key]
                     ELSE Compared(r2, r1, same)]
            /\ UNCHANGED fault
  /\ UNCHANGED <<world, ppanel_file, sort_key, cmd>>

-----------------------------------------------------------------------------
(* Commands.  The filter is updated by the last step, FinishCommand. *)

(* What commands and other programs may do to the directories in D. *)
Change(D) ==
  \E c \in [D -> Contents],
     a \in [D \cap Unreliable -> {"ok", "noread", "gone"}] :
    world' = [world EXCEPT
                !.contents = [d \in Dirs |-> IF d \in D THEN c[d] ELSE @[d]],
                !.access = [d \in Dirs |-> IF d \in DOMAIN a THEN a[d] ELSE @[d]]]

(***************************************************************************)
(* execute(): the command may change any directory.  It is called for a    *)
(* command of the user and, from within, when the user answers the prompt  *)
(* at its end with `t'.                                                    *)
(***************************************************************************)
execute ==
  /\ Running
  /\ cmd # "cd"
  /\ Change(Dirs)
  /\ Becomes(ppanel_file, filepanel_read(pf, world', sort_key), Expire(other))
  /\ cmd' = "ran"
  /\ UNCHANGED <<ppanel_file, sort_key>>

(* "br" and "wcd": changedir() for the lines that the command has written. *)
execute_cd ==
  /\ Running
  /\ cmd \in {"ran", "cd"}
  /\ \E r \in Arrivals(pf, world) :
       Becomes(ppanel_file, filepanel_read(r, world, sort_key), other)
  /\ cmd' = "cd"
  /\ UNCHANGED <<world, ppanel_file, sort_key>>

(* "cdgit": changedir() and a new sort order, then "git" is executed. *)
execute_cdgit ==
  /\ Idle
  /\ \E r \in Arrivals(pf, world), k \in SortKeys :
       /\ sort_key' = k
       /\ Becomes(ppanel_file,
                  {[s EXCEPT !.sorted = k] : s \in filepanel_read(r, world, k)},
                  Expire(other))
  /\ cmd' = "cdgit"
  /\ UNCHANGED <<world, ppanel_file>>

(* The command is done and control_loop() updates the filter. *)
FinishCommand ==
  /\ Running
  /\ cmd # "none"
  /\ fpanel' = [fpanel EXCEPT ![ppanel_file] = Displayed(@, sort_key)]
  /\ cmd' = "none"
  /\ UNCHANGED <<world, ppanel_file, sort_key, fault>>

-----------------------------------------------------------------------------
(* The sort order. *)

cx_sort_set ==
  /\ Idle
  /\ \E k \in SortKeys \ {sort_key} :
       /\ sort_key' = k
       /\ fpanel' = [fpanel EXCEPT
                       ![ppanel_file].sorted = k,
                       ![Other(ppanel_file)] = Expire(@)]
  /\ UNCHANGED <<world, ppanel_file, cmd, fault>>

(* Mutant: only the primary panel is sorted again. *)
SetGrouping_PrimaryOnly ==
  /\ Idle
  /\ \E k \in SortKeys \ {sort_key} :
       /\ sort_key' = k
       /\ fpanel' = [fpanel EXCEPT ![ppanel_file].sorted = k]
  /\ UNCHANGED <<world, ppanel_file, cmd, fault>>

(* config_apply() after a change of GROUP_FILES or COLLATION *)
SetGrouping ==
  /\ Idle
  /\ \E k \in SortKeys \ {sort_key} :
       /\ sort_key' = k
       /\ fpanel' = [q \in PanelIds |-> [fpanel[q] EXCEPT !.sorted = k]]
  /\ UNCHANGED <<world, ppanel_file, cmd, fault>>

-----------------------------------------------------------------------------
(* The environment, and the specification. *)

(* Other programs change a directory while CLEX waits for a key. *)
BackgroundChange ==
  /\ Running
  /\ \E d \in External : Change({d})
  /\ UNCHANGED <<fpanel, ppanel_file, sort_key, cmd, fault>>

(* A wrong entry has been read: what follows is not modelled. *)
Faulted == ~Running /\ UNCHANGED vars

(* files_initialize() *)
NewPanel(d) ==
  [dir |-> d, shown |-> {}, saved |-> {}, marks |-> {}, selected |-> 0,
   filt_sel |-> 0, filtering |-> 0, filter |-> NoPattern,
   sorted |-> Unsorted, expired |-> TRUE, stale |-> FALSE]

(* files_main_prepare() has read the primary panel. *)
Init ==
  /\ world \in [contents : [Dirs -> Contents], access : [Dirs -> {"ok"}],
                hide : HideModes]
  /\ sort_key \in SortKeys
  /\ ppanel_file = 1
  /\ \E d1, d2 \in Dirs :
       fpanel = [p \in PanelIds |->
         IF p = 1 THEN [Rebuilt(NewPanel(d1), world, {}) EXCEPT
                          !.sorted = sort_key, !.expired = FALSE]
                  ELSE NewPanel(d2)]
  /\ cmd = "none"
  /\ fault = "none"

SelectKeys ==
  \/ cx_select_toggle \/ cx_select_invert \/ cx_select_allfiles
  \/ cx_select_nofiles \/ cx_select_files

FilterKeys == cx_filter \/ FilterEnter \/ cx_filter_toggle \/ FilterEdit

ReadKeys ==
  \/ cx_files_reread \/ SetAndReread \/ changedir \/ cx_files_exchange
  \/ \E same \in SUBSET Files : compare_panels(same)

Commands == execute \/ execute_cd \/ execute_cdgit \/ FinishCommand

Next ==
  \/ SelectKeys \/ FilterKeys \/ ReadKeys \/ Commands
  \/ cx_insert_filename \/ edit_macro \/ cx_sort_set \/ SetGrouping
  \/ BackgroundChange \/ Faulted

Spec == Init /\ [][Next]_vars

-----------------------------------------------------------------------------
(* Invariants. *)

TypeOK ==
  /\ world \in World
  /\ fpanel \in [PanelIds -> Panel]
  /\ ppanel_file \in PanelIds
  /\ sort_key \in SortKeys
  /\ cmd \in {"none", "cdgit", "ran", "cd"}
  /\ fault \in {"none", "overrun", "unlisted"}

(***************************************************************************)
(* The displayed and the saved part of a listing are disjoint, nothing is  *)
(* saved when the filter is off, and only listed files are marked, never   *)
(* "." or "..".  Every rearrangement of the FILE_ENTRY array (list.c,       *)
(* filter.c, select.c) has to respect it.                                  *)
(***************************************************************************)
WellFormed(r) ==
  /\ r.shown \cap r.saved = {}
  /\ r.filtering = 0 => r.saved = {}
  /\ r.marks \subseteq Entries(r) \ DotDirs

PanelsWellFormed == \A p \in PanelIds : WellFormed(fpanel[p])

(***************************************************************************)
(* The counters `selected' and `filt_sel' are the numbers of the marked    *)
(* entries among the displayed and among the saved ones.  All loops over   *)
(* the marked files (directory_read(), edit_macro()) stop by the counter.  *)
(* The only way to a wrong counter is a reading under the filter that no   *)
(* counting has followed yet.                                              *)
(***************************************************************************)
Counted(r) ==
  /\ r.selected = Cardinality(r.marks \cap r.shown)
  /\ r.filtering # 0 => r.filt_sel = Cardinality(r.marks \cap r.saved)

SelectedCount == \A p \in PanelIds : ~fpanel[p].stale => Counted(fpanel[p])

(***************************************************************************)
(* directory_read() and edit_macro() read no entry beyond the end of the   *)
(* listing, except when filt_sel has been added to `selected' before and   *)
(* has not been computed again.                                            *)
(***************************************************************************)
NoOverrun == fault = "overrun" => \E p \in PanelIds : fpanel[p].stale

(***************************************************************************)
(* Step 1 of directory_read() is meant to process "selected files already  *)
(* listed in the panel" (list.c:666), `selected' being "number of selected *)
(* entries" (clex.h:294): it meets no others.                              *)
(***************************************************************************)
ScansStayListed == fault # "overrun"

(***************************************************************************)
(* While the filter of the primary panel is on, the panel displays exactly *)
(* the entries that match the expression on the filter line, whatever      *)
(* caused the listing to be rebuilt (filter.c, list.c), unless the         *)
(* expression is not complete yet or a command is in progress.             *)
(***************************************************************************)
FilterApplied ==
  cmd = "none" /\ pf.filtering # 0 /\ pf.filter \notin Incomplete
    => pf.shown = Entries(pf) \cap Matches[pf.filter]

(***************************************************************************)
(* In a directory that only CLEX changes, a panel that has not expired     *)
(* lists what is there: every command, every change of the settings and    *)
(* every move either rereads a panel or marks it as expired.               *)
(***************************************************************************)
ListingCurrent ==
  Running => \A p \in PanelIds :
    \/ fpanel[p].dir \in External
    \/ fpanel[p].expired
    \/ Entries(fpanel[p]) = Listing(world, fpanel[p].dir)

(***************************************************************************)
(* A panel that has not expired displays its files in the current sort     *)
(* order, whatever caused the listing to be rebuilt, the order to be       *)
(* changed or both (sort.c, cfg.c, exec.c).  A panel that is read under    *)
(* the filter is sorted by the filter update: not before the end of a      *)
(* command, and not as long as the expression is not complete.             *)
(***************************************************************************)
SortDue(p) ==
  /\ fpanel[p].filtering # 0
  /\ \/ fpanel[p].filter \in Incomplete
     \/ p = ppanel_file /\ cmd # "none"

SortedDisplay ==
  Running => \A p \in PanelIds :
    LET r == fpanel[p]
    IN  r.expired \/ r.shown = {} \/ r.sorted = sort_key \/ SortDue(p)

(***************************************************************************)
(* A reread of a panel, whatever has happened to its directory since the   *)
(* last one, loses no mark of a file that still exists and marks nothing   *)
(* else, filter or not (filepanel_read(), step 1 of directory_read()).     *)
(* This needs a counter that is right, and the counters are right as long  *)
(* as no reading has left them to be counted again.                        *)
(***************************************************************************)
MarksSurviveReread ==
  \A p \in PanelIds :
    LET r == fpanel[p]
    IN  ~r.stale =>
          {s.marks : s \in Reread(r, world, sort_key)}
            = {r.marks \cap Listing(world, r.dir)}

(***************************************************************************)
(* A comparison leaves exactly those displayed files marked of which there *)
(* is no equal counterpart displayed in the other panel: the marks, the    *)
(* filters and the listings from before it have no influence.  And the     *)
(* counters agree with the marks, unless filter_update() could not count.  *)
(***************************************************************************)
ComparisonResult ==
  \A p \in PanelIds, same \in SUBSET Files :
    \A r \in Reread(fpanel[p], world, sort_key),
       s \in Reread(fpanel[Other(p)], world, sort_key) :
      LET c == Compared(r, s, same)
      IN  /\ c.marks \cap c.shown
               = (c.shown \ DotDirs) \ (s.shown \cap same)
          /\ ~r.stale => Counted(c)

-----------------------------------------------------------------------------
(* Action properties. *)

(***************************************************************************)
(* When a panel whose filter is off moves to another directory, no mark    *)
(* moves with it (changedir(), find_valid_cwd()).                          *)
(***************************************************************************)
MarksStayUnfiltered ==
  [][\A p \in PanelIds :
       fpanel'[p].dir # fpanel[p].dir /\ fpanel[p].filtering = 0
         => fpanel'[p].marks = {}]_vars

(* The same whether the filter is on or off. *)
MarksStayInDirectory ==
  [][\A p \in PanelIds :
       fpanel'[p].dir # fpanel[p].dir => fpanel'[p].marks = {}]_vars
=============================================================================
