# A TLA+ model of CLEX

CLEX is a curses file manager: one process, one thread, two file panels, a
command line, and a stack of nested modes (menus, history, bookmarks, help,
...).  It reacts to one key at a time.  Three things make it hard:

* **State that several functions keep consistent by hand** over a long sequence
  of keys: counters beside an array, a cursor and a window beside a list, an
  index into a list that other functions reorder, a ring of undo records, a
  flag that outlives the edit it belongs to.
* **A world that changes between two keys**: other programs change, remove or
  protect the directories that the panels show, and other CLEX processes write
  the same bookmark file.
* **Commands**: CLEX, the child that it forks, the command and the user who
  stops and resumes it share one terminal.

All paths below are relative to `src/src/`.

## Inventory

| Part | Files | State | Operations | What is hard | What makes it correct |
|---|---|---|---|---|---|
| File panels | `list.c` `filter.c` `filepanel.c` `select.c` | two `PANEL_FILE`s: `files[]`, `cnt`, `filt_cnt`, `selected`, `filt_sel`, `filtering`, the filter text, `expired`, `dir` | read, filter on/off/update, select, change directory, exchange, compare | a reread under a filter; directories changing or becoming inaccessible; scans that stop by a counter | counters equal what they count; marks survive a reread; listings are current or expired |
| Panels | `panel.c`, `inout.c` (panel area) | `PANEL_DESC`: `cnt`, `top`, `curs`, `min`; static `save_top`, `save_curs`, `save_ptype` | cursor keys, `pan_adjust()`, full and partial redraw, window size | partial redraw after anything else; very low windows; empty panels; extra lines | cursor visible; no blank bottom; the screen shows the panel |
| Control loop | `control.c` | `clex_mode` stack, `panel`, `textline`, `next_mode` | nested modes, key dispatch | state that changed below a nested mode | what comes back is consistent |
| Command history | `history.c` | `history[]` (pointers), `hs_cnt`, `pn_index`, `save_line`, `panel_hist` | save, ctrl-P/ctrl-N, delete, filter, new size | rotating pointers; an index into a list that is reordered | a list without duplicates; the index follows its command |
| Directory panel | `directory.c` | `dirlist[]`, saved cursor positions | `filepos_save()`, `filepos_set()`, panel with filter and ordering | LRU replacement at the limit; cursor on an extra line | no duplicates, most recent first |
| Line editing | `edit.c` | `TEXTLINE`: text, cursor, offset | insert, delete, words, macros `$F $S $1 ...` | cursor and offset bounds; macros reading other panels | cursor within the text |
| Undo | `undo.c` | ring of `UNDO_LEVELS` records per line | `undo_before/after`, undo, redo | merging, ring overflow, switching of lines | undo then redo is the identity |
| Completion | `completion.c` | candidates, their common part | parse the line, collect, insert | quoting, common part | inserted text extends what was typed |
| Matching | `match.c` | compiled pattern | `check_sre`, `match`, `substring` | bracket syntax | agrees with a reference matcher |
| Sort order | `sort.c` | `panel_sort.order` | set, cycle, sort | both panels must follow | panels are sorted or expired |
| Configuration | `cfg.c` | `current/initial/new` values, `changed`, `saveit` | edit, apply, save, cancel | flags left over from a cancelled edit | what is applied is what was accepted |
| Bookmarks | `bookmarks.c` | `bm_list[]`, `bm_cnt`, `changed`, the file's mtime | list, edit, move, delete, save, revert | several CLEX processes share one file | no update lost silently |
| Command execution | `exec.c` `tty.c` `signals.c` | process group, terminal modes | fork, wait, stop/continue, `cd` interception | parent/child races for the terminal | the terminal always comes back |
| Help | `help.c` | pages, ring of 16 visited pages | follow a link, go back | the ring overwrites | back returns to the page before |
| User data | `userdata.c` | cached passwd/group data | expire, refresh | stale cache | a refresh expires both panels |
| Start, strings, title, language | `start.c` `ustring.c` `sdstring.c` `util.c` `lang.c` `xterm_title.c` | - | initialisation, strings, output | - | - |

Interactions: `control_loop()` calls a handler per key, between `undo_before()`
and `undo_after()`, and afterwards the deferred `filter_update()`; handlers of
nested modes reach the file panel through the global `ppanel_file` while `panel`
is their own; `execute()` and `config_apply()` reread the primary panel and
expire the other one; `changedir()` and the exchange of the panels save and
restore positions in `dirlist[]`; `execute_cmd()` writes the history,
`edit_nu_kill()` and `hist_reconfig()` reset its index; `config_apply()` is
reached from the configuration panel and from the sort panel; every mode starts
and ends with `pan_adjust()` and a redraw.

## Modules

| Module | Role |
|---|---|
| `FilePanel`, `MCFilePanel` | the two file panels; two directories, one or two files, the patterns |
| `Match` | the matcher of patterns, and the rules for shell patterns it is compared with |
| `PanelPatterns` | the file panels together with the matcher; `MCFilePanel` is its small instance |
| `Panel`, `MCPanel` | cursor, window and drawing of all panels; nested modes |
| `HistoryList` | abstract: what the command history promises |
| `History`, `MCHistory` | the command history and the configuration of its size, refines `HistoryList` |
| `UndoStack` | abstract: what undo and redo promise |
| `EditLine`, `MCEditLine` | the command line with undo and completion, refines `UndoStack` |
| `DirList`, `MCDirList` | the visited directories, the directory panel, everything that changes the directory |
| `Bookmarks`, `MCBookmarks` | several sessions and one bookmark file |
| `Exec`, `MCExec` | CLEX, its child, the command, the terminal, signals |
| `FilePanelProofs`, `PanelProofs`, `HistoryProofs`, `EditLineProofs`, `DirListProofs`, `BookmarksProofs`, `ExecProofs`, `MatchProofs` | theorems about the module of that name |

A name in a module is the name in the source where it is that function or
variable; the `map` in `PROJECT.json` gives the lines of every definition.
Operators `X_Variant` are faulty versions of `X` that show what the properties
are able to detect; no specification uses them.

### FilePanel

`fpanel[1]` and `fpanel[2]` are `panel_f1` and `panel_f2`.  The array `files[]`
becomes three sets: `shown` (entries `0 .. cnt-1`), `saved` (`cnt ..
filt_cnt-1`) and `marks` (entries with `select`).  The counters `selected` and
`filt_sel` stay integers, because the code trusts them: `directory_read()` and
`edit_macro()` walk over the array until they have met `selected` marked entries.
`MarkedScan(r, n)` is that walk; its result is a set, because the sort order that
decides which entries come first is left out, and it is empty if the walk leaves
the listing.  `fault` records that a wrong entry was read; the model stops there.

One action is one key with everything that `control_loop()` does after it.
`changedir` and `cx_files_exchange` include the search for an accessible ancestor
(`find_valid_cwd`), `SetAndReread` and `compare_panels` the rereads.

A command is different.  One `<enter>` can read the directory several times before
the filter is updated: `execute()` reads it and then asks for a key, which may be
`t` for another `execute()` (`exec.c:336`, `tty.c:113`); `wcd` and `br` call
`changedir()` for each line that the command has written (`exec.c:605`), and
`cdgit` calls it before the command (`exec.c:548`).  Each of these readings is an
action (`execute`, `execute_cd`, `execute_cdgit`), `cmd` tells which one was the
last, and `FinishCommand` is the deferred update (`control.c:681`).  A reading
under the filter adds `filt_sel` to `selected`, whether or not it has been added
before.  `stale` marks a panel in which that addition has not been followed by a
new count: because the command goes on, because the expression is incomplete, or
because the directory was unreadable.  It is auxiliary, no action depends on it.

While the filter is off `filter` and `filt_sel` have no meaning in the
code (`filter_on_file()` resets them); the model gives them their reset values.
A pattern is only the set of names it matches, and `Incomplete` patterns are
those that `check_sre()` rejects.  `world` is what the system calls would
return; `BackgroundChange` is another program.  `list_directory()` may find the
user data changed, which expires the other panel: the model lets it happen at
any time.

`SelectedCount`, `NoOverrun` and `MarksSurviveReread` say that the counters are
exact, the scans end and the marks are kept in every panel that is not `stale`:
the additions at `list.c:740` are the only cause of a wrong counter.
`ScansStayListed`, the same without the exception, is false (see Divergences).

### Panel

`pd` holds all descriptors, `stack` the panels of the nested `control_loop()`
instances.  `screen` and `save` are what the terminal shows and what the static
variables of `draw_panel()` remember, so that the partial redraw is checked
against a complete one.  Drawing a line whose number is below `min` would index
the array of extra lines before its start: then `alive` becomes FALSE and the
model stops.  Operations that replace a panel's contents (a listing, a filter,
a page of help) are one action, `Relist`, with every cursor that a name or a
remembered position can yield.  The sort panel and the bookmark manager are
prepared anew each time they open; when they are left, the model gives their
descriptors the initial values, which nobody reads.

Three handlers move the cursor without moving the window (`cx_bm_mng_up`,
`cx_bm_mng_down`, `cx_sort_cycle_H`), two shorten the list without adjusting it
(`cx_bm_mng_del` except on the last line, `cx_bm_mng_revert`).  In a low window, or
with more bookmarks than rows, the cursor is out of sight afterwards.  So
`CursorVisible` and `NoBlankBottom` are properties of steps: every other key
keeps what was good, and every handler that calls `pan_adjust()` makes it good
again, from whatever these handlers have left.  The row of a cursor that is out
of the window is written by `draw_panel(1)` too, outside of the panel area; that
is not part of `screen`.

### History

The entries are numbered as they lie in the allocated block; `history` is the
array of pointers that `hist_save()` rotates.  `Recorded` stands for the
rewriting of `wcd`, `br` and `cdgit` commands before they are saved.  The
history panel with its filter and the command line are included as far as they
read or write the history.  `Listed` mirrors the loop of `hist_panel()`, one entry
per round.  The text of the command line can be anything after
`EditLine`; undo and completion are among its causes.  `save_line` is given an
empty value while nobody reads it.

The size of the history is a variable of the configuration: `new` is its value
in the configuration panel, `changed` the flag that `config_changes()` sets, and
`hs_alloc` the current value.  `config_set_num` is the sort panel setting
*another* variable: it calls `config_apply()` with the flag of the size as it
happens to be.

`ImplementsList` states that the pointer array implements `HistoryList` under
the mapping `list = <<*history[0], ..., *history[hs_cnt-1]>>`, `size =
hs_alloc`.

### EditLine

One action is one round of the control loop: `undo_before()`, the editing
function, `undo_after()`.  Characters are model values.  The ring `undo` with
`undo_base`, `undo_levels`, `redo_levels` and `last_op` is as in `undo.c`; slots
that are not in use hold `Unused`, and a position that no later operation reads is
0.  `tell_edit_op()` guesses the operation from two states of the line, and
`Merge` decides from the last operation whether an edit joins it.  Completion
with several candidates inserts their common part, opens a panel in a nested
control loop and leaves `disable` set: what was inserted is not recorded
(`Unrecorded`).  A macro with `$c` inserts its text and leaves the cursor
somewhere in it (`InsertText`).  Lines from the history complete the whole line
(`COMPL_TYPE_HIST`), everything else the word between two `Separators`.  `unseen`
remembers that such a change happened since the newest
record.

`ImplementsUndo` is the refinement of `UndoStack`: the states of the line form a
path, undo and redo walk along it, an edit cuts off what lies ahead, and the ring
forgets only the oldest state.  `JoinedEditsAreOne` is about the decision to join:
the newest record and the line differ by one run of insertions or deletions.  The
displayed part of a long line (`edit_adjust()`) does not depend on the past;
`CursorOnScreen` checks its computation for all lines up to a length.

### DirList

Names of directories are sequences of character codes, because the code compares
them character by character (`/a` is a prefix of `/ab`, but not above it).
`dirlist` is the code's list, the most recent first, with the file under the
cursor; a file panel is reduced to its directory, its names and the name under the
cursor.  `filepos_save()` and `filepos_set()` are parts of every action that calls
them, in the order of the calls: one key may save two or three directories.  The
entries of the directory panel are pointers to the names in the list.  When an
arrow key on the empty input line visits a directory below the open panel
(`cx_edit_left`, `cx_edit_right`), the entry that drops out of the list is
recycled: `us_copy()` writes the new name into the same memory if its size fits,
and frees the old memory otherwise (`ustring.c:68-93`).  `Rename` is either of the
two; a pointer to freed memory shows `Freed`, and choosing it leads to any
directory, or fails.  `dir_main_panel()` sorts the names, then compacts them:
`Sorted` inserts them one by one in the order of `qcmp()`, which gives the result of
`qsort()` because no two of them are equal.  `qcmp()` compares characters by their
codes (collation off; `strcoll()` is not modelled), and the part of `PanelCovers`
about subdirectories that follow their directory is claimed only where no
character of a name precedes the slash (`SlashIsLeast`).  `place` is auxiliary:
the last position in each directory, without a limit; `unsaved` marks the
directories that were left in a way that saves nothing.

### Bookmarks

An action is one access to the file or one key: sessions are interleaved between
`stat()` and `fopen()`, between `fopen()` that truncates and `fclose()` that
writes, and between `fclose()` and the `stat()` after it.  A session may end
anywhere and start again.  `clock` is in seconds, the unit of the modification
time.  `clash` is auxiliary: the file was written while another session was
accessing it or in the second in which another one had accessed it.  Without it
`StaleNoticed` is false, because a comparison of modification times cannot see
more.

### Exec

An action is one system call or the code between two of them.  `clex.pc` is where
CLEX is in `execute_cmd()`, `execute()`, `tty_press_enter()` or `err_exit()`, and
`clex.calls` the stack of nested calls of `execute()`: the key `t` in
`tty_press_enter()` starts an interactive shell, and after it the user is asked
again.  The child is a process of its own between `fork()` and `execv()`.
Anybody may stop, resume or kill the child, the command may take the terminal to
another process group and leave it in any mode, and CLEX itself may get a
terminating signal.

### Match

`parse_expression()` tags every character by three state machines (quoting,
metacharacters, ranges); each is a recursive function over the expression
(`QuotingStates`, `MetaStates`, `run` in `Ranges`).  `check_match()` is a walk with
three results, a function over the position in the expression whose value is
the results for every position in the word: `Result` is one character of the
expression.  A star that finds no continuation answers "never", so that the stars
before it give up as well.  The local flags of the walk (`inlist`, `inverse`,
`listmatch`) are functions of the symbols that it has passed.

The reference is written independently of the machines, by the rules: `Text`
removes the quotes, `Lists` finds the lists with their members, and
`ShellMatch` follows all positions that the pattern can reach in a word.  What
counts as a quote, a list or a range, and what only looks like one, is told by
one rule, `Outermost`: it counts if it does not lie in what an earlier one has
started.  Two corners are as in the code: after a range, a hyphen
stands for itself and starts no other range (`[a-c---x]`), and a bracket that
is the first member of a list does not close it.

## Runs

| Run | Shows |
|---|---|
| `file_panel_marks` | marks, counters and filter stay consistent as long as what a reading adds is counted again, and a comparison depends on nothing before it, while other programs change one directory between any two keys, another one becomes unreadable or vanishes, expressions are incomplete and commands read several times |
| `file_panel_fresh` | a panel is current and sorted, or it is expired, with a directory that may vanish, hidden files, incomplete expressions and both settings that matter, alone or together; the matcher agrees with the shell rules |
| `panel_nested` | cursor, window, partial redraw with nested modes and resizing; file panel of 0, 1 or 4 lines, menu of 3, 0 to 3 bookmarks with two extra lines, sort panel of 13, windows of 3 or 4 |
| `history` | the history is a list without duplicates, its panel and its index follow it, while its size is configured |
| `edit_line` | the ring of undo records implements a walk along the states of the line; the cursor of a long line is displayed |
| `dir_list` | the list forgets only the least recent directories, the cursor returns to where it was, the directory panel covers what was visited, and its pointers are good while the list is not full |
| `bookmarks` | a session whose list differs from the file notices it, unless both access the file in one second |
| `exec` | CLEX has its terminal whenever it reads a key, a command runs in the foreground, and CLEX comes back |
| `file_panel_carry`, `file_panel_overrun`, `bookmarks_revert`, `history_cancel` | have to fail, see Divergences |

### Bounds

*File panels.* Two directories are enough for a parent, a child and an exchange;
two files are one that matches a pattern and one that does not, so that both
counters can be positive at once.  In `file_panel_marks` other programs change
the root at any time and a command changes both directories; the subdirectory can
become unreadable or vanish.  `MarksBound` limits the search there: both panels hold
marks, a filter and a current listing only while all files exist, all directories are
accessible, the expressions are complete and no command is in progress; otherwise one
of them is plain (no marks, no filter, to be read when it is entered), and the
other one may also go on with a counter that is wrong.  Nothing of this limits the proofs.  In
`file_panel_fresh`, where the world also has access rights and a setting, one file is enough because
presence is all that the property asks.

*Matcher.* All expressions of up to 4 characters out of 9 (every character that
the machines distinguish), of up to 5 out of `* ? a b`, all lists of up to 4
characters out of `^ ] - a b c`, and up to 4 more characters after a range: about
10000, each with all words of up to 2 letters and a few more.  They are constant, so that
one state is enough to evaluate them; `MatchProofs` has no such bounds.

*Panels.* Windows of three lines are the smallest that CLEX accepts (12 lines,
four of them for the command line); panels are empty, shorter, equal and longer
than the window, and three bookmarks with their two extra lines are more than both
windows hold.  At most one file is marked (`OneMark`): the drawing of a line depends on
its own mark only.  The nesting is bounded by `Depth`: a deeper mode meets the same
`Enters`.

*History.* Sizes two and three with four commands (one is recorded as another
one) overflow and reorder; three entries are the fewest for which a rotation is
not an exchange.  Two commands are interchangeable, which is used as a symmetry;
one can fail.

*Edit line.* Two characters, one of them the space; lines of up to three; a ring of
two slots, so that it overflows, and after an overflow the base is in either slot;
the space is the only separator; joined insertions of less than three characters.  `CursorOnScreen`: all lines
of up to 40 columns, areas of 9, 10 and 14, prompts of 0, 3 and 4, steps of 4.

*Directories.* `/`, `/a`, `/a/b` and `/ab`, three of which can be remembered: the
list overflows, a directory and its parent, and two names with a common
beginning that is not a component.  `/a` may become unreadable or disappear.  The
plain file `/a/b/b` is there for the viewer; the position on it is followed only
inside of its directory and until the list is full (`FileStays`).  The panel shows two or four directories, one of them uncompacted.

*Bookmarks.* Two sessions, two directories, lists of up to two, three seconds:
enough for two writes and a look in different seconds.  Sessions and directories
are interchangeable, which is used as a symmetry.

*Commands.* `MaxCalls = 3`: the command and two shells from two questions, so that
a nested call returns into a nested call.  The number of signals is not bounded.

### Fairness

Nothing in CLEX has to happen unless the user presses a key, so every
specification but `Exec` is safety only.  `Exec` claims `ComesBack`: once a command
has been started, CLEX returns to its panels or ends.  It assumes:

* `WF(ClexStep)`: the scheduler runs CLEX.
* `SF(ChildStep)`, `SF(CommandEnds)`: the child and the command may be stopped and
  resumed any number of times, so that they are not continuously enabled; a
  process that can run again and again makes progress, and the command ends
  some day.  That it is resumed again is not assumed: this is what the loop in
  `execute()` has to do.
* `WF(user_confirm)`, `WF(kbd_getany)`, `SF(PressEnter)`: the user answers a
  question; `t` may be pressed any number of times (up to `MaxCalls`), but not
  for ever instead of `<enter>`.

No fairness is assumed for signals and for what the command does to the terminal.
`CHECK_DEADLOCK FALSE` in `Exec.cfg`: CLEX may end.

### Divergences

These runs have to fail: each states what the code, in a comment or on the screen,
or its help says, and finds a sequence of steps after which it is not so.

| Run | Violated | Cause |
|---|---|---|
| `file_panel_carry` | `MarksStayInDirectory` | `changedir()` resets `selected` but not `filt_sel`: with the filter on, marks move to files of the same name in another directory |
| `file_panel_overrun` | `ScansStayListed` | within one command the directory is read twice before the filter is updated (`t` after the command, `wcd`, `br`, `cdgit`): `filt_sel` is added to `selected` twice, and the next scan over the marked files leaves the listing |
| `bookmarks_revert` | `RevertedNotSaved` | `cx_bm_mng_revert()` empties the list before it reads the file; if that fails, leaving the manager saves the empty list |
| `history_cancel` | `CancelKeepsSize` | the flag `changed` of an accepted edit is never cleared: a later, cancelled value is applied when the sort panel sets something else, and the history is cleared (even if the size is the same) |

Found while modelling, without a run; the models contain them unless noted,
and the properties name them as exceptions:

* An incomplete pattern: `filter_update_file()` returns before it counts and
  sorts (`filter.c:169`), so a reread adds `filt_sel` to `selected`
  (`list.c:740`) and leaves the panel unsorted: `stale` and `SortDue`.
* An unreadable directory under a filter resets `selected` but not `filt_sel`
  (`list.c:655`); the next reread scans past the listing (`list.c:670`): `stale`.
* `$F` in the paste menu tests the `cnt` of the menu instead of that of the file
  panel (`edit.c:568`): `fault = "unlisted"`.
* alt-End in an empty file panel moves the cursor to line -1 (`panel.c:54`), which
  does not exist there: the exception in `DrawsExistingLines`.
* In the bookmark manager and in the sort panel of a low window the cursor leaves
  the window, and a deletion or a revert leaves rows blank that could be filled
  (`bookmarks.c:262`, `:311`, `:325`, `:340`, `sort.c:69`).  `draw_panel(1)` then
  also writes the rows of cursors outside of the panel area, which is not modelled.
* Deleting the last history entry does not move the index (`history.c:212`):
  ctrl-P and ctrl-N recall a deleted command.
* A `br` command whose directory cannot be entered returns between
  `curses_stop()` and `curses_restart()` (`exec.c:606`): CLEX goes on in its panels
  in text mode (`clex.left` in `Exec`).
* The warnings of `list_directory()` during `wcd` and the file viewer are
  written as if curses were active while the terminal is in text mode
  (`exec.c:326-331`).
* A child that gets SIGTERM between `fork()` and `execv()` still has CLEX's
  handler: it restores the terminal of a CLEX that is running, and exits with 0,
  "Command successful".
* Bookmarks: two changes in the same second are not noticed.  The notes on
  concurrent sessions in the help (`help_en.hlp:799`) do not mention it.
* The exchange of the panels does not save the position (`filepanel.c:267`);
  `list_both_directories()` leaves the secondary directory on top of the list
  (`directory.c:246-248`).
* Left and right arrow in the directory panel, with the input line empty, change
  the directory below a panel whose entries may be recycled (`edit.c:132`, `:142`,
  `directory.c:352`): the panel then shows another name, or reads freed memory.
* `$c` moves the cursor back after `edit_update()` and does not call
  `edit_adjust()` (`edit.c:575`, `:590`): the offset is then that for the end of
  the text, and the cursor of a long line may not be displayed.  `CursorOnScreen` is
  about `edit_adjust()` and does not see it.
* The filter of a file panel saves and restores its position (`filter.c:190`,
  `:204`, `:276`).  `DirList` does not model this filter; the entry is that of the
  primary panel's directory, which every other action saves in the same way.
* `qcmp()` (`directory.c:137`) is said to compare "one directory component", which
  "is not the same as comparing strings" (`directory.c:135`, `:156`).  But it
  copies `len1` and `len2` characters counted from the start of the whole name, not
  of the component, and orders all names as `strcmp()` does: this is the theorem
  `SortedLikeStrings`.  So `/a/x` does not follow `/a` if `/a-b` is listed too.
* What completion inserts before it opens its panel is not recorded for undo.

## Proofs

Every safety property that a passing run checks is a theorem for all
values of the constants; so are both refinements.  No theorem assumes more than
the `ASSUME`s of its module.  The proofs about
state machines have the same shape: the conjunction of facts called `Inv` (or a stronger one with the name
given below) holds initially, every action preserves it, and it implies the
property; an action property follows from `Inv` in the first state of a step.

### FilePanelProofs

Any number of files and directories, any patterns, complete or not, directories
that become unreadable, other programs that change them.

| Theorem | Property |
|---|---|
| `PanelsTyped`, `PanelsCorrect` | `TypeOK`, `PanelsWellFormed` |
| `CountersCorrect`, `ScansStayInside`, `MarksCorrect`, `ComparisonCorrect` | `SelectedCount`, `NoOverrun`, `MarksSurviveReread`, `ComparisonResult` |
| `FilterIsApplied`, `DisplayIsSorted` | `FilterApplied`, `SortedDisplay` |
| `ListingIsCurrent`, `MarksStay` | `ListingCurrent`, `MarksStayUnfiltered` |

* `Inv` is `TypeOK` and `PanelsWellFormed` (`PanelsInvariant`).
* `CountInv` (`CountersInvariant`) adds that no scan has left the listing of a panel
  that was not `stale`, and that both panels are `Exact`: counted unless stale, and
  with a `filt_sel` of zero while the filter is off.  `SelectedCount` alone is not
  inductive: `filter_on_file()` and a reread add to and compare with a `filt_sel`
  that it says nothing about while the filter is off.  In the middle of an action a
  panel is only `Loose` (after `Moved` the counter `selected` is zero, but the marks
  are still in the array); `ScanEnds` shows that the scan of a loose panel ends,
  `RereadExact` that a reread makes it exact again.  Cardinalities of finite sets
  carry the counting.
* `DisplayInv` (`DisplayInvariant`) adds that *both* panels are `Prepared`: they have
  their filter applied unless that is still due, a reset filter where it is off, and
  the current order unless they are expired.  `FilterApplied` speaks of the primary
  panel only, but an exchange makes the other one primary, and while its filter is
  off displays it as it was left.
* `CurrentInv` is `Inv` and `ListingCurrent`.
* `PanelsStep` says what a step can do to a panel: it is left alone apart from marks
  and cursor (`Cosmetic`), sorted, displayed with another filter, read (`Fresh`, or
  `JustRead` while a command goes on), or updated at the end of a command
  (`Finished`).  It is proved once for every action, and the properties of filter,
  order, contents and marks follow from it.

### PanelProofs

Any heights, numbers of lines and depths, empty panels, any number of bookmarks,
and windows that are lower than every panel.

* `PanelTyped`, `LinesExist`: `TypeOK`, `DrawsExistingLines`.
* `PanelCorrect`, `WindowFilled`: the action properties `CursorVisible` and
  `NoBlankBottom`.  Every handler has a lemma: afterwards the active descriptor is
  `Fitted`, because `pan_adjust()` makes any descriptor `Good`, or the handler
  has `Kept` it in its window and the window filled.  The handlers that do neither
  are named in the properties.
* `ScreenCorrect`: `ScreenCurrent`.  The partial redraw is right only if the
  remembered cursor, window and type are those of the active panel and the rest of
  the screen is current already: the invariant `Inv` (`PanelInvariant`) joins `save`
  and `screen` to the descriptor of the active panel.  It cannot say that the cursor
  is visible; it says that the active descriptor is `Placed` (cursor and window do
  not start above the first line, and the cursor is not below the last one).
* `CursorStays`: `CursorKept`.  It needs `BelowTop`: no cursor, not even that of a
  waiting panel, is above its first line.
* `PagingIsComplete`: `NoLineSkipped`.

### HistoryProofs

Any sizes of the history, commands and filters.  `Inv` has five parts: the
pointers are a permutation (`Pointers`), the entries in use come first and are
distinct, with the deleted ones behind them (`Entries`), the index is on an entry
with a text (`Browsing`), the panel's list is what `hist_panel()` makes of the present
history (`Listing`), and the configured size is one that is allowed (`Config`).

* `HistoryTyped`, `EntriesKept`, `HistoryListed`: `TypeOK`, `EveryEntryOnce`,
  `PanelListsHistory`.
* `CursorFollowsEntry`, `IndexFollowsCommand`: the action properties `CursorKeepsEntry`
  and `IndexFollows`.
* `HistoryIsList`: `ImplementsList`, the refinement of `HistoryList`.  A rotation of
  pointers is the abstract "move to the front", because no two entries in use
  hold the same command.

### EditLineProofs

Any number of undo levels and any characters.

* `LineTyped`: `TypeOK`, from `Typed`, which says which slots of the ring hold states.
* `CursorIsOnScreen`: `CursorOnScreen`, for every line, prompt, area and step for
  which the module's assumptions hold.
* `RingIsWalk`: `ImplementsUndo`, the refinement of `UndoStack`.  `PastForm` and
  `FutureForm` describe the two sequences that the ring stands for slot by slot,
  so that each ring operation becomes an operation on sequences.
* `JoinedEditsCorrect`: `JoinedEditsAreOne`.  The property says that *some* piece
  distinguishes the line from its newest record; the invariant `Joined` says where it
  is: it ends at the end of the last insertion, or the last deletion left the place
  where it was.  Only so can the next edit be joined to it.

### DirListProofs

Any directories, listings and sizes.  `Inv` has the parts `AccessOK`, `ListOK` (each
directory once, within the limit), `FilePanelsOK` and `DirPanelsOK`.

* `DirListTyped`: `TypeOK`.  `NamesStayValid`: `NamesFreed`; a list that has room
  recycles nothing (`Recycled` is empty), so `Rename` changes nothing.
  `RecentStay`: `RecentFirst`, from `Forgets`, which says
  what a sequence of `filepos_save()` calls may forget, and composes.
* `PositionsReturn`: `PlaceRestored`.  The invariant `Placed` has to follow where a
  position is: in the list, or still in the primary panel.
* `PanelIsComplete`: `PanelCovers`.  `Considers` is the invariant of the compaction
  loop: after *n* names everything that passed the filter is in the panel, itself or
  by a subdirectory, or the panel is full.  That the
  subdirectories follow their directory uses that the names are sorted
  (`SortedIncreases`) and that, if the slash precedes all other characters, what lies
  between a directory and its subdirectory is a subdirectory too (`Between`).
* `SortedLikeStrings`: `qcmp()` orders any two names as `strcmp()` does.

### BookmarksProofs

Any number of sessions, any limit, any time: `BookmarksTyped`, `StalenessNoticed`
(`TypeOK`, `StaleNoticed`).  The invariant says that as long as there was no
clash every session `Agrees` with the file: its list is that of the file, or the
remembered time is not, or it is in the middle of an access, for each point of
which `Agrees` says what it has done already.

### ExecProofs

Any depth of nested calls of `execute()`: `ExecutionTyped`, `TerminalIsReady`,
`CommandHasTerminal` (`TypeOK`, `TerminalReady`, `CommandInForeground`).  `Inv` says
for every point of the program whether there is a child and whether CLEX is inside
of `execute()` (`Flow`), who owns the terminal and in which mode (`Terminal`), how
far the child and its parent are with the process group that both set up
(`Group`), and to where the calls on the stack return (`Calls`).

### MatchProofs

Any alphabet in any order, any expressions and words: `MatcherCorrect`
(`MatchIsShell`), from the constant statement `PatternsCorrect`.  The argument
follows `parse_expression()`, one machine after the other, with the same kind of
invariant for each: what the state says about the character read last.

* Quotes.  `QuotesInvariant`: the machine is in a state other than `NORMAL`
  exactly inside of one quote that counts, and in `DOUBLE_BACKSLASH` exactly after
  an unescaped backslash.  So the symbols are those of `Text` (`QuotedIsText`),
  and the final state tells whether all quotes are closed (`ClosedText`).
* Lists.  `ListsInvariant`: the state tells which part of a list is read.  So
  the tags are those of the rules (`TaggedIsTagged`), and the final state tells
  whether all lists are closed (`ClosedLists`).
* Ranges.  `RangesInv` with `RangeState`: the lower limit and the hyphen that the
  machine remembers are those of the range that may begin there, and the symbols
  before them are settled; what it has tagged is what the rules say
  (`RangesIsParsed`).  A range ends before the next can start (`EndBefore`): this
  is where a chained range would break the proof.
* Flags.  At the end of a list, `listmatch` and `inverse` are the set of the
  list and its inversion (`MatchFlag`, `InverseFlag`).
* The walk.  `NeverRows`: after "never" no later position of the word gives
  "yes"; therefore the first decided result decides (`StarResult`).  From
  inside a list the answer is "yes" only if the list stands for the character
  before (`ListYes`).  With both, the answer is "yes" exactly if the rest matches
  from one of the positions that can be reached (`ReachInv`), from the first
  character to the last (`MatchReaches`).
* The leading dot (`DotFlag`).

The library's theorems on induction and recursion have an operator as a
parameter.  `MatchProofs`, `HistoryProofs` and `DirListProofs` therefore
begin with induction stated for a set of numbers (`NatSetInduction`) and with the
existence of the functions that the models define recursively (`RunExists`,
`Recursion`), both proved from the existence of a least element.

### Only model-checked

`ComesBack` alone, because it is liveness under fairness.

The violations under Divergences are counterexamples and need no proof.

## Plan

Done: the modules above, their runs, and the theorems.  Left:

1. Theorems of the form "the code's order of calls is sufficient" for the exchange of
   panels in `DirList`: which directories it may forget.
2. Modelling: the ring of visited help pages, the dispatch of keys by
   the tables of `control.c`, the comparison function of the sort, the flag `saveit`
   with the configuration file.

## Not modelled

* Output: text layout, colours, the format of the columns, the text of the title
  and of all messages.
* Parsers: the configuration file, the help file, `check_cd()`, the detection of
  the shell, the syntax of the command line that selects a kind of completion.
* `help.c`: a parser and a small ring of pages that is documented to drop the
  oldest one.
* `userdata.c`: a copy of the system's tables; `FilePanel` and `DirList` let every
  reread find them changed or not.
* The comparison function of the nine sort orders: `FilePanel` only records by
  which order a panel was sorted.
* Memory allocation, string buffers, language support, start options.
