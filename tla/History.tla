------------------------------- MODULE History -------------------------------
(***************************************************************************)
(* The command history of CLEX (history.c), the command line as far as the *)
(* history reads and writes it (edit.c, exec.c), the history panel with    *)
(* its filter (filter.c), and the configuration of its size (cfg.c).       *)
(*                                                                         *)
(* The program keeps an array of pointers into a block of entries and      *)
(* reorders the pointers; the entries themselves are reused.  Entries are  *)
(* numbered as they lie in the block; history[i] of the code is            *)
(* history[i + 1] here, and the same holds for panel_hist.hist[].          *)
(* A filter is the set of the commands that contain the string.            *)
(***************************************************************************)
EXTENDS Integers, Sequences, FiniteSets

CONSTANTS
  Cmds,      \* commands
  Empty,     \* the empty command line
  Recorded,  \* Recorded[c]: what the history records when c is executed; the
             \* commands "wcd", "br" and "cdgit" are rewritten before that
  Results,   \* Results[c]: whether the recorded command c has failed
  Sizes,     \* the permitted values of H_SIZE
  Filters    \* filter strings, the empty one (all commands) included

ASSUME CmdsAssumption == Empty \notin Cmds /\ Recorded \in [Cmds -> Cmds]
ASSUME ResultsAssumption == Results \in [Cmds -> (SUBSET BOOLEAN) \ {{}}]
ASSUME HistorySizesAssumption == Sizes \subseteq Nat \ {0} /\ Sizes # {}
ASSUME FiltersAssumption == Cmds \in Filters /\ Filters \subseteq SUBSET Cmds

VARIABLES
  history,    \* the array of pointers to entries
  entry,      \* the entries: cmd, failed
  hs_cnt,     \* entries in use
  pn_index,   \* index for previous/next cmd, -1 = not browsing
  save_line,  \* for temporary saving of the command line; Empty when there
              \* is no browsing, because nothing reads it then
  line_cmd,   \* the command line
  mode,       \* "FILE", "HIST" or "CFG": the file panel, the history panel
              \* or the configuration panel
  hist,       \* panel_hist.hist[], the entries listed in the panel
  curs,       \* the cursor of the history panel, -1 = the extra line
  filter,     \* the filter of the history panel
  new,        \* the value of H_SIZE in the configuration panel; hs_alloc
              \* when nothing reads it any more
  changed     \* the flag of H_SIZE: it differed when last compared

listvars == <<history, entry, hs_cnt>>
panelvars == <<mode, hist, curs, filter>>
cfgvars == <<new, changed>>
vars == <<listvars, pn_index, save_line, line_cmd, panelvars, cfgvars>>

(* hist_reconfig() makes it the current value of H_SIZE; nothing else sets
   either of them. *)
hs_alloc == Len(history)
Lines == Cmds \cup {Empty}
cmd(i) == entry[history[i + 1]].cmd

(* hist_reset_index() and all other assignments to pn_index *)
SetIndex(i) ==
  /\ pn_index' = i
  /\ save_line' = IF i = -1 THEN Empty ELSE save_line

-----------------------------------------------------------------------------
(* Functions of history.c *)

(* hist_reconfig(): a new block of entries, none of them in use; US_INIT
   leaves them without a text. *)
Block(n) == [i \in 1 .. n |-> [cmd |-> Empty, failed |-> FALSE]]

(* Mutant: the index is not reset. *)
hist_reconfig_KeepsIndex(n) ==
  /\ history' = [i \in 1 .. n |-> i] /\ entry' = Block(n) /\ hs_cnt' = 0
  /\ UNCHANGED <<pn_index, save_line>>

hist_reconfig(n) ==
  /\ history' = [i \in 1 .. n |-> i] /\ entry' = Block(n) /\ hs_cnt' = 0
  /\ SetIndex(-1)

(* Mutant: the filter is not applied. *)
Listed_Unfiltered(h, n, f) == SubSeq(h, 1, n)

(* hist_panel(): the entries in use that match the filter, in their order;
   listed[i] is the list after i rounds of the loop. *)
Listed(h, n, f) ==
  LET listed[i \in Nat] ==
        IF i = 0 THEN <<>>
        ELSE IF entry[h[i]].cmd \in f THEN Append(listed[i - 1], h[i])
        ELSE listed[i - 1]
  IN  listed[n]

(* Mutant: the cursor counts the entries that the filter leaves out. *)
Cursor_CountsAll(h, n, f) ==
  IF curs \notin 0 .. Len(hist) - 1 THEN 0
  ELSE IF \E i \in 1 .. n : h[i] = hist[curs + 1]
  THEN (CHOOSE i \in 1 .. n : h[i] = hist[curs + 1]) - 1 ELSE curs

(* hist_panel(): the cursor goes to the entry it was on, or to the place
   where that entry would be.  An entry just deleted is not found. *)
Cursor(h, n, f) ==
  IF curs \notin 0 .. Len(hist) - 1 THEN 0
  ELSE IF \E i \in 1 .. n : h[i] = hist[curs + 1]
  THEN Len(Listed(h, (CHOOSE i \in 1 .. n : h[i] = hist[curs + 1]) - 1, f))
  ELSE curs

(* pan_adjust(): the cursor is brought into bounds. *)
InBounds(c, n) == IF c >= n THEN n - 1 ELSE IF c < -1 THEN -1 ELSE c

(* hist_panel() and pan_adjust(), with the list h of n entries. *)
hist_panel(h, n, f) ==
  /\ hist' = Listed(h, n, f)
  /\ curs' = InBounds(Cursor(h, n, f), Len(Listed(h, n, f)))

(* hist_save(): the entry for command c is the one that holds c, or the
   first unused one, or the last one: the loop stops at the first of them. *)
SlotFor(c) ==
  CHOOSE k \in 1 .. hs_alloc :
    /\ k = hs_cnt + 1 \/ cmd(k - 1) = c \/ k = hs_alloc
    /\ \A i \in 1 .. k - 1 : i # hs_cnt + 1 /\ cmd(i - 1) # c

(* Mutant: the entry on the top is overwritten instead of being moved down. *)
ToTop_Lost(h, k) == [i \in DOMAIN h |-> IF i <= k THEN h[1] ELSE h[i]]

(* The pointers before it move down by one. *)
ToTop(h, k) ==
  [i \in DOMAIN h |-> IF i = 1 THEN h[k] ELSE IF i <= k THEN h[i - 1] ELSE h[i]]

hist_save(c, failed) ==
  LET k == SlotFor(c)
  IN  /\ history' = ToTop(history, k)
      /\ entry' = [entry EXCEPT ![history[k]] = [cmd |-> c, failed |-> failed]]
      /\ hs_cnt' = IF k = hs_cnt + 1 THEN hs_cnt + 1 ELSE hs_cnt

-----------------------------------------------------------------------------
(* The command line; it can be edited in both panels. *)

(* Typing, pasting, completion, undo: whatever changes the text. *)
EditLine ==
  /\ mode # "CFG"
  /\ line_cmd' \in Lines \ {line_cmd}
  /\ UNCHANGED <<listvars, pn_index, save_line, panelvars, cfgvars>>

(* ctrl-U: edit_nu_kill() resets the index, too. *)
cx_edit_kill ==
  /\ mode # "CFG"
  /\ line_cmd' = Empty
  /\ SetIndex(-1)
  /\ UNCHANGED <<listvars, panelvars, cfgvars>>

-----------------------------------------------------------------------------
(* File panel *)

(* <enter>: cx_files_enter() and execute_cmd(); after the execution the line
   is cleared, unless a rewritten command names a directory that cannot be
   entered.  When the execution is refused nothing changes. *)
execute_cmd ==
  /\ mode = "FILE" /\ line_cmd # Empty
  /\ \E failed \in Results[Recorded[line_cmd]] : hist_save(Recorded[line_cmd], failed)
  /\ SetIndex(-1)
  /\ \/ line_cmd' = Empty
     \/ Recorded[line_cmd] # line_cmd /\ UNCHANGED line_cmd
  /\ UNCHANGED <<panelvars, cfgvars>>

(* <enter> on the alias of a command template: execute_cmd() replaces the
   line by the expanded template and executes nothing. *)
expand_alias ==
  /\ mode = "FILE" /\ line_cmd # Empty
  /\ line_cmd' \in Lines
  /\ SetIndex(-1)
  /\ UNCHANGED <<listvars, panelvars, cfgvars>>

(* ctrl-N *)
cx_hist_next ==
  /\ mode = "FILE" /\ pn_index # -1
  /\ SetIndex(pn_index - 1)
  /\ line_cmd' = IF pn_index = 0 THEN save_line ELSE cmd(pn_index - 1)
  /\ UNCHANGED <<listvars, panelvars, cfgvars>>

(* ctrl-P *)
cx_hist_prev ==
  /\ mode = "FILE" /\ pn_index < hs_cnt - 1
  /\ pn_index' = pn_index + 1
  /\ save_line' = IF pn_index = -1 THEN line_cmd ELSE save_line
  /\ line_cmd' = cmd(pn_index + 1)
  /\ UNCHANGED <<listvars, panelvars, cfgvars>>

(* alt-H: control_loop() and hist_prepare(), which starts with no filter. *)
hist_prepare ==
  /\ mode = "FILE"
  /\ mode' = "HIST"
  /\ filter' = Cmds
  /\ hist' = Listed(history, hs_cnt, Cmds)
  /\ curs' = InBounds(IF pn_index > 0 THEN pn_index ELSE 0, hs_cnt)
  /\ UNCHANGED <<listvars, pn_index, save_line, line_cmd, cfgvars>>

-----------------------------------------------------------------------------
(* History panel *)

(* Cursor keys, see module Panel. *)
MoveCursor ==
  /\ mode = "HIST"
  /\ curs' \in (-1 .. Len(hist) - 1) \ {curs}
  /\ UNCHANGED <<listvars, pn_index, save_line, line_cmd, mode, hist, filter, cfgvars>>

(* The filter string is edited, or the filter is turned off. *)
filter_update ==
  /\ mode = "HIST"
  /\ filter' \in Filters \ {filter}
  /\ hist_panel(history, hs_cnt, filter')
  /\ UNCHANGED <<listvars, pn_index, save_line, line_cmd, mode, cfgvars>>

OnEntry == mode = "HIST" /\ curs \in 0 .. Len(hist) - 1

(* The panel's arrays are left as they are; hist_prepare() makes new ones
   before they are read again. *)
LeavePanel ==
  /\ mode' = "FILE" /\ hist' = <<>> /\ curs' = -1 /\ filter' = Cmds

(* <enter>, with an empty line the entry is copied. *)
cx_hist_enter ==
  /\ OnEntry
  /\ line_cmd' = IF line_cmd = Empty THEN entry[hist[curs + 1]].cmd ELSE line_cmd
  /\ LeavePanel
  /\ UNCHANGED <<listvars, pn_index, save_line, cfgvars>>

(* ctrl-C, or <enter> on the extra line *)
cx_trans_return ==
  /\ mode = "HIST"
  /\ LeavePanel
  /\ UNCHANGED <<listvars, pn_index, save_line, line_cmd, cfgvars>>

(* Mutant: the entries below a deleted one are not counted down. *)
IndexAfter_Stays(del) == IF pn_index = del THEN -1 ELSE pn_index

(* cx_hist_del(): the loop runs to the new value of hs_cnt only, so that it
   does not see the deletion of the last entry. *)
IndexAfter(del) ==
  IF del >= hs_cnt - 1 THEN pn_index
  ELSE IF pn_index > del THEN pn_index - 1
  ELSE IF pn_index = del THEN -1
  ELSE pn_index

(* Mutant: the pointer to the deleted entry is not kept. *)
Removed_Lost(h, k) ==
  [i \in DOMAIN h |-> IF i < k \/ i >= hs_cnt THEN h[i] ELSE h[i + 1]]

(* The pointers after the k-th move up, the k-th goes after the last one. *)
Removed(h, k) ==
  [i \in DOMAIN h |-> IF i < k \/ i > hs_cnt THEN h[i]
                      ELSE IF i = hs_cnt THEN h[k] ELSE h[i + 1]]

(* <esc> <del> *)
cx_hist_del ==
  LET k == CHOOSE i \in 1 .. hs_cnt : history[i] = hist[curs + 1]
  IN  /\ OnEntry
      /\ history' = Removed(history, k)
      /\ hs_cnt' = hs_cnt - 1
      /\ SetIndex(IndexAfter(k - 1))
      /\ hist_panel(Removed(history, k), hs_cnt - 1, filter)
      /\ UNCHANGED <<entry, line_cmd, mode, filter, cfgvars>>

-----------------------------------------------------------------------------
(* Configuration: the panel, and the settings in the sort panel *)

(* alt-C *)
config_prepare ==
  /\ mode = "FILE"
  /\ mode' = "CFG"
  /\ new' = hs_alloc
  /\ UNCHANGED <<listvars, pn_index, save_line, line_cmd, hist, curs, filter, changed>>

(* The value is edited, or set to the default or to the original one. *)
SetNew ==
  /\ mode = "CFG"
  /\ new' \in Sizes \ {new}
  /\ UNCHANGED <<listvars, pn_index, save_line, line_cmd, panelvars, changed>>

(* The value of the flag after config_changes() *)
config_changes == new # hs_alloc

(* config_apply(), with the flag given *)
config_apply(differs) ==
  IF differs THEN hist_reconfig(new) ELSE UNCHANGED <<listvars, pn_index, save_line>>

(* "Accept": config_changes() and config_apply() *)
cx_config_save ==
  /\ mode = "CFG"
  /\ mode' = "FILE"
  /\ changed' = config_changes
  /\ config_apply(config_changes)
  /\ UNCHANGED <<line_cmd, hist, curs, filter, new>>

(* "Cancel" *)
CancelConfig ==
  /\ mode = "CFG"
  /\ mode' = "FILE"
  /\ new' = IF changed THEN new ELSE hs_alloc
  /\ UNCHANGED <<listvars, pn_index, save_line, line_cmd, hist, curs, filter, changed>>

(* The sort panel sets another variable, with this flag as it is. *)
config_set_num ==
  /\ mode = "FILE" /\ changed
  /\ config_apply(changed)
  /\ UNCHANGED <<line_cmd, panelvars, cfgvars>>

-----------------------------------------------------------------------------
Init ==
  /\ \E n \in Sizes : history = [i \in 1 .. n |-> i] /\ entry = Block(n)
  /\ hs_cnt = 0 /\ pn_index = -1
  /\ save_line = Empty /\ line_cmd = Empty
  /\ mode = "FILE" /\ hist = <<>> /\ curs = -1 /\ filter = Cmds
  /\ new = hs_alloc /\ changed = FALSE

LineKeys == EditLine \/ cx_edit_kill
FileKeys == execute_cmd \/ expand_alias \/ cx_hist_next \/ cx_hist_prev
PanelKeys == MoveCursor \/ filter_update \/ cx_hist_enter \/ cx_trans_return \/ cx_hist_del
Configure == config_prepare \/ SetNew \/ cx_config_save \/ CancelConfig \/ config_set_num

Next == LineKeys \/ FileKeys \/ hist_prepare \/ PanelKeys \/ Configure

Spec == Init /\ [][Next]_vars

-----------------------------------------------------------------------------
(* Properties *)

(* Types; the entries in use hold commands, and while the user browses the
   history, the index is that of an entry with a text: an entry in use or a
   deleted one, never one of a new block. *)
TypeOK ==
  /\ hs_alloc \in Sizes
  /\ history \in [1 .. hs_alloc -> 1 .. hs_alloc]
  /\ entry \in [1 .. hs_alloc -> [cmd : Lines, failed : BOOLEAN]]
  /\ hs_cnt \in 0 .. hs_alloc
  /\ \A i \in 0 .. hs_cnt - 1 : cmd(i) \in Cmds
  /\ pn_index \in -1 .. hs_alloc - 1
  /\ pn_index >= 0 => cmd(pn_index) \in Cmds
  /\ save_line \in Lines /\ line_cmd \in Lines
  /\ mode \in {"FILE", "HIST", "CFG"}
  /\ new \in Sizes /\ changed \in BOOLEAN
  /\ filter \in Filters
  /\ curs \in -1 .. Len(hist) - 1

(* Saving and deleting reorder the pointers: no entry of the block is ever
   lost, none is pointed to twice. *)
EveryEntryOnce ==
  \A i, j \in 1 .. hs_alloc : history[i] = history[j] => i = j

(* The history panel lists the entries in use that match the filter, the
   most recent first, also after a deletion under an active filter. *)
PanelListsHistory ==
  mode = "HIST" =>
    /\ \A i \in 1 .. Len(hist) :
         /\ entry[hist[i]].cmd \in filter
         /\ \E k \in 1 .. hs_cnt : history[k] = hist[i]
    /\ \A k, l \in 1 .. hs_cnt :
         k <= l /\ {cmd(k - 1), cmd(l - 1)} \subseteq filter =>
           \E i, j \in 1 .. Len(hist) :
             i <= j /\ hist[i] = history[k] /\ hist[j] = history[l]
    /\ Len(hist) <= hs_cnt

(* Deleting another entry does not disturb the browsing: the index follows
   the command that was recalled last. *)
IndexFollows ==
  [][cx_hist_del /\ pn_index \in 0 .. hs_cnt - 1
       /\ history[pn_index + 1] # hist[curs + 1]
     => pn_index' >= 0 /\ history'[pn_index' + 1] = history[pn_index + 1]]_vars

(* Editing the filter keeps the cursor on its entry as long as the entry is
   listed. *)
CursorKeepsEntry ==
  [][filter_update /\ OnEntry /\ entry[hist[curs + 1]].cmd \in filter'
     => curs' \in 0 .. Len(hist') - 1 /\ hist'[curs' + 1] = hist[curs + 1]]_vars

(* "Cancel": "No configuration change" (start.c): a new size of the history
   is one that was accepted in the configuration panel. *)
CancelKeepsSize == [][hs_alloc' # hs_alloc => cx_config_save]_vars

(* The array of pointers implements the list of commands that HistoryList
   describes. *)
HL == INSTANCE HistoryList WITH
        list <- [i \in 1 .. hs_cnt |-> entry[history[i]]], size <- hs_alloc

ImplementsList == HL!ListSpec
=============================================================================
