------------------------------ MODULE Bookmarks ------------------------------
(***************************************************************************)
(* The bookmarks (bookmarks.c): several sessions of CLEX, each with its    *)
(* copy of the list, share one file.  A session rereads the file when its  *)
(* modification time has changed, and overwrites it with its own list.     *)
(*                                                                         *)
(* Each action is one access to the file or one key press: the sessions    *)
(* are interleaved between stat() and open(), between fopen() that         *)
(* truncates the file and fclose() that writes it, and between fclose()    *)
(* and the stat() after it.  All lines of the file have the same length.   *)
(***************************************************************************)
EXTENDS Integers, Sequences

CONSTANTS
  Sessions,  \* processes of the same user
  Dirs,      \* directory names
  Limit,     \* BM_ENTRIES_LIMIT
  MaxTime    \* bound: the last second

ASSUME LimitAssumption == Limit \in Nat \ {0} /\ MaxTime \in Nat \ {0}

VARIABLES
  file,   \* lines, mtime (0: there is no file), and whether it can be read
  clock,  \* in seconds, the unit of mtime
  s,      \* the sessions
  clash   \* auxiliary: the file was written while another session was
          \* accessing it, or in a second in which another one had done so

vars == <<file, clock, s, clash>>

(***************************************************************************)
(* The fields of a session: bm_list, changed and bm_file_mod are static    *)
(* variables, mod is the local variable of that name;                      *)
(*   mode - the panel: "LIST", "MNG" (the manager) or "FILE" for all       *)
(*          others; "START" and "ENTER" before the file was looked at;     *)
(*   pc   - the next access to the file: "read", "write", "stat", or "";   *)
(*   reverted - auxiliary: nothing was changed in the manager after the    *)
(*          last use of "revert" there                                     *)
(***************************************************************************)
NewSession ==
  [bm_list |-> <<>>, changed |-> FALSE, bm_file_mod |-> 0, mod |-> 0,
   mode |-> "START", pc |-> "", reverted |-> FALSE]

At(p, mode) == s[p].mode = mode /\ s[p].pc = ""
Becomes(p, r) == s' = [s EXCEPT ![p] = r]

Shown(r) ==
  [r EXCEPT !.pc = "", !.mod = 0,
            !.mode = CASE @ = "START" -> "FILE" [] @ = "ENTER" -> "LIST" [] OTHER -> @]

-----------------------------------------------------------------------------
(* Reading *)

StatToRead(r) == [r EXCEPT !.pc = "read", !.mod = file.mtime]

bm_initialize(p) ==
  /\ At(p, "START")
  /\ Becomes(p, StatToRead(s[p]))
  /\ UNCHANGED <<file, clock, clash>>

bm_list_prepare(p) ==
  /\ At(p, "ENTER")
  /\ Becomes(p, IF s[p].bm_file_mod = file.mtime THEN Shown(s[p]) ELSE StatToRead(s[p]))
  /\ UNCHANGED <<file, clock, clash>>

(* read_bm_file() was successful. *)
Loaded(r) ==
  [r EXCEPT !.bm_list = file.lines, !.bm_file_mod = r.mod,
            !.changed = IF r.mode = "MNG" THEN FALSE ELSE @]

read_bm_file(p) ==
  /\ s[p].pc = "read"
  /\ Becomes(p, Shown(IF file.readable THEN Loaded(s[p]) ELSE s[p]))
  /\ UNCHANGED <<file, clock, clash>>

-----------------------------------------------------------------------------
(* Writing *)

Written(p, lines) ==
  /\ file' = [file EXCEPT !.lines = lines, !.mtime = clock]
  /\ clash' = (clash \/ \E q \in Sessions \ {p} :
                          s[q].pc # "" \/ s[q].bm_file_mod = clock)
  /\ UNCHANGED clock

(* bm_save(): fopen() truncates the file, or it fails. *)
bm_save(p, r) ==
  \/ Written(p, <<>>) /\ Becomes(p, [r EXCEPT !.pc = "write"])
  \/ Becomes(p, r) /\ UNCHANGED <<file, clock, clash>>

(* What another session has written meanwhile remains behind the lines. *)
Over(lines) == lines \o SubSeq(file.lines, Len(lines) + 1, Len(file.lines))

(* Mutant: the modification time is not updated after an error. *)
AfterError_Skip(r) == [r EXCEPT !.pc = "", !.changed = FALSE]

AfterError(r) == [r EXCEPT !.pc = "stat"]

(* fclose(); after an error a part of the list is in the file. *)
fclose(p) ==
  /\ s[p].pc = "write"
  /\ \/ /\ Written(p, Over(s[p].bm_list))
        /\ Becomes(p, [s[p] EXCEPT !.pc = "stat", !.changed = FALSE])
     \/ \E n \in 0 .. Len(s[p].bm_list) :
          /\ Written(p, Over(SubSeq(s[p].bm_list, 1, n)))
          /\ Becomes(p, AfterError(s[p]))

StatSaved(p) ==
  /\ s[p].pc = "stat"
  /\ Becomes(p, [s[p] EXCEPT !.bm_file_mod = file.mtime, !.pc = ""])
  /\ UNCHANGED <<file, clock, clash>>

-----------------------------------------------------------------------------
(* Keys *)

Enter(p) ==
  /\ At(p, "FILE")
  /\ Becomes(p, [s[p] EXCEPT !.mode = "ENTER"])
  /\ UNCHANGED <<file, clock, clash>>

(* ctrl-C in the bookmark panel, or a directory was entered *)
Leave(p) ==
  /\ At(p, "LIST")
  /\ Becomes(p, [s[p] EXCEPT !.mode = "FILE"])
  /\ UNCHANGED <<file, clock, clash>>

InList(d, list) == \E i \in DOMAIN list : list[i] = d

(* Mutant: the limit is found to be exceeded when it is. *)
Full_Exceeded(p) == Len(s[p].bm_list) > Limit

Full(p) == Len(s[p].bm_list) = Limit

cx_bm_list_bookmark(p) ==
  /\ At(p, "LIST")
  /\ ~Full(p)
  /\ \E d \in Dirs :
       /\ ~InList(d, s[p].bm_list)
       /\ bm_save(p, [s[p] EXCEPT !.bm_list = Append(@, d), !.changed = TRUE])

(* bm_mng_prepare() *)
Manage(p) ==
  /\ At(p, "LIST")
  /\ Becomes(p, [s[p] EXCEPT !.mode = "MNG"])
  /\ UNCHANGED <<file, clock, clash>>

Change(p, list) ==
  /\ Becomes(p, [s[p] EXCEPT !.bm_list = list, !.changed = TRUE, !.reverted = FALSE])
  /\ UNCHANGED <<file, clock, clash>>

(* cx_bm_mng_up(), cx_bm_mng_down() *)
MoveEntry(p) ==
  /\ At(p, "MNG")
  /\ \E i \in 1 .. Len(s[p].bm_list) - 1 :
       Change(p, [s[p].bm_list EXCEPT ![i] = s[p].bm_list[i + 1],
                                      ![i + 1] = s[p].bm_list[i]])

cx_bm_mng_del(p) ==
  /\ At(p, "MNG")
  /\ \E i \in DOMAIN s[p].bm_list :
       Change(p, SubSeq(s[p].bm_list, 1, i - 1)
                   \o SubSeq(s[p].bm_list, i + 1, Len(s[p].bm_list)))

(* cx_bm_mng_new() and the edit of the new entry *)
cx_bm_mng_new(p) ==
  /\ At(p, "MNG")
  /\ ~Full(p)
  /\ \E i \in 0 .. Len(s[p].bm_list), d \in Dirs :
       Change(p, SubSeq(s[p].bm_list, 1, i) \o <<d>>
                   \o SubSeq(s[p].bm_list, i + 1, Len(s[p].bm_list)))

cx_bm_edit_enter(p) ==
  /\ At(p, "MNG")
  /\ \E i \in DOMAIN s[p].bm_list, d \in Dirs :
       Change(p, [s[p].bm_list EXCEPT ![i] = d])

(* The list is emptied before the file is read. *)
cx_bm_mng_revert(p) ==
  /\ At(p, "MNG")
  /\ s[p].changed
  /\ Becomes(p, StatToRead([s[p] EXCEPT !.bm_list = <<>>, !.reverted = TRUE]))
  /\ UNCHANGED <<file, clock, clash>>

(* ctrl-C leads to the previous mode, the first line of the panel to the
   bookmark panel. *)
cx_bm_mng_save(p) ==
  /\ At(p, "MNG")
  /\ \E mode \in {"FILE", "ENTER"} :
       LET r == [s[p] EXCEPT !.mode = mode, !.reverted = FALSE]
       IN  IF s[p].changed THEN bm_save(p, r)
           ELSE Becomes(p, r) /\ UNCHANGED <<file, clock, clash>>

-----------------------------------------------------------------------------
(* The environment *)

(* A session ends, in the middle of writing or not, and a new one starts. *)
Restart(p) ==
  /\ s[p].mode # "START"
  /\ Becomes(p, NewSession)
  /\ UNCHANGED <<file, clock, clash>>

(* The file can become unreadable. *)
Chmod ==
  /\ file.mtime # 0
  /\ file' = [file EXCEPT !.readable = ~@]
  /\ UNCHANGED <<clock, s, clash>>

Tick ==
  /\ clock < MaxTime
  /\ clock' = clock + 1
  /\ UNCHANGED <<file, s, clash>>

Init ==
  /\ file = [lines |-> <<>>, mtime |-> 0, readable |-> TRUE]
  /\ clock = 1
  /\ s = [p \in Sessions |-> NewSession]
  /\ clash = FALSE

FileAccess(p) ==
  \/ bm_initialize(p) \/ bm_list_prepare(p) \/ read_bm_file(p)
  \/ fclose(p) \/ StatSaved(p)

Key(p) ==
  \/ Enter(p) \/ Leave(p) \/ cx_bm_list_bookmark(p) \/ Manage(p)
  \/ MoveEntry(p) \/ cx_bm_mng_del(p) \/ cx_bm_mng_new(p) \/ cx_bm_edit_enter(p)
  \/ cx_bm_mng_revert(p) \/ cx_bm_mng_save(p)

Next == (\E p \in Sessions : FileAccess(p) \/ Key(p) \/ Restart(p)) \/ Chmod \/ Tick

Spec == Init /\ [][Next]_vars

-----------------------------------------------------------------------------
(* Properties *)

Lists == UNION {[1 .. n -> Dirs] : n \in 0 .. Limit}

(* No list grows beyond the limit, whatever the sessions do to the file, and
   no session has seen a file of the future. *)
TypeOK ==
  /\ file \in [lines : Lists, mtime : 0 .. clock, readable : BOOLEAN]
  /\ clock \in 1 .. MaxTime
  /\ s \in [Sessions -> [bm_list : Lists, changed : BOOLEAN,
                         bm_file_mod : 0 .. clock, mod : 0 .. clock,
                         mode : {"START", "FILE", "ENTER", "LIST", "MNG"},
                         pc : {"", "read", "write", "stat"}, reverted : BOOLEAN]]
  /\ clash \in BOOLEAN

(***************************************************************************)
(* As long as no two sessions access the file at the same time or in the   *)
(* same second: a list without unsaved changes is either what the file     *)
(* contains, or the session will notice the difference as soon as the      *)
(* bookmark panel is entered - whatever was edited, reverted, written in   *)
(* part or left truncated (bm_list_prepare(), bm_save()).                  *)
(***************************************************************************)
StaleNoticed ==
  \A p \in Sessions :
    (s[p].pc = "" /\ s[p].mode # "START" /\ ~s[p].changed /\ ~clash)
      => \/ s[p].bm_list = file.lines
         \/ s[p].bm_file_mod # file.mtime

(***************************************************************************)
(* "In the case you change your mind and do not want to save the modified  *)
(* bookmark list, select '--> Revert'" (the help): whoever leaves the      *)
(* manager after that, with nothing changed since, does not write to the   *)
(* file (cx_bm_mng_revert(), cx_bm_mng_save()).                            *)
(***************************************************************************)
RevertedNotSaved ==
  [][\A p \in Sessions :
       (At(p, "MNG") /\ s[p].reverted /\ s'[p].mode # "MNG") => file' = file]_vars
=============================================================================
