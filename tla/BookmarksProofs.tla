--------------------------- MODULE BookmarksProofs ----------------------------
(***************************************************************************)
(* Theorems about module Bookmarks, for any sessions, any directories, any *)
(* limit of the list and any number of seconds.                            *)
(*                                                                         *)
(* While no two sessions got in each other's way, every session Agrees     *)
(* with the file: one that is between two accesses knows more about it     *)
(* than StaleNoticed says (the time that it is about to store is that of   *)
(* the file, the file that it has truncated is still empty, the list that  *)
(* it has written is still there).  A write by somebody else would end     *)
(* that, but it sets clash then; it cannot harm a session that is idle,    *)
(* because the time of the file changes.                                   *)
(***************************************************************************)
EXTENDS Bookmarks, SequenceTheorems, TLAPS

Session ==
  [bm_list : Lists, changed : BOOLEAN, bm_file_mod : 0 .. clock, mod : 0 .. clock,
   mode : {"START", "FILE", "ENTER", "LIST", "MNG"},
   pc : {"", "read", "write", "stat"}, reverted : BOOLEAN]

File == [lines : Lists, mtime : 0 .. clock, readable : BOOLEAN]

Typed ==
  /\ file \in File
  /\ clock \in 1 .. MaxTime
  /\ s \in [Sessions -> Session]
  /\ clash \in BOOLEAN

Agrees(r, f) ==
  /\ r.pc = "read" => r.mod = f.mtime
  /\ r.pc = "write" => r.changed /\ f.lines = <<>>
  /\ r.pc = "stat" => r.changed \/ r.bm_list = f.lines
  /\ r.pc \in {"", "read"} /\ ~r.changed
       => r.bm_list = f.lines \/ r.bm_file_mod # f.mtime

Inv ==
  /\ Typed
  /\ file.mtime = 0 => file.lines = <<>>
  /\ ~clash => \A p \in Sessions : Agrees(s[p], file)

-----------------------------------------------------------------------------
(* Lists of at most Limit directories *)

LEMMA ListsAre ==
  ASSUME NEW l
  PROVE  l \in Lists <=> l \in Seq(Dirs) /\ Len(l) <= Limit
  BY LimitAssumption DEF Lists

LEMMA EmptyIsList == <<>> \in Lists
  <1>1. <<>> \in Seq(Dirs) /\ Len(<<>>) = 0
    BY EmptySeq
  <1>2. Len(<<>>) <= Limit
    BY <1>1, LimitAssumption
  <1> QED BY <1>1, <1>2, ListsAre, Zenon

(* A part of a list is a list; so is what is left when an entry is deleted. *)
LEMMA PartIsList ==
  ASSUME NEW l \in Seq(Dirs), NEW m \in Int, NEW n \in Int, 1 <= m, n <= Len(l)
  PROVE  /\ SubSeq(l, m, n) \in Seq(Dirs)
         /\ Len(SubSeq(l, m, n)) = IF m <= n THEN n - m + 1 ELSE 0
  <1>1. \A i \in m .. n : l[i] \in Dirs
    BY LenProperties
  <1> QED BY <1>1, SubSeqProperties, Z3

(* What is before and what is behind a position *)
LEMMA Parts ==
  ASSUME NEW l \in Seq(Dirs), NEW i \in 0 .. Len(l)
  PROVE  /\ SubSeq(l, 1, i) \in Seq(Dirs) /\ Len(SubSeq(l, 1, i)) = i
         /\ SubSeq(l, i + 1, Len(l)) \in Seq(Dirs)
         /\ Len(SubSeq(l, i + 1, Len(l))) = Len(l) - i
  <1>1. Len(l) \in Nat
    BY LenProperties
  <1>2. /\ SubSeq(l, 1, i) \in Seq(Dirs)
        /\ Len(SubSeq(l, 1, i)) = IF 1 <= i THEN i - 1 + 1 ELSE 0
    BY <1>1, PartIsList
  <1>3. /\ SubSeq(l, i + 1, Len(l)) \in Seq(Dirs)
        /\ Len(SubSeq(l, i + 1, Len(l)))
             = IF i + 1 <= Len(l) THEN Len(l) - (i + 1) + 1 ELSE 0
    <2>1. i + 1 \in Int /\ 1 <= i + 1 /\ Len(l) \in Int
      BY <1>1
    <2> QED BY <1>1, <2>1, PartIsList
  <1> QED BY <1>1, <1>2, <1>3

LEMMA JoinedIsList ==
  ASSUME NEW l \in Seq(Dirs), NEW k \in Seq(Dirs), Len(l) + Len(k) <= Limit
  PROVE  l \o k \in Lists
  BY ConcatProperties, ListsAre

LEMMA ListBounds ==
  ASSUME NEW l \in Lists
  PROVE  /\ l \in Seq(Dirs) /\ Len(l) \in Nat /\ Len(l) <= Limit
         /\ l \in [1 .. Len(l) -> Dirs] /\ DOMAIN l = 1 .. Len(l)
  <1>1. l \in Seq(Dirs) /\ Len(l) <= Limit
    BY ListsAre
  <1> QED BY <1>1, LenProperties

(* What the handlers of the keys do to a list *)

LEMMA Appended ==
  ASSUME NEW l \in Lists, NEW d \in Dirs, Len(l) # Limit
  PROVE  Append(l, d) \in Lists
  <1>1. l \in Seq(Dirs) /\ Len(l) \in Nat /\ Len(l) <= Limit
    BY ListBounds
  <1>2. Len(l) + 1 <= Limit
    BY <1>1, LimitAssumption
  <1> QED BY <1>1, <1>2, AppendProperties, ListsAre

LEMMA Deleted ==
  ASSUME NEW l \in Lists, NEW i \in 1 .. Len(l)
  PROVE  SubSeq(l, 1, i - 1) \o SubSeq(l, i + 1, Len(l)) \in Lists
  <1>1. l \in Seq(Dirs) /\ Len(l) \in Nat /\ Len(l) <= Limit
    BY ListBounds
  <1>2. i - 1 \in 0 .. Len(l) /\ i \in 0 .. Len(l)
    BY <1>1
  <1> DEFINE front == SubSeq(l, 1, i - 1)
             rear == SubSeq(l, i + 1, Len(l))
  <1>3. /\ front \in Seq(Dirs) /\ Len(front) = i - 1
        /\ rear \in Seq(Dirs) /\ Len(rear) = Len(l) - i
    BY <1>1, <1>2, Parts
  <1> HIDE DEF front, rear
  <1>4. Len(front) + Len(rear) <= Limit
    BY <1>1, <1>3, LimitAssumption
  <1>5. front \o rear \in Lists
    BY <1>3, <1>4, JoinedIsList
  <1> QED BY <1>5 DEF front, rear

LEMMA Inserted ==
  ASSUME NEW l \in Lists, NEW i \in 0 .. Len(l), NEW d \in Dirs, Len(l) # Limit
  PROVE  SubSeq(l, 1, i) \o <<d>> \o SubSeq(l, i + 1, Len(l)) \in Lists
  <1>1. l \in Seq(Dirs) /\ Len(l) \in Nat /\ Len(l) <= Limit
    BY ListBounds
  <1> DEFINE front == SubSeq(l, 1, i)
             rear == SubSeq(l, i + 1, Len(l))
  <1>2. /\ front \in Seq(Dirs) /\ Len(front) = i
        /\ rear \in Seq(Dirs) /\ Len(rear) = Len(l) - i
    BY <1>1, Parts
  <1> HIDE DEF front, rear
  <1>3. <<d>> \in Seq(Dirs) /\ Len(<<d>>) = 1
    OBVIOUS
  <1> DEFINE joined == front \o <<d>>
  <1>4. joined \in Seq(Dirs) /\ Len(joined) = i + 1
    BY <1>2, <1>3, ConcatProperties
  <1> HIDE DEF joined
  <1>5. Len(joined) + Len(rear) <= Limit
    BY <1>1, <1>2, <1>4, LimitAssumption
  <1>6. joined \o rear \in Lists
    BY <1>2, <1>4, <1>5, JoinedIsList
  <1> QED BY <1>6 DEF front, rear, joined

LEMMA Replaced ==
  ASSUME NEW l \in Lists, NEW i \in 1 .. Len(l), NEW d \in Dirs
  PROVE  [l EXCEPT ![i] = d] \in Lists
  BY ListBounds, ExceptSeq, ListsAre

LEMMA Swapped ==
  ASSUME NEW l \in Lists, NEW i \in 1 .. Len(l) - 1
  PROVE  [l EXCEPT ![i] = l[i + 1], ![i + 1] = l[i]] \in Lists
  <1>1. /\ Len(l) \in Nat /\ Len(l) <= Limit
        /\ l \in [1 .. Len(l) -> Dirs] /\ i \in 1 .. Len(l) /\ i + 1 \in 1 .. Len(l)
    BY ListBounds
  <1>2. [l EXCEPT ![i] = l[i + 1], ![i + 1] = l[i]] \in [1 .. Len(l) -> Dirs]
    BY <1>1
  <1> QED BY <1>1, <1>2, LimitAssumption DEF Lists

(* Over() extends what is written to at most the length of the file. *)
LEMMA OverIsList ==
  ASSUME file.lines \in Lists, NEW l \in Lists
  PROVE  Over(l) \in Lists
  <1>1. /\ l \in Seq(Dirs) /\ Len(l) \in Nat /\ Len(l) <= Limit
        /\ file.lines \in Seq(Dirs) /\ Len(file.lines) \in Nat /\ Len(file.lines) <= Limit
    BY ListsAre, LenProperties
  <1> DEFINE rest == SubSeq(file.lines, Len(l) + 1, Len(file.lines))
  <1>2. /\ rest \in Seq(Dirs)
        /\ Len(rest) = IF Len(l) + 1 <= Len(file.lines) THEN Len(file.lines) - Len(l) ELSE 0
    <2>1. Len(l) + 1 \in Int /\ 1 <= Len(l) + 1
      BY <1>1
    <2> QED BY <1>1, <2>1, PartIsList
  <1> HIDE DEF rest
  <1>3. Len(l) + Len(rest) <= Limit
    BY <1>1, <1>2, LimitAssumption
  <1>4. l \o rest \in Lists
    BY <1>1, <1>2, <1>3, JoinedIsList
  <1> QED BY <1>4 DEF Over, rest

(* Nothing remains of an empty file. *)
LEMMA OverEmpty ==
  ASSUME file.lines = <<>>, NEW l \in Lists
  PROVE  Over(l) = l
  <1>1. l \in Seq(Dirs) /\ Len(l) \in Nat
    BY ListsAre, LenProperties
  <1>2. Len(file.lines) = 0
    BY EmptySeq
  <1>3. SubSeq(file.lines, Len(l) + 1, Len(file.lines)) = <<>>
    BY <1>1, <1>2, SubSeqEmpty
  <1> QED BY <1>1, <1>3, ConcatEmptySeq DEF Over

-----------------------------------------------------------------------------
(* What the actions have in common *)

LEMMA Time ==
  ASSUME NEW c \in Nat
  PROVE  0 \in 0 .. c
  OBVIOUS

LEMMA ClockIsNat ==
  ASSUME Inv
  PROVE  clock \in Nat
  BY LimitAssumption DEF Inv, Typed

(* A step of session p that does not change the file. *)
LEMMA QuietStep ==
  ASSUME Inv, NEW p \in Sessions, NEW r \in Session,
         ~clash => Agrees(r, file),
         Becomes(p, r), UNCHANGED <<file, clock, clash>>
  PROVE  Inv'
  <1>1. Typed'
    BY DEF Inv, Typed, Becomes, Session, File
  <1>2. \A q \in Sessions : s'[q] = IF q = p THEN r ELSE s[q]
    BY DEF Inv, Typed, Becomes
  <1> QED BY <1>1, <1>2 DEF Inv, Agrees

Rewritten(lines) == [lines |-> lines, mtime |-> clock, readable |-> file.readable]

(* A step of session p that writes to the file. *)
LEMMA WriteStep ==
  ASSUME Inv, NEW p \in Sessions, NEW r \in Session, NEW lines \in Lists,
         ~clash => Agrees(r, Rewritten(lines)),
         Becomes(p, r), Written(p, lines)
  PROVE  Inv'
  <1>1. file' \in File /\ file'.mtime = clock /\ file'.lines = lines /\ clock' = clock
        /\ file' = Rewritten(lines)
    <2>1. file \in [lines : Lists, mtime : 0 .. clock, readable : BOOLEAN]
          /\ clock \in Nat
      BY LimitAssumption DEF Inv, Typed, File
    <2>2. file' = [file EXCEPT !.lines = lines, !.mtime = clock] /\ clock' = clock
      BY DEF Written
    <2>3. file' = Rewritten(lines)
      BY <2>1, <2>2 DEF Rewritten
    <2>4. Rewritten(lines) \in File
      BY <2>1 DEF File, Rewritten
    <2> QED BY <2>2, <2>3, <2>4 DEF Rewritten
  <1>2. Typed'
    BY <1>1 DEF Inv, Typed, Becomes, Session, File, Written
  <1>3. \A q \in Sessions : s'[q] = IF q = p THEN r ELSE s[q]
    BY DEF Inv, Typed, Becomes
  <1>4. file'.mtime # 0
    BY <1>1 DEF Inv, Typed
  <1>5. ASSUME ~clash', NEW q \in Sessions
        PROVE  Agrees(s'[q], file')
    <2>1. ~clash /\ Agrees(r, file')
      BY <1>1, <1>5, Zenon DEF Written
    <2>2. CASE q = p
      BY <2>1, <2>2, <1>3
    <2>3. CASE q # p
      <3>1. s[q].pc = "" /\ s[q].bm_file_mod # clock
        BY <1>5, <2>3 DEF Written
      <3> QED BY <1>1, <1>3, <2>3, <3>1 DEF Agrees
    <2> QED BY <2>2, <2>3
  <1> QED BY <1>2, <1>4, <1>5 DEF Inv, Agrees

LEMMA SessionOf ==
  ASSUME Inv, NEW p \in Sessions
  PROVE  /\ s[p] \in Session
         /\ file \in File /\ clock \in Nat
         /\ s[p].bm_list \in Seq(Dirs) /\ Len(s[p].bm_list) \in 0 .. Limit
         /\ ~clash => Agrees(s[p], file)
  <1>1. s[p] \in Session /\ file \in File /\ (~clash => Agrees(s[p], file))
    BY DEF Inv, Typed
  <1>3. clock \in Nat
    BY LimitAssumption DEF Inv, Typed
  <1>2. s[p].bm_list \in Lists
    BY <1>1 DEF Session
  <1> QED BY <1>1, <1>2, <1>3, ListsAre, LenProperties, LimitAssumption

-----------------------------------------------------------------------------
(* Reading *)

LEMMA StatToReadKeeps ==
  ASSUME NEW r \in Session, file \in File, ~clash => Agrees(r, file), r.pc = ""
  PROVE  StatToRead(r) \in Session /\ (~clash => Agrees(StatToRead(r), file))
  <1>1. StatToRead(r) \in Session
    BY DEF StatToRead, Session, File
  <1> QED BY <1>1 DEF StatToRead, Session, Agrees

LEMMA ShownKeeps ==
  ASSUME NEW r \in Session, clock \in Nat, NEW f, ~clash => Agrees(r, f), r.pc \in {"", "read"}
  PROVE  /\ Shown(r) \in Session
         /\ ~clash => Agrees(Shown(r), f)
  <1>2. 0 \in 0 .. clock
    BY Time, Zenon
  <1> DEFINE mode == CASE r.mode = "START" -> "FILE" [] r.mode = "ENTER" -> "LIST"
                       [] OTHER -> r.mode
  <1>1. mode \in {"START", "FILE", "ENTER", "LIST", "MNG"}
    BY DEF Session
  <1> HIDE DEF mode
  <1>3. Shown(r) = [r EXCEPT !.pc = "", !.mod = 0, !.mode = mode]
    BY DEF Shown, mode
  <1> QED BY <1>1, <1>2, <1>3 DEF Session, Agrees

LEMMA ReadingStep ==
  ASSUME Inv, NEW p \in Sessions,
         bm_initialize(p) \/ bm_list_prepare(p) \/ read_bm_file(p)
  PROVE  Inv'
  <1>1. s[p] \in Session /\ file \in File /\ clock \in Nat /\ (~clash => Agrees(s[p], file))
    BY SessionOf
  <1>2. CASE bm_initialize(p)
    BY <1>1, <1>2, StatToReadKeeps, QuietStep DEF bm_initialize, At
  <1>3. CASE bm_list_prepare(p)
    BY <1>1, <1>3, StatToReadKeeps, ShownKeeps, QuietStep DEF bm_list_prepare, At
  <1>4. CASE read_bm_file(p)
    <2>1. CASE file.readable
      <3>1. /\ Loaded(s[p]) \in Session /\ Loaded(s[p]).pc = "read"
            /\ ~clash => Agrees(Loaded(s[p]), file)
        BY <1>1, <1>4, <2>1 DEF read_bm_file, Loaded, Session, File, Agrees
      <3>2. Becomes(p, Shown(Loaded(s[p]))) /\ UNCHANGED <<file, clock, clash>>
        BY <1>4, <2>1 DEF read_bm_file
      <3>3. /\ Shown(Loaded(s[p])) \in Session
            /\ ~clash => Agrees(Shown(Loaded(s[p])), file)
        BY <1>1, <3>1, ShownKeeps, Zenon
      <3> QED BY <3>2, <3>3, QuietStep
    <2>2. CASE ~file.readable
      <3>1. Becomes(p, Shown(s[p])) /\ UNCHANGED <<file, clock, clash>>
        BY <1>4, <2>2 DEF read_bm_file
      <3> QED BY <1>1, <1>4, <3>1, ShownKeeps, QuietStep DEF read_bm_file
    <2> QED BY <2>1, <2>2
  <1> QED BY <1>2, <1>3, <1>4

-----------------------------------------------------------------------------
(* Writing *)

(* Whoever saves the list has unsaved changes. *)
LEMMA SaveStep ==
  ASSUME Inv, NEW p \in Sessions, NEW r \in Session, r.changed, r.pc = "",
         bm_save(p, r)
  PROVE  Inv'
  <1>1. CASE Written(p, <<>>) /\ Becomes(p, [r EXCEPT !.pc = "write"])
    <2>1. [r EXCEPT !.pc = "write"] \in Session
      BY DEF Session
    <2>2. Agrees([r EXCEPT !.pc = "write"], Rewritten(<<>>))
      BY DEF Session, Agrees, Rewritten
    <2> QED BY <1>1, <2>1, <2>2, EmptyIsList, WriteStep
  <1>2. CASE Becomes(p, r) /\ UNCHANGED <<file, clock, clash>>
    <2>1. Agrees(r, file)
      BY DEF Agrees
    <2> QED BY <1>2, <2>1, QuietStep
  <1> QED BY <1>1, <1>2 DEF bm_save

LEMMA CloseStep ==
  ASSUME Inv, NEW p \in Sessions, fclose(p)
  PROVE  Inv'
  <1>1. /\ s[p] \in Session /\ file \in File /\ s[p].pc = "write"
        /\ ~clash => s[p].changed /\ file.lines = <<>>
    BY SessionOf DEF fclose, Agrees
  <1>2. file.lines \in Lists /\ s[p].bm_list \in Lists
    BY <1>1 DEF File, Session
  <1>3. CASE /\ Written(p, Over(s[p].bm_list))
             /\ Becomes(p, [s[p] EXCEPT !.pc = "stat", !.changed = FALSE])
    <2> DEFINE r == [s[p] EXCEPT !.pc = "stat", !.changed = FALSE]
    <2>1. r \in Session /\ r.pc = "stat" /\ r.bm_list = s[p].bm_list
      BY <1>1 DEF Session
    <2>2. Over(s[p].bm_list) \in Lists
      BY <1>2, OverIsList
    <2>3. ~clash => Over(s[p].bm_list) = s[p].bm_list
      BY <1>1, <1>2, OverEmpty
    <2> HIDE DEF r
    <2>4. ~clash => Agrees(r, Rewritten(Over(s[p].bm_list)))
      BY <2>1, <2>3 DEF Agrees, Rewritten
    <2> QED BY <1>3, <2>1, <2>2, <2>4, WriteStep DEF r
  <1>4. CASE \E n \in 0 .. Len(s[p].bm_list) :
               /\ Written(p, Over(SubSeq(s[p].bm_list, 1, n)))
               /\ Becomes(p, AfterError(s[p]))
    <2>1. PICK n \in 0 .. Len(s[p].bm_list) :
               /\ Written(p, Over(SubSeq(s[p].bm_list, 1, n)))
               /\ Becomes(p, AfterError(s[p]))
      BY <1>4
    <2>2. /\ s[p].bm_list \in Seq(Dirs) /\ Len(s[p].bm_list) \in 0 .. Limit
          /\ n \in Int /\ n <= Len(s[p].bm_list) /\ 0 <= n
      BY SessionOf
    <2>3. /\ SubSeq(s[p].bm_list, 1, n) \in Seq(Dirs)
          /\ Len(SubSeq(s[p].bm_list, 1, n)) = n
      <3>1. /\ SubSeq(s[p].bm_list, 1, n) \in Seq(Dirs)
            /\ Len(SubSeq(s[p].bm_list, 1, n)) = IF 1 <= n THEN n - 1 + 1 ELSE 0
        BY <2>2, PartIsList
      <3> QED BY <2>2, <3>1
    <2>4. SubSeq(s[p].bm_list, 1, n) \in Lists
      <3>1. n <= Limit
        BY <2>2, LimitAssumption
      <3> QED BY <2>3, <3>1, ListsAre
    <2>5. Over(SubSeq(s[p].bm_list, 1, n)) \in Lists
      BY <1>2, <2>4, OverIsList
    <2>6. /\ AfterError(s[p]) \in Session /\ AfterError(s[p]).pc = "stat"
          /\ AfterError(s[p]).changed = s[p].changed
      BY <1>1 DEF AfterError, Session
    <2>7. ~clash => Agrees(AfterError(s[p]), Rewritten(Over(SubSeq(s[p].bm_list, 1, n))))
      BY <1>1, <2>6 DEF Agrees
    <2> QED BY <2>1, <2>5, <2>6, <2>7, WriteStep
  <1> QED BY <1>3, <1>4 DEF fclose

LEMMA StatSavedStep ==
  ASSUME Inv, NEW p \in Sessions, StatSaved(p)
  PROVE  Inv'
  <1>1. s[p] \in Session /\ file \in File /\ (~clash => Agrees(s[p], file))
    BY SessionOf
  <1> DEFINE r == [s[p] EXCEPT !.bm_file_mod = file.mtime, !.pc = ""]
  <1>2. r \in Session
    BY <1>1 DEF Session, File
  <1>3. ~clash => Agrees(r, file)
    BY <1>1 DEF StatSaved, Session, Agrees
  <1> QED BY <1>2, <1>3, QuietStep DEF StatSaved

-----------------------------------------------------------------------------
(* Keys *)

(* A session that changes its list in the manager has unsaved changes. *)
LEMMA ChangeStep ==
  ASSUME Inv, NEW p \in Sessions, NEW list \in Lists, s[p].pc = "", Change(p, list)
  PROVE  Inv'
  <1>1. s[p] \in Session /\ file \in File
    BY SessionOf
  <1> DEFINE r == [s[p] EXCEPT !.bm_list = list, !.changed = TRUE, !.reverted = FALSE]
  <1>2. r \in Session /\ r.changed /\ r.pc = ""
    BY <1>1 DEF Session
  <1>3. Agrees(r, file)
    <2> HIDE DEF r
    <2> QED BY <1>2 DEF Agrees
  <1> QED BY <1>2, <1>3, QuietStep DEF Change

LEMMA EditStep ==
  ASSUME Inv, NEW p \in Sessions,
         MoveEntry(p) \/ cx_bm_mng_del(p) \/ cx_bm_mng_new(p) \/ cx_bm_edit_enter(p)
  PROVE  Inv'
  <1> DEFINE l == s[p].bm_list
  <1>1. l \in Lists
    BY SessionOf DEF Session
  <1>2. DOMAIN l = 1 .. Len(l)
    BY <1>1, ListBounds
  <1>3. s[p].pc = ""
    BY DEF MoveEntry, cx_bm_mng_del, cx_bm_mng_new, cx_bm_edit_enter, At
  <1>4. ~Full(p) => Len(l) # Limit
    BY DEF Full
  <1>5. PICK list : /\ Change(p, list)
                    /\ \/ \E i \in 1 .. Len(l) - 1 :
                            list = [l EXCEPT ![i] = l[i + 1], ![i + 1] = l[i]]
                       \/ \E i \in DOMAIN l :
                            list = SubSeq(l, 1, i - 1) \o SubSeq(l, i + 1, Len(l))
                       \/ /\ ~Full(p)
                          /\ \E i \in 0 .. Len(l), d \in Dirs :
                               list = SubSeq(l, 1, i) \o <<d>> \o SubSeq(l, i + 1, Len(l))
                       \/ \E i \in DOMAIN l, d \in Dirs : list = [l EXCEPT ![i] = d]
    BY Zenon DEF MoveEntry, cx_bm_mng_del, cx_bm_mng_new, cx_bm_edit_enter
  <1> HIDE DEF l
  <1>6. list \in Lists
    <2>1. CASE \E i \in 1 .. Len(l) - 1 :
                 list = [l EXCEPT ![i] = l[i + 1], ![i + 1] = l[i]]
      BY <1>1, <2>1, Swapped, Zenon
    <2>2. CASE \E i \in DOMAIN l : list = SubSeq(l, 1, i - 1) \o SubSeq(l, i + 1, Len(l))
      BY <1>1, <1>2, <2>2, Deleted, Zenon
    <2>3. CASE /\ ~Full(p)
               /\ \E i \in 0 .. Len(l), d \in Dirs :
                    list = SubSeq(l, 1, i) \o <<d>> \o SubSeq(l, i + 1, Len(l))
      BY <1>1, <1>4, <2>3, Inserted, Zenon
    <2>4. CASE \E i \in DOMAIN l, d \in Dirs : list = [l EXCEPT ![i] = d]
      <3>1. PICK i \in 1 .. Len(l), d \in Dirs : list = [l EXCEPT ![i] = d]
        BY <1>2, <2>4
      <3>2. [l EXCEPT ![i] = d] \in Lists
        BY <1>1, Replaced
      <3> QED BY <3>1, <3>2
    <2> QED BY <1>5, <2>1, <2>2, <2>3, <2>4
  <1> QED BY <1>3, <1>5, <1>6, ChangeStep

(* "bookmark it" *)
LEMMA BookmarkStep ==
  ASSUME Inv, NEW p \in Sessions, cx_bm_list_bookmark(p)
  PROVE  Inv'
  <1>1. s[p] \in Session /\ s[p].pc = "" /\ s[p].bm_list \in Lists
    BY SessionOf DEF cx_bm_list_bookmark, At, Session
  <1>2. PICK d \in Dirs :
             bm_save(p, [s[p] EXCEPT !.bm_list = Append(s[p].bm_list, d), !.changed = TRUE])
    BY DEF cx_bm_list_bookmark
  <1>3. Append(s[p].bm_list, d) \in Lists
    BY <1>1, Appended, Zenon DEF cx_bm_list_bookmark, Full
  <1> DEFINE r == [s[p] EXCEPT !.bm_list = Append(s[p].bm_list, d), !.changed = TRUE]
  <1>4. r \in Session /\ r.changed /\ r.pc = ""
    BY <1>1, <1>3 DEF Session
  <1> HIDE DEF r
  <1>5. bm_save(p, r)
    BY <1>2 DEF r
  <1> QED BY <1>4, <1>5, SaveStep

LEMMA ManagerStep ==
  ASSUME Inv, NEW p \in Sessions, cx_bm_mng_revert(p) \/ cx_bm_mng_save(p)
  PROVE  Inv'
  <1>1. s[p] \in Session /\ file \in File /\ (~clash => Agrees(s[p], file))
    BY SessionOf
  <1>2. s[p].pc = ""
    BY DEF cx_bm_mng_revert, cx_bm_mng_save, At
  <1>3. CASE cx_bm_mng_revert(p)
    <2> DEFINE r == [s[p] EXCEPT !.bm_list = <<>>, !.reverted = TRUE]
    <2>1. r \in Session /\ r.pc = "" /\ r.changed
      BY <1>1, <1>2, <1>3, EmptyIsList DEF Session, cx_bm_mng_revert
    <2>2. Becomes(p, StatToRead(r)) /\ UNCHANGED <<file, clock, clash>>
      BY <1>3 DEF cx_bm_mng_revert
    <2> HIDE DEF r
    <2>3. Agrees(r, file)
      BY <2>1 DEF Agrees
    <2> QED BY <1>1, <2>1, <2>2, <2>3, StatToReadKeeps, QuietStep
  <1>4. CASE cx_bm_mng_save(p)
    <2> DEFINE r(mode) == [s[p] EXCEPT !.mode = mode, !.reverted = FALSE]
    <2>1. PICK mode \in {"FILE", "ENTER"} :
               IF s[p].changed THEN bm_save(p, r(mode))
               ELSE Becomes(p, r(mode)) /\ UNCHANGED <<file, clock, clash>>
      BY <1>4 DEF cx_bm_mng_save
    <2>2. /\ r(mode) \in Session /\ r(mode).pc = "" /\ r(mode).changed = s[p].changed
          /\ ~clash => Agrees(r(mode), file)
      BY <1>1, <1>2 DEF Session, Agrees
    <2> HIDE DEF r
    <2> QED BY <2>1, <2>2, SaveStep, QuietStep
  <1> QED BY <1>3, <1>4

LEMMA ModeStep ==
  ASSUME Inv, NEW p \in Sessions, Enter(p) \/ Leave(p) \/ Manage(p)
  PROVE  Inv'
  <1>1. s[p] \in Session /\ file \in File /\ (~clash => Agrees(s[p], file)) /\ s[p].pc = ""
    BY SessionOf DEF Enter, Leave, Manage, At
  <1> DEFINE r(mode) == [s[p] EXCEPT !.mode = mode]
  <1>2. PICK mode \in {"FILE", "ENTER", "MNG"} :
             Becomes(p, r(mode)) /\ UNCHANGED <<file, clock, clash>>
    BY DEF Enter, Leave, Manage
  <1>3. r(mode) \in Session /\ (~clash => Agrees(r(mode), file))
    BY <1>1 DEF Session, Agrees
  <1> HIDE DEF r
  <1> QED BY <1>2, <1>3, QuietStep

-----------------------------------------------------------------------------
(* The environment *)

LEMMA NewSessionTyped ==
  ASSUME clock \in Nat
  PROVE  NewSession \in Session
  <1>1. 0 \in 0 .. clock /\ <<>> \in Lists
    BY EmptyIsList, Time
  <1> QED BY <1>1 DEF NewSession, Session

LEMMA RestartStep ==
  ASSUME Inv, NEW p \in Sessions, Restart(p)
  PROVE  Inv'
  <1>1. NewSession \in Session
    BY ClockIsNat, NewSessionTyped
  <1>2. Agrees(NewSession, file)
    BY DEF NewSession, Inv, Agrees
  <1> QED BY <1>1, <1>2, QuietStep DEF Restart

LEMMA ChmodStep ==
  ASSUME Inv, Chmod
  PROVE  Inv'
  <1>1. file \in File /\ file' = [file EXCEPT !.readable = ~file.readable]
    BY DEF Inv, Typed, Chmod
  <1>2. file' \in File /\ file'.mtime = file.mtime /\ file'.lines = file.lines
    BY <1>1 DEF File
  <1> QED BY <1>2 DEF Inv, Typed, Chmod, File, Session, Agrees

LEMMA TickStep ==
  ASSUME Inv, Tick
  PROVE  Inv'
  <1>1. clock \in Nat /\ clock' \in Nat /\ clock < clock' /\ clock' \in 1 .. MaxTime
    BY LimitAssumption DEF Inv, Typed, Tick
  <1>2. \A i \in 0 .. clock : i \in 0 .. clock'
    BY <1>1
  <1>3. file' \in File'
    BY <1>1, <1>2 DEF Inv, Typed, File, Tick
  <1>4. s' \in [Sessions -> Session']
    BY <1>1, <1>2 DEF Inv, Typed, Session, Tick
  <1> QED BY <1>1, <1>3, <1>4 DEF Inv, Typed, Tick, Agrees

-----------------------------------------------------------------------------
(* The theorems *)

LEMMA InitInv ==
  ASSUME Init
  PROVE  Inv
  <1>1. file \in File /\ clock \in 1 .. MaxTime
    BY EmptyIsList, LimitAssumption DEF Init, File
  <1>2. NewSession \in Session
    BY NewSessionTyped DEF Init
  <1>3. \A p \in Sessions : Agrees(s[p], file)
    BY DEF Init, NewSession, Agrees
  <1> QED BY <1>1, <1>2, <1>3 DEF Init, Inv, Typed

LEMMA NextInv ==
  ASSUME Inv, [Next]_vars
  PROVE  Inv'
  <1>1. CASE UNCHANGED vars
    BY <1>1 DEF vars, Inv, Typed, Session, File, Agrees
  <1>2. ASSUME NEW p \in Sessions, FileAccess(p)
        PROVE  Inv'
    BY <1>2, ReadingStep, CloseStep, StatSavedStep DEF FileAccess
  <1>3. ASSUME NEW p \in Sessions, Key(p)
        PROVE  Inv'
    BY <1>3, ModeStep, BookmarkStep, EditStep, ManagerStep DEF Key
  <1> QED BY <1>1, <1>2, <1>3, RestartStep, ChmodStep, TickStep DEF Next

LEMMA InvHolds == Spec => []Inv
  BY InitInv, NextInv, PTL DEF Spec

(* No list of bookmarks and no file grows beyond the limit, whatever the
   sessions write over each other, and no session has stored a modification
   time of the future (bm_save(), read_bm_file()). *)
THEOREM BookmarksTyped == Spec => []TypeOK
<1>1. Inv => TypeOK
  BY DEF Inv, Typed, File, Session, TypeOK
<1> QED BY <1>1, InvHolds, PTL

(* As long as no two sessions get in each other's way, a session whose list
   is not what the file contains will notice it (bm_list_prepare()). *)
THEOREM StalenessNoticed == Spec => []StaleNoticed
<1>1. Inv => StaleNoticed
  BY DEF Inv, Agrees, StaleNoticed
<1> QED BY <1>1, InvHolds, PTL
=============================================================================
