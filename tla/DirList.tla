------------------------------- MODULE DirList -------------------------------
(***************************************************************************)
(* The list of visited directories with the cursor positions in them, the  *)
(* directory panel that is built from it (directory.c), and the functions  *)
(* that change the working directory (filepanel.c, list.c).                *)
(*                                                                         *)
(* A name is a sequence of character codes, as strcmp() compares them.  A  *)
(* file panel is reduced to its directory, the names it lists and the name *)
(* under the cursor.  The entries of the directory panel point to the      *)
(* names in the list of directories.  When an entry of the list is         *)
(* recycled, us_copy() writes the new name over the old one, or it frees   *)
(* the old one, depending on the lengths; then the panel points to memory  *)
(* that is not in use (Freed), and what is read there is undefined.        *)
(***************************************************************************)
EXTENDS Integers, FiniteSets, SequencesExt

CONSTANTS
  Dirs,        \* directories: the absolute names
  Lists,       \* Lists[d]: what a scan of d finds
  Unreliable,  \* directories that may become inaccessible
  Slash,       \* the code of /
  Up,          \* the name ".."
  NoFile,      \* the current file of an empty panel
  Freed,       \* what a pointer to a name that has been freed shows
  SaveMax,     \* SAVEDIR_ALLOC_MAX
  NoCompact,   \* NO_COMPACT
  DpSizes,     \* the sizes of the directory panel
  Filters      \* expressions on the filter line of the directory panel

Root == <<Slash>>

Child(d, f) == IF d = Root THEN d \o f ELSE d \o <<Slash>> \o f

(* The directory above *)
Parent(d) ==
  LET slash == Max({i \in 1 .. Len(d) : d[i] = Slash})
  IN  IF slash = 1 THEN Root ELSE SubSeq(d, 1, slash - 1)

ASSUME DirsAssumption ==
  /\ Root \in Dirs /\ Unreliable \subseteq Dirs \ {Root}
  /\ Slash \in Nat \ {0} /\ Dirs \subseteq Seq(Nat \ {0}) \ {<<>>}
  /\ \A d \in Dirs : d[1] = Slash /\ (d # Root => d[Len(d)] # Slash)
  /\ \A d \in Dirs \ {Root} : Parent(d) \in Dirs
  /\ Lists \in [Dirs -> SUBSET Seq(Nat)]
  /\ \A d \in Dirs : Up \in Lists[d] /\ NoFile \notin Lists[d]
ASSUME FreedAssumption == Freed \notin Dirs \cup {<<>>}
ASSUME SizesAssumption ==
  /\ SaveMax \in Nat \ {0, 1} /\ NoCompact \in Nat \ {0}
  /\ DpSizes \subseteq Nat \ {0} /\ DpSizes # {}
  /\ <<>> \in Filters

VARIABLES
  access,      \* what chdir() and opendir() would find: "ok", "noread", "gone"
  dirlist,     \* visited directories, the last one first: dirname, savefile
  fpanel,      \* the two file panels
  ppanel_file, \* the primary one
  mode,        \* "FILE", "DIR", "SPLIT"
  dp,          \* the names in the directory panel
  dps,         \* the split panel: a name, and the lengths of its prefixes
  place,       \* auxiliary: the last position in each directory
  unsaved      \* auxiliary: directories left in another way than by chdir()

dirvars == <<dp, dps>>
vars == <<access, dirlist, fpanel, ppanel_file, mode, dirvars, place, unsaved>>

PanelIds == {1, 2}
Other(p) == 3 - p
pf == fpanel[ppanel_file]
other == fpanel[Other(ppanel_file)]

Names == UNION {Lists[d] : d \in Dirs}
NoSplit == [name |-> <<>>, lens |-> <<>>]

Save(d, f) == [dirname |-> d, savefile |-> f]
DirNames(dl) == {dl[i].dirname : i \in DOMAIN dl}

-----------------------------------------------------------------------------
(* Names of directories. *)

Char(d, i) == IF i < Len(d) THEN d[i + 1] ELSE 0

(* common_part(): the length of the common part, in whole components *)
common_part(d, e) ==
  LET n == Min({i \in 0 .. Len(d) : i = Len(d) \/ Char(d, i) # Char(e, i)})
      slashes == {i \in 0 .. n - 1 : Char(d, i) = Slash} \cup {0}
  IN  IF \/ n = Len(d) /\ Char(e, n) \in {Slash, 0}
         \/ n = Len(e) /\ Char(d, n) \in {Slash, 0}
      THEN n ELSE Max(slashes)

(* Mutant: the result has the opposite sign. *)
check_subdir_Reversed(d, e) ==
  LET n == common_part(d, e)
  IN  (IF Char(d, n) = 0 THEN 1 ELSE 0) - (IF Char(e, n) = 0 THEN 1 ELSE 0)

(* check_subdir(): -1 if e is a subdirectory of d, 1 if d is one of e *)
check_subdir(d, e) ==
  LET n == common_part(d, e)
  IN  (IF Char(e, n) = 0 THEN 1 ELSE 0) - (IF Char(d, n) = 0 THEN 1 ELSE 0)

(* strcmp(s, t) < 0 *)
Precedes(s, t) ==
  \E i \in 0 .. Len(s) :
    /\ \A j \in 0 .. i - 1 : Char(s, j) = Char(t, j)
    /\ Char(s, i) < Char(t, i)

(* The first component behind the common part: as many characters as the
   whole name has up to the end of the component. *)
Component(d, slash) ==
  LET ends == {i \in slash + 1 .. Len(d) : i = Len(d) \/ Char(d, i) = Slash}
  IN  SubSeq(d, slash + 2, Min({Len(d), slash + 1 + Min(ends)}))

(* qcmp(d, e) < 0 *)
qcmp(d, e) ==
  LET slash == common_part(d, e)
  IN  \/ Char(d, slash) = 0 /\ Char(e, slash) # 0
      \/ /\ Char(d, slash) # 0 /\ Char(e, slash) # 0
         /\ Precedes(Component(d, slash), Component(e, slash))

(* substring() *)
Passes(d, filter) ==
  \E i \in 0 .. Len(d) - Len(filter) : SubSeq(d, i + 1, i + Len(filter)) = filter

(* The compaction for the directory d: it takes the place of a directory
   above it. *)
Compacted(panel, d) ==
  [j \in DOMAIN panel |->
     IF j > NoCompact /\ check_subdir(d, panel[j]) = 1 THEN d ELSE panel[j]]

Entered(panel, i, d) ==
  LET new == Compacted(panel, d)
  IN  IF i <= NoCompact THEN Append(panel, d)
      ELSE IF new # panel \/ \E j \in DOMAIN panel : check_subdir(d, panel[j]) = -1
      THEN new ELSE Append(panel, d)

(* The names are sorted by inserting one after the other: qsort() with a
   comparison of which no two names are equal *)
InOrder(panel, d) ==
  InsertAt(panel, 1 + Cardinality({i \in DOMAIN panel : qcmp(panel[i], d)}), d)

Sorted(panel) ==
  LET sort[i \in Nat] == IF i = 0 THEN <<>> ELSE InOrder(sort[i - 1], panel[i])
  IN  sort[Len(panel)]

(* One directory of the list: the panel is full, the directory is filtered
   out, or it is entered. *)
Considered(panel, i, d, filter, size) ==
  IF Len(panel) = size \/ ~Passes(d, filter) THEN panel ELSE Entered(panel, i, d)

(* dir_main_panel() *)
dir_main_panel(dl, filter, size) ==
  LET build[i \in Nat] ==
        IF i = 0 THEN <<>>
        ELSE Considered(build[i - 1], i, dl[i].dirname, filter, size)
  IN  Sorted(build[Len(dl)])

(* dir_split_prepare(): the directory and those above it *)
Split(d) ==
  LET slashes == {i \in 0 .. Len(d) - 1 : Char(d, i) = Slash}
      lens == {IF i = 0 THEN 1 ELSE i : i \in slashes} \cup {Len(d)}
  IN  [name |-> d, lens |-> SetToSortSeq(lens, >)]

-----------------------------------------------------------------------------
(* The positions. *)

(* Mutant: the first entry that is not needed is not looked for. *)
Rank_Last(dl, d) == Min({Len(dl) + 1, SaveMax})

(* Mutant: the last entry of the list is never used. *)
Rank_Short(dl, d) ==
  Min({i \in DOMAIN dl : dl[i].dirname = d} \cup {Len(dl) + 1, SaveMax - 1})

(* The entry that the loop in filepos_save() moves to the top: the one of
   the directory, or a new one, or the last one. *)
Rank(dl, d) ==
  Min({i \in DOMAIN dl : dl[i].dirname = d} \cup {Len(dl) + 1, SaveMax})

(* Mutant: an empty panel saves a position. *)
Saved_Always(dl, r) == IF r.list # {} THEN r.file ELSE Up

(* The position: that of a directory which could not be listed is kept. *)
Saved(dl, r) ==
  LET known == {i \in DOMAIN dl : dl[i].dirname = r.dir}
  IN  IF r.list # {} THEN r.file
      ELSE IF known # {} THEN dl[Min(known)].savefile ELSE Up

filepos_save(dl, r) ==
  LET k == Rank(dl, r.dir)
  IN  <<Save(r.dir, Saved(dl, r))>> \o SubSeq(dl, 1, k - 1) \o SubSeq(dl, k + 1, Len(dl))

(* The name whose entry filepos_save() uses for the directory d *)
Recycled(dl, d) == {dl[k].dirname : k \in {Rank(dl, d)} \cap DOMAIN dl} \ {d}

(* us_copy() in filepos_save(), as the directory panels see it: t is what the
   pointers to the old name show. *)
Renamed(dl, r, t, d) == IF d \in Recycled(dl, r.dir) THEN t ELSE d

Rename(dl, r) ==
  \E t \in {r.dir, Freed} :
    /\ dp' = [i \in DOMAIN dp |-> Renamed(dl, r, t, dp[i])]
    /\ dps' = [dps EXCEPT !.name = Renamed(dl, r, t, @)]

(* filepos_set(): the file, or the line where it was.  The number of the
   line is not modelled. *)
filepos_set(dl, r) ==
  LET file == CHOOSE f \in Names :
                \E i \in DOMAIN dl : dl[i] = Save(r.dir, f)
  IN  IF r.list = {} THEN {NoFile}
      ELSE IF r.dir \notin DirNames(dl) THEN {Up}
      ELSE IF file \in r.list THEN {file} ELSE r.list

Listing(d) == IF access[d] = "ok" THEN Lists[d] ELSE {}

(* filepanel_read(): dl is the list after its filepos_save(). *)
Read(dl, r) ==
  LET s == [r EXCEPT !.list = Listing(r.dir), !.expired = FALSE]
  IN  {[s EXCEPT !.file = f] : f \in filepos_set(dl, s)}

Moved(r, d) == IF d = r.dir THEN r ELSE [r EXCEPT !.dir = d, !.list = {}]

(* base_name() *)
base_name(d) ==
  SubSeq(d, Max({i \in 1 .. Len(d) : d[i] = Slash}) + 1, Len(d))

Above(d) == {e \in Dirs \ {d} : e = Root \/ IsPrefix(e \o <<Slash>>, d)}

(* find_valid_cwd(): the nearest directory above that is accessible *)
NearestAccessible(d) ==
  CHOOSE e \in Above(d) :
    /\ access[e] # "gone"
    /\ \A x \in Above(d) : access[x] # "gone" => Len(x) <= Len(e)

-----------------------------------------------------------------------------
(* Building blocks of the actions. *)

(* The positions in the remembered directories *)
Noted(r, o) ==
  [d \in Dirs |-> IF d \notin DirNames(dirlist') THEN NoFile
                  ELSE IF d = r.dir /\ r.file # NoFile THEN r.file
                  ELSE IF d = o.dir /\ o.file # NoFile THEN o.file
                  ELSE place[d]]

(* The last position in a panel: when it cannot be listed, that before. *)
LastSeen(r, old) == IF r.file = NoFile /\ r.dir = old.dir THEN old ELSE r

SetPanels(p, r, o) ==
  /\ ppanel_file' = p
  /\ fpanel' = [q \in PanelIds |-> IF q = p THEN r ELSE o]
  /\ place' = Noted(LastSeen(r, fpanel[p]), r)
  /\ unsaved' = (IF p = ppanel_file THEN unsaved ELSE unsaved \cup {pf.dir})
                  \ (IF LastSeen(r, fpanel[p]).file = NoFile THEN {} ELSE {r.dir})

(* The positions in both panels are saved. *)
SetBoth(r, o) ==
  /\ fpanel' = [q \in PanelIds |-> IF q = ppanel_file THEN r ELSE o]
  /\ place' = Noted(r, LastSeen(o, other))
  /\ unsaved' = unsaved \ {x.dir : x \in {y \in {r, LastSeen(o, other)} : y.file # NoFile}}
  /\ UNCHANGED ppanel_file

(* list_directory() of panel p, with the panel r; the other one expires when
   the user data were refreshed. *)
list_directory(dl, p, r, o) ==
  /\ dirlist' = filepos_save(dl, r)
  /\ Rename(dl, r)
  /\ \E s \in Read(dirlist', r), x \in {o.expired, TRUE} :
       SetPanels(p, s, [o EXCEPT !.expired = x])

(* changedir(): the new directory is d. *)
ChangeTo(d) == list_directory(filepos_save(dirlist, pf), ppanel_file, Moved(pf, d), other)

(* changedir(".."): the cursor goes to the directory left. *)
ChangeToParent ==
  LET dl == filepos_save(dirlist, pf)
      r == Moved(pf, Parent(pf.dir))
      back == base_name(pf.dir)
  IN  /\ access[r.dir] # "gone"
      /\ dirlist' = filepos_save(dl, r)
      /\ Rename(dl, r)
      /\ \E s \in Read(dirlist', r), x \in {other.expired, TRUE} :
           SetPanels(ppanel_file,
                     IF back \in s.list THEN [s EXCEPT !.file = back] ELSE s,
                     [other EXCEPT !.expired = x])

(* getcwd() has failed, and there is no way back. *)
Lost ==
  /\ access[pf.dir] = "gone"
  /\ ChangeTo(NearestAccessible(pf.dir))

(* The directory that a name leads to, whether it ends with a slash or not. *)
Resolve(name) == {d \in Dirs : name \in {d, d \o <<Slash>>} /\ access[d] # "gone"}

Accessible == {d \in Dirs : access[d] # "gone"}

(* The directory under the cursor is entered. *)
EnterCurrent ==
  /\ pf.list # {}
  /\ IF pf.file = Up THEN ChangeToParent
     ELSE \E d \in Resolve(Child(pf.dir, pf.file)) : ChangeTo(d)

InFilePanel == mode = "FILE" /\ UNCHANGED <<access, mode>>

-----------------------------------------------------------------------------
(* The file panel. *)

MoveCursor ==
  /\ InFilePanel
  /\ UNCHANGED <<dirlist, dirvars>>
  /\ \E f \in pf.list \ {pf.file} : SetPanels(ppanel_file, [pf EXCEPT !.file = f], other)

(* cx_files_cd(), cx_files_enter() *)
cx_files_cd == InFilePanel /\ EnterCurrent

cx_files_cd_parent == InFilePanel /\ ChangeToParent

(* The root and the home directory, a bookmark *)
CdAnywhere == InFilePanel /\ \E d \in Accessible : ChangeTo(d)

cx_files_reread == InFilePanel /\ list_directory(dirlist, ppanel_file, pf, other)

cx_files_exchange ==
  /\ InFilePanel
  /\ \/ /\ access[other.dir] = "gone"
        /\ list_directory(dirlist, Other(ppanel_file),
                          Moved(other, NearestAccessible(other.dir)), pf)
     \/ /\ access[other.dir] # "gone" /\ other.expired
        /\ list_directory(dirlist, Other(ppanel_file), other, pf)
     \/ /\ access[other.dir] # "gone" /\ ~other.expired
        /\ dirlist' = filepos_save(dirlist, other)
        /\ SetPanels(Other(ppanel_file), other, pf)
        /\ UNCHANGED dirvars

(* cx_sort_set(), and changedir() that finds its way back *)
SavePosition ==
  /\ InFilePanel
  /\ dirlist' = filepos_save(dirlist, pf)
  /\ \E x \in {other.expired, TRUE} :
       SetPanels(ppanel_file, pf, [other EXCEPT !.expired = x])
  /\ UNCHANGED dirvars

(* config_apply(): both panels are sorted, the secondary one is the last. *)
SortBoth ==
  /\ InFilePanel
  /\ dirlist' = filepos_save(filepos_save(dirlist, pf), other)
  /\ SetBoth(pf, other)
  /\ UNCHANGED dirvars

(* list_both_directories() *)
list_both_directories ==
  /\ InFilePanel
  /\ LET dl == filepos_save(dirlist, pf)
     IN  \E r \in Read(dl, pf) :
           /\ dirlist' = filepos_save(dl, other)
           /\ \E s \in Read(dirlist', other) : SetBoth(r, s)
  /\ UNCHANGED dirvars

-----------------------------------------------------------------------------
(* The directory panel. *)

(* dir_main_prepare() *)
OpenDirPanel ==
  /\ mode = "FILE"
  /\ mode' = "DIR"
  /\ \E size \in DpSizes : dp' = dir_main_panel(dirlist, <<>>, size)
  /\ UNCHANGED <<access, dirlist, fpanel, ppanel_file, dps, place, unsaved>>

(* filter_update_dir() *)
filter_update_dir ==
  /\ mode = "DIR"
  /\ \E e \in Filters, size \in DpSizes : dp' = dir_main_panel(dirlist, e, size)
  /\ UNCHANGED <<access, dirlist, fpanel, ppanel_file, mode, dps, place, unsaved>>

(* cx_dir_enter() in the main panel: the split panel opens. *)
OpenSplit ==
  /\ mode = "DIR"
  /\ mode' = "SPLIT"
  /\ \E i \in DOMAIN dp :
       dps' = IF dp[i] = Freed THEN [name |-> Freed, lens |-> <<1>>] ELSE Split(dp[i])
  /\ dp' = <<>>    \* is not used any more
  /\ UNCHANGED <<access, dirlist, fpanel, ppanel_file, place, unsaved>>

(* sub_dir(): the lengths may be those of an earlier name. *)
sub_dir(n) == SubSeq(dps.name, 1, Min({n, Len(dps.name)}))

Leave ==
  /\ dp' = <<>> /\ dps' = NoSplit
  /\ mode' = "FILE"

(* The directories that line i of the split panel may lead to *)
Chosen(i) ==
  IF dps.name = Freed THEN Accessible ELSE Resolve(sub_dir(dps.lens[i]))

(* cx_dir_enter() with a typed name, or with a line of the split panel *)
cx_dir_enter ==
  /\ mode \in {"DIR", "SPLIT"}
  /\ \E d \in Accessible \cup UNION {Chosen(i) : i \in DOMAIN dps.lens} :
       LET dl == filepos_save(dirlist, pf)
           r == Moved(pf, d)
       IN  /\ dirlist' = filepos_save(dl, r)
           /\ \E s \in Read(dirlist', r), x \in {other.expired, TRUE} :
                SetPanels(ppanel_file, s, [other EXCEPT !.expired = x])
  /\ Leave
  /\ UNCHANGED access

(* The arrows on an empty line, below which the panel stays open:
   cx_edit_left() calls cx_files_cd_parent() ... *)
cx_edit_left ==
  /\ mode \in {"DIR", "SPLIT"}
  /\ ChangeToParent \/ Lost
  /\ UNCHANGED <<access, mode>>

(* The file under the cursor is shown with an external viewer; execute()
   reads the directory again. *)
cx_launch_file_viewer ==
  /\ pf.list # {} /\ pf.file # Up /\ Child(pf.dir, pf.file) \notin Dirs
  /\ list_directory(dirlist, ppanel_file, pf, [other EXCEPT !.expired = TRUE])

(* ... and cx_edit_right() calls cx_files_enter(). *)
cx_edit_right ==
  /\ mode \in {"DIR", "SPLIT"}
  /\ EnterCurrent \/ cx_launch_file_viewer
  /\ UNCHANGED <<access, mode>>

Cancel ==
  /\ mode \in {"DIR", "SPLIT"}
  /\ Leave
  /\ UNCHANGED <<access, dirlist, fpanel, ppanel_file, place, unsaved>>

-----------------------------------------------------------------------------
(* Other programs remove directories and change permissions. *)
BackgroundChange ==
  /\ mode = "FILE"
  /\ \E d \in Unreliable : \E a \in {"ok", "noread", "gone"} \ {access[d]} :
       access' = [access EXCEPT ![d] = a]
  /\ UNCHANGED <<dirlist, fpanel, ppanel_file, mode, dirvars, place, unsaved>>

NewPanel(d) == [dir |-> d, list |-> {}, file |-> NoFile, expired |-> TRUE]

(* files_main_prepare() has read the primary panel. *)
Init ==
  /\ access = [d \in Dirs |-> "ok"]
  /\ \E d, e \in Dirs :
       /\ dirlist = <<Save(d, Up)>>
       /\ fpanel = <<[dir |-> d, list |-> Lists[d], file |-> Up, expired |-> FALSE],
                     NewPanel(e)>>
       /\ place = [x \in Dirs |-> IF x = d THEN Up ELSE NoFile]
  /\ ppanel_file = 1
  /\ mode = "FILE" /\ dp = <<>> /\ dps = NoSplit
  /\ unsaved = {}

Next ==
  \/ MoveCursor \/ cx_files_cd \/ cx_files_cd_parent \/ CdAnywhere
  \/ cx_files_reread \/ cx_files_exchange \/ SavePosition \/ SortBoth
  \/ list_both_directories
  \/ InFilePanel /\ Lost
  \/ OpenDirPanel \/ filter_update_dir \/ OpenSplit \/ cx_dir_enter
  \/ cx_edit_left \/ cx_edit_right \/ Cancel
  \/ BackgroundChange

Spec == Init /\ [][Next]_vars

-----------------------------------------------------------------------------
(* Properties *)

Below(e, d) == IF d = Root THEN e # Root ELSE IsPrefix(d \o <<Slash>>, e)

(* The list of directories has no duplicates and contains the directory of
   the primary panel; the cursor of a panel is on one of its files; the
   directory panel shows names of visited directories, or freed memory. *)
TypeOK ==
  /\ access \in [Dirs -> {"ok", "noread", "gone"}]
  /\ dirlist \in Seq([dirname : Dirs, savefile : Names])
  /\ Len(dirlist) \in 1 .. SaveMax
  /\ Cardinality(DirNames(dirlist)) = Len(dirlist)
  /\ ppanel_file \in PanelIds /\ pf.dir \in DirNames(dirlist)
  /\ \A p \in PanelIds :
       LET r == fpanel[p]
       IN  /\ r.dir \in Dirs /\ r.expired \in BOOLEAN
           /\ r.list \in {{}, Lists[r.dir]}
           /\ r.file \in IF r.list = {} THEN {NoFile} ELSE r.list
  /\ mode \in {"FILE", "DIR", "SPLIT"}
  /\ ToSet(dp) \subseteq DirNames(dirlist) \cup {Freed}
  /\ mode # "DIR" => dp = <<>>
  /\ IF mode = "SPLIT" THEN dps.name \in DirNames(dirlist) \cup {Freed}
     ELSE dps = NoSplit

(* The pointers of an open directory panel are good as long as the list has
   room for the directories that the arrow keys visit under the panel; only
   when it is full they may point to freed memory (filepos_save()). *)
NamesFreed ==
  Freed \in ToSet(dp) \cup {dps.name} => Len(dirlist) = SaveMax

(***************************************************************************)
(* "The last cursor position in all those directories" (directory.c): when *)
(* a panel enters a directory that is remembered, whichever panel was      *)
(* there before, the cursor returns to the file where it was, if the file  *)
(* is still there; from a subdirectory it goes to that subdirectory.  This *)
(* holds for directories that were left with chdir(): the exchange of the  *)
(* panels does not save the position in the panel that it leaves.          *)
(***************************************************************************)
Returns ==
  LET d == pf'.dir
  IN  (/\ ppanel_file' = ppanel_file /\ d # pf.dir
       /\ d \in DirNames(dirlist) \ unsaved /\ place[d] \in pf'.list)
        => \/ pf'.file = place[d]
           \/ d = Parent(pf.dir) /\ pf'.file = base_name(pf.dir)

PlaceRestored == [][Returns]_vars

(***************************************************************************)
(* However many directories one key visits: the entries of the others stay *)
(* as they are and keep their order, and one of them is forgotten only     *)
(* when the list is full, the least recent one first (filepos_save()).     *)
(***************************************************************************)
Ahead(dl, x, y) == \E i, j \in DOMAIN dl : i < j /\ dl[i] = x /\ dl[j] = y

RecentFirst ==
  [][LET touched == {pf.dir, other.dir, pf'.dir}
         rest(dl) == {x \in ToSet(dl) : x.dirname \notin touched}
     IN  /\ rest(dirlist') \subseteq rest(dirlist)
         /\ \A x \in rest(dirlist), y \in rest(dirlist') :
              Ahead(dirlist, x, y) => Ahead(dirlist', x, y)
         /\ rest(dirlist') # rest(dirlist) => Len(dirlist') = SaveMax
         /\ DirNames(dirlist') \subseteq DirNames(dirlist) \cup touched
    ]_dirlist

(***************************************************************************)
(* Whatever the list of directories, the filter and the size: every        *)
(* visited directory that passes the filter is in the directory panel, or  *)
(* a subdirectory of it is there, unless the panel is full; the recent     *)
(* ones are all there; no other directory is there together with one of    *)
(* its subdirectories; and the subdirectories of a directory follow it,    *)
(* provided that no character of a name precedes the slash: qcmp() cuts    *)
(* the components too long, and with it /a/b comes behind /a-b.            *)
(***************************************************************************)
Covers(panel, filter, size) ==
  LET passing == {i \in DOMAIN dirlist : Passes(dirlist[i].dirname, filter)}
      recent == {dirlist[i].dirname : i \in passing \cap (1 .. NoCompact)}
      shown == ToSet(panel)
  IN  /\ Cardinality(shown) = Len(panel) /\ Len(panel) <= size
      /\ shown \subseteq {dirlist[i].dirname : i \in passing}
      /\ recent \subseteq shown \/ (Len(panel) = size /\ shown \subseteq recent)
      /\ \/ Len(panel) = size
         \/ \A i \in passing :
              \E d \in shown : d = dirlist[i].dirname \/ Below(d, dirlist[i].dirname)
      /\ filter = <<>> =>
           \A d \in shown \ (recent \cup {Root}), e \in shown : ~Below(e, d)

SlashIsLeast == \A d \in Dirs : \A i \in DOMAIN d : d[i] >= Slash

Tree(panel) ==
  \A i, k \in DOMAIN panel : Below(panel[k], panel[i]) =>
    i < k /\ \A j \in i + 1 .. k : Below(panel[j], panel[i])

PanelCovers ==
  mode = "DIR" => \A filter \in Filters, size \in DpSizes :
    LET panel == dir_main_panel(dirlist, filter, size)
    IN  Covers(panel, filter, size) /\ (SlashIsLeast => Tree(panel))
=============================================================================
