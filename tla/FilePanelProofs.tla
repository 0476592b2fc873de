--------------------------- MODULE FilePanelProofs ---------------------------
(***************************************************************************)
(* Theorems about the file panels, for all directories, files, patterns    *)
(* and settings.                                                           *)
(*                                                                         *)
(* Each operator that rebuilds, filters or marks a panel has a lemma: it   *)
(* returns a well-formed panel.  The steps of the specification follow     *)
(* from these lemmas.                                                      *)
(***************************************************************************)
EXTENDS FilePanel, FiniteSetTheorems, TLAPS

(* A panel of the right type whose parts fit together. *)
Good(r) == r \in Panel /\ WellFormed(r)

(* The inductive invariant of the first theorem. *)
Inv == TypeOK /\ PanelsWellFormed

(* Sets of names are finite, so the counters are natural numbers. *)
LEMMA NamesFinite ==
  ASSUME NEW S \in SUBSET Names
  PROVE  IsFiniteSet(S) /\ Cardinality(S) \in Nat
<1>1. IsFiniteSet(Names)
  BY NamesAssumption, FS_Union DEF Names
<1>2. IsFiniteSet(S)
  BY <1>1, FS_Subset
<1> QED
  BY <1>2, FS_CardinalityType

LEMMA VisibleType ==
  ASSUME NEW w \in World, NEW d \in Dirs
  PROVE  Visible(w, d) \in SUBSET Names /\ Listing(w, d) \in SUBSET Names
BY NamesAssumption DEF World, Visible, Listing, Names

(* An assignment to one of the numbers of a panel. *)
LEMMA CounterUpdate ==
  ASSUME NEW r \in Panel, NEW n \in Int
  PROVE  [r EXCEPT !.selected = n] \in Panel
BY DEF Panel

LEMMA FiltSelUpdate ==
  ASSUME NEW r \in Panel, NEW n \in Int
  PROVE  [r EXCEPT !.filt_sel = n] \in Panel
BY DEF Panel

LEMMA FilteringUpdate ==
  ASSUME NEW r \in Panel, NEW n \in 0 .. 2
  PROVE  [r EXCEPT !.filtering = n] \in Panel
BY DEF Panel

(* The reading leaves the rest of the panel alone when it notes that the   *)
(* counters are due.                                                       *)
LEMMA StaleUpdate ==
  ASSUME NEW r \in Panel, NEW b \in BOOLEAN
  PROVE  LET s == [r EXCEPT !.stale = b]
         IN  /\ s \in Panel /\ s.stale = b
             /\ s.shown = r.shown /\ s.saved = r.saved /\ s.marks = r.marks
             /\ s.dir = r.dir /\ s.filtering = r.filtering
             /\ s.filter = r.filter /\ s.filt_sel = r.filt_sel
             /\ s.expired = r.expired /\ s.selected = r.selected
             /\ s.sorted = r.sorted
BY Zenon DEF Panel

LEMMA FilteringOff ==
  ASSUME NEW r \in Panel
  PROVE  [r EXCEPT !.filtering = 0] \in Panel
BY DEF Panel

(* filepanel_read() returns well-formed panels without a saved part. *)
LEMMA ReadGood ==
  ASSUME NEW r, Good(r), NEW w \in World, NEW key \in SortKeys,
         NEW s \in filepanel_read(r, w, key)
  PROVE  /\ Good(s) /\ s.saved = {} /\ s.dir = r.dir
         /\ s.filtering = r.filtering /\ s.filter = r.filter
         /\ s.filt_sel = r.filt_sel /\ ~s.expired
         /\ s.stale <=> r.filtering # 0 /\ r.filt_sel # 0
<1>. DEFINE V == Visible(w, r.dir)
            b == r.filtering # 0 /\ r.filt_sel # 0
<1>1. V \in SUBSET Names
  BY VisibleType DEF Good, Panel
<1>2. PICK t \in directory_read(r, w) :
        s = [t EXCEPT !.sorted = IF r.filtering = 0 THEN key ELSE Unsorted,
                      !.expired = FALSE, !.stale = b]
  BY DEF filepanel_read
<1>3. /\ t \in Panel /\ t.saved = {} /\ t.marks \subseteq t.shown \ DotDirs
      /\ t.dir = r.dir /\ t.filtering = r.filtering /\ t.filter = r.filter
      /\ t.filt_sel = r.filt_sel
  <2>1. CASE w.access[r.dir] = "ok"
    <3>1. PICK S \in MarkedScan(r, SuspendedCount(r)) : t = Rebuilt(r, w, S)
      BY <1>2, <2>1 DEF directory_read
    <3>2. S \cap V \in SUBSET Names /\ S \cap V \cap DotDirs = {}
      BY <1>1, <3>1 DEF Good, WellFormed, MarkedScan
    <3>3. Cardinality(S \cap V) \in Int
      BY <3>2, NamesFinite
    <3> QED
      BY <1>1, <3>1, <3>2, <3>3 DEF Good, Panel, Rebuilt
  <2>2. CASE w.access[r.dir] # "ok"
    <3>1. t = Emptied(r)
      BY <1>2, <2>2 DEF directory_read
    <3>. DEFINE u == [r EXCEPT !.shown = {}, !.saved = {}, !.marks = {}]
    <3>2. u \in Panel /\ t = [u EXCEPT !.selected = 0]
      BY <3>1 DEF Emptied, Good, Panel
    <3>. HIDE DEF u
    <3>3. t \in Panel
      BY <3>2, CounterUpdate
    <3> QED
      BY <3>1, <3>3 DEF Emptied, Good, Panel
  <2> QED
    BY <2>1, <2>2
<1>. DEFINE u == [t EXCEPT !.sorted = IF r.filtering = 0 THEN key ELSE Unsorted,
                           !.expired = FALSE]
<1>4. u \in Panel
  BY <1>3 DEF Panel
<1>5. s = [u EXCEPT !.stale = b] /\ b \in BOOLEAN
  BY <1>2
<1>6. /\ u.saved = {} /\ u.marks \subseteq u.shown \ DotDirs
      /\ u.dir = r.dir /\ u.filtering = r.filtering /\ u.filter = r.filter
      /\ u.filt_sel = r.filt_sel /\ ~u.expired
  BY <1>3 DEF Panel
<1>. HIDE DEF u, b
<1>7. /\ s \in Panel /\ s.stale = b
      /\ s.shown = u.shown /\ s.saved = u.saved /\ s.marks = u.marks
      /\ s.dir = u.dir /\ s.filtering = u.filtering /\ s.filter = u.filter
      /\ s.filt_sel = u.filt_sel /\ s.expired = u.expired
  BY <1>4, <1>5, StaleUpdate
<1>8. Good(s)
  BY <1>6, <1>7 DEF Good, WellFormed, Entries
<1> QED
  BY <1>6, <1>7, <1>8 DEF b

(* The filter rearranges a well-formed panel. *)
LEMMA FilterGood ==
  ASSUME NEW r, Good(r), r.filtering # 0, NEW key \in SortKeys
  PROVE  LET s == filter_update(r, key)
         IN  /\ Good(s) /\ s.dir = r.dir /\ s.filtering = r.filtering
             /\ s.filter = r.filter /\ s.expired = r.expired
<1>. DEFINE match == Entries(r) \cap Matches[r.filter]
            rest  == Entries(r) \ match
<1>1. /\ match \in SUBSET Names /\ rest \in SUBSET Names
      /\ match \cap rest = {} /\ match \cup rest = Entries(r)
  BY DEF Good, Panel, Entries
<1>2. /\ Cardinality(r.marks \cap match) \in Int
      /\ Cardinality(r.marks \cap rest) \in Int
  BY <1>1, NamesFinite
<1>. HIDE DEF match, rest
<1>3. CASE filter_update(r, key) = r
  BY <1>3 DEF Good, WellFormed, Panel, Entries
<1>4. CASE filter_update(r, key) = Filtered(r, key)
  <2>1. filter_update(r, key) =
          [r EXCEPT !.shown = match, !.saved = rest,
                    !.selected = Cardinality(r.marks \cap match),
                    !.filt_sel = Cardinality(r.marks \cap rest),
                    !.sorted = key, !.stale = FALSE]
    BY <1>4 DEF Filtered, match, rest
  <2>2. filter_update(r, key) \in Panel
    BY <1>1, <1>2, <2>1 DEF Good, Panel
  <2> QED
    BY <1>1, <2>1, <2>2 DEF Good, WellFormed, Panel, Entries
<1> QED
  BY <1>3, <1>4 DEF filter_update

LEMMA FilterOnGood ==
  ASSUME NEW r, Good(r)
  PROVE  Good(filter_on(r)) /\ filter_on(r).dir = r.dir
BY DEF filter_on, Good, WellFormed, Panel, Entries

LEMMA FilterOffGood ==
  ASSUME NEW r, Good(r), NEW key \in SortKeys
  PROVE  Good(filter_off(r, key))
<1>. DEFINE u == [r EXCEPT !.shown = Entries(r), !.saved = {}, !.sorted = key,
                           !.filter = NoPattern]
<1>1. u \in Panel /\ u.selected = r.selected
  BY PatternsAssumption DEF Good, Panel, Entries
<1>. DEFINE v == [u EXCEPT !.filtering = 0]
            x == [v EXCEPT !.selected = r.selected + r.filt_sel]
<1>2. filter_off(r, key) = [x EXCEPT !.filt_sel = 0]
  BY <1>1 DEF filter_off
<1>3. r.selected + r.filt_sel \in Int
  BY DEF Good, Panel
<1>. HIDE DEF u
<1>4. v \in Panel
  BY <1>1, FilteringOff
<1>. HIDE DEF v
<1>5. x \in Panel
  BY <1>3, <1>4, CounterUpdate
<1>. HIDE DEF x
<1>6. filter_off(r, key) \in Panel
  BY <1>2, <1>5, FiltSelUpdate
<1> QED
  BY <1>6 DEF filter_off, Good, WellFormed, Panel, Entries

(* What control_loop() displays is well-formed. *)
LEMMA DisplayedGood ==
  ASSUME NEW r, Good(r), NEW key \in SortKeys
  PROVE  Good(Displayed(r, key))
<1>1. CASE r.filtering = 0
  BY <1>1 DEF Displayed, Good, WellFormed, Panel, Entries
<1>2. CASE r.filtering # 0
  BY <1>2, FilterGood DEF Displayed
<1> QED
  BY <1>1, <1>2

LEMMA RereadGood ==
  ASSUME NEW r, Good(r), NEW w \in World, NEW key \in SortKeys,
         NEW s \in Reread(r, w, key)
  PROVE  Good(s)
<1>1. PICK t \in filepanel_read(r, w, key) : s = Displayed(t, key)
  BY DEF Reread
<1>2. Good(t)
  BY <1>1, ReadGood
<1> QED
  BY <1>1, <1>2, DisplayedGood

(* Changing marks of listed files. *)
LEMMA MarkingGood ==
  ASSUME NEW r, Good(r), NEW S \in SUBSET Entries(r)
  PROVE  /\ Good(Mark(r, S)) /\ Good(Unmark(r, S)) /\ Good(Toggle(r, S))
         /\ Mark(r, S).shown = r.shown
<1>. DEFINE new == (S \ DotDirs) \ r.marks
            old == r.marks \cap S
<1>1. new \in SUBSET Names /\ old \in SUBSET Names /\ new \cap DotDirs = {}
      /\ new \subseteq Entries(r) /\ old \subseteq r.marks
  BY DEF Good, Panel, Entries
<1>2. Cardinality(new) \in Int /\ Cardinality(old) \in Int
  BY <1>1, NamesFinite
<1>3. Mark(r, S) = [r EXCEPT !.marks = @ \cup new,
                             !.selected = @ + Cardinality(new)]
  BY DEF Mark
<1>4. Unmark(r, S) = [r EXCEPT !.marks = @ \ S,
                               !.selected = @ - Cardinality(old)]
  BY DEF Unmark
<1>5. Toggle(r, S) = [r EXCEPT !.marks = (@ \ old) \cup new,
                !.selected = @ + Cardinality(new) - Cardinality(old)]
  BY DEF Toggle
<1>. HIDE DEF new, old
<1>6. Mark(r, S) \in Panel /\ Unmark(r, S) \in Panel /\ Toggle(r, S) \in Panel
  <2>. DEFINE m == [r EXCEPT !.marks = @ \cup new]
              u == [r EXCEPT !.marks = @ \ S]
              t == [r EXCEPT !.marks = (@ \ old) \cup new]
  <2>1. m \in Panel /\ u \in Panel /\ t \in Panel
    BY <1>1 DEF Good, Panel
  <2>2. /\ m.selected + Cardinality(new) \in Int
        /\ u.selected - Cardinality(old) \in Int
        /\ t.selected + Cardinality(new) - Cardinality(old) \in Int
    BY <1>2, <2>1 DEF Panel
  <2>3. /\ Mark(r, S) = [m EXCEPT !.selected = @ + Cardinality(new)]
        /\ Unmark(r, S) = [u EXCEPT !.selected = @ - Cardinality(old)]
        /\ Toggle(r, S) =
             [t EXCEPT !.selected = @ + Cardinality(new) - Cardinality(old)]
    BY <1>3, <1>4, <1>5 DEF Good, Panel
  <2>. HIDE DEF m, u, t
  <2> QED
    BY <2>1, <2>2, <2>3, CounterUpdate
<1> QED
  BY <1>1, <1>3, <1>4, <1>5, <1>6 DEF Good, WellFormed, Panel, Entries

-----------------------------------------------------------------------------
(* Building blocks of the actions. *)

LEMMA PanelsGood ==
  Inv <=> /\ TypeOK
          /\ \A p \in PanelIds : Good(fpanel[p])
BY DEF Inv, TypeOK, PanelsWellFormed, Good

LEMMA PrimaryGood ==
  ASSUME Inv
  PROVE  /\ Good(pf) /\ Good(other)
         /\ ppanel_file \in PanelIds /\ Other(ppanel_file) \in PanelIds
         /\ Other(ppanel_file) # ppanel_file
         /\ sort_key \in SortKeys /\ world \in World
BY PanelsGood DEF TypeOK, pf, other, PanelIds, Other

LEMMA SetPrimaryInv ==
  ASSUME Inv, NEW r, Good(r), SetPrimary(r)
  PROVE  Inv'
<1>1. fpanel' \in [PanelIds -> Panel]
  BY PrimaryGood DEF SetPrimary, Inv, TypeOK, Good
<1>2. \A p \in PanelIds : WellFormed(fpanel'[p])
  BY PrimaryGood DEF SetPrimary, Inv, TypeOK, PanelsWellFormed, Good
<1> QED
  BY <1>1, <1>2 DEF SetPrimary, Inv, TypeOK, PanelsWellFormed

LEMMA ExpiredGood ==
  ASSUME NEW r, Good(r), NEW u \in BOOLEAN
  PROVE  /\ Good([r EXCEPT !.expired = @ \/ u]) /\ Good(Expire(r))
BY DEF Good, WellFormed, Panel, Entries, Expire

LEMMA SortedGood ==
  ASSUME NEW r, Good(r), NEW k \in SortKeys
  PROVE  Good([r EXCEPT !.sorted = k])
BY DEF Good, WellFormed, Panel, Entries

LEMMA BecomesInv ==
  ASSUME Inv, NEW p \in PanelIds, NEW S, \A s \in S : Good(s),
         NEW o, Good(o), Becomes(p, S, o),
         world' \in World, ppanel_file' \in PanelIds, sort_key' \in SortKeys,
         cmd' \in {"none", "cdgit", "ran", "cd"}
  PROVE  Inv'
<1>1. CASE fault' = "overrun" /\ UNCHANGED fpanel
  BY <1>1 DEF Inv, TypeOK, PanelsWellFormed
<1>2. ASSUME NEW s \in S, NEW u \in BOOLEAN,
             fpanel' = [q \in PanelIds |->
               IF q = p THEN s ELSE [o EXCEPT !.expired = @ \/ u]],
             UNCHANGED fault
      PROVE  Inv'
  <2>1. Good([o EXCEPT !.expired = @ \/ u])
    BY ExpiredGood
  <2>2. \A q \in PanelIds : Good(fpanel'[q])
    BY <1>2, <2>1
  <2>3. fpanel' \in [PanelIds -> Panel]
    BY <1>2, <2>1 DEF Good
  <2> QED
    BY <1>2, <2>2, <2>3 DEF Inv, TypeOK, PanelsWellFormed, Good
<1> QED
  BY <1>1, <1>2 DEF Becomes

LEMMA ChangeWorld ==
  ASSUME Inv, NEW D \in SUBSET Dirs, Change(D)
  PROVE  world' \in World
<1>1. PICK c \in [D -> Contents],
           a \in [D \cap Unreliable -> {"ok", "noread", "gone"}] :
        world' = [world EXCEPT
          !.contents = [d \in Dirs |-> IF d \in D THEN c[d] ELSE @[d]],
          !.access = [d \in Dirs |-> IF d \in DOMAIN a THEN a[d] ELSE @[d]]]
  BY DEF Change
<1>2. world \in World
  BY DEF Inv, TypeOK
<1>3. [d \in Dirs |-> IF d \in D THEN c[d] ELSE world.contents[d]]
        \in [Dirs -> Contents]
  BY <1>2 DEF World
<1>4. [d \in Dirs |-> IF d \in DOMAIN a THEN a[d] ELSE world.access[d]]
        \in [Dirs -> {"ok", "noread", "gone"}]
  BY <1>2 DEF World
<1> QED
  BY <1>1, <1>2, <1>3, <1>4 DEF World

LEMMA NearestType ==
  ASSUME NEW w, NEW d \in Dirs
  PROVE  NearestAccessible(w, d) \in SUBSET Dirs
BY DirsAssumption DEF NearestAccessible

(* A move to another directory. *)
LEMMA MovedGood ==
  ASSUME NEW r, Good(r), NEW d \in Dirs
  PROVE  Good([r EXCEPT !.dir = d, !.selected = 0]) /\ Good(Moved(r, d))
<1>. DEFINE u == [r EXCEPT !.dir = d]
<1>1. u \in Panel
  BY DEF Good, Panel
<1>2. [r EXCEPT !.dir = d, !.selected = 0] = [u EXCEPT !.selected = 0]
  OBVIOUS
<1>. HIDE DEF u
<1>3. [r EXCEPT !.dir = d, !.selected = 0] \in Panel
  BY <1>1, <1>2, CounterUpdate
<1> QED
  BY <1>3 DEF Moved, Good, WellFormed, Panel, Entries

(* The new directory of a panel, by changedir() or find_valid_cwd(). *)
LEMMA ArrivalGood ==
  ASSUME NEW r, Good(r), NEW w, NEW s \in Arrivals(r, w) \cup find_valid_cwd(r, w)
  PROVE  Good(s) /\ \E d \in Dirs :
           s = Moved(r, d) \/ s = [r EXCEPT !.dir = d, !.selected = 0]
<1>1. CASE \E d \in Dirs : s = Moved(r, d)
  BY <1>1, MovedGood
<1>2. CASE s \in find_valid_cwd(r, w)
  <2>1. PICK d \in NearestAccessible(w, r.dir) :
          s = [r EXCEPT !.selected = 0, !.dir = d]
    BY <1>2 DEF find_valid_cwd
  <2>2. d \in Dirs
    BY NearestType DEF Good, Panel
  <2>3. s = [r EXCEPT !.dir = d, !.selected = 0]
    BY <2>1 DEF Good, Panel
  <2> QED
    BY <2>2, <2>3, MovedGood
<1> QED
  BY <1>1, <1>2 DEF Arrivals

-----------------------------------------------------------------------------
(* The initial states and the actions. *)

LEMMA InitInv == Init => Inv
<1>. SUFFICES ASSUME Init PROVE Inv
  OBVIOUS
<1>1. world \in World
  BY DEF Init, World
<1>2. PICK d1, d2 \in Dirs :
        fpanel = [p \in PanelIds |->
          IF p = 1 THEN [Rebuilt(NewPanel(d1), world, {}) EXCEPT
                           !.sorted = sort_key, !.expired = FALSE]
                   ELSE NewPanel(d2)]
  BY DEF Init
<1>3. \A d \in Dirs : Good(NewPanel(d))
  BY PatternsAssumption DEF NewPanel, Good, WellFormed, Panel, Entries
<1>4. Good([Rebuilt(NewPanel(d1), world, {}) EXCEPT
              !.sorted = sort_key, !.expired = FALSE])
  <2>1. Visible(world, d1) \in SUBSET Names
    BY <1>1, VisibleType
  <2>. DEFINE n == NewPanel(d1)
              t == [Rebuilt(n, world, {}) EXCEPT
                      !.sorted = sort_key, !.expired = FALSE]
              u == [n EXCEPT !.shown = Visible(world, d1), !.saved = {},
                             !.marks = {}]
              v == [u EXCEPT !.selected = Cardinality({})]
  <2>2. u \in Panel /\ u.marks = {} /\ u.saved = {}
    BY <1>3, <2>1 DEF Good, Panel, NewPanel
  <2>3. t = [v EXCEPT !.sorted = sort_key, !.expired = FALSE]
    <3>1. {} \cap Visible(world, d1) = {} /\ n.dir = d1
      BY DEF NewPanel
    <3> QED
      BY <3>1 DEF Rebuilt
  <2>4. Cardinality({}) \in Int
    BY FS_EmptySet
  <2>. HIDE DEF n, u
  <2>5. v \in Panel /\ v.marks = {} /\ v.saved = {}
    BY <2>2, <2>4, CounterUpdate DEF Panel
  <2>. HIDE DEF v
  <2> QED
    <3>1. sort_key \in SortKeys
      BY DEF Init
    <3>2. t \in Panel
      BY <2>3, <2>5, <3>1 DEF Panel
    <3>3. WellFormed(t)
      BY <2>3, <2>5 DEF WellFormed, Panel, Entries
    <3> QED
      BY <3>2, <3>3 DEF Good, n
<1>5. fpanel \in [PanelIds -> Panel] /\ \A p \in PanelIds : WellFormed(fpanel[p])
  BY <1>2, <1>3, <1>4 DEF Good
<1> QED
  BY <1>1, <1>5 DEF Init, Inv, TypeOK, PanelsWellFormed, PanelIds

LEMMA SelectKeysInv == ASSUME Inv, SelectKeys PROVE Inv'
<1>1. Good(pf)
  BY PrimaryGood
<1>2. \A r : Good(r) => Good(FocusOff(r))
  BY DEF FocusOff, Good, WellFormed, Panel, Entries
<1>3. \A f \in pf.shown : Good(Toggle(pf, {f}))
  BY <1>1, MarkingGood DEF Entries
<1>4. Good(Toggle(pf, pf.shown)) /\ Good(Mark(pf, pf.shown))
        /\ Good(Unmark(pf, pf.shown))
  BY <1>1, MarkingGood DEF Entries
<1>5. \A e : /\ Good(Mark(pf, pf.shown \cap Matches[e]))
             /\ Good(Unmark(pf, pf.shown \cap Matches[e]))
  BY <1>1, MarkingGood DEF Entries
<1>6. CASE cx_select_toggle
  BY <1>3, <1>6, SetPrimaryInv DEF cx_select_toggle
<1>7. CASE cx_select_invert
  BY <1>4, <1>7, SetPrimaryInv DEF cx_select_invert
<1>8. CASE cx_select_allfiles
  BY <1>4, <1>8, SetPrimaryInv DEF cx_select_allfiles
<1>9. CASE cx_select_nofiles
  BY <1>4, <1>9, SetPrimaryInv DEF cx_select_nofiles
<1>10. CASE cx_select_files
  BY <1>1, <1>2, <1>5, <1>10, SetPrimaryInv DEF cx_select_files
<1> QED
  BY <1>6, <1>7, <1>8, <1>9, <1>10 DEF SelectKeys

LEMMA TurnFilterOffInv == ASSUME Inv, TurnFilterOff PROVE Inv'
BY PrimaryGood, FilterOffGood, SetPrimaryInv DEF TurnFilterOff

LEMMA FilterKeysInv ==
  ASSUME Inv, FilterKeys PROVE Inv'
<1>1. Good(pf) /\ sort_key \in SortKeys
  BY PrimaryGood
<1>2. Good(filter_on(pf))
  BY <1>1, FilterOnGood
<1>3. CASE cx_filter
  <2>1. CASE pf.filtering # 0 /\ SetPrimary([pf EXCEPT !.filtering = 3 - @])
    <3>1. 3 - pf.filtering \in 0 .. 2 /\ 3 - pf.filtering # 0
      BY <1>1, <2>1 DEF Good, Panel
    <3>2. [pf EXCEPT !.filtering = 3 - @] \in Panel
      BY <1>1, <3>1, FilteringUpdate DEF Good
    <3>3. Good([pf EXCEPT !.filtering = 3 - @])
      BY <1>1, <2>1, <3>1, <3>2 DEF Good, WellFormed, Panel, Entries
    <3> QED
      BY <2>1, <3>3, SetPrimaryInv
  <2> QED
    BY <1>2, <1>3, <2>1, SetPrimaryInv, TurnFilterOffInv DEF cx_filter
<1>4. CASE FilterEnter
  BY <1>4, TurnFilterOffInv DEF FilterEnter
<1>5. CASE cx_filter_toggle
  BY <1>2, <1>5, SetPrimaryInv, TurnFilterOffInv DEF cx_filter_toggle
<1>6. CASE FilterEdit
  <2>1. PICK e \in Patterns :
          /\ pf.filtering = 1
          /\ SetPrimary(filter_update([pf EXCEPT !.filter = e], sort_key))
    BY <1>6 DEF FilterEdit
  <2>2. Good([pf EXCEPT !.filter = e]) /\ [pf EXCEPT !.filter = e].filtering # 0
    BY <1>1, <2>1 DEF Good, WellFormed, Panel, Entries
  <2>3. Good(filter_update([pf EXCEPT !.filter = e], sort_key))
    BY <1>1, <2>2, FilterGood
  <2> QED
    BY <2>1, <2>3, SetPrimaryInv
<1> QED
  BY <1>3, <1>4, <1>5, <1>6 DEF FilterKeys

LEMMA ComparedGood ==
  ASSUME NEW r, Good(r), NEW s, NEW same
  PROVE  Good(Compared(r, s, same))
<1>1. Good(Mark(r, r.shown)) /\ Mark(r, r.shown).shown = r.shown
  BY MarkingGood DEF Entries
<1> QED
  BY <1>1, MarkingGood DEF Compared, Entries

LEMMA ComparePanelsInv ==
  ASSUME Inv, NEW same \in SUBSET Files, compare_panels(same)
  PROVE  Inv'
<1>1. CASE fault' = "overrun" /\ UNCHANGED fpanel
  BY <1>1 DEF compare_panels, Inv, TypeOK, PanelsWellFormed
<1>2. ASSUME NEW r1 \in Reread(pf, world, sort_key),
             NEW r2 \in Reread(other, world, sort_key),
             fpanel' = [q \in PanelIds |->
               IF q = ppanel_file
                 THEN [Compared(r1, r2, same) EXCEPT !.sorted = sort_key]
                 ELSE Compared(r2, r1, same)],
             UNCHANGED fault
      PROVE  Inv'
  <2>1. Good(Compared(r1, r2, same)) /\ Good(Compared(r2, r1, same))
    BY PrimaryGood, RereadGood, ComparedGood
  <2>2. Good([Compared(r1, r2, same) EXCEPT !.sorted = sort_key])
    BY <2>1, PrimaryGood DEF Good, WellFormed, Panel, Entries
  <2>3. fpanel' \in [PanelIds -> Panel] /\ \A q \in PanelIds : Good(fpanel'[q])
    BY <1>2, <2>1, <2>2 DEF Good
  <2> QED
    BY <1>2, <2>3 DEF compare_panels, Inv, TypeOK, PanelsWellFormed, Good
<1> QED
  BY <1>1, <1>2 DEF compare_panels

LEMMA ReadKeysInv == ASSUME Inv, ReadKeys PROVE Inv'
<1>1. /\ Good(pf) /\ Good(other) /\ Good(Expire(other))
      /\ ppanel_file \in PanelIds /\ Other(ppanel_file) \in PanelIds
      /\ sort_key \in SortKeys /\ world \in World
      /\ cmd \in {"none", "cdgit", "ran", "cd"}
  BY PrimaryGood, ExpiredGood DEF Inv, TypeOK
<1>2. ASSUME NEW p \in PanelIds, NEW r, Good(r), NEW o, Good(o),
             NEW w \in World, NEW key \in SortKeys,
             list_directory(p, r, o, w, key),
             world' \in World, ppanel_file' \in PanelIds,
             sort_key' \in SortKeys, cmd' = cmd
      PROVE  Inv'
  BY <1>1, <1>2, RereadGood, BecomesInv DEF list_directory
<1>3. CASE cx_files_reread
  BY <1>1, <1>2, <1>3 DEF cx_files_reread
<1>4. CASE SetAndReread
  <2>1. world' \in World /\ sort_key' \in SortKeys
    BY <1>1, <1>4 DEF SetAndReread, World
  <2> QED
    BY <1>1, <1>2, <1>4, <2>1 DEF SetAndReread
<1>5. CASE changedir
  <2>1. PICK r \in Arrivals(pf, world) :
          list_directory(ppanel_file, r, other, world, sort_key)
    BY <1>5 DEF changedir
  <2>2. Good(r)
    BY <1>1, ArrivalGood
  <2> QED
    BY <1>1, <1>2, <1>5, <2>1, <2>2 DEF changedir
<1>6. CASE cx_files_exchange
  <2>1. UNCHANGED <<world, sort_key, cmd>> /\ ppanel_file' \in PanelIds
    BY <1>1, <1>6 DEF cx_files_exchange
  <2>2. CASE \E r \in find_valid_cwd(other, world) :
               list_directory(Other(ppanel_file), r, pf, world, sort_key)
    <3>1. \A r \in find_valid_cwd(other, world) : Good(r)
      BY <1>1, ArrivalGood
    <3> QED
      BY <1>1, <1>2, <2>1, <2>2, <3>1
  <2>3. CASE list_directory(Other(ppanel_file), other, pf, world, sort_key)
    BY <1>1, <1>2, <2>1, <2>3
  <2>4. CASE /\ fpanel' = [fpanel EXCEPT ![Other(ppanel_file)] =
                                           Displayed(other, sort_key)]
             /\ UNCHANGED fault
    <3>1. Good(Displayed(other, sort_key))
      BY <1>1, DisplayedGood
    <3>2. fpanel' \in [PanelIds -> Panel] /\ \A q \in PanelIds : Good(fpanel'[q])
      BY <2>4, <3>1 DEF Good, Inv, TypeOK, PanelsWellFormed
    <3> QED
      BY <2>1, <2>4, <3>2 DEF Inv, TypeOK, PanelsWellFormed, Good
  <2> QED
    BY <1>6, <2>2, <2>3, <2>4 DEF cx_files_exchange
<1>7. CASE \E same \in SUBSET Files : compare_panels(same)
  BY <1>7, ComparePanelsInv
<1> QED
  BY <1>3, <1>4, <1>5, <1>6, <1>7 DEF ReadKeys

LEMMA CommandsInv == ASSUME Inv, Commands PROVE Inv'
<1>1. /\ Good(pf) /\ Good(other) /\ Good(Expire(other))
      /\ ppanel_file \in PanelIds /\ sort_key \in SortKeys /\ world \in World
  BY PrimaryGood, ExpiredGood
<1>2. CASE execute
  <2>1. world' \in World
    BY <1>2, ChangeWorld DEF execute
  <2>2. \A s \in filepanel_read(pf, world', sort_key) : Good(s)
    BY <1>1, <2>1, ReadGood
  <2>3. Becomes(ppanel_file, filepanel_read(pf, world', sort_key), Expire(other))
    BY <1>2 DEF execute
  <2> QED
    BY <1>1, <1>2, <2>1, <2>2, <2>3, BecomesInv DEF execute
<1>3. CASE execute_cd
  <2>1. PICK r \in Arrivals(pf, world) :
          Becomes(ppanel_file, filepanel_read(r, world, sort_key), other)
    BY <1>3 DEF execute_cd
  <2>2. Good(r)
    BY <1>1, ArrivalGood
  <2>3. \A s \in filepanel_read(r, world, sort_key) : Good(s)
    BY <1>1, <2>2, ReadGood
  <2> QED
    BY <1>1, <1>3, <2>1, <2>3, BecomesInv DEF execute_cd
<1>4. CASE execute_cdgit
  <2>1. PICK r \in Arrivals(pf, world), k \in SortKeys :
          /\ sort_key' = k
          /\ Becomes(ppanel_file,
                     {[s EXCEPT !.sorted = k] : s \in filepanel_read(r, world, k)},
                     Expire(other))
    BY <1>4 DEF execute_cdgit
  <2>2. Good(r)
    BY <1>1, ArrivalGood
  <2>3. \A s \in filepanel_read(r, world, k) : Good([s EXCEPT !.sorted = k])
    BY <1>1, <2>2, ReadGood, SortedGood
  <2> QED
    BY <1>1, <1>4, <2>1, <2>3, BecomesInv DEF execute_cdgit
<1>5. CASE FinishCommand
  <2>1. Good(Displayed(pf, sort_key))
    BY <1>1, DisplayedGood
  <2>2. fpanel' = [fpanel EXCEPT ![ppanel_file] = Displayed(pf, sort_key)]
    BY <1>5 DEF FinishCommand, pf
  <2>3. fpanel' \in [PanelIds -> Panel] /\ \A q \in PanelIds : Good(fpanel'[q])
    BY <2>1, <2>2 DEF Good, Inv, TypeOK, PanelsWellFormed
  <2> QED
    BY <1>5, <2>3 DEF FinishCommand, Inv, TypeOK, PanelsWellFormed, Good
<1> QED
  BY <1>2, <1>3, <1>4, <1>5 DEF Commands

LEMMA SortInv == ASSUME Inv, cx_sort_set \/ SetGrouping PROVE Inv'
<1>1. \A r, k : Good(r) /\ k \in SortKeys =>
         Good([r EXCEPT !.sorted = k]) /\ Good(Expire(r))
  BY SortedGood, ExpiredGood
<1>2. \A p \in PanelIds : Good(fpanel[p])
  BY PanelsGood
<1>3. fpanel' \in [PanelIds -> Panel] /\ \A p \in PanelIds : Good(fpanel'[p])
  <2>1. CASE cx_sort_set
    <3>1. PICK k \in SortKeys :
            fpanel' = [fpanel EXCEPT
              ![ppanel_file].sorted = k,
              ![Other(ppanel_file)] = Expire(@)]
      BY <2>1 DEF cx_sort_set
    <3>2. \A p \in PanelIds : Good(fpanel'[p])
      <4>1. fpanel \in [PanelIds -> Panel] /\ ppanel_file \in PanelIds
              /\ Other(ppanel_file) \in PanelIds
              /\ Other(ppanel_file) # ppanel_file
        BY PrimaryGood DEF Inv, TypeOK
      <4>2. fpanel'[ppanel_file] =
              [fpanel[ppanel_file] EXCEPT !.sorted = k]
        BY <3>1, <4>1
      <4>3. fpanel'[Other(ppanel_file)] = Expire(fpanel[Other(ppanel_file)])
        BY <3>1, <4>1
      <4>4. \A p \in PanelIds : p = ppanel_file \/ p = Other(ppanel_file)
        BY <4>1 DEF PanelIds, Other
      <4> QED
        <5>1. Good([fpanel[ppanel_file] EXCEPT !.sorted = k])
          BY <1>1, <1>2, <4>1
        <5>2. Good(Expire(fpanel[Other(ppanel_file)]))
          BY <1>2, <4>1, ExpiredGood
        <5>3. Good(fpanel'[ppanel_file]) /\ Good(fpanel'[Other(ppanel_file)])
          BY <4>2, <4>3, <5>1, <5>2
        <5> QED
          BY <4>4, <5>3
    <3>3. DOMAIN fpanel' = PanelIds /\ fpanel' = [p \in PanelIds |-> fpanel'[p]]
      BY <3>1 DEF Inv, TypeOK
    <3> QED
      BY <3>2, <3>3 DEF Good
  <2>2. CASE SetGrouping
    <3>1. PICK k \in SortKeys :
            fpanel' = [q \in PanelIds |->
              [fpanel[q] EXCEPT !.sorted = k]]
      BY <2>2 DEF SetGrouping
    <3> QED
      BY <1>1, <1>2, <3>1 DEF Good
  <2> QED
    BY <2>1, <2>2
<1> QED
  BY <1>3 DEF cx_sort_set, SetGrouping, Inv, TypeOK, PanelsWellFormed, Good

LEMMA NextInv == ASSUME Inv, [Next]_vars PROVE Inv'
<1>1. CASE cx_insert_filename \/ edit_macro \/ Faulted \/ UNCHANGED vars
  BY <1>1 DEF cx_insert_filename, edit_macro, Faulted, vars, Inv, TypeOK,
              PanelsWellFormed
<1>2. CASE BackgroundChange
  <2>1. PICK d \in External : Change({d})
    BY <1>2 DEF BackgroundChange
  <2>2. world' \in World
    BY <2>1, SettingsAssumption, ChangeWorld
  <2> QED
    BY <1>2, <2>2 DEF BackgroundChange, Inv, TypeOK, PanelsWellFormed
<1> QED
  BY <1>1, <1>2, SelectKeysInv, FilterKeysInv, ReadKeysInv, CommandsInv, SortInv
     DEF Next

-----------------------------------------------------------------------------
(***************************************************************************)
(* The inductive invariant of the panels: every key press, command and     *)
(* change from outside preserves it.                                       *)
(***************************************************************************)
THEOREM PanelsInvariant == Spec => []Inv
<1>1. Init => Inv
  BY InitInv
<1>2. Inv /\ [Next]_vars => Inv'
  BY NextInv
<1> QED
  BY <1>1, <1>2, PTL DEF Spec

(***************************************************************************)
(* Whatever the user types and whatever happens to the directories, the    *)
(* fields of both FILE_PANEL structures keep their types: the filter's     *)
(* state stays one of its three values, only names are listed.             *)
(***************************************************************************)
THEOREM PanelsTyped == Spec => []TypeOK
<1>1. Inv => TypeOK
  BY DEF Inv
<1> QED
  BY <1>1, PanelsInvariant, PTL

(***************************************************************************)
(* Each panel stays well-formed: no entry of the array is displayed and    *)
(* concealed at once, none is concealed when the filter is off, and only   *)
(* listed files other than "." and ".." are marked (list.c, filter.c,      *)
(* select.c).                                                              *)
(***************************************************************************)
THEOREM PanelsCorrect == Spec => []PanelsWellFormed
<1>1. Inv => PanelsWellFormed
  BY DEF Inv
<1> QED
  BY <1>1, PanelsInvariant, PTL

-----------------------------------------------------------------------------
(* Cardinalities. *)

LEMMA DisjointUnion ==
  ASSUME NEW S \in SUBSET Names, NEW T \in SUBSET Names, S \cap T = {}
  PROVE  Cardinality(S \cup T) = Cardinality(S) + Cardinality(T)
<1>1. /\ IsFiniteSet(S) /\ Cardinality(S) \in Nat
      /\ IsFiniteSet(T) /\ Cardinality(T) \in Nat
  BY NamesFinite
<1>2. Cardinality(S \cup T) =
        Cardinality(S) + Cardinality(T) - Cardinality(S \cap T)
  BY <1>1, FS_Union
<1>3. Cardinality(S \cap T) = 0
  BY FS_EmptySet
<1> QED
  BY <1>1, <1>2, <1>3

LEMMA SubsetOfSize ==
  ASSUME NEW T \in SUBSET Names, NEW k \in 0 .. Cardinality(T)
  PROVE  \E S \in SUBSET T : Cardinality(S) = k
<1>. DEFINE n == Cardinality(T)
<1>1. IsFiniteSet(T) /\ n \in Nat
  BY NamesFinite
<1>2. PICK m \in Nat : ExistsBijection(1 .. m, T)
  BY <1>1, FS_NatBijection
<1>3. m = n
  BY <1>2, FS_CountingElements
<1>4. PICK f \in Bijection(1 .. m, T) : TRUE
  BY <1>2 DEF ExistsBijection
<1>. DEFINE S == {f[i] : i \in 1 .. k}
            g == [i \in 1 .. k |-> f[i]]
<1>5. k \in Nat /\ 1 .. k \subseteq 1 .. m
  BY <1>1, <1>3
<1>6. S \in SUBSET T
  <2>1. f \in [1 .. m -> T]
    BY <1>4 DEF Bijection, Injection
  <2> QED
    BY <1>5, <2>1
<1>7. g \in Bijection(1 .. k, S)
  <2>1. g \in [1 .. k -> S]
    OBVIOUS
  <2>2. \A a, b \in 1 .. k : g[a] = g[b] => a = b
    BY <1>4, <1>5 DEF Bijection, Injection, IsInjective
  <2>3. \A y \in S : \E i \in 1 .. k : g[i] = y
    OBVIOUS
  <2> QED
    BY <2>1, <2>2, <2>3 DEF Bijection, Injection, Surjection, IsInjective
<1>8. Cardinality(S) = k
  BY <1>5, <1>7, FS_CountingElements DEF ExistsBijection
<1> QED
  BY <1>6, <1>8

-----------------------------------------------------------------------------
(***************************************************************************)
(* The counters.  A panel is exact when both are right, or due to be       *)
(* counted again.  A move to another directory leaves it loose until it is *)
(* read: `selected' is zero while the marks of the old directory are still *)
(* in the array.                                                           *)
(***************************************************************************)
Exact(r) ==
  /\ ~r.stale => Counted(r)
  /\ r.filtering = 0 => r.filt_sel = 0

Loose(r) ==
  /\ r.selected \in {0, Cardinality(r.marks \cap r.shown)}
  /\ r.filt_sel = IF r.filtering = 0 THEN 0
                                     ELSE Cardinality(r.marks \cap r.saved)

LEMMA ExactIsLoose == \A r : Exact(r) /\ ~r.stale => Loose(r)
BY DEF Exact, Loose, Counted

(* The marked files are those displayed and those concealed. *)
LEMMA MarksSplit ==
  ASSUME NEW r, Good(r)
  PROVE  LET shownMarks == r.marks \cap r.shown
             savedMarks == r.marks \cap r.saved
         IN  /\ shownMarks \in SUBSET Names /\ savedMarks \in SUBSET Names
             /\ shownMarks \cap savedMarks = {}
             /\ r.marks = shownMarks \cup savedMarks
             /\ Cardinality(shownMarks) \in Nat
             /\ Cardinality(savedMarks) \in Nat
             /\ Cardinality(r.marks) =
                  Cardinality(shownMarks) + Cardinality(savedMarks)
<1>. DEFINE A == r.marks \cap r.shown
            B == r.marks \cap r.saved
<1>1. A \in SUBSET Names /\ B \in SUBSET Names /\ A \cap B = {}
        /\ r.marks = A \cup B
  BY DEF Good, WellFormed, Panel, Entries
<1>. HIDE DEF A, B
<1> QED
  BY <1>1, NamesFinite, DisjointUnion DEF A, B

(* The loop over n marked entries ends when there are as many. *)
LEMMA ScanEnds ==
  ASSUME NEW r, Good(r), NEW n \in 0 .. Cardinality(r.marks)
  PROVE  MarkedScan(r, n) # {}
<1>. DEFINE A == r.marks \cap r.shown
            B == r.marks \cap r.saved
<1>1. /\ A \in SUBSET Names /\ B \in SUBSET Names /\ A \cap B = {}
      /\ r.marks = A \cup B
      /\ Cardinality(A) \in Nat /\ Cardinality(B) \in Nat
      /\ Cardinality(r.marks) = Cardinality(A) + Cardinality(B)
  BY MarksSplit
<1>. HIDE DEF A, B
<1>2. CASE n <= Cardinality(A)
  <2>0. n \in 0 .. Cardinality(A)
    BY <1>1, <1>2
  <2>1. PICK S \in SUBSET A : Cardinality(S) = n
    BY <1>1, <2>0, SubsetOfSize
  <2>2. S \in SUBSET r.marks /\ S \subseteq r.shown
    BY DEF A
  <2>3. S \in MarkedScan(r, n)
    BY <2>1, <2>2 DEF MarkedScan
  <2> QED
    BY <2>3
<1>3. CASE n > Cardinality(A)
  <2>1. n - Cardinality(A) \in 0 .. Cardinality(B)
    BY <1>1, <1>3
  <2>2. PICK S \in SUBSET B : Cardinality(S) = n - Cardinality(A)
    BY <1>1, <2>1, SubsetOfSize
  <2>3. Cardinality(A \cup S) = n
    <3>1. S \in SUBSET Names /\ A \cap S = {}
      BY <1>1
    <3>2. Cardinality(A \cup S) = Cardinality(A) + Cardinality(S)
      BY <1>1, <3>1, DisjointUnion
    <3> QED
      BY <1>1, <2>2, <3>2
  <2>4. A \cup S \in SUBSET r.marks /\ (r.marks \cap r.shown) \subseteq A \cup S
    BY <1>1 DEF A
  <2>5. A \cup S \in MarkedScan(r, n)
    BY <2>3, <2>4 DEF MarkedScan
  <2> QED
    BY <2>5
<1> QED
  BY <1>1, <1>2, <1>3

(* A loose panel can be read: the scan for its marks ends in the listing.  *)
LEMMA ReadEnds ==
  ASSUME NEW r, Good(r), Loose(r), NEW w, NEW key
  PROVE  filepanel_read(r, w, key) # {}
<1>1. SuspendedCount(r) \in 0 .. Cardinality(r.marks)
  <2>. DEFINE a == Cardinality(r.marks \cap r.shown)
              b == Cardinality(r.marks \cap r.saved)
  <2>1. a \in Nat /\ b \in Nat /\ Cardinality(r.marks) = a + b
    BY MarksSplit
  <2>2. r.selected = 0 \/ r.selected = a
    BY DEF Loose
  <2>3. r.filtering # 0 => r.filt_sel = b
    BY DEF Loose
  <2>. HIDE DEF a, b
  <2> QED
    BY <2>1, <2>2, <2>3 DEF SuspendedCount
<1>2. MarkedScan(r, SuspendedCount(r)) # {}
  BY <1>1, ScanEnds
<1>3. directory_read(r, w) # {}
  BY <1>2 DEF directory_read
<1> QED
  BY <1>3 DEF filepanel_read

(* Whatever the counters were, those of a panel that has just been read    *)
(* are right or due.                                                       *)
LEMMA ReadExact ==
  ASSUME NEW r, Good(r), r.filtering = 0 => r.filt_sel = 0,
         NEW w \in World, NEW key \in SortKeys,
         NEW s \in filepanel_read(r, w, key)
  PROVE  Exact(s)
<1>. DEFINE b == r.filtering # 0 /\ r.filt_sel # 0
<1>1. PICK t \in directory_read(r, w) :
        s = [t EXCEPT !.sorted = IF r.filtering = 0 THEN key ELSE Unsorted,
                      !.expired = FALSE, !.stale = b]
  BY DEF filepanel_read
<1>. HIDE DEF b
<1>2. s.selected = Cardinality(s.marks)
  <2>1. CASE w.access[r.dir] = "ok"
    <3>. PICK S \in MarkedScan(r, SuspendedCount(r)) : t = Rebuilt(r, w, S)
      BY <2>1 DEF directory_read
    <3>1. /\ t.selected = Cardinality(S \cap Visible(w, r.dir))
          /\ t.marks = S \cap Visible(w, r.dir)
      BY DEF Rebuilt, Good, Panel
    <3>2. DOMAIN t = DOMAIN r
      BY DEF Rebuilt
    <3>3. s.selected = t.selected /\ s.marks = t.marks
      BY <1>1, <3>2 DEF Good, Panel
    <3> QED
      BY <3>1, <3>3
  <2>2. CASE w.access[r.dir] # "ok"
    <3>1. t = Emptied(r)
      BY <2>2 DEF directory_read
    <3>2. s.selected = 0 /\ s.marks = {}
      BY <1>1, <3>1 DEF Emptied, Good, Panel
    <3> QED
      BY <3>2, FS_EmptySet
  <2> QED
    BY <2>1, <2>2
<1>3. /\ Good(s) /\ s.saved = {} /\ s.filtering = r.filtering
      /\ s.filt_sel = r.filt_sel /\ (s.stale <=> r.filtering # 0 /\ r.filt_sel # 0)
  BY ReadGood
<1>4. /\ s.marks \cap s.shown = s.marks /\ s.marks \cap s.saved = {}
      /\ Cardinality({}) = 0
  BY <1>3, FS_EmptySet DEF Good, WellFormed, Entries
<1>5. ASSUME ~s.stale PROVE Counted(s)
  <2>1. s.filtering # 0 => s.filt_sel = 0
    BY <1>3, <1>5
  <2> QED
    BY <1>2, <1>4, <2>1 DEF Counted
<1> QED
  BY <1>3, <1>5 DEF Exact

(* filter_update() counts the marks anew. *)
LEMMA FilterExact ==
  ASSUME NEW r, Good(r), Exact(r), r.filtering # 0, NEW key \in SortKeys
  PROVE  Exact(filter_update(r, key))
<1>1. CASE filter_update(r, key) = r
  BY <1>1
<1>2. CASE filter_update(r, key) = Filtered(r, key)
  <2>. DEFINE match == Entries(r) \cap Matches[r.filter]
              rest  == Entries(r) \ match
              m == Cardinality(r.marks \cap match)
              n == Cardinality(r.marks \cap rest)
              u == [r EXCEPT !.shown = match, !.saved = rest, !.selected = m,
                             !.filt_sel = n, !.sorted = key]
  <2>1. filter_update(r, key) = [u EXCEPT !.stale = FALSE]
    BY <1>2 DEF Filtered
  <2>. HIDE DEF match, rest, m, n
  <2>2. /\ u.shown = match /\ u.saved = rest /\ u.marks = r.marks
        /\ u.selected = m /\ u.filt_sel = n /\ u.filtering = r.filtering
    BY DEF Good, Panel
  <2>3. DOMAIN u = DOMAIN r
    OBVIOUS
  <2>. DEFINE s == [u EXCEPT !.stale = FALSE]
  <2>4. /\ s.shown = u.shown /\ s.saved = u.saved /\ s.marks = u.marks
        /\ s.selected = u.selected /\ s.filt_sel = u.filt_sel
        /\ s.filtering = u.filtering
    BY <2>3 DEF Good, Panel
  <2>. HIDE DEF u, s
  <2>5. Counted(s) /\ s.filtering # 0
    BY <2>2, <2>4 DEF Counted, m, n
  <2> QED
    BY <2>1, <2>5 DEF Exact, s
<1> QED
  BY <1>1, <1>2 DEF filter_update

LEMMA DisplayedExact ==
  ASSUME NEW r, Good(r), Exact(r), NEW key \in SortKeys
  PROVE  Exact(Displayed(r, key))
BY FilterExact DEF Displayed

LEMMA RereadExact ==
  ASSUME NEW r, Good(r), r.filtering = 0 => r.filt_sel = 0,
         NEW w \in World, NEW key \in SortKeys
  PROVE  /\ \A s \in Reread(r, w, key) : Exact(s)
         /\ Loose(r) => Reread(r, w, key) # {}
<1>1. \A t \in filepanel_read(r, w, key) : Good(t) /\ Exact(t)
  BY ReadGood, ReadExact
<1>2. \A t \in filepanel_read(r, w, key) : Exact(Displayed(t, key))
  BY <1>1, DisplayedExact
<1>3. Loose(r) => filepanel_read(r, w, key) # {}
  BY ReadEnds
<1> QED
  BY <1>2, <1>3 DEF Reread

LEMMA FilterOnOffExact ==
  ASSUME NEW r, Good(r), Exact(r), NEW key \in SortKeys
  PROVE  /\ r.filtering = 0 => Exact(filter_on(r))
         /\ r.filtering # 0 => Exact(filter_off(r, key))
<1>1. ASSUME r.filtering = 0 PROVE Exact(filter_on(r))
  <2>. DEFINE s == filter_on(r)
  <2>1. r.marks \cap r.saved = {} /\ Cardinality({}) = 0
    BY <1>1, FS_EmptySet DEF Good, WellFormed
  <2>2. /\ s.filtering = 1 /\ s.filt_sel = r.filt_sel /\ s.marks = r.marks
        /\ s.shown = r.shown /\ s.saved = r.saved /\ s.selected = r.selected
    BY DEF filter_on, Good, Panel
  <2>3. s.stale = r.stale
    BY Zenon DEF filter_on, Good, Panel
  <2>4. r.filt_sel = 0
    BY <1>1 DEF Exact
  <2>5. ~r.stale => r.selected = Cardinality(r.marks \cap r.shown)
    BY DEF Exact, Counted
  <2>. HIDE DEF s
  <2> QED
    BY <2>1, <2>2, <2>3, <2>4, <2>5 DEF Exact, Counted, s
<1>2. ASSUME r.filtering # 0 PROVE Exact(filter_off(r, key))
  <2>. DEFINE s == filter_off(r, key)
  <2>1. s.filtering = 0 /\ s.filt_sel = 0 /\ s.marks = r.marks
          /\ s.shown = Entries(r) /\ s.selected = r.selected + r.filt_sel
    BY DEF filter_off, Good, Panel
  <2>2. ~r.stale => Cardinality(r.marks) = r.selected + r.filt_sel
    BY <1>2, MarksSplit DEF Exact, Counted
  <2>3. r.marks \cap Entries(r) = r.marks
    BY DEF Good, WellFormed
  <2>4. s.stale = r.stale
    BY Zenon DEF filter_off, Good, Panel
  <2>. HIDE DEF s
  <2> QED
    BY <2>1, <2>2, <2>3, <2>4 DEF Exact, Counted, s
<1> QED
  BY <1>1, <1>2

(* Each changed mark changes the counter by one. *)
LEMMA MarkingCounted ==
  ASSUME NEW r, Good(r), Counted(r), NEW S \in SUBSET r.shown
  PROVE  Counted(Mark(r, S)) /\ Counted(Unmark(r, S)) /\ Counted(Toggle(r, S))
<1>. DEFINE A   == r.marks \cap r.shown
            new == (S \ DotDirs) \ r.marks
            old == r.marks \cap S
<1>1. /\ A \in SUBSET Names /\ new \in SUBSET Names /\ old \subseteq A
      /\ A \cap new = {} /\ (A \ old) \cap new = {}
  BY DEF Good, Panel
<1>2. /\ Cardinality(A) \in Nat /\ Cardinality(new) \in Nat
      /\ Cardinality(old) \in Nat /\ r.selected = Cardinality(A)
  BY <1>1, NamesFinite DEF Counted
<1>3. Cardinality(A \ old) = Cardinality(A) - Cardinality(old)
  <2>1. IsFiniteSet(A) /\ A \cap old = old
    BY <1>1, NamesFinite
  <2>. HIDE DEF A, old
  <2>2. Cardinality(A \ old) = Cardinality(A) - Cardinality(A \cap old)
    BY <2>1, FS_Difference
  <2> QED
    BY <2>1, <2>2
<1>4. /\ Cardinality(A \cup new) = Cardinality(A) + Cardinality(new)
      /\ Cardinality((A \ old) \cup new) =
           Cardinality(A \ old) + Cardinality(new)
  BY <1>1, DisjointUnion
<1>5. /\ (r.marks \cup new) \cap r.shown = A \cup new
      /\ (r.marks \ S) \cap r.shown = A \ old
      /\ ((r.marks \ old) \cup new) \cap r.shown = (A \ old) \cup new
      /\ (r.marks \cup new) \cap r.saved = r.marks \cap r.saved
      /\ (r.marks \ S) \cap r.saved = r.marks \cap r.saved
      /\ ((r.marks \ old) \cup new) \cap r.saved = r.marks \cap r.saved
  BY DEF Good, WellFormed
<1>6. /\ Mark(r, S) = [r EXCEPT !.marks = @ \cup new,
                                !.selected = @ + Cardinality(new)]
      /\ Unmark(r, S) = [r EXCEPT !.marks = @ \ S,
                                  !.selected = @ - Cardinality(old)]
      /\ Toggle(r, S) = [r EXCEPT !.marks = (@ \ old) \cup new,
                !.selected = @ + Cardinality(new) - Cardinality(old)]
  BY DEF Mark, Unmark, Toggle
<1>. HIDE DEF A, new, old
<1>7. Counted(Mark(r, S))
  <2>1. /\ Mark(r, S).shown = r.shown /\ Mark(r, S).saved = r.saved
        /\ Mark(r, S).filtering = r.filtering
        /\ Mark(r, S).filt_sel = r.filt_sel
        /\ Mark(r, S).marks = r.marks \cup new
        /\ Mark(r, S).selected = r.selected + Cardinality(new)
    BY <1>6 DEF Good, Panel
  <2> QED
    BY <1>2, <1>4, <1>5, <2>1 DEF Counted
<1>8. Counted(Unmark(r, S))
  <2>1. /\ Unmark(r, S).shown = r.shown /\ Unmark(r, S).saved = r.saved
        /\ Unmark(r, S).filtering = r.filtering
        /\ Unmark(r, S).filt_sel = r.filt_sel
        /\ Unmark(r, S).marks = r.marks \ S
        /\ Unmark(r, S).selected = r.selected - Cardinality(old)
    BY <1>6 DEF Good, Panel
  <2> QED
    BY <1>2, <1>3, <1>5, <2>1 DEF Counted
<1>9. Counted(Toggle(r, S))
  <2>1. /\ Toggle(r, S).shown = r.shown /\ Toggle(r, S).saved = r.saved
        /\ Toggle(r, S).filtering = r.filtering
        /\ Toggle(r, S).filt_sel = r.filt_sel
        /\ Toggle(r, S).marks = (r.marks \ old) \cup new
        /\ Toggle(r, S).selected =
             r.selected + Cardinality(new) - Cardinality(old)
    BY <1>6 DEF Good, Panel
  <2>2. Toggle(r, S).selected = Cardinality((A \ old) \cup new)
    BY <1>2, <1>3, <1>4, <2>1
  <2> QED
    BY <1>5, <2>1, <2>2 DEF Counted
<1> QED
  BY <1>7, <1>8, <1>9

(* Nothing else changes with the marks. *)
LEMMA MarkingRest ==
  ASSUME NEW r, Good(r), NEW S, NEW s \in {Mark(r, S), Unmark(r, S), Toggle(r, S)}
  PROVE  s.filtering = r.filtering /\ s.filt_sel = r.filt_sel /\ s.stale = r.stale
<1>1. ASSUME NEW m, NEW n
      PROVE  LET t == [r EXCEPT !.marks = m, !.selected = n]
             IN  /\ t.filtering = r.filtering /\ t.filt_sel = r.filt_sel
                 /\ t.stale = r.stale
  BY Zenon DEF Good, Panel
<1>2. \E m, n : s = [r EXCEPT !.marks = m, !.selected = n]
  BY Zenon DEF Mark, Unmark, Toggle
<1> QED
  BY <1>1, <1>2

LEMMA MarkingExact ==
  ASSUME NEW r, Good(r), Exact(r), NEW S \in SUBSET r.shown
  PROVE  Exact(Mark(r, S)) /\ Exact(Unmark(r, S)) /\ Exact(Toggle(r, S))
<1>1. ASSUME NEW s \in {Mark(r, S), Unmark(r, S), Toggle(r, S)} PROVE Exact(s)
  <2>1. s.filtering = r.filtering /\ s.filt_sel = r.filt_sel /\ s.stale = r.stale
    BY MarkingRest
  <2>2. ~r.stale => Counted(s)
    BY MarkingCounted DEF Exact
  <2> QED
    BY <2>1, <2>2 DEF Exact
<1> QED
  BY <1>1

(* Assignments that do not concern the marks. *)
LEMMA CosmeticExact ==
  ASSUME NEW r, Good(r), Exact(r)
  PROVE  /\ Exact(Expire(r)) /\ Exact(FocusOff(r))
         /\ \A u : Exact([r EXCEPT !.expired = @ \/ u])
         /\ \A k : Exact([r EXCEPT !.sorted = k])
<1>1. ASSUME NEW s, s.marks = r.marks, s.shown = r.shown, s.saved = r.saved,
             s.selected = r.selected, s.filt_sel = r.filt_sel,
             s.filtering = 0 <=> r.filtering = 0, s.stale = r.stale
      PROVE  Exact(s)
  <2>1. Counted(r) => Counted(s)
    BY <1>1 DEF Counted
  <2> QED
    BY <1>1, <2>1 DEF Exact
<1>2. Exact(Expire(r))
  <2>. DEFINE s == Expire(r)
  <2>1. /\ s.marks = r.marks /\ s.shown = r.shown /\ s.saved = r.saved
        /\ s.selected = r.selected /\ s.filt_sel = r.filt_sel
        /\ s.filtering = r.filtering /\ s.stale = r.stale
    BY Zenon DEF Expire, Good, Panel
  <2>. HIDE DEF s
  <2> QED
    BY <1>1, <2>1 DEF s
<1>3. Exact(FocusOff(r))
  <2>. DEFINE s == FocusOff(r)
  <2>1. /\ s.marks = r.marks /\ s.shown = r.shown /\ s.saved = r.saved
        /\ s.selected = r.selected /\ s.filt_sel = r.filt_sel
        /\ s.stale = r.stale
    BY Zenon DEF FocusOff, Good, Panel
  <2>2. s.filtering = 0 <=> r.filtering = 0
    BY DEF FocusOff, Good, Panel
  <2>. HIDE DEF s
  <2> QED
    BY <1>1, <2>1, <2>2 DEF s
<1>4. ASSUME NEW k PROVE Exact([r EXCEPT !.sorted = k])
  <2>. DEFINE s == [r EXCEPT !.sorted = k]
  <2>1. /\ s.marks = r.marks /\ s.shown = r.shown /\ s.saved = r.saved
        /\ s.selected = r.selected /\ s.filt_sel = r.filt_sel
        /\ s.filtering = r.filtering /\ s.stale = r.stale
    BY Zenon DEF Good, Panel
  <2>. HIDE DEF s
  <2> QED
    BY <1>1, <2>1 DEF s
<1>5. ASSUME NEW u PROVE Exact([r EXCEPT !.expired = @ \/ u])
  <2>. DEFINE s == [r EXCEPT !.expired = @ \/ u]
  <2>1. /\ s.marks = r.marks /\ s.shown = r.shown /\ s.saved = r.saved
        /\ s.selected = r.selected /\ s.filt_sel = r.filt_sel
        /\ s.filtering = r.filtering /\ s.stale = r.stale
    BY Zenon DEF Good, Panel
  <2>. HIDE DEF s
  <2> QED
    BY <1>1, <2>1 DEF s
<1> QED
  BY <1>2, <1>3, <1>4, <1>5

-----------------------------------------------------------------------------
(* The counters are right in every reachable state. *)

AllExact(f) == \A p \in PanelIds : Exact(f[p])

CountInv == Inv /\ AllExact(fpanel) /\ NoOverrun

LEMMA PrimaryExact ==
  ASSUME CountInv
  PROVE  Good(pf) /\ Good(other) /\ Exact(pf) /\ Exact(other)
BY PrimaryGood DEF CountInv, AllExact, pf, other

LEMMA SetPrimaryExact ==
  ASSUME CountInv, NEW r, Exact(r), SetPrimary(r), Running
  PROVE  AllExact(fpanel') /\ NoOverrun'
BY PrimaryGood DEF SetPrimary, CountInv, Inv, TypeOK, AllExact, NoOverrun, Running

LEMMA BecomesExact ==
  ASSUME CountInv, NEW p \in PanelIds, NEW S, \A s \in S : Exact(s),
         S = {} => fpanel[p].stale,
         NEW o, Good(o), Exact(o), Becomes(p, S, o), Running
  PROVE  AllExact(fpanel') /\ NoOverrun'
<1>1. CASE S = {}
  <2>1. UNCHANGED fpanel /\ fpanel[p].stale
    BY <1>1 DEF Becomes
  <2> QED
    BY <2>1 DEF CountInv, AllExact, NoOverrun
<1>2. CASE S # {}
  <2>1. PICK s \in S, u \in BOOLEAN :
          fpanel' = [q \in PanelIds |->
                       IF q = p THEN s ELSE [o EXCEPT !.expired = @ \/ u]]
    BY <1>2 DEF Becomes
  <2>2. Exact(s) /\ Exact([o EXCEPT !.expired = @ \/ u])
    BY CosmeticExact
  <2>3. fault' = "none"
    BY <1>2 DEF Becomes, Running
  <2> QED
    BY <2>1, <2>2, <2>3 DEF AllExact, NoOverrun
<1> QED
  BY <1>1, <1>2

(* A panel on its way to another directory. *)
LEMMA ArrivalLoose ==
  ASSUME NEW r, Good(r), Exact(r), NEW w,
         NEW s \in Arrivals(r, w) \cup find_valid_cwd(r, w)
  PROVE  /\ s.filtering = 0 => s.filt_sel = 0
         /\ ~r.stale => Loose(s)
<1>1. PICK d \in Dirs :
        s = Moved(r, d) \/ s = [r EXCEPT !.dir = d, !.selected = 0]
  BY ArrivalGood
<1>2. CASE s = r
  BY <1>2, ExactIsLoose DEF Exact
<1>3. CASE s = [r EXCEPT !.dir = d, !.selected = 0]
  <2>1. /\ s.marks = r.marks /\ s.shown = r.shown /\ s.saved = r.saved
        /\ s.selected = 0 /\ s.filt_sel = r.filt_sel
        /\ s.filtering = r.filtering
    BY <1>3 DEF Good, Panel
  <2>2. ~r.stale => Loose(r)
    BY ExactIsLoose
  <2> QED
    BY <2>1, <2>2 DEF Loose, Exact
<1>4. s = r \/ s = [r EXCEPT !.dir = d, !.selected = 0]
  BY <1>1 DEF Moved
<1> QED
  BY <1>2, <1>3, <1>4

LEMMA SelectKeysExact ==
  ASSUME CountInv, SelectKeys PROVE AllExact(fpanel') /\ NoOverrun'
<1>1. Good(pf) /\ Exact(pf) /\ Running
  BY PrimaryExact
     DEF SelectKeys, cx_select_toggle, cx_select_invert, cx_select_allfiles,
         cx_select_nofiles, cx_select_files, Idle
<1>2. \A f \in pf.shown : Exact(Toggle(pf, {f}))
  BY <1>1, MarkingExact
<1>3. Exact(Toggle(pf, pf.shown)) /\ Exact(Mark(pf, pf.shown))
        /\ Exact(Unmark(pf, pf.shown))
  BY <1>1, MarkingExact
<1>4. \A e : /\ Exact(Mark(pf, pf.shown \cap Matches[e]))
             /\ Exact(Unmark(pf, pf.shown \cap Matches[e]))
  BY <1>1, MarkingExact
<1>5. Good(Mark(pf, pf.shown)) /\ Good(Unmark(pf, pf.shown))
  BY <1>1, MarkingGood DEF Entries
<1>6. \A e : /\ Good(Mark(pf, pf.shown \cap Matches[e]))
             /\ Good(Unmark(pf, pf.shown \cap Matches[e]))
  BY <1>1, MarkingGood DEF Entries
<1>7. CASE cx_select_toggle
  BY <1>1, <1>2, <1>7, SetPrimaryExact DEF cx_select_toggle
<1>8. CASE cx_select_invert
  BY <1>1, <1>3, <1>8, SetPrimaryExact DEF cx_select_invert
<1>9. CASE cx_select_allfiles
  BY <1>1, <1>3, <1>5, <1>9, CosmeticExact, SetPrimaryExact DEF cx_select_allfiles
<1>10. CASE cx_select_nofiles
  BY <1>1, <1>3, <1>5, <1>10, CosmeticExact, SetPrimaryExact DEF cx_select_nofiles
<1>11. CASE cx_select_files
  <2>1. CASE SetPrimary(FocusOff(pf))
    BY <1>1, <2>1, CosmeticExact, SetPrimaryExact
  <2>2. CASE \E e \in Patterns :
               \/ SetPrimary(FocusOff(Mark(pf, pf.shown \cap Matches[e])))
               \/ SetPrimary(FocusOff(Unmark(pf, pf.shown \cap Matches[e])))
    BY <1>1, <1>4, <1>6, <2>2, CosmeticExact, SetPrimaryExact
  <2> QED
    BY <1>11, <2>1, <2>2 DEF cx_select_files
<1> QED
  BY <1>7, <1>8, <1>9, <1>10, <1>11 DEF SelectKeys

LEMMA TurnFilterOffExact ==
  ASSUME CountInv, pf.filtering # 0, TurnFilterOff, Running
  PROVE  AllExact(fpanel') /\ NoOverrun'
BY PrimaryExact, PrimaryGood, FilterOnOffExact, SetPrimaryExact
   DEF TurnFilterOff, CountInv

(* The expression and the position of the focus do not matter. *)
LEMMA FieldExact ==
  ASSUME NEW r, Good(r), Exact(r)
  PROVE  /\ \A e : Exact([r EXCEPT !.filter = e])
         /\ r.filtering # 0 => \A n : n # 0 => Exact([r EXCEPT !.filtering = n])
<1>1. ASSUME NEW e PROVE Exact([r EXCEPT !.filter = e])
  <2>. DEFINE s == [r EXCEPT !.filter = e]
  <2>1. /\ s.marks = r.marks /\ s.shown = r.shown /\ s.saved = r.saved
        /\ s.selected = r.selected /\ s.filt_sel = r.filt_sel
        /\ s.filtering = r.filtering /\ s.stale = r.stale
    BY Zenon DEF Good, Panel
  <2>. HIDE DEF s
  <2>2. Exact(s)
    BY <2>1 DEF Exact, Counted
  <2> QED
    BY <2>2 DEF s
<1>2. ASSUME r.filtering # 0, NEW n, n # 0 PROVE Exact([r EXCEPT !.filtering = n])
  <2>. DEFINE s == [r EXCEPT !.filtering = n]
  <2>1. /\ s.marks = r.marks /\ s.shown = r.shown /\ s.saved = r.saved
        /\ s.selected = r.selected /\ s.filt_sel = r.filt_sel
        /\ s.filtering = n /\ s.stale = r.stale
    BY Zenon DEF Good, Panel
  <2>. HIDE DEF s
  <2>2. Exact(s)
    BY <1>2, <2>1 DEF Exact, Counted
  <2> QED
    BY <2>2 DEF s
<1> QED
  BY <1>1, <1>2

LEMMA FilterKeysExact ==
  ASSUME CountInv, FilterKeys
  PROVE  AllExact(fpanel') /\ NoOverrun'
<1>1. Good(pf) /\ Exact(pf) /\ sort_key \in SortKeys /\ Running
  BY PrimaryExact, PrimaryGood
     DEF CountInv, FilterKeys, cx_filter, FilterEnter, cx_filter_toggle,
         FilterEdit, Idle
<1>2. pf.filtering = 0 => Exact(filter_on(pf))
  BY <1>1, FilterOnOffExact
<1>3. CASE cx_filter
  <2>1. CASE pf.filtering = 0 /\ SetPrimary(filter_on(pf))
    BY <1>1, <1>2, <2>1, SetPrimaryExact
  <2>2. CASE pf.filtering # 0 /\ TurnFilterOff
    BY <1>1, <2>2, TurnFilterOffExact
  <2>3. CASE pf.filtering # 0 /\ SetPrimary([pf EXCEPT !.filtering = 3 - @])
    <3>1. 3 - pf.filtering # 0
      BY <1>1, <2>3 DEF Good, Panel
    <3>2. Exact([pf EXCEPT !.filtering = 3 - @])
      BY <1>1, <2>3, <3>1, FieldExact
    <3> QED
      BY <1>1, <2>3, <3>2, SetPrimaryExact
  <2> QED
    BY <1>3, <2>1, <2>2, <2>3 DEF cx_filter
<1>4. CASE FilterEnter
  BY <1>1, <1>4, TurnFilterOffExact DEF FilterEnter
<1>5. CASE cx_filter_toggle
  BY <1>1, <1>2, <1>5, SetPrimaryExact, TurnFilterOffExact DEF cx_filter_toggle
<1>6. CASE FilterEdit
  <2>1. PICK e \in Patterns :
          /\ pf.filtering = 1
          /\ SetPrimary(filter_update([pf EXCEPT !.filter = e], sort_key))
    BY <1>6 DEF FilterEdit
  <2>. DEFINE r == [pf EXCEPT !.filter = e]
  <2>2. Good(r) /\ r.filtering # 0
    BY <1>1, <2>1 DEF Good, WellFormed, Panel, Entries
  <2>3. Exact(r)
    BY <1>1, FieldExact
  <2>. HIDE DEF r
  <2>4. Exact(filter_update(r, sort_key))
    BY <1>1, <2>2, <2>3, FilterExact
  <2> QED
    BY <1>1, <2>1, <2>4, SetPrimaryExact DEF r
<1> QED
  BY <1>3, <1>4, <1>5, <1>6 DEF FilterKeys

LEMMA ComparedExact ==
  ASSUME NEW r, Good(r), Exact(r), NEW s, NEW same
  PROVE  Exact(Compared(r, s, same))
<1>1. Good(Mark(r, r.shown)) /\ Mark(r, r.shown).shown = r.shown
  BY MarkingGood DEF Entries
<1>2. Exact(Mark(r, r.shown))
  BY MarkingExact
<1>3. r.shown \cap s.shown \cap same \in SUBSET Mark(r, r.shown).shown
  BY <1>1
<1> QED
  BY <1>1, <1>2, <1>3, MarkingExact DEF Compared

LEMMA ComparePanelsExact ==
  ASSUME CountInv, NEW same \in SUBSET Files, compare_panels(same)
  PROVE  AllExact(fpanel') /\ NoOverrun'
<1>1. /\ Good(pf) /\ Exact(pf) /\ (~pf.stale => Loose(pf))
      /\ Good(other) /\ Exact(other) /\ (~other.stale => Loose(other))
  BY PrimaryExact, ExactIsLoose
<1>2. world \in World /\ sort_key \in SortKeys
        /\ ppanel_file \in PanelIds /\ Other(ppanel_file) \in PanelIds
  BY PrimaryGood DEF CountInv
<1>3. /\ Loose(pf) => Reread(pf, world, sort_key) # {}
      /\ Loose(other) => Reread(other, world, sort_key) # {}
      /\ \A s \in Reread(pf, world, sort_key) : Exact(s) /\ Good(s)
      /\ \A s \in Reread(other, world, sort_key) : Exact(s) /\ Good(s)
  BY <1>1, <1>2, RereadExact, RereadGood DEF Exact
<1>4. CASE \/ Reread(pf, world, sort_key) = {}
           \/ Reread(other, world, sort_key) = {}
  <2>1. UNCHANGED fpanel
    BY <1>4 DEF compare_panels
  <2>2. pf.stale \/ other.stale
    BY <1>1, <1>3, <1>4
  <2>3. \E p \in PanelIds : fpanel'[p].stale
    BY <1>2, <2>1, <2>2 DEF pf, other
  <2> QED
    BY <2>1, <2>3 DEF CountInv, AllExact, NoOverrun
<1>5. CASE ~ (\/ Reread(pf, world, sort_key) = {}
              \/ Reread(other, world, sort_key) = {})
  <2>1. PICK r1 \in Reread(pf, world, sort_key),
             r2 \in Reread(other, world, sort_key) :
          fpanel' = [q \in PanelIds |->
            IF q = ppanel_file
              THEN [Compared(r1, r2, same) EXCEPT !.sorted = sort_key]
              ELSE Compared(r2, r1, same)]
    BY <1>5 DEF compare_panels
  <2>2. Exact(Compared(r1, r2, same)) /\ Exact(Compared(r2, r1, same))
          /\ Good(Compared(r1, r2, same))
    BY <1>3, ComparedExact, ComparedGood
  <2>3. Exact([Compared(r1, r2, same) EXCEPT !.sorted = sort_key])
    BY <2>2, CosmeticExact
  <2>4. fault' = "none"
    BY <1>5 DEF compare_panels, Idle, Running
  <2> QED
    BY <2>1, <2>2, <2>3, <2>4 DEF AllExact, NoOverrun
<1> QED
  BY <1>4, <1>5

LEMMA ReadKeysExact ==
  ASSUME CountInv, ReadKeys
  PROVE  AllExact(fpanel') /\ NoOverrun'
<1>1. /\ Good(pf) /\ Exact(pf) /\ (~pf.stale => Loose(pf))
      /\ Good(other) /\ Exact(other) /\ (~other.stale => Loose(other))
      /\ Good(Expire(other)) /\ Exact(Expire(other))
  BY PrimaryExact, ExactIsLoose, ExpiredGood, CosmeticExact
<1>2. /\ ppanel_file \in PanelIds /\ Other(ppanel_file) \in PanelIds
      /\ Other(ppanel_file) # ppanel_file
      /\ sort_key \in SortKeys /\ world \in World
      /\ pf = fpanel[ppanel_file] /\ other = fpanel[Other(ppanel_file)]
  BY PrimaryGood DEF CountInv, pf, other
<1>3. ASSUME NEW p \in PanelIds, NEW r, Good(r), r.filtering = 0 => r.filt_sel = 0,
             ~fpanel[p].stale => Loose(r), NEW o, Good(o), Exact(o),
             NEW w \in World, NEW key \in SortKeys,
             list_directory(p, r, o, w, key), Running
      PROVE  AllExact(fpanel') /\ NoOverrun'
  <2>1. /\ \A s \in Reread(r, w, key) : Exact(s)
        /\ Reread(r, w, key) = {} => fpanel[p].stale
    BY <1>3, RereadExact
  <2> QED
    BY <1>3, <2>1, BecomesExact DEF list_directory
<1>4. /\ pf.filtering = 0 => pf.filt_sel = 0
      /\ other.filtering = 0 => other.filt_sel = 0
  BY <1>1 DEF Exact
<1>5. Running
  BY DEF ReadKeys, cx_files_reread, SetAndReread, changedir, cx_files_exchange,
         compare_panels, Idle
<1>6. CASE cx_files_reread
  BY <1>1, <1>2, <1>3, <1>4, <1>5, <1>6 DEF cx_files_reread
<1>7. CASE SetAndReread
  <2>1. world' \in World /\ sort_key' \in SortKeys
    BY <1>2, <1>7 DEF SetAndReread, World
  <2> QED
    BY <1>1, <1>2, <1>3, <1>4, <1>5, <1>7, <2>1 DEF SetAndReread
<1>8. CASE changedir
  <2>1. PICK r \in Arrivals(pf, world) :
          list_directory(ppanel_file, r, other, world, sort_key)
    BY <1>8 DEF changedir
  <2>2. Good(r) /\ (r.filtering = 0 => r.filt_sel = 0) /\ (~pf.stale => Loose(r))
    BY <1>1, ArrivalGood, ArrivalLoose
  <2> QED
    BY <1>1, <1>2, <1>3, <1>5, <2>1, <2>2
<1>9. CASE cx_files_exchange
  <2>1. CASE \E r \in find_valid_cwd(other, world) :
               list_directory(Other(ppanel_file), r, pf, world, sort_key)
    <3>1. PICK r \in find_valid_cwd(other, world) :
            list_directory(Other(ppanel_file), r, pf, world, sort_key)
      BY <2>1
    <3>2. Good(r) /\ (r.filtering = 0 => r.filt_sel = 0)
            /\ (~other.stale => Loose(r))
      BY <1>1, ArrivalGood, ArrivalLoose
    <3> QED
      BY <1>1, <1>2, <1>3, <1>5, <3>1, <3>2
  <2>2. CASE list_directory(Other(ppanel_file), other, pf, world, sort_key)
    BY <1>1, <1>2, <1>3, <1>4, <1>5, <2>2
  <2>3. CASE /\ fpanel' = [fpanel EXCEPT ![Other(ppanel_file)] =
                                           Displayed(other, sort_key)]
             /\ UNCHANGED fault
    <3>1. Exact(Displayed(other, sort_key))
      BY <1>1, <1>2, DisplayedExact
    <3>2. fpanel \in [PanelIds -> Panel] /\ AllExact(fpanel)
      BY DEF CountInv, Inv, TypeOK
    <3>3. AllExact(fpanel')
      BY <1>2, <2>3, <3>1, <3>2 DEF AllExact
    <3> QED
      BY <1>5, <2>3, <3>3 DEF NoOverrun, Running
  <2> QED
    BY <1>9, <2>1, <2>2, <2>3 DEF cx_files_exchange
<1>10. CASE \E same \in SUBSET Files : compare_panels(same)
  BY <1>10, ComparePanelsExact
<1> QED
  BY <1>6, <1>7, <1>8, <1>9, <1>10 DEF ReadKeys

LEMMA CommandsExact ==
  ASSUME CountInv, Commands
  PROVE  AllExact(fpanel') /\ NoOverrun'
<1>1. /\ Good(pf) /\ Exact(pf) /\ (~pf.stale => Loose(pf))
      /\ Good(other) /\ Exact(other)
      /\ Good(Expire(other)) /\ Exact(Expire(other))
  BY PrimaryExact, ExactIsLoose, ExpiredGood, CosmeticExact
<1>2. /\ ppanel_file \in PanelIds /\ sort_key \in SortKeys /\ world \in World
      /\ pf = fpanel[ppanel_file] /\ Running
  BY PrimaryGood
     DEF CountInv, pf, Commands, execute, execute_cd, execute_cdgit,
         FinishCommand, Idle
<1>3. CASE execute
  <2>1. world' \in World
    BY <1>3, ChangeWorld DEF execute, CountInv
  <2>. DEFINE S == filepanel_read(pf, world', sort_key)
  <2>2. \A s \in S : Exact(s)
    BY <1>1, <1>2, <2>1, ReadExact DEF Exact
  <2>3. S = {} => fpanel[ppanel_file].stale
    BY <1>1, <1>2, ReadEnds
  <2>4. Becomes(ppanel_file, S, Expire(other))
    BY <1>3 DEF execute
  <2>. HIDE DEF S
  <2> QED
    BY <1>1, <1>2, <2>2, <2>3, <2>4, BecomesExact
<1>4. CASE execute_cd
  <2>1. PICK r \in Arrivals(pf, world) :
          Becomes(ppanel_file, filepanel_read(r, world, sort_key), other)
    BY <1>4 DEF execute_cd
  <2>2. Good(r) /\ (r.filtering = 0 => r.filt_sel = 0) /\ (~pf.stale => Loose(r))
    BY <1>1, ArrivalGood, ArrivalLoose
  <2>. DEFINE S == filepanel_read(r, world, sort_key)
  <2>3. \A s \in S : Exact(s)
    BY <1>2, <2>2, ReadExact
  <2>4. S = {} => fpanel[ppanel_file].stale
    BY <1>2, <2>2, ReadEnds
  <2>. HIDE DEF S
  <2> QED
    BY <1>1, <1>2, <2>1, <2>3, <2>4, BecomesExact DEF S
<1>5. CASE execute_cdgit
  <2>1. PICK r \in Arrivals(pf, world), k \in SortKeys :
          Becomes(ppanel_file,
                  {[s EXCEPT !.sorted = k] : s \in filepanel_read(r, world, k)},
                  Expire(other))
    BY <1>5 DEF execute_cdgit
  <2>2. Good(r) /\ (r.filtering = 0 => r.filt_sel = 0) /\ (~pf.stale => Loose(r))
    BY <1>1, ArrivalGood, ArrivalLoose
  <2>. DEFINE S == {[s EXCEPT !.sorted = k] : s \in filepanel_read(r, world, k)}
  <2>3. \A s \in filepanel_read(r, world, k) : Good(s) /\ Exact(s)
    BY <1>2, <2>2, ReadGood, ReadExact
  <2>4. \A s \in S : Exact(s)
    BY <2>3, CosmeticExact
  <2>5. S = {} => fpanel[ppanel_file].stale
    <3>1. ~pf.stale => filepanel_read(r, world, k) # {}
      BY <2>2, ReadEnds
    <3> QED
      BY <1>2, <3>1
  <2>. HIDE DEF S
  <2> QED
    BY <1>1, <1>2, <2>1, <2>4, <2>5, BecomesExact DEF S
<1>6. CASE FinishCommand
  <2>1. Exact(Displayed(pf, sort_key))
    BY <1>1, <1>2, DisplayedExact
  <2>2. fpanel' = [fpanel EXCEPT ![ppanel_file] = Displayed(pf, sort_key)]
    BY <1>6 DEF FinishCommand, pf
  <2>3. fpanel \in [PanelIds -> Panel] /\ AllExact(fpanel)
    BY DEF CountInv, Inv, TypeOK
  <2>4. AllExact(fpanel')
    BY <1>2, <2>1, <2>2, <2>3 DEF AllExact
  <2>5. fault' = "none"
    BY <1>2, <1>6 DEF FinishCommand, Running
  <2> QED
    BY <2>4, <2>5 DEF NoOverrun
<1> QED
  BY <1>3, <1>4, <1>5, <1>6 DEF Commands

(* "$S": as long as the counter is right there are as many marks. *)
LEMMA MacroExact ==
  ASSUME CountInv, edit_macro
  PROVE  AllExact(fpanel') /\ NoOverrun'
<1>1. Good(pf) /\ Exact(pf) /\ ppanel_file \in PanelIds
  BY PrimaryExact, PrimaryGood DEF CountInv
<1>2. pf.stale
  <2>1. SUFFICES ASSUME ~pf.stale PROVE FALSE
    OBVIOUS
  <2>2. pf.selected = Cardinality(pf.marks \cap pf.shown)
    BY <1>1, <2>1 DEF Exact, Counted
  <2>3. pf.selected \in 0 .. Cardinality(pf.marks)
    <3>. DEFINE a == Cardinality(pf.marks \cap pf.shown)
                b == Cardinality(pf.marks \cap pf.saved)
    <3>1. a \in Nat /\ b \in Nat /\ Cardinality(pf.marks) = a + b
      BY <1>1, MarksSplit
    <3>2. pf.selected = a
      BY <2>2
    <3>. HIDE DEF a, b
    <3> QED
      BY <3>1, <3>2
  <2>4. MarkedScan(pf, pf.selected) # {}
    BY <1>1, <2>3, ScanEnds
  <2> QED
    BY <2>4 DEF edit_macro
<1>3. UNCHANGED fpanel /\ fpanel[ppanel_file].stale
  BY <1>2 DEF edit_macro, pf
<1> QED
  BY <1>1, <1>3 DEF CountInv, AllExact, NoOverrun

LEMMA SortExact ==
  ASSUME CountInv, cx_sort_set \/ SetGrouping
  PROVE  AllExact(fpanel') /\ NoOverrun'
<1>1. \A p \in PanelIds : Good(fpanel[p]) /\ Exact(fpanel[p])
  BY PanelsGood DEF CountInv, AllExact
<1>2. \A p \in PanelIds : \A k :
        /\ Exact([fpanel[p] EXCEPT !.sorted = k])
        /\ Exact(Expire(fpanel[p]))
  BY <1>1, CosmeticExact
<1>3. CASE cx_sort_set
  <2>1. PICK k \in SortKeys :
          fpanel' = [fpanel EXCEPT
            ![ppanel_file].sorted = k,
            ![Other(ppanel_file)] = Expire(@)]
    BY <1>3 DEF cx_sort_set
  <2>2. fpanel \in [PanelIds -> Panel] /\ ppanel_file \in PanelIds
          /\ Other(ppanel_file) \in PanelIds
          /\ Other(ppanel_file) # ppanel_file
    BY PrimaryGood DEF CountInv, Inv, TypeOK
  <2>3. fpanel'[ppanel_file] =
          [fpanel[ppanel_file] EXCEPT !.sorted = k]
    BY <2>1, <2>2
  <2>4. fpanel'[Other(ppanel_file)] = Expire(fpanel[Other(ppanel_file)])
    BY <2>1, <2>2
  <2>5. \A p \in PanelIds : p = ppanel_file \/ p = Other(ppanel_file)
    BY <2>2 DEF PanelIds, Other
  <2>6. Exact(fpanel'[ppanel_file]) /\ Exact(fpanel'[Other(ppanel_file)])
    BY <1>2, <2>2, <2>3, <2>4
  <2> QED
    BY <1>3, <2>5, <2>6 DEF cx_sort_set, Idle, Running, AllExact, NoOverrun
<1>4. CASE SetGrouping
  <2>1. PICK k \in SortKeys :
          fpanel' = [q \in PanelIds |->
            [fpanel[q] EXCEPT !.sorted = k]]
    BY <1>4 DEF SetGrouping
  <2>2. AllExact(fpanel')
    BY <1>2, <2>1 DEF AllExact
  <2> QED
    BY <1>4, <2>2 DEF SetGrouping, Idle, Running, NoOverrun
<1> QED
  BY <1>3, <1>4

LEMMA NextExact == ASSUME CountInv, [Next]_vars PROVE CountInv'
<1>1. Inv'
  BY NextInv DEF CountInv
<1>2. AllExact(fpanel') /\ NoOverrun'
  <2>1. CASE cx_insert_filename \/ BackgroundChange \/ Faulted \/ UNCHANGED vars
    BY <2>1 DEF cx_insert_filename, BackgroundChange, Faulted, vars, CountInv,
                AllExact, NoOverrun
  <2> QED
    BY <2>1, SelectKeysExact, FilterKeysExact, ReadKeysExact, CommandsExact,
       MacroExact, SortExact DEF Next
<1> QED
  BY <1>1, <1>2 DEF CountInv

LEMMA InitExact == Init => CountInv
<1>. SUFFICES ASSUME Init PROVE CountInv
  OBVIOUS
<1>1. Inv
  BY InitInv
<1>2. \A p \in PanelIds :
        /\ fpanel[p].marks = {} /\ fpanel[p].filtering = 0
        /\ fpanel[p].filt_sel = 0 /\ fpanel[p].selected = 0
  <2>1. Cardinality({}) = 0
    BY FS_EmptySet
  <2>2. ASSUME NEW d \in Dirs
        PROVE  LET r == Rebuilt(NewPanel(d), world, {})
               IN  /\ r.marks = {} /\ r.filtering = 0
                   /\ r.filt_sel = 0 /\ r.selected = 0
    <3>1. \A V : {} \cap V = {}
      OBVIOUS
    <3> QED
      BY <2>1, <3>1 DEF Rebuilt, NewPanel
  <2>3. PICK d1, d2 \in Dirs :
          fpanel = [p \in PanelIds |->
            IF p = 1 THEN [Rebuilt(NewPanel(d1), world, {}) EXCEPT
                             !.sorted = sort_key, !.expired = FALSE]
                     ELSE NewPanel(d2)]
    BY DEF Init
  <2>4. LET r == [Rebuilt(NewPanel(d1), world, {}) EXCEPT
                    !.sorted = sort_key, !.expired = FALSE]
        IN  /\ r.marks = {} /\ r.filtering = 0
            /\ r.filt_sel = 0 /\ r.selected = 0
    BY <2>2
  <2> QED
    BY <2>3, <2>4 DEF NewPanel
<1>3. AllExact(fpanel)
  <2>1. \A S : {} \cap S = {}
    OBVIOUS
  <2>2. Cardinality({}) = 0
    BY FS_EmptySet
  <2> QED
    BY <1>2, <2>1, <2>2 DEF AllExact, Exact, Counted
<1>4. NoOverrun
  BY DEF Init, NoOverrun
<1> QED
  BY <1>1, <1>3, <1>4 DEF CountInv

(***************************************************************************)
(* In every reachable state the counters of both panels are right, or the  *)
(* panel has been read under the filter and not been counted since; and no *)
(* scan has left the listing of a panel that is not in that state.         *)
(***************************************************************************)
THEOREM CountersInvariant == Spec => []CountInv
<1>1. Init => CountInv
  BY InitExact
<1>2. CountInv /\ [Next]_vars => CountInv'
  BY NextExact
<1> QED
  BY <1>1, <1>2, PTL DEF Spec

(***************************************************************************)
(* The counters `selected' and `filt_sel' are the numbers of the marked    *)
(* files that are displayed and concealed, in both panels and at any time, *)
(* except between a reading under the filter and the next count.           *)
(***************************************************************************)
THEOREM CountersCorrect == Spec => []SelectedCount
<1>1. CountInv => SelectedCount
  BY DEF CountInv, AllExact, Exact, SelectedCount
<1> QED
  BY <1>1, CountersInvariant, PTL

(***************************************************************************)
(* The loops over the marked files in directory_read() and edit_macro(),   *)
(* which stop when the counter is satisfied, leave the listing only if     *)
(* filt_sel has been added to `selected' before and not been counted since.*)
(***************************************************************************)
THEOREM ScansStayInside == Spec => []NoOverrun
<1>1. CountInv => NoOverrun
  BY DEF CountInv
<1> QED
  BY <1>1, CountersInvariant, PTL

(* With the right counters the scan meets all marked entries. *)
LEMMA ScanAll ==
  ASSUME NEW r, Good(r), Counted(r)
  PROVE  MarkedScan(r, SuspendedCount(r)) = {r.marks}
<1>1. r.marks \in SUBSET Names /\ IsFiniteSet(r.marks)
  BY NamesFinite DEF Good, Panel
<1>2. SuspendedCount(r) = Cardinality(r.marks)
  <2>1. CASE r.filtering = 0
    <3>1. r.marks \cap r.shown = r.marks
      BY <2>1 DEF Good, WellFormed, Entries
    <3> QED
      BY <2>1, <3>1 DEF SuspendedCount, Counted
  <2>2. CASE r.filtering # 0
    BY <2>2, MarksSplit DEF SuspendedCount, Counted
  <2> QED
    BY <2>1, <2>2
<1>3. ASSUME NEW S \in MarkedScan(r, SuspendedCount(r)) PROVE S = r.marks
  <2>1. S \in SUBSET r.marks /\ Cardinality(S) = Cardinality(r.marks)
    BY <1>2 DEF MarkedScan
  <2> QED
    BY <1>1, <2>1, FS_Subset
<1>4. r.marks \in MarkedScan(r, SuspendedCount(r))
  BY <1>2 DEF MarkedScan
<1> QED
  BY <1>3, <1>4

(* Resuming the filter changes no mark. *)
LEMMA DisplayedMarks ==
  ASSUME NEW r, Good(r), NEW key \in SortKeys
  PROVE  Displayed(r, key).marks = r.marks
BY DEF Displayed, filter_update, Filtered, Good, Panel

LEMMA RereadMarks ==
  ASSUME NEW r, Good(r), Counted(r), NEW w \in World, NEW key \in SortKeys
  PROVE  {s.marks : s \in Reread(r, w, key)} = {r.marks \cap Listing(w, r.dir)}
<1>1. ASSUME NEW t \in filepanel_read(r, w, key)
      PROVE  Good(t) /\ t.marks = r.marks \cap Listing(w, r.dir)
  <2>1. PICK u \in directory_read(r, w) :
          t = [u EXCEPT !.sorted = IF r.filtering = 0 THEN key ELSE Unsorted,
                        !.expired = FALSE,
                        !.stale = r.filtering # 0 /\ r.filt_sel # 0]
    BY DEF filepanel_read
  <2>2. t.marks = u.marks
    <3>1. CASE w.access[r.dir] = "ok"
      BY <2>1, <3>1, ScanAll DEF directory_read, Rebuilt, Good, Panel
    <3>2. CASE w.access[r.dir] # "ok"
      BY <2>1, <3>2 DEF directory_read, Emptied, Good, Panel
    <3> QED
      BY <3>1, <3>2
  <2>3. u.marks = r.marks \cap Listing(w, r.dir)
    <3>1. CASE w.access[r.dir] = "ok"
      <4>1. u = Rebuilt(r, w, r.marks)
        BY <3>1, ScanAll DEF directory_read
      <4> QED
        BY <3>1, <4>1 DEF Rebuilt, Listing, Good, Panel
    <3>2. CASE w.access[r.dir] # "ok"
      BY <3>2 DEF directory_read, Emptied, Listing, Good, Panel
    <3> QED
      BY <3>1, <3>2
  <2> QED
    BY <2>2, <2>3, ReadGood
<1>2. filepanel_read(r, w, key) # {}
  <2>1. directory_read(r, w) # {}
    BY ScanAll DEF directory_read
  <2> QED
    BY <2>1 DEF filepanel_read
<1>3. \A s \in Reread(r, w, key) : s.marks = r.marks \cap Listing(w, r.dir)
  BY <1>1, DisplayedMarks DEF Reread
<1>4. Reread(r, w, key) # {}
  BY <1>2 DEF Reread
<1> QED
  BY <1>3, <1>4

(* What an exact panel promises about a reread. *)
LEMMA RereadKeepsMarks == CountInv => MarksSurviveReread
<1>. SUFFICES ASSUME CountInv PROVE MarksSurviveReread
  OBVIOUS
<1>1. \A p \in PanelIds : Good(fpanel[p]) /\ Exact(fpanel[p])
  BY PanelsGood DEF CountInv, AllExact
<1>2. world \in World /\ sort_key \in SortKeys
  BY PrimaryGood DEF CountInv
<1> QED
  BY <1>1, <1>2, RereadMarks DEF Exact, MarksSurviveReread

(***************************************************************************)
(* A reread of a panel whose counters are not due to be counted again      *)
(* keeps the marks of all files that still exist and no others, under a    *)
(* filter and in an inaccessible directory too (directory_read()).         *)
(***************************************************************************)
THEOREM MarksCorrect == Spec => []MarksSurviveReread
BY RereadKeepsMarks, CountersInvariant, PTL

-----------------------------------------------------------------------------
(***************************************************************************)
(* What a step does to one panel.  Each step does one of four things to a  *)
(* panel: it leaves the listing alone, rearranges it by the filter, reads  *)
(* it again or sorts it again; and within a command a panel is read        *)
(* without being filtered.  What FilterApplied, ListingCurrent and         *)
(* SortedDisplay say of a panel follows from the form of the step.         *)
(***************************************************************************)

(* The filter has been applied, as far as its expression is complete;      *)
(* while it is off, its expression is empty.                               *)
Filters(r) == r.filtering # 0 /\ r.filter \notin Incomplete

Applied(r) == Filters(r) => r.shown = Entries(r) \cap Matches[r.filter]
Reset(r) == r.filtering = 0 => r.filter = NoPattern

(* The display is sorted by the key, or there is nothing to sort, or the   *)
(* expression has to be completed first.                                   *)
InOrder(r, key) ==
  r.shown = {} \/ r.sorted = key \/ (r.filtering # 0 /\ r.filter \in Incomplete)

Ready(r, key) == Applied(r) /\ Reset(r) /\ InOrder(r, key)

Untouched(r, s) ==
  /\ s.dir = r.dir /\ s.shown = r.shown /\ s.saved = r.saved
  /\ s.filter = r.filter
  /\ r.expired => s.expired
  /\ r.filtering # 0 => s.filtering # 0

Cosmetic(r, s) == Untouched(r, s) /\ s.sorted = r.sorted

Resorted(r, s, key) == Untouched(r, s) /\ s.sorted = key

Rearranged(r, s, key) ==
  /\ s.dir = r.dir /\ Entries(s) = Entries(r) /\ s.expired = r.expired
  /\ Ready(s, key)

(* What filepanel_read() does, and what list_directory() does. *)
JustRead(r, s, w, key) ==
  /\ Entries(s) = Listing(w, s.dir)
  /\ Reset(r) => Reset(s)
  /\ s.filtering = 0 => s.sorted = key
  /\ s.dir # r.dir /\ r.filtering = 0 => s.marks = {}

Fresh(r, s, w, key) ==
  /\ Entries(s) = Listing(w, s.dir)
  /\ Reset(r) => Ready(s, key)
  /\ s.dir # r.dir /\ r.filtering = 0 => s.marks = {}

StepForm(r, s) ==
  \/ /\ Cosmetic(r, s)
     /\ s.expired \/ UNCHANGED sort_key \/ fault' # "none"
     /\ \/ s.expired \/ s.dir \in External \/ fault' # "none"
        \/ Listing(world', s.dir) = Listing(world, s.dir)
  \/ Resorted(r, s, sort_key') /\ UNCHANGED world
  \/ Rearranged(r, s, sort_key) /\ UNCHANGED <<world, sort_key>>
  \/ Fresh(r, s, world', sort_key')

(* The filter of the panel is updated at the end of the command. *)
Due(q) == q = ppanel_file /\ cmd # "none"

Finished(r, s, key) ==
  /\ r.filtering = 0 => s = r
  /\ r.filtering # 0 => Rearranged(r, s, key)

PanelsStep ==
  /\ \A q \in PanelIds :
       \/ StepForm(fpanel[q], fpanel'[q])
       \/ Due(q)' /\ JustRead(fpanel[q], fpanel'[q], world', sort_key')
  /\ \A q \in PanelIds : Due(q) /\ ~Due(q)' =>
       Finished(fpanel[q], fpanel'[q], sort_key) /\ UNCHANGED sort_key
  /\ fault' = "none" => fault = "none"

LEMMA IdleForm ==
  ASSUME Idle, \A q \in PanelIds : StepForm(fpanel[q], fpanel'[q])
  PROVE  PanelsStep
BY DEF Idle, Running, PanelsStep, Due

(* The forms of the single operations. *)
LEMMA SameIsCosmetic == \A r : Cosmetic(r, r)
BY DEF Cosmetic, Untouched

LEMMA MarkingForm ==
  ASSUME NEW r, Good(r), NEW S
  PROVE  /\ Cosmetic(r, Mark(r, S)) /\ Cosmetic(r, Unmark(r, S))
         /\ Cosmetic(r, Toggle(r, S)) /\ Cosmetic(r, FocusOff(r))
<1>1. ASSUME NEW m, NEW n
      PROVE  Cosmetic(r, [r EXCEPT !.marks = m, !.selected = n])
  BY DEF Cosmetic, Untouched, Good, Panel
<1>2. \A m, n : Cosmetic(r, [r EXCEPT !.marks = m, !.selected = n])
  BY <1>1
<1>3. Cosmetic(r, Mark(r, S))
  BY <1>2 DEF Mark
<1>4. Cosmetic(r, Unmark(r, S))
  BY <1>2 DEF Unmark
<1>5. Cosmetic(r, Toggle(r, S))
  BY <1>2 DEF Toggle
<1>6. Cosmetic(r, FocusOff(r))
  BY DEF FocusOff, Cosmetic, Untouched, Good, Panel
<1> QED
  BY <1>3, <1>4, <1>5, <1>6

LEMMA CosmeticChain ==
  ASSUME NEW r, NEW s, NEW t, Cosmetic(r, s), Cosmetic(s, t)
  PROVE  Cosmetic(r, t)
BY DEF Cosmetic, Untouched

LEMMA ExpireForm ==
  ASSUME NEW r, Good(r), NEW u \in BOOLEAN
  PROVE  /\ Cosmetic(r, [r EXCEPT !.expired = @ \/ u])
         /\ Cosmetic(r, Expire(r)) /\ Expire(r).expired
         /\ [Expire(r) EXCEPT !.expired = @ \/ u].expired
BY DEF Expire, Cosmetic, Untouched, Good, Panel

(* The filter is switched on, or the focus is moved. *)
LEMMA FilterOnForm ==
  ASSUME NEW r, Good(r), NEW n \in 1 .. 2
  PROVE  Cosmetic(r, [r EXCEPT !.filtering = n])
BY DEF Cosmetic, Untouched, Good, Panel

(* filter_update_file() applies the filter to the whole listing. *)
LEMMA UpdateForm ==
  ASSUME NEW r, Good(r), r.filtering # 0, NEW key \in SortKeys
  PROVE  Rearranged(r, filter_update(r, key), key)
<1>. DEFINE s == filter_update(r, key)
<1>1. s.dir = r.dir /\ s.expired = r.expired /\ s.filtering = r.filtering
        /\ s.filter = r.filter
  BY FilterGood
<1>2. CASE Entries(r) = {}
  <2>1. s = r
    BY <1>2 DEF filter_update
  <2>2. r.shown = {}
    BY <1>2 DEF Entries
  <2> QED
    BY <1>2, <2>1, <2>2 DEF Rearranged, Ready, Applied, Filters, Reset, InOrder
<1>3. CASE r.filter \in Incomplete
  <2>1. s = r
    BY <1>3 DEF filter_update
  <2> QED
    BY <1>3, <2>1 DEF Rearranged, Ready, Applied, Filters, Reset, InOrder
<1>4. CASE ~(Entries(r) = {} \/ r.filter \in Incomplete)
  <2>. DEFINE match == Entries(r) \cap Matches[r.filter]
              rest  == Entries(r) \ match
  <2>1. s = [r EXCEPT !.shown = match, !.saved = rest,
                      !.selected = Cardinality(r.marks \cap match),
                      !.filt_sel = Cardinality(r.marks \cap rest),
                      !.sorted = key, !.stale = FALSE]
    BY <1>4 DEF filter_update, Filtered
  <2>2. match \cup rest = Entries(r)
    OBVIOUS
  <2>. HIDE DEF match, rest
  <2>3. s.shown = match /\ s.saved = rest /\ s.sorted = key
    BY <2>1 DEF Good, Panel
  <2>4. Entries(s) = Entries(r)
    BY <2>2, <2>3 DEF Entries
  <2>5. Applied(s)
    BY <1>1, <2>3, <2>4 DEF Applied, match
  <2> QED
    BY <1>1, <2>3, <2>4, <2>5 DEF Rearranged, Ready, Reset, InOrder
<1> QED
  BY <1>2, <1>3, <1>4

LEMMA FilterOffForm ==
  ASSUME NEW r, Good(r), NEW key \in SortKeys
  PROVE  Rearranged(r, filter_off(r, key), key)
<1>. DEFINE s == filter_off(r, key)
<1>1. /\ s.dir = r.dir /\ s.shown = Entries(r) /\ s.saved = {}
      /\ s.sorted = key /\ s.filter = NoPattern /\ s.filtering = 0
      /\ s.expired = r.expired
  <2>. DEFINE n == r.selected + r.filt_sel
  <2>1. s = [r EXCEPT !.shown = Entries(r), !.saved = {}, !.sorted = key,
               !.filter = NoPattern, !.filtering = 0, !.selected = n,
               !.filt_sel = 0]
    BY DEF filter_off
  <2>. HIDE DEF n
  <2> QED
    BY <2>1 DEF Good, Panel
<1>. HIDE DEF s
<1>2. Entries(s) = Entries(r)
  BY <1>1 DEF Entries
<1>3. Ready(s, key)
  BY <1>1 DEF Ready, Applied, Filters, Reset, InOrder
<1> QED
  BY <1>1, <1>2, <1>3 DEF Rearranged, s

(* filepanel_read() of panel r, which is panel q or has just been moved. *)
LEMMA ReadForm ==
  ASSUME NEW q, NEW r, Good(r), r.filtering = q.filtering, r.filter = q.filter,
         r.dir = q.dir \/ r.selected = 0,
         NEW w \in World, NEW key \in SortKeys, NEW t \in filepanel_read(r, w, key)
  PROVE  JustRead(q, t, w, key)
<1>1. PICK u \in directory_read(r, w) :
        t = [u EXCEPT !.sorted = IF r.filtering = 0 THEN key ELSE Unsorted,
                      !.expired = FALSE,
                      !.stale = r.filtering # 0 /\ r.filt_sel # 0]
  BY DEF filepanel_read
<1>2. /\ Good(t) /\ t.saved = {} /\ t.dir = r.dir
      /\ t.filtering = r.filtering /\ t.filter = r.filter
  BY ReadGood
<1>3. /\ u.shown = Listing(w, r.dir)
      /\ r.filtering = 0 /\ r.selected = 0 => u.marks = {}
      /\ t.shown = u.shown /\ t.marks = u.marks
      /\ r.filtering = 0 => t.sorted = key
  <2>1. CASE w.access[r.dir] = "ok"
    <3>1. PICK S \in MarkedScan(r, SuspendedCount(r)) : u = Rebuilt(r, w, S)
      BY <2>1 DEF directory_read
    <3>2. ASSUME r.filtering = 0, r.selected = 0 PROVE S = {}
      <4>1. S \in SUBSET Names /\ Cardinality(S) = 0
        BY <3>1, <3>2 DEF MarkedScan, SuspendedCount, Good, Panel
      <4> QED
        BY <4>1, NamesFinite, FS_EmptySet
    <3>3. /\ u.shown = Visible(w, r.dir) /\ u.marks = S \cap Visible(w, r.dir)
          /\ t.shown = u.shown /\ t.marks = u.marks
          /\ r.filtering = 0 => t.sorted = key
      BY <1>1, <3>1 DEF Rebuilt, Good, Panel
    <3> QED
      BY <2>1, <3>2, <3>3 DEF Listing
  <2>2. CASE w.access[r.dir] # "ok"
    <3>1. u = Emptied(r)
      BY <2>2 DEF directory_read
    <3>2. u.shown = {} /\ u.marks = {} /\ t.shown = u.shown /\ t.marks = u.marks
          /\ (r.filtering = 0 => t.sorted = key)
      BY <1>1, <3>1 DEF Emptied, Good, Panel
    <3> QED
      BY <2>2, <3>2 DEF Listing
  <2> QED
    BY <2>1, <2>2
<1>4. Entries(t) = Listing(w, t.dir)
  BY <1>2, <1>3 DEF Entries
<1>5. t.dir # q.dir /\ q.filtering = 0 => t.marks = {}
  BY <1>2, <1>3
<1> QED
  BY <1>2, <1>3, <1>4, <1>5 DEF JustRead, Reset

(* list_directory() of the same panel. *)
LEMMA FreshForm ==
  ASSUME NEW q, NEW r, Good(r), r.filtering = q.filtering, r.filter = q.filter,
         r.dir = q.dir \/ r.selected = 0,
         NEW w \in World, NEW key \in SortKeys, NEW s \in Reread(r, w, key)
  PROVE  Fresh(q, s, w, key) /\ s.dir = r.dir
<1>1. PICK t \in filepanel_read(r, w, key) : s = Displayed(t, key)
  BY DEF Reread
<1>2. Good(t) /\ t.dir = r.dir /\ t.filtering = r.filtering
  BY ReadGood
<1>3. JustRead(q, t, w, key)
  BY ReadForm
<1>4. CASE r.filtering = 0
  <2>1. s = t
    BY <1>1, <1>2, <1>4 DEF Displayed
  <2>2. Reset(q) => Ready(s, key)
    BY <1>2, <1>3, <1>4, <2>1 DEF JustRead, Ready, Applied, Filters, InOrder
  <2> QED
    BY <1>2, <1>3, <2>1, <2>2 DEF JustRead, Fresh
<1>5. CASE r.filtering # 0
  <2>1. s = filter_update(t, key)
    BY <1>1, <1>2, <1>5 DEF Displayed
  <2>2. Rearranged(t, s, key)
    BY <1>2, <1>5, <2>1, UpdateForm
  <2> QED
    BY <1>2, <1>3, <1>5, <2>2 DEF JustRead, Fresh, Rearranged
<1> QED
  BY <1>4, <1>5

(* The forms of the actions. *)
LEMMA PanelsOf ==
  ASSUME Inv
  PROVE  /\ fpanel \in [PanelIds -> Panel] /\ ppanel_file \in PanelIds
         /\ Other(ppanel_file) \in PanelIds
         /\ pf = fpanel[ppanel_file] /\ other = fpanel[Other(ppanel_file)]
         /\ \A p \in PanelIds : Good(fpanel[p])
         /\ \A p \in PanelIds : Other(p) \in PanelIds /\ Other(p) # p
         /\ \A p, q \in PanelIds : q = p \/ q = Other(p)
BY PrimaryGood, PanelsGood DEF Inv, TypeOK, pf, other, PanelIds, Other

LEMMA SetPrimaryForm ==
  ASSUME Inv, Idle, NEW r, SetPrimary(r),
         Cosmetic(pf, r) \/ Rearranged(pf, r, sort_key)
  PROVE  PanelsStep
<1>1. ASSUME NEW q \in PanelIds PROVE StepForm(fpanel[q], fpanel'[q])
  <2>1. CASE q = ppanel_file
    <3>1. fpanel'[q] = r /\ fpanel[q] = pf /\ UNCHANGED <<world, sort_key>>
      BY <2>1, PanelsOf DEF SetPrimary
    <3> QED
      BY <3>1 DEF StepForm
  <2>2. CASE q # ppanel_file
    <3>1. fpanel'[q] = fpanel[q] /\ UNCHANGED <<world, sort_key>>
      BY <2>2, PanelsOf DEF SetPrimary
    <3> QED
      BY <3>1, SameIsCosmetic DEF StepForm
  <2> QED
    BY <2>1, <2>2
<1> QED
  BY <1>1, IdleForm

(* Panel p is read, the other panel is left in the state o. *)
LEMMA BecomesForm ==
  ASSUME Inv, NEW p \in PanelIds, NEW S, NEW o, Good(o),
         Cosmetic(fpanel[Other(p)], o),
         o.expired \/ UNCHANGED <<world, sort_key>>,
         Becomes(p, S, o)
  PROVE  \/ \A q \in PanelIds : StepForm(fpanel[q], fpanel'[q])
         \/ /\ fpanel'[p] \in S
            /\ StepForm(fpanel[Other(p)], fpanel'[Other(p)])
<1>1. CASE fault' = "overrun" /\ UNCHANGED fpanel
  BY <1>1, SameIsCosmetic DEF StepForm
<1>2. ASSUME NEW s \in S, NEW u \in BOOLEAN,
             fpanel' = [q \in PanelIds |->
               IF q = p THEN s ELSE [o EXCEPT !.expired = @ \/ u]]
      PROVE  /\ fpanel'[p] \in S
             /\ StepForm(fpanel[Other(p)], fpanel'[Other(p)])
  <2>. DEFINE e == [o EXCEPT !.expired = @ \/ u]
  <2>1. fpanel'[p] = s /\ fpanel'[Other(p)] = e
    BY <1>2, PanelsOf
  <2>2. Cosmetic(o, e) /\ (o.expired => e.expired)
    BY ExpireForm DEF Cosmetic, Untouched
  <2>3. Cosmetic(fpanel[Other(p)], e)
    BY <2>2, CosmeticChain
  <2>4. StepForm(fpanel[Other(p)], e)
    BY <2>2, <2>3 DEF StepForm
  <2> QED
    BY <1>2, <2>1, <2>4
<1> QED
  BY <1>1, <1>2 DEF Becomes

(* The same for list_directory(), outside of a command. *)
LEMMA ListDirectoryForm ==
  ASSUME Inv, Idle, NEW p \in PanelIds, NEW r, Good(r),
         r.filtering = fpanel[p].filtering, r.filter = fpanel[p].filter,
         r.dir = fpanel[p].dir \/ r.selected = 0,
         NEW o, Good(o), Cosmetic(fpanel[Other(p)], o),
         o.expired \/ UNCHANGED <<world, sort_key>>,
         world' \in World, sort_key' \in SortKeys,
         list_directory(p, r, o, world', sort_key')
  PROVE  PanelsStep
<1>. DEFINE S == Reread(r, world', sort_key')
<1>1. Becomes(p, S, o)
  BY DEF list_directory
<1>2. \A s \in S : StepForm(fpanel[p], s)
  BY FreshForm DEF StepForm
<1>. HIDE DEF S
<1>3. \A q \in PanelIds : StepForm(fpanel[q], fpanel'[q])
  BY <1>1, <1>2, BecomesForm, PanelsOf
<1> QED
  BY <1>3, IdleForm

(* What an arrival leaves alone. *)
LEMMA ArrivalForm ==
  ASSUME NEW r, Good(r), NEW w, NEW s \in Arrivals(r, w) \cup find_valid_cwd(r, w)
  PROVE  /\ Good(s) /\ s.filtering = r.filtering /\ s.filter = r.filter
         /\ s.dir = r.dir \/ s.selected = 0
<1>1. PICK d \in Dirs :
        s = Moved(r, d) \/ s = [r EXCEPT !.dir = d, !.selected = 0]
  BY ArrivalGood
<1> QED
  BY <1>1, ArrivalGood DEF Moved, Good, Panel

LEMMA SelectKeysForm == ASSUME Inv, SelectKeys PROVE PanelsStep
<1>1. Good(pf) /\ Idle
  BY PrimaryGood
     DEF SelectKeys, cx_select_toggle, cx_select_invert, cx_select_allfiles,
         cx_select_nofiles, cx_select_files
<1>2. \A S : /\ Cosmetic(pf, Mark(pf, S)) /\ Cosmetic(pf, Unmark(pf, S))
            /\ Cosmetic(pf, Toggle(pf, S)) /\ Cosmetic(pf, FocusOff(pf))
  BY <1>1, MarkingForm
<1>3. CASE cx_select_toggle \/ cx_select_invert \/ cx_select_allfiles
             \/ cx_select_nofiles
  BY <1>1, <1>2, <1>3, SetPrimaryForm DEF cx_select_toggle, cx_select_invert,
     cx_select_allfiles, cx_select_nofiles
<1>4. CASE cx_select_files
  <2>1. ASSUME NEW e
        PROVE  /\ Cosmetic(pf, FocusOff(Mark(pf, pf.shown \cap Matches[e])))
               /\ Cosmetic(pf, FocusOff(Unmark(pf, pf.shown \cap Matches[e])))
    <3>. DEFINE S == pf.shown \cap Matches[e]
    <3>1. Good(Mark(pf, S)) /\ Good(Unmark(pf, S))
      BY <1>1, MarkingGood DEF Entries
    <3>2. /\ Cosmetic(Mark(pf, S), FocusOff(Mark(pf, S)))
          /\ Cosmetic(Unmark(pf, S), FocusOff(Unmark(pf, S)))
      BY <3>1, MarkingForm
    <3> QED
      BY <1>2, <3>2, CosmeticChain
  <2> QED
    BY <1>1, <1>2, <1>4, <2>1, SetPrimaryForm DEF cx_select_files
<1> QED
  BY <1>3, <1>4 DEF SelectKeys

LEMMA FilterKeysForm == ASSUME Inv, FilterKeys PROVE PanelsStep
<1>1. Good(pf) /\ sort_key \in SortKeys /\ Idle
  BY PrimaryGood
     DEF FilterKeys, cx_filter, FilterEnter, cx_filter_toggle, FilterEdit
<1>2. TurnFilterOff => PanelsStep
  BY <1>1, FilterOffForm, SetPrimaryForm DEF TurnFilterOff
<1>3. SetPrimary(filter_on(pf)) => PanelsStep
  <2>1. 1 \in 1 .. 2
    OBVIOUS
  <2>2. Cosmetic(pf, filter_on(pf))
    BY <1>1, <2>1, FilterOnForm DEF filter_on
  <2> QED
    BY <1>1, <2>2, SetPrimaryForm
<1>4. ASSUME pf.filtering # 0, SetPrimary([pf EXCEPT !.filtering = 3 - @])
      PROVE  PanelsStep
  <2>. DEFINE n == 3 - pf.filtering
  <2>1. n \in 1 .. 2
    BY <1>1, <1>4 DEF Good, Panel
  <2>2. SetPrimary([pf EXCEPT !.filtering = n])
    BY <1>4
  <2>. HIDE DEF n
  <2> QED
    BY <1>1, <2>1, <2>2, FilterOnForm, SetPrimaryForm
<1>5. CASE FilterEdit
  <2>1. PICK e \in Patterns :
          /\ pf.filtering = 1
          /\ SetPrimary(filter_update([pf EXCEPT !.filter = e], sort_key))
    BY <1>5 DEF FilterEdit
  <2>. DEFINE r == [pf EXCEPT !.filter = e]
  <2>2. /\ Good(r) /\ r.filtering # 0
        /\ r.dir = pf.dir /\ Entries(r) = Entries(pf) /\ r.expired = pf.expired
    BY <1>1, <2>1 DEF Good, WellFormed, Panel, Entries
  <2>. HIDE DEF r
  <2>3. Rearranged(r, filter_update(r, sort_key), sort_key)
    BY <1>1, <2>2, UpdateForm
  <2>4. Rearranged(pf, filter_update(r, sort_key), sort_key)
    BY <2>2, <2>3 DEF Rearranged
  <2>5. SetPrimary(filter_update(r, sort_key))
    BY <2>1 DEF r
  <2> QED
    BY <1>1, <2>4, <2>5, SetPrimaryForm
<1> QED
  BY <1>2, <1>3, <1>4, <1>5 DEF FilterKeys, cx_filter, FilterEnter,
     cx_filter_toggle

LEMMA ComparePanelsForm ==
  ASSUME Inv, NEW same, compare_panels(same)
  PROVE  PanelsStep
<1>0. Idle
  BY DEF compare_panels
<1>1. CASE fault' = "overrun" /\ UNCHANGED fpanel
  <2>1. \A q \in PanelIds : StepForm(fpanel[q], fpanel'[q])
    BY <1>1, SameIsCosmetic DEF StepForm
  <2> QED
    BY <1>0, <2>1, IdleForm
<1>2. ASSUME NEW r1 \in Reread(pf, world, sort_key),
             NEW r2 \in Reread(other, world, sort_key),
             fpanel' = [q \in PanelIds |->
               IF q = ppanel_file
                 THEN [Compared(r1, r2, same) EXCEPT !.sorted = sort_key]
                 ELSE Compared(r2, r1, same)],
             UNCHANGED fault
      PROVE  PanelsStep
  <2>1. /\ UNCHANGED <<world, sort_key>> /\ Good(pf) /\ Good(other)
        /\ world \in World /\ sort_key \in SortKeys
    BY PrimaryGood DEF compare_panels
  <2>2. /\ Good(r1) /\ Fresh(pf, r1, world, sort_key) /\ r1.dir = pf.dir
        /\ Good(r2) /\ Fresh(other, r2, world, sort_key) /\ r2.dir = other.dir
    BY <2>1, RereadGood, FreshForm
  <2>3. ASSUME NEW r, NEW s, NEW t, Good(s), Fresh(r, s, world, sort_key),
               s.dir = r.dir
        PROVE  Fresh(r, Compared(s, t, same), world, sort_key)
    <3>. DEFINE c == Compared(s, t, same)
    <3>1. Good(Mark(s, s.shown)) /\ Cosmetic(s, Mark(s, s.shown))
      BY <2>3, MarkingGood, MarkingForm DEF Entries
    <3>2. Cosmetic(Mark(s, s.shown), c)
      BY <3>1, MarkingForm DEF Compared
    <3>3. Cosmetic(s, c) /\ c.filtering = s.filtering
      <4>1. c.filtering = s.filtering
        BY <2>3 DEF Compared, Mark, Unmark, Good, Panel
      <4> QED
        BY <3>1, <3>2, <4>1, CosmeticChain
    <3>. HIDE DEF c
    <3>4. c.dir = r.dir /\ Entries(c) = Entries(s)
      BY <2>3, <3>3 DEF Cosmetic, Untouched, Entries
    <3>5. Ready(s, sort_key) => Ready(c, sort_key)
      BY <3>3, <3>4 DEF Cosmetic, Untouched, Ready, Applied, Filters, Reset,
                          InOrder
    <3>6. Fresh(r, c, world, sort_key)
      BY <2>3, <3>4, <3>5 DEF Fresh
    <3> QED
      BY <3>6 DEF c
  <2>4. Fresh(other, Compared(r2, r1, same), world, sort_key)
    BY <2>2, <2>3
  <2>5. Fresh(pf, [Compared(r1, r2, same) EXCEPT !.sorted = sort_key],
              world, sort_key)
    <3>. DEFINE c == Compared(r1, r2, same)
                e == [c EXCEPT !.sorted = sort_key]
    <3>1. Fresh(pf, c, world, sort_key) /\ Good(c)
      BY <2>2, <2>3, ComparedGood
    <3>. HIDE DEF c
    <3>2. /\ e.dir = c.dir /\ e.shown = c.shown /\ e.saved = c.saved
          /\ e.marks = c.marks /\ e.filter = c.filter
          /\ e.filtering = c.filtering /\ e.sorted = sort_key
      BY <3>1 DEF Good, Panel
    <3>. HIDE DEF e
    <3>3. Fresh(pf, e, world, sort_key)
      BY <3>1, <3>2 DEF Fresh, Entries, Ready, Applied, Filters, Reset, InOrder
    <3> QED
      BY <3>3 DEF c, e
  <2>6. ASSUME NEW q \in PanelIds PROVE StepForm(fpanel[q], fpanel'[q])
    <3>1. CASE q = ppanel_file
      <4>1. /\ fpanel[q] = pf
            /\ fpanel'[q] = [Compared(r1, r2, same) EXCEPT !.sorted = sort_key]
        BY <1>2, <3>1, PanelsOf
      <4> QED
        BY <2>1, <2>5, <4>1 DEF StepForm
    <3>2. CASE q # ppanel_file
      <4>1. fpanel[q] = other /\ fpanel'[q] = Compared(r2, r1, same)
        BY <1>2, <3>2, PanelsOf
      <4> QED
        BY <2>1, <2>4, <4>1 DEF StepForm
    <3> QED
      BY <3>1, <3>2
  <2> QED
    BY <1>0, <2>6, IdleForm
<1> QED
  BY <1>1, <1>2 DEF compare_panels

LEMMA ExchangeForm == ASSUME Inv, cx_files_exchange PROVE PanelsStep
<1>. DEFINE o == Other(ppanel_file)
<1>1. /\ o \in PanelIds /\ Other(o) = ppanel_file /\ Good(other) /\ Good(pf)
      /\ other = fpanel[o] /\ pf = fpanel[ppanel_file] /\ ppanel_file \in PanelIds
      /\ sort_key \in SortKeys /\ world \in World /\ Cosmetic(pf, pf)
  BY PrimaryGood, PanelsOf, SameIsCosmetic DEF PanelIds, Other
<1>2. UNCHANGED <<world, sort_key>> /\ Idle
  BY DEF cx_files_exchange
<1>3. ASSUME NEW r, Good(r), r.filtering = other.filtering, r.filter = other.filter,
             r.dir = other.dir \/ r.selected = 0,
             list_directory(o, r, pf, world, sort_key)
      PROVE  PanelsStep
  <2>1. list_directory(o, r, pf, world', sort_key')
    BY <1>2, <1>3
  <2> QED
    BY <1>1, <1>2, <1>3, <2>1, ListDirectoryForm
<1>4. CASE \E r \in find_valid_cwd(other, world) :
             list_directory(o, r, pf, world, sort_key)
  BY <1>1, <1>3, <1>4, ArrivalForm
<1>5. CASE list_directory(o, other, pf, world, sort_key)
  BY <1>1, <1>3, <1>5
<1>6. CASE /\ fpanel' = [fpanel EXCEPT ![o] = Displayed(other, sort_key)]
           /\ UNCHANGED fault
  <2>. DEFINE s == Displayed(other, sort_key)
  <2>1. Cosmetic(other, s) \/ Rearranged(other, s, sort_key)
    BY <1>1, SameIsCosmetic, UpdateForm DEF Displayed
  <2>. HIDE DEF s
  <2>2. StepForm(other, s)
    BY <1>2, <2>1 DEF StepForm
  <2>3. fpanel'[o] = s /\ fpanel'[ppanel_file] = fpanel[ppanel_file]
    BY <1>1, <1>6, PanelsOf DEF s
  <2>4. StepForm(pf, pf)
    BY <1>1, <1>2 DEF StepForm
  <2>. HIDE DEF o
  <2>5. \A q \in PanelIds : StepForm(fpanel[q], fpanel'[q])
    BY <1>1, <2>2, <2>3, <2>4, PanelsOf DEF o
  <2> QED
    BY <1>2, <2>5, IdleForm
<1> QED
  BY <1>4, <1>5, <1>6 DEF cx_files_exchange

LEMMA ReadKeysForm == ASSUME Inv, ReadKeys PROVE PanelsStep
<1>. DEFINE p == ppanel_file
<1>1. /\ Good(pf) /\ Good(other) /\ Good(Expire(other)) /\ p \in PanelIds
      /\ pf = fpanel[p] /\ other = fpanel[Other(p)]
      /\ Cosmetic(other, other) /\ Cosmetic(other, Expire(other))
      /\ Expire(other).expired /\ world \in World /\ sort_key \in SortKeys
  BY PrimaryGood, PanelsOf, ExpiredGood, ExpireForm, SameIsCosmetic
<1>2. CASE cx_files_reread
  <2>1. /\ UNCHANGED <<world, sort_key>> /\ Idle
        /\ list_directory(p, pf, other, world', sort_key')
    BY <1>1, <1>2 DEF cx_files_reread
  <2>2. world' \in World /\ sort_key' \in SortKeys
    BY <1>1, <2>1
  <2> QED
    BY <1>1, <2>1, <2>2, ListDirectoryForm
<1>3. CASE SetAndReread
  <2>1. world' \in World /\ sort_key' \in SortKeys
    BY <1>1, <1>3 DEF SetAndReread, World
  <2>2. Idle /\ list_directory(p, pf, Expire(other), world', sort_key')
    BY <1>3 DEF SetAndReread
  <2> QED
    BY <1>1, <2>1, <2>2, ListDirectoryForm
<1>4. CASE changedir
  <2>1. PICK r \in Arrivals(pf, world) :
          list_directory(p, r, other, world, sort_key)
    BY <1>4 DEF changedir
  <2>2. /\ Good(r) /\ r.filtering = pf.filtering /\ r.filter = pf.filter
        /\ r.dir = pf.dir \/ r.selected = 0
    BY <1>1, ArrivalForm
  <2>3. /\ UNCHANGED <<world, sort_key>> /\ Idle
        /\ list_directory(p, r, other, world', sort_key')
    BY <1>4, <2>1 DEF changedir
  <2>4. world' \in World /\ sort_key' \in SortKeys
    BY <1>1, <2>3
  <2> QED
    BY <1>1, <2>2, <2>3, <2>4, ListDirectoryForm
<1> QED
  BY <1>2, <1>3, <1>4, ExchangeForm, ComparePanelsForm DEF ReadKeys

(* A reading of the primary panel within a command. *)
LEMMA CommandReadForm ==
  ASSUME Inv, Running, NEW r, Good(r),
         r.filtering = pf.filtering, r.filter = pf.filter,
         r.dir = pf.dir \/ r.selected = 0,
         NEW o, Good(o), Cosmetic(other, o),
         o.expired \/ UNCHANGED <<world, sort_key>>,
         world' \in World, sort_key' \in SortKeys,
         NEW S, \A s \in S : JustRead(pf, s, world', sort_key'),
         Becomes(ppanel_file, S, o), UNCHANGED ppanel_file, cmd' # "none"
  PROVE  PanelsStep
<1>1. /\ ppanel_file \in PanelIds /\ pf = fpanel[ppanel_file]
      /\ other = fpanel[Other(ppanel_file)]
      /\ \A q \in PanelIds : q = ppanel_file \/ q = Other(ppanel_file)
  BY PanelsOf
<1>2. \/ \A q \in PanelIds : StepForm(fpanel[q], fpanel'[q])
      \/ /\ fpanel'[ppanel_file] \in S
         /\ StepForm(other, fpanel'[Other(ppanel_file)])
  BY <1>1, BecomesForm
<1>3. ASSUME NEW q \in PanelIds
      PROVE  \/ StepForm(fpanel[q], fpanel'[q])
             \/ Due(q)' /\ JustRead(fpanel[q], fpanel'[q], world', sort_key')
  <2>1. CASE q = ppanel_file
    BY <1>1, <1>2, <2>1 DEF Due
  <2>2. CASE q = Other(ppanel_file)
    BY <1>1, <1>2, <2>2
  <2> QED
    BY <1>1, <2>1, <2>2
<1>4. \A q \in PanelIds : Due(q) => Due(q)'
  BY DEF Due
<1> QED
  BY <1>3, <1>4 DEF PanelsStep, Running

LEMMA CommandsForm == ASSUME Inv, Commands PROVE PanelsStep
<1>1. /\ Good(pf) /\ Good(other) /\ Good(Expire(other))
      /\ Cosmetic(other, other) /\ Cosmetic(other, Expire(other))
      /\ Expire(other).expired /\ world \in World /\ sort_key \in SortKeys
  BY PrimaryGood, ExpiredGood, ExpireForm, SameIsCosmetic
<1>2. Running
  BY DEF Commands, execute, execute_cd, execute_cdgit, FinishCommand, Idle
<1>3. CASE execute
  <2>1. world' \in World /\ sort_key' \in SortKeys
    BY <1>1, <1>3, ChangeWorld DEF execute
  <2>. DEFINE S == filepanel_read(pf, world', sort_key)
  <2>2. \A s \in S : JustRead(pf, s, world', sort_key')
    <3>1. UNCHANGED sort_key
      BY <1>3 DEF execute
    <3> QED
      BY <1>1, <2>1, <3>1, ReadForm
  <2>3. /\ Becomes(ppanel_file, S, Expire(other))
        /\ UNCHANGED ppanel_file /\ cmd' # "none"
    BY <1>3 DEF execute
  <2>. HIDE DEF S
  <2> QED
    BY <1>1, <1>2, <2>1, <2>2, <2>3, CommandReadForm
<1>4. CASE execute_cd
  <2>1. PICK r \in Arrivals(pf, world) :
          Becomes(ppanel_file, filepanel_read(r, world, sort_key), other)
    BY <1>4 DEF execute_cd
  <2>2. /\ Good(r) /\ r.filtering = pf.filtering /\ r.filter = pf.filter
        /\ r.dir = pf.dir \/ r.selected = 0
    BY <1>1, ArrivalForm
  <2>3. UNCHANGED <<world, sort_key, ppanel_file>> /\ cmd' # "none"
    BY <1>4 DEF execute_cd
  <2>4. world' \in World /\ sort_key' \in SortKeys
    BY <1>1, <2>3
  <2>. DEFINE S == filepanel_read(r, world, sort_key)
  <2>5. \A s \in S : JustRead(pf, s, world', sort_key')
    BY <1>1, <2>2, <2>3, ReadForm
  <2>6. Becomes(ppanel_file, S, other)
    BY <2>1
  <2>. HIDE DEF S
  <2> QED
    BY <1>1, <1>2, <2>2, <2>3, <2>4, <2>5, <2>6, CommandReadForm
<1>5. CASE execute_cdgit
  <2>1. PICK r \in Arrivals(pf, world), k \in SortKeys :
          /\ sort_key' = k
          /\ Becomes(ppanel_file,
                     {[s EXCEPT !.sorted = k] : s \in filepanel_read(r, world, k)},
                     Expire(other))
    BY <1>5 DEF execute_cdgit
  <2>2. /\ Good(r) /\ r.filtering = pf.filtering /\ r.filter = pf.filter
        /\ r.dir = pf.dir \/ r.selected = 0
    BY <1>1, ArrivalForm
  <2>3. UNCHANGED <<world, ppanel_file>> /\ cmd' # "none"
    BY <1>5 DEF execute_cdgit
  <2>4. world' \in World /\ sort_key' \in SortKeys
    BY <1>1, <2>1, <2>3
  <2>. DEFINE S == {[s EXCEPT !.sorted = k] : s \in filepanel_read(r, world, k)}
  <2>5. ASSUME NEW s \in filepanel_read(r, world, k)
        PROVE  JustRead(pf, [s EXCEPT !.sorted = k], world', sort_key')
    <3>. DEFINE t == [s EXCEPT !.sorted = k]
    <3>1. Good(s) /\ JustRead(pf, s, world', sort_key')
      BY <1>1, <2>1, <2>2, <2>3, ReadGood, ReadForm
    <3>2. /\ t.dir = s.dir /\ t.shown = s.shown /\ t.saved = s.saved
          /\ t.marks = s.marks /\ t.filter = s.filter
          /\ t.filtering = s.filtering /\ t.sorted = k
      BY <3>1 DEF Good, Panel
    <3>. HIDE DEF t
    <3>3. JustRead(pf, t, world', sort_key')
      BY <2>1, <3>1, <3>2 DEF JustRead, Entries, Reset
    <3> QED
      BY <3>3 DEF t
  <2>6. \A s \in S : JustRead(pf, s, world', sort_key')
    BY <2>5
  <2>7. Becomes(ppanel_file, S, Expire(other))
    BY <2>1
  <2>. HIDE DEF S
  <2> QED
    BY <1>1, <1>2, <2>2, <2>3, <2>4, <2>6, <2>7, CommandReadForm
<1>6. CASE FinishCommand
  <2>. DEFINE s == Displayed(pf, sort_key)
  <2>1. /\ ppanel_file \in PanelIds /\ pf = fpanel[ppanel_file]
        /\ fpanel \in [PanelIds -> Panel]
    BY PanelsOf
  <2>2. fpanel' = [fpanel EXCEPT ![ppanel_file] = s]
    BY <1>6 DEF FinishCommand, pf
  <2>3. UNCHANGED <<world, sort_key, ppanel_file, fault>>
    BY <1>6 DEF FinishCommand
  <2>4. /\ pf.filtering = 0 => s = pf
        /\ pf.filtering # 0 => Rearranged(pf, s, sort_key)
    BY <1>1, UpdateForm DEF Displayed
  <2>. HIDE DEF s
  <2>5. StepForm(pf, s)
    BY <2>3, <2>4, SameIsCosmetic DEF StepForm
  <2>6. fpanel'[ppanel_file] = s /\ \A q \in PanelIds \ {ppanel_file} :
                                      fpanel'[q] = fpanel[q]
    BY <2>1, <2>2
  <2>7. \A q \in PanelIds : StepForm(fpanel[q], fpanel'[q])
    BY <2>1, <2>3, <2>5, <2>6, SameIsCosmetic DEF StepForm
  <2>8. \A q \in PanelIds : Due(q) => Finished(fpanel[q], fpanel'[q], sort_key)
    BY <2>1, <2>4, <2>6 DEF Due, Finished
  <2> QED
    BY <2>3, <2>7, <2>8 DEF PanelsStep
<1> QED
  BY <1>3, <1>4, <1>5, <1>6 DEF Commands

LEMMA SortForm == ASSUME Inv, cx_sort_set \/ SetGrouping PROVE PanelsStep
<1>1. \A q \in PanelIds : Good(fpanel[q])
  BY PanelsOf
<1>2. ASSUME NEW r, Good(r), NEW k PROVE Resorted(r, [r EXCEPT !.sorted = k], k)
  BY <1>2 DEF Resorted, Untouched, Good, Panel
<1>3. UNCHANGED world /\ Idle
  BY DEF cx_sort_set, SetGrouping
<1>4. CASE cx_sort_set
  <2>1. PICK k : sort_key' = k /\ fpanel' = [fpanel EXCEPT
                       ![ppanel_file].sorted = k,
                       ![Other(ppanel_file)] = Expire(@)]
    BY <1>4 DEF cx_sort_set
  <2>2. /\ fpanel'[ppanel_file] = [fpanel[ppanel_file] EXCEPT !.sorted = k]
        /\ fpanel'[Other(ppanel_file)] = Expire(fpanel[Other(ppanel_file)])
    BY <2>1, PanelsOf
  <2>3. StepForm(fpanel[ppanel_file], fpanel'[ppanel_file])
    BY <1>1, <1>2, <1>3, <2>1, <2>2, PanelsOf DEF StepForm
  <2>4. StepForm(fpanel[Other(ppanel_file)], fpanel'[Other(ppanel_file)])
    <3>1. Cosmetic(other, Expire(other)) /\ Expire(other).expired
      BY PrimaryGood, ExpireForm
    <3>2. /\ Cosmetic(fpanel[Other(ppanel_file)], fpanel'[Other(ppanel_file)])
          /\ fpanel'[Other(ppanel_file)].expired
      BY <2>2, <3>1, PanelsOf
    <3> QED
      BY <1>3, <3>2 DEF StepForm
  <2>5. \A q \in PanelIds : StepForm(fpanel[q], fpanel'[q])
    BY <2>3, <2>4, PanelsOf
  <2> QED
    BY <1>3, <2>5, IdleForm
<1>5. CASE SetGrouping
  <2>1. PICK k : /\ sort_key' = k
                 /\ fpanel' = [q \in PanelIds |->
                                 [fpanel[q] EXCEPT !.sorted = k]]
    BY <1>5 DEF SetGrouping
  <2>2. \A q \in PanelIds : Resorted(fpanel[q], fpanel'[q], sort_key')
    BY <1>1, <1>2, <2>1
  <2> QED
    BY <1>3, <2>2, IdleForm DEF StepForm
<1> QED
  BY <1>4, <1>5

(* Another directory is not affected by a change of this one. *)
LEMMA ChangeElsewhere ==
  ASSUME NEW d \in Dirs, NEW e \in Dirs, e # d, Change({d}), world \in World
  PROVE  Listing(world', e) = Listing(world, e)
<1>1. PICK c \in [{d} -> Contents],
           a \in [{d} \cap Unreliable -> {"ok", "noread", "gone"}] :
        world' = [world EXCEPT
          !.contents = [x \in Dirs |-> IF x \in {d} THEN c[x] ELSE @[x]],
          !.access = [x \in Dirs |-> IF x \in DOMAIN a THEN a[x] ELSE @[x]]]
  BY DEF Change
<1>2. /\ world'.contents[e] = world.contents[e]
      /\ world'.access[e] = world.access[e] /\ world'.hide = world.hide
  BY <1>1 DEF World
<1> QED
  BY <1>2 DEF Listing, Visible, Hiding

LEMMA NextForm == ASSUME Inv, [Next]_vars PROVE PanelsStep
<1>1. CASE cx_insert_filename \/ edit_macro \/ Faulted \/ UNCHANGED vars
  BY <1>1, SameIsCosmetic DEF cx_insert_filename, edit_macro, Faulted, vars,
     StepForm, PanelsStep, Idle, Running, Due
<1>2. CASE BackgroundChange
  <2>1. PICK d \in External : Change({d})
    BY <1>2 DEF BackgroundChange
  <2>2. UNCHANGED <<fpanel, ppanel_file, sort_key, cmd, fault>>
    BY <1>2 DEF BackgroundChange
  <2>3. ASSUME NEW q \in PanelIds PROVE StepForm(fpanel[q], fpanel'[q])
    <3>1. fpanel[q].dir \in Dirs /\ world \in World /\ d \in Dirs
      BY SettingsAssumption, PanelsOf DEF Panel, Inv, TypeOK
    <3>2. fpanel[q].dir = d \/ Listing(world', fpanel[q].dir)
                                 = Listing(world, fpanel[q].dir)
      BY <2>1, <3>1, ChangeElsewhere
    <3> QED
      BY <2>2, <3>2, SameIsCosmetic DEF StepForm
  <2>4. \A q \in PanelIds : Due(q) => Due(q)'
    BY <2>2 DEF Due
  <2> QED
    BY <2>2, <2>3, <2>4 DEF PanelsStep
<1> QED
  BY <1>1, <1>2, SelectKeysForm, FilterKeysForm, ReadKeysForm, CommandsForm,
     SortForm DEF Next

-----------------------------------------------------------------------------
(* What the forms imply. *)

(***************************************************************************)
(* The invariant of the display: both panels are ready, also the one that  *)
(* is not on the screen, except that a command in progress leaves the      *)
(* filter of the primary panel to be updated.  FilterApplied speaks of the *)
(* primary panel alone; it holds after an exchange because the other panel *)
(* was kept ready.                                                         *)
(***************************************************************************)
Prepared(p) ==
  /\ Due(p) \/ Applied(fpanel[p])
  /\ Reset(fpanel[p])
  /\ Running => \/ fpanel[p].expired
                \/ Due(p) /\ fpanel[p].filtering # 0
                \/ InOrder(fpanel[p], sort_key)

DisplayInv == Inv /\ \A p \in PanelIds : Prepared(p)

(* A panel that is left alone stays ready: a filter that is switched on is *)
(* empty and matches every name.                                           *)
LEMMA UntouchedReady ==
  ASSUME NEW r, Good(r), Applied(r), Reset(r), NEW s, Untouched(r, s)
  PROVE  Applied(s) /\ Reset(s)
<1>1. Entries(s) = Entries(r) /\ s.shown = r.shown /\ s.filter = r.filter
        /\ (r.filtering # 0 => s.filtering # 0)
  BY DEF Untouched, Entries
<1>2. CASE r.filtering # 0
  BY <1>1, <1>2 DEF Applied, Reset, Filters
<1>3. CASE r.filtering = 0
  <2>1. /\ r.filter = NoPattern /\ r.shown = Entries(r)
        /\ Entries(r) \subseteq Names
    BY <1>3 DEF Reset, Good, WellFormed, Panel, Entries
  <2>2. Entries(r) \cap Matches[r.filter] = Entries(r)
    BY <2>1, PatternsAssumption
  <2> QED
    BY <1>1, <2>1, <2>2 DEF Applied, Reset
<1> QED
  BY <1>2, <1>3

(* What the steps make of a panel r that was prepared.                     *)
LEMMA StepPrepares ==
  ASSUME NEW r, Good(r), Reset(r), NEW s, StepForm(r, s), NEW due \in BOOLEAN,
         due \/ Applied(r),
         fault' = "none" => \/ r.expired
                            \/ due /\ r.filtering # 0
                            \/ InOrder(r, sort_key)
  PROVE  /\ due \/ Applied(s)
         /\ Reset(s)
         /\ fault' = "none" => \/ s.expired
                               \/ due /\ s.filtering # 0
                               \/ InOrder(s, sort_key')
<1>1. CASE /\ Cosmetic(r, s)
           /\ s.expired \/ UNCHANGED sort_key \/ fault' # "none"
  <2>1. Reset(s) /\ (due \/ Applied(s))
    <3>1. CASE Applied(r)
      BY <1>1, <3>1, UntouchedReady DEF Cosmetic
    <3>2. CASE due
      BY <1>1, <3>2 DEF Cosmetic, Untouched, Reset
    <3> QED
      BY <3>1, <3>2
  <2>2. ASSUME fault' = "none", ~s.expired
        PROVE  (due /\ s.filtering # 0) \/ InOrder(s, sort_key')
    BY <1>1, <2>2 DEF Cosmetic, Untouched, InOrder
  <2> QED
    BY <2>1, <2>2
<1>2. CASE Resorted(r, s, sort_key')
  <2>1. Reset(s) /\ (due \/ Applied(s))
    <3>1. CASE Applied(r)
      BY <1>2, <3>1, UntouchedReady DEF Resorted
    <3>2. CASE due
      BY <1>2, <3>2 DEF Resorted, Untouched, Reset
    <3> QED
      BY <3>1, <3>2
  <2> QED
    BY <1>2, <2>1 DEF Resorted, InOrder
<1>3. CASE Rearranged(r, s, sort_key) /\ UNCHANGED sort_key
  BY <1>3 DEF Rearranged, Ready
<1>4. CASE Fresh(r, s, world', sort_key')
  BY <1>4 DEF Fresh, Ready
<1> QED
  BY <1>1, <1>2, <1>3, <1>4 DEF StepForm

LEMMA DisplayNext == ASSUME DisplayInv, [Next]_vars PROVE DisplayInv'
<1>1. Inv' /\ PanelsStep
  BY NextInv, NextForm DEF DisplayInv
<1>2. ASSUME NEW p \in PanelIds
      PROVE  /\ Due(p)' \/ Applied(fpanel'[p])
             /\ Reset(fpanel'[p])
             /\ fault' = "none" => \/ fpanel'[p].expired
                                   \/ Due(p)' /\ fpanel'[p].filtering # 0
                                   \/ InOrder(fpanel'[p], sort_key')
  <2>. DEFINE r == fpanel[p]
              s == fpanel'[p]
  <2>1. /\ Good(r) /\ Reset(r) /\ (Due(p) \/ Applied(r))
        /\ fault' = "none" => \/ r.expired
                              \/ Due(p) /\ r.filtering # 0
                              \/ InOrder(r, sort_key)
    BY <1>1, PanelsOf DEF DisplayInv, Prepared, PanelsStep, Running
  <2>2. /\ StepForm(r, s) \/ (Due(p)' /\ JustRead(r, s, world', sort_key'))
        /\ Due(p) /\ ~Due(p)' => Finished(r, s, sort_key) /\ UNCHANGED sort_key
    BY <1>1 DEF PanelsStep
  <2>3. Due(p) \in BOOLEAN /\ Due(p)' \in BOOLEAN
    BY DEF Due
  <2>. HIDE DEF r, s
  <2>4. CASE Due(p) /\ ~Due(p)'
    <3>1. Finished(r, s, sort_key) /\ UNCHANGED sort_key
      BY <2>2, <2>4
    <3>2. CASE r.filtering = 0
      <4>1. s = r
        BY <3>1, <3>2 DEF Finished
      <4> QED
        BY <2>1, <3>1, <3>2, <4>1 DEF s, Applied, Filters
    <3>3. CASE r.filtering # 0
      BY <2>1, <3>1, <3>3 DEF s, Finished, Rearranged, Ready
    <3> QED
      BY <3>2, <3>3
  <2>5. CASE StepForm(r, s) /\ ~(Due(p) /\ ~Due(p)')
    <3>1. /\ Due(p) \/ Applied(s)
          /\ Reset(s)
          /\ fault' = "none" => \/ s.expired
                                \/ Due(p) /\ s.filtering # 0
                                \/ InOrder(s, sort_key')
      BY <2>1, <2>3, <2>5, StepPrepares
    <3> QED
      BY <2>5, <3>1 DEF s
  <2>6. CASE Due(p)' /\ JustRead(r, s, world', sort_key')
    BY <2>1, <2>6 DEF s, JustRead, InOrder
  <2> QED
    BY <2>2, <2>4, <2>5, <2>6
<1> QED
  BY <1>1, <1>2 DEF DisplayInv, Prepared, Running, Applied, Filters, Reset,
     InOrder, Entries

(* The panels of the start: nothing is filtered, the primary panel is      *)
(* sorted and agrees with its directory, the other panel has expired.      *)
LEMMA InitReady ==
  ASSUME Init, NEW p \in PanelIds
  PROVE  LET r == fpanel[p]
         IN  /\ r.filtering = 0 /\ r.filter = NoPattern
             /\ r.expired \/ (/\ r.sorted = sort_key
                             /\ Entries(r) = Listing(world, r.dir))
<1>1. PICK d1, d2 \in Dirs :
        fpanel = [q \in PanelIds |->
          IF q = 1 THEN [Rebuilt(NewPanel(d1), world, {}) EXCEPT
                           !.sorted = sort_key, !.expired = FALSE]
                   ELSE NewPanel(d2)]
  BY DEF Init
<1>2. CASE p = 1
  <2>. DEFINE t == Rebuilt(NewPanel(d1), world, {})
              V == Visible(world, d1)
              M == {} \cap V
              C == Cardinality(M)
  <2>0. NewPanel(d1).dir = d1
    BY DEF NewPanel
  <2>1. t = [NewPanel(d1) EXCEPT !.shown = V, !.saved = {}, !.marks = M,
                                 !.selected = C]
    BY <2>0 DEF Rebuilt
  <2>2. fpanel[p] = [t EXCEPT !.sorted = sort_key, !.expired = FALSE]
    BY <1>1, <1>2
  <2>. HIDE DEF t, V, C, M
  <2>3. /\ fpanel[p].filtering = 0 /\ fpanel[p].filter = NoPattern
        /\ fpanel[p].sorted = sort_key /\ fpanel[p].dir = d1
        /\ fpanel[p].shown = V /\ fpanel[p].saved = {}
    BY <2>1, <2>2 DEF NewPanel
  <2>4. world.access[d1] = "ok"
    BY DEF Init
  <2>5. Entries(fpanel[p]) = Listing(world, fpanel[p].dir)
    BY <2>3, <2>4 DEF Entries, Listing, V
  <2> QED
    BY <2>3, <2>5
<1>3. CASE p # 1
  BY <1>1, <1>3 DEF NewPanel
<1> QED
  BY <1>2, <1>3

LEMMA DisplayInit == Init => DisplayInv
<1>. SUFFICES ASSUME Init PROVE DisplayInv
  OBVIOUS
<1>1. ASSUME NEW p \in PanelIds PROVE Prepared(p)
  BY InitReady DEF Prepared, Applied, Filters, Reset, InOrder
<1> QED
  BY <1>1, InitInv DEF DisplayInv

(***************************************************************************)
(* Every action keeps both panels ready.  A filter expression that is not  *)
(* complete is no exception: filter_update() then returns without touching *)
(* a listing that has just been read, but the next edit that completes the *)
(* expression filters and sorts all of it.                                 *)
(***************************************************************************)
THEOREM DisplayInvariant == Spec => []DisplayInv
<1>1. DisplayInv /\ [Next]_vars => DisplayInv'
  BY DisplayNext
<1> QED
  BY <1>1, DisplayInit, PTL DEF Spec

(***************************************************************************)
(* While the filter of the primary panel is on, the panel displays exactly *)
(* the entries that match the expression on the filter line, whatever      *)
(* caused the listing to be rebuilt or the panels to be exchanged, unless  *)
(* the expression is not complete or a command is in progress.             *)
(***************************************************************************)
THEOREM FilterIsApplied == Spec => []FilterApplied
<1>1. DisplayInv => FilterApplied
  BY PanelsOf DEF DisplayInv, Prepared, Due, FilterApplied, Applied, Filters, pf
<1> QED
  BY <1>1, DisplayInvariant, PTL

(***************************************************************************)
(* Every panel that has not expired displays its entries in the current    *)
(* sort order, even after a reread under a filter, which sorts only what   *)
(* filter_update() selects; the sorting is due only under an expression    *)
(* that is not complete, or within a command.                              *)
(***************************************************************************)
THEOREM DisplayIsSorted == Spec => []SortedDisplay
<1>1. DisplayInv => SortedDisplay
  BY DEF DisplayInv, Prepared, Due, SortedDisplay, SortDue, InOrder
<1> QED
  BY <1>1, DisplayInvariant, PTL

(* The inductive form of ListingCurrent. *)
CurrentInv == Inv /\ ListingCurrent

LEMMA CurrentNext == ASSUME CurrentInv, [Next]_vars PROVE CurrentInv'
<1>1. Inv' /\ PanelsStep
  BY NextInv, NextForm DEF CurrentInv
<1>2. ASSUME fault' = "none", NEW p \in PanelIds
      PROVE  \/ fpanel'[p].dir \in External
             \/ fpanel'[p].expired
             \/ Entries(fpanel'[p]) = Listing(world', fpanel'[p].dir)
  <2>. DEFINE r == fpanel[p]
              s == fpanel'[p]
  <2>1. \/ r.dir \in External \/ r.expired
        \/ Entries(r) = Listing(world, r.dir)
    BY <1>1, <1>2 DEF CurrentInv, ListingCurrent, Running, PanelsStep
  <2>2. StepForm(r, s) \/ JustRead(r, s, world', sort_key')
    BY <1>1 DEF PanelsStep
  <2>. HIDE DEF r, s
  <2>3. CASE /\ Cosmetic(r, s)
             /\ \/ s.expired \/ s.dir \in External
                \/ Listing(world', s.dir) = Listing(world, s.dir)
    <3>1. s.dir = r.dir /\ Entries(s) = Entries(r) /\ (r.expired => s.expired)
      BY <2>3 DEF Cosmetic, Untouched, Entries
    <3> QED
      BY <2>1, <2>3, <3>1 DEF s
  <2>4. CASE Resorted(r, s, sort_key') /\ UNCHANGED world
    <3>1. s.dir = r.dir /\ Entries(s) = Entries(r) /\ (r.expired => s.expired)
      BY <2>4 DEF Resorted, Untouched, Entries
    <3> QED
      BY <2>1, <2>4, <3>1 DEF s
  <2>5. CASE Rearranged(r, s, sort_key) /\ UNCHANGED world
    BY <2>1, <2>5 DEF s, Rearranged
  <2>6. CASE Fresh(r, s, world', sort_key') \/ JustRead(r, s, world', sort_key')
    BY <2>6 DEF s, Fresh, JustRead
  <2> QED
    BY <1>2, <2>2, <2>3, <2>4, <2>5, <2>6 DEF StepForm
<1>3. ListingCurrent'
  BY <1>2 DEF ListingCurrent, Running, Entries, Listing, Visible, Hiding
<1> QED
  BY <1>1, <1>3 DEF CurrentInv

(***************************************************************************)
(* In a directory that only CLEX and its commands change, a panel that has *)
(* not expired lists what is there: every command, every change of         *)
(* SHOW_HIDDEN and every move rereads a panel or marks it as expired, also *)
(* when a directory becomes inaccessible (list.c, filepanel.c, exec.c,     *)
(* cfg.c).                                                                 *)
(***************************************************************************)
THEOREM ListingIsCurrent == Spec => []ListingCurrent
<1>1. Init => CurrentInv
  BY InitInv, InitReady DEF CurrentInv, ListingCurrent
<1>2. CurrentInv /\ [Next]_vars => CurrentInv'
  BY CurrentNext
<1>3. CurrentInv => ListingCurrent
  BY DEF CurrentInv
<1> QED
  BY <1>1, <1>2, <1>3, PTL DEF Spec

LEMMA NoMarkMoves ==
  ASSUME Inv, [Next]_vars, NEW p \in PanelIds,
         fpanel'[p].dir # fpanel[p].dir, fpanel[p].filtering = 0
  PROVE  fpanel'[p].marks = {}
<1>1. \/ StepForm(fpanel[p], fpanel'[p])
      \/ JustRead(fpanel[p], fpanel'[p], world', sort_key')
  BY NextForm DEF PanelsStep
<1>2. \/ Fresh(fpanel[p], fpanel'[p], world', sort_key')
      \/ JustRead(fpanel[p], fpanel'[p], world', sort_key')
  BY <1>1 DEF StepForm, Cosmetic, Resorted, Untouched, Rearranged
<1> QED
  BY <1>2 DEF Fresh, JustRead

(***************************************************************************)
(* When a panel whose filter is off moves to another directory, no mark    *)
(* moves with it, whatever the counters say and whichever directories are  *)
(* accessible (changedir(), find_valid_cwd()).                             *)
(***************************************************************************)
THEOREM MarksStay == Spec => MarksStayUnfiltered
<1>1. Inv => ([Next]_vars =>
        \A p \in PanelIds :
          fpanel'[p].dir # fpanel[p].dir /\ fpanel[p].filtering = 0
            => fpanel'[p].marks = {})
  BY NoMarkMoves
<1> QED
  BY <1>1, PanelsInvariant, PTL DEF MarksStayUnfiltered, Spec

-----------------------------------------------------------------------------
(* The comparison of the panels. *)

(* All displayed files are marked, then the matching ones are not. *)
LEMMA ComparedMarks ==
  ASSUME NEW r, Good(r), NEW s, NEW same
  PROVE  LET c == Compared(r, s, same)
         IN  c.marks \cap c.shown = (c.shown \ DotDirs) \ (s.shown \cap same)
<1>. DEFINE S == r.shown \cap s.shown \cap same
            m == Mark(r, r.shown)
            c == Compared(r, s, same)
<1>1. Good(m) /\ m.shown = r.shown
  BY MarkingGood DEF Entries
<1>2. m.marks = r.marks \cup ((r.shown \ DotDirs) \ r.marks)
  BY DEF Mark, Good, Panel
<1>. HIDE DEF m
<1>3. c.marks = m.marks \ S /\ c.shown = r.shown
  <2>1. c = Unmark(m, S)
    BY DEF Compared, m
  <2>. HIDE DEF c
  <2> QED
    BY <1>1, <2>1 DEF Unmark, Good, Panel
<1>. HIDE DEF c
<1>4. r.marks \cap DotDirs = {}
  BY DEF Good, WellFormed
<1>5. c.marks \cap c.shown = (c.shown \ DotDirs) \ (s.shown \cap same)
  BY <1>2, <1>3, <1>4
<1> QED
  BY <1>5 DEF c

(* The counters after it are right if they were right before. *)
LEMMA ComparedCounted ==
  ASSUME NEW r, Good(r), Counted(r), NEW s, NEW same
  PROVE  Counted(Compared(r, s, same))
<1>. DEFINE m == Mark(r, r.shown)
            S == r.shown \cap s.shown \cap same
<1>1. Good(m) /\ m.shown = r.shown
  BY MarkingGood DEF Entries
<1>2. Counted(m)
  BY MarkingCounted
<1>. HIDE DEF m
<1>3. S \in SUBSET m.shown
  BY <1>1
<1>. HIDE DEF S
<1>4. Counted(Unmark(m, S))
  BY <1>1, <1>2, <1>3, MarkingCounted
<1> QED
  BY <1>4 DEF Compared, m, S

LEMMA ComparisonExact == CountInv => ComparisonResult
<1>. SUFFICES ASSUME CountInv PROVE ComparisonResult
  OBVIOUS
<1>1. /\ world \in World /\ sort_key \in SortKeys
      /\ \A p \in PanelIds : Good(fpanel[p]) /\ Exact(fpanel[p])
  BY PanelsGood DEF CountInv, AllExact, TypeOK
<1>2. ASSUME NEW p \in PanelIds, NEW r \in Reread(fpanel[p], world, sort_key)
      PROVE  Good(r) /\ Exact(r)
  <2>1. Good(fpanel[p]) /\ (fpanel[p].filtering = 0 => fpanel[p].filt_sel = 0)
    BY <1>1 DEF Exact
  <2> QED
    BY <1>1, <2>1, RereadGood, RereadExact
<1>3. ASSUME NEW p \in PanelIds, NEW r \in Reread(fpanel[p], world, sort_key),
             NEW s, NEW same
      PROVE  LET c == Compared(r, s, same)
             IN  /\ c.marks \cap c.shown
                      = (c.shown \ DotDirs) \ (s.shown \cap same)
                 /\ ~r.stale => Counted(c)
  <2>1. Good(r) /\ (~r.stale => Counted(r))
    BY <1>2 DEF Exact
  <2> QED
    BY <2>1, ComparedCounted, ComparedMarks
<1> QED
  BY <1>3 DEF ComparisonResult

(***************************************************************************)
(* A comparison of the panels, started in any state, leaves exactly those  *)
(* displayed files marked of which the other panel displays no equal       *)
(* counterpart, and the counters agree with the marks unless the filter    *)
(* update was not able to count (compare_panels()).                        *)
(***************************************************************************)
THEOREM ComparisonCorrect == Spec => []ComparisonResult
<1> QED
  BY ComparisonExact, CountersInvariant, PTL
=============================================================================
