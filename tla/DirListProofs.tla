---------------------------- MODULE DirListProofs -----------------------------
(***************************************************************************)
(* Theorems about the list of visited directories, for any directories,    *)
(* listings, sizes of the list and of the panel.                           *)
(***************************************************************************)
EXTENDS DirList, FiniteSetTheorems, WellFoundedInduction, TLAPS

-----------------------------------------------------------------------------
(* Numbers: induction and recursion in the form that the provers can use *)

(* The least of a set of natural numbers *)
LEMMA LeastNatural ==
  ASSUME NEW T, T \subseteq Nat, T # {}
  PROVE  \E x \in T : \A y \in T : x <= y
  <1>1. IsWellFoundedOn(OpToRel(<, Nat), Nat)
    BY NatLessThanWellFounded
  <1>2. \E x \in T : \A y \in T : ~(<<y, x>> \in OpToRel(<, Nat))
    BY <1>1, WFMin
  <1>3. \E x \in T : \A y \in T : ~(y < x)
    BY <1>2 DEF OpToRel
  <1> QED BY <1>3

(* Induction, stated for a set instead of a predicate *)
LEMMA NatSetInduction ==
  ASSUME NEW T, 0 \in T, \A n \in Nat : n \in T => n + 1 \in T
  PROVE  \A n \in Nat : n \in T
  <1> DEFINE B == {n \in Nat : n \notin T}
  <1>1. SUFFICES ASSUME B # {} PROVE FALSE
    OBVIOUS
  <1>2. PICK x \in B : \A y \in B : x <= y
    BY <1>1, LeastNatural
  <1>3. x - 1 \in Nat /\ x - 1 \notin B
    BY <1>2
  <1> QED BY <1>2, <1>3

(* g starts with a, and F leads from each value to the next. *)
Iterates(g, a, F) == g[0] = a /\ \A n \in Nat : g[n + 1] = F[n][g[n]]

(* A value and a step for every number define a function. *)
LEMMA Recursion ==
  ASSUME NEW S, NEW a \in S, NEW F \in [Nat -> [S -> S]]
  PROVE  \E g \in [Nat -> S] : Iterates(g, a, F)
  <1> DEFINE Approx(n) == {g \in [0 .. n -> S] :
                             /\ g[0] = a
                             /\ \A i \in Nat : i < n => g[i + 1] = F[i][g[i]]}
  <1>1. \A n \in Nat : Approx(n) # {}
    <2> DEFINE T == {n \in Nat : Approx(n) # {}}
    <2>1. 0 \in T
      <3>1. [i \in 0 .. 0 |-> a] \in Approx(0)
        OBVIOUS
      <3> QED BY <3>1
    <2>2. ASSUME NEW n \in Nat, n \in T PROVE n + 1 \in T
      <3>1. PICK g : g \in Approx(n)
        BY <2>2
      <3> DEFINE k == [i \in 0 .. n + 1 |-> IF i <= n THEN g[i] ELSE F[n][g[n]]]
      <3>2. k \in [0 .. n + 1 -> S]
        BY <3>1
      <3>3. k[0] = a
        BY <3>1
      <3>4. ASSUME NEW i \in Nat, i < n + 1 PROVE k[i + 1] = F[i][k[i]]
        <4>1. CASE i < n
          BY <3>1, <4>1
        <4>2. CASE i = n
          BY <4>2
        <4> QED BY <3>4, <4>1, <4>2
      <3> HIDE DEF k
      <3>5. k \in Approx(n + 1)
        BY <3>2, <3>3, <3>4
      <3> HIDE DEF Approx
      <3>6. Approx(n + 1) # {} /\ n + 1 \in Nat
        BY <3>5
      <3> QED BY <3>6
    <2> HIDE DEF T
    <2>3. \A n \in Nat : n \in T
      BY <2>1, <2>2, NatSetInduction
    <2> QED BY <2>3 DEF T
  <1>2. ASSUME NEW n \in Nat, NEW m \in Nat, NEW g \in Approx(n), NEW k \in Approx(m)
        PROVE  \A i \in Nat : i <= n /\ i <= m => g[i] = k[i]
    <2> DEFINE T == {i \in Nat : i <= n /\ i <= m => g[i] = k[i]}
    <2>1. 0 \in T
      OBVIOUS
    <2>2. \A i \in Nat : i \in T => i + 1 \in T
      OBVIOUS
    <2> HIDE DEF T
    <2>3. \A i \in Nat : i \in T
      BY <2>1, <2>2, NatSetInduction
    <2> QED BY <2>3 DEF T
  <1> DEFINE the(n) == CHOOSE g : g \in Approx(n)
             G == [n \in Nat |-> the(n)[n]]
  <1>3. \A n \in Nat : the(n) \in Approx(n)
    BY <1>1
  <1> HIDE DEF the
  <1>4. G \in [Nat -> S] /\ G[0] = a
    BY <1>3
  <1>5. ASSUME NEW n \in Nat PROVE G[n + 1] = F[n][G[n]]
    <2>1. the(n + 1) \in Approx(n + 1) /\ the(n) \in Approx(n) /\ n + 1 \in Nat
      BY <1>3
    <2>2. the(n + 1)[n + 1] = F[n][the(n + 1)[n]]
      BY <2>1
    <2>3. the(n + 1)[n] = the(n)[n]
      <3> HIDE DEF Approx
      <3>1. n <= n + 1 /\ n <= n
        OBVIOUS
      <3> QED BY <1>2, <2>1, <3>1
    <2> QED BY <2>1, <2>2, <2>3
  <1> QED BY <1>4, <1>5 DEF Iterates

-----------------------------------------------------------------------------
(* Least and greatest numbers *)

LEMMA MinIn ==
  ASSUME NEW T, T \subseteq Nat, T # {}
  PROVE  Min(T) \in T /\ \A j \in T : Min(T) <= j
BY LeastNatural DEF Min

LEMMA MaxIn ==
  ASSUME NEW n \in Nat, NEW T, T \subseteq 0 .. n, T # {}
  PROVE  Max(T) \in T /\ \A j \in T : Max(T) >= j
<1>. DEFINE U == {n - i : i \in T}
<1>1. U \subseteq Nat /\ U # {}
  OBVIOUS
<1>2. PICK x \in U : \A y \in U : x <= y
  BY <1>1, LeastNatural
<1>3. PICK i \in T : x = n - i
  OBVIOUS
<1>4. ASSUME NEW j \in T PROVE i >= j
  <2>1. n - j \in U
    OBVIOUS
  <2>2. n - i <= n - j
    BY <1>2, <1>3, <2>1
  <2> QED
    BY <2>2
<1>5. \E k \in T : \A j \in T : k >= j
  BY <1>4
<1> QED
  BY <1>5 DEF Max

LEMMA Concatenation ==
  ASSUME NEW S, NEW s \in Seq(S), NEW t \in Seq(S)
  PROVE  /\ s \o t \in Seq(S) /\ Len(s \o t) = Len(s) + Len(t)
         /\ \A i \in 1 .. Len(s) : (s \o t)[i] = s[i]
         /\ \A i \in 1 .. Len(t) : (s \o t)[Len(s) + i] = t[i]
OBVIOUS

-----------------------------------------------------------------------------
(* The list and the panels *)

Entry == [dirname : Dirs, savefile : Names]

(* No directory is twice in the list, and a saved file is one of the
   directory. *)
ListOK(dl) ==
  /\ dl \in Seq(Entry) /\ Len(dl) \in 1 .. SaveMax
  /\ \A i, j \in DOMAIN dl : dl[i].dirname = dl[j].dirname => i = j
  /\ \A i \in DOMAIN dl : dl[i].savefile \in Lists[dl[i].dirname]

PanelRecord == [dir : Dirs, list : SUBSET Names, file : Names \cup {NoFile},
                expired : BOOLEAN]

(* A panel whose position can be saved, in the middle of an action too *)
Savable(r) == r \in PanelRecord /\ (r.list # {} => r.file \in Lists[r.dir])

PanelOK(r) ==
  /\ r \in PanelRecord
  /\ r.list \in {{}, Lists[r.dir]}
  /\ r.file \in IF r.list = {} THEN {NoFile} ELSE r.list

(* The listings hold files, and ".." is one of them. *)
LEMMA ListsAre ==
  \A d \in Dirs : Up \in Lists[d] /\ Lists[d] \subseteq Names /\ NoFile \notin Lists[d]
BY DirsAssumption DEF Names

LEMMA RankForm ==
  ASSUME NEW dl, ListOK(dl), NEW d
  PROVE  LET k == Rank(dl, d)
         IN  /\ k \in 1 .. SaveMax /\ k <= Len(dl) + 1
             /\ \A i \in 1 .. Len(dl) : dl[i].dirname = d => i = k
             /\ k <= Len(dl) /\ dl[k].dirname # d => k = Len(dl) /\ k = SaveMax
<1>. DEFINE T == {i \in DOMAIN dl : dl[i].dirname = d}
            k == Rank(dl, d)
<1>1. /\ Len(dl) \in 1 .. SaveMax /\ SaveMax \in Nat \ {0, 1}
      /\ DOMAIN dl = 1 .. Len(dl)
  BY SizesAssumption DEF ListOK
<1>2. T \subseteq 1 .. Len(dl) /\ \A i \in 1 .. Len(dl) : i \in T <=> dl[i].dirname = d
  BY <1>1
<1>3. \A i, j \in T : i = j
  BY DEF ListOK
<1>4. k = Min(T \cup {Len(dl) + 1, SaveMax})
  BY DEF Rank
<1>. HIDE DEF T
<1>5. k \in T \cup {Len(dl) + 1, SaveMax} /\ \A j \in T \cup {Len(dl) + 1, SaveMax} : k <= j
  <2>0. T \subseteq Nat /\ Len(dl) + 1 \in Nat /\ SaveMax \in Nat
    BY <1>1, <1>2
  <2>1. T \cup {Len(dl) + 1, SaveMax} \subseteq Nat
    BY <2>0
  <2> QED
    BY <1>4, <2>1, MinIn
<1>. HIDE DEF k
<1>6. k \in 1 .. SaveMax /\ k <= Len(dl) + 1
  BY <1>1, <1>2, <1>5
<1>7. \A i \in T : i = k
  <2>1. ASSUME NEW i \in T PROVE i = k
    <3>1. k <= i /\ i <= Len(dl) /\ i \in Nat
      BY <1>1, <1>2, <1>5
    <3>2. k \in T \/ k = Len(dl) + 1 \/ k = SaveMax
      BY <1>5
    <3>3. CASE k \in T
      BY <1>3, <3>3
    <3>4. CASE k = Len(dl) + 1 \/ k = SaveMax
      BY <1>1, <3>1, <3>4
    <3> QED
      BY <3>2, <3>3, <3>4
  <2> QED
    BY <2>1
<1>8. k <= Len(dl) /\ k \notin T => k = Len(dl) /\ k = SaveMax
  <2>1. k \notin T => k = Len(dl) + 1 \/ k = SaveMax
    BY <1>5
  <2>. DEFINE n == Len(dl)
  <2>2. n \in Nat /\ n <= SaveMax /\ SaveMax \in Nat /\ k \in Nat
    BY <1>1, <1>6
  <2>. HIDE DEF n
  <2>3. ASSUME k <= n, k = n + 1 \/ k = SaveMax
        PROVE  k = n /\ k = SaveMax
    BY <2>2, <2>3
  <2> QED
    BY <2>1, <2>3 DEF n
<1>9. k <= Len(dl) => k \in 1 .. Len(dl)
  BY <1>1, <1>6
<1> QED
  BY <1>2, <1>6, <1>7, <1>8, <1>9 DEF k

(* Which position is saved *)
LEMMA SavedForm ==
  ASSUME NEW dl, ListOK(dl), NEW r, Savable(r)
  PROVE  /\ Saved(dl, r) \in Lists[r.dir]
         /\ r.list # {} => Saved(dl, r) = r.file
         /\ r.list = {} => \A i \in DOMAIN dl :
              dl[i].dirname = r.dir => Saved(dl, r) = dl[i].savefile
<1>. DEFINE T == {i \in DOMAIN dl : dl[i].dirname = r.dir}
<1>1. CASE r.list # {}
  BY <1>1 DEF Saved, Savable
<1>2. CASE r.list = {} /\ T = {}
  BY <1>2, ListsAre DEF Saved, Savable, PanelRecord
<1>3. CASE r.list = {} /\ T # {}
  <2>1. Saved(dl, r) = dl[Min(T)].savefile
    BY <1>3 DEF Saved
  <2>2. T \subseteq Nat
    BY DEF ListOK
  <2>3. Min(T) \in T
    BY <1>3, <2>2, MinIn
  <2>4. \A i \in T : i = Min(T)
    BY <2>3 DEF ListOK
  <2>5. dl[Min(T)].savefile \in Lists[r.dir]
    BY <2>3 DEF ListOK
  <2> QED
    BY <1>3, <2>1, <2>4, <2>5
<1> QED
  BY <1>1, <1>2, <1>3

(* The list after filepos_save(), entry by entry *)
LEMMA SaveForm ==
  ASSUME NEW dl, ListOK(dl), NEW r, Savable(r)
  PROVE  LET new == filepos_save(dl, r)
             k == Rank(dl, r.dir)
         IN  /\ new \in Seq(Entry)
             /\ Len(new) = IF k <= Len(dl) THEN Len(dl) ELSE Len(dl) + 1
             /\ new[1] = Save(r.dir, Saved(dl, r))
             /\ \A i \in 1 .. Len(dl) : /\ i < k => new[i + 1] = dl[i]
                                        /\ i > k => new[i] = dl[i]
<1>. DEFINE new == filepos_save(dl, r)
            k == Rank(dl, r.dir)
            e == Save(r.dir, Saved(dl, r))
            a == SubSeq(dl, 1, k - 1)
            b == SubSeq(dl, k + 1, Len(dl))
<1>1. dl \in Seq(Entry) /\ k \in Nat \ {0} /\ k <= Len(dl) + 1 /\ Len(dl) \in Nat
  <2>1. dl \in Seq(Entry) /\ Len(dl) \in Nat
    BY DEF ListOK
  <2>2. k \in 1 .. SaveMax /\ k <= Len(dl) + 1 /\ SaveMax \in Nat
    BY RankForm, SizesAssumption
  <2> QED
    BY <2>1, <2>2
<1>2. e \in Entry
  <2>1. Saved(dl, r) \in Names /\ r.dir \in Dirs
    BY SavedForm, ListsAre DEF Savable, PanelRecord
  <2> QED
    BY <2>1 DEF Entry, Save
<1>3. new = (<<e>> \o a) \o b
  BY DEF filepos_save
<1>. HIDE DEF new, k, e
<1>4. /\ a \in Seq(Entry) /\ Len(a) = k - 1 /\ \A i \in 1 .. k - 1 : a[i] = dl[i]
  BY <1>1
<1>5. b \in Seq(Entry)
  BY <1>1
<1>6. /\ Len(b) = IF k <= Len(dl) THEN Len(dl) - k ELSE 0
      /\ \A i \in 1 .. Len(b) : b[i] = dl[k + i]
  BY <1>1
<1>. HIDE DEF a, b
<1>7. /\ <<e>> \o a \in Seq(Entry) /\ Len(<<e>> \o a) = k
      /\ (<<e>> \o a)[1] = e
      /\ \A i \in 1 .. k - 1 : (<<e>> \o a)[i + 1] = dl[i]
  BY <1>1, <1>2, <1>4
<1>. DEFINE c == <<e>> \o a
<1>. HIDE DEF c
<1>8. /\ c \in Seq(Entry) /\ Len(c) = k /\ c[1] = e
      /\ \A i \in 1 .. k - 1 : c[i + 1] = dl[i]
  BY <1>7 DEF c
<1>9. /\ new \in Seq(Entry) /\ Len(new) = k + Len(b)
      /\ \A i \in 1 .. k : new[i] = c[i]
      /\ \A i \in 1 .. Len(b) : new[k + i] = b[i]
  <2>1. new = c \o b
    BY <1>3 DEF c
  <2>2. /\ c \o b \in Seq(Entry) /\ Len(c \o b) = Len(c) + Len(b)
        /\ \A i \in 1 .. Len(c) : (c \o b)[i] = c[i]
        /\ \A i \in 1 .. Len(b) : (c \o b)[Len(c) + i] = b[i]
    <3>1. c \in Seq(Entry) /\ b \in Seq(Entry)
      BY <1>5, <1>8
    <3> QED
      BY ONLY <3>1, Concatenation
  <2> QED
    BY <1>8, <2>1, <2>2
<1>10. Len(new) = IF k <= Len(dl) THEN Len(dl) ELSE Len(dl) + 1
  BY <1>1, <1>6, <1>9
<1>11. new[1] = e
  BY <1>1, <1>8, <1>9
<1>12. ASSUME NEW i \in 1 .. Len(dl), i < k PROVE new[i + 1] = dl[i]
  <2>1. i \in 1 .. k - 1 /\ i + 1 \in 1 .. k
    BY <1>1, <1>12
  <2> QED
    BY <1>8, <1>9, <2>1
<1>13. ASSUME NEW i \in 1 .. Len(dl), i > k PROVE new[i] = dl[i]
  <2>1. i - k \in 1 .. Len(b) /\ k + (i - k) = i
    BY <1>1, <1>6, <1>13
  <2> QED
    BY <1>6, <1>9, <2>1
<1> QED
  BY <1>9, <1>10, <1>11, <1>12, <1>13 DEF new, k, e

(***************************************************************************)
(* Forgets(a, b, T): from a to b, the entries of the directories that are  *)
(* not in T stay as they are and keep their order; the last ones may be    *)
(* gone, if b is full.                                                     *)
(***************************************************************************)
Forgets(a, b, T) ==
  /\ \A x \in ToSet(b) : x.dirname \notin T => x \in ToSet(a)
  /\ \A x, y \in ToSet(a) :
       x.dirname \notin T /\ y.dirname \notin T /\ y \in ToSet(b) /\ Ahead(a, x, y)
         => Ahead(b, x, y)
  /\ \A x \in ToSet(a) : x.dirname \notin T /\ x \notin ToSet(b) => Len(b) = SaveMax
  /\ Len(a) <= Len(b)

(* filepos_save(), seen from outside *)
LEMMA SaveEntries ==
  ASSUME NEW dl, ListOK(dl), NEW r, Savable(r)
  PROVE  LET new == filepos_save(dl, r)
         IN  /\ ListOK(new)
             /\ Save(r.dir, Saved(dl, r)) \in ToSet(new)
             /\ \A x \in ToSet(new) :
                  x.dirname = r.dir => x = Save(r.dir, Saved(dl, r))
             /\ r.dir \in DirNames(dl) =>
                  \A x \in ToSet(dl) : x.dirname # r.dir => x \in ToSet(new)
             /\ \A x \in ToSet(dl) : x.dirname # r.dir /\ x \notin ToSet(new) =>
                  Len(dl) = SaveMax /\ x = dl[SaveMax]
             /\ Forgets(dl, new, {r.dir})
<1>. DEFINE new == filepos_save(dl, r)
            k == Rank(dl, r.dir)
            e == Save(r.dir, Saved(dl, r))
            n == Len(dl)
            m == Len(new)
<1>1. /\ n \in Nat /\ n \in 1 .. SaveMax /\ SaveMax \in Nat \ {0, 1}
      /\ DOMAIN dl = 1 .. n /\ dl \in Seq(Entry)
  BY SizesAssumption DEF ListOK
<1>2. /\ k \in 1 .. SaveMax /\ k <= n + 1
      /\ \A i \in 1 .. n : dl[i].dirname = r.dir => i = k
      /\ k <= n /\ dl[k].dirname # r.dir => k = n /\ k = SaveMax
  BY RankForm
<1>3. /\ new \in Seq(Entry)
      /\ m = IF k <= n THEN n ELSE n + 1
      /\ new[1] = e
      /\ \A i \in 1 .. n : /\ i < k => new[i + 1] = dl[i]
                           /\ i > k => new[i] = dl[i]
  BY SaveForm
<1>4. e.dirname = r.dir /\ e.savefile \in Lists[r.dir]
  BY SavedForm DEF Save
<1>5. DOMAIN new = 1 .. m /\ m \in Nat
  BY <1>3
<1>. HIDE DEF new, k, e, n, m
<1>6. /\ m \in 1 .. SaveMax /\ n <= m /\ 1 \in 1 .. m
  BY <1>1, <1>2, <1>3
(* Where the entries of the new list come from and where the old ones go *)
<1>7. \A j \in 2 .. m : \/ j <= k /\ j - 1 \in 1 .. n /\ new[j] = dl[j - 1]
                        \/ j > k /\ j \in 1 .. n /\ new[j] = dl[j]
  <2>1. ASSUME NEW j \in 2 .. m
        PROVE  \/ j <= k /\ j - 1 \in 1 .. n /\ new[j] = dl[j - 1]
               \/ j > k /\ j \in 1 .. n /\ new[j] = dl[j]
    <3>1. CASE j <= k
      <4>1. j - 1 \in 1 .. n /\ j - 1 < k /\ (j - 1) + 1 = j
        BY <1>1, <1>2, <1>3, <3>1
      <4> QED
        BY <1>3, <3>1, <4>1
    <3>2. CASE j > k
      <4>1. j \in 1 .. n
        BY <1>1, <1>2, <1>3, <3>2
      <4> QED
        BY <1>3, <3>2, <4>1
    <3> QED
      BY <1>2, <3>1, <3>2
  <2> QED
    BY <2>1
<1>8. \A i \in 1 .. n : /\ i < k => i + 1 \in 2 .. m /\ new[i + 1] = dl[i]
                        /\ i > k => i \in 2 .. m /\ new[i] = dl[i]
  BY <1>1, <1>2, <1>3
<1>9. \A j \in 2 .. m : new[j].dirname # r.dir
  BY <1>1, <1>2, <1>7
<1>10. \A i, j \in 1 .. m : new[i].dirname = new[j].dirname => i = j
  <2>1. ASSUME NEW i \in 1 .. m, NEW j \in 1 .. m, new[i].dirname = new[j].dirname
        PROVE  i = j
    <3>1. CASE i = 1 \/ j = 1
      <4>1. i = 1 \/ i \in 2 .. m
        BY <1>5
      <4>2. j = 1 \/ j \in 2 .. m
        BY <1>5
      <4> QED
        BY <1>3, <1>4, <1>9, <2>1, <3>1, <4>1, <4>2
    <3>2. CASE i \in 2 .. m /\ j \in 2 .. m
      <4>1. PICK p \in 1 .. n : 
              new[i] = dl[p] /\ ((p = i - 1 /\ i <= k) \/ (p = i /\ i > k))
        BY <1>7, <3>2
      <4>2. PICK q \in 1 .. n : 
              new[j] = dl[q] /\ ((q = j - 1 /\ j <= k) \/ (q = j /\ j > k))
        BY <1>7, <3>2
      <4>3. p = q
        BY <1>1, <2>1, <4>1, <4>2 DEF ListOK
      <4> QED
        BY <1>2, <4>1, <4>2, <4>3
    <3> QED
      BY <1>5, <3>1, <3>2
  <2> QED
    BY <2>1
<1>11. \A j \in 1 .. m : new[j].savefile \in Lists[new[j].dirname]
  <2>1. ASSUME NEW j \in 1 .. m PROVE new[j].savefile \in Lists[new[j].dirname]
    <3>1. j = 1 \/ j \in 2 .. m
      BY <1>5
    <3>2. CASE j \in 2 .. m
      BY <1>1, <1>7, <3>2 DEF ListOK
    <3> QED
      BY <1>3, <1>4, <3>1, <3>2
  <2> QED
    BY <2>1
<1>12. ListOK(new)
  BY <1>3, <1>5, <1>6, <1>10, <1>11 DEF ListOK, m
<1>13. e \in ToSet(new)
  BY <1>3, <1>5, <1>6 DEF ToSet
<1>14. \A x \in ToSet(new) : x.dirname = r.dir => x = e
  <2>1. \A j \in 1 .. m : j = 1 \/ j \in 2 .. m
    BY <1>5
  <2> QED
    BY <1>3, <1>5, <1>9, <2>1 DEF ToSet
<1>15. \A x \in ToSet(new) : x.dirname # r.dir => x \in ToSet(dl)
  <2>1. ASSUME NEW j \in 1 .. m, new[j].dirname # r.dir PROVE new[j] \in ToSet(dl)
    <3>1. j \in 2 .. m
      BY <1>3, <1>4, <1>5, <2>1
    <3>2. \E i \in 1 .. n : new[j] = dl[i]
      BY <1>7, <3>1
    <3> QED
      BY <1>1, <3>2 DEF ToSet
  <2> QED
    BY <1>5, <2>1 DEF ToSet
<1>16. ASSUME NEW x \in ToSet(dl), x.dirname # r.dir, x \notin ToSet(new)
       PROVE  /\ m = SaveMax /\ k <= n /\ dl[k].dirname # r.dir
              /\ n = SaveMax /\ x = dl[SaveMax]
  <2>1. PICK i \in 1 .. n : x = dl[i]
    BY <1>1 DEF ToSet
  <2>2. ~(i < k) /\ ~(i > k)
    BY <1>5, <1>6, <1>8, <1>16, <2>1 DEF ToSet
  <2>3. i = k
    BY <1>2, <2>2
  <2> QED
    BY <1>1, <1>2, <1>3, <1>16, <2>1, <2>3
<1>17. ASSUME r.dir \in DirNames(dl), NEW x \in ToSet(dl), x.dirname # r.dir
       PROVE  x \in ToSet(new)
  <2>1. PICK i \in 1 .. n : dl[i].dirname = r.dir
    BY <1>1, <1>17 DEF DirNames
  <2> QED
    BY <1>2, <1>16, <1>17, <2>1
<1>18. ASSUME NEW x \in ToSet(dl), NEW y \in ToSet(dl), x.dirname # r.dir,
              y.dirname # r.dir, y \in ToSet(new), Ahead(dl, x, y)
       PROVE  Ahead(new, x, y)
  <2>1. PICK i \in 1 .. n, j \in 1 .. n : i < j /\ dl[i] = x /\ dl[j] = y
    BY <1>1, <1>18 DEF Ahead
  <2>2. i # k
    <3>1. SUFFICES ASSUME i = k PROVE FALSE
      OBVIOUS
    <3>2. k = n
      BY <1>2, <1>18, <2>1, <3>1
    <3> QED
      BY <2>1, <3>1, <3>2
  <2>3. j # k
    <3>1. SUFFICES ASSUME j = k PROVE FALSE
      OBVIOUS
    (* y has been dropped, but it is in the new list: then it is there from
       another place of the old one. *)
    <3>2. PICK l \in 1 .. m : new[l] = y
      BY <1>5, <1>18 DEF ToSet
    <3>3. l \in 2 .. m
      BY <1>3, <1>4, <1>5, <1>18, <3>2
    <3>4. PICK p \in 1 .. n : new[l] = dl[p] /\ p # k
      BY <1>2, <1>7, <3>3
    <3>5. p = j
      BY <1>1, <2>1, <3>2, <3>4 DEF ListOK
    <3> QED
      BY <3>1, <3>4, <3>5
  <2>. DEFINE i1 == IF i < k THEN i + 1 ELSE i
              j1 == IF j < k THEN j + 1 ELSE j
  <2>4. i1 \in 1 .. m /\ j1 \in 1 .. m /\ i1 < j1
    BY <1>2, <1>5, <1>8, <2>1, <2>2, <2>3
  <2>5. new[i1] = x /\ new[j1] = y
    BY <1>2, <1>8, <2>1, <2>2, <2>3
  <2> QED
    BY <1>5, <2>4, <2>5 DEF Ahead
<1>19. Forgets(dl, new, {r.dir})
  BY <1>6, <1>15, <1>16, <1>18 DEF Forgets, m, n
<1> QED
  BY <1>12, <1>13, <1>14, <1>16, <1>17, <1>19 DEF new, e, n

-----------------------------------------------------------------------------
(* Panels that are moved and read *)

LEMMA PanelSavable == \A r : PanelOK(r) => Savable(r)
BY DEF PanelOK, Savable

LEMMA MovedSavable ==
  ASSUME NEW r, PanelOK(r), NEW d \in Dirs
  PROVE  /\ Savable(Moved(r, d)) /\ Moved(r, d).dir = d
         /\ d = r.dir => Moved(r, d) = r
         /\ d # r.dir => Moved(r, d).list = {}
<1>1. CASE d = r.dir
  BY <1>1, PanelSavable DEF Moved
<1>2. CASE d # r.dir
  <2>1. Moved(r, d) = [r EXCEPT !.dir = d, !.list = {}]
    BY <1>2 DEF Moved
  <2> QED
    BY <1>2, <2>1 DEF PanelOK, PanelRecord, Savable
<1> QED
  BY <1>1, <1>2

(* A panel that has been read: the cursor is where it was saved. *)
LEMMA ReadForm ==
  ASSUME NEW dl, ListOK(dl), NEW r, Savable(r), NEW f,
         Save(r.dir, f) \in ToSet(dl), NEW s \in Read(dl, r)
  PROVE  /\ PanelOK(s) /\ s.dir = r.dir
         /\ s.list # {} => s.file = f
<1>. DEFINE t == [r EXCEPT !.list = Listing(r.dir), !.expired = FALSE]
<1>1. r \in PanelRecord /\ r.dir \in Dirs
  BY DEF Savable, PanelRecord
<1>2. Listing(r.dir) \in {{}, Lists[r.dir]} /\ Lists[r.dir] \subseteq Names
        /\ NoFile \notin Lists[r.dir]
  BY <1>1, ListsAre DEF Listing
<1>3. /\ t \in PanelRecord /\ t.dir = r.dir /\ t.list = Listing(r.dir)
  BY <1>1, <1>2 DEF PanelRecord
<1>4. PICK g \in filepos_set(dl, t) : s = [t EXCEPT !.file = g]
  BY DEF Read
<1>. HIDE DEF t
<1>5. PICK k \in DOMAIN dl : dl[k] = Save(r.dir, f)
  BY DEF ToSet
<1>6. f \in Lists[r.dir] /\ \A i \in DOMAIN dl : dl[i].dirname = r.dir => i = k
  BY <1>5 DEF ListOK, Save
<1>7. CASE t.list = {}
  <2>1. g = NoFile
    BY <1>4, <1>7 DEF filepos_set
  <2> QED
    BY <1>3, <1>4, <1>7, <2>1 DEF PanelOK, PanelRecord
<1>8. CASE t.list # {}
  <2>. DEFINE file == CHOOSE x \in Names : \E i \in DOMAIN dl : dl[i] = Save(t.dir, x)
  <2>1. t.list = Lists[r.dir]
    BY <1>2, <1>3, <1>8
  <2>2. t.dir \in DirNames(dl)
    BY <1>3, <1>5 DEF DirNames, Save
  <2>3. file = f
    <3>1. f \in Names /\ \E i \in DOMAIN dl : dl[i] = Save(t.dir, f)
      BY <1>2, <1>3, <1>5, <1>6
    <3>2. file \in Names /\ \E i \in DOMAIN dl : dl[i] = Save(t.dir, file)
      BY <3>1
    <3>. HIDE DEF file
    <3>3. PICK i \in DOMAIN dl : dl[i] = Save(t.dir, file)
      BY <3>2
    <3>4. i = k
      BY <1>3, <1>6, <3>3 DEF Save
    <3> QED
      BY <1>5, <3>3, <3>4 DEF Save
  <2>4. g = f
    <3>1. filepos_set(dl, t) = IF file \in t.list THEN {file} ELSE t.list
      BY <1>8, <2>2 DEF filepos_set
    <3>. HIDE DEF file
    <3> QED
      BY <1>4, <1>6, <2>1, <2>3, <3>1
  <2>. HIDE DEF file
  <2> QED
    BY <1>2, <1>3, <1>4, <1>6, <2>1, <2>4 DEF PanelOK, PanelRecord
<1> QED
  BY <1>7, <1>8

LEMMA ReadSaved ==
  ASSUME NEW dl, ListOK(dl), NEW r, Savable(r), NEW s \in Read(filepos_save(dl, r), r)
  PROVE  PanelOK(s) /\ s.dir = r.dir /\ (s.list # {} => s.file = Saved(dl, r))
<1>1. ListOK(filepos_save(dl, r)) /\ Save(r.dir, Saved(dl, r)) \in ToSet(filepos_save(dl, r))
  BY SaveEntries
<1> QED
  BY <1>1, ReadForm

-----------------------------------------------------------------------------
(* Directories above a directory *)

LEMMA ParentIn == \A d \in Dirs : Parent(d) \in Dirs
<1>1. \A d \in Dirs \ {Root} : Parent(d) \in Dirs
  BY DirsAssumption
<1>2. Parent(Root) = Root
  <2>. DEFINE T == {i \in 1 .. Len(Root) : Root[i] = Slash}
  <2>1. Len(Root) = 1 /\ Root[1] = Slash
    BY DEF Root
  <2>2. T = {1}
    BY <2>1
  <2>. HIDE DEF T
  <2>3. Max(T) = 1
    <3>1. T \subseteq 0 .. 1 /\ T # {}
      BY <2>2
    <3> QED
      BY <2>2, <3>1, MaxIn
  <2> QED
    BY <2>3 DEF Parent, T
<1> QED
  BY <1>1, <1>2, DirsAssumption

(* find_valid_cwd() finds a directory. *)
LEMMA NearestIn ==
  ASSUME NEW d \in Dirs, access[d] = "gone", access[Root] = "ok"
  PROVE  NearestAccessible(d) \in Dirs
<1>1. Root \in Dirs /\ d # Root /\ \A e \in Dirs : Len(e) \in Nat
  BY DirsAssumption
<1>. DEFINE T == {Len(e) : e \in {x \in Above(d) : access[x] # "gone"}}
<1>2. Root \in Above(d) /\ access[Root] # "gone"
  BY <1>1 DEF Above
<1>3. \A e \in Above(d) : e \in Dirs /\ Len(e) <= Len(d) + 1
  <2>1. ASSUME NEW e \in Above(d) PROVE e \in Dirs /\ Len(e) <= Len(d) + 1
    <3>1. e \in Dirs /\ (e = Root \/ IsPrefix(e \o <<Slash>>, d))
      BY DEF Above
    <3>2. CASE e = Root
      BY <1>1, <3>1, <3>2 DEF Root
    <3>3. CASE IsPrefix(e \o <<Slash>>, d)
      <4>1. Len(e \o <<Slash>>) <= Len(d)
        BY <3>3 DEF IsPrefix
      <4>2. Len(e \o <<Slash>>) = Len(e) + 1
        <5>1. e \in Seq(Nat) /\ <<Slash>> \in Seq(Nat) /\ Len(<<Slash>>) = 1
          BY <3>1, DirsAssumption
        <5> QED
          BY ONLY <5>1, Concatenation
      <4> QED
        BY <1>1, <3>1, <4>1, <4>2
    <3> QED
      BY <3>1, <3>2, <3>3
  <2> QED
    BY <2>1
<1>4. T \subseteq 0 .. (Len(d) + 1) /\ T # {} /\ Len(d) + 1 \in Nat
  <2>1. Len(d) \in Nat
    BY <1>1
  <2>2. \A e \in Above(d) : Len(e) \in Nat /\ Len(e) <= Len(d) + 1
    BY <1>1, <1>3
  <2>3. \A e \in Above(d) : Len(e) \in 0 .. (Len(d) + 1)
    BY <2>1, <2>2
  <2>4. T # {}
    BY <1>2
  <2> QED
    BY <2>1, <2>3, <2>4
<1>5. Max(T) \in T /\ \A j \in T : Max(T) >= j
  BY <1>4, MaxIn
<1>6. PICK e \in Above(d) : access[e] # "gone" /\ Max(T) = Len(e)
  BY <1>5
<1>7. \A x \in Above(d) : access[x] # "gone" => Len(x) <= Len(e)
  <2>1. \A x \in Above(d) : access[x] # "gone" => Len(x) \in T
    OBVIOUS
  <2>2. \A j \in T : j <= Len(e)
    BY <1>1, <1>3, <1>4, <1>5, <1>6
  <2> QED
    BY <2>1, <2>2
<1>. HIDE DEF T
<1>8. NearestAccessible(d) \in Above(d)
  BY <1>6, <1>7 DEF NearestAccessible
<1> QED
  BY <1>3, <1>8
-----------------------------------------------------------------------------
(* The names in the directory panel *)

(* In new, d stands at the place k of p. *)
Inserts(new, p, d, k) ==
  /\ \A i \in 1 .. k - 1 : new[i] = p[i]
  /\ new[k] = d
  /\ \A i \in k .. Len(p) : new[i + 1] = p[i]

LEMMA InOrderForm ==
  ASSUME NEW A, NEW p \in Seq(A), NEW d \in A
  PROVE  /\ InOrder(p, d) \in Seq(A) /\ Len(InOrder(p, d)) = Len(p) + 1
         /\ LET k == 1 + Cardinality({i \in DOMAIN p : qcmp(p[i], d)})
            IN  k \in 1 .. Len(p) + 1 /\ Inserts(InOrder(p, d), p, d, k)
<1>. DEFINE T == {i \in DOMAIN p : qcmp(p[i], d)}
            n == Len(p)
            c == Cardinality(T)
            k == 1 + c
            a == SubSeq(p, 1, k - 1)
            b == SubSeq(p, k, n)
<1>1. n \in Nat /\ T \subseteq 1 .. n
  OBVIOUS
<1>2. InOrder(p, d) = (a \o <<d>>) \o b
  BY DEF InOrder, InsertAt
<1>. HIDE DEF T
<1>3. c \in 0 .. n
  <2>1. IsFiniteSet(1 .. n) /\ Cardinality(1 .. n) = n
    <3>1. 1 \in Int /\ n \in Int
      BY <1>1
    <3>2. IsFiniteSet(1 .. n) /\ Cardinality(1 .. n) = IF 1 > n THEN 0 ELSE n - 1 + 1
      BY <3>1, FS_Interval
    <3> QED
      BY <1>1, <3>2
  <2>2. IsFiniteSet(T) /\ c <= n
    BY <1>1, <2>1, FS_Subset
  <2>3. c \in Nat
    BY <2>2, FS_CardinalityType
  <2> QED
    BY <1>1, <2>2, <2>3
<1>. HIDE DEF c
<1>4. k \in 1 .. n + 1 /\ k \in Nat
  BY <1>1, <1>3
<1>. HIDE DEF k
<1>5. /\ a \in Seq(A) /\ Len(a) = k - 1 /\ \A i \in 1 .. k - 1 : a[i] = p[i]
      /\ b \in Seq(A) /\ Len(b) = n - k + 1 /\ \A i \in 1 .. n - k + 1 : b[i] = p[k + i - 1]
  BY <1>1, <1>4
<1>. HIDE DEF a, b, n
<1>6. /\ a \o <<d>> \in Seq(A) /\ Len(a \o <<d>>) = k
      /\ (a \o <<d>>)[k] = d /\ \A i \in 1 .. k - 1 : (a \o <<d>>)[i] = p[i]
  <2>1. a \in Seq(A) /\ <<d>> \in Seq(A) /\ Len(<<d>>) = 1 /\ <<d>>[1] = d
    BY <1>5
  <2>2. /\ a \o <<d>> \in Seq(A) /\ Len(a \o <<d>>) = Len(a) + Len(<<d>>)
        /\ \A i \in 1 .. Len(a) : (a \o <<d>>)[i] = a[i]
        /\ \A i \in 1 .. Len(<<d>>) : (a \o <<d>>)[Len(a) + i] = <<d>>[i]
    BY ONLY <2>1, Concatenation
  <2>3. (a \o <<d>>)[Len(a) + 1] = d
    BY <2>1, <2>2
  <2> QED
    BY <1>4, <1>5, <2>1, <2>2, <2>3
<1>. DEFINE e == a \o <<d>>
<1>. HIDE DEF e
<1>7. e \in Seq(A) /\ Len(e) = k /\ e[k] = d /\ \A i \in 1 .. k - 1 : e[i] = p[i]
  BY <1>6 DEF e
<1>8. /\ e \o b \in Seq(A) /\ Len(e \o b) = Len(e) + Len(b)
      /\ \A i \in 1 .. Len(e) : (e \o b)[i] = e[i]
      /\ \A i \in 1 .. Len(b) : (e \o b)[Len(e) + i] = b[i]
  <2>1. e \in Seq(A) /\ b \in Seq(A)
    BY <1>5, <1>7
  <2> QED
    BY ONLY <2>1, Concatenation
<1>. DEFINE new == InOrder(p, d)
<1>9. new = e \o b
  BY <1>2 DEF e
<1>. HIDE DEF new
<1>10. new \in Seq(A) /\ Len(new) = n + 1
  BY <1>1, <1>4, <1>5, <1>7, <1>8, <1>9
<1>11. new[k] = d /\ \A i \in 1 .. k - 1 : new[i] = p[i]
  BY <1>4, <1>7, <1>8, <1>9
<1>12. ASSUME NEW i \in k .. n PROVE new[i + 1] = p[i]
  <2>. DEFINE j == i - k + 1
  <2>1. j \in 1 .. n - k + 1 /\ k + j = i + 1 /\ k + j - 1 = i
    BY <1>1, <1>4
  <2>. HIDE DEF j
  <2>2. b[j] = p[i]
    BY <1>5, <2>1
  <2>3. (e \o b)[k + j] = b[j]
    BY <1>5, <1>7, <1>8, <2>1
  <2> QED
    BY <1>9, <2>1, <2>2, <2>3
<1>13. Inserts(new, p, d, k)
  BY <1>11, <1>12 DEF Inserts, n
<1> QED
  BY <1>4, <1>10, <1>13 DEF new, n, k, c, T

LEMMA ConsideredIn ==
  ASSUME NEW A, NEW p \in Seq(A), NEW d \in A, NEW i, NEW f, NEW size
  PROVE  Considered(p, i, d, f, size) \in Seq(A)
<1>1. Compacted(p, d) \in Seq(A)
  <2>1. Compacted(p, d) \in [1 .. Len(p) -> A] /\ Len(p) \in Nat
    BY DEF Compacted
  <2> QED
    BY <2>1
<1>2. Append(p, d) \in Seq(A)
  OBVIOUS
<1> QED
  BY <1>1, <1>2 DEF Considered, Entered

(* One round of the loop in dir_main_panel(), and one of the sorting *)
Builds(g, dl, f, size) ==
  /\ dir_main_panel(dl, f, size) = Sorted(g[Len(dl)])
  /\ g[0] = <<>>
  /\ \A n \in Nat : g[n + 1] = Considered(g[n], n + 1, dl[n + 1].dirname, f, size)

LEMMA BuildRound ==
  ASSUME NEW dl, NEW f, NEW size
  PROVE  \E g : Builds(g, dl, f, size)
<1>. DEFINE A == {dl[i].dirname : i \in Nat}
            S == Seq(A)
            Round(g, i) == Considered(g, i, dl[i].dirname, f, size)
            F == [n \in Nat |-> [l \in S |-> Round(l, n + 1)]]
            IsLoop(g) == g = [i \in Nat |-> IF i = 0 THEN <<>> ELSE Round(g[i - 1], i)]
            loop == CHOOSE g : IsLoop(g)
<1>1. <<>> \in S
  OBVIOUS
<1>2. ASSUME NEW n \in Nat, NEW l \in S PROVE Round(l, n + 1) \in S
  <2>1. dl[n + 1].dirname \in A
    OBVIOUS
  <2>. HIDE DEF A
  <2> QED
    BY <2>1, ConsideredIn
<1>. HIDE DEF A, S
<1>3. F \in [Nat -> [S -> S]]
  <2>. HIDE DEF Round
  <2> QED
    BY <1>2
<1>. HIDE DEF F
<1>4. PICK g \in [Nat -> S] : g[0] = <<>> /\ \A n \in Nat : g[n + 1] = F[n][g[n]]
  <2>1. \E g \in [Nat -> S] : Iterates(g, <<>>, F)
    BY <1>1, <1>3, Recursion
  <2> QED
    BY <2>1 DEF Iterates
<1>5. IsLoop(g)
  <2>1. ASSUME NEW i \in Nat PROVE g[i] = IF i = 0 THEN <<>> ELSE Round(g[i - 1], i)
    <3>1. CASE i = 0
      BY <1>4, <3>1
    <3>2. CASE i # 0
      <4>1. i - 1 \in Nat /\ (i - 1) + 1 = i /\ g[i - 1] \in S
        BY <3>2
      <4>2. g[i] = F[i - 1][g[i - 1]]
        BY <1>4, <4>1
      <4>. HIDE DEF Round
      <4>3. F[i - 1][g[i - 1]] = Round(g[i - 1], (i - 1) + 1)
        BY <4>1 DEF F
      <4> QED
        BY <3>2, <4>1, <4>2, <4>3
    <3> QED
      BY <3>1, <3>2
  <2>. HIDE DEF Round
  <2> QED
    BY <2>1
<1>6. IsLoop(loop)
  BY <1>5
<1>7. dir_main_panel(dl, f, size) = Sorted(loop[Len(dl)])
  BY DEF dir_main_panel
<1>. HIDE DEF loop
<1>8. ASSUME NEW n \in Nat PROVE loop[n + 1] = Round(loop[n], n + 1)
  <2>1. n + 1 \in Nat /\ n + 1 # 0 /\ (n + 1) - 1 = n
    OBVIOUS
  <2>. HIDE DEF Round
  <2> QED
    BY <1>6, <2>1
<1>9. loop[0] = <<>>
  BY <1>6
<1>10. Builds(loop, dl, f, size)
  BY <1>7, <1>8, <1>9 DEF Builds
<1> QED
  BY <1>10

LEMMA SortRound ==
  ASSUME NEW A, NEW p \in Seq(A)
  PROVE  \E g : /\ Sorted(p) = g[Len(p)]
                /\ g[0] = <<>>
                /\ \A n \in Nat : g[n + 1] = InOrder(g[n], p[n + 1])
<1>. DEFINE B == {p[i] : i \in Nat}
            S == Seq(B)
            Round(g, i) == InOrder(g, p[i])
            F == [n \in Nat |-> [l \in S |-> Round(l, n + 1)]]
            IsLoop(g) == g = [i \in Nat |-> IF i = 0 THEN <<>> ELSE Round(g[i - 1], i)]
            loop == CHOOSE g : IsLoop(g)
<1>1. <<>> \in S
  OBVIOUS
<1>2. ASSUME NEW n \in Nat, NEW l \in S PROVE Round(l, n + 1) \in S
  <2>1. p[n + 1] \in B
    OBVIOUS
  <2>. HIDE DEF B
  <2> QED
    BY <2>1, InOrderForm
<1>. HIDE DEF B, S
<1>3. F \in [Nat -> [S -> S]]
  <2>. HIDE DEF Round
  <2> QED
    BY <1>2
<1>. HIDE DEF F
<1>4. PICK g \in [Nat -> S] : g[0] = <<>> /\ \A n \in Nat : g[n + 1] = F[n][g[n]]
  <2>1. \E g \in [Nat -> S] : Iterates(g, <<>>, F)
    BY <1>1, <1>3, Recursion
  <2> QED
    BY <2>1 DEF Iterates
<1>5. IsLoop(g)
  <2>1. ASSUME NEW i \in Nat PROVE g[i] = IF i = 0 THEN <<>> ELSE Round(g[i - 1], i)
    <3>1. CASE i = 0
      BY <1>4, <3>1
    <3>2. CASE i # 0
      <4>1. i - 1 \in Nat /\ (i - 1) + 1 = i /\ g[i - 1] \in S
        BY <3>2
      <4>2. g[i] = F[i - 1][g[i - 1]]
        BY <1>4, <4>1
      <4>. HIDE DEF Round
      <4>3. F[i - 1][g[i - 1]] = Round(g[i - 1], (i - 1) + 1)
        BY <4>1 DEF F
      <4> QED
        BY <3>2, <4>1, <4>2, <4>3
    <3> QED
      BY <3>1, <3>2
  <2>. HIDE DEF Round
  <2> QED
    BY <2>1
<1>6. IsLoop(loop)
  BY <1>5
<1>7. Sorted(p) = loop[Len(p)]
  BY DEF Sorted
<1>. HIDE DEF loop
<1>8. ASSUME NEW n \in Nat PROVE loop[n + 1] = Round(loop[n], n + 1)
  <2>1. n + 1 \in Nat /\ n + 1 # 0 /\ (n + 1) - 1 = n
    OBVIOUS
  <2>. HIDE DEF Round
  <2> QED
    BY <1>6, <2>1
<1>9. loop[0] = <<>>
  BY <1>6
<1> QED
  BY <1>7, <1>8, <1>9

LEMMA InOrderSet ==
  ASSUME NEW A, NEW p \in Seq(A), NEW d \in A
  PROVE  ToSet(InOrder(p, d)) = ToSet(p) \cup {d}
<1>. DEFINE new == InOrder(p, d)
            n == Len(p)
<1>1. PICK k \in 1 .. n + 1 : /\ \A i \in 1 .. k - 1 : new[i] = p[i]
                              /\ new[k] = d
                              /\ \A i \in k .. n : new[i + 1] = p[i]
  <2>1. \E k \in 1 .. n + 1 : Inserts(new, p, d, k)
    BY InOrderForm
  <2> QED
    BY <2>1 DEF Inserts
<1>2. /\ n \in Nat /\ DOMAIN p = 1 .. n /\ DOMAIN new = 1 .. n + 1
  <2>1. new \in Seq(A) /\ Len(new) = n + 1
    BY InOrderForm
  <2>2. n \in Nat /\ DOMAIN p = 1 .. n
    OBVIOUS
  <2> QED
    BY <2>1, <2>2
<1>. HIDE DEF new, n
<1>3. ASSUME NEW j \in 1 .. n + 1 PROVE new[j] = d \/ \E i \in 1 .. n : new[j] = p[i]
  <2>1. CASE j < k
    BY <1>1, <1>2, <2>1
  <2>2. CASE j > k
    <3>1. j - 1 \in k .. n /\ j - 1 \in 1 .. n /\ (j - 1) + 1 = j
      BY <1>2, <2>2
    <3> QED
      BY <1>1, <3>1
  <2> QED
    BY <1>1, <1>2, <2>1, <2>2
<1>4. ASSUME NEW i \in 1 .. n PROVE \E j \in 1 .. n + 1 : new[j] = p[i]
  <2>1. CASE i < k
    BY <1>1, <1>2, <2>1
  <2>2. CASE i >= k
    BY <1>1, <1>2, <2>2
  <2> QED
    BY <1>2, <2>1, <2>2
<1> QED
  <2>1. ToSet(new) = {new[j] : j \in 1 .. n + 1} /\ ToSet(p) = {p[i] : i \in 1 .. n}
    BY <1>2 DEF ToSet
  <2>2. k \in 1 .. n + 1
    OBVIOUS
  <2>3. d \in ToSet(new)
    BY <1>1, <2>1, <2>2
  <2>4. \A x \in ToSet(new) : x = d \/ x \in ToSet(p)
    BY <1>3, <2>1
  <2>5. \A x \in ToSet(p) : x \in ToSet(new)
    BY <1>4, <2>1
  <2> QED
    BY <2>3, <2>4, <2>5 DEF new

(* The panel is sorted in its place. *)
LEMMA SortedSet ==
  ASSUME NEW A, NEW p \in Seq(A)
  PROVE  Sorted(p) \in Seq(A) /\ Len(Sorted(p)) = Len(p) /\ ToSet(Sorted(p)) = ToSet(p)
<1>1. PICK g : /\ Sorted(p) = g[Len(p)]
               /\ g[0] = <<>>
               /\ \A n \in Nat : g[n + 1] = InOrder(g[n], p[n + 1])
  BY SortRound
<1>. DEFINE m == Len(p)
            P(n) == /\ g[n] \in Seq(A) /\ Len(g[n]) = n
                    /\ ToSet(g[n]) = {p[i] : i \in 1 .. n}
            T == {n \in Nat : n <= m => P(n)}
<1>2. m \in Nat /\ \A i \in 1 .. m : p[i] \in A
  OBVIOUS
<1>3. 0 \in T
  <2>1. Len(<<>>) = 0 /\ <<>> \in Seq(A) /\ ToSet(<<>>) = {p[i] : i \in 1 .. 0}
    BY DEF ToSet
  <2> QED
    BY <1>1, <2>1
<1>. HIDE DEF m
<1>4. ASSUME NEW n \in Nat, n \in T, n + 1 <= m PROVE P(n + 1)
  <2>1. P(n) /\ n + 1 \in 1 .. m
    BY <1>2, <1>4
  <2>. DEFINE d == p[n + 1]
              l == g[n]
  <2>2. l \in Seq(A) /\ Len(l) = n /\ ToSet(l) = {p[i] : i \in 1 .. n} /\ d \in A
    BY <1>2, <2>1
  <2>3. g[n + 1] = InOrder(l, d)
    BY <1>1
  <2>4. {p[i] : i \in 1 .. n + 1} = {p[i] : i \in 1 .. n} \cup {d}
    <3>1. 1 .. n + 1 = 1 .. n \cup {n + 1}
      OBVIOUS
    <3> QED
      BY <3>1
  <2>. HIDE DEF l, d
  <2>5. InOrder(l, d) \in Seq(A) /\ Len(InOrder(l, d)) = Len(l) + 1
    BY <2>2, InOrderForm
  <2>6. ToSet(InOrder(l, d)) = ToSet(l) \cup {d}
    BY <2>2, InOrderSet
  <2> QED
    BY <2>2, <2>3, <2>4, <2>5, <2>6
<1>5. \A n \in Nat : n \in T
  <2>1. \A n \in Nat : n \in T => n + 1 \in T
    <3>. HIDE DEF P
    <3> QED
      BY <1>2, <1>4
  <2>. HIDE DEF T
  <2> QED
    BY <1>3, <2>1, NatSetInduction
<1>6. P(m)
  <2>. HIDE DEF P
  <2>1. m \in T /\ m <= m
    BY <1>2, <1>5
  <2> QED
    BY <2>1
<1>7. {p[i] : i \in 1 .. m} = ToSet(p)
  BY DEF ToSet, m
<1> QED
  BY <1>1, <1>6, <1>7 DEF m

(* The panel shows names of the list only. *)
LEMMA PanelNames ==
  ASSUME NEW dl, ListOK(dl), NEW f, NEW size
  PROVE  /\ dir_main_panel(dl, f, size) \in Seq(DirNames(dl))
         /\ ToSet(dir_main_panel(dl, f, size)) \subseteq DirNames(dl)
<1>1. PICK g : /\ dir_main_panel(dl, f, size) = Sorted(g[Len(dl)])
               /\ g[0] = <<>>
               /\ \A n \in Nat :
                    g[n + 1] = Considered(g[n], n + 1, dl[n + 1].dirname, f, size)
  <2>1. \E g : Builds(g, dl, f, size)
    BY BuildRound
  <2> QED
    BY <2>1 DEF Builds
<1>. DEFINE A == DirNames(dl)
            m == Len(dl)
            T == {n \in Nat : n <= m => g[n] \in Seq(A)}
<1>2. m \in Nat /\ \A i \in 1 .. m : dl[i].dirname \in A
  BY DEF ListOK, DirNames
<1>. HIDE DEF A, m
<1>3. 0 \in T
  <2>1. g[0] \in Seq(A)
    BY <1>1
  <2> QED
    BY <2>1
<1>4. ASSUME NEW n \in Nat, n \in T, n + 1 <= m PROVE g[n + 1] \in Seq(A)
  <2>1. g[n] \in Seq(A) /\ dl[n + 1].dirname \in A
    BY <1>2, <1>4
  <2>2. Considered(g[n], n + 1, dl[n + 1].dirname, f, size) \in Seq(A)
    BY <2>1, ConsideredIn
  <2> QED
    BY <1>1, <2>2
<1>5. \A n \in Nat : n \in T
  <2>1. \A n \in Nat : n \in T => n + 1 \in T
    BY <1>2, <1>4
  <2>. HIDE DEF T
  <2> QED
    BY <1>3, <2>1, NatSetInduction
<1>6. g[m] \in Seq(A)
  BY <1>2, <1>5
<1>. DEFINE p == Sorted(g[m])
<1>7. p \in Seq(A)
  BY <1>6, SortedSet
<1>. HIDE DEF p
<1>8. ToSet(p) \subseteq A
  BY <1>7 DEF ToSet
<1> QED
  BY <1>1, <1>7, <1>8 DEF A, m, p

-----------------------------------------------------------------------------
(* The saved positions *)

LEMMA NamesAre ==
  ASSUME NEW dl, ListOK(dl)
  PROVE  /\ DirNames(dl) = {x.dirname : x \in ToSet(dl)}
         /\ DirNames(dl) \subseteq Dirs
         /\ \A x \in ToSet(dl) : x \in Entry /\ x.savefile \in Lists[x.dirname]
         /\ \A x, y \in ToSet(dl) : x.dirname = y.dirname => x = y
         /\ \A x \in ToSet(dl) : x = Save(x.dirname, x.savefile)
<1>1. \A i \in DOMAIN dl : dl[i] \in Entry
  BY DEF ListOK
<1>2. \A x \in ToSet(dl) : \E i \in DOMAIN dl : x = dl[i]
  BY DEF ToSet
<1>3. DirNames(dl) = {x.dirname : x \in ToSet(dl)}
  BY DEF DirNames, ToSet
<1>4. \A x \in ToSet(dl) : x \in Entry /\ x.savefile \in Lists[x.dirname]
  BY <1>1, <1>2 DEF ListOK
<1>5. \A x, y \in ToSet(dl) : x.dirname = y.dirname => x = y
  BY <1>2 DEF ListOK
<1>6. \A x \in ToSet(dl) : x = Save(x.dirname, x.savefile) /\ x.dirname \in Dirs
  BY <1>4 DEF Entry, Save
<1> QED
  BY <1>3, <1>4, <1>5, <1>6

(* The names in the list after filepos_save() *)
LEMMA SaveNames ==
  ASSUME NEW dl, ListOK(dl), NEW r, Savable(r)
  PROVE  /\ r.dir \in DirNames(filepos_save(dl, r))
         /\ DirNames(filepos_save(dl, r)) \subseteq DirNames(dl) \cup {r.dir}
         /\ r.dir \in DirNames(dl) => DirNames(filepos_save(dl, r)) = DirNames(dl)
<1>. DEFINE new == filepos_save(dl, r)
            e == Save(r.dir, Saved(dl, r))
<1>1. /\ ListOK(new) /\ e \in ToSet(new) /\ e.dirname = r.dir
      /\ \A x \in ToSet(new) : x.dirname # r.dir => x \in ToSet(dl)
      /\ r.dir \in DirNames(dl) =>
           \A x \in ToSet(dl) : x.dirname # r.dir => x \in ToSet(new)
  BY SaveEntries DEF Forgets, Save
<1>2. /\ DirNames(dl) = {x.dirname : x \in ToSet(dl)}
      /\ DirNames(new) = {x.dirname : x \in ToSet(new)}
  BY <1>1, NamesAre
<1>. HIDE DEF new, e
<1> QED
  BY <1>1, <1>2 DEF new

(* The list grows, or the entry of another directory is used because the list
   is full. *)
LEMMA SaveLength ==
  ASSUME NEW dl, ListOK(dl), NEW r, Savable(r)
  PROVE  /\ Len(dl) <= Len(filepos_save(dl, r))
         /\ Len(filepos_save(dl, r)) <= SaveMax
         /\ Recycled(dl, r.dir) # {} => Len(dl) = SaveMax
<1>. DEFINE new == filepos_save(dl, r)
            k == Rank(dl, r.dir)
<1>1. /\ dl \in Seq(Entry) /\ Len(dl) \in Nat /\ SaveMax \in Nat
  BY SizesAssumption DEF ListOK
<1>2. Len(new) = IF k <= Len(dl) THEN Len(dl) ELSE Len(dl) + 1
  BY SaveForm
<1>3. Len(new) <= SaveMax
  <2>1. Len(new) \in 1 .. SaveMax
    BY SaveEntries DEF ListOK
  <2> QED
    BY <1>1, <2>1
<1>4. k <= Len(dl) /\ dl[k].dirname # r.dir => k = Len(dl) /\ k = SaveMax
  BY RankForm
<1>5. Recycled(dl, r.dir) # {} => k \in DOMAIN dl /\ dl[k].dirname # r.dir
  BY DEF Recycled
<1>6. k \in DOMAIN dl => k <= Len(dl)
  BY <1>1
<1>. HIDE DEF new, k
<1>7. Len(dl) <= Len(new)
  BY <1>1, <1>2
<1> QED
  BY <1>3, <1>4, <1>5, <1>6, <1>7 DEF new

(* The directory panel shows names of the new list, or freed memory. *)
LEMMA RenamedIn ==
  ASSUME NEW dl, ListOK(dl), NEW r, Savable(r), NEW t \in {r.dir, Freed},
         NEW d \in DirNames(dl) \cup {Freed}
  PROVE  /\ Renamed(dl, r, t, d) \in DirNames(filepos_save(dl, r)) \cup {Freed}
         /\ Renamed(dl, r, t, d) = Freed => d = Freed \/ Recycled(dl, r.dir) # {}
<1>. DEFINE new == filepos_save(dl, r)
            k == Rank(dl, r.dir)
<1>1. r.dir \in DirNames(new)
  BY SaveNames
<1>2. Renamed(dl, r, t, d) = Freed => d = Freed \/ Recycled(dl, r.dir) # {}
  BY DEF Renamed
<1>3. CASE d = Freed \/ d = r.dir
  BY <1>1, <1>2, <1>3 DEF Renamed
<1>4. CASE d \in DirNames(dl) /\ d # r.dir
  <2>1. PICK x \in ToSet(dl) : x.dirname = d
    BY <1>4, NamesAre
  <2>2. CASE x \in ToSet(new)
    <3>1. ListOK(new)
      BY SaveEntries
    <3>2. d \in DirNames(new)
      BY <2>1, <2>2, <3>1, NamesAre
    <3> QED
      BY <1>1, <1>2, <3>2 DEF Renamed
  <2>3. CASE x \notin ToSet(new)
    <3>1. r.dir \notin DirNames(dl) /\ Len(dl) = SaveMax /\ x = dl[SaveMax]
      BY <1>4, <2>1, <2>3, SaveEntries
    <3>2. k = SaveMax /\ k \in DOMAIN dl
      <4>1. /\ dl \in Seq(Entry) /\ Len(dl) \in Nat /\ SaveMax \in Nat \ {0, 1}
        BY SizesAssumption DEF ListOK
      <4>2. {i \in DOMAIN dl : dl[i].dirname = r.dir} = {}
        BY <3>1 DEF DirNames
      <4>3. k \in {Len(dl) + 1, SaveMax}
        <5>1. k = Min({Len(dl) + 1, SaveMax})
          BY <4>2 DEF Rank
        <5>2. {Len(dl) + 1, SaveMax} \subseteq Nat
          BY <4>1
        <5> QED
          BY <5>1, <5>2, MinIn
      <4>4. k \in 1 .. SaveMax
        BY RankForm
      <4> QED
        BY <3>1, <4>1, <4>3, <4>4
    <3>3. d \in Recycled(dl, r.dir)
      BY <1>4, <2>1, <3>1, <3>2 DEF Recycled
    <3> QED
      BY <1>1, <1>2, <3>3 DEF Renamed
  <2> QED
    BY <2>2, <2>3
<1> QED
  BY <1>3, <1>4

(* A position that is saved stays where it is when another one is saved. *)
LEMMA Kept ==
  ASSUME NEW dl, ListOK(dl), NEW r, Savable(r), NEW d, d # r.dir,
         NEW f, Save(d, f) \in ToSet(dl), d \in DirNames(filepos_save(dl, r))
  PROVE  Save(d, f) \in ToSet(filepos_save(dl, r))
<1>. DEFINE new == filepos_save(dl, r)
<1>1. /\ ListOK(new)
      /\ \A x \in ToSet(new) : x.dirname # r.dir => x \in ToSet(dl)
  BY SaveEntries DEF Forgets
<1>2. PICK x \in ToSet(new) : x.dirname = d
  BY <1>1, NamesAre
<1>3. x \in ToSet(dl) /\ Save(d, f).dirname = d
  BY <1>1, <1>2 DEF Save
<1>4. x = Save(d, f)
  BY <1>2, <1>3, NamesAre
<1> QED
  BY <1>2, <1>4

(* A panel that could not be listed saves the position that was there. *)
LEMMA SavedKnown ==
  ASSUME NEW dl, ListOK(dl), NEW r, Savable(r), r.list = {},
         NEW f, Save(r.dir, f) \in ToSet(dl)
  PROVE  Saved(dl, r) = f
<1>1. PICK i \in DOMAIN dl : dl[i] = Save(r.dir, f)
  BY DEF ToSet
<1>2. dl[i].dirname = r.dir /\ dl[i].savefile = f
  BY <1>1 DEF Save
<1> QED
  BY <1>2, SavedForm

-----------------------------------------------------------------------------
(* The inductive invariant *)

AccessOK == access \in [Dirs -> {"ok", "noread", "gone"}] /\ access[Root] = "ok"

FilePanelsOK ==
  /\ ppanel_file \in PanelIds
  /\ fpanel \in [PanelIds -> PanelRecord] /\ \A p \in PanelIds : PanelOK(fpanel[p])
  /\ pf.dir \in DirNames(dirlist)

(* The main panel has names of the list, the split panel has one of them;
   freed memory is shown only when the list is full. *)
DirPanelsOK ==
  /\ mode \in {"FILE", "DIR", "SPLIT"}
  /\ dp \in Seq(DirNames(dirlist) \cup {Freed}) /\ (mode # "DIR" => dp = <<>>)
  /\ IF mode = "SPLIT"
     THEN DOMAIN dps = {"name", "lens"} /\ dps.name \in DirNames(dirlist) \cup {Freed}
     ELSE dps = NoSplit
  /\ (\E i \in DOMAIN dp : dp[i] = Freed) \/ dps.name = Freed => Len(dirlist) = SaveMax

Inv == AccessOK /\ ListOK(dirlist) /\ FilePanelsOK /\ DirPanelsOK

LEMMA InitInv == Init => Inv
<1>. SUFFICES ASSUME Init PROVE Inv
  OBVIOUS
<1>1. PICK d \in Dirs, e \in Dirs :
        /\ dirlist = <<Save(d, Up)>>
        /\ fpanel = <<[dir |-> d, list |-> Lists[d], file |-> Up, expired |-> FALSE],
                      NewPanel(e)>>
  BY DEF Init
<1>2. AccessOK
  BY DirsAssumption DEF Init, AccessOK
<1>3. /\ dirlist \in Seq(Entry) /\ Len(dirlist) = 1 /\ dirlist[1] = Save(d, Up)
  BY <1>1, ListsAre DEF Save, Entry
<1>4. ListOK(dirlist)
  <2>1. DOMAIN dirlist = {1} /\ 1 \in 1 .. SaveMax
    BY <1>3, SizesAssumption
  <2>2. dirlist[1].savefile \in Lists[dirlist[1].dirname]
    BY <1>3, ListsAre DEF Save
  <2> QED
    BY <1>3, <2>1, <2>2 DEF ListOK
<1>5. DirNames(dirlist) = {d}
  <2>1. DOMAIN dirlist = {1} /\ dirlist[1].dirname = d
    BY <1>3 DEF Save
  <2> QED
    BY <2>1 DEF DirNames
<1>6. FilePanelsOK
  <2>. DEFINE r == [dir |-> d, list |-> Lists[d], file |-> Up, expired |-> FALSE]
  <2>1. /\ fpanel[1] = r /\ fpanel[2] = NewPanel(e)
        /\ fpanel = [p \in PanelIds |-> fpanel[p]]
    <3>1. fpanel = <<r, NewPanel(e)>>
      BY <1>1
    <3>. HIDE DEF r
    <3> QED
      BY <3>1 DEF PanelIds
  <2>2. PanelOK(fpanel[1]) /\ fpanel[1].dir = d
    BY <2>1, ListsAre DEF PanelOK, PanelRecord
  <2>3. PanelOK(fpanel[2])
    BY <2>1 DEF PanelOK, PanelRecord, NewPanel
  <2>4. \A p \in PanelIds : PanelOK(fpanel[p])
    BY <2>2, <2>3 DEF PanelIds
  <2>5. fpanel \in [PanelIds -> PanelRecord]
    BY <2>1, <2>4 DEF PanelOK
  <2>6. ppanel_file = 1
    BY DEF Init
  <2> QED
    BY <1>5, <2>2, <2>4, <2>5, <2>6 DEF FilePanelsOK, pf, PanelIds
<1>7. DirPanelsOK
  <2>1. dp = <<>> /\ dps = NoSplit /\ mode = "FILE"
    BY DEF Init
  <2>2. DOMAIN dp = {} /\ dp \in Seq(DirNames(dirlist) \cup {Freed})
    BY <2>1
  <2>3. dps.name # Freed
    BY <2>1, FreedAssumption DEF NoSplit
  <2> QED
    BY <2>1, <2>2, <2>3 DEF DirPanelsOK
<1> QED
  BY <1>2, <1>4, <1>6, <1>7 DEF Inv

-----------------------------------------------------------------------------
(* What a step does to the list and to the file panels *)

Quiet == UNCHANGED <<dirlist, fpanel, ppanel_file, place, unsaved>>

(* The panel after a change to d, s being read: from a subdirectory, the
   cursor may be on that subdirectory. *)
Arrives(d, s, t) ==
  \/ t = s
  \/ /\ d = Parent(pf.dir) /\ base_name(pf.dir) \in s.list
     /\ t = [s EXCEPT !.file = base_name(pf.dir)]

(* The directory of the primary panel is changed to d. *)
Changes(d) ==
  /\ dirlist' = filepos_save(filepos_save(dirlist, pf), Moved(pf, d))
  /\ \E s \in Read(dirlist', Moved(pf, d)), x \in BOOLEAN : \E t :
       Arrives(d, s, t) /\ SetPanels(ppanel_file, t, [other EXCEPT !.expired = x])

(* The directory of the primary panel is read again, or its position saved. *)
Rereads ==
  /\ dirlist' = filepos_save(dirlist, pf)
  /\ \E s \in Read(dirlist', pf) \cup {pf}, x \in BOOLEAN :
       SetPanels(ppanel_file, s, [other EXCEPT !.expired = x])

(* The other panel becomes the primary one, in the directory d. *)
Exchanges(d) ==
  /\ dirlist' = filepos_save(dirlist, Moved(other, d))
  /\ \E x \in BOOLEAN : \E s :
       /\ s \in Read(dirlist', Moved(other, d)) \/ (s = other /\ d = other.dir)
       /\ SetPanels(Other(ppanel_file), s, [pf EXCEPT !.expired = x])

SavesBoth ==
  /\ dirlist' = filepos_save(filepos_save(dirlist, pf), other)
  /\ \E r \in Read(filepos_save(dirlist, pf), pf) \cup {pf},
        s \in Read(dirlist', other) \cup {other} : SetBoth(r, s)

LEMMA PanelFacts ==
  ASSUME FilePanelsOK
  PROVE  /\ PanelOK(pf) /\ PanelOK(other) /\ Savable(pf) /\ Savable(other)
         /\ Other(ppanel_file) \in PanelIds /\ Other(ppanel_file) # ppanel_file
         /\ Other(Other(ppanel_file)) = ppanel_file
         /\ pf = [pf EXCEPT !.expired = pf.expired] /\ pf.expired \in BOOLEAN
         /\ other = [other EXCEPT !.expired = other.expired] /\ other.expired \in BOOLEAN
<1>1. /\ Other(ppanel_file) \in PanelIds /\ Other(ppanel_file) # ppanel_file
      /\ Other(Other(ppanel_file)) = ppanel_file /\ ppanel_file \in PanelIds
  BY DEF FilePanelsOK, PanelIds, Other
<1>2. PanelOK(pf) /\ PanelOK(other)
  BY <1>1 DEF FilePanelsOK, pf, other
<1>3. \A r : PanelOK(r) => r = [r EXCEPT !.expired = r.expired] /\ r.expired \in BOOLEAN
  BY DEF PanelOK, PanelRecord
<1> QED
  BY <1>1, <1>2, <1>3, PanelSavable

LEMMA ChangeToForm ==
  ASSUME Inv, NEW d \in Dirs, ChangeTo(d)
  PROVE  Changes(d)
<1>1. /\ dirlist' = filepos_save(filepos_save(dirlist, pf), Moved(pf, d))
      /\ \E s \in Read(dirlist', Moved(pf, d)), x \in {other.expired, TRUE} :
           SetPanels(ppanel_file, s, [other EXCEPT !.expired = x])
  BY DEF ChangeTo, list_directory
<1>2. {other.expired, TRUE} \subseteq BOOLEAN
  BY PanelFacts DEF Inv
<1>3. \A s : Arrives(d, s, s)
  BY DEF Arrives
<1> QED
  BY <1>1, <1>2, <1>3 DEF Changes

LEMMA ChangeToParentForm ==
  ASSUME Inv, ChangeToParent
  PROVE  Changes(Parent(pf.dir)) /\ Parent(pf.dir) \in Dirs
<1>. DEFINE d == Parent(pf.dir)
            back == base_name(pf.dir)
<1>1. d \in Dirs
  BY PanelFacts, ParentIn DEF Inv, PanelOK, PanelRecord
<1>2. Moved(pf, d).dir = d
  BY <1>1, PanelFacts, MovedSavable DEF Inv
<1>3. /\ dirlist' = filepos_save(filepos_save(dirlist, pf), Moved(pf, d))
      /\ \E s \in Read(dirlist', Moved(pf, d)), x \in {other.expired, TRUE} :
           SetPanels(ppanel_file, IF back \in s.list THEN [s EXCEPT !.file = back] ELSE s,
                     [other EXCEPT !.expired = x])
  BY DEF ChangeToParent
<1>4. {other.expired, TRUE} \subseteq BOOLEAN
  BY PanelFacts DEF Inv
<1>5. PICK s \in Read(dirlist', Moved(pf, d)), x \in BOOLEAN :
        SetPanels(ppanel_file, IF back \in s.list THEN [s EXCEPT !.file = back] ELSE s,
                  [other EXCEPT !.expired = x])
  BY <1>3, <1>4
<1>. DEFINE t == IF back \in s.list THEN [s EXCEPT !.file = back] ELSE s
<1>6. Arrives(d, s, t)
  BY DEF Arrives
<1>7. SetPanels(ppanel_file, t, [other EXCEPT !.expired = x])
  BY <1>5
<1>. HIDE DEF t
<1>8. Changes(d)
  BY <1>3, <1>6, <1>7 DEF Changes
<1> QED
  BY <1>1, <1>8

MovesCursor ==
  /\ dirlist' = dirlist
  /\ \E f \in pf.list \ {pf.file} : SetPanels(ppanel_file, [pf EXCEPT !.file = f], other)

StepForm ==
  \/ Quiet \/ MovesCursor \/ Rereads \/ SavesBoth
  \/ \E d \in Dirs : Changes(d) \/ Exchanges(d)

LEMMA RereadsForm ==
  ASSUME Inv
  PROVE  cx_files_reread \/ SavePosition => Rereads
<1>1. {other.expired, TRUE} \subseteq BOOLEAN
  BY PanelFacts DEF Inv
<1>2. ASSUME cx_files_reread PROVE Rereads
  <2>1. /\ dirlist' = filepos_save(dirlist, pf)
        /\ \E s \in Read(dirlist', pf), x \in {other.expired, TRUE} :
             SetPanels(ppanel_file, s, [other EXCEPT !.expired = x])
    BY <1>2 DEF cx_files_reread, list_directory
  <2> QED
    BY <1>1, <2>1 DEF Rereads
<1>3. ASSUME SavePosition PROVE Rereads
  <2>1. /\ dirlist' = filepos_save(dirlist, pf)
        /\ \E x \in {other.expired, TRUE} :
             SetPanels(ppanel_file, pf, [other EXCEPT !.expired = x])
    BY <1>3 DEF SavePosition
  <2> QED
    BY <1>1, <2>1 DEF Rereads
<1> QED
  BY <1>2, <1>3

LEMMA ViewerForm ==
  ASSUME Inv, cx_launch_file_viewer
  PROVE  Rereads
<1>. DEFINE o == [other EXCEPT !.expired = TRUE]
<1>1. /\ dirlist' = filepos_save(dirlist, pf)
      /\ \E s \in Read(dirlist', pf), x \in {o.expired, TRUE} :
           SetPanels(ppanel_file, s, [o EXCEPT !.expired = x])
  BY DEF cx_launch_file_viewer, list_directory
<1>2. o.expired = TRUE /\ \A x : [o EXCEPT !.expired = x] = [other EXCEPT !.expired = x]
  <2>1. other \in PanelRecord
    BY PanelFacts DEF Inv, PanelOK
  <2> QED
    BY <2>1 DEF PanelRecord
<1>. HIDE DEF o
<1> QED
  BY <1>1, <1>2 DEF Rereads

LEMMA ExchangesForm ==
  ASSUME Inv, cx_files_exchange
  PROVE  \E d \in Dirs : Exchanges(d)
<1>1. /\ {pf.expired, TRUE} \subseteq BOOLEAN /\ pf.expired \in BOOLEAN
      /\ pf = [pf EXCEPT !.expired = pf.expired]
  BY PanelFacts DEF Inv
<1>2. other.dir \in Dirs /\ Moved(other, other.dir) = other
  BY PanelFacts, MovedSavable DEF Inv, PanelOK, PanelRecord
<1>3. ASSUME NEW d \in Dirs, list_directory(dirlist, Other(ppanel_file), Moved(other, d), pf)
      PROVE  Exchanges(d)
  <2>1. /\ dirlist' = filepos_save(dirlist, Moved(other, d))
        /\ \E s \in Read(dirlist', Moved(other, d)), x \in {pf.expired, TRUE} :
             SetPanels(Other(ppanel_file), s, [pf EXCEPT !.expired = x])
    BY <1>3 DEF list_directory
  <2> QED
    BY <1>1, <2>1 DEF Exchanges
<1>4. CASE /\ access[other.dir] = "gone"
           /\ list_directory(dirlist, Other(ppanel_file),
                             Moved(other, NearestAccessible(other.dir)), pf)
  <2>1. NearestAccessible(other.dir) \in Dirs
    BY <1>2, <1>4, NearestIn DEF Inv, AccessOK
  <2> QED
    BY <1>3, <1>4, <2>1
<1>5. CASE list_directory(dirlist, Other(ppanel_file), other, pf)
  <2>1. list_directory(dirlist, Other(ppanel_file), Moved(other, other.dir), pf)
    BY <1>2, <1>5
  <2> QED
    BY <1>2, <1>3, <2>1
<1>6. CASE /\ dirlist' = filepos_save(dirlist, other)
           /\ SetPanels(Other(ppanel_file), other, pf)
  <2>1. dirlist' = filepos_save(dirlist, Moved(other, other.dir))
    BY <1>2, <1>6
  <2>2. SetPanels(Other(ppanel_file), other, [pf EXCEPT !.expired = pf.expired])
    BY <1>1, <1>6
  <2>3. Exchanges(other.dir)
    BY <1>1, <2>1, <2>2 DEF Exchanges
  <2> QED
    BY <1>2, <2>3
<1> QED
  BY <1>4, <1>5, <1>6 DEF cx_files_exchange

LEMMA SavesBothForm ==
  ASSUME Inv
  PROVE  SortBoth \/ list_both_directories => SavesBoth
<1>1. SortBoth => SavesBoth
  BY DEF SortBoth, SavesBoth
<1>2. list_both_directories => SavesBoth
  BY DEF list_both_directories, SavesBoth
<1> QED
  BY <1>1, <1>2

LEMMA EnterForm ==
  ASSUME Inv, cx_dir_enter
  PROVE  \E d \in Dirs : Changes(d)
<1>1. PICK d : /\ d \in Accessible \cup UNION {Chosen(i) : i \in DOMAIN dps.lens}
               /\ dirlist' = filepos_save(filepos_save(dirlist, pf), Moved(pf, d))
               /\ \E s \in Read(dirlist', Moved(pf, d)), x \in {other.expired, TRUE} :
                    SetPanels(ppanel_file, s, [other EXCEPT !.expired = x])
  BY DEF cx_dir_enter
<1>2. d \in Dirs
  BY <1>1 DEF Accessible, Chosen, Resolve
<1>3. {other.expired, TRUE} \subseteq BOOLEAN
  BY PanelFacts DEF Inv
<1>4. \A s : Arrives(d, s, s)
  BY DEF Arrives
<1>5. Changes(d)
  BY <1>1, <1>3, <1>4 DEF Changes
<1> QED
  BY <1>2, <1>5

LEMMA NextForm ==
  ASSUME Inv, [Next]_vars
  PROVE  StepForm
<1>1. CASE UNCHANGED vars
  BY <1>1 DEF vars, StepForm, Quiet
<1>2. CASE MoveCursor
  BY <1>2 DEF MoveCursor, StepForm, MovesCursor
<1>3. CASE ChangeToParent
  BY <1>3, ChangeToParentForm DEF StepForm
<1>4. ASSUME NEW d \in Dirs, ChangeTo(d) PROVE StepForm
  BY <1>4, ChangeToForm DEF StepForm
<1>5. CASE cx_files_cd
  <2>1. ChangeToParent \/ \E d \in Dirs : ChangeTo(d)
    BY <1>5 DEF cx_files_cd, EnterCurrent, Resolve
  <2> QED
    BY <1>3, <1>4, <2>1
<1>6. CASE cx_files_cd_parent
  BY <1>3, <1>6 DEF cx_files_cd_parent
<1>7. CASE CdAnywhere
  BY <1>4, <1>7 DEF CdAnywhere, Accessible
<1>8. CASE cx_files_reread \/ SavePosition
  BY <1>8, RereadsForm DEF StepForm
<1>9. CASE cx_files_exchange
  BY <1>9, ExchangesForm DEF StepForm
<1>10. CASE SortBoth \/ list_both_directories
  BY <1>10, SavesBothForm DEF StepForm
<1>11. CASE Lost
  <2>1. pf.dir \in Dirs /\ access[pf.dir] = "gone" /\ ChangeTo(NearestAccessible(pf.dir))
    BY <1>11, PanelFacts DEF Lost, Inv, PanelOK, PanelRecord
  <2>2. NearestAccessible(pf.dir) \in Dirs
    BY <2>1, NearestIn DEF Inv, AccessOK
  <2> QED
    BY <1>4, <2>1, <2>2
<1>12. CASE OpenDirPanel \/ filter_update_dir \/ OpenSplit \/ Cancel \/ BackgroundChange
  BY <1>12 DEF OpenDirPanel, filter_update_dir, OpenSplit, Cancel, BackgroundChange,
               StepForm, Quiet
<1>13. CASE cx_dir_enter
  BY <1>13, EnterForm DEF StepForm
<1>14. CASE cx_edit_left
  BY <1>3, <1>11, <1>14 DEF cx_edit_left
<1>15. CASE cx_edit_right
  <2>1. CASE EnterCurrent
    <3>1. ChangeToParent \/ \E d \in Dirs : ChangeTo(d)
      BY <2>1 DEF EnterCurrent, Resolve
    <3> QED
      BY <1>3, <1>4, <3>1
  <2>2. CASE cx_launch_file_viewer
    <3>1. Rereads
      BY <2>2, ViewerForm
    <3> QED
      BY <3>1 DEF StepForm
  <2> QED
    BY <1>15, <2>1, <2>2 DEF cx_edit_right
<1> QED
  BY <1>1, <1>2, <1>5, <1>6, <1>7, <1>8, <1>9, <1>10, <1>11, <1>12, <1>13, <1>14, <1>15
     DEF Next

LEMMA ForgetsMore ==
  ASSUME NEW a, NEW b, NEW T, NEW U, T \subseteq U, Forgets(a, b, T)
  PROVE  Forgets(a, b, U)
<1>1. \A x : x \notin U => x \notin T
  OBVIOUS
<1> QED
  BY <1>1 DEF Forgets

LEMMA ForgetsNothing ==
  ASSUME NEW a, ListOK(a), NEW T
  PROVE  Forgets(a, a, T)
<1>1. Len(a) \in Nat
  BY DEF ListOK
<1> QED
  BY <1>1 DEF Forgets

LEMMA ForgetsTwice ==
  ASSUME NEW a, NEW b, NEW c, NEW T, ListOK(a), ListOK(b), ListOK(c),
         Forgets(a, b, T), Forgets(b, c, T)
  PROVE  Forgets(a, c, T)
<1>. DEFINE l == Len(a)
            m == Len(b)
            n == Len(c)
<1>1. /\ l \in 1 .. SaveMax /\ m \in 1 .. SaveMax /\ n \in 1 .. SaveMax /\ SaveMax \in Nat
      /\ l <= m /\ m <= n
  BY SizesAssumption DEF ListOK, Forgets
<1>. HIDE DEF l, m, n
<1>2. l <= n /\ (m = SaveMax => n = SaveMax)
  BY <1>1
<1>3. ASSUME NEW x \in ToSet(c), x.dirname \notin T PROVE x \in ToSet(b) /\ x \in ToSet(a)
  BY <1>3 DEF Forgets
<1>4. ASSUME NEW x \in ToSet(a), NEW y \in ToSet(a), x.dirname \notin T, y.dirname \notin T,
             y \in ToSet(c), Ahead(a, x, y)
      PROVE  Ahead(c, x, y)
  <2>1. y \in ToSet(b)
    BY <1>3, <1>4
  <2>2. Ahead(b, x, y)
    BY <1>4, <2>1 DEF Forgets
  <2>3. x \in ToSet(b)
    BY <2>2 DEF Ahead, ToSet
  <2> QED
    BY <1>4, <2>1, <2>2, <2>3 DEF Forgets
<1>5. ASSUME NEW x \in ToSet(a), x.dirname \notin T, x \notin ToSet(c)
      PROVE  n = SaveMax
  <2>1. CASE x \in ToSet(b)
    BY <1>5, <2>1 DEF Forgets, n
  <2>2. CASE x \notin ToSet(b)
    BY <1>2, <1>5, <2>2 DEF Forgets, m
  <2> QED
    BY <2>1, <2>2
<1> QED
  BY <1>2, <1>3, <1>4, <1>5 DEF Forgets, l, n

(* filepos_save() for one panel and then for another one *)
LEMMA SaveTwice ==
  ASSUME NEW dl, ListOK(dl), NEW r, Savable(r), r.dir \in DirNames(dl), NEW s, Savable(s)
  PROVE  LET b == filepos_save(dl, r)
             c == filepos_save(b, s)
         IN  /\ ListOK(b) /\ DirNames(b) = DirNames(dl)
             /\ ListOK(c) /\ s.dir \in DirNames(c)
             /\ Forgets(dl, c, {r.dir, s.dir})
<1>. DEFINE b == filepos_save(dl, r)
            c == filepos_save(b, s)
<1>1. ListOK(b) /\ DirNames(b) = DirNames(dl) /\ Forgets(dl, b, {r.dir})
  BY SaveEntries, SaveNames
<1>. HIDE DEF b
<1>2. ListOK(c) /\ s.dir \in DirNames(c) /\ Forgets(b, c, {s.dir})
  BY <1>1, SaveEntries, SaveNames
<1>. HIDE DEF c
<1>3. Forgets(dl, b, {r.dir, s.dir})
  <2>1. {r.dir} \subseteq {r.dir, s.dir}
    OBVIOUS
  <2> QED
    BY <1>1, <2>1, ForgetsMore
<1>4. Forgets(b, c, {r.dir, s.dir})
  <2>1. {s.dir} \subseteq {r.dir, s.dir}
    OBVIOUS
  <2> QED
    BY <1>2, <2>1, ForgetsMore
<1>5. Forgets(dl, c, {r.dir, s.dir})
  BY <1>1, <1>2, <1>3, <1>4, ForgetsTwice
<1> QED
  BY <1>1, <1>2, <1>5 DEF b, c

-----------------------------------------------------------------------------
(* The panels after a step *)

LEMMA SetPanelsForm ==
  ASSUME NEW p \in PanelIds, NEW r, PanelOK(r), NEW o, PanelOK(o), SetPanels(p, r, o),
         r.dir \in DirNames(dirlist')
  PROVE  FilePanelsOK' /\ pf' = r
<1>1. ppanel_file' = p /\ fpanel' = [q \in PanelIds |-> IF q = p THEN r ELSE o]
  BY DEF SetPanels
<1>2. \A q \in PanelIds : PanelOK(fpanel'[q])
  BY <1>1
<1>3. fpanel' \in [PanelIds -> PanelRecord]
  BY <1>1 DEF PanelOK
<1>4. pf' = r
  BY <1>1 DEF pf
<1> QED
  BY <1>1, <1>2, <1>3, <1>4 DEF FilePanelsOK

LEMMA SetBothForm ==
  ASSUME ppanel_file \in PanelIds, NEW r, PanelOK(r), NEW o, PanelOK(o), SetBoth(r, o),
         r.dir \in DirNames(dirlist')
  PROVE  FilePanelsOK' /\ pf' = r
<1>1. /\ ppanel_file' = ppanel_file
      /\ fpanel' = [q \in PanelIds |-> IF q = ppanel_file THEN r ELSE o]
  BY DEF SetBoth
<1>2. \A q \in PanelIds : PanelOK(fpanel'[q])
  BY <1>1
<1>3. fpanel' \in [PanelIds -> PanelRecord]
  BY <1>1 DEF PanelOK
<1>4. pf' = r
  BY <1>1 DEF pf
<1> QED
  BY <1>1, <1>2, <1>3, <1>4 DEF FilePanelsOK

LEMMA Expires == \A r : PanelOK(r) => \A x \in BOOLEAN : PanelOK([r EXCEPT !.expired = x])
                                        /\ [r EXCEPT !.expired = x].dir = r.dir
                                        /\ [r EXCEPT !.expired = x].file = r.file
BY DEF PanelOK, PanelRecord

LEMMA CursorSet ==
  ASSUME NEW r, PanelOK(r), NEW f \in r.list
  PROVE  /\ PanelOK([r EXCEPT !.file = f]) /\ [r EXCEPT !.file = f].dir = r.dir
         /\ [r EXCEPT !.file = f].file = f /\ f # NoFile
         /\ [r EXCEPT !.file = f].list = r.list
<1>1. r.list \subseteq Names /\ r.dir \in Dirs /\ NoFile \notin r.list
  BY ListsAre DEF PanelOK, PanelRecord
<1> QED
  BY <1>1 DEF PanelOK, PanelRecord

LEMMA ArrivesForm ==
  ASSUME NEW d, NEW s, PanelOK(s), NEW t, Arrives(d, s, t)
  PROVE  PanelOK(t) /\ t.dir = s.dir /\ t.list = s.list
<1>1. CASE t = s
  BY <1>1
<1>2. CASE base_name(pf.dir) \in s.list /\ t = [s EXCEPT !.file = base_name(pf.dir)]
  BY <1>2, CursorSet
<1> QED
  BY <1>1, <1>2 DEF Arrives

(* A step that changes the directory of the primary panel: s is read, and t
   is the panel with its cursor. *)
ReadsTo(b, r, s, t, x) ==
  /\ PanelOK(s) /\ s.dir = r.dir /\ (s.list # {} => s.file = Saved(b, r))
  /\ PanelOK(t) /\ t.dir = s.dir /\ t.list = s.list /\ Arrives(r.dir, s, t)
  /\ SetPanels(ppanel_file, t, [other EXCEPT !.expired = x])

LEMMA ChangesFacts ==
  ASSUME Inv, NEW d \in Dirs, Changes(d)
  PROVE  LET b == filepos_save(dirlist, pf)
             r == Moved(pf, d)
         IN  /\ ListOK(b) /\ DirNames(b) = DirNames(dirlist)
             /\ Savable(r) /\ r.dir = d /\ dirlist' = filepos_save(b, r)
             /\ ListOK(dirlist') /\ d \in DirNames(dirlist')
             /\ Forgets(dirlist, dirlist', {pf.dir, d})
             /\ \E x \in BOOLEAN : \E s, t : ReadsTo(b, r, s, t, x)
             /\ FilePanelsOK' /\ pf'.dir = d
<1>. DEFINE b == filepos_save(dirlist, pf)
            r == Moved(pf, d)
<1>1. /\ ListOK(dirlist) /\ FilePanelsOK /\ PanelOK(pf) /\ PanelOK(other) /\ Savable(pf)
      /\ pf.dir \in DirNames(dirlist) /\ ppanel_file \in PanelIds
  BY PanelFacts DEF Inv, FilePanelsOK
<1>2. Savable(r) /\ r.dir = d
  BY <1>1, MovedSavable
<1>3. dirlist' = filepos_save(b, r)
  BY DEF Changes
<1>4. PICK s \in Read(dirlist', r), x \in BOOLEAN : \E t :
        Arrives(d, s, t) /\ SetPanels(ppanel_file, t, [other EXCEPT !.expired = x])
  BY DEF Changes
<1>5. PICK t : Arrives(d, s, t) /\ SetPanels(ppanel_file, t, [other EXCEPT !.expired = x])
  BY <1>4
<1>. HIDE DEF r
<1>6. /\ ListOK(b) /\ DirNames(b) = DirNames(dirlist)
      /\ ListOK(filepos_save(b, r)) /\ r.dir \in DirNames(filepos_save(b, r))
      /\ Forgets(dirlist, filepos_save(b, r), {pf.dir, r.dir})
  BY <1>1, <1>2, SaveTwice
<1>. HIDE DEF b
<1>7. PanelOK(s) /\ s.dir = d /\ (s.list # {} => s.file = Saved(b, r))
  BY <1>2, <1>3, <1>6, ReadSaved
<1>8. PanelOK(t) /\ t.dir = s.dir /\ t.list = s.list
  BY <1>5, <1>7, ArrivesForm
<1>9. PanelOK([other EXCEPT !.expired = x])
  BY <1>1, Expires
<1>10. ReadsTo(b, r, s, t, x)
  BY <1>2, <1>5, <1>7, <1>8 DEF ReadsTo
<1>11. FilePanelsOK' /\ pf' = t
  BY <1>1, <1>2, <1>3, <1>5, <1>6, <1>7, <1>8, <1>9, SetPanelsForm
<1>12. pf'.dir = d
  BY <1>7, <1>8, <1>11
<1> QED
  BY <1>2, <1>3, <1>6, <1>10, <1>11, <1>12 DEF b, r

(* A step that reads the primary panel again *)
LEMMA RereadsFacts ==
  ASSUME Inv, Rereads
  PROVE  /\ ListOK(dirlist') /\ DirNames(dirlist') = DirNames(dirlist)
         /\ Forgets(dirlist, dirlist', {pf.dir})
         /\ \E x \in BOOLEAN : \E s :
              /\ PanelOK(s) /\ s.dir = pf.dir
              /\ SetPanels(ppanel_file, s, [other EXCEPT !.expired = x])
         /\ FilePanelsOK' /\ pf'.dir = pf.dir
<1>1. /\ ListOK(dirlist) /\ FilePanelsOK /\ PanelOK(pf) /\ PanelOK(other) /\ Savable(pf)
      /\ pf.dir \in DirNames(dirlist) /\ ppanel_file \in PanelIds
  BY PanelFacts DEF Inv, FilePanelsOK
<1>2. dirlist' = filepos_save(dirlist, pf)
  BY DEF Rereads
<1>3. PICK s \in Read(dirlist', pf) \cup {pf}, x \in BOOLEAN :
        SetPanels(ppanel_file, s, [other EXCEPT !.expired = x])
  BY DEF Rereads
<1>4. /\ ListOK(dirlist') /\ DirNames(dirlist') = DirNames(dirlist)
      /\ Forgets(dirlist, dirlist', {pf.dir})
  BY <1>1, <1>2, SaveEntries, SaveNames
<1>5. PanelOK(s) /\ s.dir = pf.dir
  <2>1. CASE s \in Read(dirlist', pf)
    BY <1>1, <1>2, <2>1, ReadSaved
  <2> QED
    BY <1>1, <2>1
<1>6. PanelOK([other EXCEPT !.expired = x])
  BY <1>1, Expires
<1>7. FilePanelsOK' /\ pf' = s
  BY <1>1, <1>3, <1>4, <1>5, <1>6, SetPanelsForm
<1>8. pf'.dir = pf.dir
  BY <1>5, <1>7
<1> QED
  BY <1>3, <1>4, <1>5, <1>7, <1>8

(* A step that exchanges the panels *)
LEMMA ExchangesFacts ==
  ASSUME Inv, NEW d \in Dirs, Exchanges(d)
  PROVE  LET r == Moved(other, d)
         IN  /\ Savable(r) /\ r.dir = d /\ dirlist' = filepos_save(dirlist, r)
             /\ ListOK(dirlist') /\ d \in DirNames(dirlist')
             /\ Forgets(dirlist, dirlist', {d})
             /\ \E x \in BOOLEAN : \E s :
                  /\ PanelOK(s) /\ s.dir = d
                  /\ SetPanels(Other(ppanel_file), s, [pf EXCEPT !.expired = x])
             /\ FilePanelsOK' /\ pf'.dir = d
<1>. DEFINE r == Moved(other, d)
<1>1. /\ ListOK(dirlist) /\ FilePanelsOK /\ PanelOK(pf) /\ PanelOK(other)
      /\ Other(ppanel_file) \in PanelIds
  BY PanelFacts DEF Inv, FilePanelsOK
<1>2. Savable(r) /\ r.dir = d
  BY <1>1, MovedSavable
<1>3. dirlist' = filepos_save(dirlist, r)
  BY DEF Exchanges
<1>4. PICK x \in BOOLEAN : \E s :
        /\ s \in Read(dirlist', r) \/ (s = other /\ d = other.dir)
        /\ SetPanels(Other(ppanel_file), s, [pf EXCEPT !.expired = x])
  BY DEF Exchanges
<1>5. PICK s : /\ s \in Read(dirlist', r) \/ (s = other /\ d = other.dir)
               /\ SetPanels(Other(ppanel_file), s, [pf EXCEPT !.expired = x])
  BY <1>4
<1>. HIDE DEF r
<1>6. /\ ListOK(dirlist') /\ d \in DirNames(dirlist') /\ Forgets(dirlist, dirlist', {d})
  BY <1>1, <1>2, <1>3, SaveEntries, SaveNames
<1>7. PanelOK(s) /\ s.dir = d
  <2>1. CASE s \in Read(dirlist', r)
    BY <1>1, <1>2, <1>3, <2>1, ReadSaved
  <2> QED
    BY <1>1, <1>5, <2>1
<1>8. PanelOK([pf EXCEPT !.expired = x])
  BY <1>1, Expires
<1>9. FilePanelsOK' /\ pf' = s
  BY <1>1, <1>5, <1>6, <1>7, <1>8, SetPanelsForm
<1>10. pf'.dir = d
  BY <1>7, <1>9
<1> QED
  BY <1>2, <1>3, <1>5, <1>6, <1>7, <1>9, <1>10 DEF r

(* The entry saved last is not the one that is dropped next. *)
LEMMA SecondSave ==
  ASSUME NEW dl, ListOK(dl), NEW r, Savable(r), NEW s, Savable(s)
  PROVE  r.dir \in DirNames(filepos_save(filepos_save(dl, r), s))
<1>. DEFINE b == filepos_save(dl, r)
            c == filepos_save(b, s)
            e == Save(r.dir, Saved(dl, r))
<1>1. ListOK(b) /\ e \in ToSet(b) /\ b[1] = e /\ e.dirname = r.dir
  BY SaveEntries, SaveForm DEF Save
<1>. HIDE DEF b, e
<1>2. ListOK(c) /\ s.dir \in DirNames(c)
  BY <1>1, SaveEntries, SaveNames
<1>3. CASE s.dir = r.dir
  BY <1>2, <1>3 DEF b
<1>4. CASE e \in ToSet(c)
  <2>1. r.dir \in DirNames(c)
    <3>. HIDE DEF c
    <3>1. DirNames(c) = {x.dirname : x \in ToSet(c)}
      BY <1>2, NamesAre
    <3> QED
      BY <1>1, <1>4, <3>1
  <2> QED
    BY <2>1 DEF b
<1>5. CASE s.dir # r.dir /\ e \notin ToSet(c)
  <2>1. Len(b) = SaveMax /\ e = b[SaveMax]
    BY <1>1, <1>5, SaveEntries
  <2>2. SaveMax \in DOMAIN b /\ 1 \in DOMAIN b
    BY <1>1, <2>1, SizesAssumption DEF ListOK
  <2>3. SaveMax = 1
    BY <1>1, <2>1, <2>2 DEF ListOK
  <2> QED
    BY <2>3, SizesAssumption
<1> QED
  BY <1>3, <1>4, <1>5 DEF b

(* A step that saves both positions *)
BothRead(b, r, s) ==
  /\ PanelOK(r) /\ r.dir = pf.dir
  /\ PanelOK(s) /\ s.dir = other.dir
  /\ s = other \/ (s.list # {} => s.file = Saved(b, other))
  /\ SetBoth(r, s)

LEMMA SavesBothFacts ==
  ASSUME Inv, SavesBoth
  PROVE  LET b == filepos_save(dirlist, pf)
         IN  /\ ListOK(b) /\ dirlist' = filepos_save(b, other)
             /\ ListOK(dirlist') /\ Forgets(dirlist, dirlist', {pf.dir, other.dir})
             /\ \E r, s : BothRead(b, r, s)
             /\ FilePanelsOK' /\ pf'.dir = pf.dir
<1>. DEFINE b == filepos_save(dirlist, pf)
<1>1. /\ ListOK(dirlist) /\ FilePanelsOK /\ PanelOK(pf) /\ PanelOK(other)
      /\ Savable(pf) /\ Savable(other)
      /\ pf.dir \in DirNames(dirlist) /\ ppanel_file \in PanelIds
  BY PanelFacts DEF Inv, FilePanelsOK
<1>2. dirlist' = filepos_save(b, other)
  BY DEF SavesBoth
<1>3. PICK r \in Read(b, pf) \cup {pf}, s \in Read(dirlist', other) \cup {other} : SetBoth(r, s)
  BY DEF SavesBoth
<1>4. /\ ListOK(b) /\ ListOK(dirlist')
      /\ Forgets(dirlist, dirlist', {pf.dir, other.dir})
  BY <1>1, <1>2, SaveTwice
<1>5. pf.dir \in DirNames(dirlist')
  BY <1>1, <1>2, SecondSave
<1>6. PanelOK(r) /\ r.dir = pf.dir
  <2>1. CASE r \in Read(b, pf)
    BY <1>1, <2>1, ReadSaved
  <2> QED
    BY <1>1, <2>1
<1>. HIDE DEF b
<1>7. /\ PanelOK(s) /\ s.dir = other.dir
      /\ s = other \/ (s.list # {} => s.file = Saved(b, other))
  <2>1. CASE s \in Read(dirlist', other)
    BY <1>1, <1>2, <1>4, <2>1, ReadSaved
  <2> QED
    BY <1>1, <2>1
<1>8. BothRead(b, r, s)
  BY <1>3, <1>6, <1>7 DEF BothRead
<1>9. FilePanelsOK' /\ pf' = r
  BY <1>1, <1>3, <1>5, <1>6, <1>7, SetBothForm
<1>10. pf'.dir = pf.dir
  BY <1>6, <1>9
<1> QED
  BY <1>2, <1>4, <1>8, <1>9, <1>10 DEF b

LEMMA MovesCursorFacts ==
  ASSUME Inv, MovesCursor
  PROVE  /\ dirlist' = dirlist
         /\ \E r : /\ PanelOK(r) /\ r.dir = pf.dir /\ r.file # NoFile
                   /\ SetPanels(ppanel_file, r, other)
         /\ FilePanelsOK' /\ pf'.dir = pf.dir
<1>1. /\ PanelOK(pf) /\ PanelOK(other)
      /\ pf.dir \in DirNames(dirlist) /\ ppanel_file \in PanelIds
  BY PanelFacts DEF Inv, FilePanelsOK
<1>2. PICK f \in pf.list \ {pf.file} : SetPanels(ppanel_file, [pf EXCEPT !.file = f], other)
  BY DEF MovesCursor
<1>. DEFINE r == [pf EXCEPT !.file = f]
<1>3. PanelOK(r) /\ r.dir = pf.dir /\ r.file # NoFile
  BY <1>1, CursorSet
<1>4. SetPanels(ppanel_file, r, other) /\ dirlist' = dirlist
  BY <1>2 DEF MovesCursor
<1>. HIDE DEF r
<1>5. FilePanelsOK' /\ pf' = r
  BY <1>1, <1>3, <1>4, SetPanelsForm
<1>6. pf'.dir = pf.dir
  BY <1>3, <1>5
<1> QED
  BY <1>3, <1>4, <1>5, <1>6

(* Whatever the step: the list, the panels, and what is forgotten *)
LEMMA StepFacts ==
  ASSUME Inv, StepForm
  PROVE  /\ ListOK(dirlist') /\ FilePanelsOK'
         /\ Forgets(dirlist, dirlist', {pf.dir, other.dir, pf'.dir})
<1>. DEFINE T == {pf.dir, other.dir, pf'.dir}
<1>0. ListOK(dirlist)
  BY DEF Inv
<1>1. CASE Quiet
  <2>1. dirlist' = dirlist /\ fpanel' = fpanel /\ ppanel_file' = ppanel_file
    BY <1>1 DEF Quiet
  <2>2. FilePanelsOK'
    BY <2>1 DEF Inv, FilePanelsOK, pf
  <2> QED
    BY <1>0, <2>1, <2>2, ForgetsNothing
<1>2. CASE MovesCursor
  BY <1>0, <1>2, MovesCursorFacts, ForgetsNothing
<1>3. CASE Rereads
  <2>1. {pf.dir} \subseteq T
    OBVIOUS
  <2> QED
    BY <1>3, <2>1, RereadsFacts, ForgetsMore
<1>4. CASE SavesBoth
  <2>1. {pf.dir, other.dir} \subseteq T
    OBVIOUS
  <2> QED
    BY <1>4, <2>1, SavesBothFacts, ForgetsMore
<1>5. ASSUME NEW d \in Dirs, Changes(d)
      PROVE  ListOK(dirlist') /\ FilePanelsOK' /\ Forgets(dirlist, dirlist', T)
  <2>1. /\ ListOK(dirlist') /\ FilePanelsOK' /\ pf'.dir = d
        /\ Forgets(dirlist, dirlist', {pf.dir, d})
    BY <1>5, ChangesFacts
  <2>2. {pf.dir, d} \subseteq T
    BY <2>1
  <2> QED
    BY <2>1, <2>2, ForgetsMore
<1>6. ASSUME NEW d \in Dirs, Exchanges(d)
      PROVE  ListOK(dirlist') /\ FilePanelsOK' /\ Forgets(dirlist, dirlist', T)
  <2>1. /\ ListOK(dirlist') /\ FilePanelsOK' /\ pf'.dir = d
        /\ Forgets(dirlist, dirlist', {d})
    BY <1>6, ExchangesFacts
  <2>2. {d} \subseteq T
    BY <2>1
  <2> QED
    BY <2>1, <2>2, ForgetsMore
<1> QED
  BY <1>1, <1>2, <1>3, <1>4, <1>5, <1>6 DEF StepForm

-----------------------------------------------------------------------------
(* The directory panel after a step *)

LEMMA RenameKeeps ==
  ASSUME DirPanelsOK, mode' = mode, NEW dl, ListOK(dl), DirNames(dl) = DirNames(dirlist),
         NEW r, Savable(r), Len(dirlist) <= Len(dl), Len(dirlist) \in Nat,
         dirlist' = filepos_save(dl, r), Rename(dl, r)
  PROVE  DirPanelsOK'
<1>. DEFINE old == DirNames(dl) \cup {Freed}
            new == DirNames(dirlist') \cup {Freed}
<1>1. PICK t \in {r.dir, Freed} :
        /\ dp' = [i \in DOMAIN dp |-> Renamed(dl, r, t, dp[i])]
        /\ dps' = [dps EXCEPT !.name = Renamed(dl, r, t, @)]
  BY DEF Rename
<1>2. dp \in Seq(old)
  BY DEF DirPanelsOK
<1>3. \A d \in old : /\ Renamed(dl, r, t, d) \in new
                     /\ Renamed(dl, r, t, d) = Freed =>
                          d = Freed \/ Recycled(dl, r.dir) # {}
  BY RenamedIn
<1>4. Len(dirlist) = SaveMax \/ Recycled(dl, r.dir) # {} => Len(dirlist') = SaveMax
  <2>1. /\ Len(dl) <= Len(dirlist') /\ Len(dirlist') <= SaveMax
        /\ Recycled(dl, r.dir) # {} => Len(dl) = SaveMax
        /\ Len(dl) \in Nat /\ Len(dirlist') \in Nat /\ SaveMax \in Nat
    <3>1. ListOK(dirlist')
      BY SaveEntries
    <3>2. Len(dl) \in 1 .. SaveMax /\ Len(dirlist') \in 1 .. SaveMax /\ SaveMax \in Nat
      BY <3>1, SizesAssumption DEF ListOK
    <3>3. Len(dl) <= Len(dirlist')
      BY SaveLength
    <3>4. Len(dirlist') <= SaveMax
      BY <3>2
    <3>5. Recycled(dl, r.dir) # {} => Len(dl) = SaveMax
      BY SaveLength
    <3> QED
      BY <3>2, <3>3, <3>4, <3>5
  <2> QED
    BY <2>1
<1>. HIDE DEF old, new
<1>5. dp' \in Seq(new)
  <2>1. DOMAIN dp = 1 .. Len(dp) /\ Len(dp) \in Nat /\ \A i \in DOMAIN dp : dp[i] \in old
    BY <1>2
  <2>2. dp' \in [1 .. Len(dp) -> new]
    BY <1>1, <1>3, <2>1
  <2> QED
    BY <2>1, <2>2
<1>6. dp = <<>> => dp' = <<>>
  BY <1>1
<1>7. \A i \in DOMAIN dp' : dp'[i] = Freed =>
        (\E j \in DOMAIN dp : dp[j] = Freed) \/ Recycled(dl, r.dir) # {}
  <2>1. \A i \in DOMAIN dp' : i \in DOMAIN dp /\ dp[i] \in old
                              /\ dp'[i] = Renamed(dl, r, t, dp[i])
    BY <1>1, <1>2
  <2> QED
    BY <1>3, <2>1
<1>8. CASE mode = "SPLIT"
  <2>1. DOMAIN dps = {"name", "lens"} /\ dps.name \in old
    BY <1>8 DEF DirPanelsOK, old
  <2>2. DOMAIN dps' = {"name", "lens"} /\ dps'.name = Renamed(dl, r, t, dps.name)
    BY <1>1, <2>1
  <2>3. /\ dps'.name \in new
        /\ dps'.name = Freed => dps.name = Freed \/ Recycled(dl, r.dir) # {}
    BY <1>3, <2>1, <2>2
  <2> QED
    BY <1>4, <1>5, <1>6, <1>7, <1>8, <2>2, <2>3 DEF DirPanelsOK, new
<1>9. CASE mode # "SPLIT"
  <2>1. dps = NoSplit
    BY <1>9 DEF DirPanelsOK
  <2>2. Renamed(dl, r, t, <<>>) = <<>>
    <3>1. \A i \in DOMAIN dl : dl[i].dirname \in Dirs
      BY NamesAre DEF DirNames
    <3>2. <<>> \notin Recycled(dl, r.dir)
      BY <3>1, DirsAssumption DEF Recycled
    <3> QED
      BY <3>2 DEF Renamed
  <2>3. dps' = NoSplit
    BY <1>1, <2>1, <2>2 DEF NoSplit
  <2>4. dps'.name # Freed
    BY <2>3, FreedAssumption DEF NoSplit
  <2> QED
    BY <1>4, <1>5, <1>6, <1>7, <1>9, <2>3, <2>4 DEF DirPanelsOK, new
<1> QED
  BY <1>8, <1>9

LEMMA NoDirPanel ==
  ASSUME mode' = "FILE", dp' = <<>>, dps' = NoSplit
  PROVE  DirPanelsOK'
BY FreedAssumption DEF DirPanelsOK, NoSplit

LEMMA ChangeKeeps ==
  ASSUME Inv, mode' = mode, NEW d \in Dirs,
         dirlist' = filepos_save(filepos_save(dirlist, pf), Moved(pf, d)),
         Rename(filepos_save(dirlist, pf), Moved(pf, d))
  PROVE  DirPanelsOK'
<1>1. /\ DirPanelsOK /\ ListOK(dirlist) /\ PanelOK(pf) /\ Savable(pf)
      /\ pf.dir \in DirNames(dirlist)
  BY PanelFacts DEF Inv, FilePanelsOK
<1>2. /\ ListOK(filepos_save(dirlist, pf)) /\ Savable(Moved(pf, d))
      /\ DirNames(filepos_save(dirlist, pf)) = DirNames(dirlist)
      /\ Len(dirlist) <= Len(filepos_save(dirlist, pf))
  BY <1>1, SaveEntries, SaveNames, SaveLength, MovedSavable
<1>3. Len(dirlist) \in Nat
  BY <1>1 DEF ListOK
<1> QED
  BY <1>1, <1>2, <1>3, RenameKeeps

LEMMA ListKeeps ==
  ASSUME Inv, mode' = mode, NEW r, Savable(r), dirlist' = filepos_save(dirlist, r),
         Rename(dirlist, r)
  PROVE  DirPanelsOK'
<1>1. Len(dirlist) \in Nat /\ Len(dirlist) <= Len(dirlist)
  BY DEF Inv, ListOK
<1> QED
  BY <1>1, RenameKeeps DEF Inv

LEMMA DirPanelsNext ==
  ASSUME Inv, [Next]_vars
  PROVE  DirPanelsOK'
<1>0. /\ DirPanelsOK /\ ListOK(dirlist) /\ PanelOK(pf) /\ PanelOK(other)
      /\ Savable(pf) /\ Savable(other) /\ pf.dir \in Dirs /\ other.dir \in Dirs
  BY PanelFacts DEF Inv, FilePanelsOK, PanelOK, PanelRecord
<1>1. CASE UNCHANGED vars
  BY <1>0, <1>1 DEF vars, dirvars, DirPanelsOK, DirNames
<1>2. ASSUME mode = "FILE", mode' = mode, UNCHANGED dirvars PROVE DirPanelsOK'
  BY <1>0, <1>2, NoDirPanel DEF dirvars, DirPanelsOK
<1>3. CASE MoveCursor \/ SavePosition \/ SortBoth \/ list_both_directories \/ BackgroundChange
  BY <1>2, <1>3 DEF MoveCursor, SavePosition, SortBoth, list_both_directories,
                    BackgroundChange, InFilePanel
<1>4. ASSUME mode' = mode, ChangeToParent PROVE DirPanelsOK'
  <2>1. Parent(pf.dir) \in Dirs
    BY <1>0, ParentIn
  <2> QED
    BY <1>4, <2>1, ChangeKeeps DEF ChangeToParent
<1>5. ASSUME mode' = mode, NEW d \in Dirs, ChangeTo(d) PROVE DirPanelsOK'
  BY <1>5, ChangeKeeps DEF ChangeTo, list_directory
<1>6. CASE cx_files_cd
  <2>1. mode' = mode /\ (ChangeToParent \/ \E d \in Dirs : ChangeTo(d))
    BY <1>6 DEF cx_files_cd, EnterCurrent, Resolve, InFilePanel
  <2> QED
    BY <1>4, <1>5, <2>1
<1>7. CASE cx_files_cd_parent
  BY <1>4, <1>7 DEF cx_files_cd_parent, InFilePanel
<1>8. CASE CdAnywhere
  BY <1>5, <1>8 DEF CdAnywhere, Accessible, InFilePanel
<1>9. CASE cx_files_reread
  BY <1>0, <1>9, ListKeeps DEF cx_files_reread, InFilePanel, list_directory
<1>10. CASE cx_files_exchange
  <2>1. CASE list_directory(dirlist, Other(ppanel_file),
                            Moved(other, NearestAccessible(other.dir)), pf)
             /\ access[other.dir] = "gone"
    <3>1. NearestAccessible(other.dir) \in Dirs
      BY <1>0, <2>1, NearestIn DEF Inv, AccessOK
    <3>2. Savable(Moved(other, NearestAccessible(other.dir)))
      BY <1>0, <3>1, MovedSavable
    <3> QED
      BY <1>10, <2>1, <3>2, ListKeeps DEF cx_files_exchange, InFilePanel, list_directory
  <2>2. CASE list_directory(dirlist, Other(ppanel_file), other, pf)
    BY <1>0, <1>10, <2>2, ListKeeps DEF cx_files_exchange, InFilePanel, list_directory
  <2>3. CASE UNCHANGED dirvars
    BY <1>2, <1>10, <2>3 DEF cx_files_exchange, InFilePanel
  <2> QED
    BY <1>10, <2>1, <2>2, <2>3 DEF cx_files_exchange
<1>11. ASSUME mode' = mode, Lost PROVE DirPanelsOK'
  <2>1. NearestAccessible(pf.dir) \in Dirs
    BY <1>0, <1>11, NearestIn DEF Inv, AccessOK, Lost
  <2> QED
    BY <1>5, <1>11, <2>1 DEF Lost
<1>12. CASE OpenDirPanel \/ filter_update_dir
  <2>1. PICK f, size : /\ dp' = dir_main_panel(dirlist, f, size)
                       /\ mode' = "DIR" /\ dirlist' = dirlist /\ dps' = dps
                       /\ mode # "SPLIT"
    BY <1>12 DEF OpenDirPanel, filter_update_dir
  <2>2. dp' \in Seq(DirNames(dirlist'))
    BY <1>0, <2>1, PanelNames
  <2>3. /\ dp' \in Seq(DirNames(dirlist') \cup {Freed})
        /\ \A i \in DOMAIN dp' : dp'[i] # Freed
    <3>1. Freed \notin DirNames(dirlist')
      BY <1>0, <2>1, NamesAre, FreedAssumption
    <3> QED
      BY <2>2, <3>1
  <2>4. dps' = NoSplit /\ NoSplit.name # Freed
    BY <1>0, <2>1, FreedAssumption DEF DirPanelsOK, NoSplit
  <2> QED
    BY <1>0, <2>1, <2>3, <2>4 DEF DirPanelsOK
<1>13. CASE OpenSplit
  <2>1. PICK i \in DOMAIN dp :
          dps' = IF dp[i] = Freed THEN [name |-> Freed, lens |-> <<1>>] ELSE Split(dp[i])
    BY <1>13 DEF OpenSplit
  <2>2. dp[i] \in DirNames(dirlist) \cup {Freed}
    BY <1>0, <2>1 DEF DirPanelsOK
  <2>3. DOMAIN dps' = {"name", "lens"} /\ dps'.name = dp[i]
    BY <2>1 DEF Split
  <2>4. dp[i] = Freed => Len(dirlist) = SaveMax
    BY <1>0 DEF DirPanelsOK
  <2>5. dp' = <<>> /\ mode' = "SPLIT" /\ dirlist' = dirlist
    BY <1>13 DEF OpenSplit
  <2> QED
    BY <2>2, <2>3, <2>4, <2>5 DEF DirPanelsOK
<1>14. CASE cx_dir_enter \/ Cancel
  BY <1>14, NoDirPanel DEF cx_dir_enter, Cancel, Leave
<1>15. CASE cx_edit_left
  BY <1>4, <1>11, <1>15 DEF cx_edit_left
<1>16. CASE cx_edit_right
  <2>1. CASE EnterCurrent
    <3>1. mode' = mode /\ (ChangeToParent \/ \E d \in Dirs : ChangeTo(d))
      BY <1>16, <2>1 DEF cx_edit_right, EnterCurrent, Resolve
    <3> QED
      BY <1>4, <1>5, <3>1
  <2>2. CASE cx_launch_file_viewer
    BY <1>0, <1>16, <2>2, ListKeeps DEF cx_edit_right, cx_launch_file_viewer, list_directory
  <2> QED
    BY <1>16, <2>1, <2>2 DEF cx_edit_right
<1>17. CASE InFilePanel /\ Lost
  BY <1>11, <1>17 DEF InFilePanel
<1> QED
  BY <1>1, <1>3, <1>6, <1>7, <1>8, <1>9, <1>10, <1>12, <1>13, <1>14, <1>15, <1>16, <1>17 DEF Next

LEMMA AccessNext ==
  ASSUME Inv, [Next]_vars
  PROVE  AccessOK'
<1>1. CASE BackgroundChange
  BY <1>1, DirsAssumption DEF Inv, AccessOK, BackgroundChange
<1>2. CASE UNCHANGED access
  BY <1>2 DEF Inv, AccessOK
<1>3. [Next]_vars => BackgroundChange \/ UNCHANGED access
  BY DEF Next, vars, MoveCursor, cx_files_cd, cx_files_cd_parent, CdAnywhere, cx_files_reread,
         cx_files_exchange, SavePosition, SortBoth, list_both_directories, InFilePanel,
         OpenDirPanel, filter_update_dir, OpenSplit, cx_dir_enter, cx_edit_left, cx_edit_right,
         Cancel
<1> QED
  BY <1>1, <1>2, <1>3

LEMMA InvNext == Inv /\ [Next]_vars => Inv'
<1>. SUFFICES ASSUME Inv, [Next]_vars PROVE Inv'
  OBVIOUS
<1>1. ListOK(dirlist') /\ FilePanelsOK'
  BY NextForm, StepFacts
<1>2. AccessOK' /\ DirPanelsOK'
  BY AccessNext, DirPanelsNext
<1> QED
  BY <1>1, <1>2 DEF Inv

LEMMA Invariant == Spec => []Inv
<1>1. Init => Inv
  BY InitInv
<1>2. Inv /\ [Next]_vars => Inv'
  BY InvNext
<1> QED
  BY <1>1, <1>2, PTL DEF Spec

-----------------------------------------------------------------------------
(* As many names as entries *)
LEMMA NamesCounted ==
  ASSUME NEW dl, ListOK(dl)
  PROVE  Cardinality(DirNames(dl)) = Len(dl)
<1>. DEFINE n == Len(dl)
            S == DirNames(dl)
            f == [i \in 1 .. n |-> dl[i].dirname]
<1>1. n \in Nat /\ DOMAIN dl = 1 .. n
  <2>1. n \in 1 .. SaveMax /\ SaveMax \in Nat /\ dl \in Seq(Entry)
    BY SizesAssumption DEF ListOK
  <2> QED
    BY <2>1
<1>2. f \in [1 .. n -> S]
  BY <1>1 DEF DirNames
<1>3. \A i, j \in 1 .. n : f[i] = f[j] => i = j
  BY <1>1 DEF ListOK
<1>4. \A d \in S : \E i \in 1 .. n : f[i] = d
  BY <1>1 DEF DirNames
<1>. HIDE DEF n, S, f
<1>5. ExistsBijection(1 .. n, S)
  BY <1>2, <1>3, <1>4 DEF ExistsBijection, Bijection, Injection, Surjection, IsInjective
<1>6. Cardinality(S) = n
  BY <1>1, <1>5, FS_CountingElements
<1> QED
  BY <1>6 DEF n, S

LEMMA InvTyped == Inv => TypeOK
<1>. SUFFICES ASSUME Inv PROVE TypeOK
  OBVIOUS
<1>1. access \in [Dirs -> {"ok", "noread", "gone"}]
  BY DEF Inv, AccessOK
<1>2. /\ dirlist \in Seq([dirname : Dirs, savefile : Names])
      /\ Len(dirlist) \in 1 .. SaveMax
      /\ Cardinality(DirNames(dirlist)) = Len(dirlist)
  BY NamesCounted DEF Inv, ListOK, Entry
<1>3. ppanel_file \in PanelIds /\ pf.dir \in DirNames(dirlist)
  BY DEF Inv, FilePanelsOK
<1>4. ASSUME NEW p \in PanelIds
      PROVE  /\ fpanel[p].dir \in Dirs /\ fpanel[p].expired \in BOOLEAN
             /\ fpanel[p].list \in {{}, Lists[fpanel[p].dir]}
             /\ fpanel[p].file \in IF fpanel[p].list = {} THEN {NoFile} ELSE fpanel[p].list
  BY DEF Inv, FilePanelsOK, PanelOK, PanelRecord
<1>5. mode \in {"FILE", "DIR", "SPLIT"} /\ (mode # "DIR" => dp = <<>>)
  BY DEF Inv, DirPanelsOK
<1>6. ToSet(dp) \subseteq DirNames(dirlist) \cup {Freed}
  BY DEF Inv, DirPanelsOK, ToSet
<1>7. IF mode = "SPLIT" THEN dps.name \in DirNames(dirlist) \cup {Freed}
      ELSE dps = NoSplit
  BY DEF Inv, DirPanelsOK
<1> QED
  BY <1>1, <1>2, <1>3, <1>4, <1>5, <1>6, <1>7 DEF TypeOK

(***************************************************************************)
(* The list of visited directories always has entries of directories only, *)
(* each directory once, and never more than SAVEDIR_ALLOC_MAX of them; the *)
(* directory of the primary panel is one of them, the cursor of each panel *)
(* is on a file that it lists, and each line of the directory panel shows  *)
(* a name of the list or memory that filepos_save() has freed.             *)
(***************************************************************************)
THEOREM DirListTyped == Spec => []TypeOK
BY Invariant, InvTyped, PTL

(***************************************************************************)
(* Freed memory is in an open directory panel only when the list is full:  *)
(* with room in the list, the arrow keys that change the directory under   *)
(* the panel never take a name away that the panel shows (filepos_save()). *)
(***************************************************************************)
THEOREM NamesStayValid == Spec => []NamesFreed
<1>1. Inv => NamesFreed
  BY DEF Inv, DirPanelsOK, NamesFreed, ToSet
<1> QED
  BY <1>1, Invariant, PTL

-----------------------------------------------------------------------------
(* What is forgotten *)

LEMMA ForgetsForm ==
  ASSUME Inv, [Next]_vars
  PROVE  LET touched == {pf.dir, other.dir, pf'.dir}
             rest(dl) == {x \in ToSet(dl) : x.dirname \notin touched}
         IN  /\ rest(dirlist') \subseteq rest(dirlist)
             /\ \A x \in rest(dirlist), y \in rest(dirlist') :
                  Ahead(dirlist, x, y) => Ahead(dirlist', x, y)
             /\ rest(dirlist') # rest(dirlist) => Len(dirlist') = SaveMax
             /\ DirNames(dirlist') \subseteq DirNames(dirlist) \cup touched
<1>. DEFINE touched == {pf.dir, other.dir, pf'.dir}
            rest(dl) == {x \in ToSet(dl) : x.dirname \notin touched}
<1>1. /\ ListOK(dirlist') /\ Forgets(dirlist, dirlist', touched)
  BY NextForm, StepFacts
<1>2. ListOK(dirlist)
  BY DEF Inv
<1>. HIDE DEF touched
<1>3. rest(dirlist') \subseteq rest(dirlist)
  BY <1>1 DEF Forgets
<1>4. ASSUME NEW x \in rest(dirlist), NEW y \in rest(dirlist'), Ahead(dirlist, x, y)
      PROVE  Ahead(dirlist', x, y)
  <2>1. y \in ToSet(dirlist)
    BY <1>3
  <2> QED
    BY <1>1, <1>4, <2>1 DEF Forgets
<1>5. rest(dirlist') # rest(dirlist) => Len(dirlist') = SaveMax
  BY <1>1, <1>3 DEF Forgets
<1>6. DirNames(dirlist') \subseteq DirNames(dirlist) \cup touched
  <2>1. /\ DirNames(dirlist') = {x.dirname : x \in ToSet(dirlist')}
        /\ DirNames(dirlist) = {x.dirname : x \in ToSet(dirlist)}
    BY <1>1, <1>2, NamesAre
  <2> QED
    BY <1>1, <2>1 DEF Forgets
<1> QED
  BY <1>3, <1>4, <1>5, <1>6 DEF touched

(***************************************************************************)
(* Whatever a key does: the entries of the directories that no panel was   *)
(* in or goes to stay as they are and keep their order, and none is        *)
(* dropped unless the list is full.                                        *)
(***************************************************************************)
THEOREM RecentStay == Spec => RecentFirst
<1>1. Inv /\ [Next]_vars =>
        [LET touched == {pf.dir, other.dir, pf'.dir}
             rest(dl) == {x \in ToSet(dl) : x.dirname \notin touched}
         IN  /\ rest(dirlist') \subseteq rest(dirlist)
             /\ \A x \in rest(dirlist), y \in rest(dirlist') :
                  Ahead(dirlist, x, y) => Ahead(dirlist', x, y)
             /\ rest(dirlist') # rest(dirlist) => Len(dirlist') = SaveMax
             /\ DirNames(dirlist') \subseteq DirNames(dirlist) \cup touched
        ]_dirlist
  BY ForgetsForm
<1> QED
  BY <1>1, Invariant, PTL DEF Spec, RecentFirst

-----------------------------------------------------------------------------
(* The positions that are remembered *)

(* The position in each directory that was left with chdir() is in the list,
   or it is that of the primary panel. *)
Placed ==
  /\ \A d \in Dirs \ DirNames(dirlist) : place[d] = NoFile
  /\ \A d \in DirNames(dirlist) \ unsaved :
       IF d = pf.dir /\ pf.file # NoFile THEN place[d] = pf.file
       ELSE place[d] # NoFile => Save(d, place[d]) \in ToSet(dirlist)

Settled(dl) ==
  \A d \in Dirs \ unsaved : place[d] # NoFile => Save(d, place[d]) \in ToSet(dl)

LEMMA FileListed == \A r : PanelOK(r) => (r.file = NoFile <=> r.list = {})
<1>. SUFFICES ASSUME NEW r, PanelOK(r) PROVE r.file = NoFile <=> r.list = {}
  OBVIOUS
<1>1. NoFile \notin r.list
  BY ListsAre DEF PanelOK, PanelRecord
<1> QED
  BY <1>1 DEF PanelOK

(* When the position in the primary panel has been saved, all are in the
   list. *)
LEMMA Settles ==
  ASSUME Inv, Placed, NEW dl, ListOK(dl), pf.dir \in DirNames(dl),
         \A d \in Dirs \ unsaved : (d # pf.dir \/ pf.file = NoFile) /\ place[d] # NoFile =>
           Save(d, place[d]) \in ToSet(dl)
  PROVE  /\ Settled(filepos_save(dl, pf))
         /\ pf.file # NoFile => Save(pf.dir, pf.file) \in ToSet(filepos_save(dl, pf))
<1>. DEFINE new == filepos_save(dl, pf)
<1>1. /\ PanelOK(pf) /\ Savable(pf) /\ pf.dir \in DirNames(dirlist)
      /\ (pf.file = NoFile <=> pf.list = {})
  BY PanelFacts, FileListed DEF Inv, FilePanelsOK
<1>2. /\ Save(pf.dir, Saved(dl, pf)) \in ToSet(new)
      /\ DirNames(new) = DirNames(dl)
  BY <1>1, SaveEntries, SaveNames
<1>3. ASSUME pf.file # NoFile PROVE Save(pf.dir, pf.file) \in ToSet(new)
  BY <1>1, <1>2, <1>3, SavedForm
<1>4. ASSUME NEW d \in Dirs \ unsaved, place[d] # NoFile
      PROVE  Save(d, place[d]) \in ToSet(new)
  <2>1. CASE d = pf.dir /\ pf.file # NoFile
    BY <1>1, <1>3, <2>1 DEF Placed
  <2>2. CASE d = pf.dir /\ pf.file = NoFile
    <3>1. Save(pf.dir, place[d]) \in ToSet(dl)
      BY <1>4, <2>2
    <3>2. Saved(dl, pf) = place[d]
      BY <1>1, <2>2, <3>1, SavedKnown
    <3> QED
      BY <1>2, <2>2, <3>2
  <2>3. CASE d # pf.dir
    <3>1. Save(d, place[d]) \in ToSet(dl)
      BY <1>4, <2>3
    <3>2. d \in DirNames(new)
      BY <1>2, <3>1, NamesAre DEF Save
    <3> QED
      BY <1>1, <2>3, <3>1, <3>2, Kept
  <2> QED
    BY <2>1, <2>2, <2>3
<1> QED
  BY <1>3, <1>4 DEF Settled

LEMMA SettlesList ==
  ASSUME Inv, Placed
  PROVE  /\ Settled(filepos_save(dirlist, pf))
         /\ pf.file # NoFile => Save(pf.dir, pf.file) \in ToSet(filepos_save(dirlist, pf))
<1>1. \A d \in Dirs \ unsaved : (d # pf.dir \/ pf.file = NoFile) /\ place[d] # NoFile =>
        Save(d, place[d]) \in ToSet(dirlist)
  BY DEF Placed
<1>2. ListOK(dirlist) /\ pf.dir \in DirNames(dirlist)
  BY DEF Inv, FilePanelsOK
<1> QED
  BY <1>1, <1>2, Settles

LEMMA SettledStays ==
  ASSUME NEW dl, ListOK(dl), Settled(dl), NEW r, Savable(r),
         NEW d \in Dirs \ unsaved, place[d] # NoFile, d \in DirNames(filepos_save(dl, r)),
         d = r.dir => r.list = {}
  PROVE  Save(d, place[d]) \in ToSet(filepos_save(dl, r))
<1>1. Save(d, place[d]) \in ToSet(dl)
  BY DEF Settled
<1>2. CASE d = r.dir
  <2>1. Saved(dl, r) = place[d]
    BY <1>1, <1>2, SavedKnown
  <2> QED
    BY <1>2, <2>1, SaveEntries
<1>3. CASE d # r.dir
  BY <1>1, <1>3, Kept
<1> QED
  BY <1>2, <1>3

(* A step after which the same panel is the primary one *)
LEMMA PlacedSame ==
  ASSUME Inv, Placed, ListOK(dirlist'), FilePanelsOK', NEW t, PanelOK(t), pf' = t, NEW o,
         SetPanels(ppanel_file, t, o),
         t.dir = pf.dir /\ t.file = NoFile /\ pf.file # NoFile =>
           Save(pf.dir, pf.file) \in ToSet(dirlist'),
         \A d \in DirNames(dirlist') \ unsaved :
           (d # t.dir \/ t.file = NoFile) /\ place[d] # NoFile =>
             Save(d, place[d]) \in ToSet(dirlist')
  PROVE  Placed'
<1>. DEFINE e == t.dir
            seen == LastSeen(t, pf)
<1>1. /\ place' = Noted(seen, t)
      /\ unsaved' = unsaved \ (IF seen.file = NoFile THEN {} ELSE {e})
  BY DEF SetPanels, pf
<1>2. DirNames(dirlist') \subseteq Dirs
  BY NamesAre
<1>3. seen.dir = e /\ (t.file # NoFile => seen = t)
  BY DEF LastSeen
<1>4. \A d \in Dirs \ DirNames(dirlist') : place'[d] = NoFile
  BY <1>1 DEF Noted
<1>5. \A d \in DirNames(dirlist') :
        place'[d] = IF d = e /\ seen.file # NoFile THEN seen.file ELSE place[d]
  <2>1. \A d \in DirNames(dirlist') :
          place'[d] = IF d = seen.dir /\ seen.file # NoFile THEN seen.file
                      ELSE IF d = t.dir /\ t.file # NoFile THEN t.file ELSE place[d]
    BY <1>1, <1>2 DEF Noted
  <2> QED
    BY <1>3, <2>1
<1>6. ASSUME NEW d \in DirNames(dirlist') \ unsaved'
      PROVE  IF d = pf'.dir /\ pf'.file # NoFile THEN place'[d] = pf'.file
             ELSE place'[d] # NoFile => Save(d, place'[d]) \in ToSet(dirlist')
  <2>1. CASE d = e /\ t.file # NoFile
    BY <1>3, <1>5, <2>1
  <2>2. CASE d = e /\ t.file = NoFile /\ seen.file # NoFile
    <3>1. seen = pf /\ pf.dir = e
      BY <2>2 DEF LastSeen
    <3>2. place'[d] = pf.file /\ Save(pf.dir, pf.file) \in ToSet(dirlist')
      BY <1>5, <2>2, <3>1
    <3> QED
      BY <2>2, <3>1, <3>2
  <2>3. CASE (d # e \/ t.file = NoFile) /\ (d # e \/ seen.file = NoFile)
    <3>1. d \notin unsaved /\ place'[d] = place[d]
      BY <1>1, <1>5, <2>3
    <3>2. ~(d = pf'.dir /\ pf'.file # NoFile)
      BY <2>3
    <3> QED
      BY <2>3, <3>1, <3>2
  <2> QED
    BY <2>1, <2>2, <2>3
<1> QED
  BY <1>4, <1>6 DEF Placed

LEMMA PlacedChanges ==
  ASSUME Inv, Placed, NEW d \in Dirs, Changes(d)
  PROVE  Placed'
<1>. DEFINE b == filepos_save(dirlist, pf)
            r == Moved(pf, d)
<1>1. /\ ListOK(b) /\ DirNames(b) = DirNames(dirlist)
      /\ Savable(r) /\ r.dir = d /\ dirlist' = filepos_save(b, r)
      /\ ListOK(dirlist') /\ d \in DirNames(dirlist')
      /\ \E x \in BOOLEAN : \E s, t : ReadsTo(b, r, s, t, x)
      /\ FilePanelsOK'
  BY ChangesFacts
<1>0. PICK x \in BOOLEAN : \E s, t : ReadsTo(b, r, s, t, x)
  BY <1>1
<1>2. PICK s, t : ReadsTo(b, r, s, t, x)
  BY <1>0
<1>3. /\ PanelOK(t) /\ t.dir = d
      /\ SetPanels(ppanel_file, t, [other EXCEPT !.expired = x])
  BY <1>1, <1>2 DEF ReadsTo
<1>4. PanelOK(pf) /\ PanelOK(other) /\ ppanel_file \in PanelIds /\ pf.dir \in DirNames(dirlist)
  BY PanelFacts DEF Inv, FilePanelsOK
<1>5. pf' = t
  <2>1. PanelOK([other EXCEPT !.expired = x])
    BY <1>4, Expires
  <2> QED
    BY <1>1, <1>3, <1>4, <2>1, SetPanelsForm
<1>6. Settled(b)
  BY SettlesList
<1>7. CASE d # pf.dir
  <2>1. r.list = {}
    BY <1>4, <1>7, MovedSavable
  <2>. HIDE DEF b, r
  <2>2. \A y \in DirNames(dirlist') \ unsaved : place[y] # NoFile =>
          Save(y, place[y]) \in ToSet(dirlist')
    <3>1. DirNames(dirlist') \subseteq Dirs
      BY <1>1, NamesAre
    <3> QED
      BY <1>1, <1>6, <2>1, <3>1, SettledStays
  <2> QED
    BY <1>1, <1>3, <1>5, <1>7, <2>2, PlacedSame
<1>8. CASE d = pf.dir
  <2>1. r = pf
    BY <1>4, <1>8, MovedSavable
  <2>. HIDE DEF b, r
  <2>2. \A y \in Dirs \ unsaved : place[y] # NoFile => Save(y, place[y]) \in ToSet(b)
    BY <1>6 DEF Settled
  <2>3. /\ Settled(dirlist')
        /\ pf.file # NoFile => Save(pf.dir, pf.file) \in ToSet(dirlist')
    BY <1>1, <1>4, <2>1, <2>2, Settles
  <2>4. \A y \in DirNames(dirlist') \ unsaved : place[y] # NoFile =>
          Save(y, place[y]) \in ToSet(dirlist')
    BY <1>1, <2>3, NamesAre DEF Settled
  <2> QED
    BY <1>1, <1>3, <1>5, <2>3, <2>4, PlacedSame
<1> QED
  BY <1>7, <1>8

LEMMA PlacedRereads ==
  ASSUME Inv, Placed, Rereads
  PROVE  Placed'
<1>1. dirlist' = filepos_save(dirlist, pf) /\ ListOK(dirlist') /\ FilePanelsOK'
      /\ DirNames(dirlist') = DirNames(dirlist)
  BY RereadsFacts DEF Rereads
<1>0. PICK x \in BOOLEAN : \E s :
        /\ PanelOK(s) /\ s.dir = pf.dir
        /\ SetPanels(ppanel_file, s, [other EXCEPT !.expired = x])
  BY RereadsFacts
<1>2. PICK s : /\ PanelOK(s) /\ s.dir = pf.dir
               /\ SetPanels(ppanel_file, s, [other EXCEPT !.expired = x])
  BY <1>0
<1>3. PanelOK(pf) /\ PanelOK(other) /\ ppanel_file \in PanelIds /\ pf.dir \in DirNames(dirlist)
  BY PanelFacts DEF Inv, FilePanelsOK
<1>4. pf' = s
  <2>1. PanelOK([other EXCEPT !.expired = x])
    BY <1>3, Expires
  <2> QED
    BY <1>1, <1>2, <1>3, <2>1, SetPanelsForm
<1>5. /\ Settled(dirlist')
      /\ pf.file # NoFile => Save(pf.dir, pf.file) \in ToSet(dirlist')
  BY <1>1, SettlesList
<1>6. \A y \in DirNames(dirlist') \ unsaved : place[y] # NoFile =>
        Save(y, place[y]) \in ToSet(dirlist')
  BY <1>1, <1>5, NamesAre DEF Settled
<1> QED
  BY <1>1, <1>2, <1>4, <1>5, <1>6, PlacedSame

LEMMA PlacedMoves ==
  ASSUME Inv, Placed, MovesCursor
  PROVE  Placed'
<1>1. dirlist' = dirlist /\ FilePanelsOK' /\ ListOK(dirlist')
  BY MovesCursorFacts DEF Inv
<1>2. PICK r : /\ PanelOK(r) /\ r.dir = pf.dir /\ r.file # NoFile
               /\ SetPanels(ppanel_file, r, other)
  BY MovesCursorFacts
<1>3. PanelOK(pf) /\ PanelOK(other) /\ ppanel_file \in PanelIds /\ pf.dir \in DirNames(dirlist)
  BY PanelFacts DEF Inv, FilePanelsOK
<1>4. pf' = r
  BY <1>1, <1>2, <1>3, SetPanelsForm
<1>5. \A y \in DirNames(dirlist') \ unsaved : y # r.dir /\ place[y] # NoFile =>
        Save(y, place[y]) \in ToSet(dirlist')
  BY <1>1, <1>2 DEF Placed
<1> QED
  BY <1>1, <1>2, <1>4, <1>5, PlacedSame

LEMMA PlacedExchanges ==
  ASSUME Inv, Placed, NEW d \in Dirs, Exchanges(d)
  PROVE  Placed'
<1>. DEFINE r == Moved(other, d)
            q == Other(ppanel_file)
<1>1. /\ Savable(r) /\ r.dir = d /\ dirlist' = filepos_save(dirlist, r)
      /\ ListOK(dirlist') /\ d \in DirNames(dirlist') /\ FilePanelsOK'
  BY ExchangesFacts
<1>0. PICK x \in BOOLEAN : \E s :
        /\ PanelOK(s) /\ s.dir = d
        /\ SetPanels(q, s, [pf EXCEPT !.expired = x])
  BY ExchangesFacts
<1>2. PICK s : /\ PanelOK(s) /\ s.dir = d
               /\ SetPanels(q, s, [pf EXCEPT !.expired = x])
  BY <1>0
<1>3. /\ PanelOK(pf) /\ PanelOK(other) /\ q \in PanelIds /\ q # ppanel_file
      /\ pf.dir \in DirNames(dirlist) /\ ListOK(dirlist)
      /\ (other.file = NoFile <=> other.list = {})
  BY PanelFacts, FileListed DEF Inv, FilePanelsOK
<1>4. pf' = s
  <2>1. PanelOK([pf EXCEPT !.expired = x])
    BY <1>3, Expires
  <2> QED
    BY <1>1, <1>2, <1>3, <2>1, SetPanelsForm
<1>. DEFINE seen == LastSeen(s, other)
<1>5. /\ place' = Noted(seen, s)
      /\ unsaved' = (unsaved \cup {pf.dir}) \ (IF seen.file = NoFile THEN {} ELSE {d})
  BY <1>2, <1>3 DEF SetPanels, other
<1>6. /\ seen.dir = d /\ (s.file # NoFile => seen = s)
      /\ s.file = NoFile /\ d = other.dir => seen = other
      /\ seen # s => seen = other /\ d = other.dir /\ s.file = NoFile
  BY <1>2 DEF LastSeen
<1>7. r.list # {} => d = other.dir
  BY <1>3, MovedSavable
<1>8. d = other.dir => r = other
  BY <1>3, MovedSavable
<1>. HIDE DEF r, q, seen
<1>9. DirNames(dirlist') \subseteq Dirs
  BY <1>1, NamesAre
<1>10. \A y \in Dirs \ DirNames(dirlist') : place'[y] = NoFile
  BY <1>5 DEF Noted
<1>11. \A y \in DirNames(dirlist') :
         place'[y] = IF y = d /\ seen.file # NoFile THEN seen.file ELSE place[y]
  <2>1. \A y \in DirNames(dirlist') :
          place'[y] = IF y = seen.dir /\ seen.file # NoFile THEN seen.file
                      ELSE IF y = s.dir /\ s.file # NoFile THEN s.file ELSE place[y]
    BY <1>5, <1>9 DEF Noted
  <2> QED
    BY <1>2, <1>6, <2>1
<1>12. \A y \in Dirs \ unsaved : y # pf.dir /\ place[y] # NoFile =>
         Save(y, place[y]) \in ToSet(dirlist) /\ y \in DirNames(dirlist)
  BY DEF Placed
<1>13. ASSUME NEW y \in DirNames(dirlist') \ unsaved'
       PROVE  IF y = pf'.dir /\ pf'.file # NoFile THEN place'[y] = pf'.file
              ELSE place'[y] # NoFile => Save(y, place'[y]) \in ToSet(dirlist')
  <2>1. CASE y = d /\ s.file # NoFile
    BY <1>4, <1>6, <1>11, <2>1
  <2>2. CASE y = d /\ s.file = NoFile /\ seen.file # NoFile
    <3>1. seen = other /\ d = other.dir
      BY <1>6, <2>2
    <3>2. place'[y] = other.file /\ other.list # {} /\ r = other
      BY <1>3, <1>8, <1>11, <2>2, <3>1
    <3>3. Saved(dirlist, r) = other.file
      BY <1>1, <1>3, <3>2, SavedForm
    <3>4. Save(d, other.file) \in ToSet(dirlist')
      BY <1>1, <1>3, <3>3, SaveEntries
    <3> QED
      BY <1>4, <2>2, <3>2, <3>4
  <2>3. CASE y = d /\ s.file = NoFile /\ seen.file = NoFile
    <3>1. y \notin unsaved /\ y # pf.dir /\ place'[y] = place[y]
      BY <1>5, <1>11, <2>3
    <3>2. r.list = {}
      <4>1. r.list # {} => other.file = NoFile /\ r = other
        BY <1>6, <1>7, <1>8, <2>3
      <4> QED
        BY <1>3, <4>1
    <3>3. ASSUME place[y] # NoFile PROVE Save(y, place[y]) \in ToSet(dirlist')
      <4>1. Save(y, place[y]) \in ToSet(dirlist)
        BY <1>9, <1>12, <3>1, <3>3
      <4>2. Saved(dirlist, r) = place[y]
        BY <1>1, <1>3, <2>3, <3>2, <4>1, SavedKnown
      <4> QED
        BY <1>1, <1>3, <2>3, <4>2, SaveEntries
    <3> QED
      BY <1>4, <2>3, <3>1, <3>3
  <2>4. CASE y # d
    <3>1. y \notin unsaved /\ y # pf.dir /\ place'[y] = place[y]
      BY <1>5, <1>11, <2>4
    <3>2. ASSUME place[y] # NoFile PROVE Save(y, place[y]) \in ToSet(dirlist')
      <4>1. Save(y, place[y]) \in ToSet(dirlist)
        BY <1>9, <1>12, <3>1, <3>2
      <4> QED
        BY <1>1, <1>3, <2>4, <4>1, Kept
    <3> QED
      BY <1>2, <1>4, <2>4, <3>1, <3>2
  <2> QED
    BY <2>1, <2>2, <2>3, <2>4
<1> QED
  BY <1>10, <1>13 DEF Placed

LEMMA PlacedBoth ==
  ASSUME Inv, Placed, SavesBoth
  PROVE  Placed'
<1>. DEFINE b == filepos_save(dirlist, pf)
<1>1. /\ ListOK(b) /\ dirlist' = filepos_save(b, other)
      /\ ListOK(dirlist') /\ FilePanelsOK' /\ pf'.dir = pf.dir
  BY SavesBothFacts
<1>2. PICK r, s : BothRead(b, r, s)
  BY SavesBothFacts
<1>3. /\ PanelOK(r) /\ r.dir = pf.dir /\ PanelOK(s) /\ s.dir = other.dir
      /\ s = other \/ (s.list # {} => s.file = Saved(b, other))
      /\ (s.file = NoFile <=> s.list = {})
  BY <1>2, FileListed DEF BothRead
<1>4. /\ PanelOK(pf) /\ PanelOK(other) /\ Savable(other) /\ ppanel_file \in PanelIds
      /\ (other.file = NoFile <=> other.list = {})
  BY PanelFacts, FileListed DEF Inv, FilePanelsOK
<1>. DEFINE seen == LastSeen(s, other)
<1>5. /\ fpanel' = [q \in PanelIds |-> IF q = ppanel_file THEN r ELSE s]
      /\ ppanel_file' = ppanel_file
      /\ place' = Noted(r, seen)
      /\ unsaved' = unsaved \ {x.dir : x \in {y \in {r, seen} : y.file # NoFile}}
  BY <1>2 DEF BothRead, SetBoth
<1>6. pf' = r
  BY <1>4, <1>5 DEF pf
<1>7. Settled(b)
  BY SettlesList
<1>8. /\ seen.dir = other.dir /\ (s.file # NoFile => seen = s)
      /\ (s.file = NoFile => seen = other)
  BY <1>3 DEF LastSeen
<1>. HIDE DEF b, seen
(* The other position is in the list. *)
<1>9. seen.file # NoFile => Saved(b, other) = seen.file
  <2>1. CASE s.file # NoFile /\ s # other
    BY <1>3, <1>8, <2>1
  <2>2. CASE s.file = NoFile \/ s = other
    <3>1. seen = other
      BY <1>8, <2>2
    <3>2. ASSUME other.file # NoFile PROVE Saved(b, other) = other.file
      BY <1>1, <1>4, <3>2, SavedForm
    <3> QED
      BY <3>1, <3>2
  <2> QED
    BY <2>1, <2>2
<1>10. Save(other.dir, Saved(b, other)) \in ToSet(dirlist')
  BY <1>1, <1>4, SaveEntries
<1>11. seen.file = NoFile => other.list = {}
  BY <1>4, <1>8
<1>12. DirNames(dirlist') \subseteq Dirs
  BY <1>1, NamesAre
<1>13. \A y \in Dirs \ DirNames(dirlist') : place'[y] = NoFile
  BY <1>5 DEF Noted
<1>14. \A y \in DirNames(dirlist') :
         place'[y] = IF y = pf.dir /\ r.file # NoFile THEN r.file
                     ELSE IF y = other.dir /\ seen.file # NoFile THEN seen.file
                     ELSE place[y]
  BY <1>3, <1>5, <1>8, <1>12 DEF Noted
<1>15. \A y \in unsaved \ unsaved' :
         (y = pf.dir /\ r.file # NoFile) \/ (y = other.dir /\ seen.file # NoFile)
  BY <1>3, <1>5, <1>8
<1>16. ASSUME NEW y \in DirNames(dirlist') \ unsaved'
       PROVE  IF y = pf'.dir /\ pf'.file # NoFile THEN place'[y] = pf'.file
              ELSE place'[y] # NoFile => Save(y, place'[y]) \in ToSet(dirlist')
  <2>1. CASE y = pf.dir /\ r.file # NoFile
    BY <1>3, <1>6, <1>14, <2>1
  <2>2. CASE ~(y = pf.dir /\ r.file # NoFile) /\ y = other.dir /\ seen.file # NoFile
    <3>1. place'[y] = seen.file
      BY <1>14, <2>2
    <3> QED
      BY <1>3, <1>6, <1>9, <1>10, <2>2, <3>1
  <2>3. CASE ~(y = pf.dir /\ r.file # NoFile) /\ ~(y = other.dir /\ seen.file # NoFile)
    <3>1. place'[y] = place[y] /\ y \notin unsaved
      BY <1>14, <1>15, <2>3
    <3>2. y = other.dir => other.list = {}
      BY <1>11, <2>3
    <3>3. ASSUME place[y] # NoFile PROVE Save(y, place[y]) \in ToSet(dirlist')
      BY <1>1, <1>4, <1>7, <1>12, <3>1, <3>2, <3>3, SettledStays
    <3> QED
      BY <1>3, <1>6, <2>3, <3>1, <3>3
  <2> QED
    BY <2>1, <2>2, <2>3
<1> QED
  BY <1>13, <1>16 DEF Placed

LEMMA PlacedNext ==
  ASSUME Inv, Placed, [Next]_vars
  PROVE  Placed'
<1>1. CASE Quiet
  BY <1>1 DEF Quiet, Placed, pf
<1> QED
  BY <1>1, NextForm, PlacedMoves, PlacedRereads, PlacedBoth, PlacedChanges, PlacedExchanges
     DEF StepForm

LEMMA PlacedInit == Init => Placed
<1>. SUFFICES ASSUME Init PROVE Placed
  OBVIOUS
<1>1. PICK d \in Dirs, e \in Dirs :
        /\ dirlist = <<Save(d, Up)>>
        /\ fpanel = <<[dir |-> d, list |-> Lists[d], file |-> Up, expired |-> FALSE],
                      NewPanel(e)>>
        /\ place = [x \in Dirs |-> IF x = d THEN Up ELSE NoFile]
  BY DEF Init
<1>2. DirNames(dirlist) = {d}
  <2>1. DOMAIN dirlist = {1} /\ dirlist[1] = Save(d, Up)
    BY <1>1
  <2> QED
    BY <2>1 DEF DirNames, Save
<1>3. pf.dir = d /\ pf.file = Up
  <2>1. fpanel[1] = [dir |-> d, list |-> Lists[d], file |-> Up, expired |-> FALSE]
    BY <1>1
  <2>2. ppanel_file = 1
    BY DEF Init
  <2> QED
    BY <2>1, <2>2 DEF pf
<1>4. Up # NoFile
  BY ListsAre
<1> QED
  BY <1>1, <1>2, <1>3, <1>4 DEF Placed

LEMMA PlacedAlways == Spec => []Placed
<1>1. Init => Placed
  BY PlacedInit
<1>2. Inv /\ Placed /\ [Next]_vars => Placed'
  BY PlacedNext
<1> QED
  BY <1>1, <1>2, Invariant, PTL DEF Spec

(* The position that a change of directory finds in the list *)
LEMMA ReturnsForm ==
  ASSUME Inv, Placed, [Next]_vars
  PROVE  Returns
<1>. SUFFICES ASSUME ppanel_file' = ppanel_file, pf'.dir # pf.dir,
                     pf'.dir \in DirNames(dirlist) \ unsaved, place[pf'.dir] \in pf'.list
              PROVE  \/ pf'.file = place[pf'.dir]
                     \/ pf'.dir = Parent(pf.dir) /\ pf'.file = base_name(pf.dir)
  BY DEF Returns
<1>1. \E d \in Dirs : Changes(d)
  <2>1. ~Quiet
    BY DEF Quiet, pf
  <2>2. ~MovesCursor /\ ~Rereads /\ ~SavesBoth
    BY MovesCursorFacts, RereadsFacts, SavesBothFacts
  <2>3. \A d \in Dirs : ~Exchanges(d)
    <3>1. SUFFICES ASSUME NEW d \in Dirs, Exchanges(d) PROVE FALSE
      OBVIOUS
    <3>2. ppanel_file' = Other(ppanel_file)
      BY <3>1 DEF Exchanges, SetPanels
    <3> QED
      BY <3>2, PanelFacts DEF Inv
  <2> QED
    BY <2>1, <2>2, <2>3, NextForm DEF StepForm
<1>2. PICK d \in Dirs : Changes(d)
  BY <1>1
<1>. DEFINE b == filepos_save(dirlist, pf)
            r == Moved(pf, d)
<1>3. /\ ListOK(b) /\ Savable(r) /\ r.dir = d /\ pf'.dir = d
      /\ d \in DirNames(dirlist')
      /\ \E x \in BOOLEAN : \E s, t : ReadsTo(b, r, s, t, x)
  BY <1>2, ChangesFacts
<1>0. PICK x \in BOOLEAN : \E s, t : ReadsTo(b, r, s, t, x)
  BY <1>3
<1>4. PICK s, t : ReadsTo(b, r, s, t, x)
  BY <1>0
<1>5. /\ PanelOK(pf) /\ PanelOK(other) /\ Savable(pf) /\ ppanel_file \in PanelIds
      /\ ListOK(dirlist)
      /\ pf.dir \in DirNames(dirlist)
  BY PanelFacts DEF Inv, FilePanelsOK
<1>6. /\ PanelOK(t) /\ Arrives(d, s, t) /\ t.list = s.list
      /\ (s.list # {} => s.file = Saved(b, r))
      /\ SetPanels(ppanel_file, t, [other EXCEPT !.expired = x])
  BY <1>3, <1>4 DEF ReadsTo
<1>7. pf' = t
  <2>1. fpanel' = [q \in PanelIds |-> IF q = ppanel_file THEN t
                                      ELSE [other EXCEPT !.expired = x]]
    BY <1>6 DEF SetPanels
  <2> QED
    BY <1>5, <2>1 DEF pf
<1>8. place[d] # NoFile
  BY <1>3, <1>6, <1>7, ListsAre DEF PanelOK, PanelRecord
<1>9. Save(d, place[d]) \in ToSet(b)
  <2>1. Settled(b)
    BY SettlesList
  <2> QED
    BY <1>3, <1>8, <2>1 DEF Settled
<1>10. Saved(b, r) = place[d]
  <2>1. r.list = {}
    BY <1>3, <1>5, MovedSavable
  <2>. HIDE DEF b, r
  <2> QED
    BY <1>3, <1>9, <2>1, SavedKnown
<1>11. CASE t = s
  BY <1>3, <1>6, <1>7, <1>10, <1>11
<1>12. CASE /\ d = Parent(pf.dir) /\ base_name(pf.dir) \in s.list
            /\ t = [s EXCEPT !.file = base_name(pf.dir)]
  <2>1. PanelOK(s)
    BY <1>4 DEF ReadsTo
  <2>2. t.file = base_name(pf.dir)
    BY <1>12, <2>1, CursorSet
  <2> QED
    BY <1>3, <1>7, <1>12, <2>2
<1> QED
  BY <1>6, <1>11, <1>12 DEF Arrives

(***************************************************************************)
(* When a panel enters a remembered directory, after whatever keys and     *)
(* whatever happened to the directories: the cursor returns to the file    *)
(* where it was last, if that file is listed; coming from a subdirectory,  *)
(* it may be on that subdirectory.                                         *)
(***************************************************************************)
THEOREM PositionsReturn == Spec => PlaceRestored
<1>1. Inv /\ Placed /\ [Next]_vars => [Returns]_vars
  BY ReturnsForm
<1> QED
  BY <1>1, Invariant, PlacedAlways, PTL DEF Spec, PlaceRestored


-----------------------------------------------------------------------------
(* Names of directories and their order *)

Str == Seq(Nat \ {0})

LEMMA NamesInStr ==
  \A d \in Dirs : d \in Str /\ Len(d) \in Nat \ {0} /\ Char(d, 0) = Slash
<1>. SUFFICES ASSUME NEW d \in Dirs
              PROVE  d \in Str /\ Len(d) \in Nat \ {0} /\ Char(d, 0) = Slash
  OBVIOUS
<1>1. d \in Str /\ d # <<>> /\ d[1] = Slash
  BY DirsAssumption DEF Str
<1>2. Len(d) \in Nat \ {0}
  BY <1>1 DEF Str
<1> QED
  BY <1>1, <1>2 DEF Char

LEMMA CharIs ==
  ASSUME NEW d \in Str, NEW i \in Nat
  PROVE  /\ Char(d, i) \in Nat /\ (Char(d, i) = 0 <=> i >= Len(d))
         /\ Len(d) \in Nat /\ (i < Len(d) => Char(d, i) = d[i + 1])
BY DEF Str, Char

(* The first character in which two names differ *)
Differ(d, e, n) ==
  /\ n \in Nat /\ Char(d, n) # Char(e, n)
  /\ \A i \in 0 .. n - 1 : Char(d, i) = Char(e, i)

LEMMA SameChars ==
  ASSUME NEW d \in Str, NEW e \in Str, \A i \in Nat : Char(d, i) = Char(e, i)
  PROVE  d = e
<1>1. Len(d) \in Nat /\ Len(e) \in Nat
  BY CharIs
<1>2. Len(d) <= Len(e)
  BY <1>1, CharIs
<1>3. Len(e) <= Len(d)
  BY <1>1, CharIs
<1>4. Len(d) = Len(e)
  BY <1>1, <1>2, <1>3
<1>5. ASSUME NEW i \in 1 .. Len(d) PROVE d[i] = e[i]
  <2>1. i - 1 \in Nat /\ i - 1 < Len(d) /\ i - 1 < Len(e) /\ (i - 1) + 1 = i
    BY <1>1, <1>4
  <2>2. Char(d, i - 1) = d[i] /\ Char(e, i - 1) = e[i]
    BY <2>1, CharIs
  <2> QED
    BY <2>1, <2>2
<1> QED
  BY <1>4, <1>5 DEF Str

LEMMA DifferSomewhere ==
  ASSUME NEW d \in Str, NEW e \in Str, d # e
  PROVE  \E n \in Nat : Differ(d, e, n)
<1>. DEFINE T == {i \in Nat : Char(d, i) # Char(e, i)}
<1>1. T # {}
  BY SameChars
<1>2. PICK n \in T : \A i \in T : n <= i
  BY <1>1, LeastNatural
<1>3. \A i \in 0 .. n - 1 : Char(d, i) = Char(e, i)
  BY <1>2
<1> QED
  BY <1>2, <1>3 DEF Differ

LEMMA DifferAt ==
  ASSUME NEW d \in Str, NEW e \in Str, NEW n, Differ(d, e, n)
  PROVE  /\ n \in Nat /\ n <= Len(d) /\ n <= Len(e) /\ (n < Len(d) \/ n < Len(e))
         /\ Differ(e, d, n)
         /\ \A m : Differ(d, e, m) => m = n
<1>1. n \in Nat /\ Len(d) \in Nat /\ Len(e) \in Nat
  BY CharIs DEF Differ
<1>2. n <= Len(d)
  <2>1. SUFFICES ASSUME n > Len(d) PROVE FALSE
    BY <1>1
  <2>2. Char(e, Len(d)) = 0
    BY <1>1, <2>1, CharIs DEF Differ
  <2>3. Char(d, n) = 0 /\ Char(e, n) = 0
    BY <1>1, <2>1, <2>2, CharIs
  <2> QED
    BY <2>3 DEF Differ
<1>3. n <= Len(e)
  <2>1. SUFFICES ASSUME n > Len(e) PROVE FALSE
    BY <1>1
  <2>2. Char(d, Len(e)) = 0
    BY <1>1, <2>1, CharIs DEF Differ
  <2>3. Char(d, n) = 0 /\ Char(e, n) = 0
    BY <1>1, <2>1, <2>2, CharIs
  <2> QED
    BY <2>3 DEF Differ
<1>4. n < Len(d) \/ n < Len(e)
  <2>1. SUFFICES ASSUME n >= Len(d), n >= Len(e) PROVE FALSE
    BY <1>1
  <2>2. Char(d, n) = 0 /\ Char(e, n) = 0
    BY <1>1, <2>1, CharIs
  <2> QED
    BY <2>2 DEF Differ
<1>5. ASSUME NEW m, Differ(d, e, m) PROVE m = n
  <2>1. ~(m < n) /\ ~(n < m) /\ m \in Nat
    BY <1>1, <1>5 DEF Differ
  <2> QED
    BY <1>1, <2>1
<1>6. Differ(e, d, n)
  BY DEF Differ
<1> QED
  BY <1>1, <1>2, <1>3, <1>4, <1>5, <1>6

(* strcmp() orders the names. *)
LEMMA PrecedesAt ==
  ASSUME NEW d \in Str, NEW e \in Str, NEW n, Differ(d, e, n)
  PROVE  Precedes(d, e) <=> Char(d, n) < Char(e, n)
<1>1. n \in Nat /\ n <= Len(d) /\ Len(d) \in Nat
  BY DifferAt, CharIs
<1>2. ASSUME Precedes(d, e) PROVE Char(d, n) < Char(e, n)
  <2>1. PICK i \in 0 .. Len(d) : /\ \A j \in 0 .. i - 1 : Char(d, j) = Char(e, j)
                                 /\ Char(d, i) < Char(e, i)
    BY <1>2 DEF Precedes
  <2>2. i \in Nat /\ Char(d, i) # Char(e, i)
    BY <1>1, <2>1, CharIs
  <2>3. Differ(d, e, i)
    BY <2>1, <2>2 DEF Differ
  <2> QED
    BY <2>1, <2>3, DifferAt
<1>3. ASSUME Char(d, n) < Char(e, n) PROVE Precedes(d, e)
  BY <1>1, <1>3 DEF Precedes, Differ
<1> QED
  BY <1>2, <1>3

LEMMA PrecedesOrder ==
  /\ \A d \in Str : ~Precedes(d, d)
  /\ \A d, e \in Str : d # e => Precedes(d, e) \/ Precedes(e, d)
  /\ \A d, e \in Str : Precedes(d, e) => ~Precedes(e, d)
  /\ \A d, e, f \in Str : Precedes(d, e) /\ Precedes(e, f) => Precedes(d, f)
<1>1. ASSUME NEW d \in Str PROVE ~Precedes(d, d)
  <2>1. SUFFICES ASSUME NEW i \in 0 .. Len(d), Char(d, i) < Char(d, i) PROVE FALSE
    BY DEF Precedes
  <2>2. Len(d) \in Nat
    BY CharIs
  <2>3. Char(d, i) \in Nat
    BY <2>2, CharIs
  <2> QED
    BY <2>1, <2>3
<1>2. ASSUME NEW d \in Str, NEW e \in Str, d # e
      PROVE  Precedes(d, e) <=> ~Precedes(e, d)
  <2>1. PICK n \in Nat : Differ(d, e, n)
    BY <1>2, DifferSomewhere
  <2>2. Differ(e, d, n)
    BY <2>1, DifferAt
  <2>3. Char(d, n) \in Nat /\ Char(e, n) \in Nat /\ Char(d, n) # Char(e, n)
    BY <2>1, CharIs DEF Differ
  <2>4. Precedes(d, e) <=> Char(d, n) < Char(e, n)
    BY <2>1, PrecedesAt
  <2>5. Precedes(e, d) <=> Char(e, n) < Char(d, n)
    BY <2>2, PrecedesAt
  <2> QED
    BY <2>3, <2>4, <2>5
<1>3. ASSUME NEW d \in Str, NEW e \in Str, NEW f \in Str, Precedes(d, e), Precedes(e, f)
      PROVE  Precedes(d, f)
  <2>0. Len(d) \in Nat /\ Len(e) \in Nat
    BY CharIs
  <2>1. PICK i \in 0 .. Len(d) : /\ \A j \in 0 .. i - 1 : Char(d, j) = Char(e, j)
                                 /\ Char(d, i) < Char(e, i)
    BY <1>3 DEF Precedes
  <2>2. PICK k \in 0 .. Len(e) : /\ \A j \in 0 .. k - 1 : Char(e, j) = Char(f, j)
                                 /\ Char(e, k) < Char(f, k)
    BY <1>3 DEF Precedes
  <2>3. i \in Nat /\ k \in Nat
    BY <2>0
  <2>. DEFINE m == IF i <= k THEN i ELSE k
  <2>4. m \in Nat /\ m <= i /\ m <= k /\ m <= Len(d)
    BY <2>0, <2>3
  <2>5. \A j \in 0 .. m - 1 : Char(d, j) = Char(f, j)
    BY <2>1, <2>2, <2>3
  <2>6. Char(d, m) < Char(f, m)
    <3>1. Char(d, m) \in Nat /\ Char(e, m) \in Nat /\ Char(f, m) \in Nat
      BY <2>4, CharIs
    <3>2. CASE i = k
      BY <2>1, <2>2, <3>1, <3>2
    <3>3. CASE i < k
      BY <2>1, <2>2, <2>3, <3>3
    <3>4. CASE k < i
      BY <2>1, <2>2, <2>3, <3>4
    <3> QED
      BY <2>3, <3>2, <3>3, <3>4
  <2>7. m \in 0 .. Len(d)
    BY <2>0, <2>4
  <2>. HIDE DEF m
  <2> QED
    BY <2>5, <2>6, <2>7 DEF Precedes
<1>4. \A d, e \in Str : Precedes(d, e) => ~Precedes(e, d)
  BY <1>1, <1>2
<1> QED
  BY <1>1, <1>2, <1>3, <1>4

-----------------------------------------------------------------------------
(* common_part(), check_subdir() and qcmp() *)

(* The directory d is below e: its name goes on with a slash. *)
Under(d, e) ==
  /\ Len(e) < Len(d) /\ Char(d, Len(e)) = Slash
  /\ \A i \in 0 .. Len(e) - 1 : Char(d, i) = Char(e, i)

LEMMA UnderDiffers ==
  ASSUME NEW d \in Str, NEW e \in Str, Under(d, e)
  PROVE  d # e /\ Differ(d, e, Len(e))
<1>1. Len(d) \in Nat /\ Len(e) \in Nat /\ Char(e, Len(e)) = 0
  BY CharIs
<1>2. Slash # 0
  BY DirsAssumption
<1> QED
  BY <1>1, <1>2 DEF Under, Differ

LEMMA UnderOrder ==
  ASSUME NEW d \in Str, NEW e \in Str
  PROVE  /\ ~Under(d, d)
         /\ Under(d, e) => ~Under(e, d) /\ Precedes(e, d)
         /\ \A f \in Str : Under(d, e) /\ Under(e, f) => Under(d, f)
         /\ \A f \in Str : Under(d, e) /\ Under(d, f) /\ e # f => Under(e, f) \/ Under(f, e)
<1>1. Len(d) \in Nat /\ Len(e) \in Nat
  BY CharIs
<1>2. ~Under(d, d)
  BY <1>1 DEF Under
<1>3. ASSUME Under(d, e) PROVE ~Under(e, d) /\ Precedes(e, d)
  <2>1. ~Under(e, d)
    BY <1>1, <1>3 DEF Under
  <2>2. Differ(e, d, Len(e))
    BY <1>3, UnderDiffers, DifferAt
  <2>3. Char(e, Len(e)) = 0 /\ Char(d, Len(e)) = Slash /\ Slash \in Nat \ {0}
    BY <1>1, <1>3, CharIs, DirsAssumption DEF Under
  <2> QED
    BY <2>1, <2>2, <2>3, PrecedesAt
<1>4. ASSUME NEW f \in Str, Under(d, e), Under(e, f) PROVE Under(d, f)
  <2>1. Len(f) \in Nat
    BY CharIs
  <2> QED
    BY <1>1, <1>4, <2>1 DEF Under
<1>5. ASSUME NEW f \in Str, Under(d, e), Under(d, f), e # f
      PROVE  Under(e, f) \/ Under(f, e)
  <2>1. Len(f) \in Nat /\ Char(e, Len(e)) = 0 /\ Char(f, Len(f)) = 0
    BY <1>1, CharIs
  <2>2. CASE Len(f) < Len(e)
    BY <1>1, <1>5, <2>1, <2>2 DEF Under
  <2>3. CASE Len(e) < Len(f)
    BY <1>1, <1>5, <2>1, <2>3 DEF Under
  <2>4. CASE Len(e) = Len(f)
    <3>1. ASSUME NEW i \in Nat PROVE Char(e, i) = Char(f, i)
      <4>1. CASE i < Len(e)
        BY <1>1, <1>5, <2>4, <4>1 DEF Under
      <4>2. CASE i >= Len(e)
        BY <2>4, <4>2, CharIs
      <4> QED
        BY <1>1, <4>1, <4>2
    <3> QED
      BY <1>5, <3>1, SameChars
  <2> QED
    BY <1>1, <2>1, <2>2, <2>3, <2>4
<1> QED
  BY <1>2, <1>3, <1>4, <1>5

(* Below() is the same, but for the root directory. *)
LEMMA BelowIsUnder ==
  ASSUME NEW d \in Dirs, NEW e \in Dirs
  PROVE  /\ d # Root => (Below(e, d) <=> Under(e, d))
         /\ Under(e, d) => Below(e, d)
<1>1. /\ d \in Str /\ e \in Str /\ Len(d) \in Nat /\ Len(e) \in Nat
      /\ Slash \in Nat \ {0}
  BY NamesInStr, DirsAssumption
<1>. DEFINE s == d \o <<Slash>>
<1>2. /\ s \in Str /\ Len(s) = Len(d) + 1 /\ s[Len(d) + 1] = Slash
      /\ \A i \in 1 .. Len(d) : s[i] = d[i]
  BY <1>1 DEF Str
<1>. DEFINE m == Len(s)
<1>3. m = Len(d) + 1 /\ m \in Nat
  BY <1>1, <1>2
<1>4. IsPrefix(s, e) <=> m <= Len(e) /\ \A i \in 1 .. m : s[i] = e[i]
  <2>1. ASSUME m <= Len(e), \A i \in 1 .. m : s[i] = e[i]
        PROVE  SubSeq(s, 1, m) = SubSeq(e, 1, m)
    BY <1>1, <1>2, <1>3, <2>1 DEF Str
  <2>2. ASSUME m <= Len(e), SubSeq(s, 1, m) = SubSeq(e, 1, m), NEW i \in 1 .. m
        PROVE  s[i] = e[i]
    <3>1. SubSeq(s, 1, m)[i] = s[i] /\ SubSeq(e, 1, m)[i] = e[i]
      BY <1>1, <1>2, <1>3, <2>2 DEF Str
    <3> QED
      BY <2>2, <3>1
  <2> QED
    BY <2>1, <2>2 DEF IsPrefix
<1>. HIDE DEF s, m
<1>5. ASSUME m <= Len(e)
      PROVE  (\A i \in 1 .. m : s[i] = e[i]) <=>
               /\ Char(e, Len(d)) = Slash
               /\ \A i \in 0 .. Len(d) - 1 : Char(e, i) = Char(d, i)
  <2>1. Char(e, Len(d)) = e[m] /\ s[m] = Slash
    <3>1. Len(d) < Len(e)
      BY <1>1, <1>3, <1>5
    <3>2. Char(e, Len(d)) = e[Len(d) + 1]
      BY <1>1, <3>1, CharIs
    <3> QED
      BY <1>2, <1>3, <3>2
  <2>2. \A i \in 0 .. Len(d) - 1 : Char(e, i) = e[i + 1] /\ Char(d, i) = s[i + 1]
    <3>. TAKE i \in 0 .. Len(d) - 1
    <3>1. i + 1 \in 1 .. Len(d) /\ i \in Nat /\ i < Len(e) /\ i < Len(d)
      BY <1>1, <1>3, <1>5
    <3>2. Char(e, i) = e[i + 1]
      BY <1>1, <3>1, CharIs
    <3>3. Char(d, i) = d[i + 1]
      BY <1>1, <3>1, CharIs
    <3> QED
      BY <1>2, <3>1, <3>2, <3>3
  <2>3. ASSUME \A i \in 1 .. m : s[i] = e[i], NEW i \in 0 .. Len(d) - 1
        PROVE  Char(e, i) = Char(d, i)
    <3>1. i + 1 \in 1 .. m
      BY <1>1, <1>3
    <3> QED
      BY <2>2, <2>3, <3>1
  <2>4. ASSUME Char(e, Len(d)) = Slash,
               \A i \in 0 .. Len(d) - 1 : Char(e, i) = Char(d, i), NEW i \in 1 .. m
        PROVE  s[i] = e[i]
    <3>1. CASE i = m
      BY <2>1, <2>4, <3>1
    <3>2. CASE i # m
      <4>1. i - 1 \in 0 .. Len(d) - 1 /\ (i - 1) + 1 = i
        BY <1>1, <1>3, <3>2
      <4>2. Char(e, i - 1) = e[(i - 1) + 1] /\ Char(d, i - 1) = s[(i - 1) + 1]
        BY <2>2, <4>1
      <4> QED
        BY <2>4, <4>1, <4>2
    <3> QED
      BY <3>1, <3>2
  <2>5. m \in 1 .. m
    BY <1>1, <1>3
  <2> QED
    BY <2>1, <2>3, <2>4, <2>5
<1>6. m <= Len(e) <=> Len(d) < Len(e)
  BY <1>1, <1>3
<1>7. IsPrefix(s, e) <=> Under(e, d)
  BY <1>4, <1>5, <1>6 DEF Under
<1>8. Under(e, d) => e # d
  BY <1>1, UnderDiffers
<1> QED
  BY <1>7, <1>8 DEF Below, s

LEMMA UnderAt ==
  ASSUME NEW d \in Str, NEW e \in Str, NEW n, Differ(d, e, n)
  PROVE  Under(d, e) <=> n = Len(e) /\ Char(d, n) \in {Slash, 0}
<1>1. /\ n \in Nat /\ Len(d) \in Nat /\ Len(e) \in Nat /\ n <= Len(d) /\ n <= Len(e)
      /\ (n < Len(d) \/ n < Len(e))
  BY DifferAt, CharIs
<1>2. ASSUME Under(d, e) PROVE n = Len(e) /\ Char(d, n) \in {Slash, 0}
  <2>1. n = Len(e)
    BY <1>2, UnderDiffers, DifferAt
  <2> QED
    BY <1>2, <2>1 DEF Under
<1>3. ASSUME n = Len(e), Char(d, n) \in {Slash, 0} PROVE Under(d, e)
  <2>1. Len(e) < Len(d)
    BY <1>1, <1>3
  <2>2. Char(d, n) # 0
    BY <1>1, <1>3, <2>1, CharIs
  <2> QED
    BY <1>3, <2>1, <2>2 DEF Differ, Under
<1> QED
  BY <1>2, <1>3

LEMMA CommonPart ==
  ASSUME NEW d \in Str, NEW e \in Str, Char(d, 0) = Slash, Char(e, 0) = Slash,
         NEW n, Differ(d, e, n)
  PROVE  LET c == common_part(d, e)
         IN  IF Under(d, e) \/ Under(e, d) THEN c = n
             ELSE /\ c \in Nat /\ c < n /\ Char(d, c) = Slash
                  /\ \A i \in c + 1 .. n - 1 : Char(d, i) # Slash
<1>. DEFINE T == {i \in 0 .. Len(d) : i = Len(d) \/ Char(d, i) # Char(e, i)}
            S == {i \in 0 .. n - 1 : Char(d, i) = Slash} \cup {0}
<1>1. /\ n \in Nat /\ Len(d) \in Nat /\ Len(e) \in Nat /\ n <= Len(d) /\ n <= Len(e)
      /\ Differ(e, d, n)
  BY DifferAt, CharIs
<1>2. n # 0
  BY DEF Differ
<1>3. Min(T) = n
  <2>1. n \in T /\ T \subseteq Nat
    BY <1>1 DEF Differ
  <2>2. Min(T) \in T /\ Min(T) <= n
    BY <2>1, MinIn
  <2>. DEFINE m == Min(T)
  <2>3. /\ m \in 0 .. Len(d) /\ m <= n
        /\ m = Len(d) \/ Char(d, m) # Char(e, m)
    BY <2>2
  <2>. HIDE DEF m
  <2>4. ASSUME m < n PROVE FALSE
    <3>1. m \in 0 .. n - 1
      BY <1>1, <2>3, <2>4
    <3>2. Char(d, m) = Char(e, m)
      BY <3>1 DEF Differ
    <3>3. m = Len(d)
      BY <2>3, <3>2
    <3> QED
      BY <1>1, <2>4, <3>3
  <2>5. m = n
    BY <1>1, <2>3, <2>4
  <2> QED
    BY <2>5 DEF m
<1>4. common_part(d, e) =
        IF \/ n = Len(d) /\ Char(e, n) \in {Slash, 0}
           \/ n = Len(e) /\ Char(d, n) \in {Slash, 0}
        THEN n ELSE Max(S)
  BY <1>3 DEF common_part
<1>5. /\ Under(d, e) <=> n = Len(e) /\ Char(d, n) \in {Slash, 0}
      /\ Under(e, d) <=> n = Len(d) /\ Char(e, n) \in {Slash, 0}
  BY <1>1, UnderAt
<1>6. /\ Max(S) \in Nat /\ Max(S) < n /\ Char(d, Max(S)) = Slash
      /\ \A i \in Max(S) + 1 .. n - 1 : Char(d, i) # Slash
  <2>1. S \subseteq 0 .. n - 1 /\ S # {} /\ n - 1 \in Nat
    BY <1>1, <1>2
  <2>2. Max(S) \in S /\ \A j \in S : Max(S) >= j
    BY <2>1, MaxIn
  <2>3. Char(d, Max(S)) = Slash
    BY <2>2
  <2>. DEFINE m == Max(S)
  <2>4. m \in Nat /\ m < n
    BY <1>1, <2>1, <2>2
  <2>5. ASSUME NEW i \in m + 1 .. n - 1 PROVE Char(d, i) # Slash
    <3>1. i \in 0 .. n - 1 /\ ~(m >= i)
      BY <1>1, <2>4
    <3>2. i \notin S
      BY <2>2, <3>1
    <3> QED
      BY <3>1, <3>2
  <2>. HIDE DEF m
  <2> QED
    BY <2>3, <2>4, <2>5 DEF m
<1> QED
  BY <1>4, <1>5, <1>6

LEMMA SubdirIs ==
  ASSUME NEW d \in Str, NEW e \in Str, Char(d, 0) = Slash, Char(e, 0) = Slash
  PROVE  /\ check_subdir(d, e) = 1 <=> Under(d, e)
         /\ check_subdir(d, e) = -1 <=> Under(e, d)
<1>. DEFINE c == common_part(d, e)
<1>0. Len(d) \in Nat /\ Len(e) \in Nat /\ Slash # 0
  BY CharIs, DirsAssumption
<1>1. CASE d = e
  <2>1. Char(d, c) = Char(e, c)
    BY <1>1
  <2>2. check_subdir(d, e) = 0
    BY <2>1 DEF check_subdir
  <2> QED
    BY <1>1, <2>2, UnderOrder
<1>2. CASE d # e
  <2>1. PICK n \in Nat : Differ(d, e, n)
    BY <1>2, DifferSomewhere
  <2>2. CASE Under(d, e)
    <3>1. c = Len(e)
      BY <2>1, <2>2, CommonPart, UnderDiffers
    <3>2. Char(e, c) = 0 /\ Char(d, c) = Slash
      BY <1>0, <2>2, <3>1, CharIs DEF Under
    <3>. HIDE DEF c
    <3>3. check_subdir(d, e) = 1
      BY <1>0, <3>2 DEF check_subdir, c
    <3> QED
      BY <2>2, <3>3, UnderOrder
  <2>3. CASE Under(e, d)
    <3>1. Differ(e, d, Len(d))
      BY <2>3, UnderDiffers
    <3>2. Differ(d, e, Len(d))
      BY <3>1, DifferAt
    <3>3. c = Len(d)
      BY <2>3, <3>2, CommonPart
    <3>4. Char(d, c) = 0 /\ Char(e, c) = Slash
      BY <1>0, <2>3, <3>3, CharIs DEF Under
    <3>. HIDE DEF c
    <3>5. check_subdir(d, e) = -1
      BY <1>0, <3>4 DEF check_subdir, c
    <3> QED
      BY <2>3, <3>5, UnderOrder
  <2>4. CASE ~Under(d, e) /\ ~Under(e, d)
    <3>1. c \in Nat /\ c < n /\ Char(d, c) = Slash
      BY <2>1, <2>4, CommonPart
    <3>2. Char(e, c) = Slash
      BY <2>1, <3>1 DEF Differ
    <3>. HIDE DEF c
    <3>3. check_subdir(d, e) = 0
      BY <1>0, <3>1, <3>2 DEF check_subdir, c
    <3> QED
      BY <2>4, <3>3
  <2> QED
    BY <2>2, <2>3, <2>4
<1> QED
  BY <1>1, <1>2

(* The part of a name that qcmp() copies has the character in which the
   names differ. *)
LEMMA ComponentIs ==
  ASSUME NEW x \in Str, NEW c \in Nat, NEW n \in Nat, c < n, n <= Len(x),
         \A i \in c + 1 .. n - 1 : Char(x, i) # Slash
  PROVE  LET y == Component(x, c)
         IN  /\ y \in Str /\ Char(y, n - c - 1) = Char(x, n)
             /\ \A i \in 0 .. n - c - 2 : Char(y, i) = Char(x, c + 1 + i)
<1>. DEFINE T == {i \in c + 1 .. Len(x) : i = Len(x) \/ Char(x, i) = Slash}
            m == Min(T)
            k == Min({Len(x), c + 1 + m})
            y == Component(x, c)
<1>1. Len(x) \in Nat
  BY CharIs
<1>2. m \in T
  <2>1. T \subseteq Nat /\ Len(x) \in T
    BY <1>1
  <2>. HIDE DEF T
  <2> QED
    BY <2>1, MinIn
<1>3. m \in Nat /\ m >= n
  <2>1. m \in c + 1 .. Len(x) /\ (m = Len(x) \/ Char(x, m) = Slash)
    BY <1>2
  <2>. HIDE DEF m
  <2>2. m < n => m \in c + 1 .. n - 1 /\ m # Len(x)
    BY <1>1, <2>1
  <2> QED
    BY <1>1, <2>1, <2>2
<1>. HIDE DEF m
<1>4. k \in Nat /\ k <= Len(x) /\ k >= n /\ (k = Len(x) \/ k >= n + 1)
  <2>. DEFINE U == {Len(x), c + 1 + m}
  <2>1. U \subseteq Nat /\ U # {}
    BY <1>1, <1>3
  <2>. HIDE DEF U
  <2>2. Min(U) \in U /\ \A j \in U : Min(U) <= j
    BY <2>1, MinIn
  <2>3. k = Min(U)
    BY DEF U
  <2>. HIDE DEF k
  <2>4. (k = Len(x) \/ k = c + 1 + m) /\ k <= Len(x)
    BY <2>2, <2>3 DEF U
  <2> QED
    BY <1>1, <1>3, <2>4
<1>5. y = SubSeq(x, c + 2, k)
  BY DEF Component, m
<1>. HIDE DEF k, y
<1>6. /\ y \in Str /\ Len(y) = k - c - 1
      /\ \A i \in 1 .. k - c - 1 : y[i] = x[c + 1 + i]
  BY <1>1, <1>4, <1>5 DEF Str
<1>7. ASSUME NEW i \in Nat, i < k - c - 1 PROVE Char(y, i) = Char(x, c + 1 + i)
  <2>1. Char(y, i) = y[i + 1]
    BY <1>6, <1>7, CharIs
  <2>2. i + 1 \in 1 .. k - c - 1 /\ c + 1 + i \in Nat /\ c + 1 + i < Len(x)
    BY <1>1, <1>4, <1>7
  <2>3. Char(x, c + 1 + i) = x[(c + 1 + i) + 1]
    BY <2>2, CharIs
  <2>4. y[i + 1] = x[c + 1 + (i + 1)] /\ c + 1 + (i + 1) = (c + 1 + i) + 1
    BY <1>6, <2>2
  <2> QED
    BY <2>1, <2>3, <2>4
<1>8. ASSUME NEW i \in 0 .. n - c - 2 PROVE Char(y, i) = Char(x, c + 1 + i)
  BY <1>4, <1>7
<1>9. Char(y, n - c - 1) = Char(x, n)
  <2>1. n - c - 1 \in Nat /\ c + 1 + (n - c - 1) = n
    OBVIOUS
  <2>2. CASE k >= n + 1
    BY <1>4, <1>7, <2>1, <2>2
  <2>3. CASE k = n /\ k = Len(x)
    BY <1>6, <2>1, <2>3, CharIs
  <2> QED
    BY <1>4, <2>2, <2>3
<1> QED
  BY <1>6, <1>8, <1>9 DEF y

LEMMA qcmpIs ==
  ASSUME NEW d \in Str, NEW e \in Str, Char(d, 0) = Slash, Char(e, 0) = Slash
  PROVE  qcmp(d, e) <=> Precedes(d, e)
<1>. DEFINE c == common_part(d, e)
<1>0. Len(d) \in Nat /\ Len(e) \in Nat /\ Slash # 0
  BY CharIs, DirsAssumption
<1>1. CASE d = e
  <2>1. ~Precedes(d, e)
    BY <1>1, PrecedesOrder
  <2>2. common_part(d, d) = Len(d)
    <3>. DEFINE T == {i \in 0 .. Len(d) : i = Len(d) \/ Char(d, i) # Char(d, i)}
    <3>1. T = {Len(d)} /\ T \subseteq Nat
      BY <1>0
    <3>2. Min(T) = Len(d)
      BY <3>1, MinIn
    <3>3. Char(d, Len(d)) = 0
      BY <1>0, CharIs
    <3>4. Char(d, Len(d)) \in {Slash, 0}
      BY <3>3
    <3> QED
      BY <3>2, <3>4 DEF common_part
  <2>3. Char(d, c) = 0 /\ Char(e, c) = 0
    BY <1>0, <1>1, <2>2, CharIs
  <2> QED
    BY <2>1, <2>3 DEF qcmp
<1>2. CASE d # e
  <2>1. PICK n \in Nat : Differ(d, e, n)
    BY <1>2, DifferSomewhere
  <2>2. CASE Under(d, e)
    <3>1. c = Len(e)
      BY <2>1, <2>2, CommonPart, UnderDiffers
    <3>2. Char(e, c) = 0
      BY <1>0, <3>1, CharIs
    <3>. HIDE DEF c
    <3>3. ~qcmp(d, e)
      BY <3>2 DEF qcmp, c
    <3>4. ~Precedes(d, e)
      BY <2>2, UnderOrder, PrecedesOrder
    <3> QED
      BY <3>3, <3>4
  <2>3. CASE Under(e, d)
    <3>1. Differ(d, e, Len(d))
      BY <2>3, UnderDiffers, DifferAt
    <3>2. c = Len(d)
      BY <2>3, <3>1, CommonPart
    <3>3. Char(d, c) = 0 /\ Char(e, c) = Slash
      BY <1>0, <2>3, <3>2, CharIs DEF Under
    <3>. HIDE DEF c
    <3>4. qcmp(d, e)
      BY <1>0, <3>3 DEF qcmp, c
    <3>5. Precedes(d, e)
      BY <2>3, UnderOrder
    <3> QED
      BY <3>4, <3>5
  <2>4. CASE ~Under(d, e) /\ ~Under(e, d)
    <3>1. /\ c \in Nat /\ c < n /\ Char(d, c) = Slash
          /\ \A i \in c + 1 .. n - 1 : Char(d, i) # Slash
      BY <2>1, <2>4, CommonPart
    <3>. DEFINE x == Component(d, c)
                y == Component(e, c)
                m == n - c - 1
    <3>. HIDE DEF c
    <3>2. \A i \in 0 .. n - 1 : Char(e, i) = Char(d, i)
      BY <2>1 DEF Differ
    <3>3. Char(e, c) = Slash /\ \A i \in c + 1 .. n - 1 : Char(e, i) # Slash
      BY <3>1, <3>2
    <3>4. n <= Len(d) /\ n <= Len(e)
      BY <2>1, DifferAt
    <3>5. /\ x \in Str /\ Char(x, m) = Char(d, n)
          /\ \A i \in 0 .. m - 1 : Char(x, i) = Char(d, c + 1 + i)
      <4>1. /\ x \in Str /\ Char(x, n - c - 1) = Char(d, n)
            /\ \A i \in 0 .. n - c - 2 : Char(x, i) = Char(d, c + 1 + i)
        BY <3>1, <3>4, ComponentIs
      <4> QED
        BY <3>1, <4>1
    <3>6. /\ y \in Str /\ Char(y, m) = Char(e, n)
          /\ \A i \in 0 .. m - 1 : Char(y, i) = Char(e, c + 1 + i)
      <4>1. /\ y \in Str /\ Char(y, n - c - 1) = Char(e, n)
            /\ \A i \in 0 .. n - c - 2 : Char(y, i) = Char(e, c + 1 + i)
        BY <3>1, <3>3, <3>4, ComponentIs
      <4> QED
        BY <3>1, <4>1
    <3>7. qcmp(d, e) <=> Precedes(x, y)
      BY <1>0, <3>1, <3>3 DEF qcmp, c
    <3>8. m \in Nat /\ \A i \in 0 .. m - 1 : c + 1 + i \in 0 .. n - 1
      BY <3>1
    <3>. HIDE DEF x, y, m
    <3>9. Differ(x, y, m)
      <4>1. Char(x, m) # Char(y, m)
        BY <2>1, <3>5, <3>6 DEF Differ
      <4>2. \A i \in 0 .. m - 1 : Char(x, i) = Char(y, i)
        BY <3>2, <3>5, <3>6, <3>8
      <4> QED
        BY <3>8, <4>1, <4>2 DEF Differ
    <3>10. Precedes(x, y) <=> Char(x, m) < Char(y, m)
      BY <3>5, <3>6, <3>9, PrecedesAt
    <3>11. Precedes(d, e) <=> Char(d, n) < Char(e, n)
      BY <2>1, PrecedesAt
    <3> QED
      BY <3>5, <3>6, <3>7, <3>10, <3>11
  <2> QED
    BY <2>2, <2>3, <2>4
<1> QED
  BY <1>1, <1>2

(***************************************************************************)
(* The order in which qcmp() puts the directories is that of strcmp(),     *)
(* although its comments say that it compares one component and that this  *)
(* is not the same as comparing strings: with the end of the component     *)
(* counted from the beginning of the name, more than it is copied.         *)
(***************************************************************************)
THEOREM SortedLikeStrings == \A d, e \in Dirs : qcmp(d, e) <=> Precedes(d, e)
BY NamesInStr, qcmpIs

-----------------------------------------------------------------------------
(* The panel is sorted. *)

Increasing(p) == \A i, j \in DOMAIN p : i < j => Precedes(p[i], p[j])

Distinct(p) == \A i, j \in DOMAIN p : p[i] = p[j] => i = j

LEMMA DirsOrdered ==
  /\ \A d, e \in Dirs : d # e => Precedes(d, e) \/ Precedes(e, d)
  /\ \A d, e \in Dirs : Precedes(d, e) => d # e /\ ~Precedes(e, d)
  /\ \A d, e, f \in Dirs : Precedes(d, e) /\ Precedes(e, f) => Precedes(d, f)
<1>1. Dirs \subseteq Str
  BY NamesInStr
<1> QED
  BY <1>1, PrecedesOrder

LEMMA InitialPart ==
  ASSUME NEW n \in Nat, NEW T, T \subseteq 1 .. n,
         \A i \in T, j \in 1 .. n : j < i => j \in T
  PROVE  Cardinality(T) \in 0 .. n /\ T = 1 .. Cardinality(T)
<1>1. CASE T = {}
  <2>1. Cardinality(T) = 0
    BY <1>1, FS_EmptySet
  <2>2. 1 .. 0 = {}
    OBVIOUS
  <2> QED
    BY <1>1, <2>1, <2>2
<1>2. CASE T # {}
  <2>. DEFINE m == Max(T)
  <2>1. m \in T /\ \A j \in T : m >= j
    <3>1. T \subseteq 0 .. n
      OBVIOUS
    <3> QED
      BY <1>2, <3>1, MaxIn
  <2>. HIDE DEF m
  <2>2. T = 1 .. m /\ m \in 1 .. n
    <3>1. m \in 1 .. n
      BY <2>1
    <3>2. ASSUME NEW i \in T PROVE i \in 1 .. m
      <4>1. i \in 1 .. n /\ m >= i
        BY <2>1
      <4> QED
        BY <3>1, <4>1
    <3>3. ASSUME NEW j \in 1 .. m PROVE j \in T
      <4>1. CASE j = m
        BY <2>1, <4>1
      <4>2. CASE j < m
        <5>1. j \in 1 .. n
          BY <3>1
        <5> QED
          BY <2>1, <4>2, <5>1
      <4> QED
        BY <3>1, <4>1, <4>2
    <3> QED
      BY <3>1, <3>2, <3>3
  <2>3. Cardinality(1 .. m) = m
    <3>1. 1 \in Int /\ m \in Int /\ m \in Nat /\ ~(1 > m)
      BY <2>2
    <3>2. Cardinality(1 .. m) = IF 1 > m THEN 0 ELSE m - 1 + 1
      BY <3>1, FS_Interval
    <3> QED
      BY <3>1, <3>2
  <2> QED
    BY <2>2, <2>3
<1> QED
  BY <1>1, <1>2

LEMMA InOrderIncreases ==
  ASSUME NEW A, A \subseteq Dirs, NEW p \in Seq(A), NEW d \in A, d \notin ToSet(p),
         Increasing(p)
  PROVE  Increasing(InOrder(p, d))
<1>. DEFINE n == Len(p)
            T == {i \in DOMAIN p : qcmp(p[i], d)}
            c == Cardinality(T)
            q == InOrder(p, d)
<1>1. n \in Nat /\ DOMAIN p = 1 .. n /\ \A i \in 1 .. n : p[i] \in Dirs /\ p[i] # d
  BY DEF ToSet
<1>2. d \in Dirs
  OBVIOUS
<1>3. T = {i \in 1 .. n : Precedes(p[i], d)}
  BY <1>1, <1>2, SortedLikeStrings
<1>4. \A i, j \in 1 .. n : i < j => Precedes(p[i], p[j])
  BY <1>1 DEF Increasing
<1>5. q \in Seq(A) /\ Len(q) = n + 1 /\ Inserts(q, p, d, 1 + c)
  BY InOrderForm
<1>6. DOMAIN q = 1 .. n + 1
  BY <1>5
<1>7. /\ \A i \in 1 .. c : q[i] = p[i]
      /\ q[c + 1] = d
      /\ \A i \in c + 1 .. n : q[i + 1] = p[i]
  <2>. HIDE DEF c, q, n
  <2>1. c \in Int => (1 + c) - 1 = c /\ 1 + c = c + 1
    OBVIOUS
  <2>2. c \in Int
    <3>1. c \in Nat
      <4>1. IsFiniteSet(1 .. n)
        <5>1. 1 \in Int /\ n \in Int
          BY <1>1
        <5> QED
          BY <5>1, FS_Interval
      <4>2. IsFiniteSet(T)
        BY <1>1, <4>1, FS_Subset
      <4> QED
        BY <4>2, FS_CardinalityType DEF c
    <3> QED
      BY <3>1
  <2> QED
    BY <1>5, <2>1, <2>2 DEF Inserts, n
<1>. HIDE DEF q, c, T, n
<1>8. c \in 0 .. n /\ T = 1 .. c
  <2>1. T \subseteq 1 .. n
    BY <1>3
  <2>2. ASSUME NEW i \in T, NEW j \in 1 .. n, j < i PROVE j \in T
    BY <1>1, <1>2, <1>3, <1>4, <2>2, DirsOrdered
  <2> QED
    BY <1>1, <2>1, <2>2, InitialPart DEF c
<1>9. \A i \in 1 .. c : Precedes(p[i], d)
  BY <1>3, <1>8
<1>10. ASSUME NEW i \in c + 1 .. n PROVE Precedes(d, p[i])
  <2>1. i \in 1 .. n /\ i \notin T
    BY <1>1, <1>8
  <2> QED
    BY <1>1, <1>2, <1>3, <2>1, DirsOrdered
<1>11. ASSUME NEW i \in 1 .. n + 1, NEW j \in 1 .. n + 1, i < j
       PROVE  Precedes(q[i], q[j])
  <2>1. CASE j <= c
    BY <1>1, <1>4, <1>7, <1>8, <1>11, <2>1
  <2>2. CASE j = c + 1
    <3>1. i \in 1 .. c
      BY <1>1, <1>8, <1>11, <2>2
    <3> QED
      BY <1>7, <1>9, <2>2, <3>1
  <2>3. CASE j > c + 1
    <3>1. j - 1 \in c + 1 .. n /\ (j - 1) + 1 = j /\ j - 1 \in 1 .. n
      BY <1>1, <1>8, <2>3
    <3>2. q[j] = p[j - 1]
      BY <1>7, <3>1
    <3>3. CASE i <= c
      <4>1. i \in 1 .. c /\ i \in 1 .. n /\ i < j - 1
        BY <1>1, <1>8, <2>3, <3>3
      <4> QED
        BY <1>4, <1>7, <3>1, <3>2, <4>1
    <3>4. CASE i = c + 1
      BY <1>7, <1>10, <3>1, <3>2, <3>4
    <3>5. CASE i > c + 1
      <4>1. i - 1 \in c + 1 .. n /\ (i - 1) + 1 = i /\ i - 1 \in 1 .. n /\ i - 1 < j - 1
        BY <1>1, <1>8, <1>11, <3>1, <3>5
      <4>2. q[i] = p[i - 1]
        BY <1>7, <4>1
      <4> QED
        BY <1>4, <3>1, <3>2, <4>1, <4>2
    <3> QED
      BY <1>8, <3>3, <3>4, <3>5
  <2> QED
    BY <1>8, <2>1, <2>2, <2>3
<1> QED
  BY <1>6, <1>11 DEF Increasing, q

LEMMA SortedIncreases ==
  ASSUME NEW A, A \subseteq Dirs, NEW p \in Seq(A), Distinct(p)
  PROVE  Increasing(Sorted(p))
<1>1. PICK g : /\ Sorted(p) = g[Len(p)]
               /\ g[0] = <<>>
               /\ \A n \in Nat : g[n + 1] = InOrder(g[n], p[n + 1])
  BY SortRound
<1>. DEFINE m == Len(p)
            P(n) == /\ g[n] \in Seq(A) /\ Increasing(g[n])
                    /\ ToSet(g[n]) = {p[i] : i \in 1 .. n}
            T == {n \in Nat : n <= m => P(n)}
<1>2. m \in Nat /\ DOMAIN p = 1 .. m /\ \A i \in 1 .. m : p[i] \in A
  OBVIOUS
<1>3. 0 \in T
  <2>1. <<>> \in Seq(A) /\ ToSet(<<>>) = {p[i] : i \in 1 .. 0}
    BY DEF ToSet
  <2>2. Increasing(<<>>)
    BY DEF Increasing
  <2> QED
    BY <1>1, <2>1, <2>2
<1>. HIDE DEF m
<1>4. ASSUME NEW n \in Nat, n \in T, n + 1 <= m PROVE P(n + 1)
  <2>1. P(n) /\ n + 1 \in 1 .. m
    BY <1>2, <1>4
  <2>. DEFINE d == p[n + 1]
              l == g[n]
  <2>2. l \in Seq(A) /\ Increasing(l) /\ ToSet(l) = {p[i] : i \in 1 .. n} /\ d \in A
    BY <1>2, <2>1
  <2>3. g[n + 1] = InOrder(l, d)
    BY <1>1
  <2>4. {p[i] : i \in 1 .. n + 1} = {p[i] : i \in 1 .. n} \cup {d}
    <3>1. 1 .. n + 1 = 1 .. n \cup {n + 1}
      OBVIOUS
    <3> QED
      BY <3>1
  <2>5. d \notin ToSet(l)
    <3>1. \A i \in 1 .. n : i \in 1 .. m /\ i # n + 1
      BY <1>2, <2>1
    <3> QED
      BY <1>2, <2>1, <2>2, <3>1 DEF Distinct
  <2>. HIDE DEF l, d
  <2>6. InOrder(l, d) \in Seq(A)
    BY <2>2, InOrderForm
  <2>7. ToSet(InOrder(l, d)) = ToSet(l) \cup {d}
    BY <2>2, InOrderSet
  <2>8. Increasing(InOrder(l, d))
    BY <2>2, <2>5, InOrderIncreases
  <2> QED
    BY <2>2, <2>3, <2>4, <2>6, <2>7, <2>8
<1>5. \A n \in Nat : n \in T
  <2>1. \A n \in Nat : n \in T => n + 1 \in T
    <3>. HIDE DEF P
    <3> QED
      BY <1>2, <1>4
  <2>. HIDE DEF T
  <2> QED
    BY <1>3, <2>1, NatSetInduction
<1>6. P(m)
  <2>. HIDE DEF P
  <2>1. m \in T /\ m <= m
    BY <1>2, <1>5
  <2> QED
    BY <2>1
<1> QED
  BY <1>1, <1>6 DEF m

-----------------------------------------------------------------------------
(* What the loop in dir_main_panel() leaves behind *)

(* No directory behind the first NoCompact ones has a subdirectory in the
   panel. *)
Compact(p) == \A j, k \in DOMAIN p : j > NoCompact => ~Under(p[k], p[j])

(* The directory d or one below it is in the panel. *)
Shows(p, d) == \E j \in DOMAIN p : p[j] = d \/ Under(p[j], d)

(* Of the names s[1], ..., s[n], those in the set F pass the filter. *)
Passed(s, n, F) == {s[i] : i \in {j \in 1 .. n : s[j] \in F}}
Early(s, n, F) == {s[i] : i \in {j \in 1 .. n : j <= NoCompact /\ s[j] \in F}}

(* The names s[1], ..., s[n] have been considered. *)
Considers(p, s, n, F, size) ==
  /\ Len(p) <= size /\ Len(p) <= n /\ ToSet(p) \subseteq Passed(s, n, F)
  /\ Distinct(p) /\ Compact(p)
  /\ Len(p) = size \/ \A d \in Passed(s, n, F) : Shows(p, d)
  /\ \/ \A d \in Early(s, n, F) : \E j \in DOMAIN p : j <= NoCompact /\ p[j] = d
     \/ Len(p) = size /\ ToSet(p) \subseteq Early(s, n, F)
  /\ (\A i \in 1 .. n : s[i] \in F) =>
       /\ Len(p) = size \/ Len(p) >= n \/ Len(p) >= NoCompact
       /\ \A j \in DOMAIN p : j <= NoCompact => p[j] \in Early(s, n, F)

LEMMA PassedGrows ==
  ASSUME NEW s, NEW n \in Nat, NEW F
  PROVE  /\ Passed(s, n + 1, F) = Passed(s, n, F) \cup (IF s[n + 1] \in F THEN {s[n + 1]} ELSE {})
         /\ Early(s, n + 1, F) = Early(s, n, F) \cup
              (IF n + 1 <= NoCompact /\ s[n + 1] \in F THEN {s[n + 1]} ELSE {})
         /\ n <= NoCompact => Passed(s, n, F) = Early(s, n, F)
<1>0. NoCompact \in Nat
  BY SizesAssumption
<1>1. 1 .. n + 1 = 1 .. n \cup {n + 1}
  OBVIOUS
<1>2. \A i \in 1 .. n : n <= NoCompact => i <= NoCompact
  BY <1>0
<1> QED
  BY <1>1, <1>2 DEF Passed, Early

(* A directory that is not in the panel takes the place of the only one that
   is above it, or is left out for one below it, or is appended. *)
LEMMA CompactedForm ==
  ASSUME NEW p \in Seq(Dirs), NEW d \in Dirs, d \notin ToSet(p), Distinct(p), Compact(p)
  PROVE  LET q == Compacted(p, d)
         IN  /\ q \in Seq(Dirs) /\ Len(q) = Len(p)
             /\ \/ \E j0 \in DOMAIN p :
                    /\ j0 > NoCompact /\ Under(d, p[j0]) /\ q = [p EXCEPT ![j0] = d] /\ q # p
                    /\ \A j \in DOMAIN p : j > NoCompact /\ Under(d, p[j]) => j = j0
                \/ q = p /\ \A j \in DOMAIN p : j > NoCompact => ~Under(d, p[j])
<1>. DEFINE n == Len(p)
            q == Compacted(p, d)
<1>1. n \in Nat /\ DOMAIN p = 1 .. n /\ \A j \in 1 .. n : p[j] \in Dirs /\ p[j] # d
  BY DEF ToSet
<1>2. ASSUME NEW j \in 1 .. n PROVE check_subdir(d, p[j]) = 1 <=> Under(d, p[j])
  BY <1>1, NamesInStr, SubdirIs
<1>3. q = [j \in 1 .. n |-> IF j > NoCompact /\ Under(d, p[j]) THEN d ELSE p[j]]
  BY <1>1, <1>2 DEF Compacted
<1>4. q \in Seq(Dirs) /\ Len(q) = n
  BY <1>1, <1>3
<1>5. ASSUME NEW i \in 1 .. n, NEW j \in 1 .. n, i > NoCompact, j > NoCompact,
             Under(d, p[i]), Under(d, p[j])
      PROVE  i = j
  <2>1. SUFFICES ASSUME p[i] # p[j] PROVE FALSE
    BY <1>1 DEF Distinct
  <2>2. Under(p[i], p[j]) \/ Under(p[j], p[i])
    BY <1>1, <1>5, <2>1, NamesInStr, UnderOrder
  <2> QED
    BY <1>1, <1>5, <2>2 DEF Compact
<1>. HIDE DEF q
<1>6. CASE \E j0 \in 1 .. n : j0 > NoCompact /\ Under(d, p[j0])
  <2>1. PICK j0 \in 1 .. n : j0 > NoCompact /\ Under(d, p[j0])
    BY <1>6
  <2>2. \A j \in 1 .. n : j > NoCompact /\ Under(d, p[j]) => j = j0
    BY <1>5, <2>1
  <2>3. q = [p EXCEPT ![j0] = d]
    BY <1>1, <1>3, <2>1, <2>2
  <2>4. q # p
    BY <1>1, <1>3, <2>1
  <2> QED
    BY <1>1, <1>4, <2>1, <2>2, <2>3, <2>4 DEF q
<1>7. CASE \A j \in 1 .. n : j > NoCompact => ~Under(d, p[j])
  <2>1. q = p
    BY <1>1, <1>3, <1>7
  <2> QED
    BY <1>1, <1>4, <1>7, <2>1 DEF q
<1> QED
  BY <1>6, <1>7

LEMMA ReplacingKeeps ==
  ASSUME NEW p \in Seq(Dirs), NEW d \in Dirs, d \notin ToSet(p), Distinct(p), Compact(p),
         NEW j0 \in DOMAIN p, j0 > NoCompact, Under(d, p[j0]),
         \A j \in DOMAIN p : j > NoCompact /\ Under(d, p[j]) => j = j0
  PROVE  LET q == [p EXCEPT ![j0] = d]
         IN  /\ DOMAIN q = DOMAIN p /\ Len(q) = Len(p)
             /\ ToSet(q) \subseteq ToSet(p) \cup {d} /\ Distinct(q) /\ Compact(q)
             /\ \A j \in DOMAIN p : j <= NoCompact => q[j] = p[j]
             /\ Shows(q, d) /\ \A e \in Dirs : Shows(p, e) => Shows(q, e)
<1>. DEFINE n == Len(p)
            q == [p EXCEPT ![j0] = d]
<1>1. /\ n \in Nat /\ DOMAIN p = 1 .. n /\ NoCompact \in Nat
      /\ \A j \in 1 .. n : p[j] \in Dirs /\ p[j] # d
  BY SizesAssumption DEF ToSet
<1>2. /\ q \in Seq(Dirs) /\ Len(q) = n /\ DOMAIN q = 1 .. n /\ q[j0] = d
      /\ \A j \in 1 .. n : j # j0 => q[j] = p[j]
  BY <1>1
<1>3. d \in Str /\ \A e \in Dirs : e \in Str
  BY NamesInStr
<1>. HIDE DEF q
<1>4. ToSet(q) \subseteq ToSet(p) \cup {d}
  BY <1>1, <1>2 DEF ToSet
<1>5. Distinct(q)
  BY <1>1, <1>2 DEF Distinct
<1>6. Compact(q)
  <2>1. SUFFICES ASSUME NEW j \in 1 .. n, NEW k \in 1 .. n, j > NoCompact, Under(q[k], q[j])
                 PROVE  FALSE
    BY <1>2 DEF Compact
  <2>2. CASE j = j0 /\ k # j0
    <3>1. Under(p[k], d)
      BY <1>2, <2>1, <2>2
    <3>2. Under(p[k], p[j0])
      BY <1>1, <1>3, <3>1, UnderOrder
    <3> QED
      BY <1>1, <3>2 DEF Compact
  <2>3. CASE j # j0 /\ k = j0
    BY <1>1, <1>2, <2>1, <2>3
  <2>4. CASE j # j0 /\ k # j0
    BY <1>1, <1>2, <2>1, <2>4 DEF Compact
  <2>5. CASE j = j0 /\ k = j0
    BY <1>2, <1>3, <2>1, <2>5, UnderOrder
  <2> QED
    BY <2>2, <2>3, <2>4, <2>5
<1>7. \A j \in 1 .. n : j <= NoCompact => q[j] = p[j]
  BY <1>1, <1>2
<1>8. Shows(q, d)
  BY <1>1, <1>2 DEF Shows
<1>9. ASSUME NEW e \in Dirs, Shows(p, e) PROVE Shows(q, e)
  <2>1. PICK j \in 1 .. n : p[j] = e \/ Under(p[j], e)
    BY <1>1, <1>9 DEF Shows
  <2>2. CASE j = j0
    <3>1. Under(d, e)
      <4>1. CASE p[j0] = e
        BY <4>1
      <4>2. CASE Under(p[j0], e)
        BY <1>1, <1>3, <4>2, UnderOrder
      <4> QED
        BY <2>1, <2>2, <4>1, <4>2
    <3> QED
      BY <1>1, <1>2, <3>1 DEF Shows
  <2>3. CASE j # j0
    BY <1>2, <2>1, <2>3 DEF Shows
  <2> QED
    BY <2>2, <2>3
<1> QED
  BY <1>1, <1>2, <1>4, <1>5, <1>6, <1>7, <1>8, <1>9 DEF q

LEMMA AppendingKeeps ==
  ASSUME NEW p \in Seq(Dirs), NEW d \in Dirs, d \notin ToSet(p), Distinct(p), Compact(p),
         \/ Len(p) < NoCompact
         \/ \A j \in DOMAIN p : ~Under(p[j], d) /\ (j > NoCompact => ~Under(d, p[j]))
  PROVE  LET q == Append(p, d)
         IN  /\ Len(q) = Len(p) + 1 /\ DOMAIN p \subseteq DOMAIN q
             /\ q[Len(p) + 1] = d /\ Len(p) + 1 \in DOMAIN q
             /\ ToSet(q) \subseteq ToSet(p) \cup {d} /\ Distinct(q) /\ Compact(q)
             /\ \A j \in DOMAIN p : q[j] = p[j]
             /\ \A j \in DOMAIN q : j = Len(p) + 1 \/ j \in DOMAIN p
             /\ Shows(q, d) /\ \A e \in Dirs : Shows(p, e) => Shows(q, e)
<1>. DEFINE n == Len(p)
            q == Append(p, d)
<1>1. /\ n \in Nat /\ DOMAIN p = 1 .. n /\ NoCompact \in Nat
      /\ \A j \in 1 .. n : p[j] \in Dirs /\ p[j] # d
  BY SizesAssumption DEF ToSet
<1>2. /\ q \in Seq(Dirs) /\ Len(q) = n + 1 /\ DOMAIN q = 1 .. n + 1 /\ q[n + 1] = d
      /\ \A j \in 1 .. n : q[j] = p[j]
  BY <1>1
<1>3. \A j \in 1 .. n + 1 : j = n + 1 \/ j \in 1 .. n
  BY <1>1
<1>3a. \A j \in 1 .. n : j \in 1 .. n + 1 /\ j # n + 1
  BY <1>1
<1>3b. n + 1 \in 1 .. n + 1
  BY <1>1
<1>. HIDE DEF q
<1>4. ToSet(q) \subseteq ToSet(p) \cup {d}
  BY <1>1, <1>2, <1>3 DEF ToSet
<1>5. Distinct(q)
  BY <1>1, <1>2, <1>3 DEF Distinct
<1>6. Compact(q)
  <2>1. SUFFICES ASSUME NEW j \in 1 .. n + 1, NEW k \in 1 .. n + 1, j > NoCompact,
                        Under(q[k], q[j])
                 PROVE  FALSE
    BY <1>2 DEF Compact
  <2>2. \A i \in 1 .. n : ~Under(p[i], d) /\ (i > NoCompact => ~Under(d, p[i]))
    <3>1. ~(n < NoCompact)
      BY <1>1, <2>1
    <3> QED
      BY <1>1, <3>1
  <2>3. CASE j = n + 1 /\ k \in 1 .. n
    BY <1>2, <2>1, <2>2, <2>3
  <2>4. CASE j \in 1 .. n /\ k = n + 1
    BY <1>2, <2>1, <2>2, <2>4
  <2>5. CASE j \in 1 .. n /\ k \in 1 .. n
    BY <1>1, <1>2, <2>1, <2>5 DEF Compact
  <2>6. CASE j = n + 1 /\ k = n + 1
    BY <1>2, <2>1, <2>6, NamesInStr, UnderOrder
  <2> QED
    BY <1>3, <2>3, <2>4, <2>5, <2>6
<1>7. Shows(q, d)
  BY <1>2, <1>3b DEF Shows
<1>8. ASSUME NEW e \in Dirs, Shows(p, e) PROVE Shows(q, e)
  <2>1. PICK j \in 1 .. n : p[j] = e \/ Under(p[j], e)
    BY <1>1, <1>8 DEF Shows
  <2>2. j \in DOMAIN q /\ q[j] = p[j]
    BY <1>2, <1>3a
  <2> QED
    BY <2>1, <2>2 DEF Shows
<1> QED
  BY <1>1, <1>2, <1>3, <1>3a, <1>3b, <1>4, <1>5, <1>6, <1>7, <1>8 DEF q

LEMMA Room ==
  ASSUME NEW a \in Nat, NEW n \in Nat, NEW size \in Nat, a <= size, a <= n
  PROVE  a <= n + 1 /\ (a # size => a < size /\ a + 1 <= size)
OBVIOUS

LEMMA ConsidersStep ==
  ASSUME NEW p \in Seq(Dirs), NEW s \in Seq(Dirs), Distinct(s), NEW n \in Nat,
         n + 1 \in 1 .. Len(s), NEW f, NEW size \in Nat,
         Considers(p, s, n, {d \in Dirs : Passes(d, f)}, size)
  PROVE  Considers(Considered(p, n + 1, s[n + 1], f, size), s, n + 1,
                   {d \in Dirs : Passes(d, f)}, size)
<1>. DEFINE F == {e \in Dirs : Passes(e, f)}
            d == s[n + 1]
            q == Considered(p, n + 1, d, f, size)
<1>1. /\ d \in Dirs /\ (d \in F <=> Passes(d, f)) /\ Len(p) \in Nat /\ DOMAIN p = 1 .. Len(p)
      /\ NoCompact \in Nat /\ \A j \in DOMAIN p : p[j] \in Dirs
  BY SizesAssumption
<1>2. Passed(s, n, F) \subseteq Dirs
  <2>1. Passed(s, n, F) \subseteq F
    BY DEF Passed
  <2> QED
    BY <2>1
<1>3. d \notin Passed(s, n, F)
  <2>1. ASSUME NEW j \in 1 .. n PROVE s[j] # d
    <3>1. j \in DOMAIN s /\ n + 1 \in DOMAIN s /\ j # n + 1
      OBVIOUS
    <3> QED
      BY <3>1 DEF Distinct
  <2>. HIDE DEF F, d
  <2> QED
    BY <2>1 DEF Passed
<1>4. q = IF Len(p) = size \/ d \notin F THEN p ELSE Entered(p, n + 1, d)
  BY <1>1 DEF Considered
<1>5. Considers(p, s, n, F, size)
  OBVIOUS
<1>5a. Len(p) <= n + 1 /\ (Len(p) # size => Len(p) < size /\ Len(p) + 1 <= size)
  <2>1. Len(p) <= size /\ Len(p) <= n
    BY <1>5 DEF Considers
  <2> QED
    BY <1>1, <2>1, Room
<1>6. (\A i \in 1 .. n + 1 : s[i] \in F) => d \in F /\ \A i \in 1 .. n : s[i] \in F
  <2>1. n + 1 \in 1 .. n + 1 /\ \A i \in 1 .. n : i \in 1 .. n + 1
    OBVIOUS
  <2>. HIDE DEF F
  <2> QED
    BY <2>1
<1>. HIDE DEF F, d, q
<1>7. /\ Passed(s, n + 1, F) = Passed(s, n, F) \cup (IF d \in F THEN {d} ELSE {})
      /\ Early(s, n + 1, F) = Early(s, n, F) \cup
           (IF n + 1 <= NoCompact /\ d \in F THEN {d} ELSE {})
      /\ n <= NoCompact => Passed(s, n, F) = Early(s, n, F)
  BY PassedGrows DEF d
<1>8. CASE d \notin F
  <2>1. q = p /\ Passed(s, n + 1, F) = Passed(s, n, F) /\ Early(s, n + 1, F) = Early(s, n, F)
    BY <1>4, <1>7, <1>8
  <2> QED
    BY <1>5, <1>5a, <1>6, <1>8, <2>1 DEF Considers, F, d, q
<1>9. CASE d \in F /\ Len(p) = size
  <2>1. q = p
    BY <1>4, <1>9
  <2>2. \/ \A e \in Early(s, n + 1, F) : \E j \in DOMAIN p : j <= NoCompact /\ p[j] = e
        \/ ToSet(p) \subseteq Early(s, n + 1, F)
    <3>1. CASE n + 1 <= NoCompact
      <4>1. Passed(s, n, F) = Early(s, n, F)
        BY <1>1, <1>7, <3>1
      <4> QED
        BY <1>5, <1>7, <4>1 DEF Considers
    <3>2. CASE ~(n + 1 <= NoCompact)
      <4>1. Early(s, n + 1, F) = Early(s, n, F)
        BY <1>7, <3>2
      <4> QED
        BY <1>5, <4>1 DEF Considers
    <3> QED
      BY <3>1, <3>2
  <2>3. /\ Passed(s, n, F) \subseteq Passed(s, n + 1, F)
        /\ Early(s, n, F) \subseteq Early(s, n + 1, F)
    BY <1>7
  <2>4. Considers(p, s, n + 1, F, size)
    BY <1>5, <1>5a, <1>6, <1>9, <2>2, <2>3 DEF Considers
  <2> QED
    BY <2>1, <2>4 DEF F, d, q
<1>10. CASE d \in F /\ Len(p) # size
  <2>0. q = Entered(p, n + 1, d)
    BY <1>4, <1>10
  <2>0a. Len(p) < size /\ Len(p) + 1 <= size /\ Len(p) <= n
    BY <1>5, <1>5a, <1>10 DEF Considers
  <2>1. /\ d \notin ToSet(p) /\ ToSet(p) \subseteq Passed(s, n, F)
        /\ Distinct(p) /\ Compact(p) /\ Passed(s, n + 1, F) = Passed(s, n, F) \cup {d}
        /\ \A e \in Passed(s, n, F) : Shows(p, e)
        /\ \A e \in Early(s, n, F) : \E j \in DOMAIN p : j <= NoCompact /\ p[j] = e
    BY <1>1, <1>3, <1>5, <1>7, <1>10 DEF Considers
  <2>2. (\A i \in 1 .. n + 1 : s[i] \in F) =>
          /\ Len(p) >= n \/ Len(p) >= NoCompact
          /\ \A j \in DOMAIN p : j <= NoCompact => p[j] \in Early(s, n, F)
    BY <1>5, <1>6, <1>10 DEF Considers
  <2>3. ASSUME \/ Len(p) < NoCompact
               \/ \A j \in DOMAIN p : ~Under(p[j], d) /\ (j > NoCompact => ~Under(d, p[j])),
               n + 1 <= NoCompact => Len(p) < NoCompact
        PROVE  Considers(Append(p, d), s, n + 1, F, size)
    <3>. DEFINE a == Append(p, d)
    <3>1. /\ Len(a) = Len(p) + 1 /\ DOMAIN p \subseteq DOMAIN a
          /\ a[Len(p) + 1] = d /\ Len(p) + 1 \in DOMAIN a
          /\ ToSet(a) \subseteq ToSet(p) \cup {d} /\ Distinct(a) /\ Compact(a)
          /\ \A j \in DOMAIN p : a[j] = p[j]
          /\ \A j \in DOMAIN a : j = Len(p) + 1 \/ j \in DOMAIN p
          /\ Shows(a, d) /\ \A e \in Dirs : Shows(p, e) => Shows(a, e)
      BY <1>1, <2>1, <2>3, AppendingKeeps
    <3>. HIDE DEF a
    <3>2. Len(a) <= size /\ Len(a) <= n + 1 /\ ToSet(a) \subseteq Passed(s, n + 1, F)
      BY <1>1, <2>0a, <2>1, <3>1
    <3>3. \A e \in Passed(s, n + 1, F) : Shows(a, e)
      BY <1>2, <2>1, <3>1
    <3>4. ASSUME NEW e \in Early(s, n + 1, F)
          PROVE  \E j \in DOMAIN a : j <= NoCompact /\ a[j] = e
      <4>1. CASE e \in Early(s, n, F)
        BY <2>1, <3>1, <4>1
      <4>2. CASE e = d /\ n + 1 <= NoCompact
        <5>1. Len(p) + 1 <= NoCompact
          BY <1>1, <2>3, <4>2
        <5> QED
          BY <3>1, <4>2, <5>1
      <4> QED
        BY <1>7, <4>1, <4>2
    <3>5. ASSUME \A i \in 1 .. n + 1 : s[i] \in F
          PROVE  /\ Len(a) = size \/ Len(a) >= n + 1 \/ Len(a) >= NoCompact
                 /\ \A j \in DOMAIN a : j <= NoCompact => a[j] \in Early(s, n + 1, F)
      <4>1. /\ Len(p) >= n \/ Len(p) >= NoCompact
            /\ \A j \in DOMAIN p : j <= NoCompact => p[j] \in Early(s, n, F)
        BY <2>2, <3>5
      <4>2. Len(a) >= n + 1 \/ Len(a) >= NoCompact
        BY <1>1, <3>1, <4>1
      <4>3. ASSUME NEW j \in DOMAIN a, j <= NoCompact PROVE a[j] \in Early(s, n + 1, F)
        <5>1. CASE j \in DOMAIN p
          BY <1>7, <3>1, <4>1, <4>3, <5>1
        <5>2. CASE j = Len(p) + 1
          <6>1. n + 1 <= NoCompact
            BY <1>1, <4>1, <4>3, <5>2
          <6> QED
            BY <1>7, <1>10, <3>1, <5>2, <6>1
        <5> QED
          BY <3>1, <5>1, <5>2
      <4> QED
        BY <4>2, <4>3
    <3>6. Distinct(a) /\ Compact(a)
      BY <3>1
    <3>7. Considers(a, s, n + 1, F, size)
      BY <3>2, <3>3, <3>4, <3>5, <3>6 DEF Considers
    <3> QED
      BY <3>7 DEF a
  <2>4. CASE n + 1 <= NoCompact
    <3>1. q = Append(p, d)
      BY <2>0, <2>4 DEF Entered
    <3>2. Len(p) < NoCompact
      BY <1>1, <2>0a, <2>4
    <3> QED
      BY <2>3, <3>1, <3>2 DEF F, d, q
  <2>5. CASE ~(n + 1 <= NoCompact)
    <3>. DEFINE c == Compacted(p, d)
                down == \E j \in DOMAIN p : check_subdir(d, p[j]) = -1
    <3>1. q = IF c # p \/ down THEN c ELSE Append(p, d)
      BY <2>0, <2>5 DEF Entered
    <3>2. down <=> \E j \in DOMAIN p : Under(p[j], d)
      BY <1>1, NamesInStr, SubdirIs
    <3>. HIDE DEF c, down
    <3>3. \/ \E j0 \in DOMAIN p :
               /\ j0 > NoCompact /\ Under(d, p[j0]) /\ c = [p EXCEPT ![j0] = d] /\ c # p
               /\ \A j \in DOMAIN p : j > NoCompact /\ Under(d, p[j]) => j = j0
          \/ c = p /\ \A j \in DOMAIN p : j > NoCompact => ~Under(d, p[j])
      BY <1>1, <2>1, CompactedForm DEF c
    <3>4. Early(s, n + 1, F) = Early(s, n, F)
      BY <1>7, <2>5
    <3>5. ASSUME NEW j0 \in DOMAIN p, j0 > NoCompact, Under(d, p[j0]),
                 c = [p EXCEPT ![j0] = d], c # p,
                 \A j \in DOMAIN p : j > NoCompact /\ Under(d, p[j]) => j = j0
          PROVE  Considers(q, s, n + 1, F, size)
      <4>1. /\ DOMAIN c = DOMAIN p /\ Len(c) = Len(p)
            /\ ToSet(c) \subseteq ToSet(p) \cup {d} /\ Distinct(c) /\ Compact(c)
            /\ \A j \in DOMAIN p : j <= NoCompact => c[j] = p[j]
            /\ Shows(c, d) /\ \A e \in Dirs : Shows(p, e) => Shows(c, e)
        <5>1. LET x == [p EXCEPT ![j0] = d]
              IN  /\ DOMAIN x = DOMAIN p /\ Len(x) = Len(p)
                  /\ ToSet(x) \subseteq ToSet(p) \cup {d} /\ Distinct(x) /\ Compact(x)
                  /\ \A j \in DOMAIN p : j <= NoCompact => x[j] = p[j]
                  /\ Shows(x, d) /\ \A e \in Dirs : Shows(p, e) => Shows(x, e)
          BY <1>1, <2>1, <3>5, ReplacingKeeps
        <5> QED
          BY <3>5, <5>1
      <4>2. Len(c) <= size /\ Len(c) <= n + 1 /\ ToSet(c) \subseteq Passed(s, n + 1, F)
        BY <1>1, <2>0a, <2>1, <4>1
      <4>3. \A e \in Passed(s, n + 1, F) : Shows(c, e)
        BY <1>2, <2>1, <4>1
      <4>4. \A e \in Early(s, n + 1, F) : \E j \in DOMAIN c : j <= NoCompact /\ c[j] = e
        BY <2>1, <3>4, <4>1
      <4>5. ASSUME \A i \in 1 .. n + 1 : s[i] \in F
            PROVE  /\ Len(c) >= n + 1 \/ Len(c) >= NoCompact
                   /\ \A j \in DOMAIN c : j <= NoCompact => c[j] \in Early(s, n + 1, F)
        BY <1>1, <2>2, <2>5, <3>4, <4>1, <4>5
      <4>6. Considers(c, s, n + 1, F, size)
        BY <4>1, <4>2, <4>3, <4>4, <4>5 DEF Considers
      <4> QED
        BY <3>1, <3>5, <4>6
    <3>6. ASSUME c = p, down PROVE Considers(q, s, n + 1, F, size)
      <4>1. q = p
        BY <3>1, <3>6
      <4>2. Len(p) <= size /\ Len(p) <= n + 1 /\ ToSet(p) \subseteq Passed(s, n + 1, F)
        BY <1>1, <2>0a, <2>1
      <4>3. \A e \in Passed(s, n + 1, F) : Shows(p, e)
        <5>1. Shows(p, d)
          BY <3>2, <3>6 DEF Shows
        <5> QED
          BY <2>1, <5>1
      <4>4. \A e \in Early(s, n + 1, F) : \E j \in DOMAIN p : j <= NoCompact /\ p[j] = e
        BY <2>1, <3>4
      <4>5. ASSUME \A i \in 1 .. n + 1 : s[i] \in F
            PROVE  /\ Len(p) >= n + 1 \/ Len(p) >= NoCompact
                   /\ \A j \in DOMAIN p : j <= NoCompact => p[j] \in Early(s, n + 1, F)
        BY <1>1, <2>2, <2>5, <3>4, <4>5
      <4>6. Considers(p, s, n + 1, F, size)
        BY <2>1, <4>2, <4>3, <4>4, <4>5 DEF Considers
      <4> QED
        BY <4>1, <4>6
    <3>7. ASSUME c = p, ~down, \A j \in DOMAIN p : j > NoCompact => ~Under(d, p[j])
          PROVE  Considers(q, s, n + 1, F, size)
      <4>1. q = Append(p, d)
        BY <3>1, <3>7
      <4>2. Considers(Append(p, d), s, n + 1, F, size)
        BY <2>3, <2>5, <3>2, <3>7
      <4> QED
        BY <4>1, <4>2
    <3>8. Considers(q, s, n + 1, F, size)
      BY <3>3, <3>5, <3>6, <3>7
    <3> QED
      BY <3>8 DEF F, d, q
  <2> QED
    BY <2>4, <2>5
<1> QED
  BY <1>8, <1>9, <1>10

NamesOf(dl) == [i \in DOMAIN dl |-> dl[i].dirname]

PanelForm(q, dl, f, size) ==
  \E p \in Seq(Dirs) :
    q = Sorted(p) /\ Considers(p, NamesOf(dl), Len(dl), {d \in Dirs : Passes(d, f)}, size)

LEMMA NamesOfForm ==
  ASSUME NEW dl, ListOK(dl)
  PROVE  /\ NamesOf(dl) \in Seq(Dirs) /\ Len(NamesOf(dl)) = Len(dl) /\ Distinct(NamesOf(dl))
         /\ Len(dl) \in Nat /\ DOMAIN dl = 1 .. Len(dl)
         /\ \A i \in 1 .. Len(dl) : NamesOf(dl)[i] = dl[i].dirname
<1>. DEFINE n == Len(dl)
<1>1. n \in Nat /\ DOMAIN dl = 1 .. n
  <2>1. dl \in Seq(Entry)
    BY DEF ListOK
  <2> QED
    BY <2>1
<1>2. \A i \in 1 .. n : dl[i].dirname \in Dirs
  <2>1. dl \in Seq(Entry)
    BY DEF ListOK
  <2>2. \A i \in 1 .. n : dl[i] \in Entry
    BY <2>1
  <2> QED
    BY <2>2 DEF Entry
<1>3. NamesOf(dl) = [i \in 1 .. n |-> dl[i].dirname]
  BY <1>1 DEF NamesOf
<1>. HIDE DEF n
<1>4. NamesOf(dl) \in Seq(Dirs) /\ Len(NamesOf(dl)) = n
  BY <1>1, <1>2, <1>3
<1>5. Distinct(NamesOf(dl))
  BY <1>1, <1>3 DEF Distinct, ListOK
<1> QED
  BY <1>1, <1>3, <1>4, <1>5 DEF n

LEMMA ConsidersNothing ==
  ASSUME NEW s, NEW F, NEW size \in Nat
  PROVE  Considers(<<>>, s, 0, F, size)
<1>1. Len(<<>>) = 0 /\ DOMAIN <<>> = {} /\ 1 .. 0 = {} /\ ToSet(<<>>) = {}
  BY DEF ToSet
<1>2. Passed(s, 0, F) = {} /\ Early(s, 0, F) = {}
  BY <1>1 DEF Passed, Early
<1>3. Distinct(<<>>) /\ Compact(<<>>)
  BY <1>1 DEF Distinct, Compact
<1>4. 0 <= size /\ 0 <= 0 /\ 0 >= 0
  OBVIOUS
<1> QED
  BY <1>1, <1>2, <1>3, <1>4 DEF Considers

LEMMA PanelConsiders ==
  ASSUME NEW dl, ListOK(dl), NEW f, NEW size \in Nat
  PROVE  PanelForm(dir_main_panel(dl, f, size), dl, f, size)
<1>1. PICK g : /\ dir_main_panel(dl, f, size) = Sorted(g[Len(dl)])
               /\ g[0] = <<>>
               /\ \A n \in Nat :
                    g[n + 1] = Considered(g[n], n + 1, dl[n + 1].dirname, f, size)
  <2>1. \E g : Builds(g, dl, f, size)
    BY BuildRound
  <2> QED
    BY <2>1 DEF Builds
<1>. DEFINE s == NamesOf(dl)
            F == {d \in Dirs : Passes(d, f)}
            m == Len(dl)
            P(n) == g[n] \in Seq(Dirs) /\ Considers(g[n], s, n, F, size)
            T == {n \in Nat : n <= m => P(n)}
<1>2. /\ m \in Nat /\ s \in Seq(Dirs) /\ Len(s) = m /\ Distinct(s)
      /\ \A i \in 1 .. m : s[i] = dl[i].dirname
  BY NamesOfForm
<1>. HIDE DEF s, m
<1>3. 0 \in T
  <2>1. Considers(<<>>, s, 0, F, size)
    BY ConsidersNothing
  <2>2. <<>> \in Seq(Dirs)
    OBVIOUS
  <2> QED
    BY <1>1, <2>1, <2>2
<1>4. ASSUME NEW n \in Nat, n \in T, n + 1 <= m PROVE P(n + 1)
  <2>1. P(n) /\ n + 1 \in 1 .. m
    BY <1>2, <1>4
  <2>2. g[n + 1] = Considered(g[n], n + 1, s[n + 1], f, size)
    BY <1>1, <1>2, <2>1
  <2>3. s[n + 1] \in Dirs
    BY <1>2, <2>1
  <2>4. g[n + 1] \in Seq(Dirs)
    BY <2>1, <2>2, <2>3, ConsideredIn
  <2>5. Considers(g[n + 1], s, n + 1, F, size)
    BY <1>2, <2>1, <2>2, ConsidersStep
  <2> QED
    BY <2>4, <2>5
<1>5. \A n \in Nat : n \in T
  <2>1. \A n \in Nat : n \in T => n + 1 \in T
    <3>. HIDE DEF P
    <3> QED
      BY <1>2, <1>4
  <2>. HIDE DEF T
  <2> QED
    BY <1>3, <2>1, NatSetInduction
<1>6. P(m)
  <2>. HIDE DEF P
  <2>1. m \in T /\ m <= m
    BY <1>2, <1>5
  <2> QED
    BY <2>1
<1> QED
  BY <1>1, <1>6 DEF PanelForm, m, s

-----------------------------------------------------------------------------
(* The directories in the sorted panel *)

LEMMA RootFirst == \A d \in Dirs : d # Root => Precedes(Root, d)
<1>. SUFFICES ASSUME NEW d \in Dirs, d # Root PROVE Precedes(Root, d)
  OBVIOUS
<1>1. /\ Root \in Str /\ Len(Root) = 1 /\ Root[1] = Slash /\ Slash \in Nat \ {0}
      /\ d \in Str /\ Len(d) \in Nat \ {0} /\ d[1] = Slash
  BY NamesInStr, DirsAssumption DEF Root, Str
<1>2. Len(d) # 1
  <2>1. SUFFICES ASSUME Len(d) = 1 PROVE FALSE
    OBVIOUS
  <2>2. d = Root
    BY <1>1, <2>1 DEF Str
  <2> QED
    BY <2>2
<1>3. Char(Root, 1) = 0 /\ Char(d, 1) \in Nat /\ Char(d, 1) # 0
  <2>1. 1 \in Nat /\ 1 >= Len(Root) /\ ~(1 >= Len(d))
    <3>1. \A k \in Nat \ {0} : k # 1 => ~(1 >= k)
      OBVIOUS
    <3>2. \A k : k = 1 => 1 >= k
      OBVIOUS
    <3> QED
      BY <1>1, <1>2, <3>1, <3>2, Zenon
  <2>2. Char(Root, 1) = 0
    BY <1>1, <2>1, CharIs
  <2>3. Char(d, 1) \in Nat /\ (Char(d, 1) = 0 <=> 1 >= Len(d))
    BY <1>1, <2>1, CharIs
  <2> QED
    BY <2>1, <2>2, <2>3
<1>4. Char(Root, 0) = Char(d, 0)
  BY <1>1 DEF Char
<1>5. Differ(Root, d, 1)
  <2>1. \A i \in 0 .. 1 - 1 : i = 0
    OBVIOUS
  <2> QED
    BY <1>3, <1>4, <2>1 DEF Differ
<1> QED
  BY <1>1, <1>3, <1>5, PrecedesAt

(* No name comes between those of a directory and its subdirectories, if no
   character comes before the slash. *)
LEMMA Between ==
  ASSUME SlashIsLeast, NEW d \in Dirs, NEW x \in Dirs, NEW y \in Dirs,
         Under(y, d), Precedes(d, x), Precedes(x, y)
  PROVE  Under(x, d)
<1>1. /\ d \in Str /\ x \in Str /\ y \in Str /\ Slash \in Nat \ {0}
      /\ Len(d) \in Nat /\ Len(x) \in Nat /\ Len(y) \in Nat
  BY NamesInStr, DirsAssumption
<1>2. d # x
  BY DirsOrdered
<1>3. PICK n \in Nat : Differ(d, x, n)
  BY <1>1, <1>2, DifferSomewhere
<1>4. Char(d, n) < Char(x, n) /\ n <= Len(d)
  BY <1>1, <1>3, PrecedesAt, DifferAt
<1>5. Char(d, n) \in Nat /\ Char(x, n) \in Nat /\ Char(y, n) \in Nat
  BY <1>1, CharIs
<1>6. \A i \in 0 .. n - 1 : Char(x, i) = Char(d, i) /\ Char(y, i) = Char(d, i)
  BY <1>1, <1>3, <1>4 DEF Differ, Under
<1>7. ASSUME Char(x, n) # Char(y, n) PROVE Char(x, n) < Char(y, n)
  <2>1. Differ(x, y, n)
    BY <1>6, <1>7 DEF Differ
  <2> QED
    BY <1>1, <2>1, PrecedesAt
<1>8. n = Len(d)
  <2>1. SUFFICES ASSUME n < Len(d) PROVE FALSE
    BY <1>1, <1>4
  <2>2. Char(y, n) = Char(d, n)
    BY <1>1, <2>1 DEF Under
  <2> QED
    BY <1>4, <1>5, <1>7, <2>2
<1>9. Char(y, n) = Slash
  BY <1>8 DEF Under
<1>10. Char(x, n) # 0
  BY <1>4, <1>5
<1>11. n < Len(x) /\ Char(x, n) = x[n + 1]
  <2>1. /\ Char(x, n) = 0 <=> n >= Len(x)
        /\ n < Len(x) => Char(x, n) = x[n + 1]
    BY <1>1, CharIs
  <2> QED
    BY <1>1, <1>10, <2>1
<1>12. Char(x, n) >= Slash
  <2>1. n + 1 \in DOMAIN x
    BY <1>1, <1>11 DEF Str
  <2> QED
    BY <1>11, <2>1 DEF SlashIsLeast
<1>13. Char(x, n) = Slash
  BY <1>1, <1>5, <1>7, <1>9, <1>12
<1> QED
  BY <1>6, <1>8, <1>11, <1>13 DEF Under

LEMMA IncreasingTree ==
  ASSUME NEW q \in Seq(Dirs), Increasing(q), SlashIsLeast
  PROVE  Tree(q)
<1>. DEFINE m == Len(q)
<1>1. m \in Nat /\ DOMAIN q = 1 .. m /\ \A i \in 1 .. m : q[i] \in Dirs
  OBVIOUS
<1>2. \A i, j \in 1 .. m : i < j => Precedes(q[i], q[j])
  BY <1>1 DEF Increasing
<1>. HIDE DEF m
<1>3. SUFFICES ASSUME NEW i \in 1 .. m, NEW k \in 1 .. m, Below(q[k], q[i])
               PROVE  i < k /\ \A j \in i + 1 .. k : Below(q[j], q[i])
  BY <1>1 DEF Tree
<1>4. q[i] # q[k] /\ Precedes(q[i], q[k])
  <2>1. CASE q[i] = Root
    <3>1. q[k] # Root
      BY <1>3, <2>1 DEF Below
    <3> QED
      BY <1>1, <2>1, <3>1, RootFirst
  <2>2. CASE q[i] # Root
    <3>1. Under(q[k], q[i])
      BY <1>1, <1>3, <2>2, BelowIsUnder
    <3>2. Precedes(q[i], q[k])
      BY <1>1, <3>1, NamesInStr, UnderOrder
    <3> QED
      BY <1>1, <3>2, DirsOrdered
  <2> QED
    BY <2>1, <2>2
<1>5. i < k
  <2>1. ~(k < i)
    BY <1>1, <1>2, <1>4, DirsOrdered
  <2>2. i # k
    BY <1>4
  <2> QED
    BY <1>1, <2>1, <2>2
<1>6. ASSUME NEW j \in i + 1 .. k PROVE Below(q[j], q[i])
  <2>1. j \in 1 .. m /\ i < j /\ (j = k \/ j < k)
    BY <1>1
  <2>2. Precedes(q[i], q[j]) /\ (j = k \/ Precedes(q[j], q[k]))
    BY <1>2, <2>1
  <2>3. CASE q[i] = Root
    <3>1. q[j] # Root
      BY <1>1, <2>1, <2>2, <2>3, DirsOrdered
    <3> QED
      BY <2>3, <3>1 DEF Below
  <2>4. CASE q[i] # Root /\ j < k
    <3>1. Under(q[k], q[i])
      BY <1>1, <1>3, <2>4, BelowIsUnder
    <3>2. Precedes(q[j], q[k])
      BY <1>2, <2>1, <2>4
    <3>3. Under(q[j], q[i])
      BY <1>1, <2>1, <2>2, <3>1, <3>2, Between
    <3> QED
      BY <1>1, <2>1, <3>3, BelowIsUnder
  <2>5. CASE j = k
    BY <1>3, <2>5
  <2> QED
    BY <2>1, <2>3, <2>4, <2>5
<1> QED
  BY <1>5, <1>6

LEMMA IncreasingCounted ==
  ASSUME NEW q \in Seq(Dirs), Increasing(q)
  PROVE  Cardinality(ToSet(q)) = Len(q)
<1>. DEFINE n == Len(q)
            S == ToSet(q)
            f == [i \in 1 .. n |-> q[i]]
<1>1. n \in Nat /\ DOMAIN q = 1 .. n /\ \A i \in 1 .. n : q[i] \in Dirs
  OBVIOUS
<1>2. f \in [1 .. n -> S]
  BY <1>1 DEF ToSet
<1>3. \A i, j \in 1 .. n : f[i] = f[j] => i = j
  <2>1. \A i, j \in 1 .. n : i < j => q[i] # q[j]
    BY <1>1, DirsOrdered DEF Increasing
  <2> QED
    BY <1>1, <2>1
<1>4. \A d \in S : \E i \in 1 .. n : f[i] = d
  BY <1>1 DEF ToSet
<1>. HIDE DEF n, S, f
<1>5. ExistsBijection(1 .. n, S)
  BY <1>2, <1>3, <1>4 DEF ExistsBijection, Bijection, Injection, Surjection, IsInjective
<1>6. Cardinality(S) = n
  BY <1>1, <1>5, FS_CountingElements
<1> QED
  BY <1>6 DEF n, S

LEMMA PassesNone == \A d \in Dirs : Passes(d, <<>>)
<1>. SUFFICES ASSUME NEW d \in Dirs PROVE Passes(d, <<>>)
  OBVIOUS
<1>1. d \in Str /\ Len(d) \in Nat
  BY NamesInStr
<1>2. 0 \in 0 .. Len(d) - Len(<<>>) /\ 0 + 1 = 1 /\ 0 + Len(<<>>) = 0
  BY <1>1
<1>3. SubSeq(d, 1, 0) = <<>>
  BY <1>1 DEF Str
<1> QED
  BY <1>2, <1>3 DEF Passes

LEMMA PanelComplete ==
  ASSUME ListOK(dirlist), NEW f, NEW size \in Nat
  PROVE  LET q == dir_main_panel(dirlist, f, size)
         IN  Covers(q, f, size) /\ (SlashIsLeast => Tree(q))
<1>. DEFINE q == dir_main_panel(dirlist, f, size)
            F == {d \in Dirs : Passes(d, f)}
            s == NamesOf(dirlist)
            m == Len(dirlist)
            passing == {i \in DOMAIN dirlist : Passes(dirlist[i].dirname, f)}
            names == {dirlist[i].dirname : i \in passing}
            recent == {dirlist[i].dirname : i \in passing \cap (1 .. NoCompact)}
<1>1. PICK p \in Seq(Dirs) : q = Sorted(p) /\ Considers(p, s, m, F, size)
  BY PanelConsiders DEF PanelForm
<1>2. /\ m \in Nat /\ DOMAIN dirlist = 1 .. m /\ s \in Seq(Dirs) /\ Len(s) = m
      /\ \A i \in 1 .. m : s[i] = dirlist[i].dirname
  BY NamesOfForm
<1>3. NoCompact \in Nat
  BY SizesAssumption
<1>4. \A i \in 1 .. m : s[i] \in Dirs /\ (s[i] \in F <=> i \in passing)
  BY <1>2
<1>. HIDE DEF F, s, m, q, passing
<1>5. \A i \in 1 .. m : i <= NoCompact <=> i \in 1 .. NoCompact
  BY <1>2, <1>3
<1>6. passing \subseteq 1 .. m
  BY <1>2 DEF passing
<1>7. names = Passed(s, m, F) /\ recent = Early(s, m, F)
  BY <1>2, <1>4, <1>5, <1>6 DEF Passed, Early
<1>. HIDE DEF names, recent
<1>8. q \in Seq(Dirs) /\ Len(q) = Len(p) /\ ToSet(q) = ToSet(p)
  BY <1>1, SortedSet
<1>9. Distinct(p) /\ Compact(p)
  BY <1>1 DEF Considers
<1>10. Increasing(q)
  BY <1>1, <1>9, SortedIncreases
<1>11. Cardinality(ToSet(q)) = Len(q) /\ Len(q) <= size
  BY <1>1, <1>8, <1>10, IncreasingCounted DEF Considers
<1>12. ToSet(q) \subseteq names
  BY <1>1, <1>7, <1>8 DEF Considers
<1>13. recent \subseteq ToSet(q) \/ (Len(q) = size /\ ToSet(q) \subseteq recent)
  BY <1>1, <1>7, <1>8 DEF Considers, ToSet
<1>14. \/ Len(q) = size
       \/ \A i \in passing :
            \E d \in ToSet(q) : d = dirlist[i].dirname \/ Below(d, dirlist[i].dirname)
  <2>1. SUFFICES ASSUME Len(q) # size, NEW i \in passing
                 PROVE  \E d \in ToSet(q) : d = s[i] \/ Below(d, s[i])
    BY <1>2, <1>6
  <2>2. s[i] \in Passed(s, m, F) /\ s[i] \in Dirs
    BY <1>4, <1>6 DEF Passed
  <2>3. Shows(p, s[i])
    BY <1>1, <1>8, <2>1, <2>2 DEF Considers
  <2>4. PICK j \in DOMAIN p : p[j] = s[i] \/ Under(p[j], s[i])
    BY <2>3 DEF Shows
  <2>5. p[j] \in ToSet(q) /\ p[j] \in Dirs
    <3>1. p[j] \in ToSet(p)
      BY <2>4 DEF ToSet
    <3>2. p[j] \in Dirs
      BY <2>4
    <3> QED
      BY <1>8, <3>1, <3>2
  <2> QED
    BY <2>2, <2>4, <2>5, BelowIsUnder
<1>15. f = <<>> => \A d \in ToSet(q) \ (recent \cup {Root}), e \in ToSet(q) : ~Below(e, d)
  <2>1. SUFFICES ASSUME f = <<>>, NEW j \in DOMAIN p, NEW k \in DOMAIN p, p[j] \notin recent,
                        p[j] # Root
                 PROVE  ~Below(p[k], p[j])
    BY <1>8 DEF ToSet
  <2>2. \A i \in 1 .. m : s[i] \in F
    BY <1>4, <2>1, PassesNone DEF F
  <2>3. j > NoCompact
    <3>1. j <= NoCompact => p[j] \in recent
      BY <1>1, <1>7, <2>2 DEF Considers
    <3>2. j \in Nat
      OBVIOUS
    <3> QED
      BY <1>3, <2>1, <3>1, <3>2
  <2>4. ~Under(p[k], p[j]) /\ p[j] \in Dirs /\ p[k] \in Dirs
    BY <1>9, <2>3 DEF Compact
  <2> QED
    BY <2>1, <2>4, BelowIsUnder
<1>16. Covers(q, f, size)
  BY <1>11, <1>12, <1>13, <1>14, <1>15 DEF Covers, passing, names, recent
<1>17. SlashIsLeast => Tree(q)
  BY <1>8, <1>10, IncreasingTree
<1> QED
  BY <1>16, <1>17 DEF q

LEMMA InvCovers == Inv => PanelCovers
<1>. SUFFICES ASSUME Inv, NEW filter \in Filters, NEW size \in DpSizes
              PROVE  LET panel == dir_main_panel(dirlist, filter, size)
                     IN  Covers(panel, filter, size) /\ (SlashIsLeast => Tree(panel))
  BY DEF PanelCovers
<1>1. size \in Nat
  BY SizesAssumption
<1> QED
  BY <1>1, PanelComplete DEF Inv

(***************************************************************************)
(* Whatever directories have been visited: every one that passes the       *)
(* filter is in the directory panel built from the list, itself or a       *)
(* subdirectory in its place, or the panel is full; the recent ones are    *)
(* all there, no other one together with one of its subdirectories, and    *)
(* the subdirectories follow their directory where no character of a name  *)
(* precedes the slash.                                                     *)
(***************************************************************************)
THEOREM PanelIsComplete == Spec => []PanelCovers
BY Invariant, InvCovers, PTL
=============================================================================
