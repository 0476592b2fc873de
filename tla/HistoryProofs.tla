---------------------------- MODULE HistoryProofs -----------------------------
(***************************************************************************)
(* Theorems about module History, for any commands, sizes and filters.     *)
(***************************************************************************)
EXTENDS History, SequenceTheorems, WellFoundedInduction, TLAPS

-----------------------------------------------------------------------------
(* Numbers: induction and recursion in the form that the provers can use *)

(* The least of a set of natural numbers *)
LEMMA LeastNatural ==
  ASSUME NEW T, T \subseteq Nat, T # {}
  PROVE  \E x \in T : \A y \in T : x <= y
  <1>1. IsWellFoundedOn(OpToRel(<, Nat), Nat)
    BY NatLessThanWellFounded
  <1>2. \E x \in T : \A y \in T : ~(<<y, x>> \in OpToRel(<, Nat))
    BY <1>1, WFMin
  <1>3. \E x \in T : \A y \in T : ~(y < x)
    BY <1>2 DEF OpToRel
  <1> QED BY <1>3

(* Induction, stated for a set instead of a predicate *)
LEMMA NatSetInduction ==
  ASSUME NEW T, 0 \in T, \A n \in Nat : n \in T => n + 1 \in T
  PROVE  \A n \in Nat : n \in T
  <1> DEFINE B == {n \in Nat : n \notin T}
  <1>1. SUFFICES ASSUME B # {} PROVE FALSE
    OBVIOUS
  <1>2. PICK x \in B : \A y \in B : x <= y
    BY <1>1, LeastNatural
  <1>3. x - 1 \in Nat /\ x - 1 \notin B
    BY <1>2
  <1> QED BY <1>2, <1>3

(* g starts with a, and F leads from each value to the next. *)
Iterates(g, a, F) == g[0] = a /\ \A n \in Nat : g[n + 1] = F[n][g[n]]

(* A value and a step for every number define a function. *)
LEMMA Recursion ==
  ASSUME NEW S, NEW a \in S, NEW F \in [Nat -> [S -> S]]
  PROVE  \E g \in [Nat -> S] : Iterates(g, a, F)
  <1> DEFINE Approx(n) == {g \in [0 .. n -> S] :
                             /\ g[0] = a
                             /\ \A i \in Nat : i < n => g[i + 1] = F[i][g[i]]}
  <1>1. \A n \in Nat : Approx(n) # {}
    <2> DEFINE T == {n \in Nat : Approx(n) # {}}
    <2>1. 0 \in T
      <3>1. [i \in 0 .. 0 |-> a] \in Approx(0)
        OBVIOUS
      <3> QED BY <3>1
    <2>2. ASSUME NEW n \in Nat, n \in T PROVE n + 1 \in T
      <3>1. PICK g : g \in Approx(n)
        BY <2>2
      <3> DEFINE k == [i \in 0 .. n + 1 |-> IF i <= n THEN g[i] ELSE F[n][g[n]]]
      <3>2. k \in [0 .. n + 1 -> S]
        BY <3>1
      <3>3. k[0] = a
        BY <3>1
      <3>4. ASSUME NEW i \in Nat, i < n + 1 PROVE k[i + 1] = F[i][k[i]]
        <4>1. CASE i < n
          BY <3>1, <4>1
        <4>2. CASE i = n
          BY <4>2
        <4> QED BY <3>4, <4>1, <4>2
      <3> HIDE DEF k
      <3>5. k \in Approx(n + 1)
        BY <3>2, <3>3, <3>4
      <3> HIDE DEF Approx
      <3>6. Approx(n + 1) # {} /\ n + 1 \in Nat
        BY <3>5
      <3> QED BY <3>6
    <2> HIDE DEF T
    <2>3. \A n \in Nat : n \in T
      BY <2>1, <2>2, NatSetInduction
    <2> QED BY <2>3 DEF T
  <1>2. ASSUME NEW n \in Nat, NEW m \in Nat, NEW g \in Approx(n), NEW k \in Approx(m)
        PROVE  \A i \in Nat : i <= n /\ i <= m => g[i] = k[i]
    <2> DEFINE T == {i \in Nat : i <= n /\ i <= m => g[i] = k[i]}
    <2>1. 0 \in T
      OBVIOUS
    <2>2. \A i \in Nat : i \in T => i + 1 \in T
      OBVIOUS
    <2> HIDE DEF T
    <2>3. \A i \in Nat : i \in T
      BY <2>1, <2>2, NatSetInduction
    <2> QED BY <2>3 DEF T
  <1> DEFINE the(n) == CHOOSE g : g \in Approx(n)
             G == [n \in Nat |-> the(n)[n]]
  <1>3. \A n \in Nat : the(n) \in Approx(n)
    BY <1>1
  <1> HIDE DEF the
  <1>4. G \in [Nat -> S] /\ G[0] = a
    BY <1>3
  <1>5. ASSUME NEW n \in Nat PROVE G[n + 1] = F[n][G[n]]
    <2>1. the(n + 1) \in Approx(n + 1) /\ the(n) \in Approx(n) /\ n + 1 \in Nat
      BY <1>3
    <2>2. the(n + 1)[n + 1] = F[n][the(n + 1)[n]]
      BY <2>1
    <2>3. the(n + 1)[n] = the(n)[n]
      <3> HIDE DEF Approx
      <3>1. n <= n + 1 /\ n <= n
        OBVIOUS
      <3> QED BY <1>2, <2>1, <3>1
    <2> QED BY <2>1, <2>2, <2>3
  <1> QED BY <1>4, <1>5 DEF Iterates

Matches(e, f) == entry[e].cmd \in f

-----------------------------------------------------------------------------
(* The loop of hist_panel() *)

(* What one round of the loop does *)
LEMMA ListedRound ==
  ASSUME NEW h, NEW f
  PROVE  /\ Listed(h, 0, f) = <<>>
         /\ \A n \in Nat :
              Listed(h, n + 1, f) = IF Matches(h[n + 1], f)
                                    THEN Append(Listed(h, n, f), h[n + 1])
                                    ELSE Listed(h, n, f)
  <1> DEFINE S == Seq({h[i] : i \in Nat})
             Round(g, i) == IF Matches(h[i], f) THEN Append(g, h[i]) ELSE g
             F == [n \in Nat |-> [l \in S |-> Round(l, n + 1)]]
             IsLoop(g) == g = [i \in Nat |-> IF i = 0 THEN <<>> ELSE Round(g[i - 1], i)]
             loop == CHOOSE g : IsLoop(g)
  <1>1. <<>> \in S
    BY EmptySeq
  <1>2. ASSUME NEW n \in Nat, NEW l \in S PROVE Round(l, n + 1) \in S
    <2>1. h[n + 1] \in {h[i] : i \in Nat}
      OBVIOUS
    <2> QED BY <2>1, AppendProperties
  <1>3. F \in [Nat -> [S -> S]]
    BY <1>2
  <1> HIDE DEF S, F
  <1>4. PICK g \in [Nat -> S] : g[0] = <<>> /\ \A n \in Nat : g[n + 1] = F[n][g[n]]
    <2>1. \E g \in [Nat -> S] : Iterates(g, <<>>, F)
      BY <1>1, <1>3, Recursion
    <2> QED BY <2>1 DEF Iterates
  <1>5. IsLoop(g)
    <2>1. ASSUME NEW i \in Nat PROVE g[i] = IF i = 0 THEN <<>> ELSE Round(g[i - 1], i)
      <3>1. CASE i = 0
        BY <1>4, <3>1
      <3>2. CASE i # 0
        <4>1. i - 1 \in Nat /\ (i - 1) + 1 = i /\ g[i - 1] \in S
          BY <3>2
        <4>2. g[i] = F[i - 1][g[i - 1]]
          BY <1>4, <4>1
        <4>3. F[i - 1][g[i - 1]] = Round(g[i - 1], (i - 1) + 1)
          BY <4>1 DEF F
        <4> QED BY <3>2, <4>1, <4>2, <4>3
      <3> QED BY <3>1, <3>2
    <2> HIDE DEF Round
    <2> QED BY <2>1
  <1>6. IsLoop(loop)
    BY <1>5
  <1>7. \A n \in Nat : Listed(h, n, f) = loop[n]
    BY DEF Listed, Matches
  <1> HIDE DEF loop
  <1>8. ASSUME NEW n \in Nat PROVE loop[n + 1] = Round(loop[n], n + 1)
    <2>1. n + 1 \in Nat /\ n + 1 # 0 /\ (n + 1) - 1 = n
      OBVIOUS
    <2> HIDE DEF Round
    <2> QED BY <1>6, <2>1
  <1>9. loop[0] = <<>>
    BY <1>6
  <1>10. ASSUME NEW n \in Nat
         PROVE  Listed(h, n + 1, f) = Round(Listed(h, n, f), n + 1)
    <2>1. n + 1 \in Nat
      OBVIOUS
    <2> HIDE DEF Round
    <2> QED BY <1>7, <1>8, <2>1
  <1> QED BY <1>7, <1>9, <1>10

(* The list is made of matching entries, and it is not longer than what was
   looked at. *)
ListsOnly(h, f, n) ==
  \A i \in 1 .. Len(Listed(h, n, f)) :
    \E k \in 1 .. n : Matches(h[k], f) /\ Listed(h, n, f)[i] = h[k]

LEMMA ListedEntries ==
  ASSUME NEW h, NEW f
  PROVE  \A n \in Nat :
           /\ Listed(h, n, f) \in Seq({h[i] : i \in Nat})
           /\ Len(Listed(h, n, f)) \in 0 .. n
           /\ ListsOnly(h, f, n)
  <1> USE DEF ListsOnly
  <1> DEFINE X == {h[i] : i \in Nat}
             P(n) == /\ Listed(h, n, f) \in Seq(X)
                     /\ Len(Listed(h, n, f)) \in 0 .. n
                     /\ ListsOnly(h, f, n)
             T == {n \in Nat : P(n)}
  <1>1. 0 \in T
    <2>1. Listed(h, 0, f) = <<>> /\ Len(<<>>) = 0 /\ <<>> \in Seq(X)
      BY ListedRound, EmptySeq
    <2>2. 0 \in Nat /\ 0 \in 0 .. 0 /\ \A i \in 1 .. 0 : FALSE
      OBVIOUS
    <2> QED BY <2>1, <2>2
  <1>2. ASSUME NEW n \in Nat, n \in T PROVE n + 1 \in T
    <2>1. h[n + 1] \in X
      OBVIOUS
    <2>2. n + 1 \in Nat /\ n + 1 \in 1 .. n + 1
      OBVIOUS
    <2> HIDE DEF X
    <2>3. CASE Matches(h[n + 1], f)
      <3> DEFINE l == Listed(h, n, f)
                 longer == Listed(h, n + 1, f)
      <3>1. longer = Append(l, h[n + 1])
        BY <2>3, ListedRound
      <3>2. l \in Seq(X) /\ Len(l) \in 0 .. n
        BY <1>2
      <3>3. \A i \in 1 .. Len(l) : \E k \in 1 .. n : Matches(h[k], f) /\ l[i] = h[k]
        BY <1>2
      <3> HIDE DEF l, longer
      <3>4. /\ longer \in Seq(X) /\ Len(longer) = Len(l) + 1
            /\ \A i \in 1 .. Len(l) : longer[i] = l[i]
            /\ longer[Len(l) + 1] = h[n + 1]
        BY <2>1, <3>1, <3>2, AppendProperties
      <3>5. \A i \in 1 .. Len(longer) : \E k \in 1 .. n + 1 : Matches(h[k], f) /\ longer[i] = h[k]
        <4> TAKE i \in 1 .. Len(longer)
        <4>1. CASE i \in 1 .. Len(l)
          BY <3>3, <3>4, <4>1
        <4>2. CASE i = Len(l) + 1
          BY <2>2, <2>3, <3>4, <4>2
        <4> QED BY <3>2, <3>4, <4>1, <4>2
      <3>6. Len(longer) \in 0 .. n + 1
        BY <3>2, <3>4
      <3> QED BY <2>2, <3>4, <3>5, <3>6 DEF longer
    <2>4. CASE ~Matches(h[n + 1], f)
      <3>1. Listed(h, n + 1, f) = Listed(h, n, f)
        BY <2>4, ListedRound
      <3>2. \A k \in 1 .. n : k \in 1 .. n + 1
        OBVIOUS
      <3>3. \A k \in 0 .. n : k \in 0 .. n + 1
        OBVIOUS
      <3> QED BY <1>2, <2>2, <3>1, <3>2, <3>3
    <2> QED BY <2>3, <2>4
  <1> HIDE DEF T
  <1>3. \A n \in Nat : n \in T
    BY <1>1, <1>2, NatSetInduction
  <1> QED BY <1>3 DEF T

LEMMA ListedType ==
  ASSUME NEW h, NEW f, NEW n \in Nat
  PROVE  /\ Listed(h, n, f) \in Seq({h[i] : i \in Nat})
         /\ Len(Listed(h, n, f)) \in 0 .. n
         /\ Listed(h, n, f) # <<>> <=> Len(Listed(h, n, f)) # 0
  BY ListedEntries, EmptySeq

(* What was listed stays where it is. *)
LEMMA ListedPrefix ==
  ASSUME NEW h, NEW f, NEW k \in Nat
  PROVE  \A n \in Nat : n >= k =>
           /\ Len(Listed(h, k, f)) <= Len(Listed(h, n, f))
           /\ \A i \in 1 .. Len(Listed(h, k, f)) : Listed(h, n, f)[i] = Listed(h, k, f)[i]
  <1> DEFINE L(n) == Listed(h, n, f)
             P(n) == /\ Len(L(k)) <= Len(L(n))
                     /\ \A i \in 1 .. Len(L(k)) : L(n)[i] = L(k)[i]
             T == {n \in Nat : P(k + n)}
  <1>1. \A n \in Nat : L(n) \in Seq({h[i] : i \in Nat}) /\ Len(L(n)) \in Nat
    BY ListedType
  <1>2. 0 \in T
    <2>1. k + 0 = k
      OBVIOUS
    <2> HIDE DEF L
    <2> QED BY <1>1, <2>1
  <1>3. ASSUME NEW n \in Nat, n \in T PROVE n + 1 \in T
    <2>1. k + n \in Nat /\ (k + n) + 1 = k + (n + 1) /\ n + 1 \in Nat
      OBVIOUS
    <2>2. P(k + n)
      BY <1>3
    <2>3. \/ L(k + (n + 1)) = L(k + n)
          \/ L(k + (n + 1)) = Append(L(k + n), h[(k + n) + 1])
      BY <2>1, ListedRound
    <2>4. h[(k + n) + 1] \in {h[i] : i \in Nat}
      BY <2>1
    <2> HIDE DEF L
    <2>5. CASE L(k + (n + 1)) = L(k + n)
      BY <2>1, <2>2, <2>5
    <2>6. CASE L(k + (n + 1)) = Append(L(k + n), h[(k + n) + 1])
      <3>1. /\ Len(L(k + (n + 1))) = Len(L(k + n)) + 1
            /\ \A i \in 1 .. Len(L(k + n)) : L(k + (n + 1))[i] = L(k + n)[i]
        BY <1>1, <2>1, <2>4, <2>6, AppendProperties
      <3> QED BY <1>1, <2>1, <2>2, <3>1
    <2> QED BY <2>3, <2>5, <2>6
  <1> HIDE DEF T
  <1>4. \A n \in Nat : n \in T
    BY <1>2, <1>3, NatSetInduction
  <1>5. ASSUME NEW n \in Nat, n >= k PROVE P(n)
    <2>1. n - k \in Nat /\ k + (n - k) = n
      BY <1>5
    <2>2. P(k + (n - k))
      BY <1>4, <2>1 DEF T
    <2> HIDE DEF P
    <2> QED BY <2>1, <2>2
  <1> QED BY <1>5

(* A matching entry comes after what was listed before it. *)
LEMMA ListedPlace ==
  ASSUME NEW h, NEW f, NEW n \in Nat, NEW k \in 1 .. n, Matches(h[k], f)
  PROVE  /\ Len(Listed(h, k, f)) = Len(Listed(h, k - 1, f)) + 1
         /\ Len(Listed(h, k, f)) \in 1 .. Len(Listed(h, n, f))
         /\ Listed(h, n, f)[Len(Listed(h, k, f))] = h[k]
  <1>1. k - 1 \in Nat /\ (k - 1) + 1 = k /\ k \in Nat /\ n >= k
    OBVIOUS
  <1> DEFINE before == Listed(h, k - 1, f)
             upto == Listed(h, k, f)
             all == Listed(h, n, f)
  <1>2. upto = Append(before, h[k])
    <2>1. Listed(h, (k - 1) + 1, f) = IF Matches(h[(k - 1) + 1], f)
                                      THEN Append(Listed(h, k - 1, f), h[(k - 1) + 1])
                                      ELSE Listed(h, k - 1, f)
      BY <1>1, ListedRound
    <2> QED BY <1>1, <2>1
  <1>3. before \in Seq({h[i] : i \in Nat}) /\ Len(before) \in Nat
    BY <1>1, ListedType
  <1>4. h[k] \in {h[i] : i \in Nat}
    BY <1>1
  <1>5. Len(all) \in Nat
    BY ListedType
  <1>6. Len(upto) <= Len(all) /\ \A i \in 1 .. Len(upto) : all[i] = upto[i]
    BY <1>1, ListedPrefix
  <1> HIDE DEF before, upto, all
  <1>7. Len(upto) = Len(before) + 1 /\ upto[Len(before) + 1] = h[k]
    BY <1>2, <1>3, <1>4, AppendProperties
  <1>8. Len(upto) \in 1 .. Len(all) /\ all[Len(upto)] = h[k]
    BY <1>3, <1>5, <1>6, <1>7
  <1> QED BY <1>7, <1>8 DEF before, upto, all

(* Nothing is left out if everything matches. *)
LEMMA ListedAll ==
  ASSUME NEW h, NEW f, NEW n \in Nat, \A k \in 1 .. n : Matches(h[k], f)
  PROVE  Len(Listed(h, n, f)) = n
  <1> DEFINE T == {k \in Nat : k <= n => Len(Listed(h, k, f)) = k}
  <1>1. 0 \in T
    BY ListedRound, EmptySeq
  <1>2. ASSUME NEW k \in Nat, k \in T PROVE k + 1 \in T
    <2>1. CASE k + 1 <= n
      <3>1. k + 1 \in 1 .. n /\ k <= n /\ (k + 1) - 1 = k
        BY <2>1
      <3>2. Len(Listed(h, k + 1, f)) = Len(Listed(h, (k + 1) - 1, f)) + 1
        BY <3>1, ListedPlace
      <3> QED BY <1>2, <3>1, <3>2
    <2>2. CASE ~(k + 1 <= n)
      BY <2>2
    <2> QED BY <2>1, <2>2
  <1> HIDE DEF T
  <1>3. \A k \in Nat : k \in T
    BY <1>1, <1>2, NatSetInduction
  <1> QED BY <1>3 DEF T

-----------------------------------------------------------------------------
(* The pointers *)

OneToOne(h, n) == \A i, j \in 1 .. n : h[i] = h[j] => i = j

LEMMA FunctionIsSeq ==
  ASSUME NEW S, NEW n \in Nat, NEW f \in [1 .. n -> S]
  PROVE  f \in Seq(S) /\ Len(f) = n
  <1>1. f \in Seq(S)
    BY SeqDef
  <1> QED BY <1>1, LenProperties

(* Moving a pointer to the top is a permutation. *)
LEMMA ToTopPermutes ==
  ASSUME NEW n \in Nat, NEW h \in [1 .. n -> 1 .. n], OneToOne(h, n), NEW k \in 1 .. n
  PROVE  /\ ToTop(h, k) \in [1 .. n -> 1 .. n]
         /\ OneToOne(ToTop(h, k), n)
         /\ ToTop(h, k)[1] = h[k]
         /\ \A i \in 2 .. k : ToTop(h, k)[i] = h[i - 1]
         /\ \A i \in k + 1 .. n : ToTop(h, k)[i] = h[i]
  <1> DEFINE source(i) == IF i = 1 THEN k ELSE IF i <= k THEN i - 1 ELSE i
  <1>1. \A i \in 1 .. n : source(i) \in 1 .. n
    OBVIOUS
  <1>2. \A i, j \in 1 .. n : source(i) = source(j) => i = j
    OBVIOUS
  <1>3. ToTop(h, k) = [i \in 1 .. n |-> h[source(i)]]
    <2>1. \A i \in 1 .. n : (IF i = 1 THEN h[k] ELSE IF i <= k THEN h[i - 1] ELSE h[i])
                            = h[source(i)]
      OBVIOUS
    <2> QED BY <2>1 DEF ToTop
  <1>4. /\ 1 \in 1 .. n /\ source(1) = k
        /\ \A i \in 2 .. k : i \in 1 .. n /\ source(i) = i - 1
        /\ \A i \in k + 1 .. n : i \in 1 .. n /\ source(i) = i
    OBVIOUS
  <1> HIDE DEF source
  <1>5. OneToOne(ToTop(h, k), n)
    BY <1>1, <1>2, <1>3 DEF OneToOne
  <1> QED BY <1>1, <1>3, <1>4, <1>5

(* So is moving one behind the last entry in use. *)
LEMMA RemovedPermutes ==
  ASSUME NEW n \in Nat, NEW h \in [1 .. n -> 1 .. n], OneToOne(h, n),
         hs_cnt \in 1 .. n, NEW k \in 1 .. hs_cnt
  PROVE  /\ Removed(h, k) \in [1 .. n -> 1 .. n]
         /\ OneToOne(Removed(h, k), n)
         /\ Removed(h, k)[hs_cnt] = h[k]
         /\ \A i \in 1 .. k - 1 : Removed(h, k)[i] = h[i]
         /\ \A i \in k .. hs_cnt - 1 : Removed(h, k)[i] = h[i + 1]
         /\ \A i \in hs_cnt + 1 .. n : Removed(h, k)[i] = h[i]
  <1> DEFINE c == hs_cnt
             source(i) == IF i < k \/ i > c THEN i ELSE IF i = c THEN k ELSE i + 1
  <1>1. \A i \in 1 .. n : source(i) \in 1 .. n
    OBVIOUS
  <1>2. \A i, j \in 1 .. n : source(i) = source(j) => i = j
    OBVIOUS
  <1>3. Removed(h, k) = [i \in 1 .. n |-> h[source(i)]]
    <2>1. \A i \in 1 .. n : (IF i < k \/ i > c THEN h[i] ELSE IF i = c THEN h[k] ELSE h[i + 1])
                            = h[source(i)]
      OBVIOUS
    <2> QED BY <2>1 DEF Removed
  <1>4. /\ c \in 1 .. n /\ source(c) = k
        /\ \A i \in 1 .. k - 1 : i \in 1 .. n /\ source(i) = i
        /\ \A i \in k .. c - 1 : i \in 1 .. n /\ source(i) = i + 1
        /\ \A i \in c + 1 .. n : i \in 1 .. n /\ source(i) = i
    OBVIOUS
  <1> HIDE DEF source
  <1>5. OneToOne(Removed(h, k), n)
    BY <1>1, <1>2, <1>3 DEF OneToOne
  <1> QED BY <1>1, <1>3, <1>4, <1>5

-----------------------------------------------------------------------------
(* The inductive invariant *)

Text(i) == entry[history[i]].cmd

Pointers ==
  /\ hs_alloc \in Sizes
  /\ history \in [1 .. hs_alloc -> 1 .. hs_alloc]
  /\ OneToOne(history, hs_alloc)

EntryType == [cmd : Lines, failed : BOOLEAN]

(* The entries with a text come first, the ones in use before the deleted
   ones; no two in use hold the same command, so that the search of
   hist_save() finds the only one. *)
Entries ==
  /\ entry \in [1 .. hs_alloc -> EntryType]
  /\ hs_cnt \in 0 .. hs_alloc
  /\ \A i \in 1 .. hs_cnt : Text(i) \in Cmds
  /\ \A i, j \in 1 .. hs_cnt : Text(i) = Text(j) => i = j
  /\ \A i, j \in 1 .. hs_alloc : j <= i /\ Text(i) \in Cmds => Text(j) \in Cmds

Browsing ==
  /\ pn_index \in -1 .. hs_alloc - 1
  /\ pn_index >= 0 => Text(pn_index + 1) \in Cmds
  /\ save_line \in Lines /\ line_cmd \in Lines

(* The listing is what hist_panel() makes of the present state. *)
Listing ==
  /\ mode \in {"FILE", "HIST", "CFG"}
  /\ filter \in Filters
  /\ IF mode = "HIST"
     THEN hist = Listed(history, hs_cnt, filter) /\ curs \in -1 .. Len(hist) - 1
     ELSE hist = <<>> /\ curs = -1

Config == new \in Sizes /\ changed \in BOOLEAN

Inv == Pointers /\ Entries /\ Browsing /\ Listing /\ Config

LEMMA InvGivesTypes == Inv => TypeOK
  <1> SUFFICES ASSUME Inv PROVE TypeOK
    OBVIOUS
  <1> USE DEF Inv
  <1>1. hs_alloc \in Nat
    BY HistorySizesAssumption DEF Pointers
  <1>2. \A i \in 0 .. hs_cnt - 1 : cmd(i) \in Cmds
    <2> TAKE i \in 0 .. hs_cnt - 1
    <2>1. i + 1 \in 1 .. hs_cnt
      BY <1>1 DEF Entries
    <2> QED BY <2>1 DEF Entries, Text, cmd
  <1>3. pn_index >= 0 => cmd(pn_index) \in Cmds
    BY DEF Browsing, Text, cmd
  <1>4. curs \in -1 .. Len(hist) - 1
    <2>1. CASE mode = "HIST"
      BY <2>1 DEF Listing
    <2>2. CASE mode # "HIST"
      <3>1. hist = <<>> /\ curs = -1
        BY <2>2 DEF Listing
      <3>2. Len(hist) = 0
        BY <3>1, EmptySeq
      <3> QED BY <3>1, <3>2
    <2> QED BY <2>1, <2>2
  <1> QED BY <1>2, <1>3, <1>4 DEF TypeOK, Pointers, Entries, Browsing, Listing, Config, EntryType

LEMMA InvGivesOnce == Inv => EveryEntryOnce
  BY DEF Inv, Pointers, OneToOne, EveryEntryOnce

-----------------------------------------------------------------------------
(* The functions that write the list *)

(* hist_reconfig() makes a new list: all pointers, none of them in use. *)
LEMMA NewList ==
  ASSUME Inv, NEW n \in Sizes, hist_reconfig(n)
  PROVE  /\ hs_alloc' = n /\ hs_cnt' = 0
         /\ Pointers' /\ Entries'
         /\ pn_index' = -1 /\ save_line' = Empty
  <1>1. n \in Nat \ {0}
    BY HistorySizesAssumption
  <1> DEFINE h == [i \in 1 .. n |-> i]
  <1>2. h \in [1 .. n -> 1 .. n] /\ OneToOne(h, n) /\ Len(h) = n
    <2>1. h \in [1 .. n -> 1 .. n]
      OBVIOUS
    <2>2. OneToOne(h, n)
      BY DEF OneToOne
    <2> HIDE DEF h
    <2> QED BY <1>1, <2>1, <2>2, FunctionIsSeq
  <1>3. history' = h /\ entry' = Block(n) /\ hs_cnt' = 0 /\ SetIndex(-1)
    BY DEF hist_reconfig
  <1> HIDE DEF h
  <1>4. hs_alloc' = n
    BY <1>2, <1>3 DEF hs_alloc
  <1>5. Pointers'
    BY <1>2, <1>3, <1>4 DEF Pointers
  <1>6. \A i \in 1 .. n : Block(n)[i] \in EntryType /\ Block(n)[i].cmd \notin Cmds
    BY CmdsAssumption DEF Block, EntryType, Lines
  <1>7. Block(n) \in [1 .. n -> EntryType]
    BY <1>6 DEF Block
  <1>8. \A i \in 1 .. n : Text(i)' \notin Cmds
    BY <1>2, <1>3, <1>6 DEF Text
  <1>9. 0 \in 0 .. n /\ \A i \in 1 .. 0 : FALSE
    BY <1>1
  <1>10. Entries'
    BY <1>3, <1>4, <1>7, <1>8, <1>9 DEF Entries
  <1> QED BY <1>3, <1>4, <1>5, <1>10 DEF SetIndex

(* The loop of hist_save() finds an entry, at the latest the last one. *)
LEMMA SlotExists ==
  ASSUME Inv, NEW c, NEW k, k = SlotFor(c)
  PROVE  /\ k \in 1 .. hs_alloc /\ k <= hs_cnt + 1
         /\ k = hs_cnt + 1 \/ Text(k) = c \/ k = hs_alloc
         /\ \A i \in 1 .. k - 1 : Text(i) # c
  <1>1. hs_alloc \in Nat \ {0} /\ hs_cnt \in 0 .. hs_alloc
    BY HistorySizesAssumption DEF Inv, Pointers, Entries
  <1> DEFINE Stop(i) == i = hs_cnt + 1 \/ Text(i) = c \/ i = hs_alloc
             S == {i \in 1 .. hs_alloc : Stop(i)}
  <1>2. hs_alloc \in S /\ S \subseteq Nat
    BY <1>1
  <1>3. PICK m \in S : \A i \in S : m <= i
    <2> HIDE DEF S
    <2> QED BY <1>2, LeastNatural
  <1>4. m \in 1 .. hs_alloc /\ Stop(m) /\ \A i \in 1 .. m - 1 : ~Stop(i)
    BY <1>1, <1>3
  <1>5. \A i \in Int : cmd(i - 1) = Text(i)
    BY DEF cmd, Text
  <1> DEFINE First(i) == /\ i = hs_cnt + 1 \/ cmd(i - 1) = c \/ i = hs_alloc
                         /\ \A j \in 1 .. i - 1 : j # hs_cnt + 1 /\ cmd(j - 1) # c
  <1>6. First(m)
    <2>1. m \in Int /\ \A i \in 1 .. m - 1 : i \in Int
      BY <1>4
    <2> HIDE DEF S
    <2> QED BY <1>4, <1>5, <2>1
  <1>7. k \in 1 .. hs_alloc /\ First(k)
    <2>1. k = CHOOSE i \in 1 .. hs_alloc : First(i)
      BY DEF SlotFor
    <2> HIDE DEF First
    <2> QED BY <1>4, <1>6, <2>1
  <1>8. k \in Int /\ \A i \in 1 .. k - 1 : i \in Int
    BY <1>7
  <1>9. /\ k = hs_cnt + 1 \/ Text(k) = c \/ k = hs_alloc
        /\ \A i \in 1 .. k - 1 : i # hs_cnt + 1 /\ Text(i) # c
    BY <1>5, <1>7, <1>8
  <1>10. k <= hs_cnt + 1
    <2> SUFFICES ASSUME k > hs_cnt + 1 PROVE FALSE
      BY <1>1, <1>7
    <2>1. hs_cnt + 1 \in 1 .. k - 1
      BY <1>1, <1>7
    <2> QED BY <1>9, <2>1
  <1> QED BY <1>7, <1>9, <1>10

(* What the history holds after hist_save(): the command on the top, the
   entries before its old place moved down, the others where they were. *)
LEMMA SavedEntries ==
  ASSUME Inv, NEW c \in Cmds, NEW failed \in BOOLEAN, hist_save(c, failed),
         NEW k, k = SlotFor(c)
  PROVE  /\ hs_alloc' = hs_alloc /\ Pointers'
         /\ hs_cnt' = IF k = hs_cnt + 1 THEN hs_cnt + 1 ELSE hs_cnt
         /\ entry' \in [1 .. hs_alloc -> EntryType]
         /\ entry'[history'[1]] = [cmd |-> c, failed |-> failed]
         /\ \A i \in 2 .. k : entry'[history'[i]] = entry[history[i - 1]]
         /\ \A i \in k + 1 .. hs_alloc : entry'[history'[i]] = entry[history[i]]
  <1> DEFINE n == hs_alloc
             e == [cmd |-> c, failed |-> failed]
  <1>1. /\ n \in Nat \ {0} /\ n \in Sizes
        /\ history \in [1 .. n -> 1 .. n] /\ OneToOne(history, n)
        /\ entry \in [1 .. n -> EntryType]
    BY HistorySizesAssumption DEF Inv, Pointers, Entries
  <1>2. k \in 1 .. n
    BY SlotExists
  <1>3. /\ history' = ToTop(history, k)
        /\ entry' = [entry EXCEPT ![history[k]] = e]
        /\ hs_cnt' = IF k = hs_cnt + 1 THEN hs_cnt + 1 ELSE hs_cnt
    BY DEF hist_save
  <1>4. /\ history' \in [1 .. n -> 1 .. n]
        /\ OneToOne(history', n)
        /\ history'[1] = history[k]
        /\ \A i \in 2 .. k : history'[i] = history[i - 1]
        /\ \A i \in k + 1 .. n : history'[i] = history[i]
    <2> DEFINE t == ToTop(history, k)
    <2>1. /\ t \in [1 .. n -> 1 .. n]
          /\ OneToOne(t, n)
          /\ t[1] = history[k]
          /\ \A i \in 2 .. k : t[i] = history[i - 1]
          /\ \A i \in k + 1 .. n : t[i] = history[i]
      <3>1. n \in Nat
        BY <1>1
      <3> HIDE DEF n
      <3> QED BY <1>1, <1>2, <3>1, ToTopPermutes
    <2> HIDE DEF t
    <2>2. history' = t
      BY <1>3 DEF t
    <2> QED BY <2>1, <2>2
  <1>5. hs_alloc' = n
    <2>1. Len(history') = n
      <3> HIDE DEF n
      <3> QED BY <1>1, <1>4, FunctionIsSeq
    <2> QED BY <2>1 DEF hs_alloc
  <1>6. e \in EntryType
    BY DEF EntryType, Lines
  <1> HIDE DEF n, e
  <1>7. Pointers'
    BY <1>1, <1>4, <1>5 DEF Pointers
  <1>8. entry' \in [1 .. n -> EntryType]
    BY <1>1, <1>3, <1>6
  <1>9. history[k] \in 1 .. n
    BY <1>1, <1>2
  <1>10. entry'[history'[1]] = e
    BY <1>1, <1>3, <1>4, <1>9
  <1>11. \A j \in 1 .. n : j # k => entry'[history[j]] = entry[history[j]]
    <2> TAKE j \in 1 .. n
    <2> HAVE j # k
    <2>1. history[j] \in 1 .. n /\ history[j] # history[k]
      BY <1>1, <1>2 DEF OneToOne
    <2> QED BY <1>1, <1>3, <2>1
  <1>12. /\ \A i \in 2 .. k : i - 1 \in 1 .. n /\ i - 1 # k
         /\ \A i \in k + 1 .. n : i \in 1 .. n /\ i # k
    BY <1>1, <1>2
  <1>13. /\ \A i \in 2 .. k : entry'[history'[i]] = entry[history[i - 1]]
         /\ \A i \in k + 1 .. n : entry'[history'[i]] = entry[history[i]]
    BY <1>4, <1>11, <1>12
  <1> QED BY <1>3, <1>5, <1>7, <1>8, <1>10, <1>13 DEF n, e

(* The texts after that, as facts about arrays of n texts with m in use *)
TextsOK(t, n, m) ==
  /\ m \in 0 .. n
  /\ \A i \in 1 .. m : t[i] \in Cmds
  /\ \A i, j \in 1 .. m : t[i] = t[j] => i = j
  /\ \A i, j \in 1 .. n : j <= i /\ t[i] \in Cmds => t[j] \in Cmds

(* The k-th place is the one that hist_save() takes for c ... *)
IsSlot(t, n, m, k, c) ==
  /\ k \in 1 .. n /\ k <= m + 1
  /\ k = m + 1 \/ t[k] = c \/ k = n
  /\ \A i \in 1 .. k - 1 : t[i] # c

(* ... and old becomes now when it does so. *)
Shifted(old, now, n, k, c) ==
  /\ now[1] = c
  /\ \A i \in 2 .. k : now[i] = old[i - 1]
  /\ \A i \in k + 1 .. n : now[i] = old[i]

LEMMA SavedTexts ==
  ASSUME NEW n \in Nat, NEW m, NEW k, NEW c \in Cmds,
         NEW old, NEW now, NEW m1, m1 = IF k = m + 1 THEN m + 1 ELSE m,
         TextsOK(old, n, m), IsSlot(old, n, m, k, c), Shifted(old, now, n, k, c)
  PROVE  TextsOK(now, n, m1)
  <1> USE DEF TextsOK, IsSlot, Shifted
  <1>1. m1 \in 0 .. n
    OBVIOUS
  <1>2. \A i \in 1 .. m1 :
          \/ i = 1
          \/ i \in 2 .. k /\ i - 1 \in 1 .. m
          \/ i \in k + 1 .. n /\ i \in 1 .. m
    OBVIOUS
  <1>3. \A i \in 1 .. m1 : now[i] \in Cmds
    BY <1>2
  <1>4. ASSUME NEW i \in 1 .. m1, NEW j \in 1 .. m1, now[i] = now[j], i < j PROVE FALSE
    <2>1. CASE i = 1 /\ j \in 2 .. k
      <3>1. j - 1 \in 1 .. k - 1 /\ now[j] = old[j - 1]
        BY <2>1
      <3> QED BY <1>4, <2>1, <3>1
    <2>2. CASE i = 1 /\ j \in k + 1 .. m
      <3>1. now[j] = old[j] /\ old[k] = c /\ k # j /\ k \in 1 .. m /\ j \in 1 .. m
        BY <1>1, <2>2
      <3> QED BY <1>4, <2>2, <3>1
    <2>3. CASE i \in 2 .. k /\ j \in 2 .. k
      <3>1. i - 1 \in 1 .. m /\ j - 1 \in 1 .. m /\ i - 1 # j - 1
        BY <1>4, <2>3
      <3> QED BY <1>4, <2>3, <3>1
    <2>4. CASE i \in 2 .. k /\ j \in k + 1 .. m
      <3>1. i - 1 \in 1 .. m /\ j \in 1 .. m /\ i - 1 # j /\ j \in k + 1 .. n
        BY <1>4, <2>4
      <3> QED BY <1>4, <2>4, <3>1
    <2>5. CASE i \in k + 1 .. m /\ j \in k + 1 .. m
      <3>1. i \in 1 .. m /\ j \in 1 .. m /\ j \in k + 1 .. n /\ i \in k + 1 .. n /\ i # j
        BY <1>4, <2>5
      <3> QED BY <1>4, <2>5, <3>1
    <2>6. \/ i = 1 /\ j \in 2 .. k
          \/ i = 1 /\ j \in k + 1 .. m
          \/ i \in 2 .. k /\ j \in 2 .. k
          \/ i \in 2 .. k /\ j \in k + 1 .. m
          \/ i \in k + 1 .. m /\ j \in k + 1 .. m
      BY <1>4
    <2> QED BY <2>1, <2>2, <2>3, <2>4, <2>5, <2>6
  <1>5. \A i, j \in 1 .. m1 : now[i] = now[j] => i = j
    <2> SUFFICES ASSUME NEW i \in 1 .. m1, NEW j \in 1 .. m1, now[i] = now[j], i # j
                 PROVE  FALSE
      OBVIOUS
    <2>1. i < j \/ j < i
      BY <1>1
    <2> QED BY <1>4, <2>1
  <1>6. ASSUME NEW i \in 1 .. n, NEW j \in 1 .. n, j <= i, now[i] \in Cmds
        PROVE  now[j] \in Cmds
    <2>1. CASE j = 1
      BY <2>1
    <2>2. CASE j \in 2 .. k
      <3>1. j - 1 \in 1 .. m /\ now[j] = old[j - 1]
        BY <2>2
      <3> QED BY <3>1
    <2>3. CASE j \in k + 1 .. n
      <3>1. i \in k + 1 .. n
        BY <1>6, <2>3
      <3>2. now[i] = old[i] /\ now[j] = old[j]
        BY <2>3, <3>1
      <3> QED BY <1>6, <3>2
    <2>4. j = 1 \/ j \in 2 .. k \/ j \in k + 1 .. n
      OBVIOUS
    <2> QED BY <2>1, <2>2, <2>3, <2>4
  <1> QED BY <1>1, <1>3, <1>5, <1>6

LEMMA SavePreserves ==
  ASSUME Inv, NEW c \in Cmds, NEW failed \in BOOLEAN, hist_save(c, failed)
  PROVE  Pointers' /\ Entries' /\ hs_alloc' = hs_alloc
  <1> DEFINE k == SlotFor(c)
             n == hs_alloc
             m == hs_cnt
             old == [i \in 1 .. n |-> Text(i)]
             now == [i \in 1 .. n |-> Text(i)']
  <1>1. n \in Nat \ {0} /\ TextsOK(old, n, m)
    <2>1. n \in Nat \ {0} /\ m \in 0 .. n
      BY HistorySizesAssumption DEF Inv, Pointers, Entries
    <2>2. \A i \in 1 .. m : i \in 1 .. n
      BY <2>1
    <2> QED BY <2>1, <2>2 DEF Inv, Entries, TextsOK
  <1>2. IsSlot(old, n, m, k, c)
    <2>1. /\ k \in 1 .. n /\ k <= m + 1
          /\ k = m + 1 \/ Text(k) = c \/ k = n
          /\ \A i \in 1 .. k - 1 : Text(i) # c
      BY SlotExists
    <2> HIDE DEF k
    <2>2. \A i \in 1 .. k - 1 : i \in 1 .. n
      BY <1>1, <2>1
    <2> QED BY <2>1, <2>2 DEF IsSlot
  <1>3. /\ hs_alloc' = n /\ Pointers'
        /\ hs_cnt' = IF k = m + 1 THEN m + 1 ELSE m
        /\ entry' \in [1 .. n -> EntryType]
        /\ entry'[history'[1]] = [cmd |-> c, failed |-> failed]
        /\ \A i \in 2 .. k : entry'[history'[i]] = entry[history[i - 1]]
        /\ \A i \in k + 1 .. n : entry'[history'[i]] = entry[history[i]]
    BY SavedEntries
  <1>4. Shifted(old, now, n, k, c)
    <2> HIDE DEF k
    <2>1. 1 \in 1 .. n
      BY <1>1
    <2>2. \A i \in 2 .. k : i \in 1 .. n /\ i - 1 \in 1 .. n
      BY <1>1, <1>2 DEF IsSlot
    <2>3. \A i \in k + 1 .. n : i \in 1 .. n
      BY <1>2 DEF IsSlot
    <2> QED BY <1>3, <2>1, <2>2, <2>3 DEF Text, Shifted
  <1> DEFINE m1 == hs_cnt'
  <1>5. m1 = IF k = m + 1 THEN m + 1 ELSE m
    BY <1>3
  <1> HIDE DEF k, n, m, old, now, m1
  <1>6. TextsOK(now, n, m1)
    BY <1>1, <1>2, <1>4, <1>5, SavedTexts
  <1>7. \A i \in 1 .. n : now[i] = Text(i)'
    BY DEF now
  <1>8. \A i \in 1 .. m1 : i \in 1 .. n
    BY <1>1, <1>6 DEF TextsOK
  <1>9. Entries'
    BY <1>3, <1>6, <1>7, <1>8 DEF Entries, m1, TextsOK
  <1> QED BY <1>3, <1>9 DEF n

-----------------------------------------------------------------------------
(* Deletion *)

Dropped(old, now, n, m, k) ==
  /\ now[m] = old[k]
  /\ \A i \in 1 .. k - 1 : now[i] = old[i]
  /\ \A i \in k .. m - 1 : now[i] = old[i + 1]
  /\ \A i \in m + 1 .. n : now[i] = old[i]

LEMMA DroppedTexts ==
  ASSUME NEW n \in Nat, NEW m \in 1 .. n, NEW k \in 1 .. m, NEW old, NEW now,
         TextsOK(old, n, m), Dropped(old, now, n, m, k)
  PROVE  TextsOK(now, n, m - 1)
  <1> USE DEF TextsOK, Dropped
  <1>1. m - 1 \in 0 .. n
    OBVIOUS
  <1>2. \A i \in 1 .. m - 1 : \/ i \in 1 .. k - 1 /\ i \in 1 .. m
                              \/ i \in k .. m - 1 /\ i + 1 \in 1 .. m
    OBVIOUS
  <1>3. \A i \in 1 .. m - 1 : now[i] \in Cmds
    BY <1>2
  <1>4. ASSUME NEW i \in 1 .. m - 1, NEW j \in 1 .. m - 1, now[i] = now[j] PROVE i = j
    <2>1. CASE i \in 1 .. k - 1 /\ j \in 1 .. k - 1
      <3>1. i \in 1 .. m /\ j \in 1 .. m
        OBVIOUS
      <3> QED BY <1>4, <2>1, <3>1
    <2>2. CASE i \in 1 .. k - 1 /\ j \in k .. m - 1
      <3>1. i \in 1 .. m /\ j + 1 \in 1 .. m /\ i # j + 1
        BY <2>2
      <3> QED BY <1>4, <2>2, <3>1
    <2>3. CASE i \in k .. m - 1 /\ j \in 1 .. k - 1
      <3>1. i + 1 \in 1 .. m /\ j \in 1 .. m /\ i + 1 # j
        BY <2>3
      <3> QED BY <1>4, <2>3, <3>1
    <2>4. CASE i \in k .. m - 1 /\ j \in k .. m - 1
      <3>1. i + 1 \in 1 .. m /\ j + 1 \in 1 .. m
        BY <2>4
      <3>2. i + 1 = j + 1
        BY <1>4, <2>4, <3>1
      <3> QED BY <3>2
    <2> QED BY <1>2, <2>1, <2>2, <2>3, <2>4
  <1>5. ASSUME NEW i \in 1 .. n, NEW j \in 1 .. n, j <= i, now[i] \in Cmds
        PROVE  now[j] \in Cmds
    <2>1. CASE j \in 1 .. m - 1
      BY <1>3, <2>1
    <2>2. CASE j = m
      BY <2>2
    <2>3. CASE j \in m + 1 .. n
      <3>1. i \in m + 1 .. n
        BY <1>5, <2>3
      <3> QED BY <1>5, <2>3, <3>1
    <2>4. j \in 1 .. m - 1 \/ j = m \/ j \in m + 1 .. n
      OBVIOUS
    <2> QED BY <2>1, <2>2, <2>3, <2>4
  <1> QED BY <1>1, <1>3, <1>4, <1>5

(* The position of the entry under the cursor, as cx_hist_del() finds it *)
AtCursor == CHOOSE i \in 1 .. hs_cnt : history[i] = hist[curs + 1]

LEMMA CursorOnEntry ==
  ASSUME Inv, OnEntry
  PROVE  /\ AtCursor \in 1 .. hs_cnt /\ history[AtCursor] = hist[curs + 1]
         /\ Matches(history[AtCursor], filter)
  <1> DEFINE l == Listed(history, hs_cnt, filter)
             i == curs + 1
  <1>1. hs_cnt \in Nat
    BY HistorySizesAssumption DEF Inv, Pointers, Entries
  <1>2. hist = l /\ curs \in 0 .. Len(hist) - 1
    BY DEF OnEntry, Inv, Listing
  <1>3. /\ Len(l) \in 0 .. hs_cnt
        /\ \A j \in 1 .. Len(l) :
             \E k \in 1 .. hs_cnt : Matches(history[k], filter) /\ l[j] = history[k]
    <2>1. Len(l) \in 0 .. hs_cnt /\ ListsOnly(history, filter, hs_cnt)
      BY <1>1, ListedEntries
    <2> QED BY <2>1 DEF ListsOnly
  <1> HIDE DEF l
  <1>4. i \in 1 .. Len(l)
    BY <1>2, <1>3
  <1>5. PICK k \in 1 .. hs_cnt : Matches(history[k], filter) /\ l[i] = history[k]
    BY <1>3, <1>4
  <1>6. AtCursor \in 1 .. hs_cnt /\ history[AtCursor] = hist[i]
    BY <1>2, <1>5 DEF AtCursor
  <1>7. Matches(history[AtCursor], filter)
    <2>1. history[AtCursor] = history[k]
      BY <1>2, <1>5, <1>6
    <2> QED BY <1>5, <2>1
  <1> QED BY <1>6, <1>7

(* What cx_hist_del() leaves *)
LEMMA Deletion ==
  ASSUME Inv, cx_hist_del, NEW k, k = AtCursor
  PROVE  /\ k \in 1 .. hs_cnt /\ hs_cnt \in 1 .. hs_alloc
         /\ hs_alloc' = hs_alloc /\ Pointers'
         /\ hs_cnt' = hs_cnt - 1
         /\ entry' = entry
         /\ Dropped(history, history', hs_alloc, hs_cnt, k)
  <1> DEFINE n == hs_alloc
             r == Removed(history, k)
  <1>1. n \in Nat /\ n \in Sizes /\ history \in [1 .. n -> 1 .. n] /\ OneToOne(history, n)
    BY HistorySizesAssumption DEF Inv, Pointers
  <1>2. OnEntry
    BY DEF cx_hist_del
  <1>3. k \in 1 .. hs_cnt
    BY <1>2, CursorOnEntry
  <1>4. hs_cnt \in 1 .. n
    BY <1>1, <1>3 DEF Inv, Entries
  <1>5. history' = r /\ hs_cnt' = hs_cnt - 1 /\ entry' = entry
    BY DEF cx_hist_del, AtCursor
  <1>6. /\ r \in [1 .. n -> 1 .. n]
        /\ OneToOne(r, n)
        /\ Dropped(history, r, n, hs_cnt, k)
    <2> HIDE DEF n
    <2>1. /\ r \in [1 .. n -> 1 .. n]
          /\ OneToOne(r, n)
          /\ r[hs_cnt] = history[k]
          /\ \A i \in 1 .. k - 1 : r[i] = history[i]
          /\ \A i \in k .. hs_cnt - 1 : r[i] = history[i + 1]
          /\ \A i \in hs_cnt + 1 .. n : r[i] = history[i]
      BY <1>1, <1>3, <1>4, RemovedPermutes
    <2> QED BY <2>1 DEF Dropped
  <1>7. hs_alloc' = n
    <2>1. Len(r) = n
      <3> HIDE DEF n, r
      <3> QED BY <1>1, <1>6, FunctionIsSeq
    <2> HIDE DEF r
    <2> QED BY <1>5, <2>1 DEF hs_alloc
  <1> HIDE DEF r, n
  <1>8. Pointers'
    BY <1>1, <1>5, <1>6, <1>7 DEF Pointers
  <1> QED BY <1>3, <1>4, <1>5, <1>6, <1>7, <1>8 DEF n

LEMMA DeletePreserves ==
  ASSUME Inv, cx_hist_del
  PROVE  Pointers' /\ Entries' /\ Browsing'
  <1> DEFINE n == hs_alloc
             m == hs_cnt
             k == AtCursor
             old == [i \in 1 .. n |-> Text(i)]
             now == [i \in 1 .. n |-> Text(i)']
  <1>1. n \in Nat /\ TextsOK(old, n, m)
    <2>1. n \in Nat \ {0} /\ m \in 0 .. n
      BY HistorySizesAssumption DEF Inv, Pointers, Entries
    <2>2. \A i \in 1 .. m : i \in 1 .. n
      BY <2>1
    <2> QED BY <2>1, <2>2 DEF Inv, Entries, TextsOK
  <1>2. /\ k \in 1 .. m /\ m \in 1 .. n
        /\ hs_alloc' = n /\ Pointers'
        /\ hs_cnt' = m - 1
        /\ entry' = entry
        /\ Dropped(history, history', n, m, k)
    BY Deletion
  <1>3. entry \in [1 .. n -> EntryType]
    BY DEF Inv, Entries
  <1>4. Dropped(old, now, n, m, k)
    <2> HIDE DEF k
    <2>1. /\ m \in 1 .. n /\ k \in 1 .. n
          /\ \A i \in 1 .. k - 1 : i \in 1 .. n
          /\ \A i \in k .. m - 1 : i \in 1 .. n /\ i + 1 \in 1 .. n
          /\ \A i \in m + 1 .. n : i \in 1 .. n
      BY <1>1, <1>2
    <2>2. \A i \in 1 .. n : old[i] = entry[history[i]].cmd /\ now[i] = entry[history'[i]].cmd
      BY <1>2 DEF Text
    <2> HIDE DEF n, m, old, now
    <2> QED BY <1>2, <2>1, <2>2 DEF Dropped
  <1>5. Browsing
    BY DEF Inv
  <1>6. /\ SetIndex(IndexAfter(k - 1))
        /\ line_cmd' = line_cmd
    BY DEF cx_hist_del, AtCursor
  <1> HIDE DEF k, old, now
  <1>7. TextsOK(now, n, m - 1)
    BY <1>1, <1>2, <1>4, DroppedTexts
  <1>8. \A i \in 1 .. n : now[i] = Text(i)'
    BY DEF now
  <1>9. \A i \in 1 .. m - 1 : i \in 1 .. n
    BY <1>1, <1>2
  <1>10. Entries'
    BY <1>2, <1>3, <1>7, <1>8, <1>9 DEF Entries, TextsOK
  <1>11. Browsing'
    <2>1. /\ pn_index \in -1 .. n - 1 /\ save_line \in Lines /\ line_cmd \in Lines
          /\ pn_index >= 0 => old[pn_index + 1] \in Cmds
      BY <1>1, <1>5 DEF Browsing, old
    <2>2. /\ pn_index' = IndexAfter(k - 1)
          /\ save_line' \in Lines /\ line_cmd' \in Lines
      BY <1>6, <2>1 DEF SetIndex, Lines
    <2>3. \/ pn_index' = -1
          \/ pn_index' = pn_index /\ pn_index >= 0
          \/ pn_index' = pn_index - 1 /\ pn_index > 0
      BY <1>2, <2>1, <2>2 DEF IndexAfter
    <2>4. pn_index' \in -1 .. n - 1
      BY <1>1, <2>1, <2>3
    <2>5. ASSUME NEW p \in 1 .. n, NEW q \in 1 .. n, q <= p, old[p] \in Cmds
          PROVE  now[q] \in Cmds
      <3>1. CASE q \in 1 .. m - 1
        BY <1>7, <3>1 DEF TextsOK
      <3>2. CASE q = m
        BY <1>1, <1>2, <1>4, <3>2 DEF Dropped, TextsOK
      <3>3. CASE q \in m + 1 .. n
        <4>1. now[q] = old[q]
          BY <1>4, <3>3 DEF Dropped
        <4>2. old[q] \in Cmds
          BY <1>1, <2>5 DEF TextsOK
        <4> QED BY <4>1, <4>2
      <3>4. q \in 1 .. m - 1 \/ q = m \/ q \in m + 1 .. n
        BY <1>2
      <3> QED BY <3>1, <3>2, <3>3, <3>4
    <2>6. ASSUME pn_index' >= 0 PROVE Text(pn_index + 1)' \in Cmds
      <3> DEFINE p == pn_index + 1
                 q == pn_index' + 1
      <3>1. p \in 1 .. n /\ q \in 1 .. n /\ q <= p /\ old[p] \in Cmds
        BY <1>1, <2>1, <2>3, <2>6
      <3>2. now[q] = entry'[history'[q]].cmd
        BY <3>1 DEF now, Text
      <3>3. Text(pn_index + 1)' = entry'[history'[q]].cmd
        BY DEF Text
      <3> HIDE DEF p, q
      <3> QED BY <2>5, <3>1, <3>2, <3>3
    <2> QED BY <1>2, <2>2, <2>4, <2>6 DEF Browsing
  <1> QED BY <1>2, <1>10, <1>11

-----------------------------------------------------------------------------
(* What is left alone *)

LEMMA ListKept ==
  ASSUME Inv, UNCHANGED listvars
  PROVE  /\ Pointers' /\ Entries' /\ hs_alloc' = hs_alloc
         /\ \A i : Text(i)' = Text(i)
         /\ Listed(history, hs_cnt, filter)' = Listed(history, hs_cnt, filter')
  <1>1. history' = history /\ entry' = entry /\ hs_cnt' = hs_cnt
    BY DEF listvars
  <1>2. hs_alloc' = hs_alloc
    BY <1>1 DEF hs_alloc
  <1>3. \A i : Text(i)' = Text(i)
    BY <1>1 DEF Text
  <1>4. Pointers'
    BY <1>1, <1>2 DEF Inv, Pointers, OneToOne
  <1>5. Entries'
    BY <1>1, <1>2, <1>3 DEF Inv, Entries
  <1>6. Listed(history, hs_cnt, filter)' = Listed(history, hs_cnt, filter')
    BY <1>1 DEF Listed
  <1> QED BY <1>2, <1>3, <1>4, <1>5, <1>6

LEMMA BrowsingKept ==
  ASSUME Inv, UNCHANGED listvars, UNCHANGED <<pn_index, save_line>>, line_cmd' \in Lines
  PROVE  Browsing'
  BY ListKept DEF Inv, Browsing

LEMMA ListingKept ==
  ASSUME Inv, UNCHANGED listvars, UNCHANGED panelvars
  PROVE  Listing'
  <1>1. mode' = mode /\ hist' = hist /\ curs' = curs /\ filter' = filter
    BY DEF panelvars
  <1>2. Listed(history, hs_cnt, filter)' = Listed(history, hs_cnt, filter)
    BY <1>1, ListKept
  <1> QED BY <1>1, <1>2 DEF Inv, Listing

LEMMA ListingClosed ==
  ASSUME Inv, mode # "HIST", mode' \in {"FILE", "CFG"}, UNCHANGED <<hist, curs, filter>>
  PROVE  Listing'
  BY DEF Inv, Listing

LEMMA IndexReset ==
  ASSUME SetIndex(-1), hs_alloc' \in Nat, line_cmd' \in Lines
  PROVE  Browsing'
  <1>1. pn_index' = -1 /\ save_line' = Empty /\ Empty \in Lines
    BY DEF SetIndex, Lines
  <1>2. (\A n \in Nat : -1 \in -1 .. n - 1) /\ ~(-1 >= 0)
    OBVIOUS
  <1> QED BY <1>1, <1>2 DEF Browsing

(* pan_adjust() brings whatever hist_panel() finds into bounds. *)
LEMMA CursorInBounds ==
  ASSUME NEW h, NEW n \in Nat, NEW f, curs \in Int
  PROVE  InBounds(Cursor(h, n, f), Len(Listed(h, n, f)))
           \in -1 .. Len(Listed(h, n, f)) - 1
  <1> DEFINE l == Listed(h, n, f)
             Found(i) == h[i] = hist[curs + 1]
             k == CHOOSE i \in 1 .. n : Found(i)
  <1>1. Len(l) \in Nat
    BY ListedType
  <1>2. (\E i \in 1 .. n : Found(i)) => Len(Listed(h, k - 1, f)) \in Int
    <2> SUFFICES ASSUME \E i \in 1 .. n : Found(i) PROVE Len(Listed(h, k - 1, f)) \in Int
      OBVIOUS
    <2>1. k \in 1 .. n
      <3> HIDE DEF Found
      <3> QED OBVIOUS
    <2> HIDE DEF k
    <2>2. k - 1 \in Nat
      BY <2>1
    <2>3. Len(Listed(h, k - 1, f)) \in 0 .. k - 1
      BY <2>2, ListedType
    <2> QED BY <2>2, <2>3
  <1>3. \/ Cursor(h, n, f) = 0
        \/ (\E i \in 1 .. n : Found(i)) /\ Cursor(h, n, f) = Len(Listed(h, k - 1, f))
        \/ Cursor(h, n, f) = curs
    BY DEF Cursor
  <1> HIDE DEF Found, k, l
  <1>4. Cursor(h, n, f) \in Int
    BY <1>2, <1>3
  <1>5. \A x \in Int, m \in Nat : InBounds(x, m) \in -1 .. m - 1
    BY DEF InBounds
  <1> QED BY <1>1, <1>4, <1>5 DEF l

-----------------------------------------------------------------------------
(* Every step preserves the invariant. *)

LEMMA InitInv == Init => Inv
  <1> SUFFICES ASSUME Init PROVE Inv
    OBVIOUS
  <1>1. PICK n \in Sizes : history = [i \in 1 .. n |-> i] /\ entry = Block(n)
    BY DEF Init
  <1>2. n \in Nat \ {0}
    BY HistorySizesAssumption
  <1>3. /\ history \in [1 .. n -> 1 .. n] /\ OneToOne(history, n)
        /\ \A i \in 1 .. n : history[i] = i
    BY <1>1 DEF OneToOne
  <1>4. hs_alloc = n
    BY <1>2, <1>3, FunctionIsSeq DEF hs_alloc
  <1>5. \A i \in 1 .. n : Block(n)[i] \in EntryType /\ Block(n)[i].cmd \notin Cmds
    BY CmdsAssumption DEF Block, EntryType, Lines
  <1>6. entry \in [1 .. n -> EntryType]
    BY <1>1, <1>5 DEF Block
  <1>7. \A i \in 1 .. n : Text(i) \notin Cmds
    BY <1>1, <1>3, <1>5 DEF Text
  <1>8. 0 \in 0 .. n /\ (\A i \in 1 .. 0 : FALSE) /\ -1 \in -1 .. n - 1 /\ ~(-1 >= 0)
    BY <1>2
  <1>9. /\ hs_cnt = 0 /\ pn_index = -1 /\ save_line = Empty /\ line_cmd = Empty
        /\ mode = "FILE" /\ hist = <<>> /\ curs = -1 /\ filter = Cmds
        /\ new = hs_alloc /\ changed = FALSE
    BY DEF Init
  <1>10. Pointers /\ Entries
    BY <1>3, <1>4, <1>6, <1>7, <1>8, <1>9 DEF Pointers, Entries
  <1>11. Browsing
    BY <1>4, <1>8, <1>9 DEF Browsing, Lines
  <1>12. Listing /\ Config
    BY <1>4, <1>9, FiltersAssumption DEF Listing, Config
  <1> QED BY <1>10, <1>11, <1>12 DEF Inv

LEMMA Sized == ASSUME Inv PROVE hs_alloc \in Nat \ {0} /\ hs_cnt \in 0 .. hs_alloc
  BY HistorySizesAssumption DEF Inv, Pointers, Entries

LEMMA LineKeysInv == ASSUME Inv, LineKeys PROVE Inv'
  <1>1. /\ UNCHANGED listvars /\ UNCHANGED panelvars /\ UNCHANGED cfgvars
        /\ line_cmd' \in Lines
    BY DEF LineKeys, EditLine, cx_edit_kill, Lines
  <1>2. Pointers' /\ Entries' /\ Listing'
    BY <1>1, ListKept, ListingKept
  <1>3. Config'
    BY <1>1 DEF Inv, Config, cfgvars
  <1>4. Browsing'
    <2>1. CASE EditLine
      BY <1>1, <2>1, BrowsingKept DEF EditLine
    <2>2. CASE cx_edit_kill
      BY <1>1, <2>2, IndexReset, ListKept, Sized DEF cx_edit_kill
    <2> QED BY <2>1, <2>2 DEF LineKeys
  <1> QED BY <1>2, <1>3, <1>4 DEF Inv

LEMMA FileKeysInv == ASSUME Inv, FileKeys PROVE Inv'
  <1>1. /\ UNCHANGED panelvars /\ UNCHANGED cfgvars /\ mode = "FILE"
    BY DEF FileKeys, execute_cmd, expand_alias, cx_hist_next, cx_hist_prev
  <1>2. Listing' /\ Config'
    BY <1>1, ListingClosed DEF panelvars, cfgvars, Inv, Config
  <1>3. line_cmd \in Lines /\ save_line \in Lines
    BY DEF Inv, Browsing
  <1>4. CASE execute_cmd
    <2>1. line_cmd \in Cmds /\ Recorded[line_cmd] \in Cmds
      BY <1>3, <1>4, CmdsAssumption DEF execute_cmd, Lines
    <2>2. PICK failed \in Results[Recorded[line_cmd]] : hist_save(Recorded[line_cmd], failed)
      BY <1>4 DEF execute_cmd
    <2>3. failed \in BOOLEAN
      BY <2>1, <2>2, ResultsAssumption
    <2>4. Pointers' /\ Entries' /\ hs_alloc' = hs_alloc
      BY <2>1, <2>2, <2>3, SavePreserves
    <2>5. SetIndex(-1) /\ line_cmd' \in Lines
      BY <1>3, <1>4 DEF execute_cmd, Lines
    <2>6. Browsing'
      BY <2>4, <2>5, IndexReset, Sized
    <2> QED BY <1>2, <2>4, <2>6 DEF Inv
  <1>5. CASE expand_alias
    <2>1. UNCHANGED listvars /\ SetIndex(-1) /\ line_cmd' \in Lines
      BY <1>5 DEF expand_alias
    <2>2. Pointers' /\ Entries' /\ hs_alloc' = hs_alloc
      BY <2>1, ListKept
    <2>3. Browsing'
      BY <2>1, <2>2, IndexReset, Sized
    <2> QED BY <1>2, <2>2, <2>3 DEF Inv
  <1>6. CASE cx_hist_next
    <2>1. /\ UNCHANGED listvars /\ SetIndex(pn_index - 1) /\ pn_index # -1
          /\ line_cmd' = IF pn_index = 0 THEN save_line ELSE cmd(pn_index - 1)
      BY <1>6 DEF cx_hist_next
    <2>2. /\ Pointers' /\ Entries' /\ hs_alloc' = hs_alloc
          /\ \A i : Text(i)' = Text(i)
      BY <2>1, ListKept
    <2>3. hs_alloc \in Nat
      BY Sized
    <2>4. pn_index \in 0 .. hs_alloc - 1 /\ Text(pn_index + 1) \in Cmds
      BY <2>1, <2>3 DEF Inv, Browsing
    <2>5. pn_index' = pn_index - 1 /\ save_line' \in Lines
      BY <1>3, <2>1 DEF SetIndex, Lines
    <2>6. pn_index # 0 => Text(pn_index) \in Cmds
      <3>1. pn_index # 0 => /\ pn_index \in 1 .. hs_alloc /\ pn_index + 1 \in 1 .. hs_alloc
                            /\ pn_index <= pn_index + 1
        BY <2>3, <2>4
      <3> QED BY <2>4, <3>1 DEF Inv, Entries
    <2>7. line_cmd' \in Lines
      <3>1. CASE pn_index = 0
        BY <1>3, <2>1, <3>1
      <3>2. CASE pn_index # 0
        <4>1. (pn_index - 1) + 1 = pn_index
          BY <2>4
        <4>2. line_cmd' = Text(pn_index)
          BY <2>1, <3>2, <4>1 DEF cmd, Text
        <4> QED BY <2>6, <3>2, <4>2 DEF Lines
      <3> QED BY <3>1, <3>2
    <2>8. pn_index' \in -1 .. hs_alloc - 1
      BY <2>3, <2>4, <2>5
    <2>9. ASSUME pn_index' >= 0 PROVE Text(pn_index + 1)' \in Cmds
      <3>1. pn_index # 0 /\ pn_index' + 1 = pn_index
        BY <2>4, <2>5, <2>9
      <3>2. Text(pn_index + 1)' = Text(pn_index)
        BY <2>1, <3>1 DEF Text, listvars
      <3> QED BY <2>6, <3>1, <3>2
    <2>10. Browsing'
      BY <2>2, <2>5, <2>7, <2>8, <2>9 DEF Browsing
    <2> QED BY <1>2, <2>2, <2>10 DEF Inv
  <1>7. CASE cx_hist_prev
    <2>1. /\ UNCHANGED listvars /\ pn_index < hs_cnt - 1
          /\ pn_index' = pn_index + 1
          /\ save_line' = IF pn_index = -1 THEN line_cmd ELSE save_line
          /\ line_cmd' = cmd(pn_index + 1)
      BY <1>7 DEF cx_hist_prev
    <2>2. /\ Pointers' /\ Entries' /\ hs_alloc' = hs_alloc
      BY <2>1, ListKept
    <2>3. hs_alloc \in Nat /\ hs_cnt \in 0 .. hs_alloc /\ pn_index \in -1 .. hs_alloc - 1
      BY Sized DEF Inv, Browsing
    <2>4. pn_index' \in -1 .. hs_alloc - 1 /\ pn_index' + 1 \in 1 .. hs_cnt
      BY <2>1, <2>3
    <2>5. Text(pn_index' + 1) \in Cmds
      BY <2>4 DEF Inv, Entries
    <2>6. Text(pn_index + 1)' \in Cmds /\ line_cmd' \in Cmds
      BY <2>1, <2>5 DEF Text, cmd, listvars
    <2>7. Browsing'
      BY <1>3, <2>1, <2>2, <2>4, <2>6 DEF Browsing, Lines
    <2> QED BY <1>2, <2>2, <2>7 DEF Inv
  <1> QED BY <1>4, <1>5, <1>6, <1>7 DEF FileKeys

LEMMA PrepareInv == ASSUME Inv, hist_prepare PROVE Inv'
  <1>1. /\ UNCHANGED listvars /\ UNCHANGED <<pn_index, save_line, line_cmd>>
        /\ UNCHANGED cfgvars
        /\ mode' = "HIST" /\ filter' = Cmds
        /\ hist' = Listed(history, hs_cnt, Cmds)
        /\ curs' = InBounds(IF pn_index > 0 THEN pn_index ELSE 0, hs_cnt)
    BY DEF hist_prepare
  <1>2. Pointers' /\ Entries' /\ Config'
    BY <1>1, ListKept DEF Inv, Config, cfgvars
  <1>3. Browsing'
    BY <1>1, BrowsingKept DEF Inv, Browsing
  <1>4. \A k \in 1 .. hs_cnt : Matches(history[k], Cmds)
    BY DEF Inv, Entries, Text, Matches
  <1>5. hs_cnt \in Nat /\ pn_index \in Int
    BY Sized DEF Inv, Browsing
  <1>6. Len(Listed(history, hs_cnt, Cmds)) = hs_cnt
    BY <1>4, <1>5, ListedAll
  <1>7. \A x \in Int, m \in Nat : InBounds(x, m) \in -1 .. m - 1
    BY DEF InBounds
  <1>8. curs' \in -1 .. Len(hist') - 1
    <2> DEFINE x == IF pn_index > 0 THEN pn_index ELSE 0
    <2>1. x \in Int
      BY <1>5
    <2> HIDE DEF x
    <2>2. InBounds(x, hs_cnt) \in -1 .. hs_cnt - 1
      BY <1>5, <1>7, <2>1
    <2>3. curs' = InBounds(x, hs_cnt) /\ Len(hist') = hs_cnt
      BY <1>1, <1>6 DEF x
    <2> QED BY <2>2, <2>3
  <1>9. Listed(history, hs_cnt, filter)' = hist'
    BY <1>1, ListKept
  <1>10. Listing'
    BY <1>1, <1>8, <1>9, FiltersAssumption DEF Listing
  <1> QED BY <1>2, <1>3, <1>10 DEF Inv

LEMMA PanelKeysInv == ASSUME Inv, PanelKeys PROVE Inv'
  <1>1. UNCHANGED cfgvars /\ mode = "HIST"
    BY DEF PanelKeys, MoveCursor, filter_update, cx_hist_enter, cx_trans_return, cx_hist_del,
           OnEntry
  <1>2. Config'
    BY <1>1 DEF Inv, Config, cfgvars
  <1>3. line_cmd \in Lines /\ curs \in -1 .. Len(hist) - 1
    BY <1>1 DEF Inv, Browsing, Listing
  <1>4. ASSUME UNCHANGED listvars, UNCHANGED <<pn_index, save_line>>, line_cmd' \in Lines
        PROVE  Pointers' /\ Entries' /\ Browsing'
    BY <1>4, ListKept, BrowsingKept
  <1>5. CASE MoveCursor
    <2>1. /\ UNCHANGED listvars /\ UNCHANGED <<pn_index, save_line>> /\ line_cmd' \in Lines
          /\ mode' = mode /\ hist' = hist /\ filter' = filter
          /\ curs' \in -1 .. Len(hist) - 1
      BY <1>3, <1>5 DEF MoveCursor
    <2>2. Listed(history, hs_cnt, filter)' = Listed(history, hs_cnt, filter)
      BY <2>1, ListKept
    <2>3. Listing'
      BY <1>1, <2>1, <2>2 DEF Inv, Listing
    <2> QED BY <1>2, <1>4, <2>1, <2>3 DEF Inv
  <1>6. CASE filter_update
    <2>1. /\ UNCHANGED listvars /\ UNCHANGED <<pn_index, save_line>> /\ line_cmd' \in Lines
          /\ mode' = mode /\ filter' \in Filters
          /\ hist' = Listed(history, hs_cnt, filter')
          /\ curs' = InBounds(Cursor(history, hs_cnt, filter'), Len(hist'))
      BY <1>3, <1>6 DEF filter_update, hist_panel
    <2>2. Listed(history, hs_cnt, filter)' = hist'
      BY <2>1, ListKept
    <2>3. hs_cnt \in Nat /\ curs \in Int
      BY <1>3, Sized
    <2>4. curs' \in -1 .. Len(hist') - 1
      BY <2>1, <2>3, CursorInBounds
    <2>5. Listing'
      BY <1>1, <2>1, <2>2, <2>4 DEF Inv, Listing
    <2> QED BY <1>2, <1>4, <2>1, <2>5 DEF Inv
  <1>7. CASE cx_hist_enter \/ cx_trans_return
    <2>1. /\ UNCHANGED listvars /\ UNCHANGED <<pn_index, save_line>>
          /\ mode' = "FILE" /\ hist' = <<>> /\ curs' = -1 /\ filter' = Cmds
      BY <1>7 DEF cx_hist_enter, cx_trans_return, LeavePanel
    <2>2. line_cmd' \in Lines
      <3>1. CASE cx_trans_return
        BY <1>3, <3>1 DEF cx_trans_return
      <3>2. CASE cx_hist_enter
        <4>1. OnEntry
          BY <3>2 DEF cx_hist_enter
        <4>2. Matches(hist[curs + 1], filter) /\ filter \subseteq Cmds
          BY <4>1, CursorOnEntry, FiltersAssumption DEF Inv, Listing
        <4> QED BY <1>3, <3>2, <4>2 DEF cx_hist_enter, Matches, Lines
      <3> QED BY <1>7, <3>1, <3>2
    <2>3. Listing'
      BY <2>1, FiltersAssumption DEF Listing
    <2> QED BY <1>2, <1>4, <2>1, <2>2, <2>3 DEF Inv
  <1>8. CASE cx_hist_del
    <2>1. Pointers' /\ Entries' /\ Browsing'
      BY <1>8, DeletePreserves
    <2>2. /\ hs_cnt \in 1 .. hs_alloc /\ hs_cnt' = hs_cnt - 1 /\ entry' = entry
      BY <1>8, Deletion
    <2>3. /\ mode' = mode /\ filter' = filter
          /\ hist' = Listed(history', hs_cnt', filter)
          /\ curs' = InBounds(Cursor(history', hs_cnt', filter), Len(hist'))
      BY <1>8 DEF cx_hist_del, hist_panel
    <2>4. Listed(history, hs_cnt, filter)' = hist'
      BY <2>2, <2>3 DEF Listed
    <2>5. hs_cnt' \in Nat /\ curs \in Int
      BY <1>3, <2>2, Sized
    <2>6. curs' \in -1 .. Len(hist') - 1
      <3> DEFINE l == Listed(history', hs_cnt', filter)
      <3>1. InBounds(Cursor(history', hs_cnt', filter), Len(l)) \in -1 .. Len(l) - 1
        BY <2>5, CursorInBounds
      <3> HIDE DEF l
      <3>2. hist' = l
        BY <2>3 DEF l
      <3> QED BY <2>3, <3>1, <3>2
    <2>7. Listing'
      BY <1>1, <2>3, <2>4, <2>6 DEF Inv, Listing
    <2> QED BY <1>2, <2>1, <2>7 DEF Inv
  <1> QED BY <1>5, <1>6, <1>7, <1>8 DEF PanelKeys

LEMMA ConfigureInv == ASSUME Inv, Configure PROVE Inv'
  <1>1. /\ UNCHANGED <<line_cmd, hist, curs, filter>>
        /\ mode # "HIST" /\ mode' \in {"FILE", "CFG"}
    BY DEF Configure, config_prepare, SetNew, cx_config_save, CancelConfig, config_set_num,
           panelvars
  <1>2. Listing'
    BY <1>1, ListingClosed
  <1>3. hs_alloc \in Sizes /\ new \in Sizes /\ changed \in BOOLEAN
    BY DEF Inv, Pointers, Config
  <1>4. Config'
    BY <1>3 DEF Configure, config_prepare, SetNew, cx_config_save, CancelConfig, config_set_num,
                Config, config_changes, cfgvars
  <1>5. hist_reconfig(new) \/ UNCHANGED <<listvars, pn_index, save_line>>
    BY DEF Configure, config_prepare, SetNew, cx_config_save, CancelConfig, config_set_num,
           config_apply
  <1>6. line_cmd' \in Lines
    BY <1>1 DEF Inv, Browsing
  <1>7. CASE hist_reconfig(new)
    <2>1. Pointers' /\ Entries' /\ hs_alloc' = new
      BY <1>3, <1>7, NewList
    <2>2. SetIndex(-1) /\ new \in Nat
      BY <1>3, <1>7, HistorySizesAssumption DEF hist_reconfig
    <2>3. Browsing'
      BY <1>6, <2>1, <2>2, IndexReset
    <2> QED BY <1>2, <1>4, <2>1, <2>3 DEF Inv
  <1>8. CASE UNCHANGED <<listvars, pn_index, save_line>>
    <2>1. UNCHANGED listvars /\ UNCHANGED <<pn_index, save_line>>
      BY <1>8
    <2>2. Pointers' /\ Entries' /\ Browsing'
      BY <1>6, <2>1, ListKept, BrowsingKept
    <2> QED BY <1>2, <1>4, <2>2 DEF Inv
  <1> QED BY <1>5, <1>7, <1>8

LEMMA StutterInv == ASSUME Inv, UNCHANGED vars PROVE Inv'
  <1>1. /\ UNCHANGED listvars /\ UNCHANGED <<pn_index, save_line>> /\ UNCHANGED panelvars
        /\ UNCHANGED cfgvars /\ line_cmd' = line_cmd
    BY DEF vars
  <1>2. line_cmd' \in Lines
    BY <1>1 DEF Inv, Browsing
  <1>3. Config'
    BY <1>1 DEF Inv, Config, cfgvars
  <1> QED BY <1>1, <1>2, <1>3, ListKept, BrowsingKept, ListingKept DEF Inv

(* The inductive invariant of the command history: the array of pointers has
   no gap and no duplicate in use, the index and the panel belong to it, and
   the values of the size stay positive (history.c, cfg.c). *)
THEOREM HistoryInvariant == Spec => []Inv
  <1>1. ASSUME Inv, [Next]_vars PROVE Inv'
    BY <1>1, LineKeysInv, FileKeysInv, PrepareInv, PanelKeysInv, ConfigureInv, StutterInv
       DEF Next
  <1> QED BY <1>1, InitInv, PTL DEF Spec

(* At most `history_size' entries are in use, and the index, the line and the
   cursor of the panel stay in their ranges, also when the size is changed
   while a command is recalled (hist_reconfig()). *)
THEOREM HistoryTyped == Spec => []TypeOK
  BY HistoryInvariant, InvGivesTypes, PTL

(* The rotations of the pointers lose no entry and duplicate none, used or
   free, and no command is in the history twice (hist_save(), cx_hist_del()). *)
THEOREM EntriesKept == Spec => []EveryEntryOnce
  BY HistoryInvariant, InvGivesOnce, PTL

-----------------------------------------------------------------------------
(* The panel *)

LEMMA InvGivesListing == Inv => PanelListsHistory
  <1> SUFFICES ASSUME Inv, mode = "HIST"
               PROVE  /\ \A i \in 1 .. Len(hist) :
                           /\ entry[hist[i]].cmd \in filter
                           /\ \E k \in 1 .. hs_cnt : history[k] = hist[i]
                      /\ \A k, l \in 1 .. hs_cnt :
                           k <= l /\ {cmd(k - 1), cmd(l - 1)} \subseteq filter =>
                             \E i, j \in 1 .. Len(hist) :
                               i <= j /\ hist[i] = history[k] /\ hist[j] = history[l]
                      /\ Len(hist) <= hs_cnt
    BY DEF PanelListsHistory
  <1> DEFINE L(n) == Listed(history, n, filter)
  <1>1. hs_cnt \in Nat /\ hist = L(hs_cnt)
    BY Sized DEF Inv, Listing
  <1>2. Len(L(hs_cnt)) \in 0 .. hs_cnt /\ ListsOnly(history, filter, hs_cnt)
    BY <1>1, ListedEntries
  <1>3. \A i \in 1 .. Len(hist) :
          /\ entry[hist[i]].cmd \in filter
          /\ \E k \in 1 .. hs_cnt : history[k] = hist[i]
    BY <1>1, <1>2 DEF ListsOnly, Matches
  <1>4. Len(hist) \in 0 .. hs_cnt
    BY <1>1, <1>2
  <1>5. ASSUME NEW k \in 1 .. hs_cnt, NEW l \in 1 .. hs_cnt, k <= l,
               {cmd(k - 1), cmd(l - 1)} \subseteq filter
        PROVE  \E i, j \in 1 .. Len(hist) :
                 i <= j /\ hist[i] = history[k] /\ hist[j] = history[l]
    <2>1. /\ k \in Nat /\ l \in Nat /\ l >= k
          /\ (k - 1) + 1 = k /\ (l - 1) + 1 = l
      BY <1>5
    <2>2. Matches(history[k], filter) /\ Matches(history[l], filter)
      BY <1>5, <2>1 DEF cmd, Matches
    <2>3. /\ Len(L(k)) \in 1 .. Len(L(hs_cnt))
          /\ L(hs_cnt)[Len(L(k))] = history[k]
      BY <1>1, <2>2, ListedPlace
    <2>4. /\ Len(L(l)) \in 1 .. Len(L(hs_cnt))
          /\ L(hs_cnt)[Len(L(l))] = history[l]
      BY <1>1, <2>2, ListedPlace
    <2>5. Len(L(k)) <= Len(L(l))
      BY <2>1, ListedPrefix
    <2> DEFINE i == Len(L(k))
               j == Len(L(l))
    <2>6. i \in 1 .. Len(hist) /\ j \in 1 .. Len(hist) /\ i <= j
          /\ hist[i] = history[k] /\ hist[j] = history[l]
      BY <1>1, <2>3, <2>4, <2>5
    <2> HIDE DEF i, j
    <2> QED BY <2>6
  <1>6. Len(hist) <= hs_cnt
    BY <1>1, <1>4
  <1> HIDE DEF L
  <1> QED BY <1>3, <1>5, <1>6

(* hist_panel() and hist_prepare(): in every reachable state the panel lists
   the entries in use that match the filter, each of them, in the order of
   the history. *)
THEOREM HistoryListed == Spec => []PanelListsHistory
  BY HistoryInvariant, InvGivesListing, PTL

LEMMA FilterKeepsEntry ==
  ASSUME Inv, filter_update, OnEntry, entry[hist[curs + 1]].cmd \in filter'
  PROVE  curs' \in 0 .. Len(hist') - 1 /\ hist'[curs' + 1] = hist[curs + 1]
  <1> DEFINE n == hs_cnt
             k == AtCursor
             L(i) == Listed(history, i, filter')
  <1>1. k \in 1 .. n /\ history[k] = hist[curs + 1]
    BY CursorOnEntry
  <1>2. n \in Nat
    BY Sized
  <1>3. /\ hist' = L(n)
        /\ curs' = InBounds(Cursor(history, n, filter'), Len(L(n)))
    BY DEF filter_update, hist_panel
  <1>4. Cursor(history, n, filter') = Len(L(k - 1))
    <2>1. curs \in 0 .. Len(hist) - 1
      BY DEF OnEntry
    <2>2. \E i \in 1 .. n : history[i] = hist[curs + 1]
      <3> HIDE DEF k
      <3> QED BY <1>1
    <2> QED BY <2>1, <2>2 DEF Cursor, AtCursor
  <1>5. Matches(history[k], filter')
    BY <1>1 DEF Matches
  <1> HIDE DEF k
  <1>6. /\ Len(L(k)) = Len(L(k - 1)) + 1
        /\ Len(L(k)) \in 1 .. Len(L(n))
        /\ L(n)[Len(L(k))] = history[k]
    BY <1>1, <1>2, <1>5, ListedPlace
  <1>7. Len(L(n)) \in Nat /\ Len(L(k - 1)) \in Nat
    <2>1. k - 1 \in Nat
      BY <1>1, <1>2
    <2>2. Len(L(n)) \in 0 .. n /\ Len(L(k - 1)) \in 0 .. k - 1
      BY <1>2, <2>1, ListedType
    <2> QED BY <1>2, <2>1, <2>2
  <1> HIDE DEF L
  <1>8. \A x, m \in Nat : x < m => InBounds(x, m) = x
    BY DEF InBounds
  <1>9. curs' = Len(L(k - 1)) /\ Len(L(k - 1)) < Len(L(n))
    BY <1>3, <1>4, <1>6, <1>7, <1>8
  <1>10. curs' \in 0 .. Len(L(n)) - 1 /\ curs' + 1 = Len(L(k))
    BY <1>6, <1>7, <1>9
  <1> QED BY <1>1, <1>3, <1>6, <1>10

(* filter_update(): however the filter is edited, the cursor stays on its
   entry as long as the filter still lists it. *)
THEOREM CursorFollowsEntry == Spec => CursorKeepsEntry
  <1>1. ASSUME Inv, [Next]_vars
        PROVE  [filter_update /\ OnEntry /\ entry[hist[curs + 1]].cmd \in filter'
                  => curs' \in 0 .. Len(hist') - 1 /\ hist'[curs' + 1] = hist[curs + 1]]_vars
    BY <1>1, FilterKeepsEntry
  <1> QED BY <1>1, HistoryInvariant, PTL DEF Spec, CursorKeepsEntry

LEMMA DeleteFollows ==
  ASSUME Inv, cx_hist_del, pn_index \in 0 .. hs_cnt - 1,
         history[pn_index + 1] # hist[curs + 1]
  PROVE  pn_index' >= 0 /\ history'[pn_index' + 1] = history[pn_index + 1]
  <1> DEFINE k == AtCursor
             n == hs_alloc
             m == hs_cnt
             p == pn_index
  <1>1. OnEntry
    BY DEF cx_hist_del
  <1>2. history[k] = hist[curs + 1]
    BY <1>1, CursorOnEntry
  <1>3. /\ k \in 1 .. m /\ m \in 1 .. n /\ n \in Nat
        /\ Dropped(history, history', n, m, k)
    BY Deletion, Sized
  <1>4. pn_index' = IndexAfter(k - 1)
    BY DEF cx_hist_del, AtCursor, SetIndex
  <1>5. p \in 0 .. m - 1 /\ p + 1 # k
    BY <1>2
  <1> HIDE DEF k
  <1>6. CASE p + 1 < k
    <2>1. pn_index' = p
      BY <1>3, <1>4, <1>5, <1>6 DEF IndexAfter
    <2>2. p + 1 \in 1 .. k - 1
      BY <1>3, <1>5, <1>6
    <2> QED BY <1>3, <1>5, <2>1, <2>2 DEF Dropped
  <1>7. CASE p + 1 > k
    <2>1. pn_index' = p - 1
      BY <1>3, <1>4, <1>5, <1>7 DEF IndexAfter
    <2>2. p \in k .. m - 1 /\ (p - 1) + 1 = p /\ p - 1 >= 0
      BY <1>3, <1>5, <1>7
    <2> QED BY <1>3, <1>5, <2>1, <2>2 DEF Dropped
  <1> QED BY <1>3, <1>5, <1>6, <1>7

(* cx_hist_del() while the user browses: the index stays on the command that
   was recalled last, whichever other entry is deleted. *)
THEOREM IndexFollowsCommand == Spec => IndexFollows
  <1>1. ASSUME Inv, [Next]_vars
        PROVE  [cx_hist_del /\ pn_index \in 0 .. hs_cnt - 1
                  /\ history[pn_index + 1] # hist[curs + 1]
                => pn_index' >= 0 /\ history'[pn_index' + 1] = history[pn_index + 1]]_vars
    BY <1>1, DeleteFollows
  <1> QED BY <1>1, HistoryInvariant, PTL DEF Spec, IndexFollows

-----------------------------------------------------------------------------
(* The refinement: the list behind the pointers *)

(* w is s, of n elements of S, without the k-th *)
LeavesOut(w, s, k, n, S) ==
  /\ w \in Seq(S) /\ Len(w) = n - 1
  /\ \A i \in 1 .. k - 1 : w[i] = s[i]
  /\ \A i \in k .. n - 1 : w[i] = s[i + 1]

LEMMA WithoutElements ==
  ASSUME NEW S, NEW n \in Nat, NEW s \in [1 .. n -> S], NEW k \in 1 .. n
  PROVE  LeavesOut(HL!Without(s, k), s, k, n, S)
  <1>1. s \in Seq(S) /\ Len(s) = n
    BY FunctionIsSeq
  <1> DEFINE a == SubSeq(s, 1, k - 1)
             b == SubSeq(s, k + 1, n)
  <1>2. /\ 1 \in Int /\ k - 1 \in Int /\ k + 1 \in Int /\ n \in Int
        /\ \A i \in 1 .. k - 1 : i \in 1 .. n
        /\ \A i \in k + 1 .. n : i \in 1 .. n
    OBVIOUS
  <1>3. /\ a \in Seq(S)
        /\ Len(a) = IF 1 <= k - 1 THEN (k - 1) - 1 + 1 ELSE 0
        /\ \A i \in 1 .. (k - 1) - 1 + 1 : a[i] = s[1 + i - 1]
    <2>1. \A i \in 1 .. k - 1 : s[i] \in S
      BY <1>2
    <2> QED BY <1>2, <2>1, SubSeqProperties
  <1>4. /\ b \in Seq(S)
        /\ Len(b) = IF k + 1 <= n THEN n - (k + 1) + 1 ELSE 0
        /\ \A i \in 1 .. n - (k + 1) + 1 : b[i] = s[(k + 1) + i - 1]
    <2>1. \A i \in k + 1 .. n : s[i] \in S
      BY <1>2
    <2> QED BY <1>2, <2>1, SubSeqProperties
  <1>5. HL!Without(s, k) = a \o b
    BY <1>1 DEF HL!Without
  <1> HIDE DEF a, b
  <1>6. Len(a) = k - 1 /\ Len(b) = n - k
    BY <1>3, <1>4
  <1>7. /\ a \o b \in Seq(S) /\ Len(a \o b) = n - 1
        /\ \A i \in 1 .. n - 1 : (a \o b)[i] = IF i <= k - 1 THEN a[i] ELSE b[i - (k - 1)]
    <2>1. /\ a \o b \in Seq(S) /\ Len(a \o b) = Len(a) + Len(b)
          /\ \A i \in 1 .. Len(a) + Len(b) :
               (a \o b)[i] = IF i <= Len(a) THEN a[i] ELSE b[i - Len(a)]
      BY <1>3, <1>4, ConcatProperties
    <2>2. Len(a) + Len(b) = n - 1
      BY <1>6
    <2> QED BY <1>6, <2>1, <2>2
  <1>8. ASSUME NEW i \in 1 .. k - 1 PROVE (a \o b)[i] = s[i]
    <2>1. i \in 1 .. n - 1 /\ i <= k - 1 /\ i \in 1 .. (k - 1) - 1 + 1 /\ 1 + i - 1 = i
      BY <1>8
    <2> QED BY <1>3, <1>7, <2>1
  <1>9. ASSUME NEW i \in k .. n - 1 PROVE (a \o b)[i] = s[i + 1]
    <2> DEFINE j == i - (k - 1)
    <2>1. /\ i \in 1 .. n - 1 /\ ~(i <= k - 1)
          /\ j \in 1 .. n - (k + 1) + 1 /\ (k + 1) + j - 1 = i + 1
      BY <1>9
    <2>2. (a \o b)[i] = b[j]
      BY <1>7, <2>1
    <2> HIDE DEF j
    <2> QED BY <1>4, <2>1, <2>2
  <1> QED BY <1>5, <1>7, <1>8, <1>9 DEF LeavesOut

LEMMA IsCons ==
  ASSUME NEW S, NEW e \in S, NEW u \in Seq(S), NEW t \in [1 .. Len(u) + 1 -> S],
         t[1] = e, \A i \in 1 .. Len(u) : t[i + 1] = u[i]
  PROVE  t = <<e>> \o u
  <1>1. Len(u) \in Nat
    BY LenProperties
  <1>2. t \in Seq(S) /\ Len(t) = Len(u) + 1
    BY <1>1, FunctionIsSeq
  <1>3. <<e>> \in Seq(S) /\ Len(<<e>>) = 1 /\ <<e>>[1] = e
    OBVIOUS
  <1> DEFINE v == <<e>>
  <1> HIDE DEF v
  <1>4. /\ v \o u \in Seq(S) /\ Len(v \o u) = 1 + Len(u)
        /\ \A i \in 1 .. 1 + Len(u) : (v \o u)[i] = IF i <= 1 THEN v[i] ELSE u[i - 1]
    BY <1>3, ConcatProperties DEF v
  <1>5. ASSUME NEW i \in 1 .. Len(t) PROVE t[i] = (v \o u)[i]
    <2>1. CASE i = 1
      BY <1>1, <1>3, <1>4, <2>1 DEF v
    <2>2. CASE i # 1
      <3>1. i \in 1 .. 1 + Len(u) /\ ~(i <= 1) /\ i - 1 \in 1 .. Len(u) /\ (i - 1) + 1 = i
        BY <1>1, <1>2, <2>2
      <3> QED BY <1>4, <3>1
    <2> QED BY <2>1, <2>2
  <1>6. Len(t) = Len(v \o u)
    BY <1>1, <1>2, <1>4
  <1>7. t = v \o u
    BY <1>2, <1>4, <1>5, <1>6, SeqEqual
  <1> QED BY <1>7 DEF v

(* The list, and what it becomes when the pointers are not written *)
TheList == [i \in 1 .. hs_cnt |-> entry[history[i]]]
ListElement == [cmd : Cmds, failed : BOOLEAN]

IsTheList(l, n) ==
  /\ n \in Nat
  /\ l \in [1 .. n -> ListElement] /\ DOMAIN l = 1 .. n
  /\ l \in Seq(ListElement) /\ Len(l) = n
  /\ \A i \in 1 .. n : l[i] = entry[history[i]]

ListFacts == IsTheList(TheList, hs_cnt)

LEMMA ListTyped == Inv => ListFacts
  <1> SUFFICES ASSUME Inv PROVE ListFacts
    OBVIOUS
  <1>1. hs_cnt \in Nat /\ \A i \in 1 .. hs_cnt : i \in 1 .. hs_alloc
    BY Sized
  <1>2. \A i \in 1 .. hs_cnt : entry[history[i]] \in EntryType
    BY <1>1 DEF Inv, Pointers, Entries
  <1>3. \A i \in 1 .. hs_cnt : entry[history[i]].cmd \in Cmds
    BY DEF Inv, Entries, Text
  <1>4. \A r \in EntryType : r.cmd \in Cmds => r \in ListElement
    BY DEF EntryType, ListElement
  <1>5. \A i \in 1 .. hs_cnt : entry[history[i]] \in ListElement
    BY <1>2, <1>3, <1>4
  <1>6. TheList \in [1 .. hs_cnt -> ListElement]
    BY <1>5 DEF TheList
  <1>7. TheList \in Seq(ListElement) /\ Len(TheList) = hs_cnt
    <2> DEFINE l == TheList
    <2> HIDE DEF l
    <2>1. l \in [1 .. hs_cnt -> ListElement]
      BY <1>6 DEF l
    <2>2. l \in Seq(ListElement) /\ Len(l) = hs_cnt
      BY <1>1, <2>1, FunctionIsSeq
    <2> QED BY <2>2 DEF l
  <1> QED BY <1>1, <1>6, <1>7 DEF TheList, ListFacts, IsTheList

LEMMA InitImplements == ASSUME Init PROVE HL!ListInit
  <1>1. Inv
    BY InitInv
  <1>2. hs_cnt = 0 /\ hs_alloc \in Sizes
    BY <1>1 DEF Init, Inv, Pointers
  <1>3. TheList = <<>>
    BY <1>1, <1>2, ListTyped, EmptySeq DEF ListFacts, IsTheList
  <1> QED BY <1>2, <1>3 DEF HL!ListInit, TheList

LEMMA ClearImplements ==
  ASSUME Inv, NEW n \in Sizes, hist_reconfig(n)
  PROVE  HL!Clear
  <1>1. hs_alloc' = n /\ hs_cnt' = 0
    BY NewList
  <1>2. TheList' = <<>>
    <2>1. TheList' = [i \in 1 .. 0 |-> entry'[history'[i]]]
      BY <1>1 DEF TheList
    <2>2. 1 .. 0 = {}
      OBVIOUS
    <2> QED BY <2>1, <2>2
  <1> QED BY <1>1, <1>2 DEF HL!Clear, TheList

LEMMA DeleteImplements ==
  ASSUME Inv, Inv', cx_hist_del
  PROVE  HL!Delete
  <1> DEFINE k == AtCursor
             m == hs_cnt
             l == TheList
             w == HL!Without(l, k)
  <1>1. /\ k \in 1 .. m
        /\ hs_alloc' = hs_alloc /\ hs_cnt' = m - 1 /\ entry' = entry
        /\ Dropped(history, history', hs_alloc, m, k)
    BY Deletion
  <1>2. /\ m \in Nat /\ l \in [1 .. m -> ListElement] /\ DOMAIN l = 1 .. m
        /\ \A i \in 1 .. m : l[i] = entry[history[i]]
    BY ListTyped DEF ListFacts, IsTheList
  <1>3. /\ TheList' \in Seq(ListElement)
        /\ Len(TheList') = hs_cnt'
        /\ \A i \in 1 .. hs_cnt' : TheList'[i] = entry'[history'[i]]
    <2>1. ListFacts'
      BY ListTyped, PTL
    <2> QED BY <2>1 DEF ListFacts, IsTheList
  <1> DEFINE t == TheList'
  <1> HIDE DEF k, l, t, m
  <1>4. /\ w \in Seq(ListElement) /\ Len(w) = m - 1
        /\ \A i \in 1 .. k - 1 : w[i] = l[i]
        /\ \A i \in k .. m - 1 : w[i] = l[i + 1]
    <2>1. LeavesOut(w, l, k, m, ListElement)
      BY <1>1, <1>2, WithoutElements
    <2> QED BY <2>1 DEF LeavesOut
  <1> HIDE DEF w
  <1>5. ASSUME NEW i \in 1 .. m - 1 PROVE t[i] = w[i]
    <2>1. t[i] = entry[history'[i]]
      BY <1>1, <1>3 DEF t
    <2>2. CASE i \in 1 .. k - 1
      <3>1. i \in 1 .. m
        BY <1>1, <1>2
      <3>2. history'[i] = history[i]
        BY <1>1, <2>2 DEF Dropped
      <3> QED BY <1>2, <1>4, <2>1, <2>2, <3>1, <3>2
    <2>3. CASE i \in k .. m - 1
      <3>1. i + 1 \in 1 .. m
        BY <1>1, <1>2
      <3>2. history'[i] = history[i + 1]
        BY <1>1, <2>3 DEF Dropped
      <3> QED BY <1>2, <1>4, <2>1, <2>3, <3>1, <3>2
    <2> QED BY <1>1, <1>2, <2>2, <2>3
  <1>6. t = w
    <2>1. t \in Seq(ListElement) /\ Len(t) = m - 1
      BY <1>1, <1>3 DEF t
    <2> QED BY <1>4, <1>5, <2>1, SeqEqual
  <1>7. k \in DOMAIN l /\ t = HL!Without(l, k)
    BY <1>1, <1>2, <1>6 DEF w
  <1> QED BY <1>1, <1>7 DEF HL!Delete, TheList, l, t

(* Taking the k-th element out and putting e on the top *)
PutOnTop(t, l, k, e, n) ==
  /\ t[1] = e
  /\ \A i \in 2 .. k : t[i] = l[i - 1]
  /\ \A i \in k + 1 .. n : t[i] = l[i]

LEMMA ConsWithout ==
  ASSUME NEW S, NEW m \in Nat, NEW l, NEW k \in 1 .. m, NEW w, LeavesOut(w, l, k, m, S),
         NEW e \in S, NEW t \in [1 .. m -> S], PutOnTop(t, l, k, e, m)
  PROVE  t = <<e>> \o w
  <1>1. w \in Seq(S) /\ Len(w) = m - 1 /\ Len(w) + 1 = m
    BY DEF LeavesOut
  <1>2. ASSUME NEW i \in 1 .. m - 1 PROVE t[i + 1] = w[i]
    <2>1. CASE i \in 1 .. k - 1
      <3>1. i + 1 \in 2 .. k /\ (i + 1) - 1 = i
        BY <2>1
      <3> QED BY <2>1, <3>1 DEF LeavesOut, PutOnTop
    <2>2. CASE i \in k .. m - 1
      <3>1. i + 1 \in k + 1 .. m
        BY <2>2
      <3> QED BY <2>2, <3>1 DEF LeavesOut, PutOnTop
    <2> QED BY <2>1, <2>2
  <1>3. t[1] = e /\ \A i \in 1 .. Len(w) : t[i + 1] = w[i]
    BY <1>1, <1>2 DEF PutOnTop
  <1>4. t \in [1 .. Len(w) + 1 -> S]
    BY <1>1
  <1> QED BY <1>1, <1>3, <1>4, IsCons

LEMMA ConsAll ==
  ASSUME NEW S, NEW m \in Nat, NEW l \in [1 .. m -> S], NEW e \in S,
         NEW t \in [1 .. m + 1 -> S], PutOnTop(t, l, m + 1, e, m + 1)
  PROVE  t = <<e>> \o l
  <1>1. l \in Seq(S) /\ Len(l) = m
    BY FunctionIsSeq
  <1>2. ASSUME NEW i \in 1 .. m PROVE t[i + 1] = l[i]
    <2>1. i + 1 \in 2 .. m + 1 /\ (i + 1) - 1 = i
      OBVIOUS
    <2> QED BY <2>1 DEF PutOnTop
  <1>3. t[1] = e /\ \A i \in 1 .. Len(l) : t[i + 1] = l[i]
    BY <1>1, <1>2 DEF PutOnTop
  <1>4. t \in [1 .. Len(l) + 1 -> S]
    BY <1>1
  <1> QED BY <1>1, <1>3, <1>4, IsCons

LEMMA SaveImplements ==
  ASSUME Inv, Inv', NEW c \in Cmds, NEW failed \in BOOLEAN, hist_save(c, failed)
  PROVE  HL!Save
  <1> DEFINE k == SlotFor(c)
             n == hs_alloc
             m == hs_cnt
             l == TheList
             t == TheList'
             e == [cmd |-> c, failed |-> failed]
  <1>1. /\ k \in 1 .. n /\ k <= m + 1
        /\ k = m + 1 \/ Text(k) = c \/ k = n
        /\ \A i \in 1 .. k - 1 : Text(i) # c
    BY SlotExists
  <1>2. /\ n \in Nat /\ m \in 0 .. n
    BY Sized
  <1>3. /\ hs_alloc' = n
        /\ hs_cnt' = IF k = m + 1 THEN m + 1 ELSE m
        /\ entry'[history'[1]] = e
        /\ \A i \in 2 .. k : entry'[history'[i]] = entry[history[i - 1]]
        /\ \A i \in k + 1 .. n : entry'[history'[i]] = entry[history[i]]
    BY SavedEntries
  <1>4. /\ l \in [1 .. m -> ListElement] /\ DOMAIN l = 1 .. m /\ Len(l) = m
        /\ \A i \in 1 .. m : l[i] = entry[history[i]]
    BY ListTyped DEF ListFacts, IsTheList
  <1>5. /\ t \in [1 .. hs_cnt' -> ListElement]
        /\ \A i \in 1 .. hs_cnt' : t[i] = entry'[history'[i]]
    <2>1. ListFacts'
      BY ListTyped, PTL
    <2> QED BY <2>1 DEF ListFacts, IsTheList
  <1>6. e \in ListElement /\ e.cmd = c
    BY DEF ListElement
  <1>7. \A i \in 1 .. m : l[i].cmd = Text(i)
    BY <1>4 DEF Text
  <1> HIDE DEF k, n, m, l, t, e
  <1>8. PutOnTop(t, l, k, e, hs_cnt')
    <2>1. hs_cnt' \in 1 .. n /\ hs_cnt' >= k /\ (hs_cnt' = k \/ hs_cnt' = m)
      BY <1>1, <1>2, <1>3
    <2>2. t[1] = e
      BY <1>3, <1>5, <2>1
    <2>3. ASSUME NEW i \in 2 .. k PROVE t[i] = l[i - 1]
      <3>1. i \in 1 .. hs_cnt' /\ i - 1 \in 1 .. m
        BY <1>1, <1>2, <2>1
      <3> QED BY <1>3, <1>4, <1>5, <3>1
    <2>4. ASSUME NEW i \in k + 1 .. hs_cnt' PROVE t[i] = l[i]
      <3>1. i \in 1 .. hs_cnt' /\ i \in 1 .. m /\ i \in k + 1 .. n
        BY <1>1, <1>2, <2>1
      <3> QED BY <1>3, <1>4, <1>5, <3>1
    <2> QED BY <2>2, <2>3, <2>4 DEF PutOnTop
  <1>9. ASSUME k \in 1 .. m PROVE t = <<e>> \o HL!Without(l, k)
    <2>1. hs_cnt' = m
      BY <1>2, <1>3, <1>9
    <2>2. m \in Nat
      BY <1>2
    <2>3. LeavesOut(HL!Without(l, k), l, k, m, ListElement)
      BY <1>4, <1>9, <2>2, WithoutElements
    <2>4. t \in [1 .. m -> ListElement] /\ PutOnTop(t, l, k, e, m)
      BY <1>5, <1>8, <2>1
    <2> DEFINE w == HL!Without(l, k)
    <2> HIDE DEF w
    <2>5. LeavesOut(w, l, k, m, ListElement)
      BY <2>3 DEF w
    <2>6. t = <<e>> \o w
      BY <1>6, <1>9, <2>2, <2>4, <2>5, ConsWithout
    <2> QED BY <2>6 DEF w
  <1>10. (\E i \in DOMAIN l : l[i].cmd = e.cmd /\ t = <<e>> \o HL!Without(l, i))
         \/ /\ \A i \in DOMAIN l : l[i].cmd # e.cmd
            /\ t = <<e>> \o (IF Len(l) = n THEN HL!Without(l, n) ELSE l)
    <2>1. CASE k \in 1 .. m /\ Text(k) = c
      BY <1>4, <1>6, <1>7, <1>9, <2>1
    <2>2. CASE k \in 1 .. m /\ Text(k) # c
      <3>1. k = n /\ m = n
        BY <1>1, <1>2, <2>2
      <3>2. \A i \in 1 .. m : i \in 1 .. k - 1 \/ i = k
        BY <1>1, <1>2, <3>1
      <3>3. \A i \in 1 .. m : Text(i) # c
        BY <1>1, <2>2, <3>2
      <3> QED BY <1>4, <1>6, <1>7, <1>9, <2>2, <3>1, <3>3
    <2>3. CASE k = m + 1
      <3>1. m # n /\ hs_cnt' = m + 1 /\ \A i \in 1 .. m : i \in 1 .. k - 1
        BY <1>1, <1>2, <1>3, <2>3
      <3>2. \A i \in 1 .. m : Text(i) # c
        BY <1>1, <3>1
      <3>3. t \in [1 .. m + 1 -> ListElement] /\ PutOnTop(t, l, m + 1, e, m + 1) /\ m \in Nat
        BY <1>2, <1>5, <1>8, <2>3, <3>1
      <3>4. t = <<e>> \o l
        BY <1>4, <1>6, <3>3, ConsAll
      <3> QED BY <1>4, <1>6, <1>7, <3>1, <3>2, <3>4
    <2>4. k \in 1 .. m \/ k = m + 1
      BY <1>1, <1>2
    <2> QED BY <2>1, <2>2, <2>3, <2>4
  <1>11. HL!SaveKnown(e) \/ HL!SaveNew(e)
    BY <1>10 DEF HL!SaveKnown, HL!SaveNew, TheList, l, t, n
  <1> QED BY <1>3, <1>6, <1>11 DEF HL!Save, HL!Entries, ListElement, n

LEMMA NoListStep ==
  ASSUME UNCHANGED listvars
  PROVE  UNCHANGED <<TheList, hs_alloc>>
  BY DEF listvars, TheList, hs_alloc

LEMMA StepImplements ==
  ASSUME Inv, Inv', [Next]_vars
  PROVE  [HL!ListNext]_<<TheList, hs_alloc>>
  <1>1. CASE execute_cmd
    <2>1. line_cmd \in Cmds /\ Recorded[line_cmd] \in Cmds
      BY <1>1, CmdsAssumption DEF execute_cmd, Inv, Browsing, Lines
    <2>2. PICK failed \in Results[Recorded[line_cmd]] : hist_save(Recorded[line_cmd], failed)
      BY <1>1 DEF execute_cmd
    <2>3. failed \in BOOLEAN
      BY <2>1, <2>2, ResultsAssumption
    <2>4. HL!Save
      BY <2>1, <2>2, <2>3, SaveImplements
    <2> QED BY <2>4 DEF HL!ListNext
  <1>2. CASE cx_hist_del
    BY <1>2, DeleteImplements DEF HL!ListNext
  <1>3. ASSUME hist_reconfig(new) PROVE HL!ListNext
    BY <1>3, ClearImplements DEF HL!ListNext, Inv, Config
  <1>4. ASSUME UNCHANGED listvars PROVE UNCHANGED <<TheList, hs_alloc>>
    BY <1>4, NoListStep
  <1>5. \/ execute_cmd \/ cx_hist_del \/ hist_reconfig(new) \/ UNCHANGED listvars
    BY DEF Next, LineKeys, EditLine, cx_edit_kill, FileKeys, expand_alias, cx_hist_next,
           cx_hist_prev, hist_prepare, PanelKeys, MoveCursor, filter_update, cx_hist_enter,
           cx_trans_return, Configure, config_prepare, SetNew, cx_config_save, CancelConfig,
           config_set_num, config_apply, vars, listvars
  <1> QED BY <1>1, <1>2, <1>3, <1>4, <1>5

(* The array of pointers that hist_save(), cx_hist_del() and hist_reconfig()
   reorder is, for every size of the history and all commands, the list of
   distinct commands that HistoryList promises. *)
THEOREM HistoryIsList == Spec => ImplementsList
  <1>1. ASSUME Inv, Inv', [Next]_vars PROVE [HL!ListNext]_<<TheList, hs_alloc>>
    BY <1>1, StepImplements
  <1>2. Init => HL!ListInit
    BY InitImplements
  <1>3. Spec => HL!ListInit /\ [][HL!ListNext]_<<TheList, hs_alloc>>
    BY <1>1, <1>2, HistoryInvariant, PTL DEF Spec
  <1> QED BY <1>3, PTL DEF ImplementsList, HL!ListSpec, TheList
=============================================================================
