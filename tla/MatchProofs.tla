------------------------------ MODULE MatchProofs ------------------------------
(***************************************************************************)
(* Theorems about module Match, for all expressions and words.             *)
(*                                                                         *)
(* The state machines and the rules for shell patterns are compared in the *)
(* order in which parse_expression() works: quotes, lists, ranges; then    *)
(* the flags and the recursion of check_match().  Each part ends with what *)
(* the next one needs: QuotedIsText and ClosedText, TaggedIsTagged and     *)
(* ClosedLists, RangesIsParsed, MatchFlag and InverseFlag, MatchReaches.   *)
(***************************************************************************)
EXTENDS PanelPatterns, WellFoundedInduction, TLAPS

-----------------------------------------------------------------------------
(* Numbers *)

(* The least of a set of natural numbers *)
LEMMA LeastNatural ==
  ASSUME NEW T, T \subseteq Nat, T # {}
  PROVE  \E x \in T : \A y \in T : x <= y
  <1>1. IsWellFoundedOn(OpToRel(<, Nat), Nat)
    BY NatLessThanWellFounded
  <1>2. \E x \in T : \A y \in T : ~(<<y, x>> \in OpToRel(<, Nat))
    BY <1>1, WFMin
  <1>3. \E x \in T : \A y \in T : ~(y < x)
    BY <1>2 DEF OpToRel
  <1> QED BY <1>3

(* Induction, stated for a set instead of a predicate *)
LEMMA NatSetInduction ==
  ASSUME NEW T, 0 \in T, \A n \in Nat : n \in T => n + 1 \in T
  PROVE  \A n \in Nat : n \in T
  <1> DEFINE B == {n \in Nat : n \notin T}
  <1>1. SUFFICES ASSUME B # {} PROVE FALSE
    OBVIOUS
  <1>2. PICK x \in B : \A y \in B : x <= y
    BY <1>1, LeastNatural
  <1>3. x - 1 \in Nat /\ x - 1 \notin B
    BY <1>2
  <1> QED BY <1>2, <1>3

LEMMA MinOf ==
  ASSUME NEW T, T \subseteq Nat, T # {}
  PROVE  Min(T) \in T /\ \A x \in T : Min(T) <= x
BY LeastNatural DEF Min

LEMMA MaxOf ==
  ASSUME NEW n \in Nat, NEW T, T \subseteq 0 .. n, T # {}
  PROVE  Max(T) \in T /\ \A x \in T : x <= Max(T)
<1>. DEFINE U == {n - x : x \in T}
<1>1. U \subseteq Nat /\ U # {}
  <2>1. PICK x \in T : TRUE
    OBVIOUS
  <2>2. n - x \in U
    BY <2>1
  <2>3. \A y \in T : y \in 0 .. n
    OBVIOUS
  <2> QED
    BY <2>2, <2>3
<1>2. PICK y \in U : \A z \in U : y <= z
  BY <1>1, LeastNatural
<1>3. PICK x \in T : y = n - x
  BY <1>2
<1>4. \A z \in T : z <= x
  <2>. TAKE z \in T
  <2>1. y <= n - z
    BY <1>2
  <2> QED
    BY <1>3, <2>1
<1> QED
  BY <1>3, <1>4 DEF Max

(* g starts with a, and F leads from each of n values to the next. *)
Iterated(g, n, a, F) == g[0] = a /\ \A i \in 1 .. n : g[i] = F[i][g[i - 1]]

(* A state for each number of steps *)
LEMMA RunExists ==
  ASSUME NEW n \in Nat, NEW S, NEW a \in S, NEW F \in [1 .. n -> [S -> S]]
  PROVE  \E g \in [0 .. n -> S] : Iterated(g, n, a, F)
<1>. DEFINE Runs(m) == {g \in [0 .. m -> S] :
                          g[0] = a /\ \A i \in 1 .. m : g[i] = F[i][g[i - 1]]}
            T == {m \in Nat : m <= n => Runs(m) # {}}
<1>1. 0 \in T
  <2>1. [i \in 0 .. 0 |-> a] \in Runs(0)
    OBVIOUS
  <2> QED
    BY <2>1
<1>2. ASSUME NEW m \in Nat, m \in T PROVE m + 1 \in T
  <2>. SUFFICES ASSUME m + 1 <= n PROVE Runs(m + 1) # {}
    OBVIOUS
  <2>1. PICK g : g \in Runs(m)
    BY <1>2
  <2>. DEFINE h == [i \in 0 .. m + 1 |-> IF i <= m THEN g[i] ELSE F[m + 1][g[m]]]
  <2>2. g \in [0 .. m -> S] /\ g[m] \in S /\ m + 1 \in 1 .. n /\ g[0] = a
    BY <2>1
  <2>3. h \in [0 .. m + 1 -> S] /\ h[0] = a
    BY <2>2
  <2>4. ASSUME NEW i \in 1 .. m + 1 PROVE h[i] = F[i][h[i - 1]]
    <3>1. CASE i = m + 1
      BY <2>2, <3>1
    <3>2. CASE i \in 1 .. m
      BY <2>1, <3>2
    <3> QED
      BY <3>1, <3>2
  <2>. HIDE DEF h
  <2>5. h \in Runs(m + 1)
    BY <2>3, <2>4
  <2> QED
    BY <2>5
<1>. HIDE DEF T
<1>3. n \in T
  BY <1>1, <1>2, NatSetInduction
<1> QED
  BY <1>3 DEF T, Iterated

-----------------------------------------------------------------------------
(* What starts outside of everything that has started before *)

IsOutermost(G, C, last) ==
  /\ G \in SUBSET C
  /\ \A i \in C : i \in G <=> ~\E j \in G : j < i /\ i <= last[j]

LEMMA OutermostExists ==
  ASSUME NEW n \in Nat, NEW C \in SUBSET (1 .. n), NEW last
  PROVE  IsOutermost(Outermost(C, last), C, last)
<1>. DEFINE Upto(m) == {i \in C : i <= m}
            T == {m \in Nat : \E G : IsOutermost(G, Upto(m), last)}
<1>1. 0 \in T
  <2>1. IsOutermost({}, Upto(0), last)
    BY DEF IsOutermost
  <2> QED
    BY <2>1
<1>2. ASSUME NEW m \in Nat, m \in T PROVE m + 1 \in T
  <2>1. PICK G : IsOutermost(G, Upto(m), last)
    BY <1>2
  <2>2. CASE m + 1 \in C /\ ~\E j \in G : j < m + 1 /\ m + 1 <= last[j]
    <3>1. IsOutermost(G \cup {m + 1}, Upto(m + 1), last)
      BY <2>1, <2>2 DEF IsOutermost
    <3> QED
      BY <3>1
  <2>3. CASE ~(m + 1 \in C /\ ~\E j \in G : j < m + 1 /\ m + 1 <= last[j])
    <3>1. IsOutermost(G, Upto(m + 1), last)
      BY <2>1, <2>3 DEF IsOutermost
    <3> QED
      BY <3>1
  <2> QED
    BY <2>2, <2>3
<1>. HIDE DEF T
<1>3. n \in T
  BY <1>1, <1>2, NatSetInduction
<1>4. PICK G : IsOutermost(G, C, last)
  <2>1. \A i \in C : i \in 1 .. n
    OBVIOUS
  <2>2. Upto(n) = C
    <3>1. \A i \in C : i \in Upto(n)
      BY <2>1
    <3>2. \A i \in Upto(n) : i \in C
      OBVIOUS
    <3> HIDE DEF Upto
    <3> QED
      BY <3>1, <3>2
  <2> QED
    BY <1>3, <2>2 DEF T
<1> QED
  BY <1>4 DEF Outermost, IsOutermost

-----------------------------------------------------------------------------
(* Quotes *)

QuoteChars == {"\\", "'", "\""}
DoubleQuote == "\""
DoubleQuotable == {"\\", "\"", "$"}

(* The provers for arithmetic see these names, not the characters. *)
LEMMA DoubleQuoteFacts ==
  /\ DoubleQuote # "\\" /\ DoubleQuote # "'" /\ DoubleQuote \in DoubleQuotable
  /\ DoubleQuote \in QuoteChars /\ "\\" \in DoubleQuotable
  /\ \A c \in QuoteChars : c = "\\" \/ c = "'" \/ c = DoubleQuote
BY Zenon DEF DoubleQuote, DoubleQuotable, QuoteChars

QuoteLast(e) == [i \in 1 .. Len(e) |-> QuoteEnd(e, i)]
Openers(e) == Outermost({i \in 1 .. Len(e) : e[i] \in QuoteChars}, QuoteLast(e))

Closes(e, q, j) ==
  CASE e[q] = "\\" -> j = q + 1
    [] e[q] = "'" -> e[j] = "'"
    [] OTHER -> e[j] = DoubleQuote /\ ~Escaped(e, q, j)

LEMMA QuoteEnds ==
  ASSUME NEW e \in Seq(Chars), NEW q \in 1 .. Len(e)
  PROVE  /\ QuoteEnd(e, q) \in q + 1 .. Len(e) + 1
         /\ \A j \in q + 1 .. Len(e) :
              j <= QuoteEnd(e, q) => (j = QuoteEnd(e, q) <=> Closes(e, q, j))
<1>. DEFINE n == Len(e)
            ends == {j \in q + 1 .. n : Closes(e, q, j)}
<1>1. n \in Nat
  OBVIOUS
<1>2. QuoteEnd(e, q) = IF ends = {} THEN n + 1 ELSE Min(ends)
  <2>1. ends = CASE e[q] = "\\" -> {q + 1} \cap 1 .. n
                 [] e[q] = "'" -> {j \in q + 1 .. n : e[j] = "'"}
                 [] OTHER -> {j \in q + 1 .. n : e[j] = DoubleQuote /\ ~Escaped(e, q, j)}
    <3>1. CASE e[q] = "\\"
      BY <1>1, <3>1 DEF Closes
    <3>2. CASE e[q] # "\\" /\ e[q] = "'"
      BY <1>1, <3>2 DEF Closes
    <3>3. CASE e[q] # "\\" /\ e[q] # "'"
      BY <1>1, <3>3 DEF Closes
    <3> QED
      BY <3>1, <3>2, <3>3
  <2>. HIDE DEF ends
  <2> QED
    BY <2>1 DEF QuoteEnd, DoubleQuote, DoubleQuotable
<1>3. CASE ends = {}
  BY <1>1, <1>2, <1>3
<1>4. CASE ends # {}
  <2>1. ends \subseteq Nat
    BY <1>1
  <2>2. Min(ends) \in ends /\ \A x \in ends : Min(ends) <= x
    BY <1>4, <2>1, MinOf
  <2>3. QuoteEnd(e, q) \in ends /\ \A x \in ends : QuoteEnd(e, q) <= x
    BY <1>2, <1>4, <2>2
  <2>4. QuoteEnd(e, q) \in q + 1 .. n /\ Closes(e, q, QuoteEnd(e, q))
    BY <2>3
  <2>5. ASSUME NEW j \in q + 1 .. n, j <= QuoteEnd(e, q), Closes(e, q, j)
        PROVE  j = QuoteEnd(e, q)
    <3>1. j \in ends
      BY <2>5
    <3>2. QuoteEnd(e, q) <= j /\ QuoteEnd(e, q) \in Int /\ j \in Int
      BY <1>1, <2>3, <2>4, <3>1
    <3> QED
      BY <2>5, <3>2
  <2> QED
    BY <1>1, <2>4, <2>5
<1> QED
  BY <1>3, <1>4

LEMMA Parity == \A a \in Nat : a % 2 = 0 <=> (a + 1) % 2 # 0
OBVIOUS

(* The number of backslashes before j becomes odd with a backslash that is
   not quoted itself. *)
LEMMA EscapedNext ==
  ASSUME NEW e \in Seq(Chars), NEW q \in 1 .. Len(e), e[q] # "\\"
  PROVE  /\ ~Escaped(e, q, q + 1)
         /\ \A j \in q + 1 .. Len(e) :
              Escaped(e, q, j + 1) <=> e[j] = "\\" /\ ~Escaped(e, q, j)
<1>1. Len(e) \in Nat
  OBVIOUS
<1>2. ~Escaped(e, q, q + 1)
  BY <1>1 DEF Escaped
<1>3. ASSUME NEW j \in q + 1 .. Len(e)
      PROVE  Escaped(e, q, j + 1) <=> e[j] = "\\" /\ ~Escaped(e, q, j)
  <2>1. PICK k \in q .. j - 1 : e[k] # "\\" /\ \A l \in k + 1 .. j - 1 : e[l] = "\\"
    <3>. DEFINE T == {k \in q .. j - 1 : e[k] # "\\"}
    <3>1. q \in T /\ T \subseteq 0 .. j - 1 /\ j - 1 \in Nat
      BY <1>1
    <3>2. Max(T) \in T /\ \A x \in T : x <= Max(T)
      BY <3>1, MaxOf
    <3> QED
      BY <1>1, <3>2
  <2>2. Escaped(e, q, j) <=> (j - k) % 2 = 0
    <3>1. ASSUME NEW i \in q .. j - 1, e[i] # "\\", \A l \in i + 1 .. j - 1 : e[l] = "\\"
          PROVE  i = k
      BY <1>1, <2>1, <3>1
    <3> QED
      BY <2>1, <3>1 DEF Escaped
  <2>3. Escaped(e, q, j + 1) <=> e[j] = "\\" /\ (j + 1 - k) % 2 = 0
    <3>1. ASSUME NEW i \in q .. j, e[i] # "\\", \A l \in i + 1 .. j : e[l] = "\\"
          PROVE  i = j \/ i = k
      BY <1>1, <2>1, <3>1
    <3>2. CASE e[j] = "\\"
      <4>1. \A l \in k + 1 .. j : e[l] = "\\"
        BY <1>1, <2>1, <3>2
      <4>2. (j + 1) - 1 = j /\ k \in q .. j
        BY <1>1, <2>1
      <4> QED
        BY <1>1, <2>1, <3>1, <3>2, <4>1, <4>2 DEF Escaped
    <3>3. CASE e[j] # "\\"
      <4>1. ASSUME NEW i \in q .. (j + 1) - 1, e[i] # "\\", (j + 1 - i) % 2 = 0,
                   \A l \in i + 1 .. (j + 1) - 1 : e[l] = "\\"
            PROVE  FALSE
        <5>1. i = j
          BY <1>1, <3>3, <4>1
        <5>2. j + 1 - i = 1 /\ 1 % 2 # 0
          BY <1>1, <5>1
        <5> QED
          BY <4>1, <5>2
      <4> QED
        BY <3>3, <4>1 DEF Escaped
    <3> QED
      BY <3>2, <3>3
  <2>4. (j - k) % 2 = 0 <=> (j + 1 - k) % 2 # 0
    <3>1. j - k \in Nat /\ (j - k) + 1 = j + 1 - k
      BY <1>1, <2>1
    <3> QED
      BY <3>1, Parity
  <2> QED
    BY <2>2, <2>3, <2>4
<1> QED
  BY <1>2, <1>3

QStates == {"NORMAL", "BACKSLASH", "SINGLE", "DOUBLE", "DOUBLE_BACKSLASH"}

LEMMA QuotingType ==
  \A state \in QStates : \A ch, next : Quoting(state, ch, next)[2] \in QStates
BY DEF Quoting, DoubleQuote, DoubleQuotable, QStates

(* The state machine for quotes, step by step *)
LEMMA QuotingRun ==
  ASSUME NEW e \in Seq(Chars)
  PROVE  LET st == QuotingStates(e)
         IN  /\ st \in [0 .. Len(e) -> QStates]
             /\ st[0] = "NORMAL"
             /\ \A i \in 1 .. Len(e) : st[i] = QuotingAt(e, st[i - 1], i)[2]
<1>. DEFINE n == Len(e)
            F == [i \in 1 .. n |-> [s \in QStates |-> QuotingAt(e, s, i)[2]]]
            IsRun(g) == g = [i \in 0 .. n |->
                               IF i = 0 THEN "NORMAL" ELSE QuotingAt(e, g[i - 1], i)[2]]
            run == CHOOSE g : IsRun(g)
<1>1. n \in Nat
  OBVIOUS
<1>2. F \in [1 .. n -> [QStates -> QStates]]
  BY QuotingType DEF QuotingAt
<1>3. PICK g \in [0 .. n -> QStates] : g[0] = "NORMAL" /\ \A i \in 1 .. n : g[i] = F[i][g[i - 1]]
  <2>1. "NORMAL" \in QStates
    BY DEF QStates
  <2>. HIDE DEF F
  <2>2. \E g \in [0 .. n -> QStates] : Iterated(g, n, "NORMAL", F)
    BY <1>1, <1>2, <2>1, RunExists
  <2> QED
    BY <2>2 DEF Iterated
<1>4. ASSUME NEW i \in 1 .. n
      PROVE  i - 1 \in 0 .. n /\ g[i] = QuotingAt(e, g[i - 1], i)[2]
  <2>1. i - 1 \in 0 .. n
    BY <1>1
  <2>2. g[i - 1] \in QStates
    BY <1>3, <2>1
  <2> QED
    BY <1>3, <2>1, <2>2
<1>5. IsRun(g)
  BY <1>1, <1>3, <1>4
<1>6. IsRun(run)
  BY <1>5
<1>7. QuotingStates(e) = run
  BY DEF QuotingStates
<1>. HIDE DEF run
<1>8. run[0] = "NORMAL" /\ \A i \in 1 .. n : run[i] = QuotingAt(e, run[i - 1], i)[2]
  BY <1>1, <1>6
<1>9. \A i \in 0 .. n : run[i] \in QStates
  <2>. DEFINE T == {i \in Nat : i <= n => run[i] \in QStates}
  <2>1. 0 \in T
    BY <1>8 DEF QStates
  <2>2. ASSUME NEW i \in Nat, i \in T PROVE i + 1 \in T
    <3>1. CASE i + 1 <= n
      <4>1. i + 1 \in 1 .. n /\ (i + 1) - 1 = i /\ run[i] \in QStates
        BY <1>1, <2>2, <3>1
      <4>2. run[i + 1] = QuotingAt(e, run[i], i + 1)[2]
        BY <1>8, <4>1
      <4>3. QuotingAt(e, run[i], i + 1)[2] \in QStates
        BY <4>1, QuotingType DEF QuotingAt
      <4> QED
        BY <4>2, <4>3
    <3>2. CASE ~(i + 1 <= n)
      BY <3>2
    <3> QED
      BY <3>1, <3>2
  <2>. HIDE DEF T
  <2>3. \A i \in Nat : i \in T
    BY <2>1, <2>2, NatSetInduction
  <2> QED
    BY <2>3 DEF T
<1>10. run \in [0 .. n -> QStates]
  BY <1>6, <1>9
<1> QED
  BY <1>7, <1>8, <1>10

(* The quotes of an expression *)
LEMMA OpenersFacts ==
  ASSUME NEW e \in Seq(Chars)
  PROVE  /\ \A q \in Openers(e) : q \in 1 .. Len(e) /\ e[q] \in QuoteChars
         /\ \A i \in 1 .. Len(e) :
              e[i] \in QuoteChars =>
                (i \in Openers(e) <=> \A j \in Openers(e) : ~(j < i /\ i <= QuoteEnd(e, j)))
<1>. DEFINE C == {i \in 1 .. Len(e) : e[i] \in QuoteChars}
<1>1. IsOutermost(Openers(e), C, QuoteLast(e))
  <2>1. Len(e) \in Nat /\ C \in SUBSET (1 .. Len(e))
    OBVIOUS
  <2>. HIDE DEF C
  <2>2. IsOutermost(Outermost(C, QuoteLast(e)), C, QuoteLast(e))
    BY <2>1, OutermostExists
  <2> QED
    BY <2>2 DEF Openers, C
<1>2. \A q \in Openers(e) : q \in C
  BY <1>1 DEF IsOutermost
<1>3. \A q \in Openers(e) : QuoteLast(e)[q] = QuoteEnd(e, q)
  BY <1>2 DEF QuoteLast
<1> QED
  BY <1>1, <1>2, <1>3 DEF IsOutermost

(* The quote opened at q holds what comes after i characters. *)
InQuote(e, q, i) == q \in Openers(e) /\ q <= i /\ i < QuoteEnd(e, q)

(* Within double quotes, a backslash waits for the character that it quotes. *)
Pending(e, q, i) ==
  /\ q < i /\ e[i] = "\\" /\ ~Escaped(e, q, i)
  /\ i = Len(e) \/ e[i + 1] \in DoubleQuotable

QuoteState(e, q, i) ==
  CASE e[q] = "\\" -> "BACKSLASH"
    [] e[q] = "'" -> "SINGLE"
    [] OTHER -> IF Pending(e, q, i) THEN "DOUBLE_BACKSLASH" ELSE "DOUBLE"

(* What the state after i characters means *)
QuotesInv(e, i) ==
  \/ QuotingStates(e)[i] = "NORMAL" /\ \A q \in Openers(e) : ~InQuote(e, q, i)
  \/ \E q \in Openers(e) : InQuote(e, q, i) /\ QuotingStates(e)[i] = QuoteState(e, q, i)

LEMMA OneQuote ==
  ASSUME NEW e \in Seq(Chars), NEW p, NEW q, NEW i \in Int, InQuote(e, p, i), InQuote(e, q, i)
  PROVE  p = q
<1>1. p \in 1 .. Len(e) /\ q \in 1 .. Len(e) /\ Len(e) \in Nat
  BY OpenersFacts DEF InQuote
<1>2. QuoteEnd(e, p) \in Int /\ QuoteEnd(e, q) \in Int
  BY <1>1, QuoteEnds
<1>3. ~(p < q)
  BY <1>1, <1>2, OpenersFacts DEF InQuote
<1>4. ~(q < p)
  BY <1>1, <1>2, OpenersFacts DEF InQuote
<1> QED
  BY <1>1, <1>3, <1>4

LEMMA BackslashEnd ==
  ASSUME NEW e \in Seq(Chars), NEW q \in 1 .. Len(e), e[q] = "\\"
  PROVE  QuoteEnd(e, q) = q + 1
<1>1. Len(e) \in Nat /\ QuoteEnd(e, q) \in q + 1 .. Len(e) + 1
  BY QuoteEnds
<1>2. CASE q = Len(e)
  BY <1>1, <1>2
<1>3. CASE q # Len(e)
  <2>1. q + 1 \in q + 1 .. Len(e) /\ q + 1 <= QuoteEnd(e, q)
    BY <1>1, <1>3
  <2>2. Closes(e, q, q + 1)
    BY DEF Closes
  <2> QED
    BY <2>1, <2>2, QuoteEnds
<1> QED
  BY <1>2, <1>3

(* What a waiting backslash says of the next character *)
LEMMA PendingMeans ==
  ASSUME NEW e \in Seq(Chars), NEW q \in 1 .. Len(e), e[q] = DoubleQuote, NEW i \in q + 1 .. Len(e)
  PROVE  /\ Pending(e, q, i - 1) => Escaped(e, q, i)
         /\ ~Pending(e, q, i - 1) /\ e[i] \in DoubleQuotable => ~Escaped(e, q, i)
<1>1. Len(e) \in Nat /\ i \in Nat /\ q \in Nat /\ q < i /\ i <= Len(e)
  <2>1. Len(e) \in Nat
    OBVIOUS
  <2> QED
    BY <2>1
<1>0. e[q] # "\\"
  BY DoubleQuoteFacts
<1>2. CASE i = q + 1
  <2>1. ~Escaped(e, q, i)
    BY <1>0, <1>2, EscapedNext
  <2>2. ~(q < i - 1)
    BY <1>2
  <2>3. ~Pending(e, q, i - 1)
    BY <2>2, Zenon DEF Pending
  <2> QED
    BY <2>1, <2>3
<1>3. CASE i # q + 1
  <2>1. i - 1 \in q + 1 .. Len(e) /\ (i - 1) + 1 = i /\ q < i - 1 /\ i - 1 # Len(e)
    BY <1>1, <1>3
  <2>2. Escaped(e, q, i) <=> e[i - 1] = "\\" /\ ~Escaped(e, q, i - 1)
    BY <1>0, <2>1, EscapedNext
  <2>3. Pending(e, q, i - 1) <=> Escaped(e, q, i) /\ e[i] \in DoubleQuotable
    <3>1. Pending(e, q, i - 1) <=> /\ q < i - 1 /\ e[i - 1] = "\\" /\ ~Escaped(e, q, i - 1)
                                   /\ i - 1 = Len(e) \/ e[(i - 1) + 1] \in DoubleQuotable
      BY Zenon DEF Pending
    <3> QED
      BY <2>1, <2>2, <3>1
  <2> QED
    BY <2>3
<1> QED
  BY <1>2, <1>3

(* A step from outside of all quotes *)
LEMMA QuoteStepOut ==
  ASSUME NEW e \in Seq(Chars), NEW i \in 1 .. Len(e),
         QuotingStates(e)[i - 1] = "NORMAL", \A q \in Openers(e) : ~InQuote(e, q, i - 1)
  PROVE  QuotesInv(e, i)
<1>1. Len(e) \in Nat /\ i \in Nat
  OBVIOUS
<1>2. QuotingStates(e)[i] = QuotingAt(e, "NORMAL", i)[2]
  BY QuotingRun
<1>3. \A q \in Openers(e) : q \in 1 .. Len(e) /\ QuoteEnd(e, q) \in q + 1 .. Len(e) + 1
  BY OpenersFacts, QuoteEnds
<1>4. \A q \in Openers(e) : q < i => QuoteEnd(e, q) < i
  BY <1>1, <1>3 DEF InQuote
<1>5. CASE e[i] \in QuoteChars
  <2>1. i \in Openers(e)
    BY <1>1, <1>3, <1>4, <1>5, OpenersFacts
  <2>2. InQuote(e, i, i)
    BY <1>1, <1>3, <2>1 DEF InQuote
  <2>3. ~Pending(e, i, i)
    <3>1. ~(i < i)
      BY <1>1
    <3> QED
      BY <3>1, Zenon DEF Pending
  <2>4. QuotingStates(e)[i] = QuoteState(e, i, i)
    BY <1>2, <1>5, <2>3 DEF QuoteState, QuotingAt, Quoting, QuoteChars, DoubleQuote, DoubleQuotable
  <2> QED
    BY <2>1, <2>2, <2>4 DEF QuotesInv
<1>6. CASE e[i] \notin QuoteChars
  <2>1. i \notin Openers(e)
    BY <1>6, OpenersFacts
  <2>2. \A q \in Openers(e) : ~InQuote(e, q, i)
    BY <1>1, <1>3, <1>4, <2>1 DEF InQuote
  <2>3. QuotingStates(e)[i] = "NORMAL"
    BY <1>2, <1>6 DEF QuotingAt, Quoting, QuoteChars, DoubleQuote, DoubleQuotable
  <2> QED
    BY <2>2, <2>3 DEF QuotesInv
<1> QED
  BY <1>5, <1>6

(* A step within a quote *)
LEMMA QuoteStepIn ==
  ASSUME NEW e \in Seq(Chars), NEW i \in 1 .. Len(e), NEW q,
         InQuote(e, q, i - 1), QuotingStates(e)[i - 1] = QuoteState(e, q, i - 1)
  PROVE  QuotesInv(e, i)
<1>. DEFINE s == QuoteState(e, q, i - 1)
<1>1. Len(e) \in Nat /\ i \in Nat
  OBVIOUS
<1>2. QuotingStates(e)[i] = QuotingAt(e, s, i)[2]
  BY QuotingRun
<1>3. q \in 1 .. Len(e) /\ q \in Openers(e) /\ q < i /\ e[q] \in QuoteChars
  BY <1>1, OpenersFacts DEF InQuote
<1>4. QuoteEnd(e, q) \in i .. Len(e) + 1
  BY <1>1, <1>3, QuoteEnds DEF InQuote
<1>5. i = QuoteEnd(e, q) <=> Closes(e, q, i)
  <2>1. i \in q + 1 .. Len(e) /\ i <= QuoteEnd(e, q)
    BY <1>1, <1>3, <1>4
  <2> QED
    BY <1>3, <2>1, QuoteEnds
<1>6. CASE i = QuoteEnd(e, q)
  <2>1. ASSUME NEW p \in Openers(e), InQuote(e, p, i) PROVE FALSE
    <3>1. CASE p = i
      BY <1>1, <1>3, <1>6, <2>1, <3>1, OpenersFacts
    <3>2. CASE p # i
      <4>1. p \in 1 .. Len(e) /\ QuoteEnd(e, p) \in Int
        BY OpenersFacts, QuoteEnds
      <4>2. InQuote(e, p, i - 1)
        BY <1>1, <2>1, <3>2, <4>1 DEF InQuote
      <4>3. p = q
        BY <1>1, <4>2, OneQuote
      <4> QED
        BY <1>1, <1>6, <2>1, <4>3 DEF InQuote
    <3> QED
      BY <3>1, <3>2
  <2>2. QuotingStates(e)[i] = "NORMAL"
    <3>1. Closes(e, q, i)
      BY <1>5, <1>6
    <3>2. CASE e[q] = "\\"
      BY <1>2, <3>2 DEF QuoteState, QuotingAt, Quoting, DoubleQuote, DoubleQuotable
    <3>3. CASE e[q] = "'"
      BY <1>2, <3>1, <3>3 DEF QuoteState, QuotingAt, Quoting, DoubleQuote, DoubleQuotable, Closes
    <3>4. CASE e[q] = DoubleQuote
      <4>1. e[i] = DoubleQuote /\ ~Escaped(e, q, i)
        BY <3>1, <3>4, DoubleQuoteFacts DEF Closes
      <4>2. ~Pending(e, q, i - 1)
        BY <1>1, <1>3, <3>4, <4>1, PendingMeans
      <4>3. s = "DOUBLE"
        BY <3>4, <4>2, DoubleQuoteFacts DEF QuoteState
      <4> QED
        BY <1>2, <4>1, <4>3 DEF QuotingAt, Quoting, DoubleQuote, DoubleQuotable
    <3> QED
      BY <1>3, <3>2, <3>3, <3>4 DEF QuoteChars, DoubleQuote, DoubleQuotable
  <2> QED
    BY <2>1, <2>2 DEF QuotesInv
<1>7. CASE i # QuoteEnd(e, q)
  <2>1. InQuote(e, q, i)
    BY <1>1, <1>3, <1>4, <1>7 DEF InQuote
  <2>2. ~Closes(e, q, i)
    BY <1>5, <1>7
  <2>3. QuotingStates(e)[i] = QuoteState(e, q, i)
    <3>1. CASE e[q] = "\\"
      <4>1. i = q + 1
        BY <1>1, <1>3, <1>4, <3>1, BackslashEnd
      <4> QED
        BY <2>2, <3>1, <4>1 DEF Closes
    <3>2. CASE e[q] = "'"
      BY <1>2, <2>2, <3>2 DEF QuoteState, QuotingAt, Quoting, DoubleQuote, DoubleQuotable, Closes
    <3>3. CASE e[q] = DoubleQuote
      <4>1. e[i] # DoubleQuote \/ Escaped(e, q, i)
        BY <2>2, <3>3, DoubleQuoteFacts DEF Closes
      <4>2. e[q] # "\\" /\ e[q] # "'"
        BY <3>3, DoubleQuoteFacts
      <4>3. CASE Pending(e, q, i - 1)
        <5>2. Escaped(e, q, i)
          BY <1>1, <1>3, <3>3, <4>3, PendingMeans
        <5>3. ~Pending(e, q, i)
          BY <5>2 DEF Pending
        <5>4. s = "DOUBLE_BACKSLASH" /\ QuoteState(e, q, i) = "DOUBLE"
          BY <4>2, <4>3, <5>3 DEF QuoteState
        <5> QED
          BY <1>2, <5>4 DEF QuotingAt, Quoting, DoubleQuote, DoubleQuotable
      <4>4. CASE ~Pending(e, q, i - 1)
        <5>1. s = "DOUBLE"
          BY <4>2, <4>4 DEF QuoteState
        <5>2. e[i] \in DoubleQuotable => ~Escaped(e, q, i)
          BY <1>1, <1>3, <3>3, <4>4, PendingMeans
        <5>3. e[i] # DoubleQuote
          BY <4>1, <5>2, DoubleQuoteFacts
        <5>4. QuotingStates(e)[i] =
                IF e[i] = "\\" /\ (i = Len(e) \/ e[i + 1] \in DoubleQuotable)
                THEN "DOUBLE_BACKSLASH" ELSE "DOUBLE"
          <6>1. i # Len(e) => e[i + 1] # ""
            <7>1. i # Len(e) => i + 1 \in 1 .. Len(e)
              BY <1>1
            <7>2. i # Len(e) => e[i + 1] \in Chars
              BY <7>1
            <7> QED
              BY <7>2, ExpressionsAssumption
          <6> QED
            BY <1>2, <5>1, <5>3, <6>1 DEF QuotingAt, Quoting, DoubleQuote, DoubleQuotable
        <5>5. Pending(e, q, i) <=> e[i] = "\\" /\ (i = Len(e) \/ e[i + 1] \in DoubleQuotable)
          BY <1>3, <5>2, DoubleQuoteFacts DEF Pending
        <5> QED
          BY <4>2, <5>4, <5>5 DEF QuoteState
      <4> QED
        BY <4>3, <4>4
    <3> QED
      BY <1>3, <3>1, <3>2, <3>3 DEF QuoteChars, DoubleQuote, DoubleQuotable
  <2> QED
    BY <1>3, <2>1, <2>3 DEF QuotesInv
<1> QED
  BY <1>6, <1>7

LEMMA QuotesInvariant ==
  ASSUME NEW e \in Seq(Chars)
  PROVE  \A i \in 0 .. Len(e) : QuotesInv(e, i)
<1>. DEFINE T == {i \in Nat : i <= Len(e) => QuotesInv(e, i)}
<1>1. Len(e) \in Nat
  OBVIOUS
<1>2. 0 \in T
  <2>1. \A q \in Openers(e) : ~(q <= 0)
    BY <1>1, OpenersFacts
  <2>2. QuotingStates(e)[0] = "NORMAL"
    BY QuotingRun
  <2> QED
    BY <2>1, <2>2 DEF QuotesInv, InQuote
<1>3. ASSUME NEW i \in Nat, i \in T PROVE i + 1 \in T
  <2>. SUFFICES ASSUME i + 1 <= Len(e) PROVE QuotesInv(e, i + 1)
    OBVIOUS
  <2>1. QuotesInv(e, i) /\ i + 1 \in 1 .. Len(e) /\ (i + 1) - 1 = i
    BY <1>1, <1>3
  <2>2. CASE QuotingStates(e)[i] = "NORMAL" /\ \A q \in Openers(e) : ~InQuote(e, q, i)
    BY <2>1, <2>2, QuoteStepOut
  <2>3. CASE \E q \in Openers(e) : InQuote(e, q, i) /\ QuotingStates(e)[i] = QuoteState(e, q, i)
    BY <2>1, <2>3, QuoteStepIn
  <2> QED
    BY <2>1, <2>2, <2>3 DEF QuotesInv
<1>. HIDE DEF T
<1>4. \A i \in Nat : i \in T
  BY <1>2, <1>3, NatSetInduction
<1> QED
  BY <1>1, <1>4 DEF T

(* The parts of Text(e) *)
LEMMA TextParts ==
  ASSUME NEW e
  PROVE  /\ Text(e).ch = e
         /\ Text(e).bare = {i \in 1 .. Len(e) :
                              \A q \in Openers(e) : ~(q <= i /\ i <= QuoteLast(e)[q])}
         /\ Text(e).kept = Text(e).bare
                             \cup {i \in 1 .. Len(e) : \E q \in Openers(e) : Quotes(e, q, i)}
         /\ Text(e).closed <=> \A q \in Openers(e) : QuoteLast(e)[q] <= Len(e)
BY Zenon DEF Text, Openers, QuoteLast, QuoteChars

LEMMA TextFacts ==
  ASSUME NEW e \in Seq(Chars), NEW i \in 1 .. Len(e)
  PROVE  /\ i \in Text(e).bare <=> \A q \in Openers(e) : ~(q <= i /\ i <= QuoteEnd(e, q))
         /\ i \in Text(e).kept <=> i \in Text(e).bare \/ \E q \in Openers(e) : Quotes(e, q, i)
<1>1. \A q \in Openers(e) : QuoteLast(e)[q] = QuoteEnd(e, q)
  BY OpenersFacts DEF QuoteLast
<1>2. i \in Text(e).bare <=> \A q \in Openers(e) : ~(q <= i /\ i <= QuoteEnd(e, q))
  <2>1. i \in Text(e).bare <=> \A q \in Openers(e) : ~(q <= i /\ i <= QuoteLast(e)[q])
    BY TextParts, Zenon
  <2>2. ASSUME NEW q \in Openers(e) PROVE i <= QuoteLast(e)[q] <=> i <= QuoteEnd(e, q)
    BY <1>1
  <2> QED
    BY <2>1, <2>2
<1>3. i \in Text(e).kept <=> i \in Text(e).bare \/ \E q \in Openers(e) : Quotes(e, q, i)
  BY TextParts, Zenon
<1> QED
  BY <1>2, <1>3

LEMMA ClosedText ==
  ASSUME NEW e \in Seq(Chars)
  PROVE  Text(e).closed <=> QuotingStates(e)[Len(e)] = "NORMAL"
<1>. DEFINE n == Len(e)
<1>1. n \in Nat /\ n \in 0 .. n
  OBVIOUS
<1>2. \A q \in Openers(e) : /\ QuoteLast(e)[q] = QuoteEnd(e, q) /\ q <= n
                            /\ QuoteEnd(e, q) \in Int /\ n \in Int
  BY <1>1, OpenersFacts, QuoteEnds DEF QuoteLast
<1>3. Text(e).closed <=> \A q \in Openers(e) : ~InQuote(e, q, n)
  <2>1. Text(e).closed <=> \A q \in Openers(e) : QuoteEnd(e, q) <= n
    <3>1. Text(e).closed <=> \A q \in Openers(e) : QuoteLast(e)[q] <= n
      BY TextParts, Zenon
    <3>2. ASSUME NEW q \in Openers(e) PROVE QuoteLast(e)[q] <= n <=> QuoteEnd(e, q) <= n
      BY <1>2
    <3> QED
      BY <3>1, <3>2
  <2> QED
    BY <1>2, <2>1 DEF InQuote
<1>4. \A q \in Openers(e) : QuoteState(e, q, n) # "NORMAL"
  BY DEF QuoteState
<1> QED
  BY <1>1, <1>3, <1>4, QuotesInvariant DEF QuotesInv

LEMMA QuotingSymbols ==
  \A ch, next :
    /\ Quoting("NORMAL", ch, next)[1] = IF ch \in QuoteChars THEN "IGNORE" ELSE "TEMP_NQ"
    /\ Quoting("BACKSLASH", ch, next)[1] = "LITERAL"
    /\ Quoting("DOUBLE_BACKSLASH", ch, next)[1] = "LITERAL"
    /\ Quoting("SINGLE", ch, next)[1] = IF ch = "'" THEN "IGNORE" ELSE "LITERAL"
    /\ Quoting("DOUBLE", ch, next)[1] =
         IF ch = DoubleQuote \/ (ch = "\\" /\ (next = "" \/ next \in DoubleQuotable))
         THEN "IGNORE" ELSE "LITERAL"
<1>. TAKE ch, next
<1>1. Quoting("NORMAL", ch, next)[1] = IF ch \in QuoteChars THEN "IGNORE" ELSE "TEMP_NQ"
  BY Zenon DEF Quoting, QuoteChars
<1>2. Quoting("BACKSLASH", ch, next)[1] = "LITERAL"
  BY Zenon DEF Quoting
<1>3. Quoting("DOUBLE_BACKSLASH", ch, next)[1] = "LITERAL"
  BY Zenon DEF Quoting
<1>4. Quoting("SINGLE", ch, next)[1] = IF ch = "'" THEN "IGNORE" ELSE "LITERAL"
  BY Zenon DEF Quoting
<1>5. Quoting("DOUBLE", ch, next)[1] =
        IF ch = DoubleQuote \/ (ch = "\\" /\ (next = "" \/ next \in DoubleQuotable))
        THEN "IGNORE" ELSE "LITERAL"
  BY Zenon DEF Quoting, DoubleQuote, DoubleQuotable
<1> QED
  BY <1>1, <1>2, <1>3, <1>4, <1>5, Zenon

LEMMA QuotedWithin ==
  ASSUME NEW e \in Seq(Chars), NEW i \in 1 .. Len(e), NEW q \in Openers(e), Quotes(e, q, i)
  PROVE  InQuote(e, q, i - 1)
<1>1. q \in 1 .. Len(e) /\ e[q] \in QuoteChars /\ Len(e) \in Nat
  BY OpenersFacts
<1>2. QuoteEnd(e, q) \in q + 1 .. Len(e) + 1
  BY <1>1, QuoteEnds
<1>3. q < i
  BY Zenon DEF Quotes
<1>4. i = q + 1 \/ i < QuoteEnd(e, q)
  BY Zenon DEF Quotes
<1> QED
  BY <1>1, <1>2, <1>3, <1>4 DEF InQuote

(* The symbols of a text with closed quotes *)
LEMMA QuotedIsText ==
  ASSUME NEW e \in Seq(Chars), Text(e).closed, NEW i \in 1 .. Len(e)
  PROVE  Quoted(e)[i] = IF i \in Text(e).bare THEN "TEMP_NQ"
                        ELSE IF i \in Text(e).kept THEN "LITERAL" ELSE "IGNORE"
<1>. DEFINE n == Len(e)
            st == QuotingStates(e)
            next == IF i = n THEN "" ELSE e[i + 1]
<1>1. n \in Nat /\ i \in Nat /\ i - 1 \in 0 .. n
  OBVIOUS
<1>2. Quoted(e)[i] = Quoting(st[i - 1], e[i], next)[1]
  BY Zenon DEF Quoted, QuotingAt
<1>3. QuotesInv(e, i - 1)
  BY <1>1, QuotesInvariant
<1>. HIDE DEF next
<1>4. CASE st[i - 1] = "NORMAL" /\ \A q \in Openers(e) : ~InQuote(e, q, i - 1)
  <2>1. Quoted(e)[i] = IF e[i] \in QuoteChars THEN "IGNORE" ELSE "TEMP_NQ"
    <3>1. Quoted(e)[i] = Quoting("NORMAL", e[i], next)[1]
      BY <1>2, <1>4
    <3> QED
      BY <3>1, QuotingSymbols, Zenon
  <2>2. \A q \in Openers(e) : ~Quotes(e, q, i)
    BY <1>4, QuotedWithin
  <2>3. \A q \in Openers(e) : q \in 1 .. n /\ QuoteEnd(e, q) \in q + 1 .. n + 1
    BY OpenersFacts, QuoteEnds
  <2>4. \A q \in Openers(e) : q < i => QuoteEnd(e, q) < i
    BY <1>1, <1>4, <2>3 DEF InQuote
  <2>5. i \in Openers(e) <=> e[i] \in QuoteChars
    BY <1>1, <2>3, <2>4, OpenersFacts
  <2>6. i \in Text(e).bare <=> e[i] \notin QuoteChars
    <3>1. CASE e[i] \in QuoteChars
      <4>1. i \in Openers(e) /\ i <= i /\ i <= QuoteEnd(e, i)
        BY <1>1, <2>3, <2>5, <3>1
      <4> QED
        BY <3>1, <4>1, TextFacts
    <3>2. CASE e[i] \notin QuoteChars
      <4>1. \A q \in Openers(e) : ~(q <= i /\ i <= QuoteEnd(e, q))
        BY <1>1, <2>3, <2>4, <2>5, <3>2
      <4> QED
        BY <3>2, <4>1, TextFacts
    <3> QED
      BY <3>1, <3>2
  <2>7. i \in Text(e).kept <=> e[i] \notin QuoteChars
    BY <2>2, <2>6, TextFacts
  <2> QED
    BY <2>1, <2>6, <2>7
<1>5. ASSUME NEW q \in Openers(e), InQuote(e, q, i - 1), st[i - 1] = QuoteState(e, q, i - 1)
      PROVE  Quoted(e)[i] = IF i \in Text(e).bare THEN "TEMP_NQ"
                            ELSE IF i \in Text(e).kept THEN "LITERAL" ELSE "IGNORE"
  <2>1. q \in 1 .. n /\ e[q] \in QuoteChars /\ q < i /\ i \in q + 1 .. n
    BY <1>1, <1>5, OpenersFacts DEF InQuote
  <2>2. QuoteEnd(e, q) \in i .. n + 1 /\ QuoteEnd(e, q) <= n
    <3>1. QuoteEnd(e, q) \in q + 1 .. n + 1
      BY <2>1, QuoteEnds
    <3>2. QuoteLast(e)[q] = QuoteEnd(e, q)
      BY <2>1 DEF QuoteLast
    <3>3. QuoteLast(e)[q] <= n
      BY TextParts, Zenon
    <3> QED
      BY <1>1, <1>5, <3>1, <3>2, <3>3 DEF InQuote
  <2>3. i \notin Text(e).bare
    BY <1>1, <2>1, <2>2, TextFacts
  <2>4. i \in Text(e).kept <=> Quotes(e, q, i)
    <3>1. \A p \in Openers(e) : Quotes(e, p, i) => p = q
      BY <1>1, <1>5, QuotedWithin, OneQuote
    <3> QED
      BY <2>3, <3>1, TextFacts
  <2>5. i = QuoteEnd(e, q) <=> Closes(e, q, i)
    BY <2>1, <2>2, QuoteEnds
  <2>6. Quoted(e)[i] = IF Quotes(e, q, i) THEN "LITERAL" ELSE "IGNORE"
    <3>1. CASE e[q] = "\\"
      <4>1. i = q + 1
        BY <1>1, <2>1, <2>2, <3>1, BackslashEnd
      <4>2. Quotes(e, q, i)
        BY <2>1, <3>1, <4>1, Zenon DEF Quotes
      <4>3. st[i - 1] = "BACKSLASH"
        BY <1>5, <3>1 DEF QuoteState
      <4>4. Quoted(e)[i] = Quoting("BACKSLASH", e[i], next)[1]
        BY <1>2, <4>3
      <4> QED
        BY <4>2, <4>4, QuotingSymbols, Zenon
    <3>2. CASE e[q] = "'"
      <4>1. Quotes(e, q, i) <=> i < QuoteEnd(e, q)
        BY <2>1, <3>2, Zenon DEF Quotes
      <4>2. Quotes(e, q, i) <=> e[i] # "'"
        BY <2>1, <2>2, <2>5, <3>2, <4>1 DEF Closes
      <4>3. st[i - 1] = "SINGLE"
        BY <1>5, <3>2 DEF QuoteState
      <4>4. Quoted(e)[i] = Quoting("SINGLE", e[i], next)[1]
        BY <1>2, <4>3
      <4>5. Quoted(e)[i] = IF e[i] = "'" THEN "IGNORE" ELSE "LITERAL"
        BY <4>4, QuotingSymbols, Zenon
      <4> QED
        BY <4>2, <4>5
    <3>3. CASE e[q] = DoubleQuote
      <4>1. e[q] # "\\" /\ e[q] # "'"
        BY <3>3, DoubleQuoteFacts
      <4>2. Quotes(e, q, i) <=> i < QuoteEnd(e, q) /\ ~Escapes(e, q, i)
        BY <2>1, <4>1, Zenon DEF Quotes
      <4>3. i = QuoteEnd(e, q) <=> e[i] = DoubleQuote /\ ~Escaped(e, q, i)
        BY <2>5, <4>1 DEF Closes
      <4>4. Escapes(e, q, i) <=> /\ e[i] = "\\" /\ ~Escaped(e, q, i)
                                 /\ i < n /\ e[i + 1] \in DoubleQuotable
        BY Zenon DEF Escapes, DoubleQuotable
      <4>5. CASE Pending(e, q, i - 1)
        <5>1. st[i - 1] = "DOUBLE_BACKSLASH"
          BY <1>5, <4>1, <4>5 DEF QuoteState
        <5>2. Escaped(e, q, i)
          BY <2>1, <3>3, <4>5, PendingMeans
        <5>3. Quotes(e, q, i)
          BY <1>1, <2>2, <4>2, <4>3, <4>4, <5>2
        <5>4. Quoted(e)[i] = Quoting("DOUBLE_BACKSLASH", e[i], next)[1]
          BY <1>2, <5>1
        <5> QED
          BY <5>3, <5>4, QuotingSymbols, Zenon
      <4>6. CASE ~Pending(e, q, i - 1)
        <5>1. st[i - 1] = "DOUBLE"
          BY <1>5, <4>1, <4>6 DEF QuoteState
        <5>2. e[i] \in DoubleQuotable => ~Escaped(e, q, i)
          BY <2>1, <3>3, <4>6, PendingMeans
        <5>3. Quoted(e)[i] =
                IF e[i] = DoubleQuote \/ (e[i] = "\\" /\ (next = "" \/ next \in DoubleQuotable))
                THEN "IGNORE" ELSE "LITERAL"
          <6>1. Quoted(e)[i] = Quoting("DOUBLE", e[i], next)[1]
            BY <1>2, <5>1
          <6> QED
            BY <6>1, QuotingSymbols, Zenon
        <5>4. CASE e[i] = DoubleQuote
          <6>1. ~Quotes(e, q, i)
            BY <1>1, <2>2, <4>2, <4>3, <5>2, <5>4, DoubleQuoteFacts
          <6> QED
            BY <5>3, <5>4, <6>1
        <5>5. CASE e[i] # DoubleQuote
          <6>1. i < QuoteEnd(e, q) /\ i < n
            BY <1>1, <2>2, <4>3, <5>5
          <6>2. next = e[i + 1] /\ next # ""
            <7>1. i + 1 \in 1 .. n /\ i # n
              BY <1>1, <6>1
            <7>2. e[i + 1] \in Chars
              BY <7>1
            <7> QED
              BY <7>1, <7>2, ExpressionsAssumption DEF next
          <6>3. Quotes(e, q, i) <=> ~(e[i] = "\\" /\ next \in DoubleQuotable)
            BY <4>2, <4>4, <5>2, <6>1, <6>2, DoubleQuoteFacts
          <6> QED
            BY <5>3, <5>5, <6>2, <6>3
        <5> QED
          BY <5>4, <5>5
      <4> QED
        BY <4>5, <4>6
    <3> QED
      BY <2>1, <3>1, <3>2, <3>3, DoubleQuoteFacts
  <2> QED
    BY <2>3, <2>4, <2>6
<1> QED
  BY <1>3, <1>4, <1>5 DEF QuotesInv

-----------------------------------------------------------------------------
(* Lists *)

IsText(t) ==
  /\ t.ch \in Seq(Chars)
  /\ t.bare \subseteq t.kept /\ t.kept \subseteq 1 .. Len(t.ch)

(* The symbols after the quotes have been handled *)
IsQuoted(t, sym) ==
  \A i \in 1 .. Len(t.ch) :
    sym[i] = IF i \in t.bare THEN "TEMP_NQ" ELSE IF i \in t.kept THEN "LITERAL" ELSE "IGNORE"

Starts(t) == Lists(t).starts

LEMMA TextIsText == \A e \in Seq(Chars) : IsText(Text(e))
<1>. SUFFICES ASSUME NEW e \in Seq(Chars) PROVE IsText(Text(e))
  OBVIOUS
<1>1. Text(e).bare \subseteq Text(e).kept
  BY TextParts, Zenon
<1>2. Text(e).ch = e
  BY TextParts, Zenon
<1>3. Text(e).bare \subseteq 1 .. Len(e)
  BY TextParts, Zenon
<1>4. Text(e).kept \subseteq 1 .. Len(e)
  BY <1>3, TextParts, Zenon
<1> QED
  BY <1>1, <1>2, <1>4 DEF IsText

LEMMA InversionFacts ==
  ASSUME NEW t, IsText(t), NEW l, NEW j
  PROVE  j \in Inversion(t, l) <=>
           /\ j \in t.bare /\ l < j /\ t.ch[j] \in {"^", "!"}
           /\ \A k \in t.kept : ~(l < k /\ k < j)
BY DEF Inversion, Follows, IsText

LEMMA BodyFacts ==
  ASSUME NEW t, NEW l, NEW j
  PROVE  j \in Body(t, l) <=> j \in t.kept /\ l < j /\ j \notin Inversion(t, l)
BY DEF Body

LEMMA ListEnds ==
  ASSUME NEW t, IsText(t), NEW l \in 1 .. Len(t.ch)
  PROVE  /\ ListEnd(t, l) \in l + 1 .. Len(t.ch) + 1
         /\ \A j \in l + 1 .. Len(t.ch) :
              j <= ListEnd(t, l) =>
                (j = ListEnd(t, l) <=>
                   j \in Body(t, l) /\ Is(t, j, "]") /\ \E k \in Body(t, l) : k < j)
<1>. DEFINE n == Len(t.ch)
            ends == {j \in Body(t, l) : Is(t, j, "]") /\ ~FirstOf(t, l, j)}
<1>1. n \in Nat
  BY DEF IsText
<1>2. ListEnd(t, l) = IF ends = {} THEN n + 1 ELSE Min(ends)
  BY DEF ListEnd
<1>3. \A j \in Body(t, l) : j \in l + 1 .. n
  BY <1>1, BodyFacts DEF IsText
<1>4. \A j \in Body(t, l) : ~FirstOf(t, l, j) <=> \E k \in Body(t, l) : k < j
  BY <1>1, <1>3 DEF FirstOf
<1>5. CASE ends = {}
  BY <1>1, <1>2, <1>4, <1>5
<1>6. CASE ends # {}
  <2>1. ends \subseteq Nat
    BY <1>1, <1>3
  <2>2. Min(ends) \in ends /\ \A x \in ends : Min(ends) <= x
    <3>. HIDE DEF ends
    <3> QED
      BY <1>6, <2>1, MinOf
  <2>3. ListEnd(t, l) \in ends /\ \A x \in ends : ListEnd(t, l) <= x
    BY <1>2, <1>6, <2>2
  <2>4. ListEnd(t, l) \in l + 1 .. n
    BY <1>3, <2>3
  <2>5. ASSUME NEW j \in l + 1 .. n, j <= ListEnd(t, l)
        PROVE  j = ListEnd(t, l) <=> j \in ends
    <3>1. j \in ends => ListEnd(t, l) <= j
      BY <2>3
    <3> QED
      BY <1>1, <2>3, <2>4, <2>5, <3>1
  <2>6. \A j : j \in ends <=> j \in Body(t, l) /\ Is(t, j, "]") /\ \E k \in Body(t, l) : k < j
    BY <1>4
  <2>. HIDE DEF ends
  <2> QED
    BY <1>1, <2>4, <2>5, <2>6
<1> QED
  BY <1>5, <1>6

(* The lists of a text *)
LEMMA ListsParts ==
  ASSUME NEW t
  PROVE  LET last == [i \in 1 .. Len(t.ch) |-> ListEnd(t, i)]
         IN  /\ Starts(t) = Outermost({i \in t.bare : t.ch[i] = "["}, last)
             /\ Lists(t).last = last
             /\ Lists(t).sets = [l \in Starts(t) |-> ListSet(t, l)]
             /\ Lists(t).closed <=> \A l \in Starts(t) : last[l] <= Len(t.ch)
BY Zenon DEF Starts, Lists

LEMMA StartsFacts ==
  ASSUME NEW t, IsText(t)
  PROVE  /\ \A l \in Starts(t) : /\ l \in 1 .. Len(t.ch) /\ Is(t, l, "[")
                                 /\ Lists(t).last[l] = ListEnd(t, l)
                                 /\ Lists(t).sets[l] = ListSet(t, l)
         /\ \A i \in 1 .. Len(t.ch) :
              Is(t, i, "[") =>
                (i \in Starts(t) <=> \A l \in Starts(t) : ~(l < i /\ i <= ListEnd(t, l)))
<1>. DEFINE C == {i \in t.bare : t.ch[i] = "["}
            last == [i \in 1 .. Len(t.ch) |-> ListEnd(t, i)]
<1>1. \A i \in C : i \in 1 .. Len(t.ch)
  BY DEF IsText
<1>2. Len(t.ch) \in Nat
  BY DEF IsText
<1>3. Starts(t) = Outermost(C, last)
  BY ListsParts, Zenon
<1>4. \A i : i \in C <=> i \in t.bare /\ t.ch[i] = "["
  OBVIOUS
<1>. HIDE DEF C
<1>5. IsOutermost(Starts(t), C, last)
  <2>1. C \in SUBSET (1 .. Len(t.ch))
    BY <1>1
  <2>. HIDE DEF last
  <2> QED
    BY <1>2, <1>3, <2>1, OutermostExists
<1>6. \A l \in Starts(t) : l \in C
  BY <1>5 DEF IsOutermost
<1>7. \A l \in Starts(t) : last[l] = ListEnd(t, l)
  BY <1>1, <1>6
<1>8. ASSUME NEW l \in Starts(t)
      PROVE  Lists(t).last[l] = ListEnd(t, l) /\ Lists(t).sets[l] = ListSet(t, l)
  <2>1. Lists(t).last = last /\ Lists(t).sets = [k \in Starts(t) |-> ListSet(t, k)]
    BY ListsParts, Zenon
  <2> QED
    BY <1>1, <1>6, <1>7, <2>1
<1>9. ASSUME NEW i \in C
      PROVE  i \in Starts(t) <=> \A l \in Starts(t) : ~(l < i /\ i <= ListEnd(t, l))
  BY <1>5, <1>7 DEF IsOutermost
<1> QED
  BY <1>1, <1>4, <1>6, <1>8, <1>9 DEF Is

MStates == {"NORMAL", "LIST_BEGIN", "LIST_BEGIN_2", "LIST_BODY"}

LEMMA MetaType ==
  \A state \in MStates : \A symbol, ch : Meta(state, symbol, ch)[2] \in MStates
BY DEF Meta, MStates

(* The state machine for metacharacters, step by step *)
LEMMA MetaRun ==
  ASSUME NEW e \in Seq(Chars), NEW sym
  PROVE  LET st == MetaStates(e, sym)
         IN  /\ st \in [0 .. Len(e) -> MStates]
             /\ st[0] = "NORMAL"
             /\ \A i \in 1 .. Len(e) : st[i] = Meta(st[i - 1], sym[i], e[i])[2]
<1>. DEFINE n == Len(e)
            F == [i \in 1 .. n |-> [s \in MStates |-> Meta(s, sym[i], e[i])[2]]]
            IsRun(g) == g = [i \in 0 .. n |->
                               IF i = 0 THEN "NORMAL" ELSE Meta(g[i - 1], sym[i], e[i])[2]]
            run == CHOOSE g : IsRun(g)
<1>1. n \in Nat
  OBVIOUS
<1>2. F \in [1 .. n -> [MStates -> MStates]]
  BY MetaType
<1>3. PICK g \in [0 .. n -> MStates] :
        g[0] = "NORMAL" /\ \A i \in 1 .. n : g[i] = F[i][g[i - 1]]
  <2>1. "NORMAL" \in MStates
    BY DEF MStates
  <2>. HIDE DEF F
  <2>2. \E g \in [0 .. n -> MStates] : Iterated(g, n, "NORMAL", F)
    BY <1>1, <1>2, <2>1, RunExists
  <2> QED
    BY <2>2 DEF Iterated
<1>4. ASSUME NEW i \in 1 .. n
      PROVE  i - 1 \in 0 .. n /\ g[i] = Meta(g[i - 1], sym[i], e[i])[2]
  <2>1. i - 1 \in 0 .. n
    BY <1>1
  <2>2. g[i - 1] \in MStates
    BY <1>3, <2>1
  <2> QED
    BY <1>3, <2>1, <2>2
<1>5. IsRun(g)
  BY <1>1, <1>3, <1>4
<1>6. IsRun(run)
  BY <1>5
<1>7. MetaStates(e, sym) = run
  BY DEF MetaStates
<1>. HIDE DEF run
<1>8. run[0] = "NORMAL" /\ \A i \in 1 .. n : run[i] = Meta(run[i - 1], sym[i], e[i])[2]
  BY <1>1, <1>6
<1>9. \A i \in 0 .. n : run[i] \in MStates
  <2>. DEFINE T == {i \in Nat : i <= n => run[i] \in MStates}
  <2>1. 0 \in T
    BY <1>8 DEF MStates
  <2>2. ASSUME NEW i \in Nat, i \in T PROVE i + 1 \in T
    <3>1. CASE i + 1 <= n
      <4>1. i + 1 \in 1 .. n /\ (i + 1) - 1 = i /\ run[i] \in MStates
        BY <1>1, <2>2, <3>1
      <4>2. run[i + 1] = Meta(run[i], sym[i + 1], e[i + 1])[2]
        BY <1>8, <4>1
      <4> QED
        BY <4>1, <4>2, MetaType
    <3>2. CASE ~(i + 1 <= n)
      BY <3>2
    <3> QED
      BY <3>1, <3>2
  <2>. HIDE DEF T
  <2>3. \A i \in Nat : i \in T
    BY <2>1, <2>2, NatSetInduction
  <2> QED
    BY <2>3 DEF T
<1>10. run \in [0 .. n -> MStates]
  BY <1>6, <1>9
<1> QED
  BY <1>7, <1>8, <1>10

(* The list opened at l goes on after i characters. *)
InList(t, l, i) == l \in Starts(t) /\ l <= i /\ i < ListEnd(t, l)

ListState(t, l, i) ==
  IF \E k \in Body(t, l) : k <= i THEN "LIST_BODY"
  ELSE IF \E k \in Inversion(t, l) : k <= i THEN "LIST_BEGIN_2" ELSE "LIST_BEGIN"

(* The symbols within a list and outside of all lists *)
ListTag(t, l, i) ==
  IF i \notin t.kept THEN "IGNORE"
  ELSE IF i \in Inversion(t, l) THEN "LIST_INV"
  ELSE IF i = ListEnd(t, l) THEN "LIST_END"
  ELSE IF Is(t, i, "-") /\ \E k \in Body(t, l) : k < i THEN "TEMP_HYPHEN"
  ELSE "LITERAL"

PlainTag(t, i) ==
  IF i \notin t.kept THEN "IGNORE"
  ELSE IF Is(t, i, "[") THEN "LIST_BEGIN"
  ELSE IF Is(t, i, "?") THEN "ANY_CHAR"
  ELSE IF Is(t, i, "*") THEN "ANY_STRING"
  ELSE "LITERAL"

(* What a step of the machine does, state by state *)
LEMMA MetaCases ==
  \A symbol \in {"IGNORE", "LITERAL", "TEMP_NQ"} : \A ch :
    LET nq == symbol = "TEMP_NQ"
    IN  /\ \A s : symbol = "IGNORE" => Meta(s, symbol, ch) = <<"IGNORE", s>>
        /\ symbol # "IGNORE" =>
             /\ Meta("NORMAL", symbol, ch) =
                  IF nq /\ ch = "[" THEN <<"LIST_BEGIN", "LIST_BEGIN">>
                  ELSE IF nq /\ ch = "?" THEN <<"ANY_CHAR", "NORMAL">>
                  ELSE IF nq /\ ch = "*" THEN <<"ANY_STRING", "NORMAL">>
                  ELSE <<"LITERAL", "NORMAL">>
             /\ Meta("LIST_BEGIN", symbol, ch) =
                  IF nq /\ ch \in {"^", "!"} THEN <<"LIST_INV", "LIST_BEGIN_2">>
                  ELSE <<"LITERAL", "LIST_BODY">>
             /\ Meta("LIST_BEGIN_2", symbol, ch) = <<"LITERAL", "LIST_BODY">>
             /\ Meta("LIST_BODY", symbol, ch) =
                  IF nq /\ ch = "]" THEN <<"LIST_END", "NORMAL">>
                  ELSE IF nq /\ ch = "-" THEN <<"TEMP_HYPHEN", "LIST_BODY">>
                  ELSE <<"LITERAL", "LIST_BODY">>
BY DEF Meta

LEMMA ListStep ==
  ASSUME NEW t, IsText(t), NEW sym, IsQuoted(t, sym),
         NEW i \in 1 .. Len(t.ch), NEW l, InList(t, l, i - 1)
  PROVE  Meta(ListState(t, l, i - 1), sym[i], t.ch[i]) =
           <<ListTag(t, l, i), IF i = ListEnd(t, l) THEN "NORMAL" ELSE ListState(t, l, i)>>
<1>. DEFINE n == Len(t.ch)
            s == ListState(t, l, i - 1)
<1>1. n \in Nat /\ i \in Nat /\ l \in 1 .. n /\ l < i
  BY StartsFacts DEF IsText, InList
<1>2. ListEnd(t, l) \in i .. n + 1
  <2>1. ListEnd(t, l) \in l + 1 .. n + 1
    BY <1>1, ListEnds
  <2> QED
    BY <1>1, <2>1 DEF InList
<1>3. i = ListEnd(t, l) <=> i \in Body(t, l) /\ Is(t, i, "]") /\ \E k \in Body(t, l) : k < i
  <2>1. i \in l + 1 .. n /\ i <= ListEnd(t, l)
    BY <1>1, <1>2
  <2> QED
    BY <1>1, <2>1, ListEnds
<1>4. \A k \in Body(t, l) \cup Inversion(t, l) :
        k \in t.kept /\ l < k /\ k \in Int /\ (k <= i - 1 <=> k < i) /\ (k <= i <=> k < i \/ k = i)
  <2>1. \A k \in Body(t, l) \cup Inversion(t, l) : k \in t.kept /\ l < k
    BY BodyFacts, InversionFacts DEF IsText
  <2>2. \A k \in t.kept : k \in Int
    BY <1>1 DEF IsText
  <2> QED
    BY <1>1, <2>1, <2>2
<1>5. sym[i] \in {"IGNORE", "LITERAL", "TEMP_NQ"} /\ (sym[i] = "TEMP_NQ" <=> i \in t.bare)
        /\ (sym[i] = "IGNORE" <=> i \notin t.kept)
  BY DEF IsQuoted, IsText
<1>6. i \in t.kept <=> i \in Body(t, l) \/ i \in Inversion(t, l)
  BY <1>1, <1>4, BodyFacts
<1>7. i \in Body(t, l) => i \notin Inversion(t, l)
  BY BodyFacts
<1>8. s = IF \E k \in Body(t, l) : k < i THEN "LIST_BODY"
          ELSE IF \E k \in Inversion(t, l) : k < i THEN "LIST_BEGIN_2" ELSE "LIST_BEGIN"
  BY <1>4, Zenon DEF ListState
<1>9. ListState(t, l, i) =
        IF \E k \in Body(t, l) : k < i \/ k = i THEN "LIST_BODY"
        ELSE IF \E k \in Inversion(t, l) : k < i \/ k = i THEN "LIST_BEGIN_2" ELSE "LIST_BEGIN"
  BY <1>4, Zenon DEF ListState
<1>10. CASE i \notin t.kept
  <2>1. sym[i] = "IGNORE" /\ Meta(s, sym[i], t.ch[i]) = <<"IGNORE", s>>
    BY <1>5, <1>10, MetaCases
  <2>2. i # ListEnd(t, l) /\ ListTag(t, l, i) = "IGNORE"
    BY <1>3, <1>6, <1>10 DEF ListTag
  <2>3. ListState(t, l, i) = s
    BY <1>6, <1>8, <1>9, <1>10
  <2> QED
    BY <2>1, <2>2, <2>3
<1>11. CASE i \in t.kept /\ \E k \in Body(t, l) : k < i
  <2>1. i \notin Inversion(t, l) /\ i \in Body(t, l)
    BY <1>4, <1>6, <1>11, InversionFacts
  <2>2. s = "LIST_BODY" /\ ListState(t, l, i) = "LIST_BODY"
    BY <1>8, <1>9, <1>11
  <2>3. Meta(s, sym[i], t.ch[i]) =
          IF Is(t, i, "]") THEN <<"LIST_END", "NORMAL">>
          ELSE IF Is(t, i, "-") THEN <<"TEMP_HYPHEN", "LIST_BODY">>
          ELSE <<"LITERAL", "LIST_BODY">>
    BY <1>5, <1>11, <2>2, MetaCases DEF Is
  <2>4. i = ListEnd(t, l) <=> Is(t, i, "]")
    BY <1>3, <1>11, <2>1
  <2> QED
    BY <1>11, <2>1, <2>2, <2>3, <2>4 DEF ListTag
<1>12. CASE i \in t.kept /\ ~(\E k \in Body(t, l) : k < i) /\ \E k \in Inversion(t, l) : k < i
  <2>1. i \notin Inversion(t, l) /\ i \in Body(t, l)
    BY <1>4, <1>6, <1>12, InversionFacts
  <2>2. s = "LIST_BEGIN_2" /\ ListState(t, l, i) = "LIST_BODY"
    BY <1>8, <1>9, <1>12, <2>1
  <2>3. Meta(s, sym[i], t.ch[i]) = <<"LITERAL", "LIST_BODY">>
    BY <1>5, <1>12, <2>2, MetaCases
  <2>4. i # ListEnd(t, l)
    BY <1>3, <1>12
  <2> QED
    BY <1>12, <2>1, <2>2, <2>3, <2>4 DEF ListTag
<1>13. CASE i \in t.kept /\ ~(\E k \in Body(t, l) : k < i) /\ ~\E k \in Inversion(t, l) : k < i
  <2>1. i \in Inversion(t, l) <=> i \in t.bare /\ t.ch[i] \in {"^", "!"}
    <3>1. ASSUME NEW k \in t.kept, l < k, k < i PROVE FALSE
      BY <1>13, <3>1, BodyFacts
    <3> QED
      BY <1>1, <3>1, InversionFacts
  <2>2. s = "LIST_BEGIN"
    BY <1>8, <1>13
  <2>3. ListState(t, l, i) = IF i \in Inversion(t, l) THEN "LIST_BEGIN_2" ELSE "LIST_BODY"
    BY <1>6, <1>7, <1>9, <1>13
  <2>4. Meta(s, sym[i], t.ch[i]) =
          IF i \in Inversion(t, l) THEN <<"LIST_INV", "LIST_BEGIN_2">>
          ELSE <<"LITERAL", "LIST_BODY">>
    BY <1>5, <1>13, <2>1, <2>2, MetaCases
  <2>5. i # ListEnd(t, l)
    BY <1>3, <1>13
  <2> QED
    BY <1>13, <2>3, <2>4, <2>5 DEF ListTag
<1> QED
  BY <1>10, <1>11, <1>12, <1>13

(* The character at i belongs to what follows the opening bracket at l, up to
   the closing one. *)
Within(t, l, i) == l \in Starts(t) /\ l < i /\ i <= ListEnd(t, l)

LEMMA StartTypes ==
  ASSUME NEW t, IsText(t)
  PROVE  /\ Len(t.ch) \in Nat
         /\ \A l \in Starts(t) : l \in 1 .. Len(t.ch) /\ ListEnd(t, l) \in l + 1 .. Len(t.ch) + 1
         /\ \A l, i : i \in Int => (InList(t, l, i - 1) <=> Within(t, l, i))
<1>1. Len(t.ch) \in Nat
  BY DEF IsText
<1>2. \A l \in Starts(t) : l \in 1 .. Len(t.ch) /\ ListEnd(t, l) \in l + 1 .. Len(t.ch) + 1
  BY StartsFacts, ListEnds
<1>3. ASSUME NEW l, NEW i \in Int PROVE InList(t, l, i - 1) <=> Within(t, l, i)
  <2>1. CASE l \in Starts(t)
    BY <1>1, <1>2, <2>1 DEF InList, Within
  <2>2. CASE l \notin Starts(t)
    BY <2>2 DEF InList, Within
  <2> QED
    BY <2>1, <2>2
<1> QED
  BY <1>1, <1>2, <1>3

LEMMA OneList ==
  ASSUME NEW t, IsText(t), NEW l, NEW k, NEW i \in Int, Within(t, l, i), Within(t, k, i)
  PROVE  l = k
<1>1. l \in 1 .. Len(t.ch) /\ k \in 1 .. Len(t.ch) /\ Len(t.ch) \in Nat
        /\ ListEnd(t, l) \in Int /\ ListEnd(t, k) \in Int
  BY StartTypes DEF Within
<1>2. ~(l < k)
  BY <1>1, StartsFacts DEF Within
<1>3. ~(k < l)
  BY <1>1, StartsFacts DEF Within
<1> QED
  BY <1>1, <1>2, <1>3

(* What the state after i characters means *)
ListsInv(t, sym, i) ==
  \/ MetaStates(t.ch, sym)[i] = "NORMAL" /\ \A l \in Starts(t) : ~InList(t, l, i)
  \/ \E l \in Starts(t) : InList(t, l, i) /\ MetaStates(t.ch, sym)[i] = ListState(t, l, i)

LEMMA PlainStep ==
  ASSUME NEW t, IsText(t), NEW sym, IsQuoted(t, sym), NEW i \in 1 .. Len(t.ch)
  PROVE  Meta("NORMAL", sym[i], t.ch[i]) =
           <<PlainTag(t, i), IF Is(t, i, "[") THEN "LIST_BEGIN" ELSE "NORMAL">>
<1>1. sym[i] \in {"IGNORE", "LITERAL", "TEMP_NQ"} /\ (sym[i] = "TEMP_NQ" <=> i \in t.bare)
        /\ (sym[i] = "IGNORE" <=> i \notin t.kept)
  BY DEF IsQuoted, IsText
<1>2. i \in t.bare => i \in t.kept
  BY DEF IsText
<1>3. CASE i \notin t.kept
  <2>1. Meta("NORMAL", sym[i], t.ch[i]) = <<"IGNORE", "NORMAL">>
    BY <1>1, <1>3, MetaCases
  <2> QED
    BY <1>2, <1>3, <2>1 DEF PlainTag, Is
<1>4. CASE i \in t.kept
  <2>1. Meta("NORMAL", sym[i], t.ch[i]) =
          IF Is(t, i, "[") THEN <<"LIST_BEGIN", "LIST_BEGIN">>
          ELSE IF Is(t, i, "?") THEN <<"ANY_CHAR", "NORMAL">>
          ELSE IF Is(t, i, "*") THEN <<"ANY_STRING", "NORMAL">>
          ELSE <<"LITERAL", "NORMAL">>
    BY <1>1, <1>4, MetaCases DEF Is
  <2> QED
    BY <1>4, <2>1 DEF PlainTag
<1> QED
  BY <1>3, <1>4

LEMMA ListsStepOut ==
  ASSUME NEW t, IsText(t), NEW sym, IsQuoted(t, sym), NEW i \in 1 .. Len(t.ch),
         MetaStates(t.ch, sym)[i - 1] = "NORMAL", \A l \in Starts(t) : ~InList(t, l, i - 1)
  PROVE  ListsInv(t, sym, i)
<1>1. Len(t.ch) \in Nat /\ i \in Nat /\ t.ch \in Seq(Chars)
  BY DEF IsText
<1>2. MetaStates(t.ch, sym)[i] = IF Is(t, i, "[") THEN "LIST_BEGIN" ELSE "NORMAL"
  <2>1. MetaStates(t.ch, sym)[i] = Meta("NORMAL", sym[i], t.ch[i])[2]
    BY <1>1, MetaRun
  <2> QED
    BY <2>1, PlainStep
<1>3. \A l \in Starts(t) : l < i => ListEnd(t, l) < i
  BY <1>1, StartTypes DEF InList
<1>4. CASE Is(t, i, "[")
  <2>1. i \in Starts(t)
    BY <1>1, <1>3, <1>4, StartsFacts, StartTypes
  <2>2. InList(t, i, i)
    BY <1>1, <2>1, StartTypes DEF InList
  <2>3. \A k \in Body(t, i) \cup Inversion(t, i) : k \in Int /\ i < k
    BY <1>1, BodyFacts, InversionFacts DEF IsText
  <2>4. ListState(t, i, i) = "LIST_BEGIN"
    BY <1>1, <2>3 DEF ListState
  <2> QED
    BY <1>2, <1>4, <2>1, <2>2, <2>4 DEF ListsInv
<1>5. CASE ~Is(t, i, "[")
  <2>1. i \notin Starts(t)
    BY <1>5, StartsFacts
  <2>2. \A l \in Starts(t) : ~InList(t, l, i)
    BY <1>1, <1>3, <2>1, StartTypes DEF InList
  <2> QED
    BY <1>2, <1>5, <2>2 DEF ListsInv
<1> QED
  BY <1>4, <1>5

LEMMA ListEnded ==
  ASSUME NEW t, IsText(t), NEW l \in Starts(t), NEW i \in 1 .. Len(t.ch),
         Within(t, l, i), i = ListEnd(t, l)
  PROVE  \A k \in Starts(t) : ~InList(t, k, i)
<1>1. i \in Nat /\ l \in Nat /\ l < i
  BY StartTypes DEF Within
<1>2. ASSUME NEW k \in Starts(t), InList(t, k, i) PROVE FALSE
  <2>1. i \notin Starts(t)
    BY <1>1, StartsFacts DEF Within
  <2>2. k \in 1 .. Len(t.ch) /\ ListEnd(t, k) \in Int
    BY StartTypes
  <2>3. Within(t, k, i)
    BY <1>1, <1>2, <2>1, <2>2 DEF InList, Within
  <2>4. k = l
    BY <1>1, <2>3, OneList
  <2> QED
    BY <1>1, <1>2, <2>4 DEF InList
<1> QED
  BY <1>2

LEMMA ListsStepIn ==
  ASSUME NEW t, IsText(t), NEW sym, IsQuoted(t, sym), NEW i \in 1 .. Len(t.ch), NEW l,
         InList(t, l, i - 1), MetaStates(t.ch, sym)[i - 1] = ListState(t, l, i - 1)
  PROVE  ListsInv(t, sym, i)
<1>1. Len(t.ch) \in Nat /\ i \in Nat /\ t.ch \in Seq(Chars)
  BY DEF IsText
<1>2. MetaStates(t.ch, sym)[i] = IF i = ListEnd(t, l) THEN "NORMAL" ELSE ListState(t, l, i)
  <2>1. MetaStates(t.ch, sym)[i] = Meta(ListState(t, l, i - 1), sym[i], t.ch[i])[2]
    BY <1>1, MetaRun
  <2> QED
    BY <2>1, ListStep
<1>3. Within(t, l, i) /\ l \in Starts(t)
  BY <1>1, StartTypes DEF InList
<1>4. CASE i = ListEnd(t, l)
  <2>1. \A k \in Starts(t) : ~InList(t, k, i)
    BY <1>3, <1>4, ListEnded
  <2> QED
    BY <1>2, <1>4, <2>1 DEF ListsInv
<1>5. CASE i # ListEnd(t, l)
  <2>1. InList(t, l, i)
    BY <1>1, <1>3, <1>5, StartTypes DEF InList, Within
  <2> QED
    BY <1>2, <1>3, <1>5, <2>1 DEF ListsInv
<1> QED
  BY <1>4, <1>5

LEMMA ListsInvariant ==
  ASSUME NEW t, IsText(t), NEW sym, IsQuoted(t, sym)
  PROVE  \A i \in 0 .. Len(t.ch) : ListsInv(t, sym, i)
<1>. DEFINE T == {i \in Nat : i <= Len(t.ch) => ListsInv(t, sym, i)}
<1>1. Len(t.ch) \in Nat /\ t.ch \in Seq(Chars)
  BY DEF IsText
<1>2. 0 \in T
  <2>1. \A l \in Starts(t) : ~(l <= 0)
    BY <1>1, StartTypes
  <2>2. MetaStates(t.ch, sym)[0] = "NORMAL"
    BY <1>1, MetaRun
  <2> QED
    BY <2>1, <2>2 DEF ListsInv, InList
<1>3. ASSUME NEW i \in Nat, i \in T PROVE i + 1 \in T
  <2>. SUFFICES ASSUME i + 1 <= Len(t.ch) PROVE ListsInv(t, sym, i + 1)
    OBVIOUS
  <2>1. ListsInv(t, sym, i) /\ i + 1 \in 1 .. Len(t.ch) /\ (i + 1) - 1 = i
    BY <1>1, <1>3
  <2>2. CASE MetaStates(t.ch, sym)[i] = "NORMAL" /\ \A l \in Starts(t) : ~InList(t, l, i)
    BY <2>1, <2>2, ListsStepOut
  <2>3. CASE \E l \in Starts(t) : InList(t, l, i) /\ MetaStates(t.ch, sym)[i] = ListState(t, l, i)
    BY <2>1, <2>3, ListsStepIn
  <2> QED
    BY <2>1, <2>2, <2>3 DEF ListsInv
<1>. HIDE DEF T
<1>4. \A i \in Nat : i \in T
  BY <1>2, <1>3, NatSetInduction
<1> QED
  BY <1>1, <1>4 DEF T

LEMMA ClosedLists ==
  ASSUME NEW t, IsText(t), NEW sym, IsQuoted(t, sym)
  PROVE  Lists(t).closed <=> MetaStates(t.ch, sym)[Len(t.ch)] = "NORMAL"
<1>. DEFINE n == Len(t.ch)
<1>1. n \in Nat /\ n \in 0 .. n
  BY DEF IsText
<1>2. Lists(t).closed <=> \A l \in Starts(t) : ~InList(t, l, n)
  <2>1. Lists(t).closed <=> \A l \in Starts(t) : Lists(t).last[l] <= n
    BY ListsParts, Zenon
  <2>2. ASSUME NEW l \in Starts(t) PROVE Lists(t).last[l] <= n <=> ~InList(t, l, n)
    <3>1. Lists(t).last[l] = ListEnd(t, l)
      BY StartsFacts
    <3> QED
      BY <1>1, <3>1, StartTypes DEF InList
  <2> QED
    BY <2>1, <2>2
<1>3. \A l \in Starts(t) : ListState(t, l, n) # "NORMAL"
  BY DEF ListState
<1> QED
  BY <1>1, <1>2, <1>3, ListsInvariant DEF ListsInv

(* The symbols after the lists have been found *)
IsTagged(t, tags) ==
  \A i \in 1 .. Len(t.ch) :
    /\ \A l \in Starts(t) : Within(t, l, i) => tags[i] = ListTag(t, l, i)
    /\ (\A l \in Starts(t) : ~Within(t, l, i)) => tags[i] = PlainTag(t, i)

LEMMA TaggedIsTagged ==
  ASSUME NEW t, IsText(t), NEW sym, IsQuoted(t, sym)
  PROVE  IsTagged(t, Tagged(t.ch, sym))
<1>. SUFFICES ASSUME NEW i \in 1 .. Len(t.ch)
     PROVE  /\ \A l \in Starts(t) :
                 Within(t, l, i) => Tagged(t.ch, sym)[i] = ListTag(t, l, i)
            /\ (\A l \in Starts(t) : ~Within(t, l, i)) => Tagged(t.ch, sym)[i] = PlainTag(t, i)
  BY DEF IsTagged
<1>1. Len(t.ch) \in Nat /\ i \in Int /\ i - 1 \in 0 .. Len(t.ch)
  BY DEF IsText
<1>2. Tagged(t.ch, sym)[i] = Meta(MetaStates(t.ch, sym)[i - 1], sym[i], t.ch[i])[1]
  BY Zenon DEF Tagged
<1>3. CASE MetaStates(t.ch, sym)[i - 1] = "NORMAL" /\ \A l \in Starts(t) : ~InList(t, l, i - 1)
  <2>1. Tagged(t.ch, sym)[i] = PlainTag(t, i)
    BY <1>2, <1>3, PlainStep
  <2> QED
    BY <1>1, <1>3, <2>1, StartTypes
<1>4. CASE \E l \in Starts(t) :
             InList(t, l, i - 1) /\ MetaStates(t.ch, sym)[i - 1] = ListState(t, l, i - 1)
  <2>1. PICK l \in Starts(t) :
               InList(t, l, i - 1) /\ MetaStates(t.ch, sym)[i - 1] = ListState(t, l, i - 1)
    BY <1>4
  <2>2. Tagged(t.ch, sym)[i] = ListTag(t, l, i)
    BY <1>2, <2>1, ListStep
  <2>3. \A k \in Starts(t) : Within(t, k, i) => k = l
    BY <1>1, <2>1, StartTypes, OneList
  <2>4. Within(t, l, i)
    BY <1>1, <2>1, StartTypes
  <2> QED
    BY <2>2, <2>3, <2>4
<1> QED
  BY <1>1, <1>3, <1>4, ListsInvariant DEF ListsInv

-----------------------------------------------------------------------------
(* Ranges *)

(* From b to j with the hyphen at h *)
IsRange(t, l, b, h, j) ==
  /\ b \in Members(t, l) /\ h \in Members(t, l) /\ j \in Members(t, l)
  /\ Is(t, b, "-") => FirstOf(t, l, b)
  /\ Follows(t, b, h) /\ Is(t, h, "-") /\ Follows(t, h, j)

Limits(t, l) == {b \in Members(t, l) : UpperLimits(t, l, b) # {}}
LimitOf(t, l) == [b \in Limits(t, l) |-> Min(UpperLimits(t, l, b))]
RangesOf(t, l) == Outermost(Limits(t, l), LimitOf(t, l))

LEMMA ListSetParts ==
  ASSUME NEW t, NEW l
  PROVE  ListSet(t, l) =
           {c \in Chars : \E b \in RangesOf(t, l) : rangecmp(t.ch[b], c, t.ch[LimitOf(t, l)[b]])}
             \cup {t.ch[j] : j \in {j \in Members(t, l) :
                       \A b \in RangesOf(t, l) : ~(b <= j /\ j <= LimitOf(t, l)[b])}}
BY Zenon DEF ListSet, RangesOf, LimitOf, Limits

LEMMA MemberFacts ==
  ASSUME NEW t, IsText(t), NEW l \in Starts(t), NEW j \in Members(t, l)
  PROVE  /\ j \in t.kept /\ j \in l + 1 .. Len(t.ch) /\ j < ListEnd(t, l) /\ Within(t, l, j)
         /\ j \in Body(t, l) /\ j \notin Inversion(t, l)
         /\ FirstOf(t, l, j) <=> ~\E k \in Body(t, l) : k < j
<1>1. j \in Body(t, l) /\ j < ListEnd(t, l)
  BY DEF Members
<1>2. j \in t.kept /\ l < j /\ j \notin Inversion(t, l)
  BY <1>1, BodyFacts
<1>3. \A k \in Body(t, l) : k \in Int
  BY BodyFacts DEF IsText
<1>4. l \in 1 .. Len(t.ch) /\ ListEnd(t, l) \in Int /\ Len(t.ch) \in Nat /\ j \in 1 .. Len(t.ch)
  BY <1>2, StartTypes DEF IsText
<1>5. Within(t, l, j)
  BY <1>1, <1>2, <1>4 DEF Within
<1>6. FirstOf(t, l, j) <=> ~\E k \in Body(t, l) : k < j
  BY <1>3, <1>4 DEF FirstOf
<1>7. j \in l + 1 .. Len(t.ch)
  BY <1>2, <1>4
<1> QED
  BY <1>1, <1>2, <1>5, <1>6, <1>7, Zenon

LEMMA FollowsOne ==
  ASSUME NEW t, IsText(t), NEW i \in Int, NEW j \in Int, NEW k \in Int,
         Follows(t, i, j), Follows(t, i, k)
  PROVE  j = k
<1>1. j \in t.kept /\ k \in t.kept /\ i < j /\ i < k
  BY DEF Follows
<1>2. ~(j < k) /\ ~(k < j)
  BY <1>1, Zenon DEF Follows
<1> QED
  BY <1>2

LEMMA UpperLimitFacts ==
  ASSUME NEW t, IsText(t), NEW l \in Starts(t), NEW b \in Members(t, l)
  PROVE  /\ \A j : j \in UpperLimits(t, l, b) <=> \E h : IsRange(t, l, b, h, j)
         /\ \A i, j \in UpperLimits(t, l, b) : i = j
<1>1. \A j : j \in UpperLimits(t, l, b) <=> \E h : IsRange(t, l, b, h, j)
  BY Zenon DEF UpperLimits, IsRange
<1>2. ASSUME NEW i \in UpperLimits(t, l, b), NEW j \in UpperLimits(t, l, b) PROVE i = j
  <2>1. PICK h : IsRange(t, l, b, h, i)
    BY <1>1, <1>2
  <2>2. PICK g : IsRange(t, l, b, g, j)
    BY <1>1, <1>2
  <2>3. h \in Int /\ g \in Int /\ b \in Int /\ i \in Int /\ j \in Int
    BY <2>1, <2>2, MemberFacts, StartTypes DEF IsRange
  <2>4. h = g
    BY <2>1, <2>2, <2>3, FollowsOne DEF IsRange
  <2> QED
    BY <2>1, <2>2, <2>3, <2>4, FollowsOne DEF IsRange
<1> QED
  BY <1>1, <1>2

LEMMA LimitFacts ==
  ASSUME NEW t, IsText(t), NEW l \in Starts(t), NEW b, NEW h, NEW j, IsRange(t, l, b, h, j)
  PROVE  b \in Limits(t, l) /\ LimitOf(t, l)[b] = j
<1>1. b \in Members(t, l)
  BY DEF IsRange
<1>2. j \in UpperLimits(t, l, b) /\ \A i \in UpperLimits(t, l, b) : i = j
  BY <1>1, UpperLimitFacts
<1>3. \A i \in UpperLimits(t, l, b) : i \in Nat
  <2>1. j \in Members(t, l)
    BY DEF IsRange
  <2>2. j \in Nat
    BY <2>1, MemberFacts, StartTypes
  <2> QED
    BY <1>2, <2>2
<1>4. UpperLimits(t, l, b) \subseteq Nat /\ UpperLimits(t, l, b) # {}
  BY <1>2, <1>3
<1>5. Min(UpperLimits(t, l, b)) = j
  BY <1>2, <1>4, MinOf
<1>6. b \in Limits(t, l)
  BY <1>1, <1>4 DEF Limits
<1> QED
  BY <1>5, <1>6 DEF LimitOf

LEMMA RangeFacts ==
  ASSUME NEW t, IsText(t), NEW l \in Starts(t)
  PROVE  /\ \A b \in RangesOf(t, l) : \E h : IsRange(t, l, b, h, LimitOf(t, l)[b])
         /\ \A b \in Limits(t, l) :
              b \in RangesOf(t, l) <=>
                \A a \in RangesOf(t, l) : ~(a < b /\ b <= LimitOf(t, l)[a])
<1>1. IsOutermost(RangesOf(t, l), Limits(t, l), LimitOf(t, l))
  <2>1. \A b \in Limits(t, l) : b \in 1 .. Len(t.ch)
    BY MemberFacts, StartTypes DEF Limits
  <2>2. Len(t.ch) \in Nat /\ Limits(t, l) \in SUBSET (1 .. Len(t.ch))
    BY <2>1, StartTypes
  <2> QED
    BY <2>2, OutermostExists DEF RangesOf
<1>2. ASSUME NEW b \in RangesOf(t, l) PROVE \E h : IsRange(t, l, b, h, LimitOf(t, l)[b])
  <2>1. b \in Limits(t, l)
    BY <1>1 DEF IsOutermost
  <2>2. PICK j : j \in UpperLimits(t, l, b)
    BY <2>1 DEF Limits
  <2>3. b \in Members(t, l)
    BY <2>1 DEF Limits
  <2>4. PICK h : IsRange(t, l, b, h, j)
    BY <2>2, <2>3, UpperLimitFacts
  <2>5. LimitOf(t, l)[b] = j
    BY <2>4, LimitFacts
  <2> QED
    BY <2>4, <2>5
<1> QED
  BY <1>1, <1>2 DEF IsOutermost

(* The final symbol of a character in the list opened at l *)
RangeSym(t, l, j) ==
  IF j \in RangesOf(t, l) THEN "RANGE_FROM"
  ELSE IF \E b \in RangesOf(t, l) : j = LimitOf(t, l)[b] THEN "RANGE_TO"
  ELSE IF \E b \in RangesOf(t, l) : b < j /\ j < LimitOf(t, l)[b] THEN "IGNORE"
  ELSE "LITERAL"

(* The ranges that start before i end before it. *)
EndBefore(t, l, i) == \A b \in RangesOf(t, l) : b < i => LimitOf(t, l)[b] < i

LEMMA RangeTypes ==
  ASSUME NEW t, IsText(t), NEW l \in Starts(t)
  PROVE  /\ RangesOf(t, l) \subseteq Members(t, l)
         /\ \A b \in Members(t, l) : b \in Nat
         /\ \A b \in RangesOf(t, l) :
              /\ b \in Nat /\ LimitOf(t, l)[b] \in Members(t, l) /\ LimitOf(t, l)[b] \in Nat
              /\ b < LimitOf(t, l)[b]
<1>1. \A b \in Members(t, l) : b \in Nat
  BY MemberFacts, StartTypes
<1>2. ASSUME NEW b \in RangesOf(t, l)
      PROVE  /\ b \in Members(t, l) /\ LimitOf(t, l)[b] \in Members(t, l)
             /\ b < LimitOf(t, l)[b]
  <2>1. PICK h : IsRange(t, l, b, h, LimitOf(t, l)[b])
    BY RangeFacts
  <2>2. /\ b \in Members(t, l) /\ h \in Members(t, l) /\ LimitOf(t, l)[b] \in Members(t, l)
        /\ b < h /\ h < LimitOf(t, l)[b]
    BY <2>1 DEF IsRange, Follows
  <2>3. b \in Nat /\ h \in Nat /\ LimitOf(t, l)[b] \in Nat
    BY <1>1, <2>2
  <2> QED
    BY <2>2, <2>3
<1> QED
  BY <1>1, <1>2

LEMMA LiteralSym ==
  ASSUME NEW t, IsText(t), NEW l \in Starts(t), NEW j \in Members(t, l),
         j \notin RangesOf(t, l), EndBefore(t, l, j)
  PROVE  RangeSym(t, l, j) = "LITERAL"
<1>1. j \in Nat /\ \A b \in RangesOf(t, l) :
        b \in Nat /\ LimitOf(t, l)[b] \in Nat /\ b < LimitOf(t, l)[b]
  BY RangeTypes
<1>2. ~\E b \in RangesOf(t, l) : j = LimitOf(t, l)[b]
  BY <1>1 DEF EndBefore
<1>3. ~\E b \in RangesOf(t, l) : b < j /\ j < LimitOf(t, l)[b]
  BY <1>1 DEF EndBefore
<1> QED
  BY <1>2, <1>3 DEF RangeSym

LEMMA RangeSyms ==
  ASSUME NEW t, IsText(t), NEW l \in Starts(t), NEW b, NEW h, NEW j,
         IsRange(t, l, b, h, j), EndBefore(t, l, b)
  PROVE  /\ b \in RangesOf(t, l) /\ LimitOf(t, l)[b] = j
         /\ RangeSym(t, l, b) = "RANGE_FROM"
         /\ RangeSym(t, l, h) = "IGNORE"
         /\ RangeSym(t, l, j) = "RANGE_TO"
         /\ EndBefore(t, l, j + 1)
<1>. DEFINE R == RangesOf(t, l)
            last == LimitOf(t, l)
<1>1. /\ b \in Members(t, l) /\ h \in Members(t, l) /\ j \in Members(t, l)
      /\ Follows(t, b, h) /\ Follows(t, h, j) /\ b < h /\ h < j
  BY DEF IsRange, Follows
<1>2. b \in Nat /\ h \in Nat /\ j \in Nat
  BY <1>1, RangeTypes
<1>3. \A a \in R : a \in Nat /\ last[a] \in Nat /\ a < last[a] /\ a \in t.kept
  BY RangeTypes, MemberFacts
<1>4. b \in Limits(t, l) /\ last[b] = j
  BY LimitFacts
<1>5. b \in R
  BY <1>2, <1>3, <1>4, RangeFacts DEF EndBefore
<1>6. \A a \in R : a < b => last[a] < b
  BY DEF EndBefore
<1>7. ASSUME NEW a \in R, b < a PROVE j < a
  <2>1. a \in Limits(t, l)
    <3>1. PICK g : IsRange(t, l, a, g, last[a])
      BY RangeFacts
    <3> QED
      BY <3>1, LimitFacts
  <2>2. ~(b < a /\ a <= last[b])
    BY <1>5, <2>1, RangeFacts
  <2> QED
    BY <1>2, <1>3, <1>4, <1>7, <2>2
<1>8. \A a \in R : a = b \/ (a < b /\ last[a] < b) \/ (j < a /\ j < last[a])
  <2>. TAKE a \in R
  <2>1. a \in Nat /\ last[a] \in Nat /\ a < last[a]
    BY <1>3
  <2>2. a < b => last[a] < b
    BY <1>6
  <2>3. b < a => j < a
    BY <1>7
  <2>. HIDE DEF last
  <2> QED
    BY <1>2, <2>1, <2>2, <2>3
<1>9. h \notin R /\ j \notin R
  BY <1>1, <1>2, <1>3, <1>8
<1>10. ~\E a \in R : h = last[a]
  BY <1>1, <1>2, <1>3, <1>4, <1>8
<1>11. EndBefore(t, l, j + 1)
  BY <1>1, <1>2, <1>3, <1>4, <1>8 DEF EndBefore
<1>12. b < h /\ h < last[b]
  BY <1>1, <1>4
<1> QED
  BY <1>4, <1>5, <1>9, <1>10, <1>11, <1>12 DEF RangeSym

Symbols == {"IGNORE", "LITERAL", "ANY_CHAR", "ANY_STRING", "LIST_BEGIN", "LIST_INV",
            "LIST_END", "TEMP_HYPHEN", "RANGE_FROM", "RANGE_TO"}

RunStates(n) == [sym : [1 .. n -> Symbols], state : {"NORMAL", "LIST", "RANGE1", "RANGE2"},
                 from : Nat, hyphen : Nat]

LEMMA Range1Type ==
  ASSUME NEW n \in Nat, NEW p \in RunStates(n), NEW i \in 1 .. n
  PROVE  Range1(p, i) \in RunStates(n)
<1>1. p.sym \in [1 .. n -> Symbols] /\ p.from \in Nat /\ p.hyphen \in Nat /\ i \in Nat
  BY DEF RunStates
<1>2. [p EXCEPT !.state = "NORMAL", !.sym[p.hyphen] = "LITERAL"] \in RunStates(n)
  BY <1>1 DEF RunStates, Symbols
<1>3. AfterRange([p EXCEPT !.sym[p.from] = "RANGE_FROM", !.sym[p.hyphen] = "IGNORE",
                           !.sym[i] = "RANGE_TO"], i) \in RunStates(n)
  BY <1>1 DEF RunStates, Symbols, AfterRange
<1>4. [p EXCEPT !.sym[i] = "LITERAL"] \in RunStates(n)
  BY <1>1 DEF RunStates, Symbols
<1>5. /\ [p EXCEPT !.state = "LIST"] \in RunStates(n)
      /\ [p EXCEPT !.state = "NORMAL"] \in RunStates(n)
      /\ [p EXCEPT !.from = i, !.state = "RANGE1"] \in RunStates(n)
      /\ [p EXCEPT !.hyphen = i, !.state = "RANGE2"] \in RunStates(n)
  BY <1>1 DEF RunStates
<1> QED
  BY <1>2, <1>3, <1>4, <1>5, Zenon DEF Range1

(* The state machine for ranges, step by step *)
LEMMA RangesRun ==
  ASSUME NEW e \in Seq(Chars), NEW tags \in [1 .. Len(e) -> Symbols]
  PROVE  \E run \in [0 .. Len(e) -> RunStates(Len(e))] :
           /\ run[0] = [sym |-> tags, state |-> "NORMAL", from |-> 1, hyphen |-> 1]
           /\ \A i \in 1 .. Len(e) : run[i] = Range1(run[i - 1], i)
           /\ Ranges(e, tags) = run[Len(e)].sym
<1>. DEFINE n == Len(e)
            S == RunStates(n)
            a == [sym |-> tags, state |-> "NORMAL", from |-> 1, hyphen |-> 1]
            F == [i \in 1 .. n |-> [p \in S |-> Range1(p, i)]]
            IsRun(g) == g = [i \in 0 .. n |->
                               IF i = 0
                               THEN [sym |-> tags, state |-> "NORMAL", from |-> 1, hyphen |-> 1]
                               ELSE Range1(g[i - 1], i)]
            run == CHOOSE g : IsRun(g)
<1>1. n \in Nat
  OBVIOUS
<1>2. a \in S
  BY DEF RunStates
<1>3. F \in [1 .. n -> [S -> S]]
  BY <1>1, Range1Type
<1>4. PICK g \in [0 .. n -> S] : g[0] = a /\ \A i \in 1 .. n : g[i] = F[i][g[i - 1]]
  <2>. HIDE DEF F, a
  <2>1. \E g \in [0 .. n -> S] : Iterated(g, n, a, F)
    BY <1>1, <1>2, <1>3, RunExists
  <2> QED
    BY <2>1 DEF Iterated
<1>5. ASSUME NEW i \in 1 .. n
      PROVE  i - 1 \in 0 .. n /\ g[i] = Range1(g[i - 1], i)
  <2>1. i - 1 \in 0 .. n
    BY <1>1
  <2>2. g[i - 1] \in S
    BY <1>4, <2>1
  <2> QED
    BY <1>4, <2>1, <2>2
<1>6. IsRun(g)
  BY <1>1, <1>4, <1>5
<1>7. IsRun(run)
  BY <1>6
<1>8. Ranges(e, tags) = run[n].sym
  BY DEF Ranges
<1>. HIDE DEF run
<1>9. run[0] = a /\ \A i \in 1 .. n : run[i] = Range1(run[i - 1], i)
  BY <1>1, <1>7
<1>10. \A i \in 0 .. n : run[i] \in S
  <2>. DEFINE T == {i \in Nat : i <= n => run[i] \in S}
  <2>1. 0 \in T
    BY <1>2, <1>9
  <2>2. ASSUME NEW i \in Nat, i \in T PROVE i + 1 \in T
    <3>1. CASE i + 1 <= n
      <4>1. i + 1 \in 1 .. n /\ (i + 1) - 1 = i /\ run[i] \in S
        BY <1>1, <2>2, <3>1
      <4>2. run[i + 1] = Range1(run[i], i + 1)
        BY <1>9, <4>1
      <4> QED
        BY <1>1, <4>1, <4>2, Range1Type
    <3>2. CASE ~(i + 1 <= n)
      BY <3>2
    <3> QED
      BY <3>1, <3>2
  <2>. HIDE DEF T
  <2>3. \A i \in Nat : i \in T
    BY <2>1, <2>2, NatSetInduction
  <2> QED
    BY <2>3 DEF T
<1>11. run \in [0 .. n -> S]
  BY <1>7, <1>10
<1> QED
  BY <1>8, <1>9, <1>11

(* What a step of the machine does, case by case *)
LEMMA Range1Cases ==
  ASSUME NEW n \in Nat, NEW p \in RunStates(n), NEW i \in 1 .. n
  PROVE  LET s == p.sym[i]
             q == Range1(p, i)
         IN  /\ p.state = "NORMAL" /\ s # "IGNORE" =>
                  q.sym = p.sym /\ q.state = IF s = "LIST_BEGIN" THEN "LIST" ELSE "NORMAL"
             /\ p.state \in {"LIST", "RANGE1"} /\ s = "LIST_END" =>
                  q.sym = p.sym /\ q.state = "NORMAL"
             /\ p.state = "RANGE2" /\ s = "LIST_END" =>
                  /\ \A j \in 1 .. n :
                       q.sym[j] = IF j = p.hyphen THEN "LITERAL" ELSE p.sym[j]
                  /\ q.state = "NORMAL"
             /\ p.state \in {"LIST", "RANGE1"} /\ s = "LITERAL" =>
                  q.sym = p.sym /\ q.state = "RANGE1" /\ q.from = i
             /\ p.state = "LIST" /\ s = "TEMP_HYPHEN" =>
                  /\ \A j \in 1 .. n : q.sym[j] = IF j = i THEN "LITERAL" ELSE p.sym[j]
                  /\ q.state = "LIST"
             /\ p.state = "RANGE1" /\ s = "TEMP_HYPHEN" =>
                  /\ q.sym = p.sym /\ q.state = "RANGE2"
                  /\ q.from = p.from /\ q.hyphen = i
             /\ p.state = "RANGE2" /\ s \notin {"IGNORE", "LIST_END"} =>
                  /\ \A j \in 1 .. n :
                       q.sym[j] = IF j = i THEN "RANGE_TO" ELSE IF j = p.hyphen THEN "IGNORE"
                                  ELSE IF j = p.from THEN "RANGE_FROM" ELSE p.sym[j]
                  /\ q.state = "LIST"
<1>. DEFINE s == p.sym[i]
            q == Range1(p, i)
<1>1. p.sym \in [1 .. n -> Symbols] /\ DOMAIN p = {"sym", "state", "from", "hyphen"}
  BY DEF RunStates
<1>3. p.state = "NORMAL" /\ s # "IGNORE" =>
        q.sym = p.sym /\ q.state = IF s = "LIST_BEGIN" THEN "LIST" ELSE "NORMAL"
  BY <1>1 DEF Range1
<1>5. p.state \in {"LIST", "RANGE1"} /\ s = "LIST_END" =>
        q.sym = p.sym /\ q.state = "NORMAL"
  BY <1>1 DEF Range1
<1>6. p.state = "RANGE2" /\ s = "LIST_END" =>
        /\ \A j \in 1 .. n : q.sym[j] = IF j = p.hyphen THEN "LITERAL" ELSE p.sym[j]
        /\ q.state = "NORMAL"
  BY <1>1 DEF Range1
<1>7. p.state \in {"LIST", "RANGE1"} /\ s = "LITERAL" =>
        q.sym = p.sym /\ q.state = "RANGE1" /\ q.from = i
  BY <1>1 DEF Range1
<1>8. p.state = "LIST" /\ s = "TEMP_HYPHEN" =>
        /\ \A j \in 1 .. n : q.sym[j] = IF j = i THEN "LITERAL" ELSE p.sym[j]
        /\ q.state = "LIST"
  BY <1>1 DEF Range1
<1>9. p.state = "RANGE1" /\ s = "TEMP_HYPHEN" =>
        q.sym = p.sym /\ q.state = "RANGE2" /\ q.from = p.from /\ q.hyphen = i
  BY <1>1 DEF Range1
<1>10. p.state = "RANGE2" /\ s \notin {"IGNORE", "LIST_END"} =>
         /\ \A j \in 1 .. n :
              q.sym[j] = IF j = i THEN "RANGE_TO" ELSE IF j = p.hyphen THEN "IGNORE"
                         ELSE IF j = p.from THEN "RANGE_FROM" ELSE p.sym[j]
         /\ q.state = "LIST"
  BY <1>1 DEF Range1, AfterRange
<1> QED
  BY <1>3, <1>5, <1>6, <1>7, <1>8, <1>9, <1>10

(* Characters whose symbols depend on what follows *)
Awaits(p, j) ==
  \/ p.state \in {"RANGE1", "RANGE2"} /\ j = p.from
  \/ p.state = "RANGE2" /\ j = p.hyphen

(* After i characters, no other symbol has been changed, *)
Untouched(t, tags, p, i) ==
  \A j \in 1 .. Len(t.ch) :
    (i < j \/ \A l \in Starts(t) : j \notin Members(t, l)) => p.sym[j] = tags[j]

(* and these are final. *)
Settled(t, p, i, l) ==
  \A j \in Members(t, l) : j <= i /\ ~Awaits(p, j) => p.sym[j] = RangeSym(t, l, j)

(* p.from may be the lower limit of a range. *)
Lower(t, l, p) ==
  /\ p.from \in Members(t, l) /\ p.sym[p.from] = "LITERAL"
  /\ Is(t, p.from, "-") => FirstOf(t, l, p.from)
  /\ EndBefore(t, l, p.from)

RangeState(t, l, i, p) ==
  \/ p.state = "LIST" /\ EndBefore(t, l, i + 1)
  \/ /\ p.state = "RANGE1" /\ Lower(t, l, p)
     /\ p.from <= i /\ \A k \in t.kept : ~(p.from < k /\ k <= i)
  \/ /\ p.state = "RANGE2" /\ Lower(t, l, p)
     /\ p.hyphen \in Members(t, l) /\ Follows(t, p.from, p.hyphen) /\ Is(t, p.hyphen, "-")
     /\ p.hyphen <= i /\ \A k \in t.kept : ~(p.hyphen < k /\ k <= i)

(* What the state after i characters means *)
RangesInv(t, tags, p, i) ==
  /\ Untouched(t, tags, p, i)
  /\ \A l \in Starts(t) : Settled(t, p, i, l)
  /\ \/ p.state = "NORMAL" /\ \A l \in Starts(t) : ~InList(t, l, i)
     \/ \E l \in Starts(t) : InList(t, l, i) /\ RangeState(t, l, i, p)

LEMMA RangesStepOut ==
  ASSUME NEW t, IsText(t), NEW tags, IsTagged(t, tags),
         NEW p \in RunStates(Len(t.ch)), NEW i \in 1 .. Len(t.ch),
         RangesInv(t, tags, p, i - 1),
         p.state = "NORMAL", \A l \in Starts(t) : ~InList(t, l, i - 1)
  PROVE  RangesInv(t, tags, Range1(p, i), i)
<1>. DEFINE n == Len(t.ch)
            q == Range1(p, i)
<1>1. n \in Nat /\ i \in Nat
  BY StartTypes
<1>2. \A l \in Starts(t) : ~Within(t, l, i)
  BY <1>1, StartTypes
<1>3. p.sym[i] = PlainTag(t, i)
  <2>1. p.sym[i] = tags[i]
    BY <1>1 DEF RangesInv, Untouched
  <2> QED
    BY <1>2, <2>1 DEF IsTagged
<1>4. p.sym[i] = "LIST_BEGIN" <=> Is(t, i, "[")
  <2>1. i \in t.bare => i \in t.kept
    BY DEF IsText
  <2> QED
    BY <1>3, <2>1 DEF PlainTag, Is
<1>5. q.sym = p.sym /\ q.state = IF Is(t, i, "[") THEN "LIST" ELSE "NORMAL"
  <2>1. CASE p.sym[i] = "IGNORE"
    <3>1. q = p
      BY <2>1 DEF Range1
    <3> QED
      BY <1>4, <2>1, <3>1
  <2>2. CASE p.sym[i] # "IGNORE"
    BY <1>1, <1>4, <2>2, Range1Cases
  <2> QED
    BY <2>1, <2>2
<1>6. \A l \in Starts(t) : i \notin Members(t, l)
  BY <1>2, MemberFacts
<1>7. Untouched(t, tags, q, i)
  BY <1>1, <1>5 DEF RangesInv, Untouched
<1>8. ASSUME NEW l \in Starts(t) PROVE Settled(t, q, i, l)
  <2>1. \A j \in Members(t, l) : j <= i => j <= i - 1
    BY <1>1, <1>6, RangeTypes
  <2>2. \A j : ~Awaits(p, j)
    BY DEF Awaits
  <2> QED
    BY <1>5, <2>1, <2>2 DEF RangesInv, Settled
<1>9. \A l \in Starts(t) : l < i => ListEnd(t, l) < i
  BY <1>1, <1>2, StartTypes DEF Within
<1>10. CASE Is(t, i, "[")
  <2>1. i \in Starts(t)
    BY <1>1, <1>9, <1>10, StartsFacts, StartTypes
  <2>2. InList(t, i, i)
    BY <1>1, <2>1, StartTypes DEF InList
  <2>3. EndBefore(t, i, i + 1)
    <3>1. \A b \in RangesOf(t, i) : b \in Nat /\ i < b
      BY <1>1, <2>1, RangeTypes, MemberFacts
    <3> QED
      BY <1>1, <3>1 DEF EndBefore
  <2> QED
    BY <1>5, <1>7, <1>8, <1>10, <2>1, <2>2, <2>3 DEF RangesInv, RangeState
<1>11. CASE ~Is(t, i, "[")
  <2>1. i \notin Starts(t)
    BY <1>11, StartsFacts
  <2>2. \A l \in Starts(t) : ~InList(t, l, i)
    BY <1>1, <1>9, <2>1, StartTypes DEF InList
  <2> QED
    BY <1>5, <1>7, <1>8, <1>11, <2>2 DEF RangesInv
<1> QED
  BY <1>10, <1>11

(* A step within a list changes nothing outside of it. *)
LEMMA RangesFrame ==
  ASSUME NEW t, IsText(t), NEW tags, IsTagged(t, tags),
         NEW p \in RunStates(Len(t.ch)), NEW i \in 1 .. Len(t.ch),
         RangesInv(t, tags, p, i - 1),
         NEW l \in Starts(t), InList(t, l, i - 1), RangeState(t, l, i - 1, p),
         NEW q,
         \A j \in 1 .. Len(t.ch) : j \notin Members(t, l) \/ i < j => q.sym[j] = p.sym[j],
         Settled(t, q, i, l)
  PROVE  Untouched(t, tags, q, i) /\ \A k \in Starts(t) : Settled(t, q, i, k)
<1>1. Len(t.ch) \in Nat /\ i \in Nat
  BY StartTypes
<1>2. Untouched(t, tags, q, i)
  BY <1>1 DEF RangesInv, Untouched
<1>3. ASSUME NEW k \in Starts(t), k # l PROVE Settled(t, q, i, k)
  <2>1. ASSUME NEW j \in Members(t, k) PROVE j \notin Members(t, l) /\ j # i /\ j \in 1 .. Len(t.ch)
    <3>1. Within(t, l, i)
      BY <1>1, StartTypes
    <3>2. Within(t, k, j) /\ j \in 1 .. Len(t.ch)
      BY <1>1, <2>1, MemberFacts, StartTypes
    <3>3. j \in Members(t, l) => Within(t, l, j)
      BY MemberFacts
    <3> QED
      BY <1>1, <1>3, <3>1, <3>2, <3>3, OneList
  <2>2. \A j : Awaits(p, j) => j \in Members(t, l)
    BY DEF Awaits, RangeState, Lower
  <2>3. Settled(t, p, i - 1, k)
    BY DEF RangesInv
  <2> QED
    BY <1>1, <2>1, <2>2, <2>3 DEF Settled
<1> QED
  BY <1>2, <1>3

LEMMA RangesStepSkip ==
  ASSUME NEW t, IsText(t), NEW tags, IsTagged(t, tags),
         NEW p \in RunStates(Len(t.ch)), NEW i \in 1 .. Len(t.ch),
         RangesInv(t, tags, p, i - 1),
         NEW l \in Starts(t), InList(t, l, i - 1), RangeState(t, l, i - 1, p),
         i \notin Members(t, l), i # ListEnd(t, l)
  PROVE  RangesInv(t, tags, Range1(p, i), i)
<1>. DEFINE n == Len(t.ch)
            q == Range1(p, i)
<1>1. n \in Nat /\ i \in Nat /\ l \in 1 .. n /\ ListEnd(t, l) \in Nat
  BY StartTypes
<1>2. Within(t, l, i) /\ l < i /\ i < ListEnd(t, l)
  <2>1. Within(t, l, i)
    BY <1>1, StartTypes
  <2>2. l < i /\ i <= ListEnd(t, l)
    BY <2>1 DEF Within
  <2> QED
    BY <1>1, <2>1, <2>2
<1>3. p.sym[i] = ListTag(t, l, i)
  <2>1. p.sym[i] = tags[i]
    BY <1>1 DEF RangesInv, Untouched
  <2> QED
    BY <1>2, <2>1 DEF IsTagged
<1>4. i \notin t.kept \/ i \in Inversion(t, l)
  BY <1>2, BodyFacts DEF Members
<1>5. p.state \in {"RANGE1", "RANGE2"} => i \notin Inversion(t, l)
  <2>1. SUFFICES ASSUME p.state \in {"RANGE1", "RANGE2"} PROVE i \notin Inversion(t, l)
    OBVIOUS
  <2>2. p.from \in Members(t, l) /\ p.from <= i - 1
    <3>1. CASE p.state = "RANGE1"
      BY <3>1 DEF RangeState, Lower
    <3>2. CASE p.state = "RANGE2"
      <4>1. p.from \in Members(t, l) /\ p.hyphen \in Members(t, l) /\ p.from < p.hyphen
              /\ p.hyphen <= i - 1
        BY <3>2 DEF RangeState, Lower, Follows
      <4> QED
        BY <1>1, <4>1, RangeTypes
    <3> QED
      BY <2>1, <3>1, <3>2
  <2>3. p.from \in t.kept /\ l < p.from /\ p.from < i
    BY <1>1, <2>2, MemberFacts, RangeTypes
  <2> QED
    BY <2>3, InversionFacts
<1>6. q = p
  <2>1. CASE i \notin t.kept
    <3>1. p.sym[i] = "IGNORE"
      BY <1>3, <2>1 DEF ListTag
    <3> QED
      BY <3>1 DEF Range1
  <2>2. CASE i \in t.kept
    <3>1. p.sym[i] = "LIST_INV"
      BY <1>3, <1>4, <2>2 DEF ListTag
    <3>2. p.state = "LIST"
      BY <1>4, <1>5, <2>2 DEF RangeState
    <3> QED
      BY <3>1, <3>2 DEF Range1
  <2> QED
    BY <2>1, <2>2
<1>7. Settled(t, p, i, l)
  <2>1. \A j \in Members(t, l) : j <= i => j <= i - 1
    BY <1>1, RangeTypes
  <2> QED
    BY <2>1 DEF RangesInv, Settled
<1>8. Untouched(t, tags, p, i) /\ \A k \in Starts(t) : Settled(t, p, i, k)
  BY <1>7, RangesFrame
<1>9. InList(t, l, i)
  BY <1>1, <1>2 DEF InList
<1>10. RangeState(t, l, i, p)
  <2>1. CASE p.state = "LIST"
    <3>1. \A b \in RangesOf(t, l) : b \in Nat /\ LimitOf(t, l)[b] \in Nat /\ b # i
      BY RangeTypes
    <3>2. EndBefore(t, l, (i - 1) + 1)
      BY <2>1 DEF RangeState
    <3>3. EndBefore(t, l, i + 1)
      BY <1>1, <3>1, <3>2 DEF EndBefore
    <3> QED
      BY <2>1, <3>3 DEF RangeState
  <2>2. CASE p.state = "RANGE1"
    <3>1. i \notin t.kept
      BY <1>4, <1>5, <2>2
    <3>2. Lower(t, l, p) /\ p.from <= i - 1 /\ \A k \in t.kept : ~(p.from < k /\ k <= i - 1)
      BY <2>2 DEF RangeState
    <3>3. p.from \in Nat /\ \A k \in t.kept : k \in Nat
      BY <1>1, <3>2, RangeTypes DEF Lower, IsText
    <3>4. p.from <= i /\ \A k \in t.kept : ~(p.from < k /\ k <= i)
      BY <1>1, <3>1, <3>2, <3>3
    <3> QED
      BY <2>2, <3>2, <3>4 DEF RangeState
  <2>3. CASE p.state = "RANGE2"
    <3>1. i \notin t.kept
      BY <1>4, <1>5, <2>3
    <3>2. /\ Lower(t, l, p) /\ p.hyphen \in Members(t, l) /\ Follows(t, p.from, p.hyphen)
          /\ Is(t, p.hyphen, "-")
          /\ p.hyphen <= i - 1 /\ \A k \in t.kept : ~(p.hyphen < k /\ k <= i - 1)
      BY <2>3 DEF RangeState
    <3>3. p.hyphen \in Nat /\ \A k \in t.kept : k \in Nat
      BY <1>1, <3>2, RangeTypes DEF IsText
    <3>4. p.hyphen <= i /\ \A k \in t.kept : ~(p.hyphen < k /\ k <= i)
      BY <1>1, <3>1, <3>2, <3>3
    <3> QED
      BY <2>3, <3>2, <3>4 DEF RangeState
  <2> QED
    BY <2>1, <2>2, <2>3 DEF RangeState
<1> QED
  BY <1>6, <1>8, <1>9, <1>10 DEF RangesInv

(* No range starts at p.from if its hyphen or its upper limit is missing. *)
LEMMA NoRange ==
  ASSUME NEW t, IsText(t), NEW l \in Starts(t), NEW b \in Members(t, l),
         \A h, j : ~IsRange(t, l, b, h, j), EndBefore(t, l, b)
  PROVE  /\ b \notin RangesOf(t, l)
         /\ RangeSym(t, l, b) = "LITERAL"
         /\ \A i \in Nat : b < i /\ (\A k \in t.kept : ~(b < k /\ k < i)) => EndBefore(t, l, i)
<1>1. b \notin RangesOf(t, l)
  BY RangeFacts
<1>2. RangeSym(t, l, b) = "LITERAL"
  BY <1>1, LiteralSym
<1>3. ASSUME NEW i \in Nat, b < i, \A k \in t.kept : ~(b < k /\ k < i)
      PROVE  EndBefore(t, l, i)
  <2>. SUFFICES ASSUME NEW a \in RangesOf(t, l), a < i PROVE LimitOf(t, l)[a] < i
    BY DEF EndBefore
  <2>1. a \in Members(t, l) /\ a \in Nat /\ b \in Nat /\ LimitOf(t, l)[a] \in Nat /\ a \in t.kept
    BY RangeTypes, MemberFacts
  <2>2. a # b /\ ~(b < a)
    BY <1>1, <1>3, <2>1
  <2>3. LimitOf(t, l)[a] < b
    BY <2>1, <2>2 DEF EndBefore
  <2> QED
    BY <1>3, <2>1, <2>3
<1> QED
  BY <1>1, <1>2, <1>3

LEMMA RangesStepEnd ==
  ASSUME NEW t, IsText(t), NEW tags, IsTagged(t, tags),
         NEW p \in RunStates(Len(t.ch)), NEW i \in 1 .. Len(t.ch),
         RangesInv(t, tags, p, i - 1),
         NEW l \in Starts(t), InList(t, l, i - 1), RangeState(t, l, i - 1, p),
         i = ListEnd(t, l)
  PROVE  RangesInv(t, tags, Range1(p, i), i)
<1>. DEFINE n == Len(t.ch)
            q == Range1(p, i)
<1>1. n \in Nat /\ i \in Nat /\ l \in 1 .. n
  BY StartTypes
<1>2. Within(t, l, i) /\ l < i
  BY <1>1, StartTypes DEF Within
<1>3. p.sym[i] = "LIST_END"
  <2>1. p.sym[i] = tags[i]
    BY <1>1 DEF RangesInv, Untouched
  <2>2. i \in t.kept /\ i \notin Inversion(t, l)
    <3>1. i \in l + 1 .. n /\ i <= ListEnd(t, l)
      BY <1>1, <1>2
    <3>2. i \in Body(t, l)
      BY <1>1, <3>1, ListEnds
    <3> QED
      BY <3>2, BodyFacts
  <2> QED
    BY <1>2, <2>1, <2>2 DEF IsTagged, ListTag
<1>4. \A j \in Members(t, l) : j \in 1 .. n /\ j \in t.kept /\ j < i /\ j <= i - 1
  BY <1>1, RangeTypes, MemberFacts
<1>5. p.sym \in [1 .. n -> Symbols] /\ Settled(t, p, i - 1, l)
  BY DEF RunStates, RangesInv
<1>6. /\ q.state = "NORMAL" /\ Settled(t, q, i, l)
      /\ \A j \in 1 .. n : j \notin Members(t, l) \/ i < j => q.sym[j] = p.sym[j]
  <2>1. CASE p.state = "LIST"
    <3>1. q.sym = p.sym /\ q.state = "NORMAL"
      BY <1>1, <1>3, <2>1, Range1Cases
    <3>2. \A j : ~Awaits(p, j)
      BY <2>1 DEF Awaits
    <3> QED
      BY <1>4, <1>5, <3>1, <3>2 DEF Settled
  <2>2. CASE p.state = "RANGE1"
    <3>1. q.sym = p.sym /\ q.state = "NORMAL"
      BY <1>1, <1>3, <2>2, Range1Cases
    <3>2. Lower(t, l, p) /\ \A k \in t.kept : ~(p.from < k /\ k <= i - 1)
      BY <2>2 DEF RangeState
    <3>3. \A h, j : ~IsRange(t, l, p.from, h, j)
      BY <1>4, <3>2 DEF IsRange, Follows
    <3>4. RangeSym(t, l, p.from) = "LITERAL" /\ p.sym[p.from] = "LITERAL"
      BY <3>2, <3>3, NoRange DEF Lower
    <3>5. \A j : Awaits(p, j) => j = p.from
      BY <2>2 DEF Awaits
    <3> QED
      BY <1>4, <1>5, <3>1, <3>4, <3>5 DEF Settled
  <2>3. CASE p.state = "RANGE2"
    <3>1. /\ \A j \in 1 .. n : q.sym[j] = IF j = p.hyphen THEN "LITERAL" ELSE p.sym[j]
          /\ q.state = "NORMAL"
      BY <1>1, <1>3, <2>3, Range1Cases
    <3>2. /\ Lower(t, l, p) /\ p.hyphen \in Members(t, l) /\ Follows(t, p.from, p.hyphen)
          /\ Is(t, p.hyphen, "-") /\ \A k \in t.kept : ~(p.hyphen < k /\ k <= i - 1)
      BY <2>3 DEF RangeState
    <3>3. p.from \in Members(t, l) /\ p.from \in Nat /\ p.hyphen \in Nat /\ p.from < p.hyphen
      BY <3>2, RangeTypes DEF Lower, Follows
    <3>4. ASSUME NEW h, NEW j, IsRange(t, l, p.from, h, j) PROVE FALSE
      <4>1. h \in Members(t, l) /\ j \in Members(t, l)
        BY <3>4 DEF IsRange
      <4>2. h = p.hyphen
        BY <3>2, <3>3, <3>4, <4>1, FollowsOne, RangeTypes DEF IsRange
      <4> QED
        BY <1>4, <3>2, <3>4, <4>1, <4>2 DEF IsRange, Follows
    <3>5. RangeSym(t, l, p.from) = "LITERAL" /\ p.sym[p.from] = "LITERAL"
      BY <3>2, <3>4, NoRange DEF Lower
    <3>6. EndBefore(t, l, p.hyphen)
      <4>1. \A k \in t.kept : ~(p.from < k /\ k < p.hyphen)
        BY <3>2 DEF Follows
      <4> QED
        BY <3>2, <3>3, <3>4, <4>1, NoRange DEF Lower
    <3>7. \A h, j : ~IsRange(t, l, p.hyphen, h, j)
      <4>1. ~FirstOf(t, l, p.hyphen)
        BY <3>2, <3>3, MemberFacts
      <4> QED
        BY <3>2, <4>1 DEF IsRange
    <3>8. RangeSym(t, l, p.hyphen) = "LITERAL"
      BY <3>2, <3>6, <3>7, NoRange
    <3>9. p.hyphen \in 1 .. n /\ p.hyphen < i
      BY <1>4, <3>2
    <3>10. \A j \in 1 .. n : q.sym[j] = IF j = p.hyphen THEN "LITERAL" ELSE p.sym[j]
      BY <3>1
    <3>11. \A j : Awaits(p, j) => j = p.from \/ j = p.hyphen
      BY <2>3 DEF Awaits
    <3>12. Settled(t, q, i, l)
      BY <1>4, <1>5, <3>3, <3>5, <3>8, <3>10, <3>11 DEF Settled
    <3>13. \A j \in 1 .. n : j \notin Members(t, l) \/ i < j => j # p.hyphen
      BY <1>1, <3>2, <3>3, <3>9
    <3> QED
      BY <3>1, <3>10, <3>12, <3>13
  <2> QED
    BY <2>1, <2>2, <2>3 DEF RangeState
<1>7. Untouched(t, tags, q, i) /\ \A k \in Starts(t) : Settled(t, q, i, k)
  <2>. HIDE DEF q
  <2> QED
    BY <1>6, RangesFrame
<1>8. \A k \in Starts(t) : ~InList(t, k, i)
  BY <1>2, ListEnded
<1> QED
  BY <1>6, <1>7, <1>8 DEF RangesInv

LEMMA RangesStepMember ==
  ASSUME NEW t, IsText(t), NEW tags, IsTagged(t, tags),
         NEW p \in RunStates(Len(t.ch)), NEW i \in 1 .. Len(t.ch),
         RangesInv(t, tags, p, i - 1),
         NEW l \in Starts(t), InList(t, l, i - 1), RangeState(t, l, i - 1, p),
         i \in Members(t, l)
  PROVE  RangesInv(t, tags, Range1(p, i), i)
<1>. DEFINE n == Len(t.ch)
            q == Range1(p, i)
            hyphen == Is(t, i, "-") /\ \E k \in Body(t, l) : k < i
<1>1. n \in Nat /\ i \in Nat /\ l \in 1 .. n
  BY StartTypes
<1>2. Within(t, l, i) /\ i < ListEnd(t, l) /\ i \in t.kept /\ i \notin Inversion(t, l)
        /\ i \in Body(t, l) /\ (FirstOf(t, l, i) <=> ~\E k \in Body(t, l) : k < i)
  BY MemberFacts
<1>3. InList(t, l, i)
  <2>1. ListEnd(t, l) \in Nat
    BY StartTypes
  <2> QED
    BY <1>1, <1>2, <2>1 DEF InList, Within
<1>4. p.sym[i] = IF hyphen THEN "TEMP_HYPHEN" ELSE "LITERAL"
  <2>1. p.sym[i] = tags[i]
    BY <1>1 DEF RangesInv, Untouched
  <2>2. ListEnd(t, l) \in Nat
    BY StartTypes
  <2>3. tags[i] = ListTag(t, l, i)
    BY <1>2 DEF IsTagged
  <2> QED
    BY <1>1, <1>2, <2>1, <2>2, <2>3 DEF ListTag
<1>5. \A j \in Members(t, l) : j \in 1 .. n /\ j \in t.kept /\ (j <= i => j = i \/ j <= i - 1)
  BY <1>1, RangeTypes, MemberFacts
<1>6. Settled(t, p, i - 1, l) /\ (i - 1) + 1 = i
  BY <1>1 DEF RangesInv
<1>7. \A k \in t.kept : k \in Nat
  BY <1>1 DEF IsText
<1>. HIDE DEF hyphen, q
<1>8. /\ Settled(t, q, i, l) /\ RangeState(t, l, i, q)
      /\ \A j \in 1 .. n : j \notin Members(t, l) \/ i < j => q.sym[j] = p.sym[j]
  <2>1. CASE p.state = "LIST"
    <3>1. EndBefore(t, l, i)
      BY <1>6, <2>1 DEF RangeState
    <3>2. \A j : ~Awaits(p, j)
      BY <2>1 DEF Awaits
    <3>3. CASE ~hyphen
      <4>1. q.sym = p.sym /\ q.state = "RANGE1" /\ q.from = i
        BY <1>1, <1>4, <2>1, <3>3, Range1Cases DEF q
      <4>2. \A j : j = i => Awaits(q, j)
        BY <4>1 DEF Awaits
      <4>3. Settled(t, q, i, l)
        BY <1>5, <1>6, <3>2, <4>1, <4>2 DEF Settled
      <4>4. Lower(t, l, q)
        BY <1>2, <1>4, <3>1, <3>3, <4>1 DEF Lower, hyphen
      <4>5. q.from <= i /\ \A k \in t.kept : ~(q.from < k /\ k <= i)
        BY <1>1, <1>7, <4>1
      <4> QED
        BY <4>1, <4>3, <4>4, <4>5 DEF RangeState
    <3>4. CASE hyphen
      <4>1. /\ \A j \in 1 .. n : q.sym[j] = IF j = i THEN "LITERAL" ELSE p.sym[j]
            /\ q.state = "LIST"
        BY <1>1, <1>4, <2>1, <3>4, Range1Cases DEF q
      <4>2. \A h, j : ~IsRange(t, l, i, h, j)
        BY <1>2, <3>4 DEF IsRange, hyphen
      <4>3. RangeSym(t, l, i) = "LITERAL" /\ EndBefore(t, l, i + 1)
        <5>1. i + 1 \in Nat /\ i < i + 1 /\ \A k \in t.kept : ~(i < k /\ k < i + 1)
          BY <1>1, <1>7
        <5> QED
          BY <3>1, <4>2, <5>1, NoRange
      <4>4. Settled(t, q, i, l)
        BY <1>5, <1>6, <3>2, <4>1, <4>3 DEF Settled
      <4>5. \A j \in 1 .. n : j \notin Members(t, l) \/ i < j => j # i
        BY <1>1
      <4> QED
        BY <4>1, <4>3, <4>4, <4>5 DEF RangeState
    <3> QED
      BY <3>3, <3>4
  <2>2. CASE p.state = "RANGE1"
    <3>1. /\ Lower(t, l, p) /\ p.from <= i - 1
          /\ \A k \in t.kept : ~(p.from < k /\ k <= i - 1)
      BY <2>2 DEF RangeState
    <3>2. /\ p.from \in Members(t, l) /\ p.from \in Nat /\ p.from < i /\ p.from \in Body(t, l)
          /\ p.sym[p.from] = "LITERAL" /\ EndBefore(t, l, p.from)
      <4>1. p.from \in Members(t, l) /\ p.sym[p.from] = "LITERAL" /\ EndBefore(t, l, p.from)
        BY <3>1 DEF Lower
      <4>2. p.from \in Nat /\ p.from \in Body(t, l)
        BY <4>1, RangeTypes, MemberFacts
      <4> QED
        BY <1>1, <3>1, <4>1, <4>2
    <3>3. Follows(t, p.from, i)
      BY <1>1, <1>2, <1>7, <3>1, <3>2 DEF Follows
    <3>4. \A j : Awaits(p, j) => j = p.from
      BY <2>2 DEF Awaits
    <3>5. CASE ~hyphen
      <4>1. q.sym = p.sym /\ q.state = "RANGE1" /\ q.from = i
        BY <1>1, <1>4, <2>2, <3>5, Range1Cases DEF q
      <4>2. ASSUME NEW h, NEW j, IsRange(t, l, p.from, h, j) PROVE FALSE
        <5>1. h \in Members(t, l) /\ Follows(t, p.from, h) /\ Is(t, h, "-")
          BY <4>2 DEF IsRange
        <5>2. h \in Int /\ i \in Int /\ p.from \in Int
          BY <1>1, <1>5, <3>2, <5>1
        <5>3. h = i
          BY <3>3, <5>1, <5>2, FollowsOne
        <5> QED
          BY <3>2, <3>5, <5>1, <5>3 DEF hyphen
      <4>3. RangeSym(t, l, p.from) = "LITERAL" /\ EndBefore(t, l, i)
        <5>1. \A k \in t.kept : ~(p.from < k /\ k < i)
          BY <3>3 DEF Follows
        <5> QED
          BY <1>1, <3>2, <4>2, <5>1, NoRange
      <4>4. \A j : j = i => Awaits(q, j)
        BY <4>1 DEF Awaits
      <4>5. Settled(t, q, i, l)
        BY <1>5, <1>6, <3>2, <3>4, <4>1, <4>3, <4>4 DEF Settled
      <4>6. Lower(t, l, q)
        BY <1>2, <1>4, <3>5, <4>1, <4>3 DEF Lower, hyphen
      <4>7. q.from <= i /\ \A k \in t.kept : ~(q.from < k /\ k <= i)
        BY <1>1, <1>7, <4>1
      <4> QED
        BY <4>1, <4>5, <4>6, <4>7 DEF RangeState
    <3>6. CASE hyphen
      <4>1. q.sym = p.sym /\ q.state = "RANGE2" /\ q.from = p.from /\ q.hyphen = i
        BY <1>1, <1>4, <2>2, <3>6, Range1Cases DEF q
      <4>2. \A j : j = i \/ Awaits(p, j) => Awaits(q, j)
        BY <3>4, <4>1 DEF Awaits
      <4>3. Settled(t, q, i, l)
        BY <1>5, <1>6, <4>1, <4>2 DEF Settled
      <4>4. Lower(t, l, q)
        BY <3>1, <4>1 DEF Lower
      <4>5. q.hyphen <= i /\ \A k \in t.kept : ~(q.hyphen < k /\ k <= i)
        BY <1>1, <1>7, <4>1
      <4>6. Is(t, i, "-")
        BY <3>6 DEF hyphen
      <4> QED
        BY <3>3, <4>1, <4>3, <4>4, <4>5, <4>6 DEF RangeState
    <3> QED
      BY <3>5, <3>6
  <2>3. CASE p.state = "RANGE2"
    <3>1. /\ Lower(t, l, p) /\ p.hyphen \in Members(t, l) /\ Follows(t, p.from, p.hyphen)
          /\ Is(t, p.hyphen, "-") /\ p.hyphen <= i - 1
          /\ \A k \in t.kept : ~(p.hyphen < k /\ k <= i - 1)
      BY <2>3 DEF RangeState
    <3>2. /\ p.from \in Members(t, l) /\ p.from \in 1 .. n /\ p.hyphen \in 1 .. n
          /\ p.from < p.hyphen /\ p.hyphen < i
          /\ EndBefore(t, l, p.from) /\ (Is(t, p.from, "-") => FirstOf(t, l, p.from))
      <4>1. /\ p.from \in Members(t, l) /\ EndBefore(t, l, p.from)
            /\ Is(t, p.from, "-") => FirstOf(t, l, p.from)
            /\ p.from < p.hyphen
        BY <3>1 DEF Lower, Follows
      <4>2. p.from \in 1 .. n /\ p.hyphen \in 1 .. n
        BY <1>5, <3>1, <4>1
      <4> QED
        BY <1>1, <3>1, <4>1, <4>2
    <3>3. Follows(t, p.hyphen, i)
      BY <1>1, <1>2, <1>7, <3>1, <3>2 DEF Follows
    <3>4. IsRange(t, l, p.from, p.hyphen, i)
      BY <3>1, <3>2, <3>3 DEF IsRange
    <3>5. /\ RangeSym(t, l, p.from) = "RANGE_FROM" /\ RangeSym(t, l, p.hyphen) = "IGNORE"
          /\ RangeSym(t, l, i) = "RANGE_TO" /\ EndBefore(t, l, i + 1)
      BY <3>2, <3>4, RangeSyms
    <3>6. /\ \A j \in 1 .. n :
               q.sym[j] = IF j = i THEN "RANGE_TO" ELSE IF j = p.hyphen THEN "IGNORE"
                          ELSE IF j = p.from THEN "RANGE_FROM" ELSE p.sym[j]
          /\ q.state = "LIST"
      <4>1. p.sym[i] \notin {"IGNORE", "LIST_END"}
        BY <1>4
      <4> QED
        BY <1>1, <2>3, <4>1, Range1Cases DEF q
    <3>7. \A j : Awaits(p, j) => j = p.from \/ j = p.hyphen
      BY <2>3 DEF Awaits
    <3>8. Settled(t, q, i, l)
      <4>. SUFFICES ASSUME NEW j \in Members(t, l), j <= i PROVE q.sym[j] = RangeSym(t, l, j)
        BY DEF Settled
      <4>1. CASE j = i \/ j = p.hyphen \/ j = p.from
        BY <1>1, <1>5, <3>2, <3>5, <3>6, <4>1
      <4>2. CASE j # i /\ j # p.hyphen /\ j # p.from
        <5>1. p.sym[j] = RangeSym(t, l, j)
          BY <1>5, <1>6, <3>7, <4>2 DEF Settled
        <5>2. j \in 1 .. n
          BY <1>5
        <5> QED
          BY <3>6, <4>2, <5>1, <5>2
      <4> QED
        BY <4>1, <4>2
    <3>9. \A j \in 1 .. n : j \notin Members(t, l) \/ i < j => q.sym[j] = p.sym[j]
      <4>1. \A j \in 1 .. n :
              j \notin Members(t, l) \/ i < j => j # i /\ j # p.hyphen /\ j # p.from
        BY <1>1, <3>1, <3>2
      <4> QED
        BY <3>6, <4>1
    <3> QED
      BY <3>5, <3>6, <3>8, <3>9 DEF RangeState
  <2> QED
    BY <2>1, <2>2, <2>3 DEF RangeState
<1>9. Untouched(t, tags, q, i) /\ \A k \in Starts(t) : Settled(t, q, i, k)
  BY <1>8, RangesFrame
<1>10. RangesInv(t, tags, q, i)
  BY <1>3, <1>8, <1>9 DEF RangesInv
<1> QED
  BY <1>10 DEF q

LEMMA TaggedType ==
  ASSUME NEW t, IsText(t), NEW sym, IsQuoted(t, sym)
  PROVE  Tagged(t.ch, sym) \in [1 .. Len(t.ch) -> Symbols]
<1>1. ASSUME NEW i \in 1 .. Len(t.ch) PROVE Tagged(t.ch, sym)[i] \in Symbols
  <2>1. PlainTag(t, i) \in Symbols
    BY DEF PlainTag, Symbols
  <2>2. \A l \in Starts(t) : ListTag(t, l, i) \in Symbols
    BY DEF ListTag, Symbols
  <2> QED
    BY <2>1, <2>2, TaggedIsTagged DEF IsTagged
<1>2. Tagged(t.ch, sym) = [i \in 1 .. Len(t.ch) |-> Tagged(t.ch, sym)[i]]
  BY Zenon DEF Tagged
<1>. HIDE DEF Tagged
<1> QED
  BY <1>1, <1>2

(* The symbols after the ranges have been found *)
ParsedSym(t, l, i) ==
  IF i \notin t.kept THEN "IGNORE"
  ELSE IF i \in Inversion(t, l) THEN "LIST_INV"
  ELSE IF i = ListEnd(t, l) THEN "LIST_END"
  ELSE RangeSym(t, l, i)

IsParsed(t, sym) ==
  \A i \in 1 .. Len(t.ch) :
    /\ \A l \in Starts(t) : Within(t, l, i) => sym[i] = ParsedSym(t, l, i)
    /\ (\A l \in Starts(t) : ~Within(t, l, i)) => sym[i] = PlainTag(t, i)

LEMMA RangesIsParsed ==
  ASSUME NEW t, IsText(t), Lists(t).closed,
         NEW tags \in [1 .. Len(t.ch) -> Symbols], IsTagged(t, tags)
  PROVE  IsParsed(t, Ranges(t.ch, tags))
<1>. DEFINE n == Len(t.ch)
<1>1. n \in Nat /\ t.ch \in Seq(Chars)
  BY DEF IsText
<1>2. PICK run \in [0 .. n -> RunStates(n)] :
        /\ run[0] = [sym |-> tags, state |-> "NORMAL", from |-> 1, hyphen |-> 1]
        /\ \A i \in 1 .. n : run[i] = Range1(run[i - 1], i)
        /\ Ranges(t.ch, tags) = run[n].sym
  BY <1>1, RangesRun
<1>3. \A i \in 0 .. n : RangesInv(t, tags, run[i], i)
  <2>. DEFINE T == {i \in Nat : i <= n => RangesInv(t, tags, run[i], i)}
  <2>1. 0 \in T
    <3>1. run[0].sym = tags /\ run[0].state = "NORMAL"
      BY <1>2
    <3>2. \A l \in Starts(t) : l > 0 /\ \A j \in Members(t, l) : ~(j <= 0)
      BY <1>1, StartTypes, MemberFacts
    <3>3. Untouched(t, tags, run[0], 0)
      BY <3>1 DEF Untouched
    <3>4. \A l \in Starts(t) : Settled(t, run[0], 0, l) /\ ~InList(t, l, 0)
      BY <1>1, <3>2, StartTypes DEF Settled, InList
    <3> QED
      BY <3>1, <3>3, <3>4 DEF RangesInv
  <2>2. ASSUME NEW k \in Nat, k \in T PROVE k + 1 \in T
    <3>. SUFFICES ASSUME k + 1 <= n PROVE RangesInv(t, tags, run[k + 1], k + 1)
      OBVIOUS
    <3>. DEFINE i == k + 1
                p == run[k]
    <3>1. i \in 1 .. n /\ i - 1 = k /\ p \in RunStates(n) /\ RangesInv(t, tags, p, i - 1)
      BY <1>1, <1>2, <2>2
    <3>2. run[i] = Range1(p, i)
      BY <1>2, <3>1
    <3>. HIDE DEF i, p
    <3>3. CASE p.state = "NORMAL" /\ \A l \in Starts(t) : ~InList(t, l, i - 1)
      BY <3>1, <3>2, <3>3, RangesStepOut DEF i
    <3>4. ASSUME NEW l \in Starts(t), InList(t, l, i - 1), RangeState(t, l, i - 1, p)
          PROVE  RangesInv(t, tags, run[i], i)
      <4>1. CASE i = ListEnd(t, l)
        BY <3>1, <3>2, <3>4, <4>1, RangesStepEnd
      <4>2. CASE i \in Members(t, l)
        BY <3>1, <3>2, <3>4, <4>2, RangesStepMember
      <4>3. CASE i # ListEnd(t, l) /\ i \notin Members(t, l)
        <5>1. i \in 1 .. Len(t.ch) /\ p \in RunStates(Len(t.ch)) /\ RangesInv(t, tags, p, i - 1)
          BY <3>1
        <5>2. RangesInv(t, tags, Range1(p, i), i)
          BY <3>4, <4>3, <5>1, RangesStepSkip
        <5> QED
          BY <3>2, <5>2
      <4> QED
        BY <4>1, <4>2, <4>3
    <3>5. \/ p.state = "NORMAL" /\ \A l \in Starts(t) : ~InList(t, l, i - 1)
          \/ \E l \in Starts(t) : InList(t, l, i - 1) /\ RangeState(t, l, i - 1, p)
      BY <3>1 DEF RangesInv
    <3> QED
      BY <3>3, <3>4, <3>5 DEF i
  <2>. HIDE DEF T
  <2>3. \A i \in Nat : i \in T
    BY <2>1, <2>2, NatSetInduction
  <2> QED
    BY <1>1, <2>3 DEF T
<1>. DEFINE p == run[n]
<1>4. RangesInv(t, tags, p, n)
  BY <1>1, <1>3
<1>5. \A l \in Starts(t) : ListEnd(t, l) <= n /\ ~InList(t, l, n)
  <2>. TAKE l \in Starts(t)
  <2>1. Lists(t).last[l] = ListEnd(t, l) /\ ListEnd(t, l) \in Nat
    BY StartsFacts, StartTypes
  <2>2. Lists(t).last[l] <= n
    BY ListsParts, StartTypes, StartsFacts, Zenon
  <2> QED
    BY <1>1, <2>1, <2>2 DEF InList
<1>. HIDE DEF p
<1>6. p.state = "NORMAL" /\ \A j : ~Awaits(p, j)
  BY <1>4, <1>5 DEF RangesInv, Awaits
<1>7. ASSUME NEW i \in 1 .. n, \A l \in Starts(t) : i \notin Members(t, l)
      PROVE  p.sym[i] = tags[i]
  BY <1>4, <1>7 DEF RangesInv, Untouched
<1>8. ASSUME NEW i \in 1 .. n, NEW l \in Starts(t), Within(t, l, i)
      PROVE  p.sym[i] = ParsedSym(t, l, i)
  <2>1. \A k \in Starts(t) : i \in Members(t, k) => k = l
    BY <1>8, MemberFacts, OneList
  <2>2. i \in Members(t, l) <=>
          i \in t.kept /\ i \notin Inversion(t, l) /\ i # ListEnd(t, l)
    <3>1. l < i /\ i <= ListEnd(t, l) /\ ListEnd(t, l) \in Nat
      BY <1>8, StartTypes DEF Within
    <3>2. i \in Members(t, l) <=> i \in Body(t, l) /\ i < ListEnd(t, l)
      BY DEF Members
    <3> QED
      BY <1>1, <3>1, <3>2, BodyFacts
  <2>3. CASE i \in Members(t, l)
    <3>1. p.sym[i] = RangeSym(t, l, i)
      BY <1>1, <1>4, <1>6, <2>3 DEF RangesInv, Settled
    <3> QED
      BY <2>2, <2>3, <3>1 DEF ParsedSym
  <2>4. CASE i \notin Members(t, l)
    <3>1. p.sym[i] = ListTag(t, l, i)
      BY <1>7, <1>8, <2>1, <2>4 DEF IsTagged
    <3> QED
      BY <2>2, <2>4, <3>1 DEF ParsedSym, ListTag
  <2> QED
    BY <2>3, <2>4
<1>9. ASSUME NEW i \in 1 .. n, \A l \in Starts(t) : ~Within(t, l, i)
      PROVE  p.sym[i] = PlainTag(t, i)
  <2>1. p.sym[i] = tags[i]
    BY <1>7, <1>9, MemberFacts
  <2> QED
    BY <1>9, <2>1 DEF IsTagged
<1> QED
  BY <1>2, <1>8, <1>9 DEF IsParsed, p

-----------------------------------------------------------------------------
(* What the flags of check_match() mean *)

LEMMA ParsedFacts ==
  ASSUME NEW t, IsText(t), Lists(t).closed, NEW sym, IsParsed(t, sym)
  PROVE  /\ \A l \in Starts(t) : ListEnd(t, l) \in l + 1 .. Len(t.ch)
         /\ \A l \in Starts(t) : \A i \in 1 .. Len(t.ch) : ~Within(t, i, l)
         /\ \A i \in 1 .. Len(t.ch) :
              /\ sym[i] = "LIST_BEGIN" <=> i \in Starts(t)
              /\ sym[i] = "LIST_END" <=> \E l \in Starts(t) : i = ListEnd(t, l)
<1>. DEFINE n == Len(t.ch)
<1>1. n \in Nat
  BY StartTypes
<1>2. ASSUME NEW l \in Starts(t) PROVE ListEnd(t, l) \in l + 1 .. n
  <2>1. Lists(t).last[l] = ListEnd(t, l) /\ l \in 1 .. n
    BY StartsFacts
  <2>2. Lists(t).last = [i \in 1 .. n |-> ListEnd(t, i)]
    BY ListsParts, Zenon
  <2>3. \A k \in Starts(t) : [i \in 1 .. n |-> ListEnd(t, i)][k] <= n
    BY ListsParts, Zenon
  <2>4. ListEnd(t, l) <= n
    BY <2>1, <2>3
  <2> QED
    BY <1>1, <2>4, StartTypes
<1>3. ASSUME NEW l \in Starts(t), NEW i PROVE ~Within(t, i, l)
  BY StartsFacts DEF Within
<1>4. ASSUME NEW l \in Starts(t), NEW i \in 1 .. n, Within(t, l, i)
      PROVE  /\ sym[i] # "LIST_BEGIN" /\ i \notin Starts(t)
             /\ sym[i] = "LIST_END" <=> i = ListEnd(t, l)
  <2>1. sym[i] = ParsedSym(t, l, i)
    BY <1>4 DEF IsParsed
  <2>2. RangeSym(t, l, i) \notin {"LIST_BEGIN", "LIST_END"}
    BY DEF RangeSym
  <2>3. i = ListEnd(t, l) => i \in t.kept /\ i \notin Inversion(t, l)
    <3>1. l \in 1 .. n /\ i \in l + 1 .. n /\ ListEnd(t, l) \in Nat
      BY <1>1, <1>4, StartTypes DEF Within
    <3>2. i = ListEnd(t, l) => i \in Body(t, l)
      BY <1>1, <3>1, ListEnds
    <3> QED
      BY <3>2, BodyFacts
  <2> QED
    BY <1>3, <1>4, <2>1, <2>2, <2>3 DEF ParsedSym
<1>5. ASSUME NEW i \in 1 .. n, \A l \in Starts(t) : ~Within(t, l, i)
      PROVE  /\ sym[i] = "LIST_BEGIN" <=> i \in Starts(t)
             /\ sym[i] # "LIST_END"
  <2>1. sym[i] = PlainTag(t, i)
    BY <1>5 DEF IsParsed
  <2>2. Is(t, i, "[") => i \in t.kept
    BY DEF Is, IsText
  <2>3. Is(t, i, "[") <=> i \in Starts(t)
    BY <1>5, StartsFacts DEF Within
  <2> QED
    BY <2>1, <2>2, <2>3 DEF PlainTag
<1>6. ASSUME NEW l \in Starts(t) PROVE Within(t, l, ListEnd(t, l))
  BY <1>1, <1>2, StartTypes DEF Within
<1>7. ASSUME NEW i \in 1 .. n
      PROVE  /\ sym[i] = "LIST_BEGIN" <=> i \in Starts(t)
             /\ sym[i] = "LIST_END" <=> \E l \in Starts(t) : i = ListEnd(t, l)
  <2>1. CASE \E l \in Starts(t) : Within(t, l, i)
    <3>1. PICK l \in Starts(t) : Within(t, l, i)
      BY <2>1
    <3>2. \A k \in Starts(t) : i = ListEnd(t, k) => k = l
      BY <1>1, <1>6, <3>1, OneList
    <3> QED
      BY <1>4, <3>1, <3>2
  <2>2. CASE ~\E l \in Starts(t) : Within(t, l, i)
    BY <1>5, <1>6, <2>2
  <2> QED
    BY <2>1, <2>2
<1> QED
  BY <1>2, <1>3, <1>7

LEMMA InListFlag ==
  ASSUME NEW t, IsText(t), Lists(t).closed, NEW sym, IsParsed(t, sym),
         NEW i \in 1 .. Len(t.ch)
  PROVE  inlist(sym, i) <=> \E l \in Starts(t) : Within(t, l, i)
<1>1. Len(t.ch) \in Nat /\ i \in Nat
  BY StartTypes
<1>2. ASSUME NEW l \in Starts(t), Within(t, l, i) PROVE inlist(sym, i)
  <2>1. l \in 1 .. i - 1 /\ sym[l] = "LIST_BEGIN" /\ i <= ListEnd(t, l)
    BY <1>1, <1>2, StartTypes, ParsedFacts DEF Within
  <2>2. ASSUME NEW j \in l .. i - 1, sym[j] = "LIST_END" PROVE FALSE
    <3>1. j \in 1 .. Len(t.ch)
      BY <1>1, <2>1
    <3>2. PICK k \in Starts(t) : j = ListEnd(t, k)
      BY <2>2, <3>1, ParsedFacts
    <3>3. Within(t, k, j)
      BY <3>2, StartTypes DEF Within
    <3>4. j # l
      BY <3>1, <3>2, <3>3, StartTypes, ParsedFacts
    <3>5. Within(t, l, j)
      BY <1>1, <2>1, <3>1, <3>4, StartTypes DEF Within
    <3>6. k = l
      BY <3>1, <3>3, <3>5, OneList
    <3> QED
      BY <1>1, <2>1, <3>2, <3>6
  <2> QED
    BY <2>1, <2>2 DEF inlist
<1>3. ASSUME inlist(sym, i) PROVE \E l \in Starts(t) : Within(t, l, i)
  <2>1. PICK b \in 1 .. i - 1 : sym[b] = "LIST_BEGIN" /\ \A j \in b .. i - 1 : sym[j] # "LIST_END"
    BY <1>3 DEF inlist
  <2>2. b \in Starts(t) /\ b < i
    BY <1>1, <2>1, ParsedFacts
  <2>3. ListEnd(t, b) \in b + 1 .. Len(t.ch)
    BY <2>2, ParsedFacts
  <2>4. sym[ListEnd(t, b)] = "LIST_END"
    BY <1>1, <2>1, <2>2, <2>3, ParsedFacts
  <2>5. i <= ListEnd(t, b)
    BY <1>1, <2>1, <2>3, <2>4
  <2> QED
    BY <2>2, <2>5 DEF Within
<1> QED
  BY <1>2, <1>3

LEMMA BeginFlag ==
  ASSUME NEW t, IsText(t), Lists(t).closed, NEW sym, IsParsed(t, sym), NEW l \in Starts(t)
  PROVE  Begin(sym, ListEnd(t, l)) = l
<1>. DEFINE E == ListEnd(t, l)
            B == {b \in 1 .. E : sym[b] = "LIST_BEGIN"}
<1>1. Len(t.ch) \in Nat /\ l \in 1 .. Len(t.ch) /\ E \in l + 1 .. Len(t.ch) /\ E \in Nat
  BY StartTypes, ParsedFacts
<1>2. l \in B
  BY <1>1, ParsedFacts
<1>3. ASSUME NEW b \in B, l < b PROVE FALSE
  <2>1. b \in Starts(t)
    BY <1>1, <1>3, ParsedFacts
  <2>2. Within(t, l, b)
    BY <1>1, <1>3 DEF Within
  <2> QED
    BY <1>1, <2>1, <2>2, ParsedFacts
<1>4. B \subseteq 0 .. E /\ B # {} /\ \A b \in B : b \in Nat
  BY <1>1, <1>2
<1>5. Max(B) \in B /\ \A b \in B : b <= Max(B)
  <2>. HIDE DEF B
  <2> QED
    BY <1>1, <1>4, MaxOf
<1>6. Max(B) = l
  <2>. HIDE DEF B
  <2>1. Max(B) \in Nat /\ l <= Max(B) /\ ~(l < Max(B))
    BY <1>2, <1>3, <1>4, <1>5
  <2> QED
    BY <1>1, <2>1
<1> QED
  BY <1>6 DEF Begin

LEMMA InverseFlag ==
  ASSUME NEW t, IsText(t), Lists(t).closed, NEW sym, IsParsed(t, sym), NEW l \in Starts(t)
  PROVE  inverse(sym, ListEnd(t, l)) <=> Inversion(t, l) # {}
<1>. DEFINE E == ListEnd(t, l)
<1>1. Len(t.ch) \in Nat /\ l \in 1 .. Len(t.ch) /\ E \in l + 1 .. Len(t.ch) /\ E \in Nat
  BY StartTypes, ParsedFacts
<1>2. inverse(sym, E) <=> \E j \in l .. E : sym[j] = "LIST_INV"
  BY BeginFlag DEF inverse
<1>3. ASSUME NEW j \in l .. E, sym[j] = "LIST_INV" PROVE j \in Inversion(t, l)
  <2>1. j \in 1 .. Len(t.ch) /\ j # l
    BY <1>1, <1>3, ParsedFacts
  <2>2. Within(t, l, j)
    BY <1>1, <2>1 DEF Within
  <2>3. sym[j] = ParsedSym(t, l, j) /\ RangeSym(t, l, j) # "LIST_INV"
    BY <2>1, <2>2 DEF IsParsed, RangeSym
  <2> QED
    BY <1>3, <2>3 DEF ParsedSym
<1>4. ASSUME NEW j \in Inversion(t, l) PROVE j \in l .. E /\ sym[j] = "LIST_INV"
  <2>1. /\ j \in t.kept /\ j \in 1 .. Len(t.ch) /\ l < j
        /\ \A k \in t.kept : ~(l < k /\ k < j)
    BY InversionFacts DEF IsText
  <2>2. E \in t.kept
    <3>1. E \in Body(t, l)
      BY <1>1, ListEnds
    <3> QED
      BY <3>1, BodyFacts
  <2>3. j <= E
    BY <1>1, <2>1, <2>2
  <2>4. Within(t, l, j)
    BY <2>1, <2>3 DEF Within
  <2>5. sym[j] = ParsedSym(t, l, j)
    BY <2>1, <2>4 DEF IsParsed
  <2> QED
    BY <1>1, <2>1, <2>3, <2>5 DEF ParsedSym
<1> QED
  BY <1>2, <1>3, <1>4

(* The symbols of the members of a list *)
LEMMA MemberSyms ==
  ASSUME NEW t, IsText(t), Lists(t).closed, NEW sym, IsParsed(t, sym), NEW l \in Starts(t),
         NEW k \in l .. ListEnd(t, l)
  PROVE  /\ k \in Members(t, l) => sym[k] = RangeSym(t, l, k)
         /\ sym[k] \in {"LITERAL", "RANGE_FROM", "RANGE_TO"} => k \in Members(t, l)
         /\ sym[k] \in {"IGNORE", "LITERAL", "LIST_BEGIN", "LIST_INV", "RANGE_FROM", "RANGE_TO",
                        "LIST_END"}
<1>. DEFINE E == ListEnd(t, l)
<1>1. Len(t.ch) \in Nat /\ l \in 1 .. Len(t.ch) /\ E \in l + 1 .. Len(t.ch) /\ E \in Nat
  BY StartTypes, ParsedFacts
<1>2. CASE k = l
  <2>1. sym[k] = "LIST_BEGIN"
    BY <1>1, <1>2, ParsedFacts
  <2>2. k \notin Members(t, l)
    BY <1>1, <1>2, MemberFacts
  <2> QED
    BY <2>1, <2>2
<1>3. CASE k # l
  <2>1. k \in l + 1 .. Len(t.ch) /\ k <= E /\ Within(t, l, k)
    BY <1>1, <1>3 DEF Within
  <2>2. sym[k] = ParsedSym(t, l, k)
    BY <1>1, <2>1 DEF IsParsed
  <2>3. k \in Members(t, l) <=> k \in t.kept /\ k \notin Inversion(t, l) /\ k # E
    <3>1. k \in Members(t, l) <=> k \in Body(t, l) /\ k < E
      BY DEF Members
    <3> QED
      BY <1>1, <2>1, <3>1, BodyFacts
  <2>4. RangeSym(t, l, k) \in {"IGNORE", "LITERAL", "RANGE_FROM", "RANGE_TO"}
    BY DEF RangeSym
  <2> QED
    BY <2>2, <2>3, <2>4 DEF ParsedSym
<1> QED
  BY <1>2, <1>3

LEMMA FromFlag ==
  ASSUME NEW t, IsText(t), Lists(t).closed, NEW sym, IsParsed(t, sym), NEW l \in Starts(t),
         NEW b \in RangesOf(t, l)
  PROVE  Max({x \in 1 .. LimitOf(t, l)[b] : sym[x] = "RANGE_FROM"}) = b
<1>. DEFINE k == LimitOf(t, l)[b]
            X == {x \in 1 .. k : sym[x] = "RANGE_FROM"}
<1>1. Len(t.ch) \in Nat /\ l \in 1 .. Len(t.ch) /\ ListEnd(t, l) \in l + 1 .. Len(t.ch)
  BY StartTypes, ParsedFacts
<1>2. b \in Members(t, l) /\ k \in Members(t, l) /\ b \in Nat /\ k \in Nat /\ b < k
  BY RangeTypes
<1>3. l < b /\ k < ListEnd(t, l)
  BY <1>1, <1>2, MemberFacts
<1>4. b \in X
  <2>1. sym[b] = RangeSym(t, l, b)
    BY <1>1, <1>2, <1>3, MemberSyms
  <2>2. sym[b] = "RANGE_FROM"
    BY <2>1 DEF RangeSym
  <2> QED
    BY <1>1, <1>2, <1>3, <2>2
<1>5. ASSUME NEW x \in X, b < x PROVE FALSE
  <2>1. x \in l .. ListEnd(t, l) /\ sym[x] = "RANGE_FROM" /\ x <= k
    BY <1>1, <1>2, <1>3, <1>5
  <2>2. x \in Members(t, l)
    BY <2>1, MemberSyms
  <2>3. RangeSym(t, l, x) = "RANGE_FROM"
    BY <2>1, <2>2, MemberSyms
  <2>4. x \in RangesOf(t, l)
    BY <2>3 DEF RangeSym
  <2>5. x \in Limits(t, l)
    <3>1. PICK h : IsRange(t, l, x, h, LimitOf(t, l)[x])
      BY <2>4, RangeFacts
    <3> QED
      BY <3>1, LimitFacts
  <2> QED
    BY <1>5, <2>1, <2>4, <2>5, RangeFacts
<1>6. X \subseteq 0 .. k /\ X # {} /\ \A x \in X : x \in Nat
  BY <1>2, <1>4
<1>7. Max(X) \in X /\ \A x \in X : x <= Max(X)
  <2>. HIDE DEF X
  <2> QED
    BY <1>2, <1>6, MaxOf
<1>8. Max(X) = b
  <2>. HIDE DEF X
  <2>1. Max(X) \in Nat /\ b <= Max(X) /\ ~(b < Max(X))
    BY <1>4, <1>5, <1>6, <1>7
  <2> QED
    BY <1>2, <2>1
<1> QED
  BY <1>8

LEMMA MatchFlag ==
  ASSUME NEW t, IsText(t), Lists(t).closed, NEW sym, IsParsed(t, sym), NEW l \in Starts(t),
         NEW ch \in Chars
  PROVE  listmatch(t.ch, sym, ListEnd(t, l), ch) <=> ch \in ListSet(t, l)
<1>. DEFINE E == ListEnd(t, l)
            R == RangesOf(t, l)
            last == LimitOf(t, l)
            from(k) == Max({x \in 1 .. k : sym[x] = "RANGE_FROM"})
            plain == {j \in Members(t, l) : \A b \in R : ~(b <= j /\ j <= last[b])}
<1>1. Len(t.ch) \in Nat /\ l \in 1 .. Len(t.ch) /\ E \in l + 1 .. Len(t.ch) /\ E \in Nat
  BY StartTypes, ParsedFacts
<1>2. \A j \in Members(t, l) : j \in l .. E /\ j \in Nat
  BY <1>1, MemberFacts, RangeTypes
<1>3. \A b \in R : b \in Members(t, l) /\ last[b] \in Members(t, l) /\ b < last[b]
                     /\ b \in Nat /\ last[b] \in Nat
  BY RangeTypes
<1>4. ASSUME NEW k \in l .. E PROVE sym[k] = "LITERAL" <=> k \in plain
  <2>1. ASSUME NEW j \in Members(t, l) PROVE RangeSym(t, l, j) = "LITERAL" <=> j \in plain
    <3>1. CASE j \in plain
      <4>1. j \notin R /\ EndBefore(t, l, j)
        BY <1>2, <1>3, <3>1 DEF EndBefore
      <4> QED
        BY <3>1, <4>1, LiteralSym
    <3>2. CASE j \notin plain
      <4>1. PICK b \in R : b <= j /\ j <= last[b]
        BY <2>1, <3>2
      <4>2. b = j \/ j = last[b] \/ (b < j /\ j < last[b])
        BY <1>2, <1>3, <4>1
      <4> QED
        BY <3>2, <4>1, <4>2 DEF RangeSym
    <3> QED
      BY <3>1, <3>2
  <2> QED
    BY <2>1, MemberSyms
<1>5. ASSUME NEW k \in l .. E
      PROVE  sym[k] = "RANGE_TO" <=> \E b \in R : k = last[b]
  <2>1. ASSUME NEW b \in R PROVE RangeSym(t, l, last[b]) = "RANGE_TO"
    <3>1. PICK h : IsRange(t, l, b, h, last[b])
      BY RangeFacts
    <3>2. last[b] \notin R
      <4>1. ASSUME last[b] \in R PROVE FALSE
        <5>1. PICK g : IsRange(t, l, last[b], g, last[last[b]])
          BY <4>1, RangeFacts
        <5>2. last[b] \in Limits(t, l)
          BY <5>1, LimitFacts
        <5> QED
          BY <1>3, <4>1, <5>2, RangeFacts
      <4> QED
        BY <4>1
    <3> QED
      BY <3>2 DEF RangeSym
  <2>2. ASSUME sym[k] = "RANGE_TO" PROVE \E b \in R : k = last[b]
    <3>1. RangeSym(t, l, k) = "RANGE_TO"
      BY <2>2, MemberSyms
    <3> QED
      BY <3>1 DEF RangeSym
  <2>3. ASSUME NEW b \in R, k = last[b] PROVE sym[k] = "RANGE_TO"
    BY <1>3, <2>1, <2>3, MemberSyms
  <2> QED
    BY <2>2, <2>3
<1>6. \A b \in R : from(last[b]) = b
  BY FromFlag
<1>7. listmatch(t.ch, sym, E, ch) <=>
        \E k \in l .. E : \/ sym[k] = "LITERAL" /\ t.ch[k] = ch
                          \/ sym[k] = "RANGE_TO" /\ rangecmp(t.ch[from(k)], ch, t.ch[k])
  BY BeginFlag DEF listmatch
<1>8. ch \in ListSet(t, l) <=>
        \/ \E b \in R : rangecmp(t.ch[b], ch, t.ch[last[b]])
        \/ \E j \in plain : t.ch[j] = ch
  BY ListSetParts, Zenon
<1>. HIDE DEF E, R, last, from, plain
<1>9. ASSUME NEW j \in plain PROVE j \in l .. E
  BY <1>2 DEF plain
<1>10. ASSUME NEW b \in R PROVE last[b] \in l .. E
  BY <1>2, <1>3
<1>11. (\E k \in l .. E : sym[k] = "LITERAL" /\ t.ch[k] = ch) <=> \E j \in plain : t.ch[j] = ch
  BY <1>4, <1>9, Zenon
<1>12. (\E k \in l .. E : sym[k] = "RANGE_TO" /\ rangecmp(t.ch[from(k)], ch, t.ch[k]))
         <=> \E b \in R : rangecmp(t.ch[b], ch, t.ch[last[b]])
  <2>1. ASSUME NEW k \in l .. E, sym[k] = "RANGE_TO", rangecmp(t.ch[from(k)], ch, t.ch[k])
        PROVE  \E b \in R : rangecmp(t.ch[b], ch, t.ch[last[b]])
    <3>1. PICK b \in R : k = last[b]
      BY <1>5, <2>1
    <3>2. from(k) = b
      BY <1>6, <3>1
    <3> QED
      BY <2>1, <3>1, <3>2
  <2>2. ASSUME NEW b \in R, rangecmp(t.ch[b], ch, t.ch[last[b]])
        PROVE  sym[last[b]] = "RANGE_TO" /\ from(last[b]) = b
    BY <1>5, <1>6, <1>10
  <2>3. ASSUME NEW b \in R, rangecmp(t.ch[b], ch, t.ch[last[b]])
        PROVE  rangecmp(t.ch[from(last[b])], ch, t.ch[last[b]])
    BY <2>2, <2>3
  <2> QED
    BY <1>10, <2>1, <2>2, <2>3
<1> QED
  BY <1>7, <1>8, <1>11, <1>12 DEF E

-----------------------------------------------------------------------------
(* check_match() *)

Results == {"YES", "NO", "NEVER"}
Rows(m) == [1 .. m + 1 -> Results]

(* NEVER promises that no later character of the word helps. *)
NeverRow(row, m) ==
  \A k \in 1 .. m + 1 : row[k] = "NEVER" => \A j \in k .. m + 1 : row[j] # "YES"

(* The condition at the end of a list *)
Passes(e, sym, word, i, k) == k > 1 /\ listmatch(e, sym, i, word[k - 1]) # inverse(sym, i)

(* The first decided result *)
LEMMA FirstDecidedFacts ==
  ASSUME NEW m \in Nat, NEW k \in 1 .. m + 1, NEW next \in Rows(m),
         ~\A j \in k .. m + 1 : next[j] = "NO"
  PROVE  LET results == [j \in k .. m + 1 |-> next[j]]
             f == FirstDecided(results)
         IN  /\ f \in k .. m + 1 /\ results[f] = next[f] /\ next[f] # "NO"
             /\ \A j \in k .. m + 1 : j < f => next[j] = "NO"
<1>. DEFINE results == [j \in k .. m + 1 |-> next[j]]
            D == {j \in DOMAIN results : results[j] # "NO"}
<1>1. \A j : j \in D <=> j \in k .. m + 1 /\ next[j] # "NO"
  OBVIOUS
<1>2. D \subseteq Nat /\ D # {}
  BY <1>1
<1>. HIDE DEF D
<1>3. Min(D) \in D /\ \A x \in D : Min(D) <= x
  BY <1>2, MinOf
<1>4. FirstDecided(results) = Min(D)
  BY DEF FirstDecided, D
<1>5. Min(D) \in Nat /\ \A x \in D : ~(x < Min(D))
  <2>1. Min(D) \in Nat /\ \A x \in D : x \in Nat
    BY <1>2, <1>3
  <2>2. ASSUME NEW x \in D PROVE ~(x < Min(D))
    <3>1. x \in Nat /\ Min(D) <= x
      BY <1>3, <2>1
    <3> QED
      BY <2>1, <3>1
  <2> QED
    BY <2>1, <2>2
<1>6. \A j \in k .. m + 1 : j < Min(D) => next[j] = "NO"
  BY <1>1, <1>5
<1>7. Min(D) \in k .. m + 1 /\ next[Min(D)] # "NO" /\ results[Min(D)] = next[Min(D)]
  BY <1>1, <1>3
<1> QED
  BY <1>4, <1>6, <1>7

(* A character matched literally, a flag or an ignored character, and the *)
(* result of a star                                                       *)
IsLiteral(sym, i) == sym[i] = "LITERAL" /\ ~inlist(sym, i)
IsSkipped(sym, i) ==
  ~IsLiteral(sym, i) /\ sym[i] \notin {"ANY_CHAR", "LIST_BEGIN", "ANY_STRING", "LIST_END"}
SameChar(e, word, i, k) == k <= Len(word) /\ e[i] = word[k]
AfterStar(e, word, i, k, next) ==
  LET results == [j \in k .. Len(word) + 1 |-> next[j]]
  IN  IF i = Len(e) THEN "YES"
      ELSE IF \A j \in k .. Len(word) + 1 : results[j] = "NO" THEN "NEVER"
      ELSE results[FirstDecided(results)]

(* The cases of Result *)
LEMMA ResultBeyond ==
  ASSUME NEW e, NEW sym, NEW word, NEW i, NEW k, NEW next, i > Len(e), ~(i <= Len(e))
  PROVE  Result(e, sym, word, i, k, next) = IF k > Len(word) THEN "YES" ELSE "NO"
BY Zenon DEF Result

LEMMA ResultLiteral ==
  ASSUME NEW e, NEW sym, NEW word, NEW i, NEW k, NEW next, i <= Len(e), ~(i > Len(e)),
         IsLiteral(sym, i)
  PROVE  Result(e, sym, word, i, k, next) =
           IF SameChar(e, word, i, k) THEN next[k + 1] ELSE "NO"
BY Zenon DEF Result, IsLiteral, SameChar

LEMMA ResultAny ==
  ASSUME NEW e, NEW sym, NEW word, NEW i, NEW k, NEW next, i <= Len(e), ~(i > Len(e)),
         sym[i] \in {"ANY_CHAR", "LIST_BEGIN"}
  PROVE  Result(e, sym, word, i, k, next) =
           IF k <= Len(word) THEN next[k + 1] ELSE "NO"
BY Zenon DEF Result

LEMMA ResultString ==
  ASSUME NEW e, NEW sym, NEW word, NEW i, NEW k, NEW next, i <= Len(e), ~(i > Len(e)),
         sym[i] = "ANY_STRING"
  PROVE  Result(e, sym, word, i, k, next) = AfterStar(e, word, i, k, next)
BY Zenon DEF Result, AfterStar

LEMMA ResultEnd ==
  ASSUME NEW e, NEW sym, NEW word, NEW i, NEW k, NEW next, i <= Len(e), ~(i > Len(e)),
         sym[i] = "LIST_END"
  PROVE  Result(e, sym, word, i, k, next) =
           IF Passes(e, sym, word, i, k) THEN next[k] ELSE "NO"
BY Zenon DEF Result, Passes

LEMMA ResultSkip ==
  ASSUME NEW e, NEW sym, NEW word, NEW i, NEW k, NEW next, i <= Len(e), ~(i > Len(e)),
         IsSkipped(sym, i)
  PROVE  Result(e, sym, word, i, k, next) = next[k]
BY Zenon DEF Result, IsSkipped, IsLiteral

LEMMA ResultType ==
  ASSUME NEW e \in Seq(Chars), NEW word \in Seq(Chars), NEW sym,
         NEW i \in 1 .. Len(e) + 1, NEW k \in 1 .. Len(word) + 1,
         NEW next, i <= Len(e) => next \in Rows(Len(word))
  PROVE  Result(e, sym, word, i, k, next) \in Results
<1>. DEFINE n == Len(e)
            m == Len(word)
            results == [j \in k .. m + 1 |-> next[j]]
            r == Result(e, sym, word, i, k, next)
<1>1. n \in Nat /\ m \in Nat
  OBVIOUS
<1>2. CASE i > n
  <2>1. i > n /\ ~(i <= n)
    BY <1>1, <1>2
  <2>2. r = IF k > m THEN "YES" ELSE "NO"
    BY <2>1, ResultBeyond, Zenon
  <2> QED
    BY <2>2 DEF Results
<1>3. CASE i <= n
  <2>1. ~(i > n) /\ i <= n /\ next \in [1 .. m + 1 -> Results]
    BY <1>1, <1>3 DEF Rows
  <2>2. CASE IsLiteral(sym, i)
    <3>1. r = IF SameChar(e, word, i, k) THEN next[k + 1] ELSE "NO"
      BY <2>1, <2>2, ResultLiteral, Zenon
    <3> QED
      BY <1>1, <2>1, <3>1 DEF Results, SameChar
  <2>3. CASE sym[i] \in {"ANY_CHAR", "LIST_BEGIN"}
    <3>1. r = IF k <= m THEN next[k + 1] ELSE "NO"
      BY <2>1, <2>3, ResultAny, Zenon
    <3> QED
      BY <1>1, <2>1, <3>1 DEF Results
  <2>4. CASE sym[i] = "ANY_STRING"
    <3>1. r = AfterStar(e, word, i, k, next)
      BY <2>1, <2>4, ResultString
    <3>2. CASE \A j \in k .. m + 1 : next[j] = "NO"
      <4>1. \A j \in k .. m + 1 : results[j] = "NO"
        BY <3>2
      <4>2. r \in {"YES", "NEVER"}
        BY <3>1, <4>1, Zenon DEF AfterStar
      <4> QED
        BY <4>2 DEF Results
    <3>3. CASE ~\A j \in k .. m + 1 : next[j] = "NO"
      <4>1. /\ FirstDecided(results) \in k .. m + 1
            /\ results[FirstDecided(results)] = next[FirstDecided(results)]
        BY <1>1, <2>1, <3>3, FirstDecidedFacts DEF Rows
      <4>2. FirstDecided(results) \in 1 .. m + 1
        BY <1>1, <4>1
      <4>3. ~\A j \in k .. m + 1 : results[j] = "NO"
        BY <3>3
      <4>4. r = IF i = n THEN "YES" ELSE next[FirstDecided(results)]
        BY <3>1, <4>1, <4>3, Zenon DEF AfterStar
      <4>. HIDE DEF results
      <4> QED
        BY <2>1, <4>2, <4>4 DEF Results
    <3> QED
      BY <3>2, <3>3
  <2>5. CASE sym[i] = "LIST_END"
    <3>1. r = IF Passes(e, sym, word, i, k) THEN next[k] ELSE "NO"
      BY <2>1, <2>5, ResultEnd, Zenon
    <3>2. r = next[k] \/ r = "NO"
      BY <3>1, Zenon
    <3> QED
      BY <1>1, <2>1, <3>2 DEF Results
  <2>6. CASE IsSkipped(sym, i)
    <3>1. r = next[k]
      BY <2>1, <2>6, ResultSkip
    <3> QED
      BY <1>1, <2>1, <3>1
  <2> QED
    BY <2>2, <2>3, <2>4, <2>5, <2>6 DEF IsSkipped
<1> QED
  BY <1>1, <1>2, <1>3

(* Beyond the last character of the expression *)
LEMMA ResultAtEnd ==
  ASSUME NEW e \in Seq(Chars), NEW word, NEW sym, NEW k, NEW next
  PROVE  Result(e, sym, word, Len(e) + 1, k, next) = IF k > Len(word) THEN "YES" ELSE "NO"
<1>1. Len(e) + 1 > Len(e) /\ ~(Len(e) + 1 <= Len(e))
  OBVIOUS
<1> QED
  BY <1>1, ResultBeyond, Zenon

Row(e, sym, word, i, next) ==
  [k \in 1 .. Len(word) + 1 |-> Result(e, sym, word, i, k, next)]

LEMMA RowType ==
  ASSUME NEW e \in Seq(Chars), NEW word \in Seq(Chars), NEW sym,
         NEW i \in 1 .. Len(e) + 1, NEW next, i <= Len(e) => next \in Rows(Len(word))
  PROVE  Row(e, sym, word, i, next) \in Rows(Len(word))
<1>1. \A k \in 1 .. Len(word) + 1 : Result(e, sym, word, i, k, next) \in Results
  BY ResultType
<1> QED
  BY <1>1 DEF Row, Rows

(* The recursion of check_match(), row by row *)
IsCheck(c, e, sym, word) ==
  /\ c \in [1 .. Len(e) + 1 -> Rows(Len(word))]
  /\ \A k \in 1 .. Len(word) + 1 :
       c[Len(e) + 1][k] = IF k > Len(word) THEN "YES" ELSE "NO"
  /\ \A i \in 1 .. Len(e), k \in 1 .. Len(word) + 1 :
       c[i][k] = Result(e, sym, word, i, k, c[i + 1])

LEMMA CheckRun ==
  ASSUME NEW e \in Seq(Chars), NEW word \in Seq(Chars), NEW sym
  PROVE  \E c : IsCheck(c, e, sym, word) /\ check_match(e, sym, word) = c[1][1]
<1>. DEFINE n == Len(e)
            m == Len(word)
            last == Row(e, sym, word, n + 1, <<>>)
            F == [j \in 1 .. n |-> [row \in Rows(m) |-> Row(e, sym, word, n + 1 - j, row)]]
            IsRun(c) == c = [i \in 1 .. n + 1 |->
                               [k \in 1 .. m + 1 |-> Result(e, sym, word, i, k, c[i + 1])]]
            run == CHOOSE c : IsRun(c)
<1>1. n \in Nat /\ m \in Nat
  OBVIOUS
<1>2. \A next : Row(e, sym, word, n + 1, next) = last
  <2>1. \A next, k : Result(e, sym, word, n + 1, k, next) = Result(e, sym, word, n + 1, k, <<>>)
    BY ResultAtEnd
  <2> QED
    BY <2>1 DEF Row
<1>3. last \in Rows(m)
  <2>1. n + 1 \in 1 .. n + 1 /\ (n + 1 <= n => <<>> \in Rows(m))
    BY <1>1
  <2> QED
    BY <2>1, RowType
<1>4. F \in [1 .. n -> [Rows(m) -> Rows(m)]]
  <2>1. ASSUME NEW j \in 1 .. n, NEW row \in Rows(m)
        PROVE  Row(e, sym, word, n + 1 - j, row) \in Rows(m)
    <3>1. n + 1 - j \in 1 .. n + 1
      BY <1>1
    <3> QED
      BY <3>1, RowType
  <2> QED
    BY <2>1
<1>5. PICK g \in [0 .. n -> Rows(m)] : g[0] = last /\ \A j \in 1 .. n : g[j] = F[j][g[j - 1]]
  <2>. HIDE DEF F, last
  <2>1. \E g \in [0 .. n -> Rows(m)] : Iterated(g, n, last, F)
    BY <1>1, <1>3, <1>4, RunExists
  <2> QED
    BY <2>1 DEF Iterated
<1>. DEFINE c == [i \in 1 .. n + 1 |-> g[n + 1 - i]]
<1>6. c[n + 1] = last
  BY <1>1, <1>5
<1>7. ASSUME NEW i \in 1 .. n PROVE c[i] = Row(e, sym, word, i, c[i + 1])
  <2>1. n + 1 - i \in 1 .. n /\ (n + 1 - i) - 1 = n + 1 - (i + 1) /\ n + 1 - (n + 1 - i) = i
    BY <1>1
  <2>2. g[n + 1 - (i + 1)] \in Rows(m)
    BY <1>1, <1>5
  <2>3. F[n + 1 - i][g[n + 1 - (i + 1)]] = Row(e, sym, word, i, g[n + 1 - (i + 1)])
    BY <2>1, <2>2
  <2>. HIDE DEF F
  <2>4. g[n + 1 - i] = F[n + 1 - i][g[n + 1 - (i + 1)]]
    BY <1>5, <2>1
  <2>5. c[i] = g[n + 1 - i] /\ c[i + 1] = g[n + 1 - (i + 1)]
    BY <1>1
  <2> QED
    BY <2>3, <2>4, <2>5
<1>8. ASSUME NEW i \in 1 .. n + 1 PROVE c[i] = Row(e, sym, word, i, c[i + 1])
  <2>1. CASE i = n + 1
    BY <1>2, <1>6, <2>1
  <2>2. CASE i # n + 1
    <3>1. i \in 1 .. n
      BY <1>1, <2>2
    <3> QED
      BY <1>7, <3>1
  <2> QED
    BY <2>1, <2>2
<1>9. IsRun(c)
  <2>1. c = [i \in 1 .. n + 1 |-> c[i]]
    OBVIOUS
  <2>. HIDE DEF c
  <2> QED
    BY <1>8, <2>1 DEF Row
<1>10. IsRun(run)
  <2>. HIDE DEF c
  <2> QED
    BY <1>9
<1>11. check_match(e, sym, word) = run[1][1]
  BY DEF check_match
<1>. HIDE DEF run, last
<1>12. \A i \in 1 .. n + 1 : run[i] = Row(e, sym, word, i, run[i + 1])
  BY <1>10 DEF Row
<1>13. run[n + 1] = last
  BY <1>1, <1>2, <1>12
<1>14. \A i \in 1 .. n + 1 : run[i] \in Rows(m)
  <2>. DEFINE T == {j \in Nat : j <= n => run[n + 1 - j] \in Rows(m)}
  <2>1. 0 \in T
    BY <1>1, <1>3, <1>13
  <2>2. ASSUME NEW j \in Nat, j \in T PROVE j + 1 \in T
    <3>1. CASE j + 1 <= n
      <4>1. n + 1 - (j + 1) \in 1 .. n + 1 /\ (n + 1 - (j + 1)) + 1 = n + 1 - j
        BY <1>1, <3>1
      <4>2. run[n + 1 - j] \in Rows(m)
        BY <1>1, <2>2, <3>1
      <4>3. run[n + 1 - (j + 1)] = Row(e, sym, word, n + 1 - (j + 1), run[n + 1 - j])
        BY <1>12, <4>1
      <4>4. Row(e, sym, word, n + 1 - (j + 1), run[n + 1 - j]) \in Rows(m)
        BY <4>1, <4>2, RowType
      <4> QED
        BY <4>3, <4>4
    <3>2. CASE ~(j + 1 <= n)
      BY <3>2
    <3> QED
      BY <3>1, <3>2
  <2>. HIDE DEF T
  <2>3. \A j \in Nat : j \in T
    BY <2>1, <2>2, NatSetInduction
  <2>4. ASSUME NEW i \in 1 .. n + 1 PROVE run[i] \in Rows(m)
    <3>1. n + 1 - i \in Nat /\ n + 1 - i <= n /\ n + 1 - (n + 1 - i) = i
      BY <1>1
    <3>2. n + 1 - i \in T
      BY <2>3, <3>1
    <3> QED
      BY <3>1, <3>2 DEF T
  <2> QED
    BY <2>4
<1>15. run \in [1 .. n + 1 -> Rows(m)]
  BY <1>10, <1>14
<1>16. \A k \in 1 .. m + 1 : run[n + 1][k] = IF k > m THEN "YES" ELSE "NO"
  BY <1>13, ResultAtEnd DEF Row, last
<1>17. \A i \in 1 .. n, k \in 1 .. m + 1 : run[i][k] = Result(e, sym, word, i, k, run[i + 1])
  <2>1. ASSUME NEW i \in 1 .. n, NEW k \in 1 .. m + 1
        PROVE  run[i][k] = Result(e, sym, word, i, k, run[i + 1])
    <3>1. run[i] = Row(e, sym, word, i, run[i + 1])
      BY <1>1, <1>12
    <3> QED
      BY <3>1, Zenon DEF Row
  <2> QED
    BY <2>1
<1> QED
  BY <1>11, <1>15, <1>16, <1>17 DEF IsCheck

(* The loop for * is right to stop at the first decided result. *)
Helps(next, k, m) == \E j \in k .. m + 1 : next[j] = "YES"

LEMMA StarResult ==
  ASSUME NEW e \in Seq(Chars), NEW word \in Seq(Chars), NEW i, NEW k \in 1 .. Len(word) + 1,
         NEW next \in Rows(Len(word)), NeverRow(next, Len(word))
  PROVE  /\ AfterStar(e, word, i, k, next) = "YES" <=>
              i = Len(e) \/ Helps(next, k, Len(word))
         /\ AfterStar(e, word, i, k, next) = "NEVER" =>
              i # Len(e) /\ ~Helps(next, k, Len(word))
<1>. DEFINE m == Len(word)
            results == [j \in k .. m + 1 |-> next[j]]
            f == FirstDecided(results)
            r == AfterStar(e, word, i, k, next)
<1>1. m \in Nat /\ next \in [1 .. m + 1 -> Results]
  BY DEF Rows
<1>2. (\A j \in k .. m + 1 : results[j] = "NO") <=> \A j \in k .. m + 1 : next[j] = "NO"
  OBVIOUS
<1>3. CASE i = Len(e)
  <2>1. r = "YES"
    BY <1>3, Zenon DEF AfterStar
  <2> QED
    BY <1>3, <2>1
<1>4. CASE i # Len(e) /\ \A j \in k .. m + 1 : next[j] = "NO"
  <2>1. r = "NEVER"
    BY <1>2, <1>4, Zenon DEF AfterStar
  <2> QED
    BY <1>4, <2>1 DEF Helps
<1>5. CASE i # Len(e) /\ ~\A j \in k .. m + 1 : next[j] = "NO"
  <2>1. r = results[f]
    BY <1>2, <1>5, Zenon DEF AfterStar
  <2>2. /\ f \in k .. m + 1 /\ results[f] = next[f] /\ next[f] # "NO"
        /\ \A j \in k .. m + 1 : j < f => next[j] = "NO"
    BY <1>1, <1>5, FirstDecidedFacts DEF Rows
  <2>. HIDE DEF f, results
  <2>3. f \in 1 .. m + 1 /\ next[f] \in {"YES", "NEVER"} /\ r = next[f]
    BY <1>1, <2>1, <2>2 DEF Results
  <2>4. CASE next[f] = "YES"
    BY <1>5, <2>2, <2>3, <2>4 DEF Helps
  <2>5. CASE next[f] = "NEVER"
    <3>1. \A j \in f .. m + 1 : next[j] # "YES"
      BY <2>3, <2>5 DEF NeverRow
    <3>2. \A j \in k .. m + 1 : next[j] # "YES"
      <4>. TAKE j \in k .. m + 1
      <4>1. CASE j < f
        BY <2>2, <4>1
      <4>2. CASE ~(j < f)
        <5>1. j \in f .. m + 1
          BY <1>1, <2>2, <4>2
        <5> QED
          BY <3>1, <5>1
      <4> QED
        BY <4>1, <4>2
    <3> QED
      BY <1>5, <2>3, <2>5, <3>2 DEF Helps
  <2> QED
    BY <2>3, <2>4, <2>5
<1>. HIDE DEF r
<1> QED
  BY <1>3, <1>4, <1>5 DEF r

(* When the rest of the expression matches the rest of the word *)
LEMMA RowYes ==
  ASSUME NEW e \in Seq(Chars), NEW word \in Seq(Chars), NEW sym, NEW c,
         IsCheck(c, e, sym, word),
         NEW i \in 1 .. Len(e), NEW k \in 1 .. Len(word) + 1,
         NeverRow(c[i + 1], Len(word))
  PROVE  LET m == Len(word)
             yes == c[i][k] = "YES"
         IN  /\ IsLiteral(sym, i) =>
                  (yes <=> SameChar(e, word, i, k) /\ c[i + 1][k + 1] = "YES")
             /\ sym[i] \in {"ANY_CHAR", "LIST_BEGIN"} =>
                  (yes <=> k <= m /\ c[i + 1][k + 1] = "YES")
             /\ sym[i] = "ANY_STRING" => (yes <=> Helps(c[i + 1], k, m))
             /\ sym[i] = "LIST_END" =>
                  (yes <=> Passes(e, sym, word, i, k) /\ c[i + 1][k] = "YES")
             /\ IsSkipped(sym, i) => (yes <=> c[i + 1][k] = "YES")
<1>. DEFINE n == Len(e)
            m == Len(word)
            next == c[i + 1]
            yes == c[i][k] = "YES"
<1>1. n \in Nat /\ m \in Nat /\ i <= n /\ ~(i > n) /\ i + 1 \in 1 .. n + 1
  OBVIOUS
<1>2. c[i][k] = Result(e, sym, word, i, k, next)
  BY DEF IsCheck
<1>3. next \in Rows(m)
  BY <1>1 DEF IsCheck
<1>4. ASSUME IsLiteral(sym, i)
      PROVE  yes <=> SameChar(e, word, i, k) /\ next[k + 1] = "YES"
  <2>1. Result(e, sym, word, i, k, next) = IF SameChar(e, word, i, k) THEN next[k + 1] ELSE "NO"
    BY <1>1, <1>4, ResultLiteral, Zenon
  <2> QED
    BY <1>2, <2>1
<1>5. ASSUME sym[i] \in {"ANY_CHAR", "LIST_BEGIN"}
      PROVE  yes <=> k <= m /\ next[k + 1] = "YES"
  <2>1. Result(e, sym, word, i, k, next) = IF k <= m THEN next[k + 1] ELSE "NO"
    BY <1>1, <1>5, ResultAny
  <2> QED
    BY <1>2, <2>1
<1>6. ASSUME sym[i] = "ANY_STRING"
      PROVE  yes <=> Helps(next, k, m)
  <2>1. Result(e, sym, word, i, k, next) = AfterStar(e, word, i, k, next)
    BY <1>1, <1>6, ResultString
  <2>2. yes <=> i = n \/ Helps(next, k, m)
    <3>1. AfterStar(e, word, i, k, next) = "YES" <=> i = n \/ Helps(next, k, m)
      BY <1>3, StarResult
    <3>. HIDE DEF next
    <3> QED
      BY <1>2, <2>1, <3>1
  <2>3. i = n => m + 1 \in k .. m + 1 /\ next[m + 1] = "YES"
    BY <1>1 DEF IsCheck
  <2>4. i = n => Helps(next, k, m)
    BY <2>3 DEF Helps
  <2> QED
    BY <2>2, <2>4
<1>7. ASSUME sym[i] = "LIST_END"
      PROVE  yes <=> Passes(e, sym, word, i, k) /\ next[k] = "YES"
  <2>1. Result(e, sym, word, i, k, next) =
          IF Passes(e, sym, word, i, k) THEN next[k] ELSE "NO"
    BY <1>1, <1>7, ResultEnd, Zenon
  <2>2. CASE Passes(e, sym, word, i, k)
    <3>1. Result(e, sym, word, i, k, next) = next[k]
      BY <2>1, <2>2, Zenon
    <3> QED
      BY <1>2, <2>2, <3>1, Zenon
  <2>3. CASE ~Passes(e, sym, word, i, k)
    <3>1. Result(e, sym, word, i, k, next) = "NO"
      BY <2>1, <2>3, Zenon
    <3> QED
      BY <1>2, <2>3, <3>1, Zenon
  <2> QED
    BY <2>2, <2>3
<1>8. ASSUME IsSkipped(sym, i) PROVE yes <=> next[k] = "YES"
  <2>1. Result(e, sym, word, i, k, next) = next[k]
    BY <1>1, <1>8, ResultSkip
  <2> QED
    BY <1>2, <2>1
<1>. HIDE DEF yes, next
<1> QED
  BY <1>4, <1>5, <1>6, <1>7, <1>8, Zenon DEF yes, next

(* NEVER keeps its promise in every row. *)
LEMMA NeverStep ==
  ASSUME NEW e \in Seq(Chars), NEW word \in Seq(Chars), NEW sym, NEW c,
         IsCheck(c, e, sym, word), NEW i \in 1 .. Len(e), NeverRow(c[i + 1], Len(word))
  PROVE  NeverRow(c[i], Len(word))
<1>. DEFINE n == Len(e)
            m == Len(word)
            next == c[i + 1]
<1>1. n \in Nat /\ m \in Nat /\ i <= n /\ ~(i > n) /\ i + 1 \in 1 .. n + 1
  OBVIOUS
<1>2. next \in [1 .. m + 1 -> Results]
  BY <1>1 DEF IsCheck, Rows
<1>. SUFFICES ASSUME NEW k \in 1 .. m + 1, c[i][k] = "NEVER", NEW j \in k .. m + 1,
                     c[i][j] = "YES"
              PROVE  FALSE
  BY DEF NeverRow
<1>3. j \in 1 .. m + 1 /\ k <= j
  BY <1>1
<1>4. Result(e, sym, word, i, k, next) = "NEVER" /\ Result(e, sym, word, i, j, next) = "YES"
  BY <1>3 DEF IsCheck
<1>5. \A x \in 1 .. m + 1, y \in 1 .. m + 1 :
        x <= y /\ next[x] = "NEVER" /\ next[y] = "YES" => FALSE
  BY <1>1 DEF NeverRow
<1>6. ASSUME k <= m, j <= m, next[k + 1] = "NEVER", next[j + 1] = "YES" PROVE FALSE
  <2>1. k + 1 \in 1 .. m + 1 /\ j + 1 \in 1 .. m + 1 /\ k + 1 <= j + 1
    BY <1>1, <1>3, <1>6
  <2>. HIDE DEF next
  <2> QED
    BY <1>5, <1>6, <2>1
<1>7. CASE IsLiteral(sym, i)
  <2>1. \A x : Result(e, sym, word, i, x, next) =
                 IF SameChar(e, word, i, x) THEN next[x + 1] ELSE "NO"
    BY <1>1, <1>7, ResultLiteral, Zenon
  <2>2. k <= m /\ j <= m /\ next[k + 1] = "NEVER" /\ next[j + 1] = "YES"
    BY <1>4, <2>1 DEF SameChar
  <2> QED
    BY <1>6, <2>2
<1>8. CASE sym[i] \in {"ANY_CHAR", "LIST_BEGIN"}
  <2>1. \A x : Result(e, sym, word, i, x, next) = IF x <= m THEN next[x + 1] ELSE "NO"
    BY <1>1, <1>8, ResultAny
  <2>2. k <= m /\ j <= m /\ next[k + 1] = "NEVER" /\ next[j + 1] = "YES"
    <3>. HIDE DEF next
    <3>1. /\ (IF k <= m THEN next[k + 1] ELSE "NO") = "NEVER"
          /\ (IF j <= m THEN next[j + 1] ELSE "NO") = "YES"
      BY <1>4, <2>1
    <3> QED
      BY <3>1
  <2> QED
    BY <1>6, <2>2
<1>9. CASE sym[i] = "ANY_STRING"
  <2>1. Result(e, sym, word, i, k, next) = AfterStar(e, word, i, k, next)
    BY <1>1, <1>9, ResultString
  <2>2. Result(e, sym, word, i, j, next) = AfterStar(e, word, i, j, next)
    BY <1>1, <1>9, ResultString
  <2>3. next \in Rows(m)
    BY <1>2 DEF Rows
  <2>4. i # n /\ ~Helps(next, k, m)
    <3>1. AfterStar(e, word, i, k, next) = "NEVER"
      BY <1>4, <2>1
    <3> QED
      BY <2>3, <3>1, StarResult
  <2>5. Helps(next, j, m)
    <3>1. AfterStar(e, word, i, j, next) = "YES"
      BY <1>4, <2>2
    <3>2. i = n \/ Helps(next, j, m)
      BY <1>3, <2>3, <3>1, StarResult
    <3> QED
      BY <2>4, <3>2
  <2> QED
    BY <1>1, <1>3, <2>4, <2>5 DEF Helps
<1>10. CASE sym[i] = "LIST_END"
  <2>1. \A x : Result(e, sym, word, i, x, next) =
                 IF Passes(e, sym, word, i, x) THEN next[x] ELSE "NO"
    BY <1>1, <1>10, ResultEnd, Zenon
  <2>2. \A x : Result(e, sym, word, i, x, next) \in {next[x], "NO"}
    BY <2>1, Zenon
  <2>3. next[k] = "NEVER" /\ next[j] = "YES"
    BY <1>4, <2>2
  <2> QED
    BY <1>3, <1>5, <2>3
<1>11. CASE IsSkipped(sym, i)
  <2>1. \A x : Result(e, sym, word, i, x, next) = next[x]
    BY <1>1, <1>11, ResultSkip
  <2>2. next[k] = "NEVER" /\ next[j] = "YES"
    BY <1>4, <2>1
  <2> QED
    BY <1>3, <1>5, <2>2
<1> QED
  BY <1>7, <1>8, <1>9, <1>10, <1>11 DEF IsSkipped

LEMMA NeverRows ==
  ASSUME NEW e \in Seq(Chars), NEW word \in Seq(Chars), NEW sym, NEW c,
         IsCheck(c, e, sym, word)
  PROVE  \A i \in 1 .. Len(e) + 1 : NeverRow(c[i], Len(word))
<1>. DEFINE n == Len(e)
            T == {j \in Nat : j <= n => NeverRow(c[n + 1 - j], Len(word))}
<1>1. n \in Nat /\ Len(word) \in Nat
  OBVIOUS
<1>2. 0 \in T
  <2>1. \A k \in 1 .. Len(word) + 1 : c[n + 1][k] # "NEVER"
    BY DEF IsCheck
  <2>2. NeverRow(c[n + 1], Len(word))
    BY <2>1 DEF NeverRow
  <2>3. n + 1 - 0 = n + 1
    BY <1>1
  <2> QED
    BY <2>2, <2>3
<1>3. ASSUME NEW j \in Nat, j \in T PROVE j + 1 \in T
  <2>. SUFFICES ASSUME j + 1 <= n PROVE NeverRow(c[n + 1 - (j + 1)], Len(word))
    OBVIOUS
  <2>1. n + 1 - (j + 1) \in 1 .. n /\ (n + 1 - (j + 1)) + 1 = n + 1 - j /\ j <= n
    BY <1>1
  <2>2. NeverRow(c[(n + 1 - (j + 1)) + 1], Len(word))
    BY <1>3, <2>1
  <2> QED
    BY <2>1, <2>2, NeverStep
<1>. HIDE DEF T
<1>4. \A j \in Nat : j \in T
  BY <1>2, <1>3, NatSetInduction
<1>5. ASSUME NEW i \in 1 .. n + 1 PROVE NeverRow(c[i], Len(word))
  <2>1. n + 1 - i \in Nat /\ n + 1 - i <= n /\ n + 1 - (n + 1 - i) = i
    BY <1>1
  <2>2. n + 1 - i \in T
    BY <1>4, <2>1
  <2> QED
    BY <2>1, <2>2 DEF T
<1> QED
  BY <1>5

-----------------------------------------------------------------------------
(* check_match() follows the positions that can be reached. *)

IsPattern(t, sym) == IsText(t) /\ Lists(t).closed /\ IsParsed(t, sym)

(* The symbols in a list and outside of the lists *)
LEMMA SymbolsInList ==
  ASSUME NEW t, NEW sym, IsPattern(t, sym), NEW l, NEW i \in 1 .. Len(t.ch), Within(t, l, i)
  PROVE  IF i = ListEnd(t, l) THEN sym[i] = "LIST_END" ELSE IsSkipped(sym, i)
<1>1. IsText(t) /\ Lists(t).closed /\ IsParsed(t, sym)
  BY DEF IsPattern
<1>2. l \in Starts(t) /\ l < i /\ i <= ListEnd(t, l)
  BY DEF Within
<1>3. Len(t.ch) \in Nat /\ l \in 1 .. Len(t.ch) /\ ListEnd(t, l) \in l + 1 .. Len(t.ch)
  BY <1>1, <1>2, ParsedFacts, StartTypes
<1>4. CASE i = ListEnd(t, l)
  BY <1>1, <1>2, <1>4, ParsedFacts
<1>5. CASE i # ListEnd(t, l)
  <2>1. sym[i] # "LIST_END"
    <3>. SUFFICES ASSUME sym[i] = "LIST_END" PROVE FALSE
      OBVIOUS
    <3>1. PICK k \in Starts(t) : i = ListEnd(t, k)
      BY <1>1, ParsedFacts
    <3>2. ListEnd(t, k) \in k + 1 .. Len(t.ch) /\ k \in 1 .. Len(t.ch)
      BY <1>1, ParsedFacts, StartTypes
    <3>3. Within(t, k, i)
      BY <3>1, <3>2 DEF Within
    <3>4. i \in Int
      OBVIOUS
    <3>5. l = k
      BY <1>1, <3>3, <3>4, OneList
    <3> QED
      BY <1>5, <3>1, <3>5
  <2>2. sym[i] # "LIST_BEGIN"
    BY <1>1, <1>2, <1>3, ParsedFacts
  <2>3. sym[i] \in {"IGNORE", "LITERAL", "LIST_BEGIN", "LIST_INV", "RANGE_FROM", "RANGE_TO",
                    "LIST_END"}
    <3>1. i \in l .. ListEnd(t, l)
      BY <1>2, <1>3
    <3> QED
      BY <1>1, <1>2, <3>1, MemberSyms
  <2>4. inlist(sym, i)
    BY <1>1, <1>2, InListFlag
  <2> QED
    BY <1>5, <2>1, <2>2, <2>3, <2>4 DEF IsSkipped, IsLiteral
<1> QED
  BY <1>4, <1>5

LEMMA SymbolsOutside ==
  ASSUME NEW t, NEW sym, IsPattern(t, sym), NEW i \in 1 .. Len(t.ch),
         \A l \in Starts(t) : ~Within(t, l, i)
  PROVE  /\ i \notin t.kept => IsSkipped(sym, i) /\ i \notin Starts(t)
         /\ i \in t.kept =>
              IF Is(t, i, "*") THEN sym[i] = "ANY_STRING" /\ i \notin Starts(t)
              ELSE IF i \in Starts(t) \/ Is(t, i, "?") THEN sym[i] \in {"ANY_CHAR", "LIST_BEGIN"}
              ELSE IsLiteral(sym, i)
<1>1. IsText(t) /\ Lists(t).closed /\ IsParsed(t, sym)
  BY DEF IsPattern
<1>2. sym[i] = PlainTag(t, i)
  BY <1>1 DEF IsParsed
<1>3. i \in Starts(t) <=> Is(t, i, "[")
  <2>1. i \in Starts(t) => Is(t, i, "[")
    BY <1>1, StartsFacts
  <2>2. Is(t, i, "[") => (i \in Starts(t) <=> \A l \in Starts(t) : ~(l < i /\ i <= ListEnd(t, l)))
    BY <1>1, StartsFacts
  <2> QED
    BY <2>1, <2>2 DEF Within
<1>4. \A ch : Is(t, i, ch) => i \in t.kept /\ t.ch[i] = ch
  BY <1>1 DEF Is, IsText
<1>5. ~inlist(sym, i)
  BY <1>1, InListFlag
<1>6. CASE i \notin t.kept
  <2>1. sym[i] = "IGNORE"
    BY <1>2, <1>6 DEF PlainTag
  <2> QED
    BY <1>3, <1>4, <1>6, <2>1 DEF IsSkipped, IsLiteral
<1>7. CASE i \in t.kept /\ Is(t, i, "*")
  <2>1. ~Is(t, i, "[") /\ ~Is(t, i, "?")
    BY <1>4, <1>7
  <2>2. sym[i] = "ANY_STRING"
    BY <1>2, <1>7, <2>1 DEF PlainTag
  <2> QED
    BY <1>3, <1>7, <2>1, <2>2
<1>8. CASE i \in t.kept /\ ~Is(t, i, "*")
  BY <1>2, <1>3, <1>5, <1>8 DEF PlainTag, IsLiteral
<1> QED
  BY <1>6, <1>7, <1>8

(* The end of a list asks whether the list stands for the character before. *)
LEMMA PassesInList ==
  ASSUME NEW t, NEW sym, IsPattern(t, sym), NEW l \in Starts(t),
         NEW word \in Seq(Chars), NEW k \in 1 .. Len(word) + 1
  PROVE  Passes(t.ch, sym, word, ListEnd(t, l), k) <=>
           k > 1 /\ StandsFor(t, Lists(t), l, word[k - 1])
<1>1. IsText(t) /\ Lists(t).closed /\ IsParsed(t, sym)
  BY DEF IsPattern
<1>. DEFINE E == ListEnd(t, l)
            ch == word[k - 1]
<1>2. Lists(t).sets[l] = ListSet(t, l)
  BY <1>1, StartsFacts
<1>3. l \in Lists(t).starts
  BY DEF Starts
<1>4. StandsFor(t, Lists(t), l, ch) <=> (ch \in ListSet(t, l)) # (Inversion(t, l) # {})
  BY <1>2, <1>3, Zenon DEF StandsFor
<1>5. inverse(sym, E) <=> Inversion(t, l) # {}
  BY <1>1, InverseFlag
<1>6. ASSUME k > 1 PROVE listmatch(t.ch, sym, E, ch) <=> ch \in ListSet(t, l)
  <2>1. k - 1 \in 1 .. Len(word)
    BY <1>6
  <2>2. ch \in Chars
    BY <2>1
  <2>. HIDE DEF ch
  <2> QED
    BY <1>1, <2>2, MatchFlag
<1>7. Passes(t.ch, sym, word, E, k) <=> k > 1 /\ listmatch(t.ch, sym, E, ch) # inverse(sym, E)
  BY Zenon DEF Passes
<1>. HIDE DEF E, ch
<1>8. CASE k > 1
  <2>1. (listmatch(t.ch, sym, E, ch) # inverse(sym, E)) <=>
          (ch \in ListSet(t, l)) # (Inversion(t, l) # {})
    <3>1. listmatch(t.ch, sym, E, ch) = (ch \in ListSet(t, l))
      <4>1. listmatch(t.ch, sym, E, ch) <=> ch \in ListSet(t, l)
        BY <1>6, <1>8
      <4>2. listmatch(t.ch, sym, E, ch) \in BOOLEAN
        BY Zenon DEF listmatch
      <4> QED
        BY <4>1, <4>2
    <3>2. inverse(sym, E) = (Inversion(t, l) # {})
      BY <1>5, Zenon DEF inverse
    <3> QED
      BY <3>1, <3>2, Zenon
  <2> QED
    BY <1>4, <1>7, <1>8, <2>1, Zenon DEF E, ch
<1>9. CASE ~(k > 1)
  BY <1>7, <1>9, Zenon DEF E
<1> QED
  BY <1>8, <1>9

(* From within a list, the rest of the word matches only if the list stands *)
(* for the character before.                                                *)
LEMMA ListYes ==
  ASSUME NEW t, NEW sym, IsPattern(t, sym), NEW word \in Seq(Chars), NEW c,
         IsCheck(c, t.ch, sym, word), NEW l \in Starts(t), NEW k \in 1 .. Len(word) + 1
  PROVE  \A i \in l + 1 .. ListEnd(t, l) :
           c[i][k] = "YES" => k > 1 /\ StandsFor(t, Lists(t), l, word[k - 1])
<1>. DEFINE n == Len(t.ch)
            E == ListEnd(t, l)
            T == {j \in Nat : E - j > l /\ c[E - j][k] = "YES" =>
                                k > 1 /\ StandsFor(t, Lists(t), l, word[k - 1])}
<1>1. IsText(t) /\ Lists(t).closed /\ IsParsed(t, sym)
  BY DEF IsPattern
<1>2. n \in Nat /\ l \in 1 .. n /\ E \in l + 1 .. n /\ t.ch \in Seq(Chars)
  BY <1>1, ParsedFacts, StartTypes DEF IsText
<1>3. ASSUME NEW i \in l + 1 .. E
      PROVE  i \in 1 .. n /\ Within(t, l, i) /\ NeverRow(c[i + 1], Len(word))
  <2>1. i \in 1 .. n /\ i + 1 \in 1 .. n + 1
    BY <1>2
  <2>2. Within(t, l, i)
    BY <1>2 DEF Within
  <2> QED
    BY <1>2, <2>1, <2>2, NeverRows
<1>4. 0 \in T
  <2>1. E \in l + 1 .. E /\ E - 0 = E
    BY <1>2
  <2>2. sym[E] = "LIST_END"
    BY <1>3, <2>1, SymbolsInList
  <2>3. c[E][k] = "YES" => Passes(t.ch, sym, word, E, k)
    BY <1>2, <1>3, <2>1, <2>2, RowYes
  <2> QED
    BY <2>1, <2>3, PassesInList
<1>5. ASSUME NEW j \in Nat, j \in T PROVE j + 1 \in T
  <2>. DEFINE i == E - (j + 1)
  <2>. SUFFICES ASSUME i > l, c[i][k] = "YES"
                PROVE  k > 1 /\ StandsFor(t, Lists(t), l, word[k - 1])
    OBVIOUS
  <2>1. i \in l + 1 .. E /\ i # E /\ i + 1 = E - j /\ E - j > l
    BY <1>2
  <2>2. IsSkipped(sym, i)
    BY <1>3, <2>1, SymbolsInList
  <2>3. c[i + 1][k] = "YES"
    BY <1>2, <1>3, <2>1, <2>2, RowYes
  <2> QED
    BY <1>5, <2>1, <2>3
<1>. HIDE DEF T
<1>6. \A j \in Nat : j \in T
  BY <1>4, <1>5, NatSetInduction
<1>7. ASSUME NEW i \in l + 1 .. E, c[i][k] = "YES"
      PROVE  k > 1 /\ StandsFor(t, Lists(t), l, word[k - 1])
  <2>1. E - i \in Nat /\ E - (E - i) = i /\ i > l
    BY <1>2
  <2>2. E - i \in T
    BY <1>6, <2>1
  <2> QED
    BY <1>7, <2>1, <2>2 DEF T
<1> QED
  BY <1>7

(* What the next character of the expression does to the positions *)
ReachStep(t, r, word, i, from) ==
  IF i \notin t.kept \/ \E l \in r.starts : l < i /\ i <= r.last[l] THEN from
  ELSE IF Is(t, i, "*") THEN {k \in 1 .. Len(word) + 1 : \E j \in from : j <= k}
  ELSE {k + 1 : k \in {k \in from : k <= Len(word) /\ StandsFor(t, r, i, word[k])}}

LEMMA ReachRun ==
  ASSUME NEW t, IsText(t), NEW r, NEW word \in Seq(Chars)
  PROVE  LET reach == Reach(t, r, word)
         IN  /\ reach[0] = {1}
             /\ \A i \in 0 .. Len(t.ch) : reach[i] \subseteq 1 .. Len(word) + 1
             /\ \A i \in 1 .. Len(t.ch) : reach[i] = ReachStep(t, r, word, i, reach[i - 1])
<1>. DEFINE n == Len(t.ch)
            m == Len(word)
            S == SUBSET (1 .. m + 1)
            F == [i \in 1 .. n |-> [from \in S |-> ReachStep(t, r, word, i, from)]]
            IsRun(g) == g = [i \in 0 .. n |->
                               IF i = 0 THEN {1} ELSE ReachStep(t, r, word, i, g[i - 1])]
            run == CHOOSE g : IsRun(g)
<1>1. n \in Nat /\ m \in Nat
  BY DEF IsText
<1>2. ASSUME NEW i, NEW from \in S PROVE ReachStep(t, r, word, i, from) \in S
  <2>1. {k + 1 : k \in {k \in from : k <= m /\ StandsFor(t, r, i, word[k])}} \in S
    <3>. DEFINE passed == {k \in from : k <= m /\ StandsFor(t, r, i, word[k])}
    <3>1. \A k \in passed : k \in 1 .. m + 1 /\ k <= m
      OBVIOUS
    <3>. HIDE DEF passed
    <3>2. {k + 1 : k \in passed} \in S
      BY <1>1, <3>1
    <3> QED
      BY <3>2 DEF passed
  <2>2. {k \in 1 .. m + 1 : \E j \in from : j <= k} \in S
    OBVIOUS
  <2> QED
    BY <2>1, <2>2, Zenon DEF ReachStep
<1>3. F \in [1 .. n -> [S -> S]]
  BY <1>2
<1>4. {1} \in S
  BY <1>1
<1>5. PICK g \in [0 .. n -> S] : g[0] = {1} /\ \A i \in 1 .. n : g[i] = F[i][g[i - 1]]
  <2>. HIDE DEF F, S
  <2>1. \E g \in [0 .. n -> S] : Iterated(g, n, {1}, F)
    BY <1>1, <1>3, <1>4, RunExists
  <2> QED
    BY <2>1 DEF Iterated
<1>. HIDE DEF S
<1>6. ASSUME NEW i \in 1 .. n
      PROVE  i - 1 \in 0 .. n /\ g[i] = ReachStep(t, r, word, i, g[i - 1])
  <2>1. i - 1 \in 0 .. n
    BY <1>1
  <2>2. g[i - 1] \in S
    BY <1>5, <2>1
  <2> QED
    BY <1>5, <2>1, <2>2
<1>7. IsRun(g)
  BY <1>1, <1>5, <1>6
<1>8. IsRun(run)
  BY <1>7
<1>9. Reach(t, r, word) = run
  BY DEF Reach, ReachStep
<1>. HIDE DEF run
<1>10. run[0] = {1} /\ \A i \in 1 .. n : run[i] = ReachStep(t, r, word, i, run[i - 1])
  <2>1. \A i \in 0 .. n : run[i] = IF i = 0 THEN {1} ELSE ReachStep(t, r, word, i, run[i - 1])
    BY <1>8, Zenon
  <2>2. 0 \in 0 .. n /\ \A i \in 1 .. n : i \in 0 .. n /\ i # 0
    BY <1>1
  <2> QED
    BY <2>1, <2>2, Zenon
<1>11. \A i \in 0 .. n : run[i] \in S
  <2>. DEFINE T == {i \in Nat : i <= n => run[i] \in S}
  <2>1. 0 \in T
    BY <1>4, <1>10
  <2>2. ASSUME NEW i \in Nat, i \in T PROVE i + 1 \in T
    <3>. SUFFICES ASSUME i + 1 <= n PROVE run[i + 1] \in S
      OBVIOUS
    <3>1. i + 1 \in 1 .. n /\ (i + 1) - 1 = i /\ run[i] \in S
      BY <1>1, <2>2
    <3>2. run[i + 1] = ReachStep(t, r, word, i + 1, run[i])
      BY <1>10, <3>1
    <3> QED
      BY <1>2, <3>1, <3>2
  <2>. HIDE DEF T
  <2>3. \A i \in Nat : i \in T
    BY <2>1, <2>2, NatSetInduction
  <2> QED
    BY <2>3 DEF T
<1> QED
  BY <1>9, <1>10, <1>11 DEF S

(* Before the character at i + 1: the rest of the expression matches the    *)
(* rest of the word from one of the positions, and in a list, the list      *)
(* stands for the character before each of them.                            *)
ReachInv(t, word, c, i) ==
  LET reach == Reach(t, Lists(t), word)
  IN  /\ c[1][1] = "YES" <=> \E k \in reach[i] : c[i + 1][k] = "YES"
      /\ \A l : Within(t, l, i + 1) =>
           \A k \in reach[i] : k > 1 /\ StandsFor(t, Lists(t), l, word[k - 1])

LEMMA ReachStepInv ==
  ASSUME NEW t, NEW sym, IsPattern(t, sym), NEW word \in Seq(Chars), NEW c,
         IsCheck(c, t.ch, sym, word), NEW i \in 1 .. Len(t.ch), ReachInv(t, word, c, i - 1)
  PROVE  ReachInv(t, word, c, i)
<1>. DEFINE n == Len(t.ch)
            m == Len(word)
            r == Lists(t)
            reach == Reach(t, r, word)
            from == reach[i - 1]
            Here(k) == c[i][k] = "YES"
            After(k) == c[i + 1][k] = "YES"
<1>1. IsText(t) /\ r.closed /\ IsParsed(t, sym) /\ t.ch \in Seq(Chars)
  BY DEF IsPattern, IsText
<1>2. n \in Nat /\ m \in Nat /\ i - 1 \in 0 .. n /\ (i - 1) + 1 = i /\ i + 1 \in 1 .. n + 1
  BY <1>1
<1>3. /\ from \subseteq 1 .. m + 1
      /\ reach[i] = ReachStep(t, r, word, i, from)
      /\ reach[i] \subseteq 1 .. m + 1
  BY <1>1, <1>2, ReachRun
<1>4. /\ c[1][1] = "YES" <=> \E k \in from : Here(k)
      /\ \A l : Within(t, l, i) => \A k \in from : k > 1 /\ StandsFor(t, r, l, word[k - 1])
  BY <1>2 DEF ReachInv
<1>. SUFFICES /\ (\E k \in from : Here(k)) <=> \E k \in reach[i] : After(k)
              /\ \A l : Within(t, l, i + 1) =>
                   \A k \in reach[i] : k > 1 /\ StandsFor(t, r, l, word[k - 1])
  BY <1>4, Zenon DEF ReachInv
<1>5. NeverRow(c[i + 1], m)
  BY <1>1, <1>2, NeverRows
<1>6. (\E l \in r.starts : l < i /\ i <= r.last[l]) <=> \E l \in Starts(t) : Within(t, l, i)
  BY <1>1, StartsFacts DEF Starts, Within
<1>7. \A l \in Starts(t) : l \in 1 .. n /\ ListEnd(t, l) \in l + 1 .. n
  BY <1>1, ParsedFacts, StartTypes
<1>8. \A l : Within(t, l, i + 1) => Within(t, l, i) \/ l = i
  BY <1>2, <1>7 DEF Within
<1>9. ASSUME reach[i] = from, i \notin Starts(t),
             \A k \in from : Here(k) <=> After(k)
      PROVE  /\ (\E k \in from : Here(k)) <=> \E k \in reach[i] : After(k)
             /\ \A l : Within(t, l, i + 1) =>
                  \A k \in reach[i] : k > 1 /\ StandsFor(t, r, l, word[k - 1])
  <2>1. \A l : Within(t, l, i + 1) => Within(t, l, i)
    BY <1>8, <1>9 DEF Within
  <2>. HIDE DEF Here, After, reach, from, r
  <2> QED
    BY <1>4, <1>9, <2>1, Zenon
<1>10. CASE \E l \in Starts(t) : Within(t, l, i)
  <2>1. PICK l \in Starts(t) : Within(t, l, i)
    BY <1>10
  <2>2. i \notin Starts(t)
    <3>1. \A k \in Starts(t) : ~Within(t, l, k)
      BY <1>1, <1>7, <2>1, ParsedFacts
    <3> QED
      BY <2>1, <3>1
  <2>3. reach[i] = from
    BY <1>3, <1>6, <1>10, Zenon DEF ReachStep
  <2>4. ASSUME NEW k \in from PROVE Here(k) <=> After(k)
    <3>1. k \in 1 .. m + 1
      BY <1>3
    <3>2. CASE i = ListEnd(t, l)
      <4>1. sym[i] = "LIST_END"
        BY <2>1, <3>2, SymbolsInList
      <4>2. Passes(t.ch, sym, word, i, k)
        BY <1>4, <2>1, <3>1, <3>2, PassesInList
      <4> QED
        BY <1>1, <1>5, <3>1, <4>1, <4>2, RowYes
    <3>3. CASE i # ListEnd(t, l)
      <4>1. IsSkipped(sym, i)
        BY <2>1, <3>3, SymbolsInList
      <4> QED
        BY <1>1, <1>5, <3>1, <4>1, RowYes
    <3> QED
      BY <3>2, <3>3
  <2>. HIDE DEF Here, After, reach, from
  <2> QED
    BY <1>9, <2>2, <2>3, <2>4
<1>11. CASE ~\E l \in Starts(t) : Within(t, l, i)
  <2>1. \A l \in Starts(t) : ~Within(t, l, i)
    BY <1>11
  <2>2. \A l : Within(t, l, i + 1) => l = i /\ i \in Starts(t)
    BY <1>8, <2>1 DEF Within
  <2>3. CASE i \notin t.kept
    <3>1. IsSkipped(sym, i) /\ i \notin Starts(t)
      BY <2>1, <2>3, SymbolsOutside
    <3>2. reach[i] = from
      BY <1>3, <2>3, Zenon DEF ReachStep
    <3>3. ASSUME NEW k \in from PROVE Here(k) <=> After(k)
      <4>1. k \in 1 .. m + 1
        BY <1>3
      <4> QED
        BY <1>1, <1>5, <3>1, <4>1, RowYes
    <3>. HIDE DEF Here, After, reach, from
    <3> QED
      BY <1>9, <3>1, <3>2, <3>3
  <2>4. CASE i \in t.kept /\ Is(t, i, "*")
    <3>1. sym[i] = "ANY_STRING" /\ i \notin Starts(t)
      BY <2>1, <2>4, SymbolsOutside
    <3>2. reach[i] = {k \in 1 .. m + 1 : \E j \in from : j <= k}
      BY <1>3, <1>6, <1>11, <2>4, Zenon DEF ReachStep
    <3>3. \A k \in from : Here(k) <=> Helps(c[i + 1], k, m)
      <4>. TAKE k \in from
      <4>1. k \in 1 .. m + 1
        BY <1>3
      <4> QED
        BY <1>1, <1>5, <3>1, <4>1, RowYes
    <3>. HIDE DEF Here, reach, from
    <3>4. (\E k \in from : Here(k)) <=> \E k \in reach[i] : After(k)
      <4>1. ASSUME NEW k \in from, Here(k) PROVE \E j \in reach[i] : After(j)
        <5>1. PICK j \in k .. m + 1 : After(j)
          BY <3>3, <4>1 DEF Helps
        <5>2. k \in 1 .. m + 1 /\ j \in 1 .. m + 1 /\ k <= j
          BY <1>2, <1>3
        <5> QED
          BY <3>2, <5>1, <5>2
      <4>2. ASSUME NEW j \in reach[i], After(j) PROVE \E k \in from : Here(k)
        <5>1. PICK k \in from : k <= j
          BY <3>2
        <5>2. j \in k .. m + 1
          BY <1>2, <1>3, <5>1
        <5> QED
          BY <3>3, <4>2, <5>2 DEF Helps
      <4> QED
        BY <4>1, <4>2
    <3> QED
      BY <2>2, <3>1, <3>4
  <2>5. CASE i \in t.kept /\ ~Is(t, i, "*")
    <3>1. reach[i] = {k + 1 : k \in {k \in from : k <= m /\ StandsFor(t, r, i, word[k])}}
      BY <1>3, <1>6, <1>11, <2>5, Zenon DEF ReachStep
    <3>2. ASSUME NEW k \in from
          PROVE  Here(k) <=> k <= m /\ StandsFor(t, r, i, word[k]) /\ After(k + 1)
      <4>1. k \in 1 .. m + 1
        BY <1>3
      <4>2. i \in r.starts <=> i \in Starts(t)
        BY DEF Starts
      <4>3. CASE i \in Starts(t) \/ Is(t, i, "?")
        <5>1. sym[i] \in {"ANY_CHAR", "LIST_BEGIN"}
          BY <2>1, <2>5, <4>3, SymbolsOutside
        <5>2. Here(k) <=> k <= m /\ After(k + 1)
          BY <1>1, <1>5, <4>1, <5>1, RowYes
        <5>3. k <= m /\ After(k + 1) => StandsFor(t, r, i, word[k])
          <6>1. CASE i \in Starts(t)
            <7>. SUFFICES ASSUME k <= m, After(k + 1) PROVE StandsFor(t, r, i, word[k])
              OBVIOUS
            <7>1. k + 1 \in 1 .. m + 1 /\ (k + 1) - 1 = k /\ i + 1 \in i + 1 .. ListEnd(t, i)
              BY <1>2, <1>7, <4>1, <6>1
            <7>2. StandsFor(t, r, i, word[(k + 1) - 1])
              BY <6>1, <7>1, ListYes
            <7> QED
              BY <7>1, <7>2
          <6>2. CASE i \notin Starts(t)
            BY <4>2, <4>3, <6>2, Zenon DEF StandsFor
          <6> QED
            BY <6>1, <6>2
        <5>. HIDE DEF Here, After, r
        <5> QED
          BY <5>2, <5>3
      <4>4. CASE ~(i \in Starts(t) \/ Is(t, i, "?"))
        <5>1. IsLiteral(sym, i)
          BY <2>1, <2>5, <4>4, SymbolsOutside
        <5>2. Here(k) <=> SameChar(t.ch, word, i, k) /\ After(k + 1)
          BY <1>1, <1>5, <4>1, <5>1, RowYes
        <5>3. StandsFor(t, r, i, word[k]) <=> t.ch[i] = word[k]
          BY <4>2, <4>4, Zenon DEF StandsFor
        <5>. HIDE DEF Here, After, r
        <5> QED
          BY <5>2, <5>3, Zenon DEF SameChar
      <4> QED
        BY <4>3, <4>4
    <3>. HIDE DEF Here, After, reach, from, r
    <3>3. (\E k \in from : Here(k)) <=> \E k \in reach[i] : After(k)
      BY <3>1, <3>2
    <3>4. ASSUME NEW l, Within(t, l, i + 1), NEW k \in reach[i]
          PROVE  k > 1 /\ StandsFor(t, r, l, word[k - 1])
      <4>1. l = i
        BY <2>2, <3>4
      <4>2. PICK j \in from : k = j + 1 /\ StandsFor(t, r, i, word[j])
        BY <3>1
      <4>3. j \in 1 .. m + 1
        BY <1>3
      <4>4. k > 1 /\ k - 1 = j
        BY <4>2, <4>3
      <4> QED
        BY <4>1, <4>2, <4>4
    <3> QED
      BY <3>3, <3>4
  <2> QED
    BY <2>3, <2>4, <2>5
<1> QED
  BY <1>10, <1>11

LEMMA MatchReaches ==
  ASSUME NEW t, NEW sym, IsPattern(t, sym), NEW word \in Seq(Chars)
  PROVE  check_match(t.ch, sym, word) = "YES" <=>
           Len(word) + 1 \in Reach(t, Lists(t), word)[Len(t.ch)]
<1>. DEFINE n == Len(t.ch)
            m == Len(word)
            reach == Reach(t, Lists(t), word)
<1>1. IsText(t) /\ t.ch \in Seq(Chars) /\ n \in Nat /\ m \in Nat
  BY DEF IsPattern, IsText
<1>2. PICK c : IsCheck(c, t.ch, sym, word) /\ check_match(t.ch, sym, word) = c[1][1]
  BY <1>1, CheckRun
<1>3. reach[0] = {1} /\ \A i \in 0 .. n : reach[i] \subseteq 1 .. m + 1
  BY <1>1, ReachRun
<1>. DEFINE T == {i \in Nat : i <= n => ReachInv(t, word, c, i)}
<1>4. 0 \in T
  <2>1. (c[1][1] = "YES") <=> \E k \in reach[0] : c[0 + 1][k] = "YES"
    <3>1. 0 + 1 = 1
      OBVIOUS
    <3>. HIDE DEF reach
    <3> QED
      BY <1>3, <3>1
  <2>2. ASSUME NEW l, Within(t, l, 0 + 1) PROVE FALSE
    <3>1. l \in Starts(t) /\ l < 0 + 1
      BY <2>2 DEF Within
    <3>2. l \in 1 .. n
      BY <1>1, <3>1, StartTypes
    <3> QED
      BY <3>1, <3>2
  <2>3. ReachInv(t, word, c, 0)
    BY <2>1, <2>2, Zenon DEF ReachInv
  <2> QED
    BY <2>3
<1>5. ASSUME NEW i \in Nat, i \in T PROVE i + 1 \in T
  <2>. SUFFICES ASSUME i + 1 <= n PROVE ReachInv(t, word, c, i + 1)
    OBVIOUS
  <2>1. i + 1 \in 1 .. n /\ (i + 1) - 1 = i /\ ReachInv(t, word, c, i)
    BY <1>1, <1>5
  <2>2. ReachInv(t, word, c, (i + 1) - 1)
    BY <2>1
  <2> QED
    BY <1>2, <2>1, <2>2, ReachStepInv
<1>. HIDE DEF T
<1>6. n \in T
  BY <1>1, <1>4, <1>5, NatSetInduction
<1>7. (c[1][1] = "YES") <=> \E k \in reach[n] : c[n + 1][k] = "YES"
  <2>1. ReachInv(t, word, c, n)
    BY <1>1, <1>6 DEF T
  <2> QED
    BY <2>1, Zenon DEF ReachInv
<1>8. \A k \in 1 .. m + 1 : c[n + 1][k] = "YES" <=> k = m + 1
  BY <1>1, <1>2 DEF IsCheck
<1>9. reach[n] \subseteq 1 .. m + 1
  BY <1>1, <1>3
<1>. HIDE DEF reach
<1>10. (\E k \in reach[n] : c[n + 1][k] = "YES") <=> m + 1 \in reach[n]
  BY <1>8, <1>9
<1> QED
  BY <1>2, <1>7, <1>10 DEF reach

(* The rule for names that begin with a dot *)
LEMMA DotFlag ==
  ASSUME NEW t, NEW sym, IsPattern(t, sym)
  PROVE  LiteralDot(t.ch, sym) <=>
           \E i \in t.kept : t.ch[i] = "." /\ \A j \in t.kept : i <= j
<1>. DEFINE n == Len(t.ch)
<1>1. IsText(t) /\ Lists(t).closed /\ IsParsed(t, sym) /\ n \in Nat /\ t.kept \subseteq 1 .. n
  BY DEF IsPattern, IsText
<1>2. \A l \in Starts(t) : l \in 1 .. n /\ l \in t.kept /\ sym[l] = "LIST_BEGIN"
  <2>. TAKE l \in Starts(t)
  <2>1. l \in 1 .. n /\ Is(t, l, "[")
    BY <1>1, StartsFacts
  <2>2. sym[l] = "LIST_BEGIN"
    BY <1>1, <2>1, ParsedFacts
  <2> QED
    BY <1>1, <2>1, <2>2 DEF Is, IsText
<1>3. ASSUME NEW i \in 1 .. n, \A l \in Starts(t) : ~(l < i) PROVE sym[i] = PlainTag(t, i)
  BY <1>1, <1>3 DEF IsParsed, Within
<1>4. \A i : PlainTag(t, i) = "IGNORE" <=> i \notin t.kept
  BY DEF PlainTag
<1>5. \A i \in t.kept : t.ch[i] = "." => PlainTag(t, i) = "LITERAL"
  BY DEF PlainTag, Is
<1>6. ASSUME NEW i \in 1 .. n, sym[i] = "LITERAL", t.ch[i] = ".",
             \A j \in 1 .. i - 1 : sym[j] = "IGNORE"
      PROVE  i \in t.kept /\ \A j \in t.kept : i <= j
  <2>1. \A l \in Starts(t) : ~(l < i)
    BY <1>1, <1>2, <1>6
  <2>2. i \in t.kept
    <3>1. PlainTag(t, i) = "LITERAL"
      BY <1>3, <1>6, <2>1
    <3> QED
      BY <1>4, <3>1
  <2>3. ASSUME NEW j \in t.kept, ~(i <= j) PROVE FALSE
    <3>1. j \in 1 .. n /\ j \in 1 .. i - 1
      BY <1>1, <2>3
    <3>2. \A l \in Starts(t) : ~(l < j)
      BY <1>1, <1>2, <2>1, <3>1
    <3>3. PlainTag(t, j) = "IGNORE"
      BY <1>3, <1>6, <3>1, <3>2
    <3> QED
      BY <1>4, <2>3, <3>3
  <2> QED
    BY <2>2, <2>3
<1>7. ASSUME NEW i \in t.kept, t.ch[i] = ".", \A j \in t.kept : i <= j
      PROVE  i \in 1 .. n /\ sym[i] = "LITERAL" /\ \A j \in 1 .. i - 1 : sym[j] = "IGNORE"
  <2>1. i \in 1 .. n
    BY <1>1
  <2>2. \A l \in Starts(t) : i <= l /\ l \in 1 .. n
    BY <1>2, <1>7
  <2>3. sym[i] = "LITERAL"
    <3>1. \A l \in Starts(t) : ~(l < i)
      BY <2>1, <2>2
    <3> QED
      BY <1>3, <1>5, <1>7, <2>1, <3>1
  <2>4. ASSUME NEW j \in 1 .. i - 1 PROVE sym[j] = "IGNORE"
    <3>1. j \in 1 .. n /\ j < i
      BY <1>1, <2>1
    <3>2. j \notin t.kept
      BY <1>7, <2>1, <3>1
    <3>3. \A l \in Starts(t) : ~(l < j)
      BY <2>1, <2>2, <3>1
    <3> QED
      BY <1>3, <1>4, <3>1, <3>2, <3>3
  <2> QED
    BY <2>1, <2>3, <2>4
<1> QED
  BY <1>1, <1>6, <1>7 DEF LiteralDot

(***************************************************************************)
(* match() finds a word exactly if the pattern stands for it, whatever     *)
(* their lengths: the flags of check_match(), its test at the end of a     *)
(* list and its shortcuts for * agree with the positions that the pattern  *)
(* can reach in the word, and so does the rule for a leading dot.          *)
(***************************************************************************)
THEOREM MatchesAsShell ==
  ASSUME NEW t, NEW sym, IsPattern(t, sym), NEW word \in Seq(Chars)
  PROVE  match(t.ch, sym, word) <=> ShellMatch(t, Lists(t), word)
<1>. DEFINE dot == \E i \in t.kept : t.ch[i] = "." /\ \A j \in t.kept : i <= j
<1>1. check_match(t.ch, sym, word) = "YES" <=>
        Len(word) + 1 \in Reach(t, Lists(t), word)[Len(t.ch)]
  BY MatchReaches
<1>2. LiteralDot(t.ch, sym) <=> dot
  BY DotFlag
<1>3. match(t.ch, sym, word) <=>
        /\ word # <<>> /\ word[1] = "." => LiteralDot(t.ch, sym)
        /\ check_match(t.ch, sym, word) = "YES"
  BY Zenon DEF match
<1>4. ShellMatch(t, Lists(t), word) <=>
        /\ Len(word) + 1 \in Reach(t, Lists(t), word)[Len(t.ch)]
        /\ word # <<>> /\ word[1] = "." => dot
  BY Zenon DEF ShellMatch
<1>. HIDE DEF dot
<1> QED
  BY <1>1, <1>2, <1>3, <1>4, Zenon

-----------------------------------------------------------------------------
(* The whole expression *)

LEMMA SreCases ==
  ASSUME NEW e \in Seq(Chars)
  PROVE  LET closed == /\ QuotingStates(e)[Len(e)] = "NORMAL"
                       /\ MetaStates(e, Quoted(e))[Len(e)] = "NORMAL"
         IN  /\ closed => /\ check_sre(e).err = "NONE"
                          /\ check_sre(e).sym = Ranges(e, Tagged(e, Quoted(e)))
             /\ ~closed => check_sre(e).err # "NONE"
<1>. DEFINE quoting == QuotingStates(e)[Len(e)]
            meta == MetaStates(e, Quoted(e))[Len(e)]
            tags == Tagged(e, Quoted(e))
<1>1. quoting \in {"NORMAL", "BACKSLASH", "SINGLE", "DOUBLE", "DOUBLE_BACKSLASH"}
  <2>1. Len(e) \in 0 .. Len(e)
    OBVIOUS
  <2> QED
    BY <2>1, QuotingRun DEF QStates
<1>2. CASE quoting = "NORMAL" /\ meta = "NORMAL"
  <2>1. check_sre(e) = [err |-> "NONE", sym |-> Ranges(e, tags)]
    BY <1>2, Zenon DEF check_sre
  <2> QED
    BY <1>2, <2>1
<1>3. CASE quoting = "NORMAL" /\ meta # "NORMAL"
  <2>1. check_sre(e) = [err |-> "UNBALANCED", sym |-> <<>>]
    BY <1>3, Zenon DEF check_sre
  <2> QED
    BY <1>3, <2>1
<1>4. CASE quoting = "BACKSLASH"
  <2>1. check_sre(e) = [err |-> "BACKSLASH", sym |-> <<>>]
    BY <1>4, Zenon DEF check_sre
  <2> QED
    BY <1>4, <2>1
<1>5. CASE quoting = "SINGLE"
  <2>1. check_sre(e) = [err |-> "MISSING_SINGLE", sym |-> <<>>]
    BY <1>5, Zenon DEF check_sre
  <2> QED
    BY <1>5, <2>1
<1>6. CASE quoting \in {"DOUBLE", "DOUBLE_BACKSLASH"}
  <2>1. check_sre(e) = [err |-> "MISSING_DOUBLE", sym |-> <<>>]
    BY <1>6, Zenon DEF check_sre
  <2> QED
    BY <1>6, <2>1
<1> QED
  BY <1>1, <1>2, <1>3, <1>4, <1>5, <1>6

(* check_sre() reads a complete expression as a pattern. *)
LEMMA SreIsPattern ==
  ASSUME NEW e \in Seq(Chars), Text(e).closed, Lists(Text(e)).closed
  PROVE  check_sre(e).err = "NONE" /\ IsPattern(Text(e), check_sre(e).sym)
<1>. DEFINE t == Text(e)
            sym == Quoted(e)
            tags == Tagged(e, sym)
<1>1. IsText(t) /\ t.ch = e
  BY TextIsText, TextParts
<1>2. IsQuoted(t, sym)
  BY <1>1, QuotedIsText DEF IsQuoted
<1>3. QuotingStates(e)[Len(e)] = "NORMAL"
  BY ClosedText
<1>. HIDE DEF t, sym
<1>4. MetaStates(e, sym)[Len(e)] = "NORMAL"
  <2>1. Lists(t).closed <=> MetaStates(t.ch, sym)[Len(t.ch)] = "NORMAL"
    BY <1>1, <1>2, ClosedLists
  <2>2. Lists(t).closed
    BY DEF t
  <2> QED
    BY <1>1, <2>1, <2>2
<1>5. tags \in [1 .. Len(t.ch) -> Symbols] /\ IsTagged(t, tags)
  BY <1>1, <1>2, TaggedType, TaggedIsTagged
<1>6. IsParsed(t, Ranges(e, tags))
  <2>1. Lists(t).closed
    BY DEF t
  <2>. HIDE DEF tags
  <2> QED
    BY <1>1, <1>5, <2>1, RangesIsParsed
<1>7. check_sre(e).err = "NONE" /\ check_sre(e).sym = Ranges(e, tags)
  BY <1>3, <1>4, SreCases DEF sym
<1> QED
  BY <1>1, <1>6, <1>7 DEF IsPattern, t

(* and rejects any other. *)
LEMMA SreRejects ==
  ASSUME NEW e \in Seq(Chars), ~(Text(e).closed /\ Lists(Text(e)).closed)
  PROVE  check_sre(e).err # "NONE"
<1>. DEFINE t == Text(e)
            sym == Quoted(e)
<1>1. IsText(t) /\ t.ch = e
  BY TextIsText, TextParts
<1>2. CASE ~t.closed
  <2>1. QuotingStates(e)[Len(e)] # "NORMAL"
    BY <1>2, ClosedText, Zenon
  <2> QED
    BY <2>1, SreCases
<1>3. CASE t.closed
  <2>1. IsQuoted(t, sym)
    BY <1>1, <1>3, QuotedIsText DEF IsQuoted
  <2>. HIDE DEF t, sym
  <2>2. Lists(t).closed <=> MetaStates(t.ch, sym)[Len(t.ch)] = "NORMAL"
    BY <1>1, <2>1, ClosedLists
  <2>3. ~Lists(t).closed
    BY <1>3, Zenon DEF t
  <2>4. MetaStates(e, Quoted(e))[Len(e)] # "NORMAL"
    BY <1>1, <2>2, <2>3 DEF sym
  <2> QED
    BY <2>4, SreCases
<1> QED
  BY <1>2, <1>3

LEMMA BooleanEquality ==
  ASSUME NEW a \in BOOLEAN, NEW b \in BOOLEAN, a <=> b
  PROVE  a = b
OBVIOUS

(***************************************************************************)
(* What the runs check for short expressions and words holds for all of    *)
(* them: check_sre() accepts an expression exactly if its quotes and lists *)
(* are complete, and match() finds exactly the names that a shell would.   *)
(***************************************************************************)
THEOREM PatternsCorrect == PatternsAreShell
<1>. SUFFICES ASSUME NEW e \in Expressions
              PROVE  IF Text(e).closed /\ Lists(Text(e)).closed
                     THEN check_sre(e).err = "NONE"
                            /\ \A w \in Words :
                                 match(e, check_sre(e).sym, w)
                                   = ShellMatch(Text(e), Lists(Text(e)), w)
                     ELSE check_sre(e).err # "NONE"
  BY Zenon DEF PatternsAreShell
<1>1. e \in Seq(Chars) /\ \A w \in Words : w \in Seq(Chars)
  BY ExpressionsAssumption
<1>. DEFINE t == Text(e)
            code == check_sre(e)
<1>2. CASE t.closed /\ Lists(t).closed
  <2>1. code.err = "NONE" /\ IsPattern(t, code.sym) /\ t.ch = e
    BY <1>1, <1>2, SreIsPattern, TextParts
  <2>2. ASSUME NEW w \in Words PROVE match(e, code.sym, w) = ShellMatch(t, Lists(t), w)
    <3>. HIDE DEF t, code
    <3>1. match(e, code.sym, w) <=> ShellMatch(t, Lists(t), w)
      BY <1>1, <2>1, MatchesAsShell
    <3>2. match(e, code.sym, w) \in BOOLEAN /\ ShellMatch(t, Lists(t), w) \in BOOLEAN
      BY Zenon DEF match, ShellMatch
    <3> QED
      BY <3>1, <3>2, BooleanEquality
  <2> QED
    BY <1>2, <2>1, <2>2, Zenon
<1>3. CASE ~(t.closed /\ Lists(t).closed)
  <2>1. code.err # "NONE"
    BY <1>1, <1>3, SreRejects
  <2> QED
    BY <1>3, <2>1, Zenon
<1> QED
  BY <1>2, <1>3

(***************************************************************************)
(* The property of the runs, for every instance of the panels: whatever    *)
(* expression is entered as a filter or to select files, check_sre()       *)
(* rejects it exactly if something is left open, and match() finds the     *)
(* names that a shell would.                                               *)
(***************************************************************************)
THEOREM MatcherCorrect == Spec => []MatchIsShell
<1>1. MatchIsShell
  BY PatternsCorrect, Zenon DEF MatchIsShell
<1> QED
  BY <1>1, PTL
=============================================================================
