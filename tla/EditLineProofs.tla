---------------------------- MODULE EditLineProofs -----------------------------
(***************************************************************************)
(* Theorems about the command line, for any characters, texts, ring sizes  *)
(* and windows.                                                            *)
(*                                                                         *)
(* The first part is about edit_adjust() and needs arithmetic only.  The   *)
(* second part shows that the ring of saved states is a sequence whose     *)
(* oldest element is dropped when it is full, and that the snapshots and   *)
(* the line are always one inserted or deleted piece of text apart.        *)
(***************************************************************************)
EXTENDS EditLine, WellFoundedInduction, TLAPS

-----------------------------------------------------------------------------
(* The least of a set of natural numbers *)
LEMMA LeastNatural ==
  ASSUME NEW T, T \subseteq Nat, T # {}
  PROVE  \E x \in T : \A y \in T : x <= y
  <1>1. IsWellFoundedOn(OpToRel(<, Nat), Nat)
    BY NatLessThanWellFounded
  <1>2. \E x \in T : \A y \in T : ~(<<y, x>> \in OpToRel(<, Nat))
    BY <1>1, WFMin
  <1>3. \E x \in T : \A y \in T : ~(y < x)
    BY <1>2 DEF OpToRel
  <1> QED BY <1>3

-----------------------------------------------------------------------------
(* Multiples of the step. *)

Multiple(x) == x \in Int /\ \E k \in Int : x = k * OFFSET_STEP

LEMMA MultipleMod ==
  ASSUME NEW x, Multiple(x)
  PROVE  x % OFFSET_STEP = 0
<1>1. \A k \in Int : (k * OFFSET_STEP) % OFFSET_STEP = 0
  BY AreasAssumption
<1> QED
  BY <1>1 DEF Multiple

LEMMA MultipleSum ==
  ASSUME NEW x, NEW y, Multiple(x), Multiple(y)
  PROVE  Multiple(x + y) /\ Multiple(x - y)
<1>1. PICK k \in Int : x = k * OFFSET_STEP
  BY DEF Multiple
<1>2. PICK m \in Int : y = m * OFFSET_STEP
  BY DEF Multiple
<1>3. OFFSET_STEP \in Int
  BY AreasAssumption
<1>4. /\ k * OFFSET_STEP + m * OFFSET_STEP = (k + m) * OFFSET_STEP
      /\ k * OFFSET_STEP - m * OFFSET_STEP = (k - m) * OFFSET_STEP
  BY <1>3
<1>5. k + m \in Int /\ k - m \in Int /\ x + y \in Int /\ x - y \in Int
  BY DEF Multiple
<1> QED
  BY <1>1, <1>2, <1>4, <1>5 DEF Multiple

LEMMA MultipleConstants == Multiple(0) /\ Multiple(OFFSET_STEP)
<1>1. OFFSET_STEP \in Int /\ 0 = 0 * OFFSET_STEP
        /\ OFFSET_STEP = 1 * OFFSET_STEP
  BY AreasAssumption
<1> QED
  BY <1>1 DEF Multiple

(* The two macros round to a multiple less than one step away. *)
LEMMA RoundDown ==
  ASSUME NEW x \in Int
  PROVE  /\ Multiple(ROUND_DOWN(x))
         /\ ROUND_DOWN(x) \in Int
         /\ ROUND_DOWN(x) <= x /\ x < ROUND_DOWN(x) + OFFSET_STEP
<1>1. /\ (x \div OFFSET_STEP) \in Int
      /\ (x \div OFFSET_STEP) * OFFSET_STEP \in Int
      /\ (x \div OFFSET_STEP) * OFFSET_STEP <= x
      /\ x < (x \div OFFSET_STEP) * OFFSET_STEP + OFFSET_STEP
  BY AreasAssumption
<1> QED
  BY <1>1 DEF ROUND_DOWN, Multiple

LEMMA RoundUp ==
  ASSUME NEW x \in Int
  PROVE  /\ Multiple(ROUND_UP(x))
         /\ ROUND_UP(x) \in Int
         /\ x <= ROUND_UP(x) /\ ROUND_UP(x) < x + OFFSET_STEP
<1>. DEFINE y == x + OFFSET_STEP - 1
<1>1. y \in Int /\ OFFSET_STEP \in Int
  BY AreasAssumption
<1>2. ROUND_UP(x) = ROUND_DOWN(y)
  BY DEF ROUND_UP, ROUND_DOWN
<1>3. /\ Multiple(ROUND_DOWN(y)) /\ ROUND_DOWN(y) \in Int
      /\ ROUND_DOWN(y) <= y /\ y < ROUND_DOWN(y) + OFFSET_STEP
  BY <1>1, RoundDown
<1> QED
  BY <1>1, <1>2, <1>3

(* The lowest multiple that is not negative is zero. *)
LEMMA RoundDownNat ==
  ASSUME NEW x \in Nat
  PROVE  ROUND_DOWN(x) \in Nat
<1>1. PICK k \in Int : ROUND_DOWN(x) = k * OFFSET_STEP
  BY RoundDown DEF Multiple
<1>2. OFFSET_STEP \in Nat \ {0} /\ x < k * OFFSET_STEP + OFFSET_STEP
  BY <1>1, RoundDown, AreasAssumption
<1>3. k >= 0
  <2>1. SUFFICES ASSUME k <= -1 PROVE FALSE
    OBVIOUS
  <2>2. k * OFFSET_STEP <= -OFFSET_STEP
    BY <1>2, <2>1
  <2> QED
    BY <1>2, <2>2
<1>4. k * OFFSET_STEP \in Nat
  BY <1>2, <1>3
<1> QED
  BY <1>1, <1>4

-----------------------------------------------------------------------------
(* The displayed part of the line. *)

(* Filling the window does not move its beginning to the right. *)
LEMMA FilledOffset ==
  ASSUME NEW size \in Nat, NEW offset \in Nat, Multiple(offset), NEW area \in Nat
  PROVE  LET f == Filled(size, offset, area)
         IN  f \in Nat /\ f <= offset /\ Multiple(f)
<1>. DEFINE delta == area - (1 + size - offset)
            r == ROUND_DOWN(delta)
            o == offset - r
<1>1. delta \in Int /\ OFFSET_STEP \in Nat \ {0}
  BY AreasAssumption
<1>2. Filled(size, offset, area) =
        IF offset = 0 \/ delta < OFFSET_STEP THEN offset
        ELSE IF o < 0 THEN 0 ELSE o
  BY DEF Filled
<1>. HIDE DEF delta
<1>3. r \in Int /\ Multiple(r) /\ delta < r + OFFSET_STEP
  BY <1>1, RoundDown
<1>. HIDE DEF r
<1>4. Multiple(o) /\ Multiple(0) /\ o \in Int
  BY <1>3, MultipleSum, MultipleConstants
<1>5. delta >= OFFSET_STEP => r >= 0
  BY <1>1, <1>3
<1>6. CASE offset = 0 \/ delta < OFFSET_STEP
  BY <1>2, <1>6
<1>7. CASE delta >= OFFSET_STEP /\ offset # 0
  <2>1. CASE o < 0
    BY <1>1, <1>2, <1>4, <1>7, <2>1
  <2>2. CASE o >= 0
    <3>1. Filled(size, offset, area) = o
      BY <1>1, <1>2, <1>4, <1>7, <2>2
    <3>2. o \in Nat /\ o <= offset
      BY <1>3, <1>5, <1>7, <2>2
    <3> QED
      BY <1>4, <3>1, <3>2
  <2> QED
    BY <1>4, <2>1, <2>2
<1> QED
  BY <1>1, <1>6, <1>7

(* What edit_adjust() computes, for a window that holds the prompt and a
   step, a cursor in the line and a previous offset that is a multiple. *)
LEMMA AdjustedOffset ==
  ASSUME NEW size \in Nat, NEW c \in 0 .. size,
         NEW offset \in Nat, Multiple(offset),
         NEW area \in Nat, NEW p \in Nat, p + OFFSET_STEP < area
  PROVE  LET o == edit_adjust(size, c, offset, area, p)
         IN  /\ o \in Nat /\ Multiple(o)
             /\ Position(c, o, p) >= (IF o = 0 THEN p ELSE 1)
             /\ Position(c, o, p) <= Screen(size, c, area)
<1>. DEFINE screen == Screen(size, c, area)
            left == IF offset > c THEN ROUND_DOWN(c) ELSE offset
            full == Filled(size, left, area)
            o == IF full = 0 /\ p + c > screen THEN OFFSET_STEP ELSE full
            delta == 1 + c - o - screen
            result == IF o # 0 /\ delta > 0 THEN o + ROUND_UP(delta) ELSE o
<1>1. edit_adjust(size, c, offset, area, p) = result
  BY DEF edit_adjust
<1>2. /\ OFFSET_STEP \in Nat \ {0} /\ c \in Nat
      /\ screen \in Int /\ screen >= area - 1
  BY AreasAssumption DEF Screen
<1>3. left \in Nat /\ left <= c /\ Multiple(left)
  BY <1>2, RoundDown, RoundDownNat
<1>. HIDE DEF screen, left
<1>4. full \in Nat /\ full <= left /\ Multiple(full)
  BY <1>3, FilledOffset
<1>. HIDE DEF full
<1>5. o \in Nat /\ Multiple(o) /\ o <= c /\ (o = 0 => p + c <= screen)
  <2>1. CASE full = 0 /\ p + c > screen
    <3>1. o = OFFSET_STEP /\ OFFSET_STEP <= c
      BY <1>2, <2>1
    <3> QED
      BY <1>2, <3>1, MultipleConstants
  <2>2. CASE ~(full = 0 /\ p + c > screen)
    <3>1. o = full
      BY <2>2
    <3> QED
      BY <1>2, <1>3, <1>4, <2>2, <3>1
  <2> QED
    BY <2>1, <2>2
<1>. HIDE DEF o
<1>6. delta \in Int
  BY <1>2, <1>5
<1>7. CASE o # 0 /\ delta > 0
  <2>. DEFINE u == ROUND_UP(delta)
  <2>1. u \in Int /\ Multiple(u) /\ delta <= u /\ u < delta + OFFSET_STEP
    BY <1>6, RoundUp
  <2>2. result = o + u
    BY <1>7
  <2>. HIDE DEF u
  <2>3. /\ result \in Nat /\ result # 0
        /\ 1 + c - result <= screen /\ 1 + c - result >= 1
    BY <1>2, <1>5, <1>6, <1>7, <2>1, <2>2
  <2>4. Multiple(result)
    BY <1>5, <2>1, <2>2, MultipleSum
  <2>5. Position(c, result, p) = 1 + c - result
    BY <2>3 DEF Position
  <2>. HIDE DEF result
  <2> QED
    BY <1>1, <1>2, <2>3, <2>4, <2>5 DEF screen
<1>8. CASE o = 0
  <2>1. result = 0 /\ Position(c, 0, p) = c + p /\ c + p >= p /\ c + p <= screen
    BY <1>2, <1>5, <1>8 DEF Position
  <2>. HIDE DEF result
  <2> QED
    BY <1>1, <1>5, <1>8, <2>1 DEF screen
<1>9. CASE o # 0 /\ ~(delta > 0)
  <2>1. result = o /\ Position(c, o, p) = 1 + c - o
    BY <1>9 DEF Position
  <2>2. 1 + c - o >= 1 /\ 1 + c - o <= screen
    BY <1>2, <1>5, <1>6, <1>9
  <2>. HIDE DEF result
  <2> QED
    BY <1>1, <1>5, <1>9, <2>1, <2>2 DEF screen
<1> QED
  BY <1>7, <1>8, <1>9

-----------------------------------------------------------------------------
(* Lines and editing functions. *)

Letters == Chars \cup {Slash}

(* A text of any length with the cursor in it. *)
State(t) ==
  /\ t \in [line : Seq(Letters), curs : Nat]
  /\ t.curs <= Len(t.line)

LEMMA LinesAre ==
  ASSUME NEW s
  PROVE  s \in Lines <=> s \in Seq(Letters) /\ Len(s) <= MaxLen
<1>1. ASSUME s \in Lines PROVE s \in Seq(Letters) /\ Len(s) <= MaxLen
  <2>1. PICK n \in 0 .. MaxLen : s \in [1 .. n -> Letters]
    BY <1>1 DEF Lines, Letters
  <2>2. n \in Nat /\ n <= MaxLen
    BY TextsAssumption
  <2>3. s \in Seq(Letters) /\ Len(s) = n
    BY <2>1, <2>2
  <2> QED
    BY <2>2, <2>3
<1>2. ASSUME s \in Seq(Letters), Len(s) <= MaxLen PROVE s \in Lines
  <2>1. Len(s) \in 0 .. MaxLen /\ s \in [1 .. Len(s) -> Letters]
    BY <1>2, TextsAssumption
  <2> QED
    BY <2>1 DEF Lines, Letters
<1> QED
  BY <1>1, <1>2

LEMMA StatesAre ==
  ASSUME NEW t
  PROVE  t \in LineStates <=> State(t) /\ Fits(t)
<1>1. ASSUME t \in LineStates PROVE State(t) /\ Fits(t)
  <2>1. PICK s \in Lines : t \in [line : {s}, curs : 0 .. Len(s)]
    BY <1>1 DEF LineStates
  <2>2. s \in Seq(Letters) /\ Len(s) <= MaxLen /\ Len(s) \in Nat
    BY LinesAre
  <2>3. t = [line |-> t.line, curs |-> t.curs] /\ t.line = s
          /\ t.curs \in Nat /\ t.curs <= Len(s)
    BY <2>1, <2>2
  <2> QED
    BY <2>2, <2>3 DEF State, Fits
<1>2. ASSUME State(t), Fits(t) PROVE t \in LineStates
  <2>1. t.line \in Lines /\ t.curs \in 0 .. Len(t.line)
    BY <1>2, LinesAre DEF State, Fits
  <2>2. t \in [line : {t.line}, curs : 0 .. Len(t.line)]
    BY <1>2, <2>1 DEF State
  <2> QED
    BY <2>1, <2>2 DEF LineStates
<1> QED
  BY <1>1, <1>2

LEMMA LettersAre ==
  /\ Space \in Letters /\ Slash \in Letters /\ Chars \subseteq Letters
  /\ \A r \in Texts \cup Recalls \cup {<<>>} : r \in Seq(Letters)
<1>1. <<>> \in Seq(Letters)
  OBVIOUS
<1>2. \A r \in Texts \cup Recalls : r \in Seq(Letters)
  BY TextsAssumption DEF Letters
<1>3. Space \in Letters /\ Slash \in Letters /\ Chars \subseteq Letters
  BY CharsAssumption DEF Letters
<1> QED
  BY <1>1, <1>2, <1>3

LEMMA ToState ==
  ASSUME NEW t, State(t), NEW c \in 0 .. Len(t.line)
  PROVE  State(To(t, c)) /\ To(t, c).line = t.line /\ To(t, c).curs = c
BY DEF State, To

LEMMA Concatenated ==
  ASSUME NEW S, NEW a \in Seq(S), NEW b \in Seq(S)
  PROVE  a \o b \in Seq(S) /\ Len(a \o b) = Len(a) + Len(b)
OBVIOUS

LEMMA InsertedState ==
  ASSUME NEW t, State(t), NEW s \in Seq(Letters)
  PROVE  State(Inserted(t, s))
<1>1. t.line \in Seq(Letters) /\ t.curs \in 0 .. Len(t.line)
  BY DEF State
<1>. DEFINE a == SubSeq(t.line, 1, t.curs)
            b == SubSeq(t.line, t.curs + 1, Len(t.line))
<1>2. a \in Seq(Letters) /\ Len(a) = t.curs /\ b \in Seq(Letters)
  BY <1>1
<1>. HIDE DEF a, b
<1>3. a \o s \o b \in Seq(Letters) /\ Len(a \o s \o b) = t.curs + Len(s) + Len(b)
  <2>1. a \o s \in Seq(Letters) /\ Len(a \o s) = Len(a) + Len(s)
    BY <1>2, Concatenated
  <2>. DEFINE c == a \o s
  <2>. HIDE DEF c
  <2>2. c \o b \in Seq(Letters) /\ Len(c \o b) = Len(c) + Len(b)
    BY <1>2, <2>1, Concatenated DEF c
  <2> QED
    BY <1>2, <2>1, <2>2 DEF c
<1>4. Len(b) \in Nat /\ Len(s) \in Nat /\ t.curs \in Nat
  BY <1>1, <1>2
<1>5. t.curs + Len(s) \in Nat /\ t.curs + Len(s) <= Len(a \o s \o b)
  BY <1>3, <1>4
<1>6. Inserted(t, s) = [line |-> a \o s \o b, curs |-> t.curs + Len(s)]
  BY DEF Inserted, a, b
<1> QED
  BY <1>3, <1>5, <1>6 DEF State

LEMMA DeletedState ==
  ASSUME NEW t, State(t), NEW n \in 0 .. Len(t.line) - t.curs
  PROVE  State(Deleted(t, n))
<1>1. t.line \in Seq(Letters) /\ t.curs \in 0 .. Len(t.line)
  BY DEF State
<1>. DEFINE a == SubSeq(t.line, 1, t.curs)
            b == SubSeq(t.line, t.curs + n + 1, Len(t.line))
<1>2. a \in Seq(Letters) /\ Len(a) = t.curs /\ b \in Seq(Letters)
  BY <1>1
<1>3. Deleted(t, n) = [t EXCEPT !.line = a \o b]
  BY DEF Deleted
<1>. HIDE DEF a, b
<1>4. a \o b \in Seq(Letters) /\ Len(a \o b) = t.curs + Len(b) /\ Len(b) \in Nat
  BY <1>2
<1>5. t.curs <= Len(a \o b)
  BY <1>1, <1>4
<1> QED
  BY <1>3, <1>4, <1>5 DEF State

LEMMA PutState ==
  ASSUME NEW s \in Seq(Letters)
  PROVE  State(Put(s))
BY DEF State, Put

(* The searches for the bounds of words find a position in the line. *)
LEMMA LeastIn ==
  ASSUME NEW T, T \subseteq Nat, T # {}
  PROVE  Least(T) \in T
BY LeastNatural DEF Least

LEMMA GreatestIn ==
  ASSUME NEW n \in Nat, NEW T, T \subseteq 0 .. n, T # {}
  PROVE  Greatest(T) \in T
<1>. DEFINE U == {n - i : i \in T}
<1>1. U \subseteq Nat /\ U # {}
  OBVIOUS
<1>2. PICK x \in U : \A y \in U : x <= y
  BY <1>1, LeastNatural
<1>3. PICK i \in T : x = n - i
  OBVIOUS
<1>4. \A j \in T : i >= j
  <2>1. ASSUME NEW j \in T PROVE i >= j
    <3>1. n - j \in U
      OBVIOUS
    <3>2. n - i <= n - j
      BY <1>2, <1>3, <3>1
    <3> QED
      BY <3>2
  <2> QED
    BY <2>1
<1>5. \E k \in T : \A j \in T : k >= j
  BY <1>4
<1> QED
  BY <1>5 DEF Greatest

LEMMA WordBounds ==
  ASSUME NEW t, State(t)
  PROVE  /\ WordStart(t) \in 0 .. t.curs
         /\ WordEnd(t.line, t.curs) \in t.curs .. Len(t.line)
         /\ NextWord(t.line, WordEnd(t.line, t.curs)) \in t.curs .. Len(t.line)
<1>1. t.curs \in Nat /\ Len(t.line) \in Nat /\ t.curs <= Len(t.line)
  BY DEF State
<1>2. WordStart(t) \in 0 .. t.curs
  <2>. DEFINE T == {i \in 0 .. t.curs :
                i = 0 \/ (SpaceAt(t.line, i) /\ ~SpaceAt(t.line, i + 1) /\ i < t.curs)}
  <2>1. T \subseteq 0 .. t.curs /\ 0 \in T
    BY <1>1
  <2>. HIDE DEF T
  <2>2. Greatest(T) \in T
    BY <1>1, <2>1, GreatestIn
  <2> QED
    BY <2>1, <2>2 DEF WordStart, T
<1>3. ASSUME NEW c \in t.curs .. Len(t.line)
      PROVE  /\ WordEnd(t.line, c) \in t.curs .. Len(t.line)
             /\ NextWord(t.line, c) \in t.curs .. Len(t.line)
  <2>. DEFINE T == {i \in c .. Len(t.line) : i = Len(t.line) \/ SpaceAt(t.line, i + 1)}
              U == {i \in c .. Len(t.line) : ~SpaceAt(t.line, i + 1)}
  <2>1. c .. Len(t.line) \subseteq t.curs .. Len(t.line) /\ c .. Len(t.line) \subseteq Nat
          /\ Len(t.line) \in c .. Len(t.line)
    BY <1>1
  <2>2. ~SpaceAt(t.line, Len(t.line) + 1)
    <3>1. DOMAIN t.line = 1 .. Len(t.line)
      BY DEF State
    <3>2. Len(t.line) + 1 \notin 1 .. Len(t.line)
      BY <1>1
    <3> QED
      BY <3>1, <3>2 DEF SpaceAt
  <2>3. Len(t.line) \in T /\ Len(t.line) \in U
          /\ T \subseteq c .. Len(t.line) /\ U \subseteq c .. Len(t.line)
    BY <2>1, <2>2
  <2>4. WordEnd(t.line, c) = Least(T) /\ NextWord(t.line, c) = Least(U)
    BY DEF WordEnd, NextWord
  <2>. HIDE DEF T, U
  <2>5. Least(T) \in T /\ Least(U) \in U
    <3>1. T \subseteq Nat /\ U \subseteq Nat /\ T # {} /\ U # {}
      BY <2>1, <2>3
    <3> QED
      BY <3>1, LeastIn
  <2> QED
    BY <2>1, <2>3, <2>4, <2>5
<1>4. t.curs \in t.curs .. Len(t.line)
  BY <1>1
<1> QED
  BY <1>2, <1>3, <1>4

LEMMA MovesInLine ==
  ASSUME NEW t, State(t), NEW c \in Moves(t)
  PROVE  c \in 0 .. Len(t.line)
<1>1. t.curs \in Nat /\ Len(t.line) \in Nat /\ t.curs <= Len(t.line)
        /\ ScrCols \in Nat
  BY LevelsAssumption DEF State
<1>2. /\ WordStart(t) \in 0 .. t.curs
      /\ NextWord(t.line, WordEnd(t.line, t.curs)) \in t.curs .. Len(t.line)
  BY WordBounds
<1>3. \/ c \in {0, Len(t.line)}
      \/ t.curs > 0 /\ c \in {t.curs - 1, WordStart(t)}
      \/ t.curs < Len(t.line)
           /\ c \in {t.curs + 1, NextWord(t.line, WordEnd(t.line, t.curs))}
      \/ c = IF t.curs > ScrCols THEN t.curs - ScrCols ELSE 0
      \/ c = IF t.curs + ScrCols < Len(t.line) THEN t.curs + ScrCols ELSE Len(t.line)
  BY DEF Moves
<1> QED
  BY <1>1, <1>2, <1>3

LEMMA DeletionsState ==
  ASSUME NEW t, State(t)
  PROVE  /\ State(cx_edit_backsp(t)) /\ State(cx_edit_delchar(t))
         /\ State(cx_edit_delend(t)) /\ State(edit_w_del(t))
         /\ State(cx_edit_kill)
<1>1. t.curs \in Nat /\ Len(t.line) \in Nat /\ t.curs <= Len(t.line)
  BY DEF State
<1>2. State(cx_edit_backsp(t))
  <2>1. CASE t.curs > 0
    <3>. DEFINE u == To(t, t.curs - 1)
    <3>1. t.curs - 1 \in 0 .. Len(t.line)
      BY <1>1, <2>1
    <3>2. State(u) /\ u.line = t.line /\ u.curs = t.curs - 1
      BY <3>1, ToState
    <3>. HIDE DEF u
    <3>3. 1 \in 0 .. Len(u.line) - u.curs
      BY <1>1, <2>1, <3>2
    <3>4. State(Deleted(u, 1))
      BY <3>2, <3>3, DeletedState
    <3> QED
      BY <2>1, <3>4 DEF cx_edit_backsp, u
  <2> QED
    BY <2>1 DEF cx_edit_backsp
<1>3. State(cx_edit_delchar(t))
  <2>1. t.curs < Len(t.line) => 1 \in 0 .. Len(t.line) - t.curs
    BY <1>1
  <2> QED
    BY <2>1, DeletedState DEF cx_edit_delchar
<1>4. State(cx_edit_delend(t))
  <2>1. Len(t.line) - t.curs \in 0 .. Len(t.line) - t.curs
    BY <1>1
  <2> QED
    BY <2>1, DeletedState DEF cx_edit_delend
<1>5. State(edit_w_del(t))
  <2>1. CASE t.curs = Len(t.line) \/ SpaceAt(t.line, t.curs + 1)
    BY <2>1 DEF edit_w_del
  <2>2. CASE ~(t.curs = Len(t.line) \/ SpaceAt(t.line, t.curs + 1))
    <3>. DEFINE T == {i \in 0 .. t.curs : i = 0 \/ SpaceAt(t.line, i)}
                b == Greatest(T)
                e == NextWord(t.line, WordEnd(t.line, t.curs))
                u == To(t, b)
    <3>1. T \subseteq 0 .. t.curs /\ 0 \in T
      BY <1>1
    <3>2. edit_w_del(t) = Deleted(u, e - b)
      BY <2>2 DEF edit_w_del
    <3>. HIDE DEF T
    <3>3. b \in 0 .. t.curs
      BY <1>1, <3>1, GreatestIn
    <3>4. e \in t.curs .. Len(t.line)
      BY WordBounds
    <3>. HIDE DEF b, e
    <3>5. b \in 0 .. Len(t.line) /\ e - b \in 0 .. Len(t.line) - b
      BY <1>1, <3>3, <3>4
    <3>6. State(u) /\ u.line = t.line /\ u.curs = b
      BY <3>5, ToState
    <3>. HIDE DEF u
    <3> QED
      BY <3>2, <3>5, <3>6, DeletedState
  <2> QED
    BY <2>1, <2>2
<1>6. State(cx_edit_kill)
  BY LettersAre, PutState DEF cx_edit_kill
<1> QED
  BY <1>2, <1>3, <1>4, <1>5, <1>6

(* The states that completion may leave. *)
LEMMA CandidateState ==
  ASSUME NEW t, State(t), NEW s \in Rests, NEW u \in insert_candidate(t, s)
  PROVE  State(u)
<1>1. s \in Seq(Letters) /\ <<Slash>> \in Seq(Letters) /\ <<Space>> \in Seq(Letters)
  BY LettersAre DEF Rests
<1>. DEFINE v == Inserted(t, s)
<1>2. State(v)
  BY <1>1, InsertedState
<1>3. u \in {Inserted(v, <<Slash>>),
             IF SpaceAt(v.line, v.curs + 1) THEN To(v, v.curs + 1)
             ELSE Inserted(v, <<Space>>)}
  BY DEF insert_candidate
<1>. HIDE DEF v
<1>4. SpaceAt(v.line, v.curs + 1) => State(To(v, v.curs + 1))
  <2>1. SpaceAt(v.line, v.curs + 1) => v.curs + 1 \in 0 .. Len(v.line)
    BY <1>2 DEF State, SpaceAt
  <2> QED
    BY <1>2, <2>1, ToState
<1> QED
  BY <1>1, <1>2, <1>3, <1>4, InsertedState

-----------------------------------------------------------------------------
(***************************************************************************)
(* The ring.  At(b, i) is the slot of entry i when entry 0 is in slot b:   *)
(* the entries are numbered from the oldest to the newest.                 *)
(***************************************************************************)
Slots == 0 .. Levels - 1
At(b, i) == (b + i) % Levels

LEMMA OneTurn ==
  ASSUME NEW L \in Nat \ {0}, NEW a \in 0 .. 2 * L - 1
  PROVE  a % L = IF a < L THEN a ELSE a - L
OBVIOUS

LEMMA AtForm ==
  ASSUME NEW b \in Slots, NEW i \in 0 .. Levels
  PROVE  /\ At(b, i) = IF b + i < Levels THEN b + i ELSE b + i - Levels
         /\ At(b, i) \in Slots
<1>1. Levels \in Nat \ {0} /\ b + i \in 0 .. 2 * Levels - 1
  BY LevelsAssumption DEF Slots
<1>. DEFINE a == b + i
<1>2. a % Levels = IF a < Levels THEN a ELSE a - Levels
  <2>. HIDE DEF a
  <2>1. a \in 0 .. 2 * Levels - 1
    BY <1>1 DEF a
  <2> QED
    BY <1>1, <2>1, OneTurn
<1>3. CASE b + i < Levels
  BY <1>1, <1>2, <1>3 DEF At, Slots
<1>4. CASE ~(b + i < Levels)
  BY <1>1, <1>2, <1>4 DEF At, Slots
<1> QED
  BY <1>3, <1>4

(* Different entries are in different slots, and every slot has an entry. *)
LEMMA AtOneToOne ==
  ASSUME NEW b \in Slots
  PROVE  /\ \A i, j \in Slots : At(b, i) = At(b, j) => i = j
         /\ \A k \in Slots : \E i \in Slots : At(b, i) = k
<1>1. Levels \in Nat \ {0} /\ b \in 0 .. Levels - 1 /\ Slots = 0 .. Levels - 1
  BY LevelsAssumption DEF Slots
<1>2. \A i \in Slots : At(b, i) = IF b + i < Levels THEN b + i ELSE b + i - Levels
  <2>1. \A i \in Slots : i \in 0 .. Levels
    BY <1>1
  <2> QED
    BY <2>1, AtForm
<1>3. ASSUME NEW i \in Slots, NEW j \in Slots, At(b, i) = At(b, j)
      PROVE  i = j
  BY <1>1, <1>2, <1>3
<1>4. ASSUME NEW k \in Slots PROVE \E i \in Slots : At(b, i) = k
  <2>. DEFINE i == IF k >= b THEN k - b ELSE k - b + Levels
  <2>1. i \in Slots /\ (IF b + i < Levels THEN b + i ELSE b + i - Levels) = k
    BY <1>1
  <2>. HIDE DEF i
  <2> QED
    BY <1>2, <2>1
<1> QED
  BY <1>3, <1>4

(* Kept() finds the number of the entry in a slot. *)
LEMMA AtBack ==
  ASSUME NEW b \in Slots, NEW i \in Slots
  PROVE  (At(b, i) - b + Levels) % Levels = i
<1>1. /\ Levels \in Nat \ {0} /\ b \in 0 .. Levels - 1 /\ i \in 0 .. Levels - 1
      /\ \A a \in 0 .. 2 * Levels - 1 :
            a % Levels = IF a < Levels THEN a ELSE a - Levels
  BY LevelsAssumption DEF Slots
<1>2. At(b, i) = IF b + i < Levels THEN b + i ELSE b + i - Levels
  BY <1>1, AtForm
<1>. DEFINE d == At(b, i) - b + Levels
<1>3. d \in 0 .. 2 * Levels - 1 /\ (IF d < Levels THEN d ELSE d - Levels) = i
  BY <1>1, <1>2
<1>. HIDE DEF d
<1>4. d % Levels = i
  BY <1>1, <1>3
<1> QED
  BY <1>4 DEF d

LEMMA KeptEntries ==
  ASSUME NEW ring, NEW b \in Slots, NEW n
  PROVE  /\ DOMAIN Kept(ring, b, n) = Slots
         /\ \A i \in Slots :
              Kept(ring, b, n)[At(b, i)] = IF i < n THEN ring[At(b, i)] ELSE Unused
<1>1. Kept(ring, b, n) =
        [k \in Slots |-> IF (k - b + Levels) % Levels < n THEN ring[k] ELSE Unused]
  BY DEF Kept, Slots
<1>2. ASSUME NEW i \in Slots
      PROVE  Kept(ring, b, n)[At(b, i)] = IF i < n THEN ring[At(b, i)] ELSE Unused
  <2>1. At(b, i) \in Slots
    BY AtForm, LevelsAssumption DEF Slots
  <2>2. (At(b, i) - b + Levels) % Levels = i
    BY AtBack
  <2>. DEFINE k == At(b, i)
  <2>3. Kept(ring, b, n)[k] =
          IF (k - b + Levels) % Levels < n THEN ring[k] ELSE Unused
    BY <1>1, <2>1
  <2> QED
    BY <2>2, <2>3
<1> QED
  BY <1>1, <1>2

(* Moving the base by one renumbers the entries. *)
LEMMA AtNext ==
  ASSUME NEW b \in Slots
  PROVE  /\ (b + 1) % Levels \in Slots
         /\ \A i \in Slots : At((b + 1) % Levels, i) = At(b, i + 1)
         /\ At(b, Levels) = At(b, 0) /\ At(b, 0) = b
<1>1. Levels \in Nat \ {0} /\ b \in 0 .. Levels - 1 /\ Slots = 0 .. Levels - 1
        /\ 1 \in 0 .. Levels /\ 0 \in 0 .. Levels /\ Levels \in 0 .. Levels
  BY LevelsAssumption DEF Slots
<1>. DEFINE c == (b + 1) % Levels
<1>2. c = IF b + 1 < Levels THEN b + 1 ELSE b + 1 - Levels
  BY <1>1, AtForm DEF At
<1>3. c \in Slots
  BY <1>1, <1>2
<1>. HIDE DEF c
<1>4. ASSUME NEW i \in Slots PROVE At(c, i) = At(b, i + 1)
  <2>1. i \in 0 .. Levels /\ i + 1 \in 0 .. Levels
    BY <1>1
  <2>2. At(c, i) = IF c + i < Levels THEN c + i ELSE c + i - Levels
    BY <1>3, <2>1, AtForm
  <2>3. At(b, i + 1) =
          IF b + (i + 1) < Levels THEN b + (i + 1) ELSE b + (i + 1) - Levels
    BY <2>1, AtForm
  <2> QED
    BY <1>1, <1>2, <2>2, <2>3
<1>5. At(b, Levels) = b /\ At(b, 0) = b
  <2>1. At(b, Levels) = IF b + Levels < Levels THEN b + Levels ELSE b + Levels - Levels
    BY <1>1, AtForm
  <2>2. At(b, 0) = IF b + 0 < Levels THEN b + 0 ELSE b + 0 - Levels
    BY <1>1, AtForm
  <2> QED
    BY <1>1, <2>1, <2>2
<1> QED
  BY <1>3, <1>4, <1>5 DEF c

-----------------------------------------------------------------------------
(* The invariant. *)

Ring ==
  /\ undo_base \in Slots
  /\ undo_levels \in 0 .. Levels /\ redo_levels \in 0 .. Levels - undo_levels
  /\ DOMAIN undo = Slots
  /\ \A i \in Slots :
       undo[At(undo_base, i)]
         \in IF i < undo_levels + redo_levels THEN LineStates ELSE {Unused}

(* Only an operation that has been recorded can be continued. *)
Operation ==
  /\ last_op \in [code : {"NONE", "INS", "DEL", "CHANGE"}, pos : Int, len : Int]
  /\ last_op.code \in {"INS", "DEL"} => undo_levels > 0

Typed ==
  /\ Here \in LineStates
  /\ Ring
  /\ Operation
  /\ mode \in {"FILE", "COMPL", "HIST"} /\ unseen \in BOOLEAN

LEMMA TypedImplies == Typed => TypeOK
<1>. SUFFICES ASSUME Typed PROVE TypeOK
  OBVIOUS
<1>1. line \in Lines /\ curs \in 0 .. Len(line)
  <2>1. State(Here) /\ Fits(Here)
    BY StatesAre DEF Typed
  <2> QED
    BY <2>1, LinesAre DEF State, Fits, Here
<1>2. \A i \in 0 .. Levels - 1 :
        undo[Slot(i)] \in IF i < undo_levels + redo_levels THEN LineStates
                                                           ELSE {Unused}
  BY DEF Typed, Ring, Slots, At, Slot
<1> QED
  BY <1>1, <1>2 DEF Typed, Ring, Slots, TypeOK

(* What undo_after() does to the entries when it records the line. *)
Recorded ==
  /\ undo_base' \in Slots /\ DOMAIN undo' = Slots
  /\ undo_levels' = LevelsAfter /\ redo_levels' = 0 /\ unseen' = FALSE
  /\ undo_levels < Levels =>
       \A i \in Slots :
         undo'[At(undo_base', i)] = IF i < undo_levels THEN undo[At(undo_base, i)]
                                    ELSE IF i = undo_levels THEN Here ELSE Unused
  /\ undo_levels = Levels =>
       \A i \in Slots :
         undo'[At(undo_base', i)] = IF i < Levels - 1 THEN undo[At(undo_base, i + 1)]
                                    ELSE Here

(* What it does when the operation continues the last one. *)
Continued ==
  /\ UNCHANGED <<undo_base, undo_levels, unseen>> /\ redo_levels' = 0
  /\ DOMAIN undo' = Slots
  /\ \A i \in Slots :
       undo'[At(undo_base, i)] = IF i < undo_levels THEN undo[At(undo_base, i)]
                                                    ELSE Unused

LEMMA AfterForm ==
  ASSUME Typed, NEW t, undo_after(t)
  PROVE  LET op == tell_edit_op(Here, t)
         IN  \/ op.code = "NONE" /\ UNCHANGED undovars
             \/ op.code # "NONE" /\ last_op' = op /\ Merge(op) /\ Continued
             \/ op.code # "NONE" /\ last_op' = op /\ ~Merge(op) /\ Recorded
<1>. DEFINE op == tell_edit_op(Here, t)
<1>1. /\ undo_base \in Slots /\ undo_levels \in 0 .. Levels /\ DOMAIN undo = Slots
      /\ Levels \in Nat \ {0} /\ Slots = 0 .. Levels - 1
  BY LevelsAssumption DEF Typed, Ring, Slots
<1>0. /\ \A i, j \in Slots : At(undo_base, i) = At(undo_base, j) => i = j
      /\ \A i \in Slots : At(undo_base, i) \in Slots
  <2>1. \A i \in Slots : i \in 0 .. Levels
    BY <1>1
  <2>2. \A i \in Slots : At(undo_base, i) \in Slots
    BY <1>1, <2>1, AtForm
  <2> QED
    BY <1>1, <2>2, AtOneToOne
<1>2. CASE op.code = "NONE"
  BY <1>2 DEF undo_after
<1>3. CASE op.code # "NONE" /\ Merge(op)
  <2>1. /\ last_op' = op /\ redo_levels' = 0
        /\ undo' = Kept(undo, undo_base, undo_levels)
        /\ UNCHANGED <<undo_base, undo_levels, unseen>>
    BY <1>3 DEF undo_after
  <2>2. Continued
    BY <1>1, <2>1, KeptEntries DEF Continued
  <2> QED
    BY <1>3, <2>1, <2>2
<1>4. CASE op.code # "NONE" /\ ~Merge(op)
  <2>. DEFINE ring == [undo EXCEPT ![Slot(undo_levels)] = Here]
  <2>1. /\ last_op' = op /\ redo_levels' = 0
        /\ undo' = Kept(ring, BaseAfter, LevelsAfter)
        /\ undo_base' = BaseAfter /\ undo_levels' = LevelsAfter /\ unseen' = FALSE
    BY <1>4 DEF undo_after
  <2>2. Slot(undo_levels) = At(undo_base, undo_levels)
    BY DEF Slot, At
  <2>3. At(undo_base, undo_levels) \in Slots
    BY <1>1, AtForm
  <2>4. /\ ring[At(undo_base, undo_levels)] = Here
        /\ \A k \in Slots : k # At(undo_base, undo_levels) => ring[k] = undo[k]
    BY <1>1, <2>2, <2>3
  <2>. HIDE DEF ring
  <2>5. CASE undo_levels < Levels
    <3>1. BaseAfter = undo_base /\ LevelsAfter = undo_levels + 1
      BY <2>5 DEF BaseAfter, LevelsAfter
    <3>2. /\ DOMAIN undo' = Slots
          /\ \A i \in Slots : undo'[At(undo_base, i)] =
               IF i < undo_levels + 1 THEN ring[At(undo_base, i)] ELSE Unused
      BY <1>1, <2>1, <3>1, KeptEntries
    <3>3. ASSUME NEW i \in Slots
          PROVE  undo'[At(undo_base, i)] =
                   IF i < undo_levels THEN undo[At(undo_base, i)]
                   ELSE IF i = undo_levels THEN Here ELSE Unused
      <4>0. i \in Nat /\ undo_levels \in Slots /\ undo_levels \in Nat
        BY <1>1, <2>5
      <4>1. CASE i < undo_levels
        <5>1. i < undo_levels + 1 /\ i # undo_levels
          BY <4>0, <4>1
        <5>2. At(undo_base, i) # At(undo_base, undo_levels)
          BY <1>0, <4>0, <5>1
        <5>3. At(undo_base, i) \in Slots
          BY <1>0
        <5> QED
          BY <2>4, <3>2, <4>1, <5>1, <5>2, <5>3
      <4>2. CASE i = undo_levels
        <5>1. i < undo_levels + 1 /\ ~(i < undo_levels)
          BY <4>0, <4>2
        <5> QED
          BY <2>4, <3>2, <4>2, <5>1
      <4>3. CASE ~(i < undo_levels) /\ i # undo_levels
        <5>1. ~(i < undo_levels + 1)
          BY <4>0, <4>3
        <5> QED
          BY <3>2, <4>3, <5>1
      <4> QED
        BY <4>1, <4>2, <4>3
    <3>4. undo_levels # Levels
      BY <1>1, <2>5
    <3> QED
      BY <1>1, <1>4, <2>1, <2>5, <3>1, <3>2, <3>3, <3>4 DEF Recorded
  <2>6. CASE undo_levels = Levels
    <3>1. BaseAfter = (undo_base + 1) % Levels /\ LevelsAfter = Levels
      BY <1>1, <2>6 DEF BaseAfter, LevelsAfter
    <3>. DEFINE c == (undo_base + 1) % Levels
    <3>2. /\ c \in Slots /\ At(undo_base, Levels) = At(undo_base, 0)
          /\ \A i \in Slots : At(c, i) = At(undo_base, i + 1)
      BY <1>1, AtNext
    <3>3. DOMAIN undo' = Slots /\ undo_base' = c
      BY <2>1, <3>1, <3>2, KeptEntries
    <3>. HIDE DEF c
    <3>4. \A i \in Slots : undo'[At(c, i)] = ring[At(c, i)]
      <4>1. \A i \in Slots : i < Levels
        BY <1>1
      <4> QED
        BY <2>1, <3>1, <3>2, <4>1, KeptEntries DEF c
    <3>5. ASSUME NEW i \in Slots
          PROVE  undo'[At(c, i)] = IF i < Levels - 1 THEN undo[At(undo_base, i + 1)]
                                                     ELSE Here
      <4>0. 0 \in Slots
        BY <1>1
      <4>1. CASE i < Levels - 1
        <5>1. i + 1 \in Slots /\ i + 1 # 0
          BY <1>1, <4>1
        <5>2. At(undo_base, i + 1) # At(undo_base, 0) /\ At(undo_base, i + 1) \in Slots
          BY <1>0, <4>0, <5>1
        <5> QED
          BY <2>4, <2>6, <3>2, <3>4, <4>1, <5>2
      <4>2. CASE ~(i < Levels - 1)
        <5>1. i + 1 = Levels
          BY <1>1, <4>2
        <5>2. At(c, i) = At(undo_base, undo_levels)
          BY <2>6, <3>2, <5>1
        <5> QED
          BY <2>4, <3>4, <4>2, <5>2
      <4> QED
        BY <4>1, <4>2
    <3>6. ~(undo_levels < Levels)
      BY <1>1, <2>6
    <3> QED
      BY <1>4, <2>1, <2>6, <3>2, <3>3, <3>5, <3>6 DEF Recorded
  <2> QED
    BY <1>1, <2>5, <2>6
<1> QED
  BY <1>2, <1>3, <1>4

-----------------------------------------------------------------------------
(* Whatever a key does, it is one of six things. *)

Opened(t) == Unrecorded(t) /\ mode' \in {"COMPL", "HIST"}

LEMMA HereIsState == Typed => State(Here) /\ Fits(Here)
BY StatesAre DEF Typed

LEMMA StepForm ==
  ASSUME Typed, Next
  PROVE  \/ \E t : State(t) /\ Edited(t)
         \/ \E t : State(t) /\ Opened(t)
         \/ cx_files_enter \/ cx_undo \/ cx_redo \/ CancelCompletion
<1>1. State(Here)
  BY HereIsState
<1>2. ASSUME Move PROVE \E t : State(t) /\ Edited(t)
  BY <1>1, <1>2, MovesInLine, ToState DEF Move
<1>3. ASSUME Insert PROVE \E t : State(t) /\ Edited(t)
  <2>1. PICK c \in Chars : Edited(Inserted(Here, <<c>>))
    BY <1>3 DEF Insert
  <2>2. <<c>> \in Seq(Letters)
    BY DEF Letters
  <2> QED
    BY <1>1, <2>1, <2>2, InsertedState
<1>4. ASSUME InsertText PROVE \E t : State(t) /\ Edited(t)
  <2>1. PICK s \in Texts : \E c \in curs .. curs + Len(s) :
          Edited(To(Inserted(Here, s), c))
    BY <1>4 DEF InsertText
  <2>2. PICK c \in curs .. curs + Len(s) : Edited(To(Inserted(Here, s), c))
    BY <2>1
  <2>3. s \in Seq(Letters) /\ State(Inserted(Here, s))
    BY <1>1, LettersAre, InsertedState
  <2>4. c \in 0 .. Len(Inserted(Here, s).line)
    <3>1. Inserted(Here, s).curs = curs + Len(s) /\ curs \in Nat
      BY <1>1 DEF Inserted, Here, State
    <3>2. curs + Len(s) \in 0 .. Len(Inserted(Here, s).line)
      BY <2>3, <3>1 DEF State
    <3> QED
      BY <2>3, <3>1, <3>2
  <2> QED
    BY <2>2, <2>3, <2>4, ToState
<1>5. ASSUME Delete PROVE \E t : State(t) /\ Edited(t)
  BY <1>1, <1>5, DeletionsState DEF Delete
<1>6. ASSUME Recall PROVE \E t : State(t) /\ Edited(t)
  BY <1>6, LettersAre, PutState DEF Recall
<1>7. State(AtWordEnd) /\ State(AtLineEnd)
  <2>1. Here.line = line /\ Here.curs = curs
    BY DEF Here
  <2>2. curs \in 0 .. Len(line) /\ Len(line) \in Nat
    BY <1>1, <2>1 DEF State
  <2>3. EndOfWord(line, curs) \in 0 .. Len(line)
    <3>. DEFINE T == {i \in curs .. Len(line) :
                        i = Len(line) \/ line[i + 1] \in Separators}
    <3>1. T \subseteq 0 .. Len(line) /\ T \subseteq Nat /\ Len(line) \in T
      BY <2>2
    <3>2. EndOfWord(line, curs) = Least(T)
      BY DEF EndOfWord
    <3>. HIDE DEF T
    <3> QED
      BY <3>1, <3>2, LeastIn
  <2> QED
    BY <1>1, <2>1, <2>2, <2>3, ToState DEF AtWordEnd, AtLineEnd
<1>8. \A r \in Rests : r \in Seq(Letters)
  BY LettersAre DEF Rests
<1>9. ASSUME CompleteAtOnce PROVE \E t : State(t) /\ Edited(t)
  <2>1. PICK r \in Rests :
          \/ \E t \in insert_candidate(AtWordEnd, r) \cup {Inserted(AtWordEnd, r)} :
               Edited(t)
          \/ Edited(Inserted(AtLineEnd, r))
    BY <1>9 DEF CompleteAtOnce
  <2>2. \A t \in insert_candidate(AtWordEnd, r) \cup {Inserted(AtWordEnd, r)} : State(t)
    BY <1>7, <1>8, CandidateState, InsertedState
  <2>3. State(Inserted(AtLineEnd, r))
    BY <1>7, <1>8, InsertedState
  <2> QED
    BY <2>1, <2>2, <2>3
<1>10. ASSUME OpenCompletion PROVE \E t : State(t) /\ Opened(t)
  <2>1. PICK r \in Rests :
          \/ Unrecorded(Inserted(AtWordEnd, r)) /\ mode' = "COMPL"
          \/ Unrecorded(Inserted(AtLineEnd, r)) /\ mode' = "HIST"
    BY <1>10 DEF OpenCompletion
  <2>2. State(Inserted(AtWordEnd, r)) /\ State(Inserted(AtLineEnd, r))
    BY <1>7, <1>8, InsertedState
  <2> QED
    BY <2>1, <2>2 DEF Opened
<1>11. ASSUME cx_compl_complete PROVE \E t : State(t) /\ Edited(t)
  <2>1. PICK r \in Rests :
          \/ \E t \in insert_candidate(Here, r) : Edited(t)
          \/ Edited(Inserted(Here, r))
    BY <1>11 DEF cx_compl_complete
  <2>2. State(Inserted(Here, r)) /\ \A t \in insert_candidate(Here, r) : State(t)
    BY <1>1, <1>8, CandidateState, InsertedState
  <2> QED
    BY <2>1, <2>2
<1> QED
  BY <1>2, <1>3, <1>4, <1>5, <1>6, <1>9, <1>10, <1>11 DEF Next

(* The next state of the line is the one that is named. *)
LEMMA BecomesState ==
  ASSUME NEW t, State(t), Becomes(t)
  PROVE  Here' = t
BY DEF State, Becomes, Here

-----------------------------------------------------------------------------
(* The ring and the line keep their types. *)

LEMMA OperationKinds ==
  ASSUME NEW b, NEW a, State(b), State(a)
  PROVE  tell_edit_op(b, a)
           \in [code : {"NONE", "INS", "DEL", "CHANGE"}, pos : Int, len : Int]
<1>1. Len(a.line) \in Int /\ Len(b.line) \in Int /\ a.curs \in Int
  BY DEF State
<1>. DEFINE n == Len(a.line) - Len(b.line)
<1>2. n \in Int
  BY <1>1
<1>. HIDE DEF n
<1>4. -n \in Int /\ a.curs - n \in Int /\ 0 \in Int
  BY <1>1, <1>2
<1>3. tell_edit_op(b, a) \in {Op("NONE", 0, 0), Op("INS", a.curs - n, n),
                              Op("DEL", a.curs, -n), Op("CHANGE", 0, 0)}
  BY DEF tell_edit_op, n
<1> QED
  BY <1>1, <1>2, <1>3, <1>4 DEF Op

LEMMA EditedTyped ==
  ASSUME Typed, NEW t, State(t), Edited(t)
  PROVE  Typed'
<1>. DEFINE op == tell_edit_op(Here, t)
<1>1. Here' = t /\ Here' \in LineStates /\ mode' = "FILE"
  BY BecomesState, StatesAre DEF Edited
<1>2. op \in [code : {"NONE", "INS", "DEL", "CHANGE"}, pos : Int, len : Int]
  BY HereIsState, OperationKinds
<1>3. /\ undo_base \in Slots /\ undo_levels \in 0 .. Levels
      /\ redo_levels \in 0 .. Levels - undo_levels
      /\ Levels \in Nat \ {0} /\ Slots = 0 .. Levels - 1
      /\ Here \in LineStates
  BY LevelsAssumption DEF Typed, Ring, Slots
<1>4. \/ op.code = "NONE" /\ UNCHANGED undovars
      \/ op.code # "NONE" /\ last_op' = op /\ Merge(op) /\ Continued
      \/ op.code # "NONE" /\ last_op' = op /\ ~Merge(op) /\ Recorded
  BY AfterForm DEF Edited
<1>. HIDE DEF op
<1>5. \A i \in Slots :
        undo[At(undo_base, i)]
          \in IF i < undo_levels + redo_levels THEN LineStates ELSE {Unused}
  BY DEF Typed, Ring
<1>6. CASE UNCHANGED undovars
  BY <1>1, <1>6 DEF Typed, Ring, Operation, undovars, At
<1>7. CASE op.code # "NONE" /\ last_op' = op /\ Merge(op) /\ Continued
  <2>1. undo_levels > 0
    BY <1>7 DEF Typed, Operation, Merge
  <2>2. /\ undo_base' = undo_base /\ undo_levels' = undo_levels /\ unseen' = unseen
        /\ redo_levels' = 0 /\ DOMAIN undo' = Slots
        /\ \A i \in Slots :
             undo'[At(undo_base, i)] = IF i < undo_levels THEN undo[At(undo_base, i)]
                                                          ELSE Unused
    BY <1>7 DEF Continued
  <2>3. \A i \in Slots : i < undo_levels => i < undo_levels + redo_levels
    BY <1>3
  <2>4. \A i \in Slots :
          undo'[At(undo_base, i)] \in IF i < undo_levels THEN LineStates ELSE {Unused}
    BY <1>5, <2>2, <2>3
  <2>5. undo_levels' + redo_levels' = undo_levels /\ 0 \in 0 .. Levels - undo_levels
    BY <1>3, <2>2
  <2>6. Ring'
    BY <1>3, <2>2, <2>4, <2>5 DEF Ring, At
  <2>7. Operation'
    BY <1>2, <1>7, <2>1, <2>2 DEF Operation
  <2> QED
    BY <1>1, <2>2, <2>6, <2>7 DEF Typed
<1>8. CASE op.code # "NONE" /\ last_op' = op /\ ~Merge(op) /\ Recorded
  <2>1. /\ undo_base' \in Slots /\ DOMAIN undo' = Slots
        /\ undo_levels' = LevelsAfter /\ redo_levels' = 0 /\ unseen' = FALSE
    BY <1>8 DEF Recorded
  <2>2. LevelsAfter \in 1 .. Levels /\ 0 \in 0 .. Levels - LevelsAfter
          /\ LevelsAfter + 0 = LevelsAfter
    BY <1>3 DEF LevelsAfter
  <2>3. \A i \in Slots :
          undo'[At(undo_base', i)] \in IF i < LevelsAfter THEN LineStates ELSE {Unused}
    <3>1. CASE undo_levels < Levels
      <4>1. \A i \in Slots :
              undo'[At(undo_base', i)] = IF i < undo_levels THEN undo[At(undo_base, i)]
                                         ELSE IF i = undo_levels THEN Here ELSE Unused
        BY <1>8, <3>1 DEF Recorded
      <4>2. /\ LevelsAfter = undo_levels + 1
            /\ \A i \in Slots : /\ i < undo_levels => i < undo_levels + redo_levels
                                /\ i < undo_levels + 1 <=> i < undo_levels \/ i = undo_levels
        BY <1>3, <3>1 DEF LevelsAfter
      <4>. HIDE DEF Slots
      <4> QED
        BY <1>3, <1>5, <4>1, <4>2
    <3>2. CASE undo_levels = Levels
      <4>1. \A i \in Slots :
              undo'[At(undo_base', i)] = IF i < Levels - 1 THEN undo[At(undo_base, i + 1)]
                                         ELSE Here
        BY <1>8, <3>2 DEF Recorded
      <4>2. LevelsAfter = Levels /\ \A i \in Slots : i < LevelsAfter
        BY <1>3, <3>2 DEF LevelsAfter
      <4>3. \A i \in Slots : i < Levels - 1 =>
               i + 1 \in Slots /\ i + 1 < undo_levels + redo_levels
        BY <1>3, <3>2
      <4>4. \A i \in Slots : i < Levels - 1 => undo[At(undo_base, i + 1)] \in LineStates
        BY <1>5, <4>3
      <4> QED
        BY <1>3, <4>1, <4>2, <4>4
    <3>3. undo_levels < Levels \/ undo_levels = Levels
      BY <1>3
    <3> QED
      BY <3>1, <3>2, <3>3
  <2>4. Ring'
    <3>1. undo_levels' \in 0 .. Levels /\ redo_levels' \in 0 .. Levels - undo_levels'
            /\ undo_levels' + redo_levels' = LevelsAfter
      BY <1>3, <2>1, <2>2
    <3> QED
      BY <2>1, <2>3, <3>1 DEF Ring, At
  <2>5. Operation'
    <3>1. undo_levels' > 0
      BY <2>1, <2>2
    <3> QED
      BY <1>2, <1>8, <3>1 DEF Operation
  <2> QED
    BY <1>1, <2>1, <2>4, <2>5 DEF Typed
<1> QED
  BY <1>4, <1>6, <1>7, <1>8

(* Undo and redo exchange the line and one entry. *)
Exchanged(n) ==
  /\ Here' = undo[At(undo_base, n)]
  /\ undo_base' = undo_base /\ DOMAIN undo' = Slots
  /\ undo'[At(undo_base, n)] = Here
  /\ \A i \in Slots : i # n => undo'[At(undo_base, i)] = undo[At(undo_base, i)]

LEMMA SwapForm ==
  ASSUME Typed, NEW n \in Slots, n < undo_levels + redo_levels, Swap(n)
  PROVE  Exchanged(n)
<1>1. /\ undo_base \in Slots /\ DOMAIN undo = Slots
      /\ undo[At(undo_base, n)] \in LineStates
  BY DEF Typed, Ring
<1>2. Slot(n) = At(undo_base, n)
  BY DEF Slot, At
<1>3. /\ line' = undo[At(undo_base, n)].line /\ curs' = undo[At(undo_base, n)].curs
      /\ undo' = [undo EXCEPT ![At(undo_base, n)] = Here]
      /\ undo_base' = undo_base
  BY <1>2 DEF Swap
<1>4. Here' = undo[At(undo_base, n)]
  <2>1. State(undo[At(undo_base, n)])
    BY <1>1, StatesAre
  <2> QED
    BY <1>3, <2>1 DEF State, Here
<1>5. \A i \in Slots : At(undo_base, i) \in Slots
  <2>1. \A i \in Slots : i \in 0 .. Levels
    BY LevelsAssumption DEF Slots
  <2> QED
    BY <1>1, <2>1, AtForm
<1>6. \A i \in Slots : i # n => At(undo_base, i) # At(undo_base, n)
  BY <1>1, AtOneToOne
<1> QED
  BY <1>1, <1>3, <1>4, <1>5, <1>6 DEF Exchanged

LEMMA ExchangedTyped ==
  ASSUME Typed, NEW n \in Slots, n < undo_levels + redo_levels, Swap(n),
         undo_levels' + redo_levels' = undo_levels + redo_levels,
         undo_levels' \in 0 .. Levels, redo_levels' \in 0 .. Levels - undo_levels',
         mode' = "FILE"
  PROVE  Typed' /\ Exchanged(n)
<1>1. Exchanged(n)
  BY SwapForm
<1>2. /\ undo_base \in Slots /\ Here \in LineStates
      /\ \A i \in Slots :
           undo[At(undo_base, i)]
             \in IF i < undo_levels + redo_levels THEN LineStates ELSE {Unused}
  BY DEF Typed, Ring
<1>3. \A i \in Slots :
        undo'[At(undo_base, i)]
          \in IF i < undo_levels + redo_levels THEN LineStates ELSE {Unused}
  BY <1>1, <1>2 DEF Exchanged
<1>4. Ring'
  BY <1>1, <1>2, <1>3 DEF Exchanged, Ring, At
<1>5. Here' \in LineStates
  BY <1>1, <1>2 DEF Exchanged
<1>6. last_op' = Op("CHANGE", 0, 0) /\ unseen' = FALSE
  BY DEF Swap
<1>7. Operation'
  BY <1>6 DEF Operation, Op
<1> QED
  BY <1>1, <1>4, <1>5, <1>6, <1>7 DEF Typed

LEMMA UndoTyped ==
  ASSUME Typed, cx_undo
  PROVE  /\ Typed'
         /\ undo_levels - 1 \in Slots /\ Exchanged(undo_levels - 1)
         /\ undo_levels' = undo_levels - 1 /\ redo_levels' = redo_levels + 1
<1>1. /\ Levels \in Nat \ {0}
      /\ undo_levels \in 0 .. Levels /\ redo_levels \in 0 .. Levels - undo_levels
  BY LevelsAssumption DEF Typed, Ring
<1>2. /\ undo_levels > 0 /\ Swap(undo_levels - 1) /\ mode' = "FILE"
      /\ undo_levels' = undo_levels - 1 /\ redo_levels' = redo_levels + 1
  BY DEF cx_undo
<1>3. /\ undo_levels - 1 \in Slots /\ undo_levels - 1 < undo_levels + redo_levels
      /\ undo_levels' + redo_levels' = undo_levels + redo_levels
      /\ undo_levels' \in 0 .. Levels /\ redo_levels' \in 0 .. Levels - undo_levels'
  BY <1>1, <1>2 DEF Slots
<1> QED
  BY <1>2, <1>3, ExchangedTyped

LEMMA RedoTyped ==
  ASSUME Typed, cx_redo
  PROVE  /\ Typed'
         /\ undo_levels \in Slots /\ Exchanged(undo_levels)
         /\ undo_levels' = undo_levels + 1 /\ redo_levels' = redo_levels - 1
<1>1. /\ Levels \in Nat \ {0}
      /\ undo_levels \in 0 .. Levels /\ redo_levels \in 0 .. Levels - undo_levels
  BY LevelsAssumption DEF Typed, Ring
<1>2. /\ redo_levels > 0 /\ Swap(undo_levels) /\ mode' = "FILE"
      /\ undo_levels' = undo_levels + 1 /\ redo_levels' = redo_levels - 1
  BY DEF cx_redo
<1>3. /\ undo_levels \in Slots /\ undo_levels < undo_levels + redo_levels
      /\ undo_levels' + redo_levels' = undo_levels + redo_levels
      /\ undo_levels' \in 0 .. Levels /\ redo_levels' \in 0 .. Levels - undo_levels'
  BY <1>1, <1>2 DEF Slots
<1> QED
  BY <1>2, <1>3, ExchangedTyped

LEMMA EnterTyped ==
  ASSUME Typed, cx_files_enter
  PROVE  Typed' /\ undo_levels' = 0 /\ redo_levels' = 0
<1>1. /\ Becomes(cx_edit_kill) /\ undo_reset /\ mode' = mode
  BY DEF cx_files_enter
<1>2. State(cx_edit_kill) /\ Fits(cx_edit_kill)
  BY HereIsState, DeletionsState, TextsAssumption DEF cx_edit_kill, Put, Fits
<1>3. Here' \in LineStates
  BY <1>1, <1>2, BecomesState, StatesAre
<1>4. /\ last_op' = Op("NONE", 0, 0) /\ undo_levels' = 0 /\ redo_levels' = 0
      /\ undo' = Kept(undo, 0, 0) /\ unseen' = FALSE /\ undo_base' = undo_base
  BY <1>1 DEF undo_reset
<1>5. Levels \in Nat \ {0} /\ undo_base \in Slots
  BY LevelsAssumption DEF Typed, Ring
<1>6. \A k \in Slots : Kept(undo, 0, 0)[k] = Unused
  <2>1. \A k \in Slots : ~((k - 0 + Levels) % Levels < 0)
    BY <1>5 DEF Slots
  <2> QED
    BY <2>1 DEF Kept, Slots
<1>7. \A i \in Slots : At(undo_base, i) \in Slots
  <2>1. \A i \in Slots : i \in 0 .. Levels
    BY <1>5 DEF Slots
  <2> QED
    BY <1>5, <2>1, AtForm
<1>8. DOMAIN undo' = Slots /\ \A i \in Slots : undo'[At(undo_base, i)] = Unused
  BY <1>4, <1>6, <1>7 DEF Kept, Slots
<1>9. Ring'
  <2>1. \A i \in Slots : ~(i < 0 + 0)
    BY <1>5 DEF Slots
  <2>2. 0 \in 0 .. Levels /\ 0 \in 0 .. Levels - 0
    BY <1>5
  <2> QED
    BY <1>4, <1>5, <1>8, <2>1, <2>2 DEF Ring, At
<1>10. Operation'
  BY <1>4 DEF Operation, Op
<1> QED
  BY <1>1, <1>3, <1>4, <1>9, <1>10 DEF Typed

LEMMA OpenedTyped ==
  ASSUME Typed, NEW t, State(t), Opened(t)
  PROVE  Typed'
<1>1. Here' \in LineStates
  BY BecomesState, StatesAre DEF Opened, Unrecorded
<1>2. UNCHANGED <<undo, undo_base, undo_levels, redo_levels, last_op>>
        /\ mode' \in {"COMPL", "HIST"} /\ unseen' = (unseen \/ t.line # line)
  BY DEF Opened, Unrecorded
<1>3. unseen' \in BOOLEAN
  BY <1>2 DEF Typed
<1>4. Ring' /\ Operation'
  BY <1>2 DEF Typed, Ring, Operation, At
<1> QED
  BY <1>1, <1>2, <1>3, <1>4 DEF Typed

LEMMA TypedStep == Typed /\ [Next]_vars => Typed'
<1>. SUFFICES ASSUME Typed, [Next]_vars PROVE Typed'
  OBVIOUS
<1>1. CASE Next
  <2>1. CASE \E t : State(t) /\ Edited(t)
    BY <2>1, EditedTyped
  <2>2. CASE \E t : State(t) /\ Opened(t)
    BY <2>2, OpenedTyped
  <2>3. CASE CancelCompletion
    <3>1. mode' = "FILE" /\ UNCHANGED <<linevars, undovars>>
      BY <2>3 DEF CancelCompletion
    <3> QED
      BY <3>1 DEF linevars, undovars, Typed, Here, Ring, Operation, At
  <2> QED
    BY <1>1, <2>1, <2>2, <2>3, StepForm, EnterTyped, UndoTyped, RedoTyped
<1>2. CASE UNCHANGED vars
  BY <1>2 DEF vars, linevars, undovars, Typed, Here, Ring, Operation, At
<1> QED
  BY <1>1, <1>2

LEMMA TypedInit == Init => Typed
<1>. SUFFICES ASSUME Init PROVE Typed
  OBVIOUS
<1>1. Levels \in Nat \ {0} /\ MaxLen \in Nat
  BY LevelsAssumption, TextsAssumption
<1>2. Here \in LineStates
  <2>1. <<>> \in Seq(Letters) /\ Len(<<>>) = 0
    OBVIOUS
  <2>2. State(Here) /\ Fits(Here)
    BY <1>1, <2>1 DEF Init, State, Fits, Here
  <2> QED
    BY <2>2, StatesAre
<1>3. /\ undo = [k \in Slots |-> Unused] /\ undo_base = 0
      /\ undo_levels = 0 /\ redo_levels = 0
  BY DEF Init, Slots
<1>4. 0 \in Slots /\ \A i \in Slots : i \in 0 .. Levels /\ ~(i < 0 + 0)
  BY <1>1 DEF Slots
<1>5. \A i \in Slots : undo[At(0, i)] = Unused
  BY <1>3, <1>4, AtForm
<1>6. Ring
  <2>1. 0 \in 0 .. Levels /\ 0 \in 0 .. Levels - 0
    BY <1>1
  <2> QED
    BY <1>3, <1>4, <1>5, <2>1 DEF Ring
<1>7. Operation /\ mode = "FILE" /\ unseen = FALSE
  BY DEF Init, Operation, Op
<1> QED
  BY <1>2, <1>6, <1>7 DEF Typed

(***************************************************************************)
(* The counters of undo.c stay in the ring, its occupied slots hold states *)
(* of the line and the others are free, however edits, undo, redo and      *)
(* completion follow each other.                                           *)
(***************************************************************************)
THEOREM LineInvariant == Spec => []Typed
BY TypedInit, TypedStep, PTL DEF Spec

(* The type invariant of the command line. *)
THEOREM LineTyped == Spec => []TypeOK
BY LineInvariant, TypedImplies, PTL

(***************************************************************************)
(* edit_adjust() leaves the cursor visible, behind the prompt or the mark  *)
(* < and before the mark >, for every length of the line, every position   *)
(* of the cursor and every window that holds the prompt and a step more.   *)
(***************************************************************************)
THEOREM CursorIsOnScreen == Spec => []CursorOnScreen
<1>1. CursorOnScreen
  <2>1. ASSUME NEW area \in Areas, NEW p \in Prompts, NEW size \in 0 .. LongLine,
               NEW c \in 0 .. size, NEW k \in 0 .. LongLine \div OFFSET_STEP + 1
        PROVE  LET o == edit_adjust(size, c, k * OFFSET_STEP, area, p)
               IN  /\ o >= 0 /\ o % OFFSET_STEP = 0
                   /\ Position(c, o, p) \in (IF o = 0 THEN p ELSE 1)
                                              .. (IF c = size THEN area ELSE area - 1)
    <3>1. /\ area \in Nat /\ p \in Nat /\ p + OFFSET_STEP < area
          /\ OFFSET_STEP \in Nat \ {0} /\ LongLine \in Nat
      BY AreasAssumption
    <3>2. LongLine \div OFFSET_STEP \in Int
      BY <3>1
    <3>3. size \in Nat /\ c \in Nat /\ k \in Nat
      BY <3>1, <3>2
    <3>4. k * OFFSET_STEP \in Nat /\ Multiple(k * OFFSET_STEP)
      BY <3>1, <3>3 DEF Multiple
    <3>. DEFINE o == edit_adjust(size, c, k * OFFSET_STEP, area, p)
    <3>5. /\ o \in Nat /\ Multiple(o)
          /\ Position(c, o, p) >= (IF o = 0 THEN p ELSE 1)
          /\ Position(c, o, p) <= Screen(size, c, area)
      BY <3>1, <3>3, <3>4, AdjustedOffset
    <3>. HIDE DEF o
    <3>6. Position(c, o, p) \in Int
      BY <3>1, <3>3, <3>5 DEF Position
    <3>7. Screen(size, c, area) = IF c = size THEN area ELSE area - 1
      BY DEF Screen
    <3>8. o % OFFSET_STEP = 0
      BY <3>5, MultipleMod
    <3>9. Position(c, o, p) \in (IF o = 0 THEN p ELSE 1)
                                  .. (IF c = size THEN area ELSE area - 1)
      BY <3>1, <3>5, <3>6, <3>7
    <3> QED
      BY <3>5, <3>8, <3>9 DEF o
  <2> QED
    BY <2>1 DEF CursorOnScreen
<1> QED
  BY <1>1, PTL

-----------------------------------------------------------------------------
(* Sequences that are given element by element. *)

LEMMA SequencesEqual ==
  ASSUME NEW S, NEW s \in Seq(S), NEW t \in Seq(S), Len(t) = Len(s),
         \A i \in 1 .. Len(s) : t[i] = s[i]
  PROVE  t = s
<1>1. s = [i \in 1 .. Len(s) |-> s[i]] /\ t = [i \in 1 .. Len(t) |-> t[i]]
  OBVIOUS
<1> QED
  BY <1>1

LEMMA AppendIs ==
  ASSUME NEW S, NEW s \in Seq(S), NEW t \in Seq(S), NEW e \in S,
         Len(t) = Len(s) + 1, t[Len(s) + 1] = e, \A i \in 1 .. Len(s) : t[i] = s[i]
  PROVE  t = Append(s, e)
<1>1. Append(s, e) \in Seq(S) /\ Len(Append(s, e)) = Len(s) + 1
  OBVIOUS
<1>2. \A i \in 1 .. Len(t) : t[i] = Append(s, e)[i]
  OBVIOUS
<1> QED
  BY <1>1, <1>2, SequencesEqual

LEMMA ShiftIs ==
  ASSUME NEW S, NEW s \in Seq(S), NEW t \in Seq(S), NEW e \in S,
         Len(s) > 0, Len(t) = Len(s), t[Len(s)] = e,
         \A i \in 1 .. Len(s) - 1 : t[i] = s[i + 1]
  PROVE  t = Tail(Append(s, e))
<1>. DEFINE a == Append(s, e)
<1>1. a \in Seq(S) /\ Len(a) = Len(s) + 1 /\ a # <<>>
        /\ a[Len(s) + 1] = e /\ \A i \in 1 .. Len(s) : a[i] = s[i]
  OBVIOUS
<1>. HIDE DEF a
<1>2. Tail(a) \in Seq(S) /\ Len(Tail(a)) = Len(s)
        /\ \A i \in 1 .. Len(s) : Tail(a)[i] = a[i + 1]
  BY <1>1
<1>3. \A i \in 1 .. Len(s) : t[i] = Tail(a)[i]
  <2>1. ASSUME NEW i \in 1 .. Len(s) PROVE t[i] = Tail(a)[i]
    <3>1. CASE i = Len(s)
      BY <1>1, <1>2, <3>1
    <3>2. CASE i # Len(s)
      <4>1. i \in 1 .. Len(s) - 1 /\ i + 1 \in 1 .. Len(s)
        BY <3>2
      <4> QED
        BY <1>1, <1>2, <4>1
    <3> QED
      BY <3>1, <3>2
  <2> QED
    BY <2>1
<1> QED
  BY <1>2, <1>3, SequencesEqual DEF a

LEMMA FrontIs ==
  ASSUME NEW S, NEW s \in Seq(S), NEW t \in Seq(S), Len(s) > 0,
         Len(t) = Len(s) - 1, \A i \in 1 .. Len(t) : t[i] = s[i]
  PROVE  t = SubSeq(s, 1, Len(s) - 1)
<1>1. SubSeq(s, 1, Len(s) - 1) \in Seq(S) /\ Len(SubSeq(s, 1, Len(s) - 1)) = Len(t)
        /\ \A i \in 1 .. Len(t) : SubSeq(s, 1, Len(s) - 1)[i] = s[i]
  OBVIOUS
<1> QED
  BY <1>1, SequencesEqual

LEMMA FirstIs ==
  ASSUME NEW S, NEW s \in Seq(S), NEW t \in Seq(S), NEW e \in S,
         Len(t) = Len(s) + 1, t[1] = e, \A i \in 1 .. Len(s) : t[i + 1] = s[i]
  PROVE  t = <<e>> \o s
<1>. DEFINE a == <<e>> \o s
<1>1. a \in Seq(S) /\ Len(a) = Len(s) + 1 /\ a[1] = e
        /\ \A i \in 2 .. Len(s) + 1 : a[i] = s[i - 1]
  OBVIOUS
<1>. HIDE DEF a
<1>2. \A i \in 2 .. Len(s) + 1 : t[i] = s[i - 1]
  <2>1. ASSUME NEW i \in 2 .. Len(s) + 1 PROVE t[i] = s[i - 1]
    <3>1. i - 1 \in 1 .. Len(s) /\ (i - 1) + 1 = i
      OBVIOUS
    <3> QED
      BY <3>1
  <2> QED
    BY <2>1
<1>3. \A i \in 1 .. Len(t) : t[i] = a[i]
  BY <1>1, <1>2
<1> QED
  BY <1>1, <1>3, SequencesEqual DEF a

LEMMA RestIs ==
  ASSUME NEW S, NEW s \in Seq(S), NEW t \in Seq(S), Len(s) > 0,
         Len(t) = Len(s) - 1, \A i \in 1 .. Len(t) : t[i] = s[i + 1]
  PROVE  t = Tail(s)
<1>1. Tail(s) \in Seq(S) /\ Len(Tail(s)) = Len(t)
        /\ \A i \in 1 .. Len(t) : Tail(s)[i] = s[i + 1]
  OBVIOUS
<1> QED
  BY <1>1, SequencesEqual

-----------------------------------------------------------------------------
(* The walk that the ring stands for. *)

PastForm ==
  /\ Past \in Seq(LineStates) /\ Len(Past) = undo_levels
  /\ \A i \in 1 .. undo_levels : Past[i] = undo[At(undo_base, i - 1)]

FutureForm ==
  /\ Future \in Seq(LineStates) /\ Len(Future) = redo_levels
  /\ \A i \in 1 .. redo_levels : Future[i] = undo[At(undo_base, undo_levels + i - 1)]

LEMMA WalkForm == Typed => PastForm /\ FutureForm
<1>. SUFFICES ASSUME Typed PROVE PastForm /\ FutureForm
  OBVIOUS
<1>1. /\ undo_levels \in 0 .. Levels /\ redo_levels \in 0 .. Levels - undo_levels
      /\ Levels \in Nat \ {0} /\ Slots = 0 .. Levels - 1
  BY LevelsAssumption DEF Typed, Ring, Slots
<1>2. \A i \in Slots : i < undo_levels + redo_levels =>
        undo[At(undo_base, i)] \in LineStates
  BY DEF Typed, Ring
<1>3. /\ \A i \in 1 .. undo_levels :
           i - 1 \in Slots /\ i - 1 < undo_levels + redo_levels
      /\ \A i \in 1 .. redo_levels :
           undo_levels + i - 1 \in Slots /\ undo_levels + i - 1 < undo_levels + redo_levels
  BY <1>1
<1>4. /\ Past = [i \in 1 .. undo_levels |-> undo[At(undo_base, i - 1)]]
      /\ Future = [i \in 1 .. redo_levels |-> undo[At(undo_base, undo_levels + i - 1)]]
  BY DEF Past, Future, Slot, At
<1>5. /\ \A i \in 1 .. undo_levels : undo[At(undo_base, i - 1)] \in LineStates
      /\ \A i \in 1 .. redo_levels : undo[At(undo_base, undo_levels + i - 1)] \in LineStates
  BY <1>2, <1>3
<1>6. Past \in [1 .. undo_levels -> LineStates] /\ Future \in [1 .. redo_levels -> LineStates]
  BY <1>4, <1>5
<1>7. /\ Past \in Seq(LineStates) /\ Len(Past) = undo_levels
      /\ Future \in Seq(LineStates) /\ Len(Future) = redo_levels
  <2>1. undo_levels \in Nat /\ redo_levels \in Nat
    BY <1>1
  <2> QED
    BY <1>6, <2>1
<1> QED
  BY <1>4, <1>7 DEF PastForm, FutureForm

LEMMA NoFuture ==
  ASSUME FutureForm, redo_levels = 0
  PROVE  Future = <<>>
BY DEF FutureForm

(* What an edit, an undo and a redo make of the past and the future. *)
LEMMA RecordedWalk ==
  ASSUME Typed, Typed', Recorded
  PROVE  Past' = Walk!Newest(Append(Past, Here)) /\ Future' = <<>>
<1>1. /\ undo_levels \in 0 .. Levels /\ Levels \in Nat \ {0} /\ Slots = 0 .. Levels - 1
      /\ Here \in LineStates
  BY LevelsAssumption DEF Typed, Ring, Slots
<1>2. PastForm /\ PastForm' /\ FutureForm'
  BY WalkForm, PTL
<1>3. /\ Past \in Seq(LineStates) /\ Len(Past) = undo_levels
      /\ \A i \in 1 .. undo_levels : Past[i] = undo[At(undo_base, i - 1)]
      /\ Past' \in Seq(LineStates) /\ Len(Past') = undo_levels'
      /\ \A i \in 1 .. undo_levels' : Past'[i] = undo'[At(undo_base', i - 1)]
  BY <1>2 DEF PastForm, At
<1>4. undo_levels' = LevelsAfter /\ redo_levels' = 0
  BY DEF Recorded
<1>5. Future' = <<>>
  BY <1>2, <1>4 DEF FutureForm
<1>6. CASE undo_levels < Levels
  <2>1. \A i \in Slots :
          undo'[At(undo_base', i)] = IF i < undo_levels THEN undo[At(undo_base, i)]
                                     ELSE IF i = undo_levels THEN Here ELSE Unused
    BY <1>6 DEF Recorded
  <2>2. undo_levels' = undo_levels + 1
    BY <1>1, <1>4, <1>6 DEF LevelsAfter
  <2>3. /\ undo_levels \in Slots /\ ~(undo_levels < undo_levels)
        /\ \A i \in 1 .. undo_levels : i - 1 \in Slots /\ i - 1 < undo_levels
        /\ undo_levels + 1 \in 1 .. undo_levels + 1 /\ undo_levels + 1 - 1 = undo_levels
        /\ \A i \in 1 .. undo_levels : i \in 1 .. undo_levels + 1
    BY <1>1, <1>6
  <2>4. Past'[undo_levels + 1] = Here
    <3>1. Past'[undo_levels + 1] = undo'[At(undo_base', undo_levels)]
      BY <1>3, <2>2, <2>3
    <3> QED
      BY <2>1, <2>3, <3>1
  <2>5. \A i \in 1 .. undo_levels : Past'[i] = Past[i]
    BY <1>3, <2>1, <2>2, <2>3
  <2>6. Past' = Append(Past, Here)
    BY <1>1, <1>3, <2>2, <2>4, <2>5, AppendIs
  <2>7. ~(Len(Append(Past, Here)) > Levels)
    BY <1>1, <1>3, <1>6
  <2> QED
    BY <1>5, <2>6, <2>7 DEF Walk!Newest
<1>7. CASE undo_levels = Levels
  <2>1. \A i \in Slots :
          undo'[At(undo_base', i)] = IF i < Levels - 1 THEN undo[At(undo_base, i + 1)]
                                     ELSE Here
    BY <1>7 DEF Recorded
  <2>2. undo_levels' = Levels
    BY <1>1, <1>4, <1>7 DEF LevelsAfter
  <2>3. /\ Levels - 1 \in Slots /\ ~(Levels - 1 < Levels - 1) /\ Levels \in 1 .. Levels
        /\ \A i \in 1 .. Levels - 1 :
             i - 1 \in Slots /\ i - 1 < Levels - 1 /\ (i - 1) + 1 = (i + 1) - 1
               /\ i + 1 \in 1 .. Levels /\ i \in 1 .. Levels
    BY <1>1
  <2>4. Past'[Levels] = Here
    <3>1. Past'[Levels] = undo'[At(undo_base', Levels - 1)]
      BY <1>3, <2>2, <2>3
    <3> QED
      BY <2>1, <2>3, <3>1
  <2>5. \A i \in 1 .. Levels - 1 : Past'[i] = Past[i + 1]
    <3>1. ASSUME NEW i \in 1 .. Levels - 1 PROVE Past'[i] = Past[i + 1]
      <4>1. Past'[i] = undo'[At(undo_base', i - 1)]
        BY <1>3, <2>2, <2>3
      <4>2. undo'[At(undo_base', i - 1)] = undo[At(undo_base, (i - 1) + 1)]
        BY <2>1, <2>3
      <4>3. Past[i + 1] = undo[At(undo_base, (i + 1) - 1)]
        BY <1>3, <1>7, <2>3
      <4> QED
        BY <2>3, <4>1, <4>2, <4>3
    <3> QED
      BY <3>1
  <2>6. Past' = Tail(Append(Past, Here))
    <3>1. Len(Past) = Levels /\ Len(Past') = Levels /\ Levels > 0
      BY <1>1, <1>3, <1>7, <2>2
    <3> QED
      BY <1>1, <1>3, <2>4, <2>5, <3>1, ShiftIs
  <2>7. Len(Append(Past, Here)) > Levels
    BY <1>1, <1>3, <1>7
  <2> QED
    BY <1>5, <2>6, <2>7 DEF Walk!Newest
<1> QED
  BY <1>1, <1>6, <1>7

LEMMA ContinuedWalk ==
  ASSUME Typed, Typed', Continued, undo_levels > 0
  PROVE  Past' = Past /\ Past # <<>> /\ Future' = <<>>
<1>1. /\ undo_levels \in 0 .. Levels /\ Levels \in Nat \ {0} /\ Slots = 0 .. Levels - 1
  BY LevelsAssumption DEF Typed, Ring, Slots
<1>2. PastForm /\ PastForm' /\ FutureForm'
  BY WalkForm, PTL
<1>3. /\ undo_base' = undo_base /\ undo_levels' = undo_levels /\ redo_levels' = 0
      /\ \A i \in Slots :
           undo'[At(undo_base, i)] = IF i < undo_levels THEN undo[At(undo_base, i)]
                                                        ELSE Unused
  BY DEF Continued
<1>4. /\ Past \in Seq(LineStates) /\ Len(Past) = undo_levels
      /\ \A i \in 1 .. undo_levels : Past[i] = undo[At(undo_base, i - 1)]
      /\ Past' \in Seq(LineStates) /\ Len(Past') = undo_levels
      /\ \A i \in 1 .. undo_levels : Past'[i] = undo'[At(undo_base, i - 1)]
  BY <1>2, <1>3 DEF PastForm, At
<1>5. \A i \in 1 .. undo_levels : i - 1 \in Slots /\ i - 1 < undo_levels
  BY <1>1
<1>6. \A i \in 1 .. undo_levels : Past'[i] = Past[i]
  BY <1>3, <1>4, <1>5
<1>7. Past' = Past
  BY <1>4, <1>6, SequencesEqual
<1>8. Past # <<>>
  BY <1>1, <1>4
<1>9. Future' = <<>>
  BY <1>2, <1>3 DEF FutureForm
<1> QED
  BY <1>7, <1>8, <1>9

LEMMA UndoWalk ==
  ASSUME Typed, cx_undo
  PROVE  Walk!Undo
<1>1. /\ undo_levels \in 0 .. Levels /\ redo_levels \in 0 .. Levels - undo_levels
      /\ Levels \in Nat \ {0} /\ Slots = 0 .. Levels - 1
      /\ Here \in LineStates /\ undo_levels > 0
  BY LevelsAssumption DEF Typed, Ring, Slots, cx_undo
<1>2. /\ Typed' /\ Exchanged(undo_levels - 1)
      /\ undo_levels' = undo_levels - 1 /\ redo_levels' = redo_levels + 1
  BY UndoTyped
<1>3. PastForm /\ FutureForm /\ PastForm' /\ FutureForm'
  BY <1>2, WalkForm, PTL
<1>4. /\ Here' = undo[At(undo_base, undo_levels - 1)] /\ undo_base' = undo_base
      /\ undo'[At(undo_base, undo_levels - 1)] = Here
      /\ \A i \in Slots : i # undo_levels - 1 =>
            undo'[At(undo_base, i)] = undo[At(undo_base, i)]
  BY <1>2 DEF Exchanged
<1>5. /\ Past \in Seq(LineStates) /\ Len(Past) = undo_levels
      /\ \A i \in 1 .. undo_levels : Past[i] = undo[At(undo_base, i - 1)]
      /\ Past' \in Seq(LineStates) /\ Len(Past') = undo_levels - 1
      /\ \A i \in 1 .. undo_levels - 1 : Past'[i] = undo'[At(undo_base, i - 1)]
  BY <1>2, <1>3, <1>4 DEF PastForm, At
<1>6. /\ Future \in Seq(LineStates) /\ Len(Future) = redo_levels
      /\ \A i \in 1 .. redo_levels : Future[i] = undo[At(undo_base, undo_levels + i - 1)]
      /\ Future' \in Seq(LineStates) /\ Len(Future') = redo_levels + 1
      /\ \A i \in 1 .. redo_levels + 1 :
           Future'[i] = undo'[At(undo_base, undo_levels - 1 + i - 1)]
  BY <1>2, <1>3, <1>4 DEF FutureForm, At
<1>7. Here' = Past[Len(Past)] /\ Past # <<>>
  <2>1. undo_levels \in 1 .. undo_levels
    BY <1>1
  <2> QED
    BY <1>1, <1>4, <1>5, <2>1
<1>8. Past' = SubSeq(Past, 1, Len(Past) - 1)
  <2>1. \A i \in 1 .. undo_levels - 1 :
          i \in 1 .. undo_levels /\ i - 1 \in Slots /\ i - 1 # undo_levels - 1
    BY <1>1
  <2>2. \A i \in 1 .. undo_levels - 1 : Past'[i] = Past[i]
    BY <1>4, <1>5, <2>1
  <2> QED
    BY <1>1, <1>5, <2>2, FrontIs
<1>9. Future' = <<Here>> \o Future
  <2>1. /\ 1 \in 1 .. redo_levels + 1 /\ undo_levels - 1 + 1 - 1 = undo_levels - 1
        /\ \A i \in 1 .. redo_levels :
             /\ i + 1 \in 1 .. redo_levels + 1
             /\ undo_levels - 1 + (i + 1) - 1 = undo_levels + i - 1
             /\ undo_levels + i - 1 \in Slots /\ undo_levels + i - 1 # undo_levels - 1
    BY <1>1
  <2>2. Future'[1] = Here
    <3>1. Future'[1] = undo'[At(undo_base, undo_levels - 1 + 1 - 1)]
      BY <1>6, <2>1
    <3> QED
      BY <1>4, <2>1, <3>1
  <2>3. ASSUME NEW i \in 1 .. redo_levels PROVE Future'[i + 1] = Future[i]
    <3>1. Future'[i + 1] = undo'[At(undo_base, undo_levels - 1 + (i + 1) - 1)]
      BY <1>6, <2>1
    <3>2. undo'[At(undo_base, undo_levels + i - 1)] = undo[At(undo_base, undo_levels + i - 1)]
      BY <1>4, <2>1
    <3> QED
      BY <1>6, <2>1, <3>1, <3>2
  <2> QED
    BY <1>1, <1>6, <2>2, <2>3, FirstIs
<1> QED
  BY <1>7, <1>8, <1>9 DEF Walk!Undo

LEMMA RedoWalk ==
  ASSUME Typed, cx_redo
  PROVE  Walk!Redo
<1>1. /\ undo_levels \in 0 .. Levels /\ redo_levels \in 0 .. Levels - undo_levels
      /\ Levels \in Nat \ {0} /\ Slots = 0 .. Levels - 1
      /\ Here \in LineStates /\ redo_levels > 0
  BY LevelsAssumption DEF Typed, Ring, Slots, cx_redo
<1>2. /\ Typed' /\ Exchanged(undo_levels)
      /\ undo_levels' = undo_levels + 1 /\ redo_levels' = redo_levels - 1
  BY RedoTyped
<1>3. PastForm /\ FutureForm /\ PastForm' /\ FutureForm'
  BY <1>2, WalkForm, PTL
<1>4. /\ Here' = undo[At(undo_base, undo_levels)] /\ undo_base' = undo_base
      /\ undo'[At(undo_base, undo_levels)] = Here
      /\ \A i \in Slots : i # undo_levels =>
            undo'[At(undo_base, i)] = undo[At(undo_base, i)]
  BY <1>2 DEF Exchanged
<1>5. /\ Past \in Seq(LineStates) /\ Len(Past) = undo_levels
      /\ \A i \in 1 .. undo_levels : Past[i] = undo[At(undo_base, i - 1)]
      /\ Past' \in Seq(LineStates) /\ Len(Past') = undo_levels + 1
      /\ \A i \in 1 .. undo_levels + 1 : Past'[i] = undo'[At(undo_base, i - 1)]
  BY <1>2, <1>3, <1>4 DEF PastForm, At
<1>6. /\ Future \in Seq(LineStates) /\ Len(Future) = redo_levels
      /\ \A i \in 1 .. redo_levels : Future[i] = undo[At(undo_base, undo_levels + i - 1)]
      /\ Future' \in Seq(LineStates) /\ Len(Future') = redo_levels - 1
      /\ \A i \in 1 .. redo_levels - 1 :
           Future'[i] = undo'[At(undo_base, undo_levels + 1 + i - 1)]
  BY <1>2, <1>3, <1>4 DEF FutureForm, At
<1>7. Here' = Head(Future) /\ Future # <<>>
  <2>1. 1 \in 1 .. redo_levels /\ undo_levels + 1 - 1 = undo_levels
    BY <1>1
  <2>2. Future[1] = undo[At(undo_base, undo_levels + 1 - 1)]
    BY <1>6, <2>1
  <2>3. Future # <<>> /\ Head(Future) = Future[1]
    BY <1>1, <1>6
  <2> QED
    BY <1>4, <2>1, <2>2, <2>3
<1>8. Past' = Append(Past, Here)
  <2>1. /\ undo_levels + 1 \in 1 .. undo_levels + 1 /\ undo_levels + 1 - 1 = undo_levels
        /\ \A i \in 1 .. undo_levels :
             i \in 1 .. undo_levels + 1 /\ i - 1 \in Slots /\ i - 1 # undo_levels
    BY <1>1
  <2>2. \A i \in 1 .. undo_levels : Past'[i] = Past[i]
    BY <1>4, <1>5, <2>1
  <2>3. Past'[undo_levels + 1] = Here
    <3>1. Past'[undo_levels + 1] = undo'[At(undo_base, undo_levels + 1 - 1)]
      BY <1>5, <2>1
    <3> QED
      BY <1>4, <2>1, <3>1
  <2> QED
    BY <1>1, <1>5, <2>2, <2>3, AppendIs
<1>9. Future' = Tail(Future)
  <2>1. \A i \in 1 .. redo_levels - 1 :
          /\ i + 1 \in 1 .. redo_levels
          /\ undo_levels + 1 + i - 1 = undo_levels + (i + 1) - 1
          /\ undo_levels + 1 + i - 1 \in Slots /\ undo_levels + 1 + i - 1 # undo_levels
    BY <1>1
  <2>2. ASSUME NEW i \in 1 .. redo_levels - 1 PROVE Future'[i] = Future[i + 1]
    <3>1. Future'[i] = undo'[At(undo_base, undo_levels + 1 + i - 1)]
      BY <1>6
    <3>2. undo'[At(undo_base, undo_levels + 1 + i - 1)]
            = undo[At(undo_base, undo_levels + 1 + i - 1)]
      BY <1>4, <2>1
    <3>3. Future[i + 1] = undo[At(undo_base, undo_levels + (i + 1) - 1)]
      BY <1>6, <2>1
    <3> QED
      BY <2>1, <3>1, <3>2, <3>3
  <2> QED
    BY <1>1, <1>6, <2>2, RestIs
<1> QED
  BY <1>7, <1>8, <1>9 DEF Walk!Redo

LEMMA WalkStep ==
  Typed /\ Typed' /\ [Next]_vars => [Walk!UndoNext]_<<Here, Past, Future>>
<1>. SUFFICES ASSUME Typed, Typed', [Next]_vars
              PROVE  [Walk!UndoNext]_<<Here, Past, Future>>
  OBVIOUS
<1>1. Here' \in LineStates
  BY DEF Typed
<1>2. ASSUME UNCHANGED <<undo, undo_base, undo_levels, redo_levels>>
      PROVE  Past' = Past /\ Future' = Future
  BY <1>2 DEF Past, Future, Slot
<1>3. ASSUME NEW t, State(t), Edited(t) PROVE Walk!UndoNext
  <2>. DEFINE op == tell_edit_op(Here, t)
  <2>1. \/ op.code = "NONE" /\ UNCHANGED undovars
        \/ op.code # "NONE" /\ last_op' = op /\ Merge(op) /\ Continued
        \/ op.code # "NONE" /\ last_op' = op /\ ~Merge(op) /\ Recorded
    BY <1>3, AfterForm DEF Edited
  <2>. HIDE DEF op
  <2>2. CASE UNCHANGED undovars
    BY <1>1, <1>2, <2>2 DEF undovars, Walk!UndoNext, Walk!Unrecorded
  <2>3. CASE Merge(op) /\ Continued
    <3>1. undo_levels > 0
      BY <2>3 DEF Typed, Operation, Merge
    <3> QED
      BY <1>1, <2>3, <3>1, ContinuedWalk DEF Walk!UndoNext, Walk!Edit
  <2>4. CASE Recorded
    BY <1>1, <2>4, RecordedWalk DEF Walk!UndoNext, Walk!Edit
  <2> QED
    BY <2>1, <2>2, <2>3, <2>4
<1>4. ASSUME NEW t, Opened(t) PROVE Walk!UndoNext
  BY <1>1, <1>2, <1>4 DEF Opened, Unrecorded, Walk!UndoNext, Walk!Unrecorded
<1>5. ASSUME cx_files_enter PROVE Walk!UndoNext
  <2>1. undo_levels' = 0 /\ redo_levels' = 0
    BY <1>5, EnterTyped
  <2>2. PastForm' /\ FutureForm'
    BY WalkForm, PTL
  <2>3. Past' = <<>> /\ Future' = <<>>
    BY <2>1, <2>2 DEF PastForm, FutureForm
  <2> QED
    BY <1>1, <2>3 DEF Walk!UndoNext, Walk!Reset
<1>6. CASE cx_undo
  BY <1>6, UndoWalk DEF Walk!UndoNext
<1>7. CASE cx_redo
  BY <1>7, RedoWalk DEF Walk!UndoNext
<1>8. CASE CancelCompletion
  <2>1. UNCHANGED <<linevars, undovars>>
    BY <1>8 DEF CancelCompletion
  <2>2. Here' = Here
    BY <2>1 DEF linevars, Here
  <2> QED
    BY <1>2, <2>1, <2>2 DEF undovars
<1>9. CASE UNCHANGED vars
  <2>1. Here' = Here
    BY <1>9 DEF vars, linevars, Here
  <2> QED
    BY <1>2, <1>9, <2>1 DEF vars, undovars
<1> QED
  BY <1>3, <1>4, <1>5, <1>6, <1>7, <1>8, <1>9, StepForm

(***************************************************************************)
(* The ring of snapshots of undo.c implements, for every size, the walk of *)
(* UndoStack: undo restores text and cursor, redo returns to what the undo *)
(* left, and an edit forgets what lies ahead and, when the ring is full,   *)
(* the oldest state only.                                                  *)
(***************************************************************************)
THEOREM RingIsWalk == Spec => ImplementsUndo
<1>1. Init => Walk!UndoInit
  <2>. SUFFICES ASSUME Init PROVE Walk!UndoInit
    OBVIOUS
  <2>1. Typed /\ undo_levels = 0 /\ redo_levels = 0
    BY TypedInit DEF Init
  <2>2. PastForm /\ FutureForm
    BY <2>1, WalkForm
  <2>3. Past = <<>> /\ Future = <<>>
    BY <2>1, <2>2 DEF PastForm, FutureForm
  <2> QED
    BY <2>1, <2>3 DEF Typed, Walk!UndoInit
<1>2. Typed /\ Typed' /\ [Next]_vars => [Walk!UndoNext]_<<Here, Past, Future>>
  BY WalkStep
<1>3. Spec => Walk!UndoInit /\ [][Walk!UndoNext]_<<Here, Past, Future>>
  BY <1>1, <1>2, LineInvariant, PTL DEF Spec
<1> QED
  BY <1>3, PTL DEF ImplementsUndo, Walk!UndoSpec

-----------------------------------------------------------------------------
(***************************************************************************)
(* Joined edits.  Piece(s, l, p, n): l is s with n characters inserted at  *)
(* p, said character by character.                                         *)
(***************************************************************************)
Piece(s, l, p, n) ==
  /\ p \in 0 .. Len(s) /\ n \in Nat \ {0} /\ Len(l) = Len(s) + n
  /\ \A i \in 1 .. p : l[i] = s[i]
  /\ \A i \in p + 1 .. Len(s) : l[i + n] = s[i]

LEMMA PieceCompared ==
  ASSUME NEW s \in Seq(Letters), NEW l \in Seq(Letters), NEW p \in 0 .. Len(s),
         NEW n \in Nat \ {0}, Len(l) = Len(s) + n
  PROVE  cmp_strings(s, l, p, n) <=> Piece(s, l, p, n)
<1>. DEFINE a == SubSeq(l, 1, p)
            b == SubSeq(s, 1, p)
            c == SubSeq(l, p + n + 1, Len(l))
            d == SubSeq(s, p + 1, Len(s))
<1>1. /\ a \in Seq(Letters) /\ Len(a) = p /\ \A i \in 1 .. p : a[i] = l[i]
      /\ b \in Seq(Letters) /\ Len(b) = p /\ \A i \in 1 .. p : b[i] = s[i]
  OBVIOUS
<1>2. /\ c \in Seq(Letters) /\ Len(c) = Len(s) - p
      /\ \A i \in 1 .. Len(s) - p : c[i] = l[p + n + i]
  OBVIOUS
<1>3. /\ d \in Seq(Letters) /\ Len(d) = Len(s) - p
      /\ \A i \in 1 .. Len(s) - p : d[i] = s[p + i]
  OBVIOUS
<1>4. cmp_strings(s, l, p, n) <=> a = b /\ c = d
  BY DEF cmp_strings
<1>. HIDE DEF a, b, c, d
<1>5. a = b <=> \A i \in 1 .. p : l[i] = s[i]
  <2>1. (\A i \in 1 .. p : l[i] = s[i]) => a = b
    BY <1>1, SequencesEqual
  <2> QED
    BY <1>1, <2>1
<1>6. c = d <=> \A i \in 1 .. Len(s) - p : l[p + n + i] = s[p + i]
  <2>1. (\A i \in 1 .. Len(s) - p : l[p + n + i] = s[p + i]) => c = d
    BY <1>2, <1>3, SequencesEqual
  <2> QED
    BY <1>2, <1>3, <2>1
<1>7. (\A i \in 1 .. Len(s) - p : l[p + n + i] = s[p + i])
        <=> (\A i \in p + 1 .. Len(s) : l[i + n] = s[i])
  <2>1. ASSUME \A i \in 1 .. Len(s) - p : l[p + n + i] = s[p + i],
               NEW j \in p + 1 .. Len(s)
        PROVE  l[j + n] = s[j]
    <3>1. j - p \in 1 .. Len(s) - p /\ p + n + (j - p) = j + n /\ p + (j - p) = j
      OBVIOUS
    <3> QED
      BY <2>1, <3>1
  <2>2. ASSUME \A i \in p + 1 .. Len(s) : l[i + n] = s[i],
               NEW j \in 1 .. Len(s) - p
        PROVE  l[p + n + j] = s[p + j]
    <3>1. p + j \in p + 1 .. Len(s) /\ (p + j) + n = p + n + j
      OBVIOUS
    <3> QED
      BY <2>2, <3>1
  <2> QED
    BY <2>1, <2>2
<1> QED
  BY <1>4, <1>5, <1>6, <1>7 DEF Piece

(* Two pieces, the second one inserted at the end of the first one *)
LEMMA PiecesInserted ==
  ASSUME NEW s \in Seq(Letters), NEW b \in Seq(Letters), NEW a \in Seq(Letters),
         NEW p, NEW n, NEW m, Piece(s, b, p, n), Piece(b, a, p + n, m)
  PROVE  Piece(s, a, p, n + m)
<1>1. /\ p \in 0 .. Len(s) /\ n \in Nat \ {0} /\ Len(b) = Len(s) + n
      /\ m \in Nat \ {0} /\ Len(a) = Len(b) + m
      /\ Len(s) \in Nat
  BY DEF Piece
<1>2. /\ \A i \in 1 .. p : b[i] = s[i] /\ a[i] = b[i]
      /\ \A i \in p + 1 .. Len(s) : b[i + n] = s[i] /\ a[(i + n) + m] = b[i + n]
  <2>1. /\ \A i \in 1 .. p : i \in 1 .. p + n
        /\ \A i \in p + 1 .. Len(s) : i + n \in (p + n) + 1 .. Len(b)
    BY <1>1
  <2> QED
    BY <2>1 DEF Piece
<1>3. /\ n + m \in Nat \ {0} /\ Len(a) = Len(s) + (n + m)
      /\ \A i \in p + 1 .. Len(s) : (i + n) + m = i + (n + m)
  BY <1>1
<1> QED
  BY <1>1, <1>2, <1>3 DEF Piece

(* A piece, and then one character before it or after it, was deleted. *)
LEMMA PiecesDeleted ==
  ASSUME NEW s \in Seq(Letters), NEW b \in Seq(Letters), NEW a \in Seq(Letters),
         NEW p, NEW q, NEW k, Piece(b, s, p, k), Piece(a, b, q, 1), q \in {p, p - 1}
  PROVE  Piece(a, s, q, k + 1)
<1>1. /\ p \in 0 .. Len(b) /\ k \in Nat \ {0} /\ Len(s) = Len(b) + k
      /\ q \in 0 .. Len(a) /\ Len(b) = Len(a) + 1
      /\ Len(a) \in Nat
  BY DEF Piece
<1>2. /\ \A i \in 1 .. q : s[i] = b[i] /\ b[i] = a[i]
      /\ \A i \in q + 1 .. Len(a) : s[(i + 1) + k] = b[i + 1] /\ b[i + 1] = a[i]
  <2>1. /\ \A i \in 1 .. q : i \in 1 .. p
        /\ \A i \in q + 1 .. Len(a) : i + 1 \in p + 1 .. Len(b)
    BY <1>1
  <2> QED
    BY <2>1 DEF Piece
<1>3. /\ k + 1 \in Nat \ {0} /\ Len(s) = Len(a) + (k + 1)
      /\ \A i \in q + 1 .. Len(a) : (i + 1) + k = i + (k + 1)
  BY <1>1
<1> QED
  BY <1>1, <1>2, <1>3 DEF Piece

LEMMA Shorter ==
  ASSUME NEW x \in Nat, NEW y \in Nat, NEW n \in Int, x = y + n, n < 0
  PROVE  -n \in Nat \ {0} /\ y = x + (-n)
OBVIOUS

(* What tell_edit_op() tells of an operation is true of it. *)
LEMMA OperationTold ==
  ASSUME NEW b, NEW a, State(b), State(a)
  PROVE  LET op == tell_edit_op(b, a)
         IN  /\ op.code = "NONE" => a.line = b.line
             /\ op.code = "INS" => Piece(b.line, a.line, op.pos, op.len)
             /\ op.code = "DEL" => Piece(a.line, b.line, op.pos, op.len)
<1>. DEFINE op == tell_edit_op(b, a)
            n == Len(a.line) - Len(b.line)
<1>1. /\ a.line \in Seq(Letters) /\ b.line \in Seq(Letters)
      /\ Len(a.line) \in Nat /\ Len(b.line) \in Nat
      /\ a.curs \in Nat /\ a.curs <= Len(a.line)
  BY DEF State
<1>2. n \in Int /\ Len(a.line) = Len(b.line) + n
  BY <1>1
<1>3. op = CASE a.line = b.line -> Op("NONE", 0, 0)
             [] n > 0 /\ cmp_strings(b.line, a.line, a.curs - n, n)
                  -> Op("INS", a.curs - n, n)
             [] n < 0 /\ cmp_strings(a.line, b.line, a.curs, -n)
                  -> Op("DEL", a.curs, -n)
             [] OTHER -> Op("CHANGE", 0, 0)
  BY DEF tell_edit_op
<1>. HIDE DEF op, n
<1>4. /\ op.code = "NONE" => a.line = b.line
      /\ op.code = "INS" => /\ n > 0 /\ cmp_strings(b.line, a.line, a.curs - n, n)
                            /\ op.pos = a.curs - n /\ op.len = n
      /\ op.code = "DEL" => /\ n < 0 /\ cmp_strings(a.line, b.line, a.curs, -n)
                            /\ op.pos = a.curs /\ op.len = -n
  BY <1>3 DEF Op
<1>5. ASSUME op.code = "INS" PROVE Piece(b.line, a.line, op.pos, op.len)
  <2>1. a.curs - n >= 0
    BY <1>4, <1>5 DEF cmp_strings
  <2>2. a.curs - n \in 0 .. Len(b.line) /\ n \in Nat \ {0}
    BY <1>1, <1>2, <1>4, <1>5, <2>1
  <2> QED
    BY <1>1, <1>2, <1>4, <1>5, <2>2, PieceCompared
<1>6. ASSUME op.code = "DEL" PROVE Piece(a.line, b.line, op.pos, op.len)
  <2>0. n < 0
    BY <1>4, <1>6
  <2>1. a.curs \in 0 .. Len(a.line)
    BY <1>1
  <2>2. -n \in Nat \ {0} /\ Len(b.line) = Len(a.line) + (-n)
    BY <1>1, <1>2, <2>0, Shorter
  <2> QED
    BY <1>1, <1>4, <1>6, <2>1, <2>2, PieceCompared
<1> QED
  BY <1>4, <1>5, <1>6 DEF op

Saved == undo[At(undo_base, undo_levels - 1)].line

(* The last operation tells where the piece is: an insertion ended behind
   it, a deletion left the place where it was. *)
Joined ==
  undo_levels > 0 /\ ~unseen =>
    /\ last_op.code = "INS" =>
         \E n \in Nat : Piece(Saved, line, last_op.pos + last_op.len - n, n)
    /\ last_op.code = "DEL" =>
         \E n \in Nat : Piece(line, Saved, last_op.pos, n)

LEMMA SavedIsLine ==
  ASSUME Typed, undo_levels > 0
  PROVE  Saved \in Seq(Letters)
<1>1. undo_levels - 1 \in Slots /\ undo_levels - 1 < undo_levels + redo_levels
  BY LevelsAssumption DEF Typed, Ring, Slots
<1>2. undo[At(undo_base, undo_levels - 1)] \in LineStates
  BY <1>1 DEF Typed, Ring
<1> QED
  BY <1>2, StatesAre DEF State, Saved

LEMMA JoinedImplies == Typed /\ Joined => JoinedEditsAreOne
<1>. SUFFICES ASSUME Typed, Joined, undo_levels > 0, ~unseen
              PROVE  JoinedEditsAreOne
  BY DEF JoinedEditsAreOne
<1>. DEFINE n == Len(line) - Len(Saved)
<1>1. Saved = undo[Slot(undo_levels - 1)].line
  BY DEF Saved, At, Slot
<1>2. Saved \in Seq(Letters) /\ Len(Saved) \in Nat
  BY SavedIsLine
<1>3. line \in Seq(Letters) /\ Len(line) \in Nat
  BY HereIsState DEF State, Here
<1>4. last_op.pos \in Int /\ last_op.len \in Int
  BY DEF Typed, Operation
<1>5. ASSUME last_op.code = "INS"
      PROVE  n > 0 /\ cmp_strings(Saved, line, last_op.pos + last_op.len - n, n)
  <2>1. PICK m \in Nat : Piece(Saved, line, last_op.pos + last_op.len - m, m)
    BY <1>5 DEF Joined
  <2>. DEFINE p == last_op.pos + last_op.len - m
  <2>2. p \in 0 .. Len(Saved) /\ m \in Nat \ {0} /\ Len(line) = Len(Saved) + m
    BY <2>1 DEF Piece
  <2>3. n = m
    BY <1>2, <1>3, <2>2
  <2>4. cmp_strings(Saved, line, p, m)
    <3>. HIDE DEF p
    <3> QED
      BY <1>2, <1>3, <2>1, <2>2, PieceCompared DEF p
  <2> QED
    BY <2>2, <2>3, <2>4
<1>6. ASSUME last_op.code = "DEL"
      PROVE  n < 0 /\ cmp_strings(line, Saved, last_op.pos, -n)
  <2>1. PICK m \in Nat : Piece(line, Saved, last_op.pos, m)
    BY <1>6 DEF Joined
  <2>2. last_op.pos \in 0 .. Len(line) /\ m \in Nat \ {0} /\ Len(Saved) = Len(line) + m
    BY <2>1 DEF Piece
  <2>3. -n = m /\ n < 0
    BY <1>2, <1>3, <2>2
  <2> QED
    BY <1>2, <1>3, <2>1, <2>2, <2>3, PieceCompared
<1>. HIDE DEF n
<1> QED
  BY <1>1, <1>5, <1>6 DEF JoinedEditsAreOne, n

LEMMA EditedJoined ==
  ASSUME Typed, Joined, NEW t, State(t), Edited(t)
  PROVE  Joined'
<1>. DEFINE op == tell_edit_op(Here, t)
<1>1. line' = t.line /\ Here.line = line
  BY DEF Edited, Becomes, Here
<1>2. /\ op.code = "NONE" => t.line = line
      /\ op.code = "INS" => Piece(line, t.line, op.pos, op.len)
      /\ op.code = "DEL" => Piece(t.line, line, op.pos, op.len)
  BY <1>1, HereIsState, OperationTold
<1>3. op \in [code : {"NONE", "INS", "DEL", "CHANGE"}, pos : Int, len : Int]
  BY HereIsState, OperationKinds
<1>4. \/ op.code = "NONE" /\ UNCHANGED undovars
      \/ op.code # "NONE" /\ last_op' = op /\ Merge(op) /\ Continued
      \/ op.code # "NONE" /\ last_op' = op /\ ~Merge(op) /\ Recorded
  BY AfterForm DEF Edited
<1>. HIDE DEF op
<1>5. /\ undo_levels \in 0 .. Levels /\ Levels \in Nat \ {0} /\ Slots = 0 .. Levels - 1
      /\ line \in Seq(Letters) /\ t.line \in Seq(Letters)
      /\ last_op.pos \in Int /\ last_op.len \in Int
  BY <1>1, HereIsState, LevelsAssumption DEF Typed, Ring, Slots, State, Operation
<1>6. CASE op.code = "NONE" /\ UNCHANGED undovars
  BY <1>1, <1>2, <1>6 DEF Joined, Saved, At, undovars
<1>7. CASE op.code # "NONE" /\ last_op' = op /\ Merge(op) /\ Continued
  <2>. SUFFICES ASSUME undo_levels' > 0, ~unseen' PROVE Joined'
    BY DEF Joined
  <2>1. undo_levels' = undo_levels /\ undo_base' = undo_base /\ unseen' = unseen
          /\ undo_levels > 0 /\ ~unseen
    BY <1>7 DEF Continued
  <2>2. Saved \in Seq(Letters)
    BY <2>1, SavedIsLine
  <2>3. Saved' = Saved
    <3>1. undo_levels - 1 \in Slots /\ undo_levels - 1 < undo_levels
      BY <1>5, <2>1
    <3>2. undo'[At(undo_base, undo_levels - 1)] = undo[At(undo_base, undo_levels - 1)]
      BY <1>7, <3>1 DEF Continued
    <3> QED
      BY <2>1, <3>2 DEF Saved, At
  <2>4. CASE op.code = "INS"
    <3>1. last_op.code = "INS" /\ op.pos = last_op.pos + last_op.len
      BY <1>7, <2>4 DEF Merge
    <3>2. PICK n \in Nat : Piece(Saved, line, last_op.pos + last_op.len - n, n)
      BY <2>1, <3>1 DEF Joined
    <3>. DEFINE p == last_op.pos + last_op.len - n
    <3>3. op.pos = p + n /\ op.len \in Int /\ p \in Int
      BY <1>3, <1>5, <3>1
    <3>. HIDE DEF p
    <3>4. Piece(Saved, t.line, p, n + op.len)
      BY <1>2, <1>5, <2>2, <2>4, <3>2, <3>3, PiecesInserted DEF p
    <3>5. op.pos + op.len - (n + op.len) = p /\ n + op.len \in Nat
      <4>1. op.len \in Nat
        BY <1>2, <2>4 DEF Piece
      <4> QED
        BY <3>3, <4>1
    <3>6. \E m \in Nat : Piece(Saved', line', last_op'.pos + last_op'.len - m, m)
      BY <1>1, <1>7, <2>3, <3>4, <3>5
    <3> QED
      BY <1>7, <2>4, <3>6 DEF Joined
  <2>5. CASE op.code = "DEL"
    <3>1. last_op.code = "DEL" /\ op.len = 1 /\ op.pos \in {last_op.pos, last_op.pos - 1}
      BY <1>7, <2>5 DEF Merge
    <3>2. PICK n \in Nat : Piece(line, Saved, last_op.pos, n)
      BY <2>1, <3>1 DEF Joined
    <3>3. Piece(t.line, Saved, op.pos, n + 1)
      BY <1>2, <1>5, <2>2, <2>5, <3>1, <3>2, PiecesDeleted
    <3>4. \E m \in Nat : Piece(line', Saved', last_op'.pos, m)
      BY <1>1, <1>7, <2>3, <3>3
    <3> QED
      BY <1>7, <2>5, <3>4 DEF Joined
  <2> QED
    BY <1>7, <2>4, <2>5 DEF Merge
<1>8. CASE op.code # "NONE" /\ last_op' = op /\ ~Merge(op) /\ Recorded
  <2>1. Saved' = line
    <3>1. undo'[At(undo_base', undo_levels' - 1)] = Here
      <4>1. CASE undo_levels < Levels
        <5>1. undo_levels' - 1 = undo_levels /\ undo_levels \in Slots
                /\ ~(undo_levels < undo_levels)
          BY <1>5, <1>8, <4>1 DEF Recorded, LevelsAfter
        <5>2. undo'[At(undo_base', undo_levels)] = Here
          BY <1>8, <4>1, <5>1 DEF Recorded
        <5> QED
          BY <5>1, <5>2
      <4>2. CASE undo_levels = Levels
        <5>1. undo_levels' - 1 = Levels - 1 /\ Levels - 1 \in Slots
                /\ ~(Levels - 1 < Levels - 1)
          BY <1>5, <1>8, <4>2 DEF Recorded, LevelsAfter
        <5>2. undo'[At(undo_base', Levels - 1)] = Here
          BY <1>8, <4>2, <5>1 DEF Recorded
        <5> QED
          BY <5>1, <5>2
      <4> QED
        BY <1>5, <4>1, <4>2
    <3> QED
      BY <1>1, <3>1 DEF Saved, At
  <2>2. ASSUME op.code = "INS"
        PROVE  \E m \in Nat : Piece(Saved', line', last_op'.pos + last_op'.len - m, m)
    <3>1. op.pos + op.len - op.len = op.pos /\ op.len \in Nat
      <4>1. op.len \in Nat
        BY <1>2, <2>2 DEF Piece
      <4> QED
        BY <1>3, <4>1
    <3> QED
      BY <1>1, <1>2, <1>8, <2>1, <2>2, <3>1
  <2>3. ASSUME op.code = "DEL"
        PROVE  \E m \in Nat : Piece(line', Saved', last_op'.pos, m)
    <3>1. op.len \in Nat
      BY <1>2, <2>3 DEF Piece
    <3> QED
      BY <1>1, <1>2, <1>8, <2>1, <2>3, <3>1
  <2> QED
    BY <1>8, <2>2, <2>3 DEF Joined
<1> QED
  BY <1>4, <1>6, <1>7, <1>8

LEMMA JoinedStep == Typed /\ Joined /\ [Next]_vars => Joined'
<1>. SUFFICES ASSUME Typed, Joined, [Next]_vars PROVE Joined'
  OBVIOUS
<1>1. ASSUME NEW t, Opened(t) PROVE Joined'
  <2>1. /\ line' = t.line /\ unseen' = (unseen \/ t.line # line)
        /\ UNCHANGED <<undo, undo_base, undo_levels, redo_levels, last_op>>
    BY <1>1 DEF Opened, Unrecorded, Becomes
  <2>2. ~unseen' => ~unseen /\ line' = line
    BY <2>1
  <2> QED
    BY <2>1, <2>2 DEF Joined, Saved, At
<1>2. ASSUME cx_files_enter PROVE Joined'
  <2>1. undo_levels' = 0
    BY <1>2, EnterTyped
  <2>2. ~(undo_levels' > 0)
    BY <2>1
  <2> QED
    BY <2>2 DEF Joined
<1>3. ASSUME cx_undo \/ cx_redo PROVE Joined'
  <2>1. last_op' = Op("CHANGE", 0, 0)
    BY <1>3 DEF cx_undo, cx_redo, Swap
  <2>2. last_op'.code # "INS" /\ last_op'.code # "DEL"
    BY <2>1 DEF Op
  <2> QED
    BY <2>2 DEF Joined
<1>4. CASE CancelCompletion \/ UNCHANGED vars
  <2>1. UNCHANGED <<linevars, undovars>>
    BY <1>4 DEF CancelCompletion, vars
  <2> QED
    BY <2>1 DEF linevars, undovars, Joined, Saved, At
<1> QED
  BY <1>1, <1>2, <1>3, <1>4, StepForm, EditedJoined

(***************************************************************************)
(* undo_after() joins any number of edits, and still what the next undo    *)
(* takes back is one piece of text: the test for joining in Merge compares *)
(* neighbouring edits only, and the lemmas about pieces show why that is   *)
(* enough for all of them together.                                        *)
(***************************************************************************)
THEOREM JoinedEditsCorrect == Spec => []JoinedEditsAreOne
<1>1. Init => Joined
  BY DEF Init, Joined, Op
<1>2. Spec => []Joined
  BY <1>1, JoinedStep, LineInvariant, PTL DEF Spec
<1> QED
  BY <1>2, LineInvariant, JoinedImplies, PTL
=============================================================================
