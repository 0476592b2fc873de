-------------------------------- MODULE Match --------------------------------
(***************************************************************************)
(* Shell patterns for the filter and for the selection of files (match.c): *)
(* three finite state machines tag every character of the expression with  *)
(* a symbol, and check_match() compares the result with a word.            *)
(*                                                                         *)
(* Characters are strings of length 1, expressions and words are sequences *)
(* of them.  Symbols and states are named as in the source, without SYM_   *)
(* and STATE_.                                                             *)
(***************************************************************************)
EXTENDS Integers, Sequences, FiniteSetsExt, SequencesExt

CONSTANTS
  Collation,    \* the characters in the order of strcoll()
  Expressions,  \* what the user may enter
  Words         \* and the names that it is compared with

Chars == ToSet(Collation)

ASSUME ExpressionsAssumption ==
  /\ "" \notin Chars
  /\ Expressions \cup Words \subseteq Seq(Chars)

Pos(c) == CHOOSE i \in DOMAIN Collation : Collation[i] = c

rangecmp(from, ch, to) == Pos(from) <= Pos(ch) /\ Pos(ch) <= Pos(to)

-----------------------------------------------------------------------------
(* parse_expression() *)

(* Quoting: the symbol of a character and the next state.  There is no
   character after the last one: `next' is "" then, and strchr() finds it. *)
Quoting(state, ch, next) ==
  CASE state = "NORMAL" ->
         CASE ch = "\\" -> <<"IGNORE", "BACKSLASH">>
           [] ch = "'" -> <<"IGNORE", "SINGLE">>
           [] ch = "\"" -> <<"IGNORE", "DOUBLE">>
           [] OTHER -> <<"TEMP_NQ", "NORMAL">>
    [] state = "BACKSLASH" -> <<"LITERAL", "NORMAL">>
    [] state = "DOUBLE_BACKSLASH" -> <<"LITERAL", "DOUBLE">>
    [] state = "SINGLE" /\ ch = "'" -> <<"IGNORE", "NORMAL">>
    [] state = "DOUBLE" /\ ch = "\"" -> <<"IGNORE", "NORMAL">>
    [] state = "DOUBLE" /\ ch = "\\" /\ next \in {"\\", "\"", "$", ""} ->
         <<"IGNORE", "DOUBLE_BACKSLASH">>
    [] OTHER -> <<"LITERAL", state>>

QuotingAt(e, state, i) ==
  Quoting(state, e[i], IF i = Len(e) THEN "" ELSE e[i + 1])

(* The state after each number of characters, and the symbols *)
QuotingStates(e) ==
  LET state[i \in 0 .. Len(e)] ==
        IF i = 0 THEN "NORMAL" ELSE QuotingAt(e, state[i - 1], i)[2]
  IN  state

Quoted(e) ==
  LET state == QuotingStates(e)
  IN  [i \in 1 .. Len(e) |-> QuotingAt(e, state[i - 1], i)[1]]

(* Metacharacters *)
Meta(state, symbol, ch) ==
  LET nq == symbol = "TEMP_NQ"
  IN  CASE symbol = "IGNORE" -> <<"IGNORE", state>>
        [] symbol # "IGNORE" /\ state = "NORMAL" ->
             CASE nq /\ ch = "[" -> <<"LIST_BEGIN", "LIST_BEGIN">>
               [] nq /\ ch = "?" -> <<"ANY_CHAR", "NORMAL">>
               [] nq /\ ch = "*" -> <<"ANY_STRING", "NORMAL">>
               [] OTHER -> <<"LITERAL", "NORMAL">>
        [] state = "LIST_BEGIN" /\ nq /\ ch \in {"^", "!"} -> <<"LIST_INV", "LIST_BEGIN_2">>
        [] state = "LIST_BODY" /\ nq /\ ch = "]" -> <<"LIST_END", "NORMAL">>
        [] state = "LIST_BODY" /\ nq /\ ch = "-" -> <<"TEMP_HYPHEN", "LIST_BODY">>
        [] OTHER -> <<"LITERAL", "LIST_BODY">>

MetaStates(e, sym) ==
  LET state[i \in 0 .. Len(e)] ==
        IF i = 0 THEN "NORMAL" ELSE Meta(state[i - 1], sym[i], e[i])[2]
  IN  state

Tagged(e, sym) ==
  LET state == MetaStates(e, sym)
  IN  [i \in 1 .. Len(e) |-> Meta(state[i - 1], sym[i], e[i])[1]]

(* Mutant: after a range, its upper limit is the lower one of the next. *)
AfterRange_Chained(p, i) == [p EXCEPT !.state = "RANGE1", !.from = i]

AfterRange(p, i) == [p EXCEPT !.state = "LIST"]

(* Ranges: p holds the symbols, the state, and the positions of the last
   character in the list and of a hyphen after it. *)
Range1(p, i) ==
  LET s == p.sym[i]
  IN  CASE s = "IGNORE" -> p
        [] s # "IGNORE" /\ p.state = "NORMAL" ->
             IF s = "LIST_BEGIN" THEN [p EXCEPT !.state = "LIST"] ELSE p
        [] p.state \in {"LIST", "RANGE1"} /\ s = "LIST_END" ->
             [p EXCEPT !.state = "NORMAL"]
        [] p.state = "RANGE2" /\ s = "LIST_END" ->
             [p EXCEPT !.state = "NORMAL", !.sym[p.hyphen] = "LITERAL"]
        [] p.state = "RANGE2" /\ s \notin {"IGNORE", "LIST_END"} ->
             AfterRange([p EXCEPT !.sym[p.from] = "RANGE_FROM",
                                  !.sym[p.hyphen] = "IGNORE",
                                  !.sym[i] = "RANGE_TO"], i)
        [] p.state \in {"LIST", "RANGE1"} /\ s = "LITERAL" ->
             [p EXCEPT !.from = i, !.state = "RANGE1"]
        [] p.state = "LIST" /\ s = "TEMP_HYPHEN" -> [p EXCEPT !.sym[i] = "LITERAL"]
        [] p.state = "RANGE1" /\ s = "TEMP_HYPHEN" ->
             [p EXCEPT !.hyphen = i, !.state = "RANGE2"]
        [] OTHER -> p

Ranges(e, sym) ==
  LET run[i \in 0 .. Len(e)] ==
        IF i = 0 THEN [sym |-> sym, state |-> "NORMAL", from |-> 1, hyphen |-> 1]
                 ELSE Range1(run[i - 1], i)
  IN  run[Len(e)].sym

(* check_sre(): the error, and the symbols if there is none *)
check_sre(e) ==
  LET n == Len(e)
      quoting == QuotingStates(e)[n]
      sym == Quoted(e)
      tags == Tagged(e, sym)
  IN  CASE quoting = "SINGLE" -> [err |-> "MISSING_SINGLE", sym |-> <<>>]
        [] quoting \in {"DOUBLE", "DOUBLE_BACKSLASH"} ->
             [err |-> "MISSING_DOUBLE", sym |-> <<>>]
        [] quoting = "BACKSLASH" -> [err |-> "BACKSLASH", sym |-> <<>>]
        [] quoting = "NORMAL" /\ MetaStates(e, sym)[n] # "NORMAL" ->
             [err |-> "UNBALANCED", sym |-> <<>>]
        [] OTHER -> [err |-> "NONE", sym |-> Ranges(e, tags)]

-----------------------------------------------------------------------------
(* match() *)

(* The flag `inlist', before the character at i *)
inlist(sym, i) ==
  \E b \in 1 .. i - 1 : sym[b] = "LIST_BEGIN" /\ \A j \in b .. i - 1 : sym[j] # "LIST_END"

Begin(sym, i) == Max({b \in 1 .. i : sym[b] = "LIST_BEGIN"})

(* The flags at the end i of a list, for the character ch of the word *)
inverse(sym, i) == \E j \in Begin(sym, i) .. i : sym[j] = "LIST_INV"

listmatch(e, sym, i, ch) ==
  \E k \in Begin(sym, i) .. i :
    \/ sym[k] = "LITERAL" /\ e[k] = ch
    \/ /\ sym[k] = "RANGE_TO"
       /\ rangecmp(e[Max({l \in 1 .. k : sym[l] = "RANGE_FROM"})], ch, e[k])

(* Where the loop for * stops *)
FirstDecided(results) == Min({j \in DOMAIN results : results[j] # "NO"})

(* check_match() for the rest of the expression from i and the word from k:
   next[k] is the result for the rest of the expression from i + 1. *)
Result(e, sym, word, i, k, next) ==
  LET n == Len(e)
      m == Len(word)
  IN  CASE i > n -> IF k > m THEN "YES" ELSE "NO"
        [] i <= n /\ sym[i] = "LITERAL" /\ ~inlist(sym, i) ->
             IF k <= m /\ e[i] = word[k] THEN next[k + 1] ELSE "NO"
        [] i <= n /\ sym[i] \in {"ANY_CHAR", "LIST_BEGIN"} ->
             IF k <= m THEN next[k + 1] ELSE "NO"
        [] i <= n /\ sym[i] = "ANY_STRING" ->
             LET results == [j \in k .. m + 1 |-> next[j]]
             IN  IF i = n THEN "YES"
                 ELSE IF \A j \in k .. m + 1 : results[j] = "NO" THEN "NEVER"
                 ELSE results[FirstDecided(results)]
        [] i <= n /\ sym[i] = "LIST_END" ->
             IF k > 1 /\ listmatch(e, sym, i, word[k - 1]) # inverse(sym, i)
             THEN next[k] ELSE "NO"
        [] OTHER -> next[k]

check_match(e, sym, word) ==
  LET check[i \in 1 .. Len(e) + 1] ==
        [k \in 1 .. Len(word) + 1 |-> Result(e, sym, word, i, k, check[i + 1])]
  IN  check[1][1]

(* The first character of the expression, quotes apart, is a dot. *)
LiteralDot(e, sym) ==
  \E i \in 1 .. Len(e) :
    /\ sym[i] = "LITERAL" /\ e[i] = "."
    /\ \A j \in 1 .. i - 1 : sym[j] = "IGNORE"

match(e, sym, word) ==
  /\ word # <<>> /\ word[1] = "." => LiteralDot(e, sym)
  /\ check_match(e, sym, word) = "YES"

-----------------------------------------------------------------------------
(***************************************************************************)
(* What shell patterns mean, by the rules for quoting and for lists.       *)
(***************************************************************************)

(* Quotes, lists and ranges are told apart from what looks like them by the
   same rule: of the positions in C, each of which would start something that
   extends to the position last[i], those count that do not lie in what an
   earlier one has started. *)
Outermost(C, last) ==
  CHOOSE G \in SUBSET C :
    \A i \in C : i \in G <=> ~\E j \in G : j < i /\ i <= last[j]

(* Within the double quotes opened at q: the character at j comes after an
   odd number of backslashes. *)
Escaped(e, q, j) ==
  \E k \in q .. j - 1 :
    e[k] # "\\" /\ (j - k) % 2 = 0 /\ \A l \in k + 1 .. j - 1 : e[l] = "\\"

(* A backslash that quotes the next character within double quotes *)
Escapes(e, q, j) ==
  /\ e[j] = "\\" /\ ~Escaped(e, q, j)
  /\ j < Len(e) /\ e[j + 1] \in {"\\", "\"", "$"}

(* The last character of what a quoting character at q quotes *)
QuoteEnd(e, q) ==
  LET n == Len(e)
      ends == CASE e[q] = "\\" -> {q + 1} \cap 1 .. n
                [] e[q] = "'" -> {j \in q + 1 .. n : e[j] = "'"}
                [] OTHER -> {j \in q + 1 .. n : e[j] = "\"" /\ ~Escaped(e, q, j)}
  IN  IF ends = {} THEN n + 1 ELSE Min(ends)

Quotes(e, q, j) ==
  /\ q < j
  /\ CASE e[q] = "\\" -> j = q + 1
       [] e[q] = "'" -> j < QuoteEnd(e, q)
       [] OTHER -> j < QuoteEnd(e, q) /\ ~Escapes(e, q, j)

(* The text without the quotes: the positions of its characters, those of
   the characters that are not quoted, and whether all quotes are closed. *)
Text(e) ==
  LET n == Len(e)
      last == [i \in 1 .. n |-> QuoteEnd(e, i)]
      quotes == Outermost({i \in 1 .. n : e[i] \in {"\\", "'", "\""}}, last)
      bare == {i \in 1 .. n : \A q \in quotes : ~(q <= i /\ i <= last[q])}
  IN  [ch |-> e, bare |-> bare,
       kept |-> bare \cup {i \in 1 .. n : \E q \in quotes : Quotes(e, q, i)},
       closed |-> \A q \in quotes : last[q] <= n]

Is(t, i, c) == i \in t.bare /\ t.ch[i] = c

Follows(t, i, j) ==
  i < j /\ j \in t.kept /\ \A k \in t.kept : ~(i < k /\ k < j)

(* The list opened at l: the inversion mark, what follows it, the closing
   bracket, which is not the first character, and the characters between. *)
Inversion(t, l) == {j \in t.bare : Follows(t, l, j) /\ t.ch[j] \in {"^", "!"}}

Body(t, l) == {j \in t.kept : l < j} \ Inversion(t, l)

FirstOf(t, l, j) == \A k \in Body(t, l) : j <= k

ListEnd(t, l) ==
  LET ends == {j \in Body(t, l) : Is(t, j, "]") /\ ~FirstOf(t, l, j)}
  IN  IF ends = {} THEN Len(t.ch) + 1 ELSE Min(ends)

Members(t, l) == {j \in Body(t, l) : j < ListEnd(t, l)}

(* The upper limit of a range that starts at b: behind a hyphen, and not the
   closing bracket.  A hyphen itself starts a range only if it is the first
   character of the list. *)
UpperLimits(t, l, b) ==
  {j \in Members(t, l) :
     /\ Is(t, b, "-") => FirstOf(t, l, b)
     /\ \E h \in Members(t, l) : Follows(t, b, h) /\ Is(t, h, "-") /\ Follows(t, h, j)}

ListSet(t, l) ==
  LET limits == {b \in Members(t, l) : UpperLimits(t, l, b) # {}}
      last == [b \in limits |-> Min(UpperLimits(t, l, b))]
      ranges == Outermost(limits, last)
  IN  {c \in Chars : \E b \in ranges : rangecmp(t.ch[b], c, t.ch[last[b]])}
        \cup {t.ch[j] : j \in {j \in Members(t, l) :
                                 \A b \in ranges : ~(b <= j /\ j <= last[b])}}

(* The lists of a text *)
Lists(t) ==
  LET last == [i \in 1 .. Len(t.ch) |-> ListEnd(t, i)]
      lists == Outermost({i \in t.bare : t.ch[i] = "["}, last)
  IN  [starts |-> lists, last |-> last,
       sets |-> [l \in lists |-> ListSet(t, l)],
       closed |-> \A l \in lists : last[l] <= Len(t.ch)]

(* The character at i of a text with the lists r stands for ch. *)
StandsFor(t, r, i, ch) ==
  IF i \in r.starts THEN (ch \in r.sets[i]) # (Inversion(t, i) # {})
                    ELSE Is(t, i, "?") \/ t.ch[i] = ch

(* The positions in the word that can be reached with each number of
   characters of the expression *)
Reach(t, r, word) ==
  LET m == Len(word)
      reach[i \in 0 .. Len(t.ch)] ==
        IF i = 0 THEN {1}
        ELSE IF i \notin t.kept \/ \E l \in r.starts : l < i /\ i <= r.last[l]
        THEN reach[i - 1]
        ELSE IF Is(t, i, "*") THEN {k \in 1 .. m + 1 : \E j \in reach[i - 1] : j <= k}
        ELSE {k + 1 : k \in {k \in reach[i - 1] : k <= m /\ StandsFor(t, r, i, word[k])}}
  IN  reach

(* The whole word can be reached, and a leading dot is written, not matched
   by a metacharacter. *)
ShellMatch(t, r, word) ==
  /\ Len(word) + 1 \in Reach(t, r, word)[Len(t.ch)]
  /\ word # <<>> /\ word[1] = "." =>
       \E i \in t.kept : t.ch[i] = "." /\ \A j \in t.kept : i <= j

(***************************************************************************)
(* The three state machines of parse_expression() accept an expression if  *)
(* and only if its quotes and lists are complete, and match() finds, with  *)
(* all its shortcuts, exactly the names that the pattern stands for.       *)
(***************************************************************************)
PatternsAreShell ==
  \A e \in Expressions :
    LET code == check_sre(e)
        t == Text(e)
        r == Lists(t)
    IN  IF t.closed /\ r.closed
        THEN code.err = "NONE"
               /\ \A w \in Words : match(e, code.sym, w) = ShellMatch(t, r, w)
        ELSE code.err # "NONE"
=============================================================================
