----------------------------- MODULE MCFilePanel -----------------------------
(***************************************************************************)
(* Small instances of FilePanel: two directories, two files in all of the  *)
(* directories together, one of them possibly hidden, and the filter       *)
(* expressions that tell the files apart.                                  *)
(***************************************************************************)
EXTENDS PanelPatterns, TLC

CONSTANTS root, sub, a, b, up, all, only_a, half, by_name, by_time

MCDirs == {root, sub}
MCAbove == [d \in MCDirs |-> IF d = root THEN <<>> ELSE <<root>>]
MCFiles == {a, b}
OneFile == {a}
MCContents == {{a}, {b}, {a, b}}
(* where files come and go all the time *)
FewContents == {{a}, {a, b}}
OneFileContents == {{}, {a}}
MCDotDirs == {up}
MCSortKeys == {by_name, by_time}

CompletePatterns == {all, only_a}
(* "half" has an open bracket. *)
MCPatterns == {all, only_a, half}

MCCollation ==
  <<"!", "\"", "$", "'", "*", "-", ".", "?", "[", "\\", "]", "^", "a", "b", "c">>

(* "all" is the empty expression.  ".." matches no other one. *)
MCMatches ==
  [e \in Patterns |->
     Names \cap CASE e = all -> {a, b, up} [] e = only_a -> {a} [] e = half -> {}]

(***************************************************************************)
(* The bound of the search for wrong marks and counters.  Both panels hold *)
(* marks, a filter and a current listing only while all goes well: the     *)
(* expressions are complete, no command is in progress, all files exist    *)
(* and all directories are accessible.  Otherwise one of them is plain.    *)
(***************************************************************************)
AllWell ==
  /\ cmd = "none"
  /\ \A p \in PanelIds :
       fpanel[p].filter \notin Incomplete /\ fpanel[p].sorted # Unsorted
  /\ \A d \in Dirs : world.contents[d] = Files /\ world.access[d] = "ok"

Plain(r) == r.filtering = 0 /\ r.marks = {} /\ r.expired

MarksBound == AllWell \/ \E p \in PanelIds : Plain(fpanel[p])

(***************************************************************************)
(* The expressions and words for which match.c is compared with the rules  *)
(* for shell patterns: all short ones, and longer ones that are one list.  *)
(***************************************************************************)
Strings(chars, n) == UNION {[1 .. k -> chars] : k \in 0 .. n}

ShortExprs ==
  Strings({"*", "?", "[", "]", "'", "\\", "\"", ".", "a"}, 4)
    \cup Strings({"*", "?", "a", "b"}, 5)
ListExprs ==
  {<<"[">> \o s \o <<"]">> :
     s \in Strings({"^", "]", "-", "a", "b", "c"}, 4)
             \cup {<<"a", "-", "c">> \o r : r \in Strings({"-", "a", "c"}, 4)}}
MCExpressions == ShortExprs \cup ListExprs

MCWords == Strings({"a", "b", "."}, 2) \cup {<<"-">>, <<"]">>, <<"c">>, <<"a", "b", "a">>}

(* Where only the panels matter *)
NoStrings == {}
=============================================================================
