------------------------------- MODULE MCPanel -------------------------------
(***************************************************************************)
(* Small instances of Panel: panels with the extra lines that start.c      *)
(* gives them, and windows of the least height that CLEX accepts (three    *)
(* lines) and a bit more.                                                  *)
(***************************************************************************)
EXTENDS Panel, FiniteSets

ManyPanels == {"files", "menu", "bookmarks", "sort"}
ManyTypes == [p \in ManyPanels |->
  CASE p = "files" -> "FILE" [] p = "menu" -> "MENU"
    [] p = "bookmarks" -> "BM_MANAGER" [] p = "sort" -> "SORT"]
ManyExtra == [p \in ManyPanels |->
  CASE p = "files" -> 0 [] p = "bookmarks" -> 2 [] OTHER -> 1]
ManyCounts == [p \in ManyPanels |->
  CASE p = "files" -> {0, 1, 4} [] p = "menu" -> {3}
    [] p = "bookmarks" -> 0 .. 3 [] p = "sort" -> {13}]

(* The bound of the run: at most one file is marked. *)
OneMark == \A p \in Panels : Cardinality(pd[p].marks) <= 1
=============================================================================
