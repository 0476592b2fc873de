---------------------------- MODULE PanelPatterns ----------------------------
(***************************************************************************)
(* The file panels together with the matcher: the expressions that the     *)
(* user enters as a filter, or to select and deselect files, are checked   *)
(* by check_sre() and compared with the names of the files by match().     *)
(***************************************************************************)
EXTENDS FilePanel, Match

(***************************************************************************)
(* From the start on, match.c accepts exactly the complete expressions,    *)
(* and it finds exactly the names that a shell would find.  (Nothing in    *)
(* this depends on the state: it is enough to look at it once.)            *)
(***************************************************************************)
MatchIsShell == Init => PatternsAreShell
=============================================================================
