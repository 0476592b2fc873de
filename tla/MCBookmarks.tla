---------------------------- MODULE MCBookmarks -----------------------------
(***************************************************************************)
(* Two sessions, two directories, lists of up to two.                      *)
(***************************************************************************)
EXTENDS Bookmarks, TLC

CONSTANTS p, q, d, e

MCSessions == {p, q}
MCDirs == {d, e}
MCSymmetry == Permutations(MCSessions) \cup Permutations(MCDirs)
=============================================================================
