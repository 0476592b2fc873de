----------------------------- MODULE MCEditLine -----------------------------
(***************************************************************************)
(* A small instance of EditLine: two characters, the space one of them,    *)
(* lines of up to three, a ring of two slots, and joined insertions of     *)
(* less than three characters.                                             *)
(***************************************************************************)
EXTENDS EditLine

CONSTANTS x, sp

MCChars == {x, sp}
MCTexts == {<<x, x>>}
MCRecalls == {<<x>>, <<x, sp, x>>}
=============================================================================
