------------------------------ MODULE MCHistory ------------------------------
(***************************************************************************)
(* Small instances of History: more commands than the history can hold,   *)
(* one of which is recorded as another one, and a filter that only two of  *)
(* them match.  When these have been deleted the listing is empty.         *)
(***************************************************************************)
EXTENDS History, TLC

CONSTANTS a, b, c, wcd, empty

MCCmds == {a, b, c, wcd}
MCRecorded == [x \in MCCmds |-> IF x = wcd THEN a ELSE x]
(* Only a can fail; nothing tells b and c apart. *)
MCResults == [x \in MCCmds |-> IF x = a THEN BOOLEAN ELSE {FALSE}]
MCSymmetry == Permutations({b, c})

MCFilters == {MCCmds, {b, c}}
=============================================================================
