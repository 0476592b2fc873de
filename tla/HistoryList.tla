------------------------------ MODULE HistoryList -----------------------------
(***************************************************************************)
(* What the command history promises its user: a list of the last commands,*)
(* the most recent one first, every command at most once and with the      *)
(* result of its last execution, at most `size' of them.  The list is      *)
(* written by the execution of commands and by the deletion of an entry;   *)
(* a new size clears it.                                                   *)
(***************************************************************************)
EXTENDS Integers, Sequences

CONSTANTS
  Cmds,     \* commands
  Sizes     \* the permitted values of H_SIZE

VARIABLES
  list,     \* the entries: command and whether it failed
  size      \* the capacity

Entries == [cmd : Cmds, failed : BOOLEAN]

Without(s, k) == SubSeq(s, 1, k - 1) \o SubSeq(s, k + 1, Len(s))

(* The command is moved to the top with its new result ... *)
SaveKnown(e) ==
  \E k \in DOMAIN list :
    /\ list[k].cmd = e.cmd
    /\ list' = <<e>> \o Without(list, k)

(* ... or it is new; the oldest one makes room for it if the list is full. *)
SaveNew(e) ==
  /\ \A k \in DOMAIN list : list[k].cmd # e.cmd
  /\ list' = <<e>> \o (IF Len(list) = size THEN Without(list, size) ELSE list)

Save == UNCHANGED size /\ \E e \in Entries : SaveKnown(e) \/ SaveNew(e)

Delete == UNCHANGED size /\ \E k \in DOMAIN list : list' = Without(list, k)

Clear == list' = <<>> /\ size' \in Sizes

ListInit == list = <<>> /\ size \in Sizes

ListNext == Save \/ Delete \/ Clear

ListSpec == ListInit /\ [][ListNext]_<<list, size>>
=============================================================================
