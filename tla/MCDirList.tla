----------------------------- MODULE MCDirList ------------------------------
(***************************************************************************)
(* A small instance of DirList: the directories /, /a, /a/b and /ab,       *)
(* three of which can be remembered, and the file /a/b/b.                  *)
(***************************************************************************)
EXTENDS DirList

a == 97
b == 98
dot == 46

MCUp == <<dot, dot>>
MCSlash == 47

MCA == <<MCSlash, a>>
MCAb == <<MCSlash, a, MCSlash, b>>
MCDirs == {<<MCSlash>>, MCA, MCAb, <<MCSlash, a, b>>}

MCLists ==
  [d \in MCDirs |->
     IF d \in {MCA, MCAb} THEN {MCUp, <<b>>} ELSE {MCUp}]

(* The position on the file /a/b/b is followed neither into other directories
   nor when the list is full: that on the directory b of /a is. *)
FileStays == place[MCAb] = <<b>> => pf.dir = MCAb /\ Len(dirlist) < SaveMax

MCUnreliable == {MCA}
MCFilters == {<<>>, <<b>>}
=============================================================================
