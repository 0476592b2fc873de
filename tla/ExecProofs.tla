----------------------------- MODULE ExecProofs -------------------------------
(***************************************************************************)
(* Theorems about module Exec, for any depth of nested calls of execute(). *)
(*                                                                         *)
(* What CLEX needs of the terminal follows from who may have changed it:   *)
(* the command only while CLEX waits for it, so that the process group in  *)
(* the foreground is CLEX's own at all other times, and nobody changes the *)
(* mode that CLEX has set.  A command is in the foreground because its     *)
(* process group exists before either of the two moves it there.           *)
(***************************************************************************)
EXTENDS Exec, SequenceTheorems, TLAPS

Idle == {"panel", "warn", "confirm", "after", "restart", "redraw"}
Waiting == {"setpgid", "fg", "wait", "give", "cont"}
Ended == {"ended", "list", "anykey", "listed", "return"}

Call ==
  [prompt : BOOLEAN, failed : BOOLEAN,
   back : {"restart", "after", "redraw", "return"}]

Clex ==
  [pc : Idle \cup Waiting \cup Ended \cup Ending \cup {"fork", "own", "read"},
   kind : {"plain", "nprompt", "wcd", "br", "viewer"}, calls : Seq(Call),
   then : {"return", "redraw"}, status : {"ok", "err", "stopped"},
   gofile : BOOLEAN, left : BOOLEAN]

Child ==
  [pc : {"none", "setpgid", "fg", "exec", "run", "cleanup", "exit", "zombie"},
   grp : {"clex", "cmd"}, stopped : BOOLEAN, report : BOOLEAN,
   code : {"ok", "err"}, late : BOOLEAN]

Tty ==
  [fg : {"clex", "cmd", "job", "saved"}, mode : {"prog", "text", "raw", "any"},
   title : {"idle", "busy", "done", "old"}]

Typed ==
  /\ clex \in Clex /\ child \in Child /\ tty \in Tty
  /\ curses \in BOOLEAN /\ wait \in BOOLEAN

(* The first call returns to where it was made in the panels, the others to
   the tty_press_enter() of the call before. *)
BackIn(i) == IF i = 1 THEN {"restart", "after", "redraw"} ELSE {"return"}

StackOK(calls) ==
  /\ calls \in Seq(Call) /\ Len(calls) <= MaxCalls
  /\ \A i \in 1 .. Len(calls) : calls[i].back \in BackIn(i)

(* CLEX has a child while it waits; it has not called execute() in the panels. *)
Flow ==
  clex.pc \notin Ending =>
    /\ child.pc # "none" <=>
         clex.pc \in Waiting \/ (clex.pc = "own" /\ clex.status = "stopped")
    /\ clex.calls = <<>> <=>
         clex.pc \in Idle \/ (clex.pc = "read" /\ clex.then = "redraw")

Terminal ==
  /\ clex.pc \notin Ending \cup Waiting \cup {"own"} => tty.fg = "clex"
  /\ clex.pc \in {"read", "confirm"} => tty.mode = "raw"
  /\ clex.pc \in Idle \/ (clex.pc = "read" /\ clex.then = "redraw")
       => tty.title = "idle"
  /\ clex.pc = "panel" => clex.left \/ (curses /\ tty.mode = "prog")
  /\ clex.pc = "gone" => child.late \/ tty.fg = "saved"
  /\ clex.pc \in {"pgrp", "gone"} /\ child.pc = "none"
       => tty.mode = "text" /\ tty.title = "old"

Group ==
  /\ child.report => child.stopped
  /\ child.pc \in {"fg", "exec", "run"} => child.grp = "cmd"
  /\ clex.pc \in {"fg", "wait", "own", "give", "cont"} /\ child.pc # "none"
       => child.grp = "cmd"
  /\ child.pc \in {"exec", "run"} /\ clex.pc \notin {"give"} \cup Ending
       => tty.fg \in {"cmd", "job"}

Calls == StackOK(clex.calls)

Inv == Typed /\ Calls /\ Flow /\ Terminal /\ Group

USE DEF Idle, Waiting, Ended, Ending

-----------------------------------------------------------------------------
(* The stack of calls *)

LEMMA CalledOK ==
  ASSUME NEW c, StackOK(c), Len(c) < MaxCalls, NEW prompt \in BOOLEAN,
         NEW back \in BackIn(Len(c) + 1)
  PROVE  LET called == Append(c, [prompt |-> prompt, failed |-> TRUE, back |-> back])
         IN  StackOK(called) /\ called # <<>> /\ called \in Seq(Call)
  <1> DEFINE e == [prompt |-> prompt, failed |-> TRUE, back |-> back]
             called == Append(c, e)
  <1>1. c \in Seq(Call) /\ Len(c) \in Nat
    BY LenProperties DEF StackOK
  <1>2. e \in Call /\ e.back = back
    BY DEF Call, BackIn
  <1> HIDE DEF e
  <1>3. /\ called \in Seq(Call) /\ called # <<>> /\ Len(called) = Len(c) + 1
        /\ \A i \in 1 .. Len(c) : called[i] = c[i]
        /\ called[Len(c) + 1] = e
    BY <1>1, <1>2, AppendProperties
  <1> HIDE DEF called
  <1>4. Len(called) <= MaxCalls
    BY <1>1, <1>3, MaxCallsAssumption
  <1>5. \A i \in 1 .. Len(called) : called[i].back \in BackIn(i)
    <2> TAKE i \in 1 .. Len(called)
    <2>1. CASE i \in 1 .. Len(c)
      BY <1>3, <2>1 DEF StackOK
    <2>2. CASE i = Len(c) + 1
      BY <1>2, <1>3, <2>2
    <2> QED BY <1>1, <1>3, <2>1, <2>2
  <1> QED BY <1>3, <1>4, <1>5 DEF StackOK, called, e

LEMMA PoppedOK ==
  ASSUME NEW c, StackOK(c), c # <<>>
  PROVE  LET popped == SubSeq(c, 1, Len(c) - 1)
             back == c[Len(c)].back
         IN  /\ StackOK(popped) /\ popped \in Seq(Call)
             /\ \/ back \in {"restart", "after", "redraw"} /\ popped = <<>>
                \/ back = "return" /\ popped # <<>>
  <1> DEFINE popped == SubSeq(c, 1, Len(c) - 1)
             n == Len(c)
  <1>1. c \in Seq(Call) /\ n \in Nat \ {0} /\ n <= MaxCalls
        /\ \A i \in 1 .. n : c[i] \in Call
    BY EmptySeq, ElementOfSeq DEF StackOK
  <1>2. /\ popped \in Seq(Call) /\ Len(popped) = n - 1
        /\ \A i \in 1 .. n - 1 : popped[i] = c[i]
    <2>1. \A i \in 1 .. n - 1 : c[i] \in Call
      BY <1>1
    <2>2. 1 \in Int /\ n - 1 \in Int
      BY <1>1
    <2>3. /\ popped \in Seq(Call)
          /\ Len(popped) = IF 1 <= n - 1 THEN (n - 1) - 1 + 1 ELSE 0
          /\ \A i \in 1 .. (n - 1) - 1 + 1 : popped[i] = c[1 + i - 1]
      BY <2>1, <2>2, SubSeqProperties
    <2>4. Len(popped) = n - 1
      <3> HIDE DEF popped, n
      <3>1. CASE n = 1
        BY <2>3, <3>1
      <3>2. CASE 1 <= n - 1
        BY <1>1, <2>3, <3>2
      <3> QED BY <1>1, <3>1, <3>2
    <2>5. ASSUME NEW i \in 1 .. n - 1
          PROVE  popped[i] = c[i]
      <3>1. i \in 1 .. (n - 1) - 1 + 1 /\ 1 + i - 1 = i
        BY <1>1
      <3> QED BY <2>3, <3>1
    <2> QED BY <2>3, <2>4, <2>5
  <1> HIDE DEF popped
  <1>3. StackOK(popped)
    BY <1>1, <1>2, MaxCallsAssumption DEF StackOK
  <1>4. CASE n = 1
    <2>1. popped = <<>>
      BY <1>2, <1>4, EmptySeq
    <2> QED BY <1>2, <1>3, <1>4, <2>1 DEF StackOK, BackIn, popped
  <1>5. CASE n # 1
    <2>1. popped # <<>>
      BY <1>1, <1>2, <1>5, EmptySeq
    <2>2. c[n].back = "return"
      <3>1. n \in 1 .. Len(c)
        BY <1>1
      <3> QED BY <1>5, <3>1 DEF StackOK, BackIn
    <2> QED BY <1>2, <1>3, <2>1, <2>2 DEF popped
  <1> QED BY <1>4, <1>5

LEMMA FailedOK ==
  ASSUME NEW c, StackOK(c), c # <<>>, NEW b \in BOOLEAN
  PROVE  LET result == [c EXCEPT ![Len(c)].failed = b]
         IN  StackOK(result) /\ result # <<>> /\ result \in Seq(Call)
  <1> DEFINE n == Len(c)
             e == [c[n] EXCEPT !.failed = b]
             result == [c EXCEPT ![n] = e]
  <1>1. c \in Seq(Call) /\ n \in Nat \ {0} /\ c[n] \in Call
    BY EmptySeq, ElementOfSeq DEF StackOK
  <1>2. e \in Call /\ e.back = c[n].back
    BY <1>1 DEF Call
  <1>3. [c EXCEPT ![n].failed = b] = result
    OBVIOUS
  <1> HIDE DEF e
  <1>4. /\ result \in Seq(Call) /\ Len(result) = n
        /\ \A i \in 1 .. n : result[i] = IF i = n THEN e ELSE c[i]
    BY <1>1, <1>2, ExceptSeq
  <1> HIDE DEF result
  <1>5. result # <<>>
    BY <1>1, <1>4, EmptySeq
  <1>6. StackOK(result)
    BY <1>1, <1>2, <1>4 DEF StackOK
  <1> QED BY <1>3, <1>4, <1>5, <1>6

-----------------------------------------------------------------------------
(* Steps of CLEX that call no execute() and do not return from it *)

LEMMA CallsKept ==
  ASSUME Calls, clex'.calls = clex.calls
  PROVE  Calls'
  BY DEF Calls, StackOK

LEMMA InvParts ==
  ASSUME Typed', Calls', Flow', Terminal', Group'
  PROVE  Inv'
  BY DEF Inv

LEMMA PanelStep ==
  ASSUME Inv, execute_cmd \/ win_remark \/ config_apply
  PROVE  Inv'
  <1>1. CASE execute_cmd
    <2>1. /\ clex.pc = "panel" /\ clex' \in Clex /\ clex'.pc = "warn"
          /\ clex'.calls = clex.calls
          /\ UNCHANGED child
      BY <1>1 DEF execute_cmd, Inv, Typed, Clex
    <2>2. /\ tty' \in Tty /\ tty'.fg = tty.fg /\ tty'.title = tty.title
          /\ curses' \in BOOLEAN /\ wait' \in BOOLEAN
      BY <1>1 DEF execute_cmd, tty_reset, Inv, Typed, Tty
    <2> QED
      BY <2>1, <2>2, CallsKept, InvParts DEF Inv, Typed, Flow, Terminal, Group
  <1>2. CASE win_remark
    BY <1>2, CallsKept, InvParts DEF win_remark, Inv, Typed, Flow, Terminal, Group
  <1>3. CASE config_apply
    <2>1. /\ clex.pc = "panel" /\ clex' \in Clex /\ clex'.pc = "restart"
          /\ clex'.calls = clex.calls
          /\ UNCHANGED child
      BY <1>3 DEF config_apply, Goto, Inv, Typed, Clex
    <2>2. /\ tty' \in Tty /\ tty'.fg = tty.fg /\ tty'.title = tty.title
          /\ curses' \in BOOLEAN /\ wait' \in BOOLEAN
      BY <1>3 DEF config_apply, tty_reset, Inv, Typed, Tty
    <2> QED
      BY <2>1, <2>2, CallsKept, InvParts DEF Inv, Typed, Flow, Terminal, Group
  <1> QED BY <1>1, <1>2, <1>3

LEMMA RestartStep ==
  ASSUME Inv, ReadGoFile \/ curses_restart \/ reset_prog_mode
  PROVE  Inv'
  <1>1. CASE ReadGoFile
    <2>1. /\ clex' \in Clex /\ clex'.calls = clex.calls /\ clex.pc = "after"
          /\ clex'.pc = "restart" \/ (clex'.pc = "panel" /\ clex'.left)
          /\ UNCHANGED <<child, tty, curses, wait>>
      BY <1>1 DEF ReadGoFile, Goto, Inv, Typed, Clex
    <2> QED
      BY <2>1, CallsKept, InvParts DEF Inv, Typed, Flow, Terminal, Group
  <1>2. CASE curses_restart
    <2>1. /\ clex' \in Clex /\ clex'.calls = clex.calls /\ clex.pc = "restart"
          /\ \/ clex'.pc = "read" /\ clex'.then = "redraw" /\ tty'.mode = "raw"
             \/ clex'.pc = "redraw"
          /\ tty' \in Tty /\ tty'.fg = tty.fg /\ tty'.title = tty.title
          /\ wait' \in BOOLEAN /\ UNCHANGED <<child, curses>>
      BY <1>2 DEF curses_restart, Goto, tty_setraw, Inv, Typed, Clex, Tty
    <2> QED
      BY <2>1, CallsKept, InvParts DEF Inv, Typed, Flow, Terminal, Group
  <1>3. CASE reset_prog_mode
    <2>1. /\ clex' \in Clex /\ clex'.calls = clex.calls
          /\ clex.pc = "redraw" /\ clex'.pc = "panel"
          /\ tty' \in Tty /\ tty'.fg = tty.fg /\ tty'.title = tty.title
          /\ tty'.mode = "prog" /\ curses' = TRUE
          /\ UNCHANGED <<child, wait>>
      BY <1>3 DEF reset_prog_mode, Inv, Typed, Clex, Tty
    <2> QED
      BY <2>1, CallsKept, InvParts DEF Inv, Typed, Flow, Terminal, Group
  <1> QED BY <1>1, <1>2, <1>3

-----------------------------------------------------------------------------
(* execute() is called and returns. *)

LEMMA CallingOK ==
  ASSUME Inv, Len(clex.calls) < MaxCalls, NEW prompt \in BOOLEAN, NEW back,
         IF clex.calls = <<>> THEN back \in {"restart", "after", "redraw"}
         ELSE back = "return"
  PROVE  /\ StackOK(Called(prompt, back)) /\ Called(prompt, back) # <<>>
         /\ Called(prompt, back) \in Seq(Call)
  <1>1. clex.calls \in Seq(Call) /\ StackOK(clex.calls)
    BY DEF Inv, Calls, StackOK
  <1>2. back \in BackIn(Len(clex.calls) + 1)
    <2>1. CASE clex.calls = <<>>
      <3>1. Len(clex.calls) + 1 = 1
        BY <2>1, EmptySeq
      <3> QED BY <2>1, <3>1 DEF BackIn
    <2>2. CASE clex.calls # <<>>
      <3>1. Len(clex.calls) \in Nat \ {0}
        BY <1>1, <2>2, EmptySeq
      <3>2. Len(clex.calls) + 1 # 1
        BY <3>1
      <3> QED BY <2>2, <3>2 DEF BackIn
    <2> QED BY <2>1, <2>2
  <1> QED BY <1>1, <1>2, CalledOK DEF Called

LEMMA FirstCallOK ==
  ASSUME Inv, clex.calls = <<>>, NEW prompt \in BOOLEAN,
         NEW back \in {"restart", "after", "redraw"}
  PROVE  /\ StackOK(Called(prompt, back)) /\ Called(prompt, back) # <<>>
         /\ Called(prompt, back) \in Seq(Call)
  <1>1. Len(clex.calls) < MaxCalls
    BY EmptySeq, MaxCallsAssumption
  <1> QED BY <1>1, CallingOK

(* The shell or the command is about to be forked off. *)
LEMMA Calling ==
  ASSUME Inv, NEW c, StackOK(c), c # <<>>, clex'.calls = c,
         clex.pc \in Idle \cup {"read"}, clex' \in Clex, clex'.pc = "fork",
         tty' \in Tty, tty'.fg = tty.fg, UNCHANGED <<child, curses, wait>>
  PROVE  Inv'
  <1>1. Calls'
    BY DEF Calls, StackOK
  <1> QED BY <1>1, InvParts DEF Inv, Typed, Flow, Terminal, Group

LEMMA CallStep ==
  ASSUME Inv, cx_launch_file_viewer \/ print_warnings \/ user_confirm \/ PressT
  PROVE  Inv'
  <1>0. /\ clex \in Clex /\ tty \in Tty
        /\ clex.pc \in Idle => clex.calls = <<>>
        /\ clex.pc = "read" => (clex.calls = <<>> <=> clex.then = "redraw")
        /\ clex.then \in {"return", "redraw"}
    BY DEF Inv, Typed, Flow, Clex
  <1>1. CASE cx_launch_file_viewer
    <2> DEFINE c == Called(FALSE, "restart")
    <2>1. clex.pc = "panel" /\ UNCHANGED <<child, tty, curses, wait>>
      BY <1>1 DEF cx_launch_file_viewer
    <2>2. StackOK(c) /\ c # <<>> /\ c \in Seq(Call)
      BY <1>0, <2>1, FirstCallOK
    <2>3. clex' = [clex EXCEPT !.pc = "fork", !.kind = "viewer", !.gofile = FALSE,
                               !.calls = c]
      BY <1>1 DEF cx_launch_file_viewer
    <2> HIDE DEF c
    <2>4. clex' \in Clex /\ clex'.pc = "fork" /\ clex'.calls = c
      BY <1>0, <2>2, <2>3 DEF Clex
    <2> QED BY <1>0, <2>1, <2>2, <2>4, Calling
  <1>2. CASE print_warnings
    <2> DEFINE c == Called(clex.kind = "plain", "after")
    <2>1. clex.pc = "warn" /\ UNCHANGED <<child, curses, wait>>
      BY <1>2 DEF print_warnings
    <2>2. StackOK(c) /\ c # <<>> /\ c \in Seq(Call)
      BY <1>0, <2>1, FirstCallOK
    <2>3. \/ clex' = [clex EXCEPT !.pc = "fork", !.calls = c] /\ UNCHANGED tty
          \/ clex' = [clex EXCEPT !.pc = "confirm"] /\ tty' = [tty EXCEPT !.mode = "raw"]
      BY <1>2 DEF print_warnings, Goto, tty_setraw
    <2> HIDE DEF c
    <2>4. CASE clex' = [clex EXCEPT !.pc = "fork", !.calls = c] /\ UNCHANGED tty
      <3>1. clex' \in Clex /\ clex'.pc = "fork" /\ clex'.calls = c
        BY <1>0, <2>2, <2>4 DEF Clex
      <3> QED BY <1>0, <2>1, <2>2, <2>4, <3>1, Calling
    <2>5. CASE clex' = [clex EXCEPT !.pc = "confirm"] /\ tty' = [tty EXCEPT !.mode = "raw"]
      <3>1. clex' \in Clex /\ clex'.pc = "confirm" /\ clex'.calls = clex.calls
        BY <1>0, <2>5 DEF Clex
      <3>2. /\ tty' \in Tty /\ tty'.mode = "raw"
            /\ tty'.fg = tty.fg /\ tty'.title = tty.title
        BY <1>0, <2>5 DEF Tty
      <3> QED
        BY <2>1, <3>1, <3>2, CallsKept, InvParts DEF Inv, Typed, Flow, Terminal, Group
    <2> QED BY <2>3, <2>4, <2>5
  <1>3. CASE user_confirm
    <2> DEFINE c == Called(clex.kind = "plain", "after")
    <2>1. clex.pc = "confirm" /\ UNCHANGED <<child, curses, wait>>
      BY <1>3 DEF user_confirm
    <2>2. StackOK(c) /\ c # <<>> /\ c \in Seq(Call)
      BY <1>0, <2>1, FirstCallOK
    <2>3. \/ clex' = [clex EXCEPT !.pc = "fork", !.calls = c]
          \/ clex' = [clex EXCEPT !.pc = "restart"]
      BY <1>3 DEF user_confirm, Goto
    <2>4. tty' \in Tty /\ tty'.fg = tty.fg /\ tty'.title = tty.title
      BY <1>0, <1>3 DEF user_confirm, tty_reset, Tty
    <2> HIDE DEF c
    <2>5. CASE clex' = [clex EXCEPT !.pc = "fork", !.calls = c]
      <3>1. clex' \in Clex /\ clex'.pc = "fork" /\ clex'.calls = c
        BY <1>0, <2>2, <2>5 DEF Clex
      <3> QED BY <1>0, <2>1, <2>2, <2>4, <3>1, Calling
    <2>6. CASE clex' = [clex EXCEPT !.pc = "restart"]
      <3>1. clex' \in Clex /\ clex'.pc = "restart" /\ clex'.calls = clex.calls
        BY <1>0, <2>6 DEF Clex
      <3> QED
        BY <2>1, <2>4, <3>1, CallsKept, InvParts DEF Inv, Typed, Flow, Terminal, Group
    <2> QED BY <2>3, <2>5, <2>6
  <1>4. CASE PressT
    <2> DEFINE c == Called(FALSE, clex.then)
    <2>1. clex.pc = "read" /\ Len(clex.calls) < MaxCalls /\ UNCHANGED <<child, curses, wait>>
      BY <1>4 DEF PressT
    <2>2. StackOK(c) /\ c # <<>> /\ c \in Seq(Call)
      BY <1>0, <2>1, CallingOK
    <2>3. clex' = [clex EXCEPT !.pc = "fork", !.calls = c]
      BY <1>4 DEF PressT
    <2>4. tty' \in Tty /\ tty'.fg = tty.fg
      BY <1>0, <1>4 DEF PressT, tty_reset, Tty
    <2> HIDE DEF c
    <2>5. clex' \in Clex /\ clex'.pc = "fork" /\ clex'.calls = c
      BY <1>0, <2>2, <2>3 DEF Clex
    <2> QED BY <1>0, <2>1, <2>2, <2>4, <2>5, Calling
  <1> QED BY <1>1, <1>2, <1>3, <1>4

LEMMA ReturnStep ==
  ASSUME Inv, Return
  PROVE  Inv'
  <1>1. /\ clex.pc = "return" /\ clex.calls # <<>> /\ StackOK(clex.calls)
        /\ clex \in Clex /\ tty \in Tty /\ UNCHANGED <<child, curses, wait>>
    BY DEF Return, Inv, Typed, Flow, Calls
  <1> DEFINE back == Top.back
             popped == Popped
  <1>2. /\ StackOK(popped) /\ popped \in Seq(Call)
        /\ \/ back \in {"restart", "after", "redraw"} /\ popped = <<>>
           \/ back = "return" /\ popped # <<>>
    BY <1>1, PoppedOK DEF Top, Popped
  <1>3. clex' = [clex EXCEPT !.pc = back, !.calls = popped]
    BY DEF Return
  <1>4. /\ tty' \in Tty /\ tty'.title = "idle" /\ tty'.fg = tty.fg
    BY <1>1 DEF Return, Tty
  <1> HIDE DEF back, popped
  <1>5. clex' \in Clex /\ clex'.pc = back /\ clex'.calls = popped
    BY <1>1, <1>2, <1>3 DEF Clex
  <1>6. Calls'
    BY <1>2, <1>5 DEF Calls, StackOK
  <1> QED
    BY <1>1, <1>2, <1>4, <1>5, <1>6, InvParts DEF Inv, Typed, Flow, Terminal, Group

-----------------------------------------------------------------------------
(* execute(): CLEX *)

LEMMA ForkStep ==
  ASSUME Inv, fork \/ setpgid \/ MoveToForeground
  PROVE  Inv'
  <1>1. CASE fork
    <2>1. /\ clex' \in Clex /\ clex'.calls = clex.calls
          /\ clex.pc = "fork"
          /\ tty' \in Tty /\ tty'.fg = tty.fg
          /\ \/ /\ clex'.pc = "setpgid" /\ child' \in Child
                /\ child'.pc = "setpgid" /\ ~child'.report
             \/ clex'.pc = "list" /\ UNCHANGED child
          /\ UNCHANGED <<curses, wait>>
      BY <1>1 DEF fork, Goto, NoChild, Inv, Typed, Clex, Child, Tty
    <2> QED
      BY <2>1, CallsKept, InvParts DEF Inv, Typed, Flow, Terminal, Group
  <1>2. CASE setpgid
    <2>1. /\ clex' \in Clex /\ clex'.calls = clex.calls
          /\ clex.pc = "setpgid" /\ clex'.pc = "fg"
          /\ child' \in Child /\ child'.grp = "cmd" /\ child'.pc = child.pc
          /\ child'.report = child.report /\ child'.stopped = child.stopped
          /\ UNCHANGED <<tty, curses, wait>>
      BY <1>2 DEF setpgid, Goto, Inv, Typed, Clex, Child
    <2> QED
      BY <2>1, CallsKept, InvParts DEF Inv, Typed, Flow, Terminal, Group
  <1>3. CASE MoveToForeground
    <2>1. /\ clex' \in Clex /\ clex'.calls = clex.calls
          /\ clex.pc = "fg" /\ clex'.pc = "wait"
          /\ tty' \in Tty /\ tty'.fg = "cmd"
          /\ UNCHANGED <<child, curses, wait>>
      BY <1>3 DEF MoveToForeground, Goto, GiveTo, Foreground, Inv, Typed, Flow, Group, Clex, Tty
    <2> QED
      BY <2>1, CallsKept, InvParts DEF Inv, Typed, Flow, Terminal, Group
  <1> QED BY <1>1, <1>2, <1>3

LEMMA WaitStep ==
  ASSUME Inv, waitpid \/ TakeTerminal \/ GiveTerminal \/ kill
  PROVE  Inv'
  <1>1. CASE waitpid
    <2>1. /\ clex \in Clex /\ child \in Child
          /\ clex.pc = "wait" /\ child.pc # "none"
          /\ UNCHANGED <<tty, curses, wait>>
      BY <1>1 DEF waitpid, Inv, Typed, Flow
    <2>2. CASE /\ clex' = [clex EXCEPT !.pc = "own", !.status = child.code]
               /\ child' = NoChild
      <3>1. /\ clex' \in Clex /\ clex'.calls = clex.calls
            /\ clex'.pc = "own" /\ clex'.status # "stopped"
        BY <2>1, <2>2 DEF Clex, Child
      <3>2. child' \in Child /\ child'.pc = "none" /\ ~child'.report
        BY <2>2 DEF NoChild, Child
      <3> QED
        BY <2>1, <3>1, <3>2, CallsKept, InvParts DEF Inv, Typed, Flow, Terminal, Group
    <2>3. CASE /\ clex' = [clex EXCEPT !.pc = "own", !.status = "stopped"]
               /\ child' = [child EXCEPT !.report = FALSE]
      <3>1. /\ clex' \in Clex /\ clex'.calls = clex.calls
            /\ clex'.pc = "own" /\ clex'.status = "stopped"
        BY <2>1, <2>3 DEF Clex
      <3>2. /\ child' \in Child /\ child'.pc = child.pc /\ child'.grp = child.grp
            /\ ~child'.report
        BY <2>1, <2>3 DEF Child
      <3> QED
        BY <2>1, <3>1, <3>2, CallsKept, InvParts DEF Inv, Typed, Flow, Terminal, Group
    <2> QED BY <1>1, <2>2, <2>3, Zenon DEF waitpid
  <1>2. CASE TakeTerminal
    <2>1. /\ clex' \in Clex /\ clex'.calls = clex.calls
          /\ clex.pc = "own" /\ clex'.status = clex.status
          /\ clex'.pc = IF clex.status = "stopped" THEN "give" ELSE "ended"
          /\ tty' \in Tty /\ tty'.fg = "clex"
          /\ UNCHANGED <<child, curses, wait>>
      BY <1>2 DEF TakeTerminal, AfterWait, Goto, Foreground, Inv, Typed, Clex, Tty
    <2> QED
      BY <2>1, CallsKept, InvParts DEF Inv, Typed, Flow, Terminal, Group
  <1>3. CASE GiveTerminal
    <2>1. /\ clex' \in Clex /\ clex'.calls = clex.calls
          /\ clex.pc = "give" /\ clex'.pc = "cont"
          /\ tty' \in Tty /\ tty'.fg = "cmd"
          /\ UNCHANGED <<child, curses, wait>>
      BY <1>3 DEF GiveTerminal, Goto, GiveTo, Foreground, Inv, Typed, Flow, Group, Clex, Tty
    <2> QED
      BY <2>1, CallsKept, InvParts DEF Inv, Typed, Flow, Terminal, Group
  <1>4. CASE kill
    <2>1. /\ clex' \in Clex /\ clex'.calls = clex.calls
          /\ clex.pc = "cont" /\ clex'.pc = "wait"
          /\ child' \in Child /\ ~child'.report
          /\ child'.pc = child.pc /\ child'.grp = child.grp
          /\ UNCHANGED <<tty, curses, wait>>
      BY <1>4 DEF kill, Goto, Resumed, Inv, Typed, Flow, Group, Clex, Child
    <2> QED
      BY <2>1, CallsKept, InvParts DEF Inv, Typed, Flow, Terminal, Group
  <1> QED BY <1>1, <1>2, <1>3, <1>4

LEMMA CommandEndedStep ==
  ASSUME Inv, CommandEnded
  PROVE  Inv'
  <1>1. /\ clex \in Clex /\ tty \in Tty /\ clex.pc = "ended"
        /\ StackOK(clex.calls) /\ clex.calls # <<>>
        /\ UNCHANGED <<child, curses, wait>>
    BY DEF CommandEnded, Inv, Typed, Flow, Calls
  <1> DEFINE c == Failed(clex.status # "ok")
  <1>2. StackOK(c) /\ c # <<>> /\ c \in Seq(Call)
    BY <1>1, FailedOK DEF Failed
  <1>3. clex' = [clex EXCEPT !.pc = "list", !.calls = c]
    BY DEF CommandEnded
  <1> HIDE DEF c
  <1>4. clex' \in Clex /\ clex'.pc = "list" /\ clex'.calls = c
    BY <1>1, <1>2, <1>3 DEF Clex
  <1>5. tty' \in Tty /\ tty'.fg = tty.fg
    BY <1>1 DEF CommandEnded, tty_reset, Tty
  <1>6. Calls'
    BY <1>2, <1>4 DEF Calls, StackOK
  <1> QED
    BY <1>1, <1>2, <1>4, <1>5, <1>6, InvParts DEF Inv, Typed, Flow, Terminal, Group

LEMMA ListStep ==
  ASSUME Inv, list_directory \/ kbd_getany \/ tty_press_enter \/ PressEnter
  PROVE  Inv'
  <1>1. CASE list_directory
    <2>1. /\ clex' \in Clex /\ clex'.calls = clex.calls
          /\ clex.pc = "list" /\ clex'.pc \in {"listed", "anykey"}
          /\ tty' \in Tty /\ tty'.fg = tty.fg
          /\ UNCHANGED <<child, curses, wait>>
      BY <1>1 DEF list_directory, Goto, Inv, Typed, Clex, Tty
    <2> QED
      BY <2>1, CallsKept, InvParts DEF Inv, Typed, Flow, Terminal, Group
  <1>2. CASE kbd_getany
    <2>1. /\ clex' \in Clex /\ clex'.calls = clex.calls
          /\ clex.pc = "anykey" /\ clex'.pc = "listed"
          /\ UNCHANGED <<child, tty, curses, wait>>
      BY <1>2 DEF kbd_getany, Goto, Inv, Typed, Clex
    <2> QED
      BY <2>1, CallsKept, InvParts DEF Inv, Typed, Flow, Terminal, Group
  <1>3. CASE tty_press_enter
    <2>0. /\ clex.pc = "listed" /\ UNCHANGED <<child, curses, wait>>
          /\ \/ /\ clex' = [clex EXCEPT !.pc = "read", !.then = "return"]
                /\ tty' = [tty EXCEPT !.mode = "raw"]
             \/ clex' = [clex EXCEPT !.pc = "return"] /\ UNCHANGED tty
      BY <1>3, Zenon DEF tty_press_enter, Goto, tty_setraw
    <2>1. /\ clex' \in Clex /\ clex'.calls = clex.calls
          /\ clex.pc = "listed"
          /\ \/ clex'.pc = "read" /\ clex'.then = "return" /\ tty'.mode = "raw"
             \/ clex'.pc = "return"
          /\ tty' \in Tty /\ tty'.fg = tty.fg
          /\ UNCHANGED <<child, curses, wait>>
      BY <2>0 DEF Inv, Typed, Clex, Tty
    <2> QED
      BY <2>1, CallsKept, InvParts DEF Inv, Typed, Flow, Terminal, Group
  <1>4. CASE PressEnter
    <2>1. /\ clex' \in Clex /\ clex'.calls = clex.calls
          /\ clex.pc = "read" /\ clex'.pc = clex.then
          /\ clex.then \in {"return", "redraw"}
          /\ tty' \in Tty /\ tty'.fg = tty.fg /\ tty'.title = tty.title
          /\ UNCHANGED <<child, curses, wait>>
      BY <1>4 DEF PressEnter, Goto, tty_reset, Inv, Typed, Clex, Tty
    <2> QED
      BY <2>1, CallsKept, InvParts DEF Inv, Typed, Flow, Terminal, Group
  <1> QED BY <1>1, <1>2, <1>3, <1>4

LEMMA ExitStep ==
  ASSUME Inv, err_exit \/ tty_pgrp_reset
  PROVE  Inv'
  <1>1. CASE err_exit
    <2>1. /\ clex' \in Clex /\ clex'.calls = clex.calls
          /\ clex.pc = "exit" /\ clex'.pc = "pgrp"
          /\ tty' \in Tty /\ tty'.mode = "text" /\ tty'.title = "old"
          /\ curses' = FALSE /\ UNCHANGED <<child, wait>>
      BY <1>1 DEF err_exit, Goto, Inv, Typed, Clex, Tty
    <2> QED
      BY <2>1, CallsKept, InvParts DEF Inv, Typed, Flow, Terminal, Group
  <1>2. CASE tty_pgrp_reset
    <2>1. /\ clex' \in Clex /\ clex'.calls = clex.calls
          /\ clex.pc = "pgrp" /\ clex'.pc = "gone"
          /\ tty' \in Tty /\ tty'.fg = "saved"
          /\ tty'.mode = tty.mode /\ tty'.title = tty.title
          /\ UNCHANGED <<child, curses, wait>>
      BY <1>2 DEF tty_pgrp_reset, Goto, Foreground, Inv, Typed, Clex, Tty
    <2> QED
      BY <2>1, CallsKept, InvParts DEF Inv, Typed, Flow, Terminal, Group
  <1> QED BY <1>1, <1>2

LEMMA SignalStep ==
  ASSUME Inv, int_handler
  PROVE  Inv'
  <1>1. <<>> \in Seq(Call) /\ StackOK(<<>>)
    BY EmptySeq, MaxCallsAssumption DEF StackOK
  <1>2. /\ clex' \in Clex /\ clex'.pc = "exit" /\ clex'.calls = <<>>
        /\ UNCHANGED <<child, tty, curses, wait>>
    BY <1>1 DEF int_handler, Inv, Typed, Clex
  <1>3. Calls'
    BY <1>1, <1>2 DEF Calls, StackOK
  <1> QED
    BY <1>2, <1>3, InvParts DEF Inv, Typed, Flow, Terminal, Group

-----------------------------------------------------------------------------
(* The child and the command *)

LEMMA NoCallChange ==
  ASSUME Inv, UNCHANGED clex
  PROVE  Calls'
  BY DEF Inv, Calls, StackOK

LEMMA ChildSteps ==
  ASSUME Inv,
         \/ child_setpgid \/ child_tcsetpgrp \/ execv
         \/ child_int_handler \/ child_cleanup \/ child_exit
  PROVE  Inv'
  <1>1. CASE child_setpgid
    <2>1. /\ child.pc = "setpgid" /\ ~child.stopped
          /\ child' \in Child /\ child'.pc = "fg" /\ child'.grp = "cmd"
          /\ child'.report = child.report /\ child'.late = child.late
          /\ UNCHANGED <<clex, tty, curses, wait>>
      BY <1>1 DEF child_setpgid, Inv, Typed, Child
    <2> QED
      BY <2>1, NoCallChange, InvParts DEF Inv, Typed, Flow, Terminal, Group
  <1>2. CASE child_tcsetpgrp
    <2>1. /\ child.pc = "fg" /\ ~child.stopped
          /\ child' \in Child /\ child'.pc = "exec" /\ child'.grp = child.grp
          /\ child'.report = child.report
          /\ clex.pc = "gone" => child'.late
          /\ tty' \in Tty /\ tty'.fg = "cmd"
          /\ UNCHANGED <<clex, curses, wait>>
      BY <1>2 DEF child_tcsetpgrp, Foreground, Inv, Typed, Child, Tty
    <2> QED
      BY <2>1, NoCallChange, InvParts DEF Inv, Typed, Flow, Terminal, Group
  <1>3. CASE execv
    <2>1. /\ child.pc = "exec" /\ ~child.stopped
          /\ child' \in Child /\ child'.pc \in {"run", "zombie"} /\ child'.grp = child.grp
          /\ (child'.report => child.report) /\ child'.late = child.late
          /\ child'.stopped = FALSE
          /\ UNCHANGED <<clex, tty, curses, wait>>
      BY <1>3 DEF execv, Dead, Inv, Typed, Child
    <2> QED
      BY <2>1, NoCallChange, InvParts DEF Inv, Typed, Flow, Terminal, Group
  <1>4. CASE child_int_handler
    <2>1. /\ child.pc # "none" /\ ~child.stopped
          /\ child' \in Child /\ child'.pc = "cleanup" /\ child'.grp = child.grp
          /\ child'.report = child.report /\ child'.late = child.late
          /\ UNCHANGED <<clex, tty, curses, wait>>
      BY <1>4 DEF child_int_handler, Startup, Inv, Typed, Child
    <2> QED
      BY <2>1, NoCallChange, InvParts DEF Inv, Typed, Flow, Terminal, Group
  <1>5. CASE child_cleanup
    <2>1. /\ child.pc = "cleanup" /\ ~child.stopped
          /\ child' \in Child /\ child'.pc = "exit" /\ child'.grp = child.grp
          /\ child'.report = child.report /\ child'.late = child.late
          /\ tty' \in Tty /\ tty'.fg = tty.fg
          /\ UNCHANGED <<clex, curses, wait>>
      BY <1>5 DEF child_cleanup, Inv, Typed, Child, Tty
    <2> QED
      BY <2>1, NoCallChange, InvParts DEF Inv, Typed, Flow, Terminal, Group
  <1>6. CASE child_exit
    <2>1. /\ child.pc = "exit"
          /\ child' \in Child /\ child'.pc = "zombie" /\ child'.grp = child.grp
          /\ ~child'.report
          /\ tty' \in Tty /\ tty'.fg = "saved"
          /\ UNCHANGED <<clex, curses, wait>>
      BY <1>6 DEF child_exit, Dead, Foreground, Inv, Typed, Child, Tty
    <2> QED
      BY <2>1, NoCallChange, InvParts DEF Inv, Typed, Flow, Terminal, Group
  <1> QED BY <1>1, <1>2, <1>3, <1>4, <1>5, <1>6

LEMMA CommandStep ==
  ASSUME Inv, CommandRuns \/ Killed \/ Stopped \/ Continued
  PROVE  Inv'
  <1>1. CASE CommandRuns
    <2>1. /\ child.pc = "run" /\ tty.fg \in {"cmd", "job"}
          /\ tty' \in Tty /\ tty'.fg \in {"cmd", "job"}
          /\ UNCHANGED <<clex, child, curses, wait>>
      BY <1>1 DEF CommandRuns, Inv, Typed, Tty
    <2> QED
      BY <2>1, NoCallChange, InvParts DEF Inv, Typed, Flow, Terminal, Group
  <1>2. CASE Killed
    <2>1. /\ child.pc # "none"
          /\ child' \in Child /\ child'.pc = "zombie" /\ child'.grp = child.grp
          /\ ~child'.report /\ child'.late = child.late
          /\ UNCHANGED <<clex, tty, curses, wait>>
      BY <1>2 DEF Killed, Dead, Inv, Typed, Child
    <2> QED
      BY <2>1, NoCallChange, InvParts DEF Inv, Typed, Flow, Terminal, Group
  <1>3. CASE Stopped
    <2>1. /\ child' \in Child /\ child'.pc = child.pc /\ child'.grp = child.grp
          /\ child'.stopped /\ child'.late = child.late
          /\ UNCHANGED <<clex, tty, curses, wait>>
      BY <1>3 DEF Stopped, Inv, Typed, Child
    <2> QED
      BY <2>1, NoCallChange, InvParts DEF Inv, Typed, Flow, Terminal, Group
  <1>4. CASE Continued
    <2>1. /\ child' \in Child /\ child'.pc = child.pc /\ child'.grp = child.grp
          /\ ~child'.report /\ child'.late = child.late
          /\ UNCHANGED <<clex, tty, curses, wait>>
      BY <1>4 DEF Continued, Resumed, Inv, Typed, Child
    <2> QED
      BY <2>1, NoCallChange, InvParts DEF Inv, Typed, Flow, Terminal, Group
  <1> QED BY <1>1, <1>2, <1>3, <1>4

LEMMA CommandEndsStep ==
  ASSUME Inv, CommandEnds
  PROVE  Inv'
  <1>1. /\ child.pc = "run"
        /\ child' \in Child /\ child'.pc = "zombie" /\ child'.grp = child.grp
        /\ ~child'.report /\ child'.late = child.late
    BY DEF CommandEnds, Dead, Inv, Typed, Child
  <1>2. /\ clex' \in Clex /\ clex'.pc = clex.pc /\ clex'.calls = clex.calls
        /\ clex'.then = clex.then /\ clex'.status = clex.status /\ clex'.left = clex.left
        /\ UNCHANGED <<tty, curses, wait>>
    BY DEF CommandEnds, Inv, Typed, Clex
  <1> QED
    BY <1>1, <1>2, CallsKept, InvParts DEF Inv, Typed, Flow, Terminal, Group

-----------------------------------------------------------------------------
(* The theorems *)

LEMMA InitInv ==
  ASSUME Init
  PROVE  Inv
  <1>1. <<>> \in Seq(Call) /\ StackOK(<<>>)
    BY EmptySeq, MaxCallsAssumption DEF StackOK
  <1> QED
    BY <1>1 DEF Init, NoChild, Inv, Typed, Clex, Child, Tty, Calls, Flow, Terminal, Group

LEMMA NextInv ==
  ASSUME Inv, [Next]_vars
  PROVE  Inv'
  <1>1. CASE UNCHANGED vars
    BY <1>1, NoCallChange, InvParts DEF vars, Inv, Typed, Flow, Terminal, Group
  <1>2. CASE ClexStep
    BY <1>2, CallStep, RestartStep, ForkStep, WaitStep, CommandEndedStep, ListStep,
       ReturnStep, ExitStep DEF ClexStep
  <1>3. CASE ChildStep
    BY <1>3, ChildSteps DEF ChildStep
  <1>4. CASE User
    BY <1>4, CallStep, PanelStep, ListStep DEF User
  <1>5. CASE Others
    BY <1>5, ChildSteps, CommandStep, CommandEndsStep, SignalStep DEF Others
  <1> QED BY <1>1, <1>2, <1>3, <1>4, <1>5 DEF Next

LEMMA InvHolds == Spec => []Inv
  BY InitInv, NextInv, PTL DEF Spec

(* CLEX has a child exactly while it has not waited for its end, and execute()
   is nested exactly when a command is executed, at most to the depth that
   the model permits (execute(), tty_press_enter()). *)
THEOREM ExecutionTyped == Spec => []TypeOK
<1>1. Inv => TypeOK
  BY DEF Inv, Typed, Calls, StackOK, Flow, Group, Tty, TypeOK
<1> QED BY <1>1, InvHolds, PTL

(* Whatever the command does to the terminal and however it ends: CLEX reads
   keys in the foreground and in the right mode, its panels have their title
   and their mode, and it leaves the terminal as it found it. *)
THEOREM TerminalIsReady == Spec => []TerminalReady
<1>1. Inv => TerminalReady
  BY DEF Inv, Terminal, TerminalReady
<1> QED BY <1>1, InvHolds, PTL

(* A command that runs has a process group of its own and the terminal,
   whichever of CLEX and the child was faster (execute()). *)
THEOREM CommandHasTerminal == Spec => []CommandInForeground
<1>1. Inv => CommandInForeground
  BY DEF Inv, Group, CommandInForeground
<1> QED BY <1>1, InvHolds, PTL
=============================================================================
