-------------------------------- MODULE Exec --------------------------------
(***************************************************************************)
(* The execution of commands: CLEX and the command it forks off (exec.c),  *)
(* the terminal both of them use (tty.c, the curses mode of inout.c, the   *)
(* window title of xterm_title.c), and signals (signals.c, err_exit() of   *)
(* control.c).                                                             *)
(*                                                                         *)
(* Each action is a system call, or the code between two of them.  Process *)
(* groups: "clex", "cmd" (the command's), "job" (one that the command, an  *)
(* interactive shell, made itself) and "saved" (in the foreground before   *)
(* CLEX was started).  Commands: "plain"; "nprompt", listed in             *)
(* NOPROMPT_CMDS; "wcd" and "br", which leave a `cd' command in a file;    *)
(* "viewer", started for the current file.  CLEX, and the child until it   *)
(* executes the command, ignore SIGTTOU and SIGTTIN.  Times and the        *)
(* contents of messages are not modelled, nor is what `cdgit' and template *)
(* aliases do before, or instead of, the execution.                        *)
(***************************************************************************)
EXTENDS Integers, Sequences

CONSTANT MaxCalls  \* bound: nested calls of execute()

ASSUME MaxCallsAssumption == MaxCalls \in Nat \ {0}

VARIABLES
  clex,    \* pc, kind of the command, calls of execute(), what follows
           \* tty_press_enter(), result of waitpid(), has the command left
           \* a `cd' command in its file; left - auxiliary: execute_cmd()
           \* returned without curses_restart()
  child,   \* pc, process group, is it stopped, is that still to be reported
           \* to waitpid(), exit code; late - auxiliary: it took the terminal
           \* after the end of CLEX
  tty,     \* foreground process group, mode, title of the window
  curses,  \* display.curses
  wait     \* display.wait

vars == <<clex, child, tty, curses, wait>>

NoChild ==
  [pc |-> "none", grp |-> "clex", stopped |-> FALSE, report |-> FALSE,
   code |-> "ok", late |-> FALSE]

(* tcsetpgrp(); tcsetattr() with the settings before CLEX ("text"), those of
   curses ("prog") or those for reading one key ("raw"); xterm_title_set() *)
Foreground(g) == tty' = [tty EXCEPT !.fg = g]
tty_reset == tty' = [tty EXCEPT !.mode = "text"]
tty_setraw == tty' = [tty EXCEPT !.mode = "raw"]

Goto(pc) == clex' = [clex EXCEPT !.pc = pc]

(* execute() is called and will return to `back'. *)
Called(prompt_user, back) ==
  Append(clex.calls, [prompt |-> prompt_user, failed |-> TRUE, back |-> back])
Top == clex.calls[Len(clex.calls)]
Popped == SubSeq(clex.calls, 1, Len(clex.calls) - 1)
Failed(b) == [clex.calls EXCEPT ![Len(clex.calls)].failed = b]

-----------------------------------------------------------------------------
(* In the panels *)

cx_launch_file_viewer ==
  /\ clex.pc = "panel"
  /\ clex' = [clex EXCEPT !.pc = "fork", !.kind = "viewer", !.gofile = FALSE,
                          !.calls = Called(FALSE, "restart")]
  /\ UNCHANGED <<child, tty, curses, wait>>

(* execute_cmd(): the command is recognized, and curses stopped except for
   "wcd". *)
execute_cmd ==
  /\ clex.pc = "panel"
  /\ \E kind \in {"plain", "nprompt", "wcd", "br"} :
       /\ clex' = [clex EXCEPT !.pc = "warn", !.kind = kind, !.gofile = FALSE]
       /\ IF kind = "wcd" THEN UNCHANGED <<tty, curses>> ELSE tty_reset /\ curses' = FALSE
  /\ UNCHANGED <<child, wait>>

(* win_remark() and txt_printf() *)
win_remark ==
  /\ clex.pc = "panel"
  /\ wait' = (wait \/ ~curses)
  /\ UNCHANGED <<clex, child, tty, curses>>

(* config_apply(), with or without messages of the functions it calls *)
config_apply ==
  /\ clex.pc = "panel"
  /\ \/ ~curses /\ UNCHANGED <<tty, wait>>
     \/ wait' = TRUE /\ IF curses THEN tty_reset ELSE UNCHANGED tty
  /\ curses' = FALSE
  /\ Goto("restart")
  /\ UNCHANGED child

-----------------------------------------------------------------------------
(* execute_cmd() *)

print_warnings ==
  /\ clex.pc = "warn"
  /\ \/ /\ clex' = [clex EXCEPT !.pc = "fork",
                                !.calls = Called(clex.kind = "plain", "after")]
        /\ UNCHANGED tty
     \/ Goto("confirm") /\ tty_setraw
  /\ UNCHANGED <<child, curses, wait>>

user_confirm ==
  /\ clex.pc = "confirm"
  /\ \/ clex' = [clex EXCEPT !.pc = "fork",
                             !.calls = Called(clex.kind = "plain", "after")]
     \/ Goto("restart")
  /\ tty_reset
  /\ UNCHANGED <<child, curses, wait>>

(* The file of "wcd" or "br": it names no directory, or changedir() succeeds,
   or it fails, and execute_cmd() returns. *)
ReadGoFile ==
  /\ clex.pc = "after"
  /\ \/ Goto("restart")
     \/ clex.gofile /\ clex' = [clex EXCEPT !.pc = "panel", !.left = TRUE]
  /\ UNCHANGED <<child, tty, curses, wait>>

curses_restart ==
  /\ clex.pc = "restart"
  /\ IF wait THEN clex' = [clex EXCEPT !.pc = "read", !.then = "redraw"] /\ tty_setraw
     ELSE Goto("redraw") /\ UNCHANGED tty
  /\ wait' = FALSE
  /\ UNCHANGED <<child, curses>>

reset_prog_mode ==
  /\ clex.pc = "redraw"
  /\ clex' = [clex EXCEPT !.pc = "panel", !.left = FALSE]
  /\ tty' = [tty EXCEPT !.mode = "prog"]
  /\ curses' = TRUE
  /\ UNCHANGED <<child, wait>>

-----------------------------------------------------------------------------
(* execute(): CLEX *)

fork ==
  /\ clex.pc = "fork"
  /\ tty' = [tty EXCEPT !.title = "busy"]
  /\ \/ Goto("setpgid") /\ child' = [NoChild EXCEPT !.pc = "setpgid"]
     \/ Goto("list") /\ UNCHANGED child
  /\ UNCHANGED <<curses, wait>>

(* Mutant: only the child creates its process group. *)
setpgid_ChildOnly ==
  /\ clex.pc = "setpgid"
  /\ Goto("fg")
  /\ UNCHANGED <<child, tty, curses, wait>>

setpgid ==
  /\ clex.pc = "setpgid"
  /\ Goto("fg")
  /\ child' = [child EXCEPT !.grp = "cmd"]
  /\ UNCHANGED <<tty, curses, wait>>

(* tcsetpgrp() of a group that does not exist fails. *)
GiveTo(grp) == IF grp = "cmd" THEN Foreground("cmd") ELSE UNCHANGED tty

MoveToForeground ==
  /\ clex.pc = "fg"
  /\ Goto("wait")
  /\ GiveTo(child.grp)
  /\ UNCHANGED <<child, curses, wait>>

waitpid ==
  /\ clex.pc = "wait"
  /\ \/ /\ child.pc = "zombie"
        /\ clex' = [clex EXCEPT !.pc = "own", !.status = child.code]
        /\ child' = NoChild
     \/ /\ child.report
        /\ clex' = [clex EXCEPT !.pc = "own", !.status = "stopped"]
        /\ child' = [child EXCEPT !.report = FALSE]
  /\ UNCHANGED <<tty, curses, wait>>

(* Mutant: the loop ends when the command has stopped. *)
AfterWait_Break == "ended"

AfterWait == IF clex.status = "stopped" THEN "give" ELSE "ended"

(* Mutant: the terminal is taken back from stopped commands only. *)
TakeTerminal_Stopped ==
  /\ clex.pc = "own"
  /\ IF clex.status = "stopped" THEN Foreground("clex") ELSE UNCHANGED tty
  /\ Goto(AfterWait)
  /\ UNCHANGED <<child, curses, wait>>

TakeTerminal ==
  /\ clex.pc = "own"
  /\ Foreground("clex")
  /\ Goto(AfterWait)
  /\ UNCHANGED <<child, curses, wait>>

(* "EXEC: suspended command will be resumed shortly" *)
GiveTerminal ==
  /\ clex.pc = "give"
  /\ GiveTo(child.grp)
  /\ Goto("cont")
  /\ UNCHANGED <<child, curses, wait>>

Resumed == [child EXCEPT !.stopped = FALSE, !.report = FALSE]

(* kill(-childpid,SIGCONT) fails when there is no such process group. *)
kill ==
  /\ clex.pc = "cont"
  /\ child' = IF child.grp = "cmd" THEN Resumed ELSE child
  /\ Goto("wait")
  /\ UNCHANGED <<tty, curses, wait>>

CommandEnded ==
  /\ clex.pc = "ended"
  /\ clex' = [clex EXCEPT !.pc = "list", !.calls = Failed(clex.status # "ok")]
  /\ tty_reset
  /\ UNCHANGED <<child, curses, wait>>

(* list_directory(); in the curses mode win_warning() waits for a key. *)
list_directory ==
  /\ clex.pc = "list"
  /\ tty' = [tty EXCEPT !.title = "done"]
  /\ \/ Goto("listed")
     \/ curses /\ Goto("anykey")
  /\ UNCHANGED <<child, curses, wait>>

kbd_getany ==
  /\ clex.pc = "anykey"
  /\ Goto("listed")
  /\ UNCHANGED <<child, tty, curses, wait>>

tty_press_enter ==
  /\ clex.pc = "listed"
  /\ IF Top.prompt \/ Top.failed
     THEN clex' = [clex EXCEPT !.pc = "read", !.then = "return"] /\ tty_setraw
     ELSE Goto("return") /\ UNCHANGED tty
  /\ UNCHANGED <<child, curses, wait>>

PressEnter ==
  /\ clex.pc = "read"
  /\ Goto(clex.then)
  /\ tty_reset
  /\ UNCHANGED <<child, curses, wait>>

(* "t": a shell *)
PressT ==
  /\ clex.pc = "read"
  /\ Len(clex.calls) < MaxCalls
  /\ clex' = [clex EXCEPT !.pc = "fork", !.calls = Called(FALSE, clex.then)]
  /\ tty_reset
  /\ UNCHANGED <<child, curses, wait>>

(* execute() returns; tty_press_enter() then resets the terminal. *)
Return ==
  /\ clex.pc = "return"
  /\ clex' = [clex EXCEPT !.pc = Top.back, !.calls = Popped]
  /\ tty' = [tty EXCEPT !.title = "idle",
                        !.mode = IF Top.back \in {"return", "redraw"} THEN "text" ELSE @]
  /\ UNCHANGED <<child, curses, wait>>

-----------------------------------------------------------------------------
(* execute(): the child, until it executes the command *)

Startup == {"setpgid", "fg", "exec"}

child_setpgid ==
  /\ child.pc = "setpgid" /\ ~child.stopped
  /\ child' = [child EXCEPT !.pc = "fg", !.grp = "cmd"]
  /\ UNCHANGED <<clex, tty, curses, wait>>

(* Mutant: only CLEX moves the command to the foreground. *)
child_tcsetpgrp_ClexOnly ==
  /\ child.pc = "fg" /\ ~child.stopped
  /\ child' = [child EXCEPT !.pc = "exec"]
  /\ UNCHANGED <<clex, tty, curses, wait>>

child_tcsetpgrp ==
  /\ child.pc = "fg" /\ ~child.stopped
  /\ child' = [child EXCEPT !.pc = "exec", !.late = (clex.pc = "gone")]
  /\ Foreground("cmd")
  /\ UNCHANGED <<clex, curses, wait>>

Dead(code) ==
  [child EXCEPT !.pc = "zombie", !.code = code, !.stopped = FALSE, !.report = FALSE]

(* execv(), or exit(99) *)
execv ==
  /\ child.pc = "exec" /\ ~child.stopped
  /\ \/ child' = [child EXCEPT !.pc = "run"]
     \/ child' = Dead("err")
  /\ UNCHANGED <<clex, tty, curses, wait>>

(* SIGTERM or SIGHUP: the child still has the handler of CLEX. *)
child_int_handler ==
  /\ child.pc \in Startup /\ ~child.stopped
  /\ child' = [child EXCEPT !.pc = "cleanup"]
  /\ UNCHANGED <<clex, tty, curses, wait>>

child_cleanup ==
  /\ child.pc = "cleanup" /\ ~child.stopped
  /\ child' = [child EXCEPT !.pc = "exit"]
  /\ tty' = [tty EXCEPT !.mode = "text", !.title = "old"]
  /\ UNCHANGED <<clex, curses, wait>>

child_exit ==
  /\ child.pc = "exit" /\ ~child.stopped
  /\ child' = Dead("ok")
  /\ Foreground("saved")
  /\ UNCHANGED <<clex, curses, wait>>

-----------------------------------------------------------------------------
(* The command, and what others do to it *)

(* It changes the mode; a shell moves its jobs to the foreground and back. *)
CommandRuns ==
  /\ child.pc = "run" /\ ~child.stopped
  /\ tty.fg \in {"cmd", "job"}
  /\ \E g \in {"cmd", "job"} : tty' = [tty EXCEPT !.fg = g, !.mode = "any"]
  /\ UNCHANGED <<clex, child, curses, wait>>

CommandEnds ==
  /\ child.pc = "run" /\ ~child.stopped
  /\ \E code \in {"ok", "err"} : child' = Dead(code)
  /\ \/ UNCHANGED clex
     \/ /\ clex.kind \in {"wcd", "br"} /\ Len(clex.calls) = 1
        /\ clex' = [clex EXCEPT !.gofile = TRUE]
  /\ UNCHANGED <<tty, curses, wait>>

Killed ==
  /\ child.pc \notin {"none", "zombie"}
  /\ child' = Dead("err")
  /\ UNCHANGED <<clex, tty, curses, wait>>

(* SIGSTOP by anybody, or SIGTSTP, SIGTTIN, SIGTTOU *)
Stopped ==
  /\ child.pc \notin {"none", "zombie"} /\ ~child.stopped
  /\ child' = [child EXCEPT !.stopped = TRUE, !.report = TRUE]
  /\ UNCHANGED <<clex, tty, curses, wait>>

(* SIGCONT by somebody else *)
Continued ==
  /\ child.stopped
  /\ child' = Resumed
  /\ UNCHANGED <<clex, tty, curses, wait>>

-----------------------------------------------------------------------------
(* The end of CLEX *)

Ending == {"exit", "pgrp", "gone"}

(* int_handler() at any time, or the user quits *)
int_handler ==
  /\ clex.pc \notin Ending
  /\ clex' = [clex EXCEPT !.pc = "exit", !.calls = <<>>]
  /\ UNCHANGED <<child, tty, curses, wait>>

err_exit ==
  /\ clex.pc = "exit"
  /\ Goto("pgrp")
  /\ tty' = [tty EXCEPT !.mode = "text", !.title = "old"]
  /\ curses' = FALSE
  /\ UNCHANGED <<child, wait>>

tty_pgrp_reset ==
  /\ clex.pc = "pgrp"
  /\ Goto("gone")
  /\ Foreground("saved")
  /\ UNCHANGED <<child, curses, wait>>

-----------------------------------------------------------------------------
Init ==
  /\ clex = [pc |-> "panel", kind |-> "plain", calls |-> <<>>, then |-> "return",
             status |-> "ok", gofile |-> FALSE, left |-> FALSE]
  /\ child = NoChild
  /\ tty = [fg |-> "clex", mode |-> "prog", title |-> "idle"]
  /\ curses = TRUE /\ wait = FALSE

ClexStep ==
  \/ print_warnings \/ ReadGoFile \/ curses_restart \/ reset_prog_mode
  \/ fork \/ setpgid \/ MoveToForeground \/ waitpid
  \/ TakeTerminal \/ GiveTerminal \/ kill
  \/ CommandEnded \/ list_directory \/ tty_press_enter \/ Return
  \/ err_exit \/ tty_pgrp_reset

ChildStep ==
  child_setpgid \/ child_tcsetpgrp \/ execv \/ child_cleanup \/ child_exit

User ==
  \/ cx_launch_file_viewer \/ execute_cmd \/ win_remark \/ config_apply
  \/ user_confirm \/ kbd_getany \/ PressEnter \/ PressT

Others ==
  \/ CommandRuns \/ CommandEnds
  \/ Killed \/ Stopped \/ Continued \/ child_int_handler \/ int_handler

Next == ClexStep \/ ChildStep \/ User \/ Others

(***************************************************************************)
(* CLEX runs when it can.  The child and the command may be stopped and    *)
(* resumed again and again: a process that can run again and again makes   *)
(* progress, and the command then ends.  The user answers, and presses     *)
(* <enter> in the end.                                                     *)
(***************************************************************************)
Fairness ==
  /\ WF_vars(ClexStep)
  /\ SF_vars(ChildStep) /\ SF_vars(CommandEnds)
  /\ WF_vars(user_confirm) /\ WF_vars(kbd_getany) /\ SF_vars(PressEnter)

Spec == Init /\ [][Next]_vars /\ Fairness

-----------------------------------------------------------------------------
(* Properties *)

(* There is a child exactly while CLEX has not waited for its end, and the
   calls of execute() are nested as deep as the code allows. *)
TypeOK ==
  /\ clex.pc \notin Ending =>
       /\ child.pc # "none" <=>
            \/ clex.pc \in {"setpgid", "fg", "wait", "give", "cont"}
            \/ clex.pc = "own" /\ clex.status = "stopped"
       /\ clex.calls = <<>> <=>
            \/ clex.pc \in {"panel", "warn", "confirm", "after", "restart", "redraw"}
            \/ clex.pc = "read" /\ clex.then = "redraw"
  /\ Len(clex.calls) <= MaxCalls
  /\ child.report => child.stopped
  /\ tty \in [fg : {"clex", "cmd", "job", "saved"},
              mode : {"prog", "text", "raw", "any"},
              title : {"idle", "busy", "done", "old"}]
  /\ curses \in BOOLEAN /\ wait \in BOOLEAN

(***************************************************************************)
(* Whatever the command did to the terminal, and however it ended: CLEX    *)
(* reads a key only when it is in the foreground (it would get an error    *)
(* otherwise), with the mode that it needs; in the panels the title is its *)
(* own; and when CLEX ends, so is everything as it was before - except     *)
(* that a command which is still running may have changed the mode, and    *)
(* that a child which had not yet done so may take the terminal (execute(),*)
(* tty_press_enter(), err_exit()).                                         *)
(***************************************************************************)
TerminalReady ==
  /\ clex.pc \in {"panel", "read", "confirm", "anykey"} => tty.fg = "clex"
  /\ clex.pc \in {"read", "confirm"} => tty.mode = "raw"
  /\ clex.pc = "panel" =>
       tty.title = "idle" /\ (clex.left \/ (curses /\ tty.mode = "prog"))
  /\ clex.pc = "gone" =>
       /\ child.late \/ tty.fg = "saved"
       /\ child.pc = "none" => tty.mode = "text" /\ tty.title = "old"

(***************************************************************************)
(* CLEX and its child both move the command to the foreground, because     *)
(* nobody knows which of them comes first: a command that runs is in its   *)
(* own process group, and has the terminal.  Only somebody else can resume *)
(* a stopped command in the background, while CLEX writes its message.     *)
(***************************************************************************)
CommandInForeground ==
  (child.pc = "run" /\ ~child.stopped) =>
    /\ child.grp = "cmd"
    /\ tty.fg \in {"cmd", "job"} \/ clex.pc \in {"give"} \cup Ending

(***************************************************************************)
(* A command that is stopped, at whatever moment, is resumed; and once it  *)
(* has ended, CLEX returns to its panels, unless CLEX itself is terminated *)
(* (the loop in execute()).                                                *)
(***************************************************************************)
ComesBack == (clex.calls # <<>>) ~> (clex.pc \in {"panel", "gone"})
=============================================================================
