------------------------------ MODULE JobShell -------------------------------
(***************************************************************************)
(* The interactive shells aisys/mini_shell_sk.c, mini_shell_adv.c,         *)
(* mini_shell_mode.c and mini_shell_game.c: one loop that reads a line,    *)
(* forks, gives the terminal to the child's process group, waits until it  *)
(* ends or stops and takes the terminal back.  They differ in the signals  *)
(* they ignore, what the child restores, and the mode SIGQUIT toggles.     *)
(* The terminal and the delivery of its signals are external.              *)
(***************************************************************************)
EXTENDS Naturals

CONSTANTS MaxKeys,    \* bound: signals from the keyboard
          MaxCommands \* bound: programs started

VARIABLES kind,    \* which of the four shells
          shell,   \* where it is; "dead", "suspended" when a signal did that
          ai_mode,
          child,   \* the program: "none", "forked", "default" (restored),
                   \* "runs", "stopped", "zombie"
          own,     \* the child is in a process group of its own
          fg,      \* the terminal's group: "shell" or "child"
          ttou,    \* the shell ignores SIGTTOU now
          left,    \* stopped programs the shell has turned away from
          tstp,    \* history: programs stopped by Ctrl-Z
          keys, commands

vars == <<kind, shell, ai_mode, child, own, fg, ttou, left, tstp, keys, commands>>

\* What a shell ignores, handles and lets the child restore; whether SIGTTOU
\* is ignored all the time or around tcsetpgrp; whether AI mode refuses commands.
sk == [ignores |-> {"INT", "TSTP", "QUIT"}, handles |-> {}, ttou |-> "around",
       restores |-> {"INT", "TSTP", "QUIT"}, refuses |-> FALSE]
adv == [ignores |-> {"TTIN", "TSTP"}, handles |-> {}, ttou |-> "always",
        restores |-> {}, refuses |-> FALSE]
mode == [ignores |-> {"TTIN", "INT", "TSTP"}, handles |-> {"QUIT"}, ttou |-> "always",
         restores |-> {"INT", "TSTP", "QUIT"}, refuses |-> TRUE]
game == [mode EXCEPT !.refuses = FALSE]

Init == /\ kind \in {"sk", "adv", "mode", "game"}
        /\ shell = "prompt" /\ ai_mode = FALSE
        /\ child = "none" /\ own = FALSE /\ fg = "shell"
        /\ ttou = (kind # "sk")
        /\ left = 0 /\ tstp = 0 /\ keys = 0 /\ commands = 0

\* A blank line, cd, attack (whose threads are still to be written) and a
\* failed fork lead back to the prompt and change nothing here.
Leaves == /\ shell = "prompt" /\ shell' = "done"
          /\ UNCHANGED <<kind, ai_mode, child, own, fg, ttou, left, tstp, keys, commands>>

Forks(s) == /\ shell = "prompt" /\ commands < MaxCommands
            /\ ~(s.refuses /\ ai_mode)
            /\ shell' = "forked" /\ child' = "forked" /\ own' = FALSE
            /\ commands' = commands + 1
            /\ UNCHANGED <<kind, ai_mode, fg, ttou, left, tstp, keys>>

\* setpgid is called by both, whichever comes first.
ChildSetsGroup == /\ child = "forked" /\ ~own /\ own' = TRUE
                  /\ UNCHANGED <<kind, shell, ai_mode, child, fg, ttou, left, tstp, keys, commands>>

ChildRestores == /\ child = "forked" /\ own /\ child' = "default"
                 /\ UNCHANGED <<kind, shell, ai_mode, own, fg, ttou, left, tstp, keys, commands>>

ChildExecs == /\ child = "default" /\ child' \in {"runs", "zombie"}
              /\ UNCHANGED <<kind, shell, ai_mode, own, fg, ttou, left, tstp, keys, commands>>

\* A program that reads the terminal before it has been given it is stopped
\* by SIGTTIN, or where that is ignored its read fails.
ProgramReads(s) == /\ child = "runs" /\ fg # "child" /\ "TTIN" \notin s.ignores
                   /\ child' = "stopped"
                   /\ UNCHANGED <<kind, shell, ai_mode, own, fg, ttou, left, tstp, keys, commands>>

ProgramEnds == /\ child = "runs" /\ child' = "zombie"
               /\ UNCHANGED <<kind, shell, ai_mode, own, fg, ttou, left, tstp, keys, commands>>

ParentSetsGroup == /\ shell = "forked" /\ shell' = "give" /\ own' = TRUE
                   /\ UNCHANGED <<kind, ai_mode, child, fg, ttou, left, tstp, keys, commands>>

\* tcsetpgrp from the background stops the caller unless SIGTTOU is ignored.
SetForeground(from, group, to) ==
  /\ shell = from
  /\ IF fg # "shell" /\ ~ttou THEN shell' = "suspended" /\ UNCHANGED fg
     ELSE shell' = to /\ fg' = group
  /\ UNCHANGED <<kind, ai_mode, child, own, left, tstp, keys, commands>>

\* mutant: tcsetpgrp with the handler as it is
SwitchBare(s, from, mid, group, to) == SetForeground(from, group, to) /\ UNCHANGED ttou

\* signal(SIGTTOU, SIG_IGN), tcsetpgrp, and the old handler again.
SwitchIgnoring(s, from, mid, group, to) ==
  IF s.ttou = "always" THEN SetForeground(from, group, to) /\ UNCHANGED ttou
  ELSE \/ /\ shell = from /\ ~ttou /\ ttou' = TRUE
          /\ UNCHANGED <<kind, shell, ai_mode, child, own, fg, left, tstp, keys, commands>>
       \/ ttou /\ SetForeground(from, group, mid) /\ UNCHANGED ttou
       \/ /\ shell = mid /\ shell' = to /\ ttou' = FALSE
          /\ UNCHANGED <<kind, ai_mode, child, own, fg, left, tstp, keys, commands>>

Gives(s) == SwitchIgnoring(s, "give", "given", "child", "wait")

\* mutant: waitpid without WUNTRACED
WaitsForTheEnd == /\ shell = "wait" /\ child = "zombie"
                  /\ child' = "none" /\ shell' = "take"
                  /\ UNCHANGED <<kind, ai_mode, own, fg, ttou, left, tstp, keys, commands>>

\* waitpid(.., WUNTRACED): a stopped program is left, there is no fg or bg.
Waits == /\ shell = "wait" /\ child \in {"zombie", "stopped"}
         /\ left' = left + (IF child = "stopped" THEN 1 ELSE 0)
         /\ child' = "none" /\ shell' = "take"
         /\ UNCHANGED <<kind, ai_mode, own, fg, ttou, tstp, keys, commands>>

Takes(s) == SwitchIgnoring(s, "take", "taken", "shell", "prompt")

\* What a signal does to the child: nothing where it is (still) ignored or
\* handled, and a program may handle it.
ChildAfter(s, sig) ==
  IF child \in {"none", "stopped", "zombie"} THEN {child}
  ELSE IF \/ sig \in s.ignores /\ (child = "forked" \/ sig \notin s.restores)
          \/ sig \in s.handles /\ child = "forked" THEN {child}
  ELSE {IF sig = "TSTP" THEN "stopped" ELSE "zombie"}
       \union (IF child = "runs" THEN {"runs"} ELSE {})

\* A key reaches the processes of the terminal's group.
Key(s, sig) ==
  /\ keys < MaxKeys /\ keys' = keys + 1
  /\ shell \notin {"dead", "suspended", "done"}
  /\ IF fg = "shell"
     THEN /\ shell' = IF sig \in s.ignores \union s.handles THEN shell ELSE "dead"
          /\ ai_mode' = IF sig \in s.handles THEN ~ai_mode ELSE ai_mode
     ELSE UNCHANGED <<shell, ai_mode>>
  /\ IF fg = "child" \/ ~own THEN child' \in ChildAfter(s, sig) ELSE UNCHANGED child
  /\ tstp' = tstp + (IF child' = "stopped" /\ child # "stopped" THEN 1 ELSE 0)
  /\ UNCHANGED <<kind, own, fg, ttou, left, commands>>

ShellSteps(s) == ParentSetsGroup \/ Gives(s) \/ Waits \/ Takes(s)
ChildSteps == ChildSetsGroup \/ ChildRestores \/ ChildExecs
Steps(s) == \/ Leaves \/ Forks(s) \/ ShellSteps(s) \/ ChildSteps
            \/ ProgramReads(s) \/ ProgramEnds
            \/ \E sig \in {"INT", "TSTP", "QUIT"} : Key(s, sig)

SkNext == kind = "sk" /\ Steps(sk)
AdvNext == kind = "adv" /\ Steps(adv)
ModeNext == kind = "mode" /\ Steps(mode)
GameNext == kind = "game" /\ Steps(game)
Next == SkNext \/ AdvNext \/ ModeNext \/ GameNext

Spec == Init /\ [][Next]_vars

\* The shell goes on while it can: an action of the shell or of the child.
ShellGoesOn == \/ kind = "sk" /\ ShellSteps(sk)
               \/ kind = "adv" /\ ShellSteps(adv)
               \/ kind = "mode" /\ ShellSteps(mode)
               \/ kind = "game" /\ ShellSteps(game)

\* At the prompt the terminal is the shell's and no program is half started;
\* taking it back never stops the shell; the keyboard ends none but the adv
\* shell, which leaves SIGINT and SIGQUIT alone.
TerminalKept ==
  /\ shell = "prompt" => fg = "shell" /\ child = "none" /\ (kind = "sk" => ~ttou)
  /\ shell # "suspended"
  /\ shell = "dead" => kind = "adv"

\* A stopped program stays stopped for good.  It was stopped by Ctrl-Z, except
\* that the sk shell, whose child does not ignore SIGTTIN, also loses one that
\* reads before it is given the terminal; under adv Ctrl-Z stops nothing.
StoppedForAReason ==
  LET now == left + (IF child = "stopped" THEN 1 ELSE 0) IN
  /\ now >= tstp
  /\ kind # "sk" => now = tstp
  /\ kind = "adv" => now = 0
=============================================================================
