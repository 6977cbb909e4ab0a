----------------------------- MODULE MCPrograms ------------------------------
(***************************************************************************)
(* Programs that people type into, checked in one run: every behaviour is   *)
(* that of one of them, chosen at the start.                               *)
(***************************************************************************)
EXTENDS Naturals, Sequences, FiniteSets

CONSTANTS MaxKeys, MaxCommands,                             \* of JobShell
          Words, MaxWords, MaxStrays,                       \* of Xsh
          People, Names, Passwords, Odd, Before, MaxTyped,  \* of Login
          MaxLines, MaxAnswer, UpRoom, DownRoom, ReadSize, FgetsSize, \* of PipeChat
          Exit, TornText,                                       \* of ShmChat
          MaxRounds                                         \* of Daemon

ASSUME TextsDiffer == Exit \notin Nat /\ TornText \notin Nat /\ Exit # TornText

\* A hash is never empty, nor what a line not written to its end has in its place.
ASSUME LoginOK == /\ Before # Odd /\ Odd \notin Names /\ Passwords \cap {"", "torn", "spoilt"} = {}
                  /\ (Names \cup {Odd, Before}) \cap {"nocolon", "another", ""} = {}

ASSUME SizesOK == {MaxAnswer, ReadSize, FgetsSize, MaxWords} \subseteq Nat

VARIABLES program,
          shell, child, line, helper, typed,                     \* of several
          kind, ai_mode, own, fg, ttou, left, tstp, keys, commands, \* mini_shell_*.c
          cmd, freed, input, strays,                             \* xsh.c
          file, at, name, password, login_attempts, seen, looked, \* mini_login_sk.c
          up, down, rest, got, shown,                            \* pipe chat
          prompt, response, to_ai, to_parent, heard, test, reaped, \* test_ai_helper.c
          process, session, ignores, fds, entries, rounds        \* daemon_sys_summary_ai.c

jobOnly == <<kind, ai_mode, own, fg, ttou, left, tstp, keys, commands>>
xshOnly == <<cmd, freed, input, strays>>
loginOnly == <<file, at, name, password, login_attempts, seen, looked>>
pipeOnly == <<up, down, rest, got, shown>>
testOnly == <<prompt, response, to_ai, to_parent, heard, test, reaped>>
daemonOnly == <<process, session, ignores, fds, entries, rounds>>
vars == <<program, shell, child, line, helper, typed,
          jobOnly, xshOnly, loginOnly, pipeOnly, testOnly, daemonOnly>>

J == INSTANCE JobShell
X == INSTANCE Xsh
L == INSTANCE Login
P == INSTANCE PipeChat
T == INSTANCE HelperTest WITH Torn <- TornText
D == INSTANCE Daemon WITH at <- process

Nobody == [p \in People |-> 0]

Init ==
  /\ program \in {"job", "xsh", "login", "pipe", "test", "daemon"}
  /\ IF program = "job" THEN J!Init
     ELSE /\ kind = "sk" /\ ai_mode = FALSE /\ own = FALSE /\ fg = "shell" /\ ttou = FALSE
          /\ left = 0 /\ tstp = 0 /\ keys = 0 /\ commands = 0
  /\ IF program = "xsh" THEN X!Init
     ELSE cmd = <<>> /\ freed = {} /\ input = TRUE /\ strays = 0
  /\ program \notin {"job", "xsh"} => child = "none"
  /\ IF program = "login" THEN L!Init
     ELSE /\ file = <<>> /\ at = Nobody /\ name = Nobody /\ password = Nobody
          /\ login_attempts = Nobody /\ seen = Nobody /\ looked = Nobody
  /\ IF program = "pipe" THEN P!Init
     ELSE up = <<>> /\ down = <<>> /\ rest = <<>> /\ got = 0 /\ shown = <<>>
  /\ program \notin {"login", "pipe"} => typed = 0
  /\ program \notin {"xsh", "pipe"} => line = <<>>
  /\ program \notin {"job", "xsh", "pipe"} => shell = "none"
  /\ IF program = "test" THEN T!TestInit
     ELSE /\ prompt = 0 /\ response = 0 /\ to_ai = 0 /\ to_parent = 0 /\ heard = 0
          /\ test = "none" /\ reaped = FALSE
  /\ program \notin {"pipe", "test"} => helper = "none"
  /\ IF program = "daemon" THEN D!DaemonInit
     ELSE /\ process = [p \in D!Processes |-> "none"] /\ session = "none" /\ ignores = {} /\ fds = "none"
          /\ entries = 0 /\ rounds = 0

Next ==
  /\ UNCHANGED program
  /\ \/ /\ program = "job" /\ J!Next
        /\ UNCHANGED <<line, helper, typed, xshOnly, loginOnly, pipeOnly, testOnly, daemonOnly>>
     \/ /\ program = "xsh" /\ X!Next
        /\ UNCHANGED <<helper, typed, jobOnly, loginOnly, pipeOnly, testOnly, daemonOnly>>
     \/ /\ program = "login" /\ L!Next
        /\ UNCHANGED <<shell, child, line, helper, jobOnly, xshOnly, pipeOnly, testOnly, daemonOnly>>
     \/ /\ program = "pipe" /\ P!Next
        /\ UNCHANGED <<child, jobOnly, xshOnly, loginOnly, testOnly, daemonOnly>>
     \/ /\ program = "test" /\ T!TestNext
        /\ UNCHANGED <<shell, child, line, typed, jobOnly, xshOnly, loginOnly, pipeOnly, daemonOnly>>
     \/ /\ program = "daemon" /\ D!DaemonNext
        /\ UNCHANGED <<shell, child, line, helper, typed, jobOnly, xshOnly, loginOnly,
                       pipeOnly, testOnly>>

(***************************************************************************)
(* Fairness: a process goes on when it can; who types owes nothing.        *)
(***************************************************************************)
Fairness ==
  /\ WF_<<shell, child, jobOnly>>(program = "job" /\ J!ShellGoesOn)
  /\ WF_<<shell, child, jobOnly>>(program = "job" /\ J!ChildSteps)
  /\ WF_<<shell, line, typed, helper, pipeOnly>>(program = "pipe" /\ P!ShellStep)
  /\ WF_<<shell, line, typed, helper, pipeOnly>>(program = "pipe" /\ P!HelperStep)
  /\ WF_<<helper, testOnly>>(program = "test" /\ T!TestStep)
  /\ WF_<<helper, testOnly>>(program = "test" /\ T!HelperStep /\ UNCHANGED <<test, reaped>>)
  /\ WF_daemonOnly(program = "daemon" /\ D!DaemonSteps)

Spec == Init /\ [][Next]_vars /\ Fairness

\* The four interactive shells have the terminal whenever they prompt, are never stopped by
\* taking it back, and die of no key but under mini_shell_adv.c; what is stopped was stopped by
\* Ctrl-Z, or in mini_shell_sk.c by reading too early.
TerminalKept == program = "job" => J!TerminalKept /\ J!StoppedForAReason

\* What was typed is what is used: the words of a command without the redirections that could
\* be done, and others behind them only in memory that was another line's (xsh.c), one password
\* for a name, whatever is left of a line in the file (mini_login_sk.c); and an answer belongs to
\* its question: markers and answers keep their order through the pipe (aisys/pipe), and what
\* the test reports is the whole answer (test_ai_helper.c). What the daemon writes to its log
\* (daemon_sys_summary_ai.c) is written by a process that no terminal can end.
InputAndAnswers == CASE program = "xsh" -> X!WordsKept
                     [] program = "login" -> L!OneAccount
                     [] program = "pipe" -> P!MarkersCount
                     [] program = "test" -> T!AnswerReported
                     [] program = "daemon" -> D!DaemonStays
                     [] OTHER -> TRUE

\* Every wait ends: for a program that has ended or stopped, for the answer of the pipe's
\* helper (but for the two ways in which both sides wait for each other), and for the end of
\* the helper under test; and the shell that started the daemon has its prompt back.
WaitsEnd ==
  /\ program = "job" /\ child \in {"zombie", "stopped"}
       ~> shell \in {"prompt", "done", "dead"}
  /\ program = "pipe" /\ shell \in {"write", "read"}
       ~> shell \notin {"write", "read"} \/ P!Starved \/ P!Jammed
  /\ program = "pipe" /\ shell = "closing" ~> shell = "done"
  /\ program = "test" ~> test = "done"
  /\ program = "daemon" ~> process["starter"] \in {"gone", "killed"}
=============================================================================
