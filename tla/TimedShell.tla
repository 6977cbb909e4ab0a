------------------------------ MODULE TimedShell ------------------------------
(***************************************************************************)
(* aisys/Assignment5/mini_shell_ai.c: the shell that tests its helper with  *)
(* a question of its own and then asks the user's, polling for each answer  *)
(* and giving up after a while.  An answer that comes later stays posted.   *)
(* Blank lines, cd and programs do not touch the helper and are left out.   *)
(***************************************************************************)
EXTENDS ShmChat

CONSTANTS
    Patience,       \* how often it polls for an answer
    MaxQuestions    \* bound: questions asked, the connection test included

ASSUME BoundsOK == Patience \in Nat \ {0} /\ MaxQuestions \in Nat \ {0}

VARIABLES
    ui,             \* where the shell is
    text,           \* the line being asked
    asked,          \* questions asked so far
    polls,
    tested,         \* is the connection test over?
    ai_mode, ai_thinking,
    timeouts        \* history: questions given up

modes == <<ai_mode, ai_thinking>>
asking == <<text, asked, polls, tested, timeouts>>
vars == <<channel, helperVars, ui, asking, modes>>

Init ==
    /\ prompt = 0 /\ response = 0
    /\ to_ai = 0 /\ to_parent = 0
    /\ NewHelper
    /\ ui = "start"
    /\ text = 0 /\ asked = 0 /\ polls = 0 /\ tested = FALSE /\ timeouts = 0
    /\ ai_mode = FALSE /\ ai_thinking = FALSE

-----------------------------------------------------------------------------

\* A question is copied to the shared memory.
Begin(question) ==
    /\ text' = question
    /\ asked' = asked + 1
    /\ WriteBegins(question)
    /\ ui' = "write"
    /\ UNCHANGED <<response, to_ai, to_parent, helperVars, polls, tested, timeouts>>

\* Two seconds after the fork the helper has not exited; it is asked "hi".
TestBegins ==
    /\ ui = "start"
    /\ helper # "gone"
    /\ Begin(asked + 1)
    /\ UNCHANGED modes

StartFails ==
    /\ ui = "start"
    /\ helper = "gone"
    /\ ui' = "failed"
    /\ UNCHANGED <<channel, helperVars, asking, modes>>

\* A line in AI mode, whose first word may begin with "exit" without being "exit".
Ask ==
    /\ ui = "read"
    /\ ai_mode
    /\ asked < MaxQuestions
    /\ \E question \in {asked + 1, Exit} : Begin(question)
    /\ ai_thinking' = TRUE
    /\ UNCHANGED ai_mode

WriteEnds ==
    /\ ui = "write"
    /\ prompt' = text
    /\ ui' = "post"
    /\ UNCHANGED <<response, to_ai, to_parent, helperVars, asking, modes>>

\* sem_post(sem_to_child)
Post ==
    /\ ui = "post"
    /\ to_ai' = to_ai + 1
    /\ polls' = 0
    /\ ui' = "poll"
    /\ UNCHANGED <<shm, to_parent, helperVars, text, asked, tested, timeouts, modes>>

\* mutant: the semaphore is looked at and not taken
TakeKeeps ==
    /\ ui = "poll"
    /\ polls < Patience
    /\ to_parent > 0
    /\ ui' = "print"
    /\ UNCHANGED <<channel, helperVars, asking, modes>>

\* sem_trywait succeeds
Take ==
    /\ ui = "poll"
    /\ polls < Patience
    /\ to_parent > 0
    /\ to_parent' = to_parent - 1
    /\ ui' = "print"
    /\ UNCHANGED <<shm, to_ai, helperVars, asking, modes>>

\* mutant: the rounds are not counted
PollFailsUncounted ==
    /\ ui = "poll"
    /\ polls < Patience
    /\ to_parent = 0
    /\ UNCHANGED vars

\* sem_trywait fails; the shell sleeps and tries again.
PollFails ==
    /\ ui = "poll"
    /\ polls < Patience
    /\ to_parent = 0
    /\ polls' = polls + 1
    /\ UNCHANGED <<channel, helperVars, ui, text, asked, tested, timeouts, modes>>

\* Back to the prompt.
Answered ==
    /\ ui' = "read"
    /\ tested' = TRUE
    /\ ai_thinking' = FALSE
    /\ UNCHANGED <<channel, helperVars, text, asked, polls, ai_mode>>

TimesOut ==
    /\ ui = "poll"
    /\ polls = Patience
    /\ timeouts' = timeouts + 1
    /\ Answered

\* The response is printed as it is in the shared memory by now.
PrintAnswer ==
    /\ ui = "print"
    /\ Answered
    /\ UNCHANGED timeouts

\* "exit", or the end of the input: the helper is told.
ReadExit ==
    /\ ui = "read"
    /\ WriteBegins(Exit)
    /\ ui' = "exit"
    /\ UNCHANGED <<response, to_ai, to_parent, helperVars, asking, modes>>

\* mutant: the helper is not woken
SendExitQuietly ==
    /\ ui = "exit"
    /\ prompt' = Exit
    /\ ui' = "waitpid"
    /\ UNCHANGED <<response, to_ai, to_parent, helperVars, asking, modes>>

SendExit ==
    /\ ui = "exit"
    /\ prompt' = Exit
    /\ to_ai' = to_ai + 1
    /\ ui' = "waitpid"
    /\ UNCHANGED <<response, to_parent, helperVars, asking, modes>>

\* waitpid returns, and the names are unlinked.
HelperReaped ==
    /\ ui = "waitpid"
    /\ helper = "gone"
    /\ ui' = "done"
    /\ UNCHANGED <<channel, helperVars, asking, modes>>

\* handle_sigquit
ToggleAiMode ==
    /\ ui \notin {"failed", "done"}
    /\ ai_mode' = ~ai_mode
    /\ UNCHANGED <<channel, helperVars, ui, asking, ai_thinking>>

\* handle_sigint: nothing but the flag changes.
InterruptThinking ==
    /\ ai_mode /\ ai_thinking
    /\ ai_thinking' = FALSE
    /\ UNCHANGED <<channel, helperVars, ui, asking, ai_mode>>

Ended ==
    /\ ui \in {"failed", "done"}
    /\ UNCHANGED vars

ShellStep ==
    \/ TestBegins \/ StartFails \/ WriteEnds \/ Post \/ Take \/ PollFails \/ TimesOut
    \/ PrintAnswer \/ SendExit \/ HelperReaped

Next ==
    \/ HelperStep /\ UNCHANGED <<ui, asking, modes>>
    \/ ShellStep
    \/ Ask \/ ReadExit \/ ToggleAiMode \/ InterruptThinking
    \/ Ended

Spec == Init /\ [][Next]_vars

\* Both processes run, and the model server answers or fails in the end: the helper sets no
\* timeout of its own.  The user owes nothing.
FairSpec ==
    /\ Spec
    /\ WF_vars(HelperStep /\ UNCHANGED <<ui, asking, modes>>)
    /\ WF_vars(ShellStep)

-----------------------------------------------------------------------------
(* Properties                                                               *)

\* The values the variables take.
TypeOK ==
    /\ ChannelTypeOK
    /\ ui \in {"start", "failed", "read", "write", "post", "poll", "print",
               "exit", "waitpid", "done"}
    /\ text \in Nat \cup {Exit}
    /\ asked \in 0..MaxQuestions
    /\ polls \in 0..Patience
    /\ tested \in BOOLEAN /\ ai_mode \in BOOLEAN /\ ai_thinking \in BOOLEAN
    /\ timeouts \in 0..asked

\* As long as no question has been given up the answer printed is, whole, the answer to the
\* question just asked, although nothing in the shared memory says what it answers.
InStep == timeouts = 0 /\ ui = "print" => response = asked

\* Each question given up puts the conversation at most one answer behind, for good: the
\* answer printed is to one of the last timeouts + 1 questions (or to a torn text).
Lag == ui = "print" /\ response # Torn => response + timeouts >= asked

\* The shell comes back to its prompt, with an answer or without, even if the helper is gone.
QuestionReturns == ui = "poll" ~> ui = "read"

\* Leaving ends both processes, whatever is still posted, torn or being thought about.
ExitCompletes == ui = "exit" ~> ui = "done"

\* What the shell's banner and header comment say of Ctrl+\: the answer is stopped.  An answer
\* that arrives after the interrupt is not taken for printing.
StopStops == [][ui = "poll" /\ ui' = "print" /\ tested => ai_thinking]_vars
===============================================================================
