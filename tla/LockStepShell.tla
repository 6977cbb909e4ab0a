----------------------------- MODULE LockStepShell -----------------------------
(***************************************************************************)
(* aisys/Assignment5/mini_shell_ai_shm_posix.c: the shell that asks every   *)
(* line and waits for its answer without a timeout.  The names of the       *)
(* shared memory and the semaphores outlive the processes: a shell opens    *)
(* what one that was killed has left.                                       *)
(***************************************************************************)
EXTENDS ShmChat

CONSTANTS
    MaxQuestions,   \* bound: questions asked
    MaxCrashes      \* bound: Ctrl+C, which kills the shell and its helper

ASSUME BoundsOK == MaxQuestions \in Nat /\ MaxCrashes \in Nat

VARIABLES
    ui,             \* where the shell is
    asked,          \* questions asked, by this shell and those before it
    crashes,
    leftover        \* history: what was posted and not taken when this shell started

asking == <<asked, crashes, leftover>>
vars == <<channel, helperVars, ui, asking>>

Init ==
    /\ prompt = 0 /\ response = 0
    /\ to_ai = 0 /\ to_parent = 0
    /\ NewHelper
    /\ ui = "read"
    /\ asked = 0 /\ crashes = 0 /\ leftover = 0

-----------------------------------------------------------------------------

\* mutant: the helper is woken before the line is copied
AskEarly ==
    /\ ui = "read"
    /\ asked < MaxQuestions
    /\ asked' = asked + 1
    /\ WriteBegins(asked')
    /\ to_ai' = to_ai + 1
    /\ ui' = "write"
    /\ UNCHANGED <<response, to_parent, helperVars, crashes, leftover>>

\* Any line that does not begin with "exit".
Ask ==
    /\ ui = "read"
    /\ asked < MaxQuestions
    /\ asked' = asked + 1
    /\ WriteBegins(asked')
    /\ ui' = "write"
    /\ UNCHANGED <<response, to_ai, to_parent, helperVars, crashes, leftover>>

WriteEnds ==
    /\ ui = "write"
    /\ prompt' = asked
    /\ ui' = "post"
    /\ UNCHANGED <<response, to_ai, to_parent, helperVars, asking>>

\* sem_post(sem_to_child)
Post ==
    /\ ui = "post"
    /\ to_ai' = to_ai + 1
    /\ ui' = "wait"
    /\ UNCHANGED <<shm, to_parent, helperVars, asking>>

\* mutant: an interrupted sem_wait is taken for an answer
WaitInterrupted ==
    /\ ui = "wait"
    /\ ui' = "print"
    /\ UNCHANGED <<channel, helperVars, asking>>

\* sem_wait(sem_to_parent)
Wait ==
    /\ ui = "wait"
    /\ to_parent > 0
    /\ to_parent' = to_parent - 1
    /\ ui' = "print"
    /\ UNCHANGED <<shm, to_ai, helperVars, asking>>

PrintAnswer ==
    /\ ui = "print"
    /\ ui' = "read"
    /\ UNCHANGED <<channel, helperVars, asking>>

\* A line that begins with "exit", or the end of the input.
ReadExit ==
    /\ ui = "read"
    /\ WriteBegins(Exit)
    /\ ui' = "exit"
    /\ UNCHANGED <<response, to_ai, to_parent, helperVars, asking>>

SendExit ==
    /\ ui = "exit"
    /\ prompt' = Exit
    /\ to_ai' = to_ai + 1
    /\ ui' = "waitpid"
    /\ UNCHANGED <<response, to_parent, helperVars, asking>>

\* waitpid returns, and the names are unlinked.
HelperReaped ==
    /\ ui = "waitpid"
    /\ helper = "gone"
    /\ ui' = "done"
    /\ UNCHANGED <<channel, helperVars, asking>>

\* Ctrl+C kills both processes wherever they are; the memory and the semaphores stay.
Crash ==
    /\ ui \notin {"done", "killed"}
    /\ crashes < MaxCrashes
    /\ crashes' = crashes + 1
    /\ ui' = "killed"
    /\ helper' = "gone"
    /\ UNCHANGED <<channel, heard, asked, leftover>>

\* The next shell: shm_open and sem_open without O_EXCL, ftruncate to the same size.
Restart ==
    /\ ui = "killed"
    /\ ui' = "read"
    /\ helper' = "starting" /\ heard' = 0
    /\ leftover' = to_ai + to_parent
    /\ UNCHANGED <<channel, asked, crashes>>

ShellStep ==
    \/ WriteEnds \/ Post \/ Wait \/ PrintAnswer \/ SendExit \/ HelperReaped

Next ==
    \/ HelperStep /\ UNCHANGED <<ui, asking>>
    \/ ShellStep
    \/ Ask \/ ReadExit \/ Crash \/ Restart

Spec == Init /\ [][Next]_vars

\* Both processes run, and the model server answers or fails in the end.
FairSpec ==
    /\ Spec
    /\ WF_vars(HelperStep /\ UNCHANGED <<ui, asking>>)
    /\ WF_vars(ShellStep)

-----------------------------------------------------------------------------
(* Properties                                                               *)

\* The values the variables take.
TypeOK ==
    /\ ChannelTypeOK
    /\ ui \in {"read", "write", "post", "wait", "print", "exit", "waitpid", "done", "killed"}
    /\ asked \in 0..MaxQuestions
    /\ crashes \in 0..MaxCrashes
    /\ leftover \in Nat

\* A shell that found no semaphore posted when it started prints, whole, the answer to the
\* question just asked, whatever a killed predecessor left in the shared memory.
InStep == leftover = 0 /\ ui = "print" => response = asked

\* What keeps the two in step: at most one of the two processes has the turn.
OneTurn ==
    leftover = 0 =>
        LET turns == {"reading", "thinking", "writing", "posting"} IN
        /\ to_ai + to_parent + (IF helper \in turns THEN 1 ELSE 0) <= 1
        /\ ui \in {"read", "write", "post", "print", "exit"} =>
              to_ai = 0 /\ to_parent = 0 /\ helper \notin turns

\* A question is answered unless the helper is gone: the wait has no timeout, so a helper that
\* could not start, or that read an "exit" left by a killed shell, leaves it waiting for ever.
EveryQuestionAnswered == ui = "wait" ~> (ui = "print" \/ helper = "gone")

\* Leaving ends both processes, whatever predecessors left posted.
ExitCompletes == ui = "exit" ~> (ui = "done" \/ ui = "killed")
===============================================================================
