------------------------------- MODULE ShmChat -------------------------------
(***************************************************************************)
(* aisys/Assignment5: the shared memory and the two semaphores between a    *)
(* shell and ai_helper_chat_repl_shm_posix, and the helper's loop.  The     *)
(* shells are TimedShell and LockStepShell.                                 *)
(*                                                                         *)
(* A question is its number; a text that begins with "exit" is Exit; what   *)
(* is read of a buffer another process is writing is Torn.  An answer is    *)
(* the question it answers, "AI ERROR" being an answer too: what the model  *)
(* says, and the log of the conversation it is sent, are left out.          *)
(***************************************************************************)
EXTENDS Naturals

CONSTANTS Exit, Torn

ASSUME TextsDiffer == Exit \notin Nat /\ Torn \notin Nat /\ Exit # Torn

VARIABLES
    prompt, response,   \* ShmBuf
    to_ai, to_parent,   \* the semaphores
    helper,             \* where the helper is
    heard               \* its copy of the prompt

shm == <<prompt, response>>
channel == <<shm, to_ai, to_parent>>
helperVars == <<helper, heard>>

Texts == Nat \cup {Exit, Torn}

\* strncpy is under way: a reader now finds some of the old bytes and some of the new.
WriteBegins(text) ==
    prompt' \in IF Exit \in {prompt, text} THEN {Torn, Exit} ELSE {Torn}

NewHelper == helper = "starting" /\ heard = 0

-----------------------------------------------------------------------------
(* The helper.                                                              *)

\* It is executed, and opens the memory and the semaphores.
HelperOpens ==
    /\ helper = "starting"
    /\ helper' = "waiting"
    /\ UNCHANGED <<channel, heard>>

\* execl, shm_open, mmap or sem_open fails.
HelperFails ==
    /\ helper = "starting"
    /\ helper' = "gone"
    /\ UNCHANGED <<channel, heard>>

\* sem_wait(sem_to_ai)
HelperWakes ==
    /\ helper = "waiting"
    /\ to_ai > 0
    /\ to_ai' = to_ai - 1
    /\ helper' = "reading"
    /\ UNCHANGED <<shm, to_parent, heard>>

\* mutant: "exit" is a question like any other
HelperReadsOn ==
    /\ helper = "reading"
    /\ heard' = prompt
    /\ helper' = "thinking"
    /\ UNCHANGED channel

\* The prompt is copied; one that begins with "exit" ends the helper.
HelperReads ==
    /\ helper = "reading"
    /\ heard' = prompt
    /\ helper' = IF prompt = Exit THEN "gone" ELSE "thinking"
    /\ UNCHANGED channel

\* mutant: the shell is woken before the answer is copied
AnswerBeginsLate ==
    /\ helper = "thinking"
    /\ response' = Torn
    /\ to_parent' = to_parent + 1
    /\ helper' = "writing"
    /\ UNCHANGED <<prompt, to_ai, heard>>

\* The model has answered, or the call has failed, and the answer is being copied.
AnswerBegins ==
    /\ helper = "thinking"
    /\ response' = Torn
    /\ helper' = "writing"
    /\ UNCHANGED <<prompt, to_ai, to_parent, heard>>

AnswerEnds ==
    /\ helper = "writing"
    /\ response' = heard
    /\ helper' = "posting"
    /\ UNCHANGED <<prompt, to_ai, to_parent, heard>>

\* mutant: the shell is not woken
HelperPostsNot ==
    /\ helper = "posting"
    /\ helper' = "waiting"
    /\ UNCHANGED <<channel, heard>>

\* sem_post(sem_to_parent)
HelperPosts ==
    /\ helper = "posting"
    /\ to_parent' = to_parent + 1
    /\ helper' = "waiting"
    /\ UNCHANGED <<shm, to_ai, heard>>

HelperStep ==
    \/ HelperOpens \/ HelperFails \/ HelperWakes \/ HelperReads
    \/ AnswerBegins \/ AnswerEnds \/ HelperPosts

ChannelTypeOK ==
    /\ prompt \in Texts /\ response \in Nat \cup {Torn}
    /\ to_ai \in Nat /\ to_parent \in Nat
    /\ helper \in {"starting", "waiting", "reading", "thinking", "writing", "posting", "gone"}
    /\ heard \in Texts
===============================================================================
