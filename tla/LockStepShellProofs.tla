------------------------- MODULE LockStepShellProofs -------------------------
(***************************************************************************)
(* The lock-step shell and its helper take turns: as long as a shell found  *)
(* no semaphore posted when it started there is one token, and what is in   *)
(* the shared memory belongs to the question just asked.                    *)
(***************************************************************************)
EXTENDS LockStepShell, TLAPS

Turn == {"reading", "thinking", "writing", "posting"}

\* Who has the turn.
Turns ==
    /\ ui \in {"read", "write", "post", "print", "exit"} =>
          to_ai = 0 /\ to_parent = 0 /\ helper \notin Turn
    /\ to_ai + to_parent <= 1
    /\ to_ai + to_parent = 1 => helper \notin Turn

\* Whose texts are where.
Matching ==
    /\ ui \in {"post", "wait"} => prompt = asked
    /\ ui = "wait" =>
          /\ helper \in {"thinking", "writing", "posting"} => heard = asked
          /\ helper = "posting" \/ to_parent > 0 => response = asked
    /\ ui = "print" => response = asked

Inv ==
    /\ TypeOK
    /\ helper \in {"thinking", "writing", "posting"} => heard # Exit
    /\ leftover = 0 => Turns /\ Matching

-----------------------------------------------------------------------------

\* The values the variables take are kept by every step.
LEMMA TypeKept ==
    ASSUME Inv, [Next]_vars
    PROVE  TypeOK'
<1> USE TextsDiffer, BoundsOK DEF Inv, TypeOK, ChannelTypeOK, Texts, channel, shm, helperVars,
                                  asking
<1>1. CASE HelperStep /\ UNCHANGED <<ui, asking>>
    BY <1>1 DEF HelperStep, HelperOpens, HelperFails, HelperWakes, HelperReads,
                AnswerBegins, AnswerEnds, HelperPosts
<1>2. CASE Ask
    BY <1>2 DEF Ask, WriteBegins
<1>3. CASE ReadExit
    BY <1>3 DEF ReadExit, WriteBegins
<1>4. CASE WriteEnds \/ Post \/ Wait \/ PrintAnswer \/ SendExit \/ HelperReaped
    BY <1>4 DEF WriteEnds, Post, Wait, PrintAnswer, SendExit, HelperReaped
<1>5. CASE Crash \/ Restart
    BY <1>5 DEF Crash, Restart
<1>6. CASE UNCHANGED vars
    BY <1>6 DEF vars
<1> QED BY <1>1, <1>2, <1>3, <1>4, <1>5, <1>6 DEF Next, ShellStep

\* A copy of the prompt that begins with "exit" is never answered.
LEMMA HeardKept ==
    ASSUME Inv, [Next]_vars
    PROVE  helper' \in {"thinking", "writing", "posting"} => heard' # Exit
<1> USE DEF Inv, TypeOK, ChannelTypeOK, channel, shm, helperVars
<1>1. CASE HelperStep /\ UNCHANGED <<ui, asking>>
    BY <1>1 DEF HelperStep, HelperOpens, HelperFails, HelperWakes, HelperReads,
                AnswerBegins, AnswerEnds, HelperPosts
<1>2. CASE Ask \/ ReadExit \/ WriteEnds \/ Post \/ Wait \/ PrintAnswer \/ SendExit \/ HelperReaped
    BY <1>2 DEF Ask, ReadExit, WriteEnds, Post, Wait, PrintAnswer, SendExit, HelperReaped
<1>3. CASE Crash \/ Restart \/ UNCHANGED vars
    BY <1>3 DEF Crash, Restart, vars
<1> QED BY <1>1, <1>2, <1>3 DEF Next, ShellStep

\* The helper passes the turn on, with the answer to the question it was given.
LEMMA HelperKeeps ==
    ASSUME Inv, TypeOK', leftover = 0, HelperStep, UNCHANGED <<ui, asking>>
    PROVE  Turns' /\ Matching'
<1> USE TextsDiffer DEF Inv, TypeOK, ChannelTypeOK, Turns, Matching, Turn, channel, shm,
                        helperVars, asking
<1>1. CASE HelperOpens
    BY <1>1 DEF HelperOpens
<1>2. CASE HelperFails
    BY <1>2 DEF HelperFails
<1>3. CASE HelperWakes
    BY <1>3 DEF HelperWakes
<1>4. CASE HelperReads
    BY <1>4 DEF HelperReads
<1>5. CASE AnswerBegins
    BY <1>5 DEF AnswerBegins
<1>6. CASE AnswerEnds
    BY <1>6 DEF AnswerEnds
<1>7. CASE HelperPosts
    BY <1>7 DEF HelperPosts
<1> QED BY <1>1, <1>2, <1>3, <1>4, <1>5, <1>6, <1>7 DEF HelperStep

\* The shell gives the turn away and waits for it; a new shell that finds nothing posted
\* starts with it.
LEMMA ShellKeeps ==
    ASSUME Inv, TypeOK', leftover' = 0,
           ShellStep \/ Ask \/ ReadExit \/ Crash \/ Restart \/ UNCHANGED vars
    PROVE  Turns' /\ Matching'
<1> USE TextsDiffer DEF Inv, TypeOK, ChannelTypeOK, Turns, Matching, Turn, channel, shm,
                        helperVars, asking
<1>1. CASE Ask
    BY <1>1 DEF Ask
<1>2. CASE WriteEnds
    BY <1>2 DEF WriteEnds
<1>3. CASE Post
    BY <1>3 DEF Post
<1>4. CASE Wait
    BY <1>4 DEF Wait
<1>5. CASE PrintAnswer
    BY <1>5 DEF PrintAnswer
<1>6. CASE ReadExit
    BY <1>6 DEF ReadExit
<1>7. CASE SendExit
    BY <1>7 DEF SendExit
<1>8. CASE HelperReaped
    BY <1>8 DEF HelperReaped
<1>9. CASE Crash
    BY <1>9 DEF Crash
<1>10. CASE Restart
    BY <1>10 DEF Restart
<1>11. CASE UNCHANGED vars
    BY <1>11 DEF vars
<1> QED BY <1>1, <1>2, <1>3, <1>4, <1>5, <1>6, <1>7, <1>8, <1>9, <1>10, <1>11 DEF ShellStep

\* The inductive invariant.
THEOREM Invariant == Spec => []Inv
<1>1. Init => Inv
    BY TextsDiffer, BoundsOK DEF Init, NewHelper, Inv, TypeOK, ChannelTypeOK, Texts, Turns,
                                 Matching, Turn
<1>2. Inv /\ [Next]_vars => Inv'
    <2> SUFFICES ASSUME Inv, [Next]_vars
                 PROVE  Inv'
        OBVIOUS
    <2>1. TypeOK'
        BY TypeKept
    <2>2. helper' \in {"thinking", "writing", "posting"} => heard' # Exit
        BY HeardKept
    <2>3. leftover' = 0 => Turns' /\ Matching'
        BY <2>1, HelperKeeps, ShellKeeps DEF Next, asking
    <2> QED BY <2>1, <2>2, <2>3 DEF Inv
<1> QED BY <1>1, <1>2, PTL DEF Spec

\* The values the variables take.
THEOREM TypeCorrect == Spec => []TypeOK
BY Invariant, PTL DEF Inv

\* At most one of the shell and the helper has the turn, through crashes and restarts.
THEOREM TurnsAlternate == Spec => []OneTurn
<1>1. Inv => OneTurn
    BY DEF Inv, Turns, Turn, OneTurn, TypeOK, ChannelTypeOK
<1> QED BY <1>1, Invariant, PTL

\* A shell that started with clean semaphores prints the answer to the question it just asked,
\* whatever was in the shared memory.
THEOREM AnswersInStep == Spec => []InStep
<1>1. Inv => InStep
    BY DEF Inv, Matching, InStep
<1> QED BY <1>1, Invariant, PTL
===============================================================================
