--------------------------- MODULE TimedShellProofs ---------------------------
(***************************************************************************)
(* How far behind the timed shell's answers can be, for any patience and    *)
(* any number of questions.  The argument counts: every question posted is  *)
(* a token that is in to_ai, in the helper's hands or in to_parent, and the *)
(* shell takes one per question unless it gives up.  So at most `timeouts'  *)
(* tokens are left when an answer is printed, and each of them stands for   *)
(* one question more than the helper had read when it wrote that answer.    *)
(***************************************************************************)
EXTENDS TimedShell, TLAPS

Turn == {"reading", "thinking", "writing", "posting", "gone"}
InHand == IF helper \in Turn THEN 1 ELSE 0
Due == IF ui = "poll" THEN 1 ELSE 0
Posted == IF ui \in {"write", "post"} THEN asked - 1 ELSE asked

\* How much older than the helper's last token its copy and its answer may be.
HeardBehind == IF helper \in {"reading", "gone"} THEN 1 ELSE 0
AnswerBehind == IF helper \in {"reading", "thinking", "gone"} THEN 1 ELSE 0

\* The tokens, and the age of the three texts.
Tokens ==
    /\ to_ai + to_parent + InHand <= timeouts + Due
    /\ prompt \in Nat => Posted <= prompt /\ prompt <= asked
    /\ prompt \in Nat /\ ui = "post" => prompt = asked
    /\ heard \in Nat => Posted - to_ai - HeardBehind <= heard /\ heard <= asked
    /\ response \in Nat => Posted - to_ai - AnswerBehind <= response /\ response <= asked

\* Nothing torn is read before a question was given up.
Whole ==
    /\ prompt = Torn => ui = "write" \/ ui = "exit"
    /\ heard = Torn => timeouts > 0
    /\ response = Torn => timeouts > 0 \/ helper = "writing"

\* Where the two processes are.
Places ==
    /\ ui = "start" => asked = 0
    /\ ui = "write" => text \in {asked, Exit}
    /\ ui \in {"write", "post", "poll"} => timeouts < asked
    /\ helper \in {"thinking", "writing", "posting"} => heard # Exit
    /\ helper = "starting" => to_parent = 0 /\ ui # "print"

\* The helper never answers again; the shell never prints again.
Mute == helper = "gone" /\ to_parent = 0 /\ ui # "print"
Leaving == ui \in {"failed", "waitpid", "done"}

Inv == TypeOK /\ Places /\ (Mute \/ Leaving \/ (Tokens /\ Whole))

-----------------------------------------------------------------------------

\* Init gives the invariant.
LEMMA InitInv == Init => Inv
<1> SUFFICES ASSUME Init
             PROVE  Inv
    OBVIOUS
<1>1. TypeOK
    <2>1. tested \in BOOLEAN /\ ai_mode \in BOOLEAN /\ ai_thinking \in BOOLEAN
        BY Zenon DEF Init
    <2> QED BY <2>1, BoundsOK DEF Init, NewHelper, TypeOK, ChannelTypeOK, Texts
<1>2. Places
    BY DEF Init, NewHelper, Places
<1>3. Posted = 0 /\ InHand = 0 /\ Due = 0 /\ HeardBehind = 0 /\ AnswerBehind = 0
    BY DEF Init, NewHelper, Posted, InHand, Due, HeardBehind, AnswerBehind, Turn
<1>4. Tokens
    BY <1>3 DEF Init, NewHelper, Tokens
<1>5. Whole
    BY TextsDiffer DEF Init, NewHelper, Whole
<1> QED BY <1>1, <1>2, <1>4, <1>5 DEF Inv

\* The start of a copy leaves something torn, or "exit".
LEMMA WriteBeginsType ==
    ASSUME NEW q, WriteBegins(q)
    PROVE  prompt' = Torn \/ (prompt' = Exit /\ Exit \in {prompt, q})
BY DEF WriteBegins

\* The values the variables take are kept by every step.
LEMMA TypeKept ==
    ASSUME TypeOK, Places, [Next]_vars
    PROVE  TypeOK'
<1> USE TextsDiffer, BoundsOK DEF TypeOK, ChannelTypeOK, Texts, channel, shm, helperVars,
                                  asking, modes
<1>1. CASE HelperStep /\ UNCHANGED <<ui, asking, modes>>
    BY <1>1 DEF HelperStep, HelperOpens, HelperFails, HelperWakes, HelperReads,
                AnswerBegins, AnswerEnds, HelperPosts, Places
<1>2. CASE TestBegins
    <2>1. Begin(asked + 1) /\ UNCHANGED modes /\ asked = 0
        BY <1>2 DEF TestBegins, Places
    <2>2. prompt' = Torn \/ prompt' = Exit
        BY <2>1, WriteBeginsType DEF Begin
    <2> QED BY <2>1, <2>2 DEF Begin
<1>3. CASE Ask
    <2>1. PICK question \in {asked + 1, Exit} : Begin(question)
        BY <1>3 DEF Ask
    <2>2. prompt' = Torn \/ prompt' = Exit
        BY <2>1, WriteBeginsType DEF Begin
    <2> QED BY <1>3, <2>1, <2>2 DEF Ask, Begin
<1>4. CASE StartFails \/ WriteEnds \/ Post \/ Take \/ PollFails
    BY <1>4 DEF StartFails, WriteEnds, Post, Take, PollFails
<1>5. CASE TimesOut \/ PrintAnswer
    <2>1. tested' \in BOOLEAN /\ ai_mode' \in BOOLEAN /\ ai_thinking' \in BOOLEAN
        BY Zenon, <1>5 DEF TimesOut, PrintAnswer, Answered
    <2>2. /\ UNCHANGED <<prompt, response, to_ai, to_parent, helper, heard, text, asked, polls>>
          /\ ui' = "read"
          /\ timeouts' = timeouts \/ (timeouts' = timeouts + 1 /\ timeouts < asked)
        BY <1>5 DEF TimesOut, PrintAnswer, Answered, Places
    <2> QED BY <2>1, <2>2
<1>6. CASE ReadExit
    BY <1>6, WriteBeginsType DEF ReadExit
<1>7. CASE SendExit \/ HelperReaped
    BY <1>7 DEF SendExit, HelperReaped
<1>8. CASE ToggleAiMode \/ InterruptThinking
    <2>1. tested' \in BOOLEAN /\ ai_mode' \in BOOLEAN /\ ai_thinking' \in BOOLEAN
        BY Zenon, <1>8 DEF ToggleAiMode, InterruptThinking
    <2>2. UNCHANGED <<prompt, response, to_ai, to_parent, helper, heard, ui, text, asked,
                      polls, timeouts>>
        BY <1>8 DEF ToggleAiMode, InterruptThinking
    <2> QED BY <2>1, <2>2
<1>9. CASE Ended \/ UNCHANGED vars
    BY <1>9 DEF Ended, vars
<1> QED BY <1>1, <1>2, <1>3, <1>4, <1>5, <1>6, <1>7, <1>8, <1>9 DEF Next, ShellStep

\* Where the two processes are is kept by every step.
LEMMA PlacesKept ==
    ASSUME TypeOK, Places, [Next]_vars
    PROVE  Places'
<1> USE TextsDiffer, BoundsOK DEF Places, TypeOK, ChannelTypeOK, channel, shm, helperVars,
                                  asking, modes
<1>1. CASE HelperStep /\ UNCHANGED <<ui, asking, modes>>
    BY <1>1 DEF HelperStep, HelperOpens, HelperFails, HelperWakes, HelperReads,
                AnswerBegins, AnswerEnds, HelperPosts
<1>2. CASE TestBegins \/ Ask
    BY <1>2 DEF TestBegins, Ask, Begin
<1>3. CASE StartFails \/ WriteEnds \/ Post \/ Take \/ PollFails
    BY <1>3 DEF StartFails, WriteEnds, Post, Take, PollFails
<1>4. CASE TimesOut \/ PrintAnswer
    BY <1>4 DEF TimesOut, PrintAnswer, Answered
<1>5. CASE ReadExit \/ SendExit \/ HelperReaped \/ ToggleAiMode \/ InterruptThinking
    BY <1>5 DEF ReadExit, SendExit, HelperReaped, ToggleAiMode, InterruptThinking
<1>6. CASE Ended \/ UNCHANGED vars
    BY <1>6 DEF Ended, vars
<1> QED BY <1>1, <1>2, <1>3, <1>4, <1>5, <1>6 DEF Next, ShellStep

\* A silent helper stays silent, and a shell on its way out stays there.
LEMMA EndingsKept ==
    ASSUME TypeOK, [Next]_vars, Mute \/ Leaving
    PROVE  Mute' \/ Leaving'
<1> USE DEF Mute, Leaving, TypeOK, ChannelTypeOK, channel, shm, helperVars, asking, modes
<1>1. CASE HelperStep /\ UNCHANGED <<ui, asking, modes>>
    BY <1>1 DEF HelperStep, HelperOpens, HelperFails, HelperWakes, HelperReads,
                AnswerBegins, AnswerEnds, HelperPosts
<1>2. CASE TestBegins \/ Ask
    BY <1>2 DEF TestBegins, Ask, Begin
<1>3. CASE StartFails \/ WriteEnds \/ Post \/ Take \/ PollFails
    BY <1>3 DEF StartFails, WriteEnds, Post, Take, PollFails
<1>4. CASE TimesOut \/ PrintAnswer
    BY <1>4 DEF TimesOut, PrintAnswer, Answered
<1>5. CASE ReadExit \/ SendExit \/ HelperReaped \/ ToggleAiMode \/ InterruptThinking
    BY <1>5 DEF ReadExit, SendExit, HelperReaped, ToggleAiMode, InterruptThinking
<1>6. CASE Ended \/ UNCHANGED vars
    BY <1>6 DEF Ended, vars
<1> QED BY <1>1, <1>2, <1>3, <1>4, <1>5, <1>6 DEF Next, ShellStep

-----------------------------------------------------------------------------

\* The helper keeps the count: a token goes from to_ai through its hands to to_parent.
LEMMA HelperKeeps ==
    ASSUME TypeOK, TypeOK', Places, Tokens, Whole,
           HelperStep, UNCHANGED <<ui, asking, modes>>
    PROVE  Mute' \/ (Tokens' /\ Whole')
<1> USE TextsDiffer DEF TypeOK, ChannelTypeOK, Tokens, Whole, Places, Posted, Due, InHand,
                        HeardBehind, AnswerBehind, Turn, channel, shm, helperVars, asking
<1>1. CASE HelperOpens
    BY <1>1 DEF HelperOpens
<1>2. CASE HelperFails
    BY <1>2 DEF HelperFails, Mute
<1>3. CASE HelperWakes
    BY <1>3 DEF HelperWakes
<1>4. CASE HelperReads
    BY <1>4 DEF HelperReads
<1>5. CASE AnswerBegins
    BY <1>5 DEF AnswerBegins
<1>6. CASE AnswerEnds
    BY <1>6 DEF AnswerEnds
<1>7. CASE HelperPosts
    BY <1>7 DEF HelperPosts
<1> QED BY <1>1, <1>2, <1>3, <1>4, <1>5, <1>6, <1>7 DEF HelperStep

\* So does the shell: it takes a token for each one it posts, or gives one up.
LEMMA ShellKeeps ==
    ASSUME TypeOK, TypeOK', Places, Tokens, Whole,
           ShellStep \/ Ask \/ ReadExit \/ ToggleAiMode \/ InterruptThinking \/ Ended \/ UNCHANGED vars
    PROVE  Leaving' \/ (Tokens' /\ Whole')
<1> USE TextsDiffer DEF TypeOK, ChannelTypeOK, Tokens, Whole, Places, Posted, Due, InHand,
                        HeardBehind, AnswerBehind, Turn, channel, shm, helperVars, asking, modes
<1>1. CASE TestBegins \/ Ask
    <2>1. /\ ui' = "write" /\ asked' = asked + 1 /\ ui \in {"start", "read"}
          /\ UNCHANGED <<response, to_ai, to_parent, helper, heard, timeouts>>
        BY <1>1 DEF TestBegins, Ask, Begin
    <2>2. prompt' = Torn \/ prompt' = Exit
        BY <1>1, WriteBeginsType DEF TestBegins, Ask, Begin
    <2> QED BY <2>1, <2>2
<1>2. CASE StartFails \/ HelperReaped \/ SendExit
    BY <1>2 DEF StartFails, HelperReaped, SendExit, Leaving
<1>3. CASE WriteEnds
    BY <1>3 DEF WriteEnds
<1>4. CASE Post
    BY <1>4 DEF Post
<1>5. CASE Take
    BY <1>5 DEF Take
<1>6. CASE PollFails
    BY <1>6 DEF PollFails
<1>7. CASE TimesOut
    BY <1>7 DEF TimesOut, Answered
<1>8. CASE PrintAnswer
    BY <1>8 DEF PrintAnswer, Answered
<1>9. CASE ReadExit
    BY <1>9, WriteBeginsType DEF ReadExit
<1>10. CASE ToggleAiMode \/ InterruptThinking \/ Ended \/ UNCHANGED vars
    BY <1>10 DEF ToggleAiMode, InterruptThinking, Ended, vars
<1> QED BY <1>1, <1>2, <1>3, <1>4, <1>5, <1>6, <1>7, <1>8, <1>9, <1>10 DEF ShellStep

\* The inductive invariant.
THEOREM Invariant == Spec => []Inv
<1>1. Inv /\ [Next]_vars => Inv'
    <2> SUFFICES ASSUME Inv, [Next]_vars
                 PROVE  Inv'
        OBVIOUS
    <2>1. TypeOK' /\ Places'
        BY TypeKept, PlacesKept DEF Inv
    <2>2. CASE Mute \/ Leaving
        BY <2>1, <2>2, EndingsKept DEF Inv
    <2>3. CASE Tokens /\ Whole
        BY <2>1, <2>3, HelperKeeps, ShellKeeps DEF Inv, Next
    <2> QED BY <2>2, <2>3 DEF Inv
<1> QED BY <1>1, InitInv, PTL DEF Spec

\* The values the variables take, for any patience and any number of questions.
THEOREM TypeCorrect == Spec => []TypeOK
BY Invariant, PTL DEF Inv

\* A conversation without a timeout is in step: each answer printed is, whole, the answer to
\* the question just asked.
THEOREM AnswersInStep == Spec => []InStep
<1>1. Inv => InStep
    BY TextsDiffer DEF Inv, InStep, TypeOK, ChannelTypeOK, Texts, Places, Tokens, Whole, Mute,
                       Leaving, Posted, Due, InHand, AnswerBehind, Turn
<1> QED BY <1>1, Invariant, PTL

\* However long the helper takes and however often the shell gives up, an answer is never
\* behind by more questions than were given up.
THEOREM LagIsBounded == Spec => []Lag
<1>1. Inv => Lag
    BY TextsDiffer DEF Inv, Lag, TypeOK, ChannelTypeOK, Texts, Places, Tokens, Whole, Mute,
                       Leaving, Posted, Due, InHand, AnswerBehind, Turn
<1> QED BY <1>1, Invariant, PTL
===============================================================================
