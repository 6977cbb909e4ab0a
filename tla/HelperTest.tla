----------------------------- MODULE HelperTest ------------------------------
(***************************************************************************)
(* aisys/Assignment5/test_ai_helper.c: a program that asks the helper one   *)
(* question over new shared memory, gives up after 30 s, and leaves.        *)
(***************************************************************************)
EXTENDS ShmChat

VARIABLES test,   \* "write", "post", "poll", "print", "late", "exit", "waitpid", "done"
          reaped  \* the helper has been waited for already

testVars == <<test, reaped>>
allVars == <<channel, helperVars, testVars>>

\* The names are unlinked and made anew: nothing is left of an earlier run.
TestInit == /\ prompt = 0 /\ response = 0 /\ to_ai = 0 /\ to_parent = 0 /\ NewHelper
            /\ test = "write" /\ reaped = FALSE

\* "hello", after the helper was given two seconds
Hello == \/ /\ test = "write" /\ prompt' = 1 /\ test' = "post"
            /\ UNCHANGED <<response, to_ai, to_parent, helperVars, reaped>>
         \/ /\ test = "post" /\ to_ai' = to_ai + 1 /\ test' = "poll"
            /\ UNCHANGED <<shm, to_parent, helperVars, reaped>>

\* sem_trywait in a loop, up to 300 times
Poll == /\ test = "poll"
        /\ \/ to_parent > 0 /\ to_parent' = to_parent - 1 /\ test' = "print"
           \/ UNCHANGED to_parent /\ test' = "late"
        /\ UNCHANGED <<shm, to_ai, helperVars, reaped>>

\* After the answer was printed, or the state of the helper looked at, "exit" is written.
Leave == /\ test \in {"print", "late"}
         /\ reaped' = (test = "late" /\ helper = "gone")
         /\ WriteBegins(Exit)
         /\ test' = "exit"
         /\ UNCHANGED <<response, to_ai, to_parent, helperVars>>

SendsExit == /\ test = "exit" /\ prompt' = Exit /\ to_ai' = to_ai + 1 /\ test' = "waitpid"
             /\ UNCHANGED <<response, to_parent, helperVars, reaped>>

Ends == /\ test = "waitpid" /\ (helper = "gone" \/ reaped) /\ test' = "done"
        /\ UNCHANGED <<channel, helperVars, reaped>>

TestStep == Hello \/ Poll \/ Leave \/ SendsExit \/ Ends
TestNext == TestStep \/ (HelperStep /\ UNCHANGED testVars)

\* An answer reported is the whole answer to the question, however late it is; the test ends
\* with no helper left.
AnswerReported == /\ test = "print" => response = 1
                  /\ test = "done" => helper = "gone"
=============================================================================
