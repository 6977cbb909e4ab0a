-------------------------- MODULE MCProgramsProofs ---------------------------
(***************************************************************************)
(* Proofs about the programs of MCPrograms, whatever is typed and at        *)
(* whatever moment.  A behaviour is that of one program, and each program   *)
(* has an inductive invariant of its own:                                  *)
(*   - the four shells: who owns the terminal at each step of their loop,   *)
(*     and about SIGTTOU, which the sk shell ignores around each change of  *)
(*     owner and the others all the time;                                  *)
(*   - the daemon: who made whom, and what is inherited;                    *)
(*   - the helper under test: how many texts are under way;                 *)
(*   - the login: what each person has read of a file that others grow;     *)
(*   - the chat over pipes: the numbers of the questions do not fall, from  *)
(*     what was shown to what was typed last;                               *)
(*   - xsh: how far the loop over the words has come.                       *)
(***************************************************************************)
EXTENDS MCPrograms, FiniteSetTheorems, SequenceTheorems, WellFoundedInduction, TLAPS

-----------------------------------------------------------------------------
(* The four shells.                                                         *)

Keyboard == {"INT", "TSTP", "QUIT"}

\* What the proof needs of the differences between the shells.
Traits(s) ==
    /\ s.ttou = (IF kind = "sk" THEN "around" ELSE "always")
    /\ kind # "adv" => Keyboard \subseteq s.ignores \union s.handles
    /\ kind # "sk" => "TTIN" \in s.ignores
    /\ kind = "adv" => "TSTP" \in s.ignores /\ "TSTP" \notin s.restores

JobTypes ==
    /\ kind \in {"sk", "adv", "mode", "game"}
    /\ shell \in {"prompt", "forked", "give", "given", "wait", "take", "taken", "done", "dead"}
    /\ child \in {"none", "forked", "default", "runs", "stopped", "zombie"}
    /\ fg \in {"shell", "child"}
    /\ ttou \in BOOLEAN /\ own \in BOOLEAN
    /\ left \in Nat /\ tstp \in Nat

\* Who owns the terminal, and whether SIGTTOU is ignored, where.
Owner ==
    /\ shell \in {"prompt", "forked", "give", "taken"} => fg = "shell"
    /\ shell \in {"given", "wait", "take"} => fg = "child"
    /\ shell \in {"prompt", "take", "taken"} => child = "none"
    /\ kind # "sk" => ttou = TRUE /\ shell \notin {"given", "taken"}
    /\ kind = "sk" /\ shell \in {"prompt", "forked", "wait"} => ttou = FALSE
    /\ kind = "sk" /\ shell \in {"given", "taken"} => ttou = TRUE
    /\ shell = "dead" => kind = "adv"

JobInv == JobTypes /\ Owner /\ J!StoppedForAReason

\* The shell starts with the terminal and without a program.
LEMMA JobBegins == J!Init => JobInv
<1> SUFFICES ASSUME J!Init PROVE JobInv
  OBVIOUS
<1>1. ttou = (kind # "sk") /\ ttou \in BOOLEAN
  BY Zenon DEF J!Init
<1>2. JobTypes
  BY <1>1 DEF J!Init, JobTypes
<1>3. Owner
  BY <1>1 DEF J!Init, Owner
<1>4. J!StoppedForAReason
  BY DEF J!Init, J!StoppedForAReason
<1> QED  BY <1>2, <1>3, <1>4 DEF JobInv

\* A step that leaves the shell, its terminal and the counts alone.
LEMMA ChildAlone ==
    ASSUME JobInv, UNCHANGED <<kind, shell, fg, ttou, left, tstp>>, own' \in BOOLEAN,
           child # "none", child # "stopped",
           child' \in {"forked", "default", "runs", "zombie"}
    PROVE  JobInv'
<1>1. JobTypes'
  BY DEF JobInv, JobTypes
<1>2. Owner'
  BY DEF JobInv, Owner
<1>3. J!StoppedForAReason'
  BY DEF JobInv, JobTypes, J!StoppedForAReason
<1> QED  BY <1>1, <1>2, <1>3 DEF JobInv

\* What the child and the program do while the shell does nothing.
LEMMA ChildGoesOn ==
    ASSUME JobInv, NEW s, Traits(s), J!ChildSteps \/ J!ProgramEnds \/ J!ProgramReads(s)
    PROVE  JobInv'
<1>1. CASE J!ChildSetsGroup
  <2> child # "none" /\ child # "stopped" /\ child' = "forked" /\ own' \in BOOLEAN
    BY <1>1 DEF J!ChildSetsGroup
  <2> QED  BY <1>1, ChildAlone DEF J!ChildSetsGroup
<1>2. CASE J!ChildRestores
  BY <1>2, ChildAlone DEF J!ChildRestores, JobInv, JobTypes
<1>3. CASE J!ChildExecs
  BY <1>3, ChildAlone DEF J!ChildExecs, JobInv, JobTypes
<1>4. CASE J!ProgramEnds
  BY <1>4, ChildAlone DEF J!ProgramEnds, JobInv, JobTypes
<1>5. CASE J!ProgramReads(s)
  <2> USE <1>5 DEF J!ProgramReads
  <2>1. JobTypes'
    BY DEF JobInv, JobTypes
  <2>2. Owner'
    BY DEF JobInv, Owner
  <2>3. J!StoppedForAReason'
    BY DEF Traits, JobInv, JobTypes, J!StoppedForAReason
  <2> QED  BY <2>1, <2>2, <2>3 DEF JobInv
<1> QED  BY <1>1, <1>2, <1>3, <1>4, <1>5 DEF J!ChildSteps

\* The shell's own steps leave a child that has stopped alone, but for waitpid.
LEMMA ShellGoesRound ==
    ASSUME JobInv, NEW s, Traits(s), J!Leaves \/ J!Forks(s) \/ J!ParentSetsGroup \/ J!Waits
    PROVE  JobInv'
<1>1. CASE J!Leaves
  <2> USE <1>1 DEF J!Leaves
  <2>1. JobTypes'
    BY DEF JobInv, JobTypes
  <2>2. Owner'
    BY DEF JobInv, Owner
  <2>3. J!StoppedForAReason'
    BY DEF JobInv, J!StoppedForAReason
  <2> QED  BY <2>1, <2>2, <2>3 DEF JobInv
<1>2. CASE J!Forks(s)
  <2> USE <1>2 DEF J!Forks
  <2>1. JobTypes'
    <3> own' \in BOOLEAN /\ ttou' \in BOOLEAN
      BY Zenon DEF JobInv, JobTypes
    <3> QED  BY DEF JobInv, JobTypes
  <2>2. Owner'
    BY DEF JobInv, Owner
  <2>3. J!StoppedForAReason'
    BY DEF JobInv, JobTypes, Owner, J!StoppedForAReason
  <2> QED  BY <2>1, <2>2, <2>3 DEF JobInv
<1>3. CASE J!ParentSetsGroup
  <2> USE <1>3 DEF J!ParentSetsGroup
  <2>1. JobTypes'
    <3> own' \in BOOLEAN /\ ttou' \in BOOLEAN
      BY Zenon DEF JobInv, JobTypes
    <3> QED  BY DEF JobInv, JobTypes
  <2>2. Owner'
    BY DEF JobInv, Owner
  <2>3. J!StoppedForAReason'
    BY DEF JobInv, JobTypes, J!StoppedForAReason
  <2> QED  BY <2>1, <2>2, <2>3 DEF JobInv
<1>4. CASE J!Waits
  <2> USE <1>4 DEF J!Waits
  <2>1. JobTypes'
    BY DEF JobInv, JobTypes
  <2>2. Owner'
    BY DEF JobInv, Owner
  <2>3. J!StoppedForAReason'
    BY DEF JobInv, JobTypes, J!StoppedForAReason
  <2> QED  BY <2>1, <2>2, <2>3 DEF JobInv
<1> QED  BY <1>1, <1>2, <1>3, <1>4

\* tcsetpgrp is called with SIGTTOU ignored: it never stops the shell.
LEMMA NeverSuspended ==
    ASSUME JobInv, NEW from, NEW group, NEW to, J!SetForeground(from, group, to), ttou = TRUE
    PROVE  shell = from /\ shell' = to /\ fg' = group
BY DEF J!SetForeground

\* The terminal goes to the child's group and back.
LEMMA Switches ==
    ASSUME JobInv, NEW s, Traits(s), J!Gives(s) \/ J!Takes(s)
    PROVE  JobInv'
<1>1. PICK from, mid, group, to :
         /\ J!SwitchIgnoring(s, from, mid, group, to)
         /\ \/ from = "give" /\ mid = "given" /\ group = "child" /\ to = "wait"
            \/ from = "take" /\ mid = "taken" /\ group = "shell" /\ to = "prompt"
  BY DEF J!Gives, J!Takes
<1>2. UNCHANGED <<kind, child, own, left, tstp>>
  BY <1>1 DEF J!SwitchIgnoring, J!SetForeground
<1>3. own' \in BOOLEAN
  BY <1>2, Zenon DEF JobInv, JobTypes
<1>4. J!StoppedForAReason'
  BY <1>2 DEF JobInv, J!StoppedForAReason
<1>5. CASE kind # "sk"
  <2>1. s.ttou = "always" /\ ttou = TRUE
    BY <1>5 DEF Traits, JobInv, Owner
  <2>2. J!SetForeground(from, group, to) /\ ttou' = TRUE
    BY <1>1, <2>1 DEF J!SwitchIgnoring
  <2>3. shell = from /\ shell' = to /\ fg' = group
    BY <2>1, <2>2, NeverSuspended
  <2>4. JobTypes'
    BY <1>1, <1>2, <1>3, <2>2, <2>3 DEF JobInv, JobTypes
  <2>5. Owner'
    BY <1>1, <1>2, <1>5, <2>2, <2>3 DEF JobInv, Owner
  <2> QED  BY <1>4, <2>4, <2>5 DEF JobInv
<1>6. CASE kind = "sk"
  <2>1. s.ttou # "always"
    BY <1>6 DEF Traits
  <2>2. CASE shell = from /\ shell' = from /\ fg' = fg /\ ttou' = TRUE
    <3>1. JobTypes'
      BY <1>2, <1>3, <2>2 DEF JobInv, JobTypes
    <3>2. Owner'
      BY <1>1, <1>2, <1>6, <2>2 DEF JobInv, Owner
    <3> QED  BY <1>4, <3>1, <3>2 DEF JobInv
  <2>3. CASE ttou = TRUE /\ J!SetForeground(from, group, mid) /\ ttou' = TRUE
    <3>1. shell = from /\ shell' = mid /\ fg' = group
      BY <2>3, NeverSuspended
    <3>2. JobTypes'
      BY <1>1, <1>2, <1>3, <2>3, <3>1 DEF JobInv, JobTypes
    <3>3. Owner'
      BY <1>1, <1>2, <1>6, <2>3, <3>1 DEF JobInv, Owner
    <3> QED  BY <1>4, <3>2, <3>3 DEF JobInv
  <2>4. CASE shell = mid /\ shell' = to /\ ttou' = FALSE /\ fg' = fg
    <3>1. JobTypes'
      BY <1>1, <1>2, <1>3, <2>4 DEF JobInv, JobTypes
    <3>2. Owner'
      BY <1>1, <1>2, <1>6, <2>4 DEF JobInv, Owner
    <3> QED  BY <1>4, <3>1, <3>2 DEF JobInv
  <2>5. \/ shell = from /\ shell' = from /\ fg' = fg /\ ttou' = TRUE
        \/ ttou = TRUE /\ J!SetForeground(from, group, mid) /\ ttou' = TRUE
        \/ shell = mid /\ shell' = to /\ ttou' = FALSE /\ fg' = fg
    <3>1. ttou \in BOOLEAN
      BY Zenon DEF JobInv, JobTypes
    <3> QED  BY <1>1, <2>1, <3>1 DEF J!SwitchIgnoring
  <2> QED  BY <2>2, <2>3, <2>4, <2>5
<1> QED  BY <1>5, <1>6

\* A key reaches the shell only while the terminal is its own, and there it is deaf to all
\* three, the adv shell excepted.
LEMMA KeysDoNoHarm ==
    ASSUME JobInv, NEW s, Traits(s), NEW sig \in Keyboard, J!Key(s, sig)
    PROVE  JobInv'
<1>1. UNCHANGED <<kind, own, fg, ttou, left>>
  BY DEF J!Key
<1>2. /\ own' \in BOOLEAN /\ ttou' \in BOOLEAN
  BY <1>1, Zenon DEF JobInv, JobTypes
<1>3. shell' = shell \/ (shell' = "dead" /\ kind = "adv")
  BY DEF J!Key, Traits
<1>4. child' = child \/ child' \in J!ChildAfter(s, sig)
  BY DEF J!Key
<1>5. \/ child' = child
      \/ child \in {"forked", "default", "runs"} /\ child' \in {"runs", "zombie"}
      \/ /\ child \in {"forked", "default", "runs"} /\ child' = "stopped"
         /\ kind # "adv"
  BY <1>4 DEF J!ChildAfter, JobInv, JobTypes, Traits
<1>6. tstp' = tstp + (IF child' = "stopped" /\ child # "stopped" THEN 1 ELSE 0)
  BY DEF J!Key
<1>7. JobTypes'
  BY <1>1, <1>2, <1>3, <1>5, <1>6 DEF JobInv, JobTypes
<1>8. Owner'
  BY <1>1, <1>3, <1>5 DEF JobInv, Owner
<1>9. J!StoppedForAReason'
  BY <1>1, <1>5, <1>6 DEF JobInv, JobTypes, J!StoppedForAReason
<1> QED  BY <1>7, <1>8, <1>9 DEF JobInv

\* The invariant is inductive, for each of the four shells by its traits.
LEMMA JobStep ==
    ASSUME JobInv, J!Next \/ UNCHANGED J!vars PROVE JobInv'
<1>1. ASSUME NEW s, Traits(s), J!Steps(s) PROVE JobInv'
  <2>1. CASE J!ChildSteps \/ J!ProgramEnds \/ J!ProgramReads(s)
    BY <1>1, <2>1, ChildGoesOn
  <2>2. CASE J!Leaves \/ J!Forks(s) \/ J!ParentSetsGroup \/ J!Waits
    BY <1>1, <2>2, ShellGoesRound
  <2>3. CASE J!Gives(s) \/ J!Takes(s)
    BY <1>1, <2>3, Switches
  <2>4. CASE \E sig \in Keyboard : J!Key(s, sig)
    BY <1>1, <2>4, KeysDoNoHarm
  <2> QED  BY <1>1, <2>1, <2>2, <2>3, <2>4 DEF J!Steps, J!ShellSteps, Keyboard
<1>2. CASE J!SkNext
  <2> Traits(J!sk)
    BY <1>2 DEF Traits, J!SkNext, J!sk, Keyboard
  <2> QED  BY <1>1, <1>2 DEF J!SkNext
<1>3. CASE J!AdvNext
  <2> Traits(J!adv)
    BY <1>3 DEF Traits, J!AdvNext, J!adv, Keyboard
  <2> QED  BY <1>1, <1>3 DEF J!AdvNext
<1>4. CASE J!ModeNext
  <2> Traits(J!mode)
    BY <1>4 DEF Traits, J!ModeNext, J!mode, Keyboard
  <2> QED  BY <1>1, <1>4 DEF J!ModeNext
<1>5. CASE J!GameNext
  <2> Traits(J!game)
    BY <1>5 DEF Traits, J!GameNext, J!game, J!mode, Keyboard
  <2> QED  BY <1>1, <1>5 DEF J!GameNext
<1>6. CASE UNCHANGED J!vars
  <2>1. JobTypes'
    <3> own' \in BOOLEAN /\ ttou' \in BOOLEAN
      BY <1>6, Zenon DEF JobInv, JobTypes, J!vars
    <3> QED  BY <1>6 DEF JobInv, JobTypes, J!vars
  <2>2. Owner' /\ J!StoppedForAReason'
    BY <1>6 DEF JobInv, Owner, J!StoppedForAReason, J!vars
  <2> QED  BY <2>1, <2>2 DEF JobInv
<1> QED  BY <1>2, <1>3, <1>4, <1>5, <1>6 DEF J!Next

JobHolds == program = "job" => JobInv

\* The steps of the other programs leave the shells out.
LEMMA TerminalInvariance == Spec => []JobHolds
<1>1. Init => JobHolds
  BY JobBegins DEF Init, JobHolds
<1>2. JobHolds /\ [Next]_vars => JobHolds'
  <2> SUFFICES ASSUME JobHolds, [Next]_vars, program' = "job" PROVE JobInv'
    BY DEF JobHolds
  <2>1. program = "job" /\ JobInv
    BY DEF Next, vars, JobHolds
  <2>2. J!Next \/ UNCHANGED J!vars
    BY <2>1 DEF Next, vars, jobOnly, J!vars
  <2> QED  BY <2>1, <2>2, JobStep
<1> QED  BY <1>1, <1>2, PTL DEF Spec

\* Whatever keys are pressed at whatever moment, however shell and child overtake each other: a
\* shell that prompts has the terminal, none is ever stopped by taking it back, and only
\* mini_shell_adv.c dies of a key. What is stopped was stopped by Ctrl-Z, but under
\* mini_shell_sk.c also by reading the terminal before it was given it; nothing stops under
\* mini_shell_adv.c.
THEOREM TerminalStaysKept == Spec => []TerminalKept
<1>1. JobHolds => TerminalKept
  <2> SUFFICES ASSUME JobInv PROVE J!TerminalKept /\ J!StoppedForAReason
    BY DEF JobHolds, TerminalKept
  <2>1. shell = "prompt" => fg = "shell" /\ child = "none"
    BY DEF JobInv, Owner
  <2>2. shell = "prompt" /\ kind = "sk" => ~ttou
    BY DEF JobInv, Owner
  <2>3. shell # "suspended" /\ (shell = "dead" => kind = "adv")
    BY DEF JobInv, JobTypes, Owner
  <2>4. J!StoppedForAReason
    BY DEF JobInv
  <2> QED  BY <2>1, <2>2, <2>3, <2>4 DEF J!TerminalKept
<1> QED  BY <1>1, TerminalInvariance, PTL

-----------------------------------------------------------------------------
(* The daemon.                                                              *)

\* Who is where, of which session, and ignores SIGHUP.
DaemonTypes ==
    /\ process \in [D!Processes -> {"none", "fork", "setsid", "sigaction", "exit", "chdir", "loop",
                                    "asks", "gone", "killed"}]
    /\ session \in [D!Processes -> {"terminal", "own"}]
    /\ ignores \subseteq D!Processes
    /\ entries \in Nat /\ rounds \in Nat

\* A process is only made by one that has got that far, and inherits what it has by then.
Lineage ==
    /\ process["starter"] = "fork" => process["leader"] = "none"
    /\ process["leader"] \in {"none", "setsid", "sigaction", "fork"} => process["daemon"] = "none"
    /\ process["leader"] \in {"none", "setsid", "sigaction", "fork", "exit", "gone", "killed"}
    /\ process["leader"] \in {"sigaction", "fork"} => session["leader"] = "own"
    /\ process["leader"] = "fork" => "leader" \in ignores
    /\ process["daemon"] # "none" => "daemon" \in ignores
    /\ process["daemon"] \in {"none", "chdir", "loop", "asks", "gone"}

\* A round is counted before its entry.
Counted == entries + (IF process["daemon"] = "asks" THEN 1 ELSE 0) <= rounds

DaemonInv == DaemonTypes /\ Lineage /\ Counted /\ D!DaemonStays

\* The three processes are three.
LEMMA ThreeProcesses ==
    /\ "starter" \in D!Processes /\ "leader" \in D!Processes /\ "daemon" \in D!Processes
    /\ "starter" # "leader" /\ "leader" # "daemon" /\ "starter" # "daemon"
BY DEF D!Processes

\* Only the starter runs.
LEMMA DaemonBegins == D!DaemonInit => DaemonInv
<1> SUFFICES ASSUME D!DaemonInit PROVE DaemonInv
  OBVIOUS
<1> USE ThreeProcesses DEF D!DaemonInit
<1>1. /\ process["starter"] = "fork" /\ process["leader"] = "none" /\ process["daemon"] = "none"
      /\ DaemonTypes
  BY DEF DaemonTypes
<1> QED  BY <1>1 DEF DaemonInv, Lineage, Counted, D!DaemonStays

\* The forks.
LEMMA ForksKeep ==
    ASSUME DaemonInv,
           D!Forks("starter", "leader", "setsid") \/ D!Forks("leader", "daemon", "chdir")
    PROVE  DaemonInv'
<1> USE ThreeProcesses DEF DaemonInv, DaemonTypes, D!Forks
<1>1. CASE D!Forks("starter", "leader", "setsid")
  <2>1. DaemonTypes'
    BY <1>1
  <2>2. Lineage'
    BY <1>1 DEF Lineage
  <2>3. Counted' /\ D!DaemonStays'
    BY <1>1 DEF Lineage, Counted, D!DaemonStays
  <2> QED  BY <2>1, <2>2, <2>3
<1>2. CASE D!Forks("leader", "daemon", "chdir")
  <2>1. DaemonTypes'
    BY <1>2
  <2>2. Lineage'
    BY <1>2 DEF Lineage
  <2>3. Counted' /\ D!DaemonStays'
    BY <1>2 DEF Lineage, Counted, D!DaemonStays
  <2> QED  BY <2>1, <2>2, <2>3
<1> QED  BY <1>1, <1>2

\* What each process does alone, and the signal.
LEMMA AloneKeeps ==
    ASSUME DaemonInv,
           \/ D!Exits("starter") \/ D!Exits("leader") \/ D!SetSid \/ D!IgnoresHup
           \/ D!Settles \/ D!Opens \/ D!Writes \/ \E p \in D!Processes : D!Hup(p)
    PROVE  DaemonInv'
<1> USE ThreeProcesses DEF DaemonInv, DaemonTypes
<1>1. ASSUME NEW p \in {"starter", "leader"}, D!Exits(p) PROVE DaemonInv'
  <2>1. DaemonTypes'
    BY <1>1 DEF D!Exits
  <2>2. Lineage'
    BY <1>1 DEF Lineage, D!Exits
  <2>3. Counted' /\ D!DaemonStays'
    BY <1>1 DEF Lineage, Counted, D!DaemonStays, D!Exits
  <2> QED  BY <2>1, <2>2, <2>3
<1>2. CASE D!SetSid \/ D!IgnoresHup
  <2> USE DEF D!SetSid, D!IgnoresHup
  <2>1. DaemonTypes'
    BY <1>2
  <2>2. Lineage'
    BY <1>2 DEF Lineage
  <2>3. Counted' /\ D!DaemonStays'
    BY <1>2 DEF Lineage, Counted, D!DaemonStays
  <2> QED  BY <2>1, <2>2, <2>3
<1>3. CASE D!Settles \/ D!Opens \/ D!Writes
  <2> USE DEF D!Settles, D!Opens, D!Writes
  <2>1. DaemonTypes'
    BY <1>3
  <2>2. Lineage'
    BY <1>3 DEF Lineage
  <2>3. Counted'
    BY <1>3 DEF Counted
  <2>4. D!DaemonStays'
    BY <1>3, <2>3 DEF Counted, D!DaemonStays
  <2> QED  BY <2>1, <2>2, <2>3, <2>4
<1>4. ASSUME NEW p \in D!Processes, D!Hup(p) PROVE DaemonInv'
  <2>1. p # "daemon"
    BY <1>4 DEF D!Hup, Lineage
  <2>2. DaemonTypes' /\ process'["daemon"] = process["daemon"]
    BY <1>4, <2>1 DEF D!Hup
  <2>3. Lineage'
    BY <1>4, <2>1 DEF Lineage, D!Hup
  <2>4. Counted' /\ D!DaemonStays'
    BY <1>4, <2>2 DEF Counted, D!DaemonStays, D!Hup
  <2> QED  BY <2>2, <2>3, <2>4
<1> QED  BY <1>1, <1>2, <1>3, <1>4

DaemonHolds == program = "daemon" => DaemonInv

\* Whichever of the three processes ends first, and whenever a SIGHUP comes.
LEMMA DaemonInvariance == Spec => []DaemonHolds
<1>1. Init => DaemonHolds
  BY DaemonBegins DEF Init, DaemonHolds
<1>2. DaemonHolds /\ [Next]_vars => DaemonHolds'
  <2> SUFFICES ASSUME DaemonHolds, [Next]_vars, program' = "daemon" PROVE DaemonInv'
    BY DEF DaemonHolds
  <2>1. program = "daemon" /\ DaemonInv
    BY DEF Next, vars, DaemonHolds
  <2>2. D!DaemonNext \/ UNCHANGED daemonOnly
    BY <2>1 DEF Next, vars
  <2>3. CASE D!DaemonNext
    BY <2>1, <2>3, ForksKeep, AloneKeeps DEF D!DaemonNext, D!DaemonSteps
  <2>4. CASE UNCHANGED daemonOnly
    BY <2>1, <2>4
    DEF daemonOnly, DaemonInv, DaemonTypes, Lineage, Counted, D!DaemonStays
  <2> QED  BY <2>2, <2>3, <2>4
<1> QED  BY <1>1, <1>2, PTL DEF Spec

-----------------------------------------------------------------------------
(* The test of the helper.                                                  *)

TestStates == {"write", "post", "poll", "print", "late", "exit", "waitpid", "done"}

\* The one token there is: in a semaphore, or with the helper that took it.
Busy == IF helper \in {"reading", "thinking", "writing", "posting"} THEN 1 ELSE 0
Tokens == to_ai + Busy + to_parent

\* Until the test gives up or has its answer, "hello" is all there is to hear and to answer.
Answering ==
    /\ prompt = IF test = "write" THEN 0 ELSE 1
    /\ Tokens = IF test = "poll" THEN 1 ELSE 0
    /\ helper \in {"thinking", "writing"} => heard = 1
    /\ helper = "posting" => response = 1
    /\ to_parent > 0 => response = 1

TestInv ==
    /\ T!ChannelTypeOK /\ test \in TestStates /\ reaped \in BOOLEAN
    /\ test \in {"write", "post", "poll"} => Answering
    /\ helper \in {"thinking", "writing"} => heard # Exit
    /\ reaped => helper = "gone"
    /\ test = "print" => Tokens = 0
    /\ T!AnswerReported

\* The memory is new.
LEMMA TestBegins == T!TestInit => TestInv
<1> SUFFICES ASSUME T!TestInit PROVE TestInv
  OBVIOUS
<1>1. /\ prompt = 0 /\ response = 0 /\ to_ai = 0 /\ to_parent = 0
      /\ helper = "starting" /\ heard = 0 /\ test = "write" /\ reaped = FALSE
  BY DEF T!TestInit, T!NewHelper
<1>2. T!ChannelTypeOK
  BY <1>1 DEF T!ChannelTypeOK, T!Texts
<1>3. Answering
  BY <1>1 DEF Answering, Tokens, Busy
<1> QED  BY <1>1, <1>2, <1>3 DEF TestInv, TestStates, T!AnswerReported

\* A step of the helper moves the token on, and gives it back with the answer.
LEMMA HelperKeeps ==
    ASSUME TestInv, T!HelperStep, UNCHANGED <<test, reaped>>
    PROVE  TestInv'
<1> USE DEF T!shm, T!channel, T!HelperStep, T!HelperOpens, T!HelperFails, T!HelperWakes,
            T!HelperReads, T!AnswerBegins, T!AnswerEnds, T!HelperPosts
<1>1. T!ChannelTypeOK'
  BY DEF TestInv, T!ChannelTypeOK, T!Texts
<1>6. helper' \in {"thinking", "writing"} => heard' # Exit
  BY DEF TestInv
<1>2. test' \in TestStates /\ reaped' \in BOOLEAN /\ helper # "gone"
  BY DEF TestInv
<1>3. ASSUME test \in {"write", "post", "poll"} PROVE Answering'
  <2>1. Answering /\ T!ChannelTypeOK
    BY <1>3 DEF TestInv
  <2>2. prompt # Exit
    BY <1>3, <2>1, TextsDiffer DEF Answering
  <2>3. Tokens' = Tokens
    BY <2>1, <2>2 DEF Tokens, Busy, T!ChannelTypeOK
  <2>4. to_ai \in Nat /\ to_parent \in Nat /\ to_ai' \in Nat /\ to_parent' \in Nat
    BY <1>1 DEF TestInv, T!ChannelTypeOK
  <2>5. helper \in {"reading", "thinking", "writing"} => to_parent = 0
    BY <1>3, <2>1, <2>4 DEF Answering, Tokens, Busy
  <2>6. helper \in {"waiting"} /\ to_ai > 0 => to_parent = 0
    BY <1>3, <2>1, <2>4 DEF Answering, Tokens, Busy
  <2>7. test = "write" => Tokens = 0
    BY <2>1 DEF Answering
  <2>8. helper \in {"reading", "thinking", "writing"} => test = "poll"
    BY <1>3, <2>1, <2>4 DEF Answering, Tokens, Busy
  <2> QED
    BY <1>3, <2>1, <2>2, <2>3, <2>4, <2>5, <2>6, <2>8 DEF Answering
<1>4. ASSUME test = "print" PROVE Tokens' = 0 /\ response' = response
  <2>1. Tokens = 0 /\ to_ai \in Nat /\ to_parent \in Nat
    BY <1>4 DEF TestInv, T!ChannelTypeOK
  <2>2. to_ai = 0 /\ to_parent = 0 /\ Busy = 0
    BY <2>1 DEF Tokens, Busy
  <2> QED  BY <2>2 DEF Tokens, Busy
<1>5. T!AnswerReported'
  BY <1>2, <1>4 DEF TestInv, T!AnswerReported
<1> QED
  BY <1>1, <1>2, <1>3, <1>4, <1>5, <1>6 DEF TestInv

\* The test's own steps.
LEMMA TestKeeps == ASSUME TestInv, T!TestStep PROVE TestInv'
<1>0. /\ to_ai \in Nat /\ to_parent \in Nat /\ 0 \in T!Texts /\ 1 \in T!Texts
      /\ Exit \in T!Texts /\ TornText \in T!Texts /\ T!ChannelTypeOK
  BY DEF TestInv, T!ChannelTypeOK, T!Texts
<1>1. CASE T!Hello
  <2> USE <1>1 DEF T!Hello, T!helperVars, T!shm
  <2>1. T!ChannelTypeOK'
    BY <1>0 DEF T!ChannelTypeOK
  <2>2. Answering'
    BY <1>0 DEF TestInv, Answering, Tokens, Busy
  <2> QED  BY <2>1, <2>2 DEF TestInv, TestStates, T!AnswerReported
<1>2. CASE T!Poll
  <2> USE <1>2 DEF T!Poll, T!helperVars, T!shm
  <2>1. T!ChannelTypeOK'
    BY <1>0 DEF T!ChannelTypeOK
  <2>2. ASSUME test' = "print" PROVE Tokens' = 0 /\ response' = 1
    BY <1>0, <2>2 DEF TestInv, Answering, Tokens, Busy
  <2> QED  BY <2>1, <2>2 DEF TestInv, TestStates, T!AnswerReported
<1>3. CASE T!Leave
  <2> USE <1>3 DEF T!Leave, T!helperVars, T!WriteBegins
  <2>1. T!ChannelTypeOK'
    BY <1>0 DEF T!ChannelTypeOK
  <2>2. reaped' = (test = "late" /\ helper = "gone") /\ reaped' \in BOOLEAN
    BY Zenon
  <2> QED  BY <2>1, <2>2 DEF TestInv, TestStates, T!AnswerReported
<1>4. CASE T!SendsExit
  <2> USE <1>4 DEF T!SendsExit, T!helperVars
  <2>1. T!ChannelTypeOK'
    BY <1>0 DEF T!ChannelTypeOK
  <2> QED  BY <2>1 DEF TestInv, TestStates, T!AnswerReported
<1>5. CASE T!Ends
  <2> USE <1>5 DEF T!Ends, T!channel, T!shm, T!helperVars
  <2>1. helper = "gone" /\ helper' = helper
    BY DEF TestInv
  <2>2. T!ChannelTypeOK'
    BY <1>0 DEF T!ChannelTypeOK
  <2> QED  BY <2>1, <2>2 DEF TestInv, TestStates, T!AnswerReported
<1> QED  BY <1>1, <1>2, <1>3, <1>4, <1>5 DEF T!TestStep

TestHolds == program = "test" => TestInv

\* Whatever the helper does, fails or leaves undone.
LEMMA TestInvariance == Spec => []TestHolds
<1>1. Init => TestHolds
  BY TestBegins DEF Init, TestHolds
<1>2. TestHolds /\ [Next]_vars => TestHolds'
  <2> SUFFICES ASSUME TestHolds, [Next]_vars, program' = "test" PROVE TestInv'
    BY DEF TestHolds
  <2>1. program = "test" /\ TestInv
    BY DEF Next, vars, TestHolds
  <2>2. T!TestNext \/ UNCHANGED <<helper, testOnly>>
    BY <2>1 DEF Next, vars
  <2>3. CASE T!TestNext
    BY <2>1, <2>3, HelperKeeps, TestKeeps DEF T!TestNext, T!testVars
  <2>4. CASE UNCHANGED <<helper, testOnly>>
    <3> USE <2>4 DEF testOnly
    <3>1. T!ChannelTypeOK' /\ (Answering <=> Answering') /\ Tokens' = Tokens
      BY <2>1 DEF TestInv, T!ChannelTypeOK, Answering, Tokens, Busy
    <3> QED  BY <2>1, <3>1 DEF TestInv, T!AnswerReported
  <2> QED  BY <2>2, <2>3, <2>4
<1> QED  BY <1>1, <1>2, PTL DEF Spec

-----------------------------------------------------------------------------
(* The login.                                                               *)

Lines ==
    {x \in [name : Names \cup {Before, L!NoColon, L!Another}, open : BOOLEAN,
            hash : Passwords \cup {L!Torn, L!Spoilt},
            named : Names \cup {Odd, ""}, pass : Passwords \cup {""}, looked : Nat] :
       x.hash \in {x.pass, L!Torn, L!Spoilt}}

\* Line i of s is the first of the name n.
FirstOf(s, i, n) ==
    /\ i \in 1..Len(s) /\ s[i].name = n
    /\ \A j \in 1..(i - 1) : s[j].name # n

\* Line y shows the name that was typed for it.
Shown(y) == y.name = y.named

\* A line keeps what is read in it and what was typed for it, but for a hash that is spoilt, and
\* but for the last one when it has no colon, which can get a name that was not typed.
Grown(s, t) ==
    /\ Len(s) <= Len(t)
    /\ \A i \in 1..Len(s) :
         \/ /\ t[i].name = s[i].name /\ t[i].named = s[i].named
            /\ t[i].pass = s[i].pass /\ t[i].looked = s[i].looked
         \/ s[i].name = L!NoColon /\ i = Len(s) /\ ~Shown(t[i])

\* What a person at a knows of the file s: n and w were typed, the hash u was found when the
\* file had k lines.
Knows(s, a, n, w, u, k) ==
    /\ a \in {"ask", "save", "check", "shell"} /\ k \in 0..Len(s)
    /\ a # "ask" => n \in Names \cup {Odd} /\ w \in Passwords
    /\ a = "save" => \A i \in 1..Len(s) : i <= k => ~(s[i].name = n /\ Shown(s[i]))
    /\ a \in {"check", "shell"} =>
         \E i \in 1..Len(s) : FirstOf(s, i, n) /\ u \in {s[i].pass, L!Torn, L!Spoilt}
    /\ a = "shell" => w = u

\* A name is there twice only if the second was looked up before the first was written.
Twice(s) ==
    \A i, j \in 1..Len(s) :
        i < j /\ s[i].name = s[j].name /\ Shown(s[i]) /\ Shown(s[j]) => s[j].looked < i

Domains ==
    /\ at = [p \in People |-> at[p]] /\ name = [p \in People |-> name[p]]
    /\ password = [p \in People |-> password[p]] /\ seen = [p \in People |-> seen[p]]
    /\ login_attempts = [p \in People |-> login_attempts[p]]
    /\ looked = [p \in People |-> looked[p]]

LoginInv ==
    /\ Domains /\ file \in Seq(Lines) /\ Twice(file)
    /\ \A p \in People : Knows(file, at[p], name[p], password[p], seen[p], looked[p])

\* A set of numbers has a least one.
LEMMA LeastOne ==
    ASSUME NEW M, M \subseteq Nat, M # {} PROVE \E i \in M : \A j \in M : i <= j
<1>1. PICK i \in M : \A j \in M : <<j, i>> \notin OpToRel(<, Nat)
  BY NatLessThanWellFounded, WFMin
<1>2. ASSUME NEW j \in M PROVE i <= j
  <2>1. ~(j < i)
    <3>1. <<j, i>> \in Nat \X Nat /\ <<j, i>>[1] = j /\ <<j, i>>[2] = i
      OBVIOUS
    <3> QED  BY <1>1, <3>1 DEF OpToRel
  <2>2. i \in Nat /\ j \in Nat
    OBVIOUS
  <2> QED  BY <2>1, <2>2
<1> QED  BY <1>2

\* The names that are typed are none of those that a line gets when it is cut.
LEMMA NamesDiffer ==
    /\ L!NoColon \notin Names \cup {Odd, Before, ""} /\ L!Another \notin Names \cup {Odd, Before, ""}
    /\ L!NoColon # L!Another /\ Odd \notin Names /\ Odd # Before
    /\ L!None \notin Passwords \cup {L!Torn, L!Spoilt}
    /\ Passwords \cap {L!Torn, L!Spoilt} = {}
BY LoginOK DEF L!NoColon, L!Another, L!None, L!Torn, L!Spoilt

\* The parts of a line.
LEMMA LineParts ==
    ASSUME NEW x \in Lines
    PROVE  /\ x.name \in Names \cup {Before, L!NoColon, L!Another} /\ x.open \in BOOLEAN
           /\ x.hash \in Passwords \cup {L!Torn, L!Spoilt}
           /\ x.hash \in {x.pass, L!Torn, L!Spoilt}
           /\ x.named \in Names \cup {Odd, ""} /\ x.pass \in Passwords \cup {""}
           /\ x.looked \in Nat
           /\ x = [name |-> x.name, open |-> x.open, hash |-> x.hash, named |-> x.named,
                   pass |-> x.pass, looked |-> x.looked]
BY DEF Lines

\* A line of parts.
LEMMA LineOf ==
    ASSUME NEW n \in Names \cup {Before, L!NoColon, L!Another}, NEW o \in BOOLEAN,
           NEW h \in Passwords \cup {L!Torn, L!Spoilt}, NEW d \in Names \cup {Odd, ""},
           NEW w \in Passwords \cup {""}, NEW k \in Nat, h \in {w, L!Torn, L!Spoilt}
    PROVE  [name |-> n, open |-> o, hash |-> h, named |-> d, pass |-> w, looked |-> k] \in Lines
BY DEF Lines

\* getusrent finds the first line of the name, or that there is none.
LEMMA LookedUp ==
    ASSUME file \in Seq(Lines), NEW n
    PROVE  \/ L!getusrent(n) = L!None /\ \A i \in 1..Len(file) : file[i].name # n
           \/ \E i \in 1..Len(file) : /\ FirstOf(file, i, n) /\ L!getusrent(n) = file[i].hash
                                      /\ L!getusrent(n) # L!None
<1> DEFINE mine == {i \in 1..Len(file) : file[i].name = n}
<1>1. CASE mine = {}
  BY <1>1 DEF L!getusrent
<1>2. CASE mine # {}
  <2>1. PICK k \in mine : \A j \in mine : k <= j
    <3> mine \subseteq Nat
      OBVIOUS
    <3> QED  BY <1>2, LeastOne
  <2>2. L!First(k, n)
    <3>1. ASSUME NEW j \in 1..(k - 1) PROVE file[j].name # n
      <4>1. j \in 1..Len(file) /\ ~(k <= j)
        BY <2>1
      <4> QED  BY <2>1, <4>1
    <3> QED  BY <2>1, <3>1 DEF L!First
  <2> DEFINE i == CHOOSE i \in 1..Len(file) : L!First(i, n)
  <2>3. i \in 1..Len(file) /\ L!First(i, n)
    BY <2>1, <2>2
  <2>4. L!getusrent(n) = file[i].hash
    BY <1>2 DEF L!getusrent
  <2> HIDE DEF i
  <2>5. FirstOf(file, i, n)
    BY <2>3 DEF FirstOf, L!First
  <2>6. file[i].hash # L!None
    <3>1. file[i] \in Lines
      BY <2>3
    <3> QED  BY <3>1, LineParts, NamesDiffer
  <2> QED  BY <2>3, <2>4, <2>5, <2>6
<1> QED  BY <1>1, <1>2

\* What somebody knows of a file stays so when it grows.
LEMMA KnownStays ==
    ASSUME NEW s \in Seq(Lines), NEW t \in Seq(Lines), Grown(s, t),
           NEW a, NEW n, NEW w, NEW u, NEW k, Knows(s, a, n, w, u, k)
    PROVE  Knows(t, a, n, w, u, k)
<1>1. Len(s) \in Nat /\ Len(t) \in Nat /\ Len(s) <= Len(t)
  BY DEF Grown
<1>2. k \in 0..Len(t)
  BY <1>1 DEF Knows
<1>3. ASSUME a = "save", NEW i \in 1..Len(t), i <= k PROVE ~(t[i].name = n /\ Shown(t[i]))
  <2> k \in 0..Len(s)
    BY DEF Knows
  <2> i \in 1..Len(s)
    BY <1>1, <1>3
  <2>1. ~(s[i].name = n /\ Shown(s[i]))
    BY <1>3 DEF Knows
  <2> QED  BY <2>1 DEF Grown, Shown
<1>4. ASSUME a \in {"check", "shell"}
      PROVE  \E i \in 1..Len(t) : FirstOf(t, i, n) /\ u \in {t[i].pass, L!Torn, L!Spoilt}
  <2>1. PICK i \in 1..Len(s) : FirstOf(s, i, n) /\ u \in {s[i].pass, L!Torn, L!Spoilt}
    BY <1>4 DEF Knows
  <2>2. n \in Names \cup {Odd} /\ n # L!NoColon
    BY <1>4, NamesDiffer DEF Knows
  <2>3. t[i].name = n /\ t[i].pass = s[i].pass /\ i \in 1..Len(t)
    BY <1>1, <2>1, <2>2 DEF Grown, FirstOf
  <2>4. ASSUME NEW j \in 1..(i - 1) PROVE t[j].name # n
    <3>1. j \in 1..Len(s) /\ j # Len(s)
      BY <1>1, <2>1
    <3>2. t[j].name = s[j].name
      BY <3>1 DEF Grown
    <3> QED  BY <2>1, <3>2 DEF FirstOf
  <2> QED  BY <2>1, <2>3, <2>4 DEF FirstOf
<1> QED  BY <1>2, <1>3, <1>4 DEF Knows

\* Nobody has typed anything.
LEMMA LoginBegins == L!Init => LoginInv
<1> SUFFICES ASSUME L!Init PROVE LoginInv
  OBVIOUS
<1>1. file = <<>> /\ file \in Seq(Lines) /\ Len(<<>>) = 0
  BY EmptySeq DEF L!Init
<1>2. Domains
  BY DEF L!Init, Domains
<1>3. Twice(file)
  BY <1>1 DEF Twice
<1>4. ASSUME NEW p \in People
      PROVE  Knows(file, at[p], name[p], password[p], seen[p], looked[p])
  <2>1. at[p] = "ask" /\ looked[p] = 0
    BY DEF L!Init
  <2> QED  BY <1>1, <2>1 DEF Knows
<1> QED  BY <1>1, <1>2, <1>3, <1>4 DEF LoginInv

\* Nobody but p moves.
Alone(p) ==
    \A q \in People \ {p} :
        /\ at'[q] = at[q] /\ name'[q] = name[q] /\ password'[q] = password[q]
        /\ seen'[q] = seen[q] /\ looked'[q] = looked[q]

\* The others know what they knew.
LEMMA OnePerson ==
    ASSUME LoginInv, NEW p \in People, Domains', Alone(p),
           file' \in Seq(Lines), Grown(file, file'), Twice(file'),
           Knows(file', at'[p], name'[p], password'[p], seen'[p], looked'[p])
    PROVE  LoginInv'
<1>1. ASSUME NEW q \in People \ {p}
      PROVE  Knows(file', at'[q], name'[q], password'[q], seen'[q], looked'[q])
  <2>1. /\ at'[q] = at[q] /\ name'[q] = name[q] /\ password'[q] = password[q]
        /\ seen'[q] = seen[q] /\ looked'[q] = looked[q]
    BY DEF Alone
  <2>2. Knows(file, at[q], name[q], password[q], seen[q], looked[q])
    BY DEF LoginInv
  <2>3. Knows(file', at[q], name[q], password[q], seen[q], looked[q])
    BY <2>2, KnownStays DEF LoginInv
  <2> QED  BY <2>1, <2>3
<1> QED  BY <1>1 DEF LoginInv

\* A file that stays the same.
LEMMA SameFile ==
    ASSUME LoginInv, file' = file
    PROVE  file' \in Seq(Lines) /\ Grown(file, file') /\ Twice(file')
BY DEF LoginInv, Grown

\* Where the program begins, nothing is known.
LEMMA BackToAsk ==
    ASSUME NEW s \in Seq(Lines), NEW a, a = "ask", NEW n, NEW w, NEW u, NEW k, k = 0
    PROVE  Knows(s, a, n, w, u, k)
<1>1. Len(s) \in Nat
  OBVIOUS
<1> QED  BY <1>1 DEF Knows

\* A name and a password are typed and the file is looked through, or the input ends.
LEMMA AsksKeeps == ASSUME LoginInv, NEW p \in People, L!Asks(p) PROVE LoginInv'
<1>0. Domains
  BY DEF LoginInv
<1>1. file' = file /\ Len(file) \in Nat
  BY DEF LoginInv, L!Asks
<1>2. file' \in Seq(Lines) /\ Grown(file, file') /\ Twice(file')
  BY <1>1, SameFile
<1>3. CASE L!Exits(p)
  <2> USE <1>3 DEF L!Exits, L!Go, L!Forget
  <2>1. Domains' /\ Alone(p)
    BY <1>0 DEF Domains, Alone
  <2>2. at'[p] = "ask" /\ looked'[p] = 0
    BY <1>0 DEF Domains
  <2>3. Knows(file', at'[p], name'[p], password'[p], seen'[p], looked'[p])
    BY <1>2, <2>2, BackToAsk
  <2> QED  BY <1>2, <2>1, <2>3, OnePerson
<1>4. CASE ~L!Exits(p)
  <2> DEFINE u == L!getusrent(name'[p])
  <2>0. PICK n \in Names \cup {Odd}, w \in Passwords :
             name' = [name EXCEPT ![p] = n] /\ password' = [password EXCEPT ![p] = w]
    BY <1>4 DEF L!Asks
  <2>1. /\ seen' = [seen EXCEPT ![p] = u] /\ looked' = [looked EXCEPT ![p] = Len(file)]
        /\ at' = [at EXCEPT ![p] = IF seen'[p] = L!None THEN "save" ELSE "check"]
        /\ login_attempts' = login_attempts
    BY <1>4 DEF L!Asks, L!Go
  <2>2. Domains' /\ Alone(p)
    <3> HIDE DEF u
    <3> QED  BY <1>0, <2>0, <2>1 DEF Domains, Alone
  <2>3. /\ name'[p] = n /\ password'[p] = w /\ seen'[p] = u /\ looked'[p] = Len(file)
        /\ at'[p] = IF u = L!None THEN "save" ELSE "check"
    <3> HIDE DEF u
    <3> QED  BY <1>0, <2>0, <2>1 DEF Domains
  <2>4. \/ u = L!None /\ \A i \in 1..Len(file) : file[i].name # n
        \/ \E i \in 1..Len(file) : FirstOf(file, i, n) /\ u = file[i].hash /\ u # L!None
    BY <2>3, LookedUp DEF LoginInv
  <2>5. \A i \in 1..Len(file) : file[i].hash \in {file[i].pass, L!Torn, L!Spoilt}
    <3>1. \A i \in 1..Len(file) : file[i] \in Lines
      BY DEF LoginInv
    <3> QED  BY <3>1, LineParts
  <2> HIDE DEF u
  <2>6. Knows(file, at'[p], n, w, u, Len(file))
    BY <1>1, <2>3, <2>4, <2>5 DEF Knows
  <2>7. Knows(file', at'[p], name'[p], password'[p], seen'[p], looked'[p])
    BY <1>1, <2>3, <2>6
  <2> QED  BY <1>2, <2>2, <2>7, OnePerson
<1> QED  BY <1>3, <1>4

\* What a write leaves of a line: it, with less of its hash, or no name.
PieceOf(x, y) ==
    /\ y \in Lines
    /\ \/ y.name = x.name /\ y.named = x.named /\ y.pass = x.pass /\ y.looked = x.looked
       \/ y.name = L!NoColon /\ ~Shown(y)

LEMMA Cut == ASSUME NEW x \in Lines, NEW y \in L!Pieces(x) PROVE PieceOf(x, y)
<1> DEFINE begun == [x EXCEPT !.open = TRUE]
           torn == [begun EXCEPT !.hash = IF @ = L!Spoilt THEN @ ELSE L!Torn]
<1>1. PieceOf(x, x)
  BY DEF PieceOf
<1>2. PieceOf(x, begun)
  BY DEF PieceOf, Lines
<1>3. PieceOf(x, torn)
  BY DEF PieceOf, Lines
<1>4. PieceOf(x, L!Lost(L!NoColon, TRUE))
  BY NamesDiffer DEF PieceOf, Lines, L!Lost, Shown
<1> QED  BY <1>1, <1>2, <1>3, <1>4 DEF L!Pieces

\* What becomes of a line that another is written behind.
LEMMA Glued ==
    ASSUME NEW x \in Lines, x.named = Odd \/ x.name = x.named, NEW y, PieceOf(x, y),
           NEW last \in Lines, NEW z \in L!Joined(last, y)
    PROVE  /\ z \in Lines
           /\ \/ /\ z.name = last.name /\ z.named = last.named
                 /\ z.pass = last.pass /\ z.looked = last.looked
              \/ last.name = L!NoColon /\ ~Shown(z)
<1>1. CASE last.name # L!NoColon
  <2>1. z = [last EXCEPT !.hash = L!Spoilt, !.open = y.open]
    BY <1>1 DEF L!Joined
  <2>2. /\ last = [name |-> last.name, open |-> last.open, hash |-> last.hash,
                   named |-> last.named, pass |-> last.pass, looked |-> last.looked]
        /\ y.open \in BOOLEAN
    BY LineParts DEF PieceOf
  <2>3. z = [name |-> last.name, open |-> y.open, hash |-> L!Spoilt,
             named |-> last.named, pass |-> last.pass, looked |-> last.looked]
    BY <2>1, <2>2
  <2>4. z \in Lines
    BY <2>2, <2>3, LineParts, LineOf
  <2> QED  BY <2>3, <2>4
<1>2. CASE last.name = L!NoColon /\ y.name = L!NoColon
  <2>1. z = y /\ y \in Lines
    BY <1>2 DEF L!Joined, PieceOf
  <2>2. y.named \in Names \cup {Odd, ""}
    BY <2>1 DEF Lines
  <2> QED  BY <1>2, <2>1, <2>2, NamesDiffer DEF Shown
<1>3. CASE last.name = L!NoColon /\ y.name # L!NoColon
  <2>1. y \in Lines /\ y.name = x.name /\ y.named = x.named
    BY <1>3 DEF PieceOf
  <2>2. CASE z = L!Lost(L!Another, y.open)
    <3>1. y.open \in BOOLEAN
      BY <2>1 DEF Lines
    <3> QED  BY <1>3, <2>2, <3>1, NamesDiffer DEF L!Lost, Lines, Shown
  <2>3. ASSUME NEW n \in Names \ {y.name}, z = [y EXCEPT !.name = n]
        PROVE  z \in Lines /\ ~Shown(z)
    <3>1. z \in Lines /\ z.name = n /\ z.named = y.named
      BY <2>1, <2>3 DEF Lines
    <3>2. y.named = Odd \/ y.named = y.name
      BY <2>1
    <3> QED  BY <3>1, <3>2, NamesDiffer DEF Shown
  <2> QED  BY <1>3, <2>2, <2>3 DEF L!Joined
<1> QED  BY <1>1, <1>2, <1>3

\* What a write leaves of the file.
LEMMA AppendedKeeps ==
    ASSUME LoginInv, NEW x \in Lines, x.named = Odd \/ x.name = x.named, NEW t \in L!Appended(x),
           \A i \in 1..Len(file) : file[i].name = x.name /\ Shown(file[i]) /\ Shown(x) => x.looked < i
    PROVE  t \in Seq(Lines) /\ Grown(file, t) /\ Twice(t)
<1> USE DEF LoginInv
<1>1. CASE t = file
  BY <1>1 DEF Grown
<1>2. ASSUME file # <<>>, NEW y \in L!Pieces(x), NEW z \in L!Joined(file[Len(file)], y),
             t = [file EXCEPT ![Len(file)] = z]
      PROVE  t \in Seq(Lines) /\ Grown(file, t) /\ Twice(t)
  <2> DEFINE m == Len(file)
             last == file[m]
  <2>1. m \in 1..Len(file) /\ last \in Lines
    BY <1>2
  <2>2. PieceOf(x, y)
    BY <1>2, Cut
  <2>3. /\ z \in Lines
        /\ \/ /\ z.name = last.name /\ z.named = last.named
              /\ z.pass = last.pass /\ z.looked = last.looked
           \/ last.name = L!NoColon /\ ~Shown(z)
    BY <1>2, <2>1, <2>2, Glued
  <2>4. /\ t \in Seq(Lines) /\ Len(t) = m /\ t[m] = z
        /\ \A i \in 1..m : i # m => t[i] = file[i]
    BY <1>2, <2>1, <2>3
  <2> HIDE DEF m
  <2>5. Grown(file, t)
    BY <2>1, <2>3, <2>4 DEF Grown, m
  <2>6. ASSUME NEW i \in 1..m, NEW j \in 1..m, i < j, t[i].name = t[j].name,
               Shown(t[i]), Shown(t[j])
        PROVE  t[j].looked < i
    <3>1. \A k \in 1..m : Shown(t[k]) =>
             /\ Shown(file[k]) /\ t[k].name = file[k].name /\ t[k].looked = file[k].looked
      BY <2>1, <2>3, <2>4 DEF Shown
    <3>2. /\ Shown(file[i]) /\ t[i].name = file[i].name
          /\ Shown(file[j]) /\ t[j].name = file[j].name /\ t[j].looked = file[j].looked
      BY <2>6, <3>1
    <3> QED  BY <2>6, <3>2 DEF Twice, m
  <2>7. Twice(t)
    BY <2>4, <2>6 DEF Twice
  <2> QED  BY <2>4, <2>5, <2>7
<1>3. ASSUME NEW y \in L!Pieces(x), t = Append(file, y)
      PROVE  t \in Seq(Lines) /\ Grown(file, t) /\ Twice(t)
  <2> DEFINE m == Len(file) + 1
  <2>0. PieceOf(x, y)
    BY Cut
  <2>1. /\ t \in Seq(Lines) /\ Len(t) = m /\ t[m] = y /\ m \in Nat
        /\ \A i \in 1..Len(file) : t[i] = file[i]
    BY <1>3, <2>0 DEF PieceOf
  <2>2. Grown(file, t)
    BY <2>1 DEF Grown
  <2>3. ASSUME NEW i \in 1..m, NEW j \in 1..m, i < j, t[i].name = t[j].name,
               Shown(t[i]), Shown(t[j])
        PROVE  t[j].looked < i
    <3>1. i \in 1..Len(file) /\ t[i] = file[i]
      BY <2>1, <2>3
    <3>2. CASE j = m
      <4>1. y.name = x.name /\ y.named = x.named /\ y.looked = x.looked
        <5>1. ~(y.name = L!NoColon /\ ~Shown(y))
          BY <2>1, <2>3, <3>2
        <5> QED  BY <2>0, <5>1 DEF PieceOf
      <4>2. Shown(x) /\ file[i].name = x.name /\ Shown(file[i])
        BY <2>1, <2>3, <3>1, <3>2, <4>1 DEF Shown
      <4> QED  BY <2>1, <3>1, <3>2, <4>1, <4>2
    <3>3. CASE j \in 1..Len(file)
      BY <2>1, <2>3, <3>1, <3>3 DEF Twice
    <3> QED  BY <2>1, <3>2, <3>3
  <2>4. Twice(t)
    BY <2>1, <2>3 DEF Twice
  <2> QED  BY <2>1, <2>2, <2>4
<1> QED  BY <1>1, <1>2, <1>3 DEF L!Appended

\* A new name is saved, or not.
LEMMA SaveKeeps == ASSUME LoginInv, NEW p \in People, L!save_user(p) PROVE LoginInv'
<1> DEFINE x == L!Line(p)
<1>1. Knows(file, at[p], name[p], password[p], seen[p], looked[p])
  BY DEF LoginInv
<1>2. Domains' /\ Alone(p)
  BY DEF LoginInv, Domains, Alone, L!save_user, L!Go, L!Forget
<1>3. at[p] = "save" /\ at'[p] = "ask" /\ looked'[p] = 0
  BY DEF LoginInv, Domains, L!save_user, L!Go, L!Forget
<1>4. Len(file) \in Nat
  BY DEF LoginInv
<1>5. /\ name[p] \in Names \cup {Odd} /\ password[p] \in Passwords /\ looked[p] \in Nat
      /\ \A i \in 1..Len(file) : i <= looked[p] => ~(file[i].name = name[p] /\ Shown(file[i]))
  BY <1>1, <1>3, <1>4 DEF Knows
<1>6. x \in Lines /\ (x.named = Odd \/ x.name = x.named)
  BY <1>5 DEF Lines, L!Line
<1>7. ASSUME NEW i \in 1..Len(file), file[i].name = x.name, Shown(file[i]), Shown(x)
      PROVE  x.looked < i
  <2>1. x.named = name[p] /\ x.looked = looked[p]
    BY DEF L!Line
  <2>2. file[i].name = name[p]
    BY <1>7, <2>1 DEF Shown
  <2> QED  BY <1>5, <1>7, <2>1, <2>2
<1>8. file' \in L!Appended(x)
  BY DEF L!save_user
<1> HIDE DEF x
<1>9. file' \in Seq(Lines) /\ Grown(file, file') /\ Twice(file')
  BY <1>6, <1>7, <1>8, AppendedKeeps
<1>10. Knows(file', at'[p], name'[p], password'[p], seen'[p], looked'[p])
  BY <1>3, <1>9, BackToAsk
<1> QED  BY <1>2, <1>9, <1>10, OnePerson

\* A password is checked.
LEMMA ChecksKeeps == ASSUME LoginInv, NEW p \in People, L!Checks(p) PROVE LoginInv'
<1> USE DEF L!Checks, L!Go, L!Exits, L!Forget
<1>1. Domains' /\ Alone(p)
  BY DEF LoginInv, Domains, Alone
<1>2. file' = file /\ at[p] = "check"
  BY DEF LoginInv
<1>3. file' \in Seq(Lines) /\ Grown(file, file') /\ Twice(file')
  BY <1>2, SameFile
<1>4. \/ /\ password[p] = seen[p] /\ at'[p] = "shell" /\ name'[p] = name[p]
         /\ password'[p] = password[p] /\ seen'[p] = seen[p] /\ looked'[p] = looked[p]
      \/ at'[p] = "ask" /\ looked'[p] = 0
  BY DEF LoginInv, Domains
<1>5. Knows(file, at[p], name[p], password[p], seen[p], looked[p])
  BY DEF LoginInv
<1>6. Knows(file', at'[p], name'[p], password'[p], seen'[p], looked'[p])
  <2>1. CASE at'[p] = "ask" /\ looked'[p] = 0
    BY <1>3, <2>1, BackToAsk
  <2>2. CASE /\ password[p] = seen[p] /\ at'[p] = "shell" /\ name'[p] = name[p]
             /\ password'[p] = password[p] /\ seen'[p] = seen[p] /\ looked'[p] = looked[p]
    <3>1. Knows(file, "shell", name[p], password[p], seen[p], looked[p])
      BY <1>2, <1>5, <2>2 DEF Knows
    <3> QED  BY <1>2, <2>2, <3>1
  <2> QED  BY <1>4, <2>1, <2>2
<1> QED  BY <1>1, <1>3, <1>6, OnePerson

LoginHolds == program = "login" => LoginInv

\* However many look, register and retry at once, whatever becomes of their writes.
LEMMA LoginInvariance == Spec => []LoginHolds
<1>1. Init => LoginHolds
  BY LoginBegins DEF Init, LoginHolds
<1>2. LoginHolds /\ [Next]_vars => LoginHolds'
  <2> SUFFICES ASSUME LoginHolds, [Next]_vars, program' = "login" PROVE LoginInv'
    BY DEF LoginHolds
  <2>1. program = "login" /\ LoginInv
    BY DEF Next, vars, LoginHolds
  <2>2. L!Next \/ UNCHANGED loginOnly
    BY <2>1 DEF Next, vars
  <2>3. CASE L!Next
    BY <2>1, <2>3, AsksKeeps, SaveKeeps, ChecksKeeps DEF L!Next
  <2>4. CASE UNCHANGED loginOnly
    BY <2>1, <2>4 DEF loginOnly, LoginInv, Domains
  <2> QED  BY <2>2, <2>3, <2>4
<1> QED  BY <1>1, <1>2, PTL DEF Spec

\* What a shell was given for is the password of the first line of the name, and will be.
LEMMA LoginIsSound == LoginInv => L!OneAccount
<1> SUFFICES ASSUME LoginInv PROVE L!OneAccount
  OBVIOUS
<1>1. ASSUME NEW p \in People, at[p] = "shell"
      PROVE  /\ name[p] # Odd
             /\ \E i \in 1..Len(file) : L!First(i, name[p]) /\ file[i].pass = password[p]
  <2>1. Knows(file, at[p], name[p], password[p], seen[p], looked[p])
    BY DEF LoginInv
  <2>2. password[p] = seen[p] /\ password[p] \notin {L!Torn, L!Spoilt}
    BY <1>1, <2>1, NamesDiffer DEF Knows
  <2>3. PICK i \in 1..Len(file) :
             FirstOf(file, i, name[p]) /\ seen[p] \in {file[i].pass, L!Torn, L!Spoilt}
    BY <1>1, <2>1 DEF Knows
  <2>4. L!First(i, name[p]) /\ file[i].pass = password[p]
    BY <2>2, <2>3 DEF FirstOf, L!First
  <2>5. name[p] # Odd
    <3>1. file[i].name = name[p] /\ file[i] \in Lines
      BY <2>3 DEF FirstOf, LoginInv
    <3>2. file[i].name \in Names \cup {Before, L!NoColon, L!Another}
      BY <3>1 DEF Lines
    <3> QED  BY <3>1, <3>2, NamesDiffer
  <2> QED  BY <2>4, <2>5
<1>2. Twice(file)
  BY DEF LoginInv
<1> QED  BY <1>1, <1>2 DEF L!OneAccount, Twice, Shown

-----------------------------------------------------------------------------
(* The chat over pipes.                                                     *)

\* The helper's answers as far as they go, the questions under way and those typed are numbers
\* that do not fall.
Sorted(s) == \A i, j \in 1..Len(s) : i < j /\ s[j] # 0 => s[i] <= s[j]

Ordered(a, u, n) ==
    /\ a \in Seq(Nat) /\ u \in Seq(Nat) /\ n \in Nat
    /\ Sorted(a) /\ Sorted(u)
    /\ \A i \in 1..Len(a), j \in 1..Len(u) : u[j] # 0 => a[i] <= u[j]
    /\ \A i \in 1..Len(a) : a[i] <= n
    /\ \A i \in 1..Len(u) : u[i] <= n

Said == (shown \o down) \o rest

PipeInv ==
    /\ shown \in Seq(Nat) /\ down \in Seq(Nat) /\ rest \in Seq(Nat) /\ line \in Seq(Nat)
    /\ got \in Nat
    /\ Ordered(Said, up, typed)
    /\ shell = "write" => \A i \in 1..Len(line) : line[i] \in {0, typed}
    /\ helper \in {"starts", "reads"} => rest = <<>>
    /\ P!MarkersCount

\* Place by place.
LEMMA Places ==
    ASSUME NEW a \in Seq(Nat), NEW b \in Seq(Nat)
    PROVE  /\ a \o b \in Seq(Nat) /\ Len(a) \in Nat /\ Len(b) \in Nat
           /\ Len(a \o b) = Len(a) + Len(b)
           /\ \A i \in 1..Len(a) : (a \o b)[i] = a[i]
           /\ \A i \in 1..Len(a) + Len(b) : i > Len(a) => (a \o b)[i] = b[i - Len(a)]
OBVIOUS

\* What is behind the first k.
LEMMA Behind ==
    ASSUME NEW u \in Seq(Nat), NEW k \in 0..Len(u)
    PROVE  /\ SubSeq(u, k + 1, Len(u)) \in Seq(Nat)
           /\ Len(SubSeq(u, k + 1, Len(u))) = Len(u) - k
           /\ \A i \in 1..Len(u) - k : SubSeq(u, k + 1, Len(u))[i] = u[k + i]
<1>1. Len(u) \in Nat /\ \A i \in 1..Len(u) : u[i] \in Nat
  OBVIOUS
<1>2. k + 1 \in Int /\ Len(u) \in Int /\ \A i \in (k + 1)..Len(u) : u[i] \in Nat
  BY <1>1
<1>3. /\ SubSeq(u, k + 1, Len(u)) \in Seq(Nat)
      /\ Len(SubSeq(u, k + 1, Len(u)))
           = IF k + 1 <= Len(u) THEN Len(u) - (k + 1) + 1 ELSE 0
      /\ \A i \in 1..(Len(u) - (k + 1) + 1) : SubSeq(u, k + 1, Len(u))[i] = u[(k + 1) + i - 1]
  BY <1>2, SubSeqProperties
<1>4. \A i \in 1..Len(u) - k : SubSeq(u, k + 1, Len(u))[i] = u[k + i]
  <2>1. ASSUME NEW i \in 1..Len(u) - k PROVE SubSeq(u, k + 1, Len(u))[i] = u[k + i]
    <3>1. i \in 1..(Len(u) - (k + 1) + 1) /\ (k + 1) + i - 1 = k + i
      BY <1>1
    <3> QED  BY <1>3, <3>1
  <2> QED  BY <2>1
<1> QED  BY <1>1, <1>3, <1>4

\* A line goes up.
LEMMA OrderedWrites ==
    ASSUME NEW a, NEW u, NEW n, Ordered(a, u, n), NEW l \in Seq(Nat),
           \A i \in 1..Len(l) : l[i] \in {0, n}
    PROVE  Ordered(a, u \o l, n)
<1>1. /\ u \o l \in Seq(Nat) /\ Len(u) \in Nat /\ Len(l) \in Nat
      /\ Len(u \o l) = Len(u) + Len(l)
      /\ \A i \in 1..Len(u) : (u \o l)[i] = u[i]
      /\ \A i \in 1..Len(u) + Len(l) : i > Len(u) => (u \o l)[i] = l[i - Len(u)]
  BY Places DEF Ordered
<1> DEFINE v == u \o l
<1>2. \A i \in 1..Len(v) : i \in 1..Len(u) \/ v[i] \in {0, n}
  <2>1. ASSUME NEW i \in 1..Len(v), i > Len(u) PROVE v[i] \in {0, n}
    <3>1. i - Len(u) \in 1..Len(l)
      BY <1>1, <2>1
    <3> QED  BY <1>1, <2>1, <3>1
  <2> QED  BY <1>1, <2>1
<1>3. \A i \in 1..Len(v) : v[i] <= n
  <2>0. n \in Nat /\ \A i \in 1..Len(u) : u[i] <= n
    BY DEF Ordered
  <2>1. ASSUME NEW i \in 1..Len(v) PROVE v[i] <= n
    <3>1. CASE i \in 1..Len(u)
      <4>1. v[i] = u[i] /\ u[i] <= n
        BY <1>1, <2>0, <3>1
      <4> QED  BY <4>1
    <3>2. CASE v[i] \in {0, n}
      BY <2>0, <3>2
    <3> QED  BY <1>2, <3>1, <3>2
  <2> QED  BY <2>1
<1>4. \A i \in 1..Len(v) : i \in 1..Len(u) => v[i] = u[i]
  BY <1>1
<1>5. v \in Seq(Nat) /\ \A i \in 1..Len(v) : v[i] \in Nat
  BY <1>1
<1> HIDE DEF v
<1>6. Sorted(v)
  <2>1. ASSUME NEW i \in 1..Len(v), NEW j \in 1..Len(v), i < j, v[j] # 0 PROVE v[i] <= v[j]
    <3>1. CASE j \in 1..Len(u)
      <4>1. i \in 1..Len(u)
        BY <1>1, <2>1, <3>1
      <4> QED  BY <1>4, <2>1, <3>1, <4>1 DEF Ordered, Sorted
    <3>2. CASE j \notin 1..Len(u)
      BY <1>2, <1>3, <2>1, <3>2
    <3> QED  BY <3>1, <3>2
  <2> QED  BY <2>1 DEF Sorted
<1>7. \A i \in 1..Len(a), j \in 1..Len(v) : v[j] # 0 => a[i] <= v[j]
  <2>1. ASSUME NEW i \in 1..Len(a), NEW j \in 1..Len(v), v[j] # 0 PROVE a[i] <= v[j]
    <3>1. CASE j \in 1..Len(u)
      BY <1>4, <2>1, <3>1 DEF Ordered
    <3>2. CASE j \notin 1..Len(u)
      BY <1>2, <2>1, <3>2 DEF Ordered
    <3> QED  BY <3>1, <3>2
  <2> QED  BY <2>1
<1>8. Ordered(a, v, n)
  BY <1>3, <1>5, <1>6, <1>7 DEF Ordered
<1> QED  BY <1>8 DEF v

\* fgets takes the first k of what came up.
LEMMA OrderedSkips ==
    ASSUME NEW a, NEW u, NEW n, Ordered(a, u, n), NEW k \in 0..Len(u)
    PROVE  Ordered(a, SubSeq(u, k + 1, Len(u)), n)
<1> DEFINE v == SubSeq(u, k + 1, Len(u))
<1>1. /\ v \in Seq(Nat) /\ Len(v) = Len(u) - k /\ Len(u) \in Nat
      /\ \A i \in 1..Len(u) - k : v[i] = u[k + i]
  BY Behind DEF Ordered
<1> HIDE DEF v
<1>2. \A i \in 1..Len(v) : k + i \in 1..Len(u) /\ v[i] = u[k + i]
  BY <1>1
<1>3. Sorted(v)
  <2>1. ASSUME NEW i \in 1..Len(v), NEW j \in 1..Len(v), i < j, v[j] # 0 PROVE v[i] <= v[j]
    <3>1. k + i < k + j /\ u[k + j] # 0
      BY <1>1, <1>2, <2>1
    <3> QED  BY <1>2, <3>1 DEF Ordered, Sorted
  <2> QED  BY <2>1 DEF Sorted
<1>4. \A i \in 1..Len(a), j \in 1..Len(v) : v[j] # 0 => a[i] <= v[j]
  BY <1>2 DEF Ordered
<1>5. Ordered(a, v, n)
  BY <1>1, <1>2, <1>3, <1>4 DEF Ordered
<1> QED  BY <1>5 DEF v

\* An answer to the question that comes first is of its number or ends.
LEMMA OrderedAnswers ==
    ASSUME NEW a, NEW u, NEW n, Ordered(a, u, n), NEW k \in 1..Len(u), u[1] # 0,
           NEW x \in Seq(Nat), \A i \in 1..Len(x) : x[i] \in {0, u[1]}
    PROVE  Ordered(a \o x, SubSeq(u, k + 1, Len(u)), n)
<1> DEFINE v == SubSeq(u, k + 1, Len(u))
           b == a \o x
           m == u[1]
<1>1. Ordered(a, v, n)
  <2>1. k \in 0..Len(u)
    BY DEF Ordered
  <2> QED  BY <2>1, OrderedSkips
<1>2. /\ Len(u) \in Nat /\ v \in Seq(Nat) /\ Len(v) = Len(u) - k
      /\ \A i \in 1..Len(u) - k : v[i] = u[k + i]
  BY Behind DEF Ordered
<1>3. /\ b \in Seq(Nat) /\ Len(a) \in Nat /\ Len(x) \in Nat
      /\ Len(b) = Len(a) + Len(x)
      /\ \A i \in 1..Len(a) : b[i] = a[i]
      /\ \A i \in 1..Len(a) + Len(x) : i > Len(a) => b[i] = x[i - Len(a)]
  BY Places DEF Ordered
<1>4. 1 \in 1..Len(u) /\ m \in Nat /\ m <= n
  BY <1>2 DEF Ordered
<1>5. \A i \in 1..Len(b) : i \in 1..Len(a) \/ b[i] \in {0, m}
  <2>1. ASSUME NEW i \in 1..Len(b), i > Len(a) PROVE b[i] \in {0, m}
    <3>1. i - Len(a) \in 1..Len(x)
      BY <1>3, <2>1
    <3> QED  BY <1>3, <2>1, <3>1
  <2> QED  BY <1>3, <2>1
<1>6. \A j \in 1..Len(v) : v[j] # 0 => m <= v[j]
  <2>1. ASSUME NEW j \in 1..Len(v), v[j] # 0 PROVE m <= v[j]
    <3>1. k + j \in 1..Len(u) /\ 1 < k + j /\ u[k + j] = v[j]
      BY <1>2
    <3> QED  BY <1>4, <2>1, <3>1 DEF Ordered, Sorted
  <2> QED  BY <2>1
<1>7. \A i \in 1..Len(a) : b[i] = a[i] /\ b[i] <= m /\ b[i] <= n
  BY <1>3, <1>4 DEF Ordered
<1>8. \A i \in 1..Len(b) : i \in 1..Len(a) => b[i] = a[i]
  BY <1>3
<1>9. \A i \in 1..Len(b) : b[i] \in Nat /\ b[i] <= m /\ b[i] <= n
  <2>0. n \in Nat
    BY DEF Ordered
  <2>1. ASSUME NEW i \in 1..Len(b) PROVE b[i] \in Nat /\ b[i] <= m /\ b[i] <= n
    <3>1. CASE i \in 1..Len(a)
      <4>1. b[i] <= m /\ b[i] <= n
        BY <1>7, <3>1
      <4>2. b[i] \in Nat
        BY <1>3
      <4> QED  BY <4>1, <4>2
    <3>2. CASE b[i] \in {0, m}
      BY <1>4, <2>0, <3>2
    <3> QED  BY <1>5, <3>1, <3>2
  <2> QED  BY <2>1
<1> HIDE DEF b, m, v
<1>10. Sorted(b)
  <2>1. ASSUME NEW i \in 1..Len(b), NEW j \in 1..Len(b), i < j, b[j] # 0 PROVE b[i] <= b[j]
    <3>1. CASE j \in 1..Len(a)
      <4>1. i \in 1..Len(a)
        BY <1>3, <2>1, <3>1
      <4> QED  BY <1>8, <2>1, <3>1, <4>1 DEF Ordered, Sorted
    <3>2. CASE j \notin 1..Len(a)
      BY <1>5, <1>9, <2>1, <3>2
    <3> QED  BY <3>1, <3>2
  <2> QED  BY <2>1 DEF Sorted
<1>11. \A i \in 1..Len(b), j \in 1..Len(v) : v[j] # 0 => b[i] <= v[j]
  <2>1. ASSUME NEW i \in 1..Len(b), NEW j \in 1..Len(v), v[j] # 0 PROVE b[i] <= v[j]
    <3>1. b[i] <= m /\ m <= v[j] /\ v[j] \in Nat
      BY <1>2, <1>6, <1>9, <2>1
    <3> QED  BY <1>4, <1>9, <3>1
  <2> QED  BY <2>1
<1>12. Ordered(b, v, n)
  BY <1>1, <1>3, <1>9, <1>10, <1>11 DEF Ordered
<1> QED  BY <1>12 DEF b, v

\* The instance counts as the module does.
LEMMA OneCardinalityP == \A Q : P!Cardinality(Q) = Cardinality(Q)
BY DEF P!Cardinality, Cardinality

\* What P!MarkersCount says, of what was said.
LEMMA MarkersOf ==
    P!MarkersCount <=>
      /\ P!Ends(Said) = got
      /\ \A i, j \in 1..Len(Said) : i < j /\ Said[j] # 0 => Said[i] <= Said[j]
      /\ helper = "answers" /\ rest # <<>> => rest[Len(rest)] = 0
      /\ got > 0 => Said[Len(Said)] = 0
BY DEF P!MarkersCount, Said, P!End, P!Last

\* The places of the markers are finitely many.
LEMMA EndsFinite ==
    ASSUME NEW s \in Seq(Nat)
    PROVE  /\ IsFiniteSet({i \in 1..Len(s) : s[i] = 0})
           /\ P!Ends(s) = Cardinality({i \in 1..Len(s) : s[i] = 0})
           /\ P!Ends(s) \in Nat
<1>1. IsFiniteSet(1..Len(s))
  BY FS_Interval
<1>2. IsFiniteSet({i \in 1..Len(s) : s[i] = 0})
  BY <1>1, FS_Subset
<1>3. P!Ends(s) = Cardinality({i \in 1..Len(s) : s[i] = 0})
  BY OneCardinalityP DEF P!Ends, P!End
<1> QED  BY <1>2, <1>3, FS_CardinalityType

\* An answer adds one marker.
LEMMA EndsAdded ==
    ASSUME NEW a \in Seq(Nat), NEW x \in Seq(Nat), NEW k \in Nat, Len(x) = k + 1, x[k + 1] = 0,
           \A i \in 1..k : x[i] # 0
    PROVE  P!Ends(a \o x) = P!Ends(a) + 1
<1> DEFINE b == a \o x
           old == {i \in 1..Len(a) : a[i] = 0}
           new == {i \in 1..Len(b) : b[i] = 0}
<1>1. /\ b \in Seq(Nat) /\ Len(a) \in Nat
      /\ Len(b) = Len(a) + Len(x)
      /\ \A i \in 1..Len(a) : b[i] = a[i]
      /\ \A i \in 1..Len(a) + Len(x) : i > Len(a) => b[i] = x[i - Len(a)]
  BY Places
<1>2. P!Ends(b) = Cardinality(new) /\ P!Ends(a) = Cardinality(old) /\ IsFiniteSet(old)
  BY <1>1, EndsFinite
<1> HIDE DEF b
<1> DEFINE z == Len(a) + k + 1
<1>3. new = old \union {z}
  <2>1. z \in new
    <3>1. z \in 1..Len(b) /\ z > Len(a) /\ z - Len(a) = k + 1
      BY <1>1
    <3> QED  BY <1>1, <3>1
  <2>2. old \subseteq new
    BY <1>1
  <2>3. ASSUME NEW i \in new PROVE i \in old \/ i = z
    <3>1. CASE i \in 1..Len(a)
      BY <1>1, <3>1
    <3>2. CASE i \notin 1..Len(a)
      <4>1. i \in Nat /\ i > Len(a) /\ i <= z /\ i \in 1..Len(a) + Len(x) /\ b[i] = 0
        BY <1>1, <3>2
      <4>2. x[i - Len(a)] = 0
        BY <1>1, <4>1
      <4>3. i - Len(a) \in 1..k \/ i = z
        BY <1>1, <4>1
      <4> QED  BY <4>2, <4>3
    <3> QED  BY <3>1, <3>2
  <2> QED  BY <2>1, <2>2, <2>3
<1>4. z \notin old
  BY <1>1
<1>5. Cardinality(new) = Cardinality(old) + 1
  BY <1>2, <1>3, <1>4, FS_AddElement
<1> QED  BY <1>2, <1>5 DEF b

Assoc(x, y, z) == (x \o y) \o z = x \o (y \o z)

\* Concatenation is associative.
LEMMA Regrouped == \A x, y, z \in Seq(Nat) : Assoc(x, y, z)
BY DEF Assoc

\* What is read or printed moves, and stays said.
LEMMA StillSaid ==
    ASSUME NEW a \in Seq(Nat), NEW b \in Seq(Nat), NEW c \in Seq(Nat)
    PROVE  /\ \A n \in 0..Len(b) :
                  ((a \o SubSeq(b, 1, n)) \o SubSeq(b, n + 1, Len(b))) \o c = (a \o b) \o c
           /\ c # <<>> => (a \o Append(b, Head(c))) \o Tail(c) = (a \o b) \o c
<1>1. ASSUME NEW n \in 0..Len(b)
      PROVE ((a \o SubSeq(b, 1, n)) \o SubSeq(b, n + 1, Len(b))) \o c = (a \o b) \o c
  <2> DEFINE d == SubSeq(b, 1, n)
             e == SubSeq(b, n + 1, Len(b))
  <2>1. d \in Seq(Nat) /\ Len(d) = n /\ \A i \in 1..n : d[i] = b[i]
    <3>1. Len(b) \in Nat /\ \A i \in 1..Len(b) : b[i] \in Nat
      OBVIOUS
    <3>2. \A i \in 1..n : b[i] \in Nat
      BY <3>1
    <3> QED  BY <3>1, <3>2, SubSeqProperties
  <2>2. e \in Seq(Nat) /\ Len(e) = Len(b) - n /\ \A i \in 1..Len(b) - n : e[i] = b[n + i]
    BY Behind
  <2> HIDE DEF d, e
  <2>3. d \o e = b
    <3>1. /\ d \o e \in Seq(Nat) /\ Len(d \o e) = Len(d) + Len(e)
          /\ \A i \in 1..Len(d) : (d \o e)[i] = d[i]
          /\ \A i \in 1..Len(d) + Len(e) : i > Len(d) => (d \o e)[i] = e[i - Len(d)]
      BY <2>1, <2>2, Places
    <3> DEFINE g == d \o e
    <3> HIDE DEF g
    <3>2. g \in Seq(Nat) /\ Len(g) = Len(b)
      BY <2>1, <2>2, <3>1 DEF g
    <3>3. ASSUME NEW i \in 1..Len(b) PROVE g[i] = b[i]
      <4>1. CASE i <= n
        BY <2>1, <3>1, <4>1 DEF g
      <4>2. CASE i > n
        <5>1. i - n \in 1..Len(b) - n /\ n + (i - n) = i
          BY <4>2
        <5>2. e[i - n] = b[i]
          BY <2>2, <5>1
        <5>3. Len(d) = n /\ i > Len(d) /\ i \in 1..Len(d) + Len(e)
          BY <2>1, <2>2, <4>2
        <5>4. g[i] = e[i - Len(d)]
          BY <3>1, <5>3 DEF g
        <5> QED  BY <5>2, <5>3, <5>4
      <4> QED  BY <4>1, <4>2
    <3>4. g = b
      BY <3>2, <3>3, SeqEqual
    <3> QED  BY <3>4 DEF g
  <2>4. (a \o d) \o e = a \o (d \o e)
    BY <2>1, <2>2, Regrouped, Zenon DEF Assoc
  <2> QED  BY <2>3, <2>4 DEF d, e
<1>2. ASSUME c # <<>> PROVE (a \o Append(b, Head(c))) \o Tail(c) = (a \o b) \o c
  <2> DEFINE h == <<Head(c)>>
             t == Tail(c)
  <2>1. h \in Seq(Nat) /\ t \in Seq(Nat) /\ h \o t = c /\ Append(b, Head(c)) = b \o h
    BY <1>2
  <2>2. b \o h \in Seq(Nat) /\ a \o b \in Seq(Nat)
    BY <2>1
  <2> HIDE DEF h, t
  <2>3. a \o (b \o h) = (a \o b) \o h
    BY <2>1, Regrouped, Zenon DEF Assoc
  <2>4. ((a \o b) \o h) \o t = (a \o b) \o (h \o t)
    <3>1. h \in Seq(Nat) /\ t \in Seq(Nat) /\ a \o b \in Seq(Nat)
      BY <2>1, <2>2
    <3>2. Assoc(a \o b, h, t)
      BY <3>1, Regrouped, Zenon
    <3> QED  BY <3>2 DEF Assoc
  <2> QED  BY <2>1, <2>3, <2>4 DEF t
<1> QED  BY <1>1, <1>2

\* The chat starts without a word.
LEMMA PipeBegins == P!Init => PipeInv
<1> SUFFICES ASSUME P!Init PROVE PipeInv
  OBVIOUS
<1>1. /\ shown = <<>> /\ down = <<>> /\ rest = <<>> /\ line = <<>> /\ up = <<>>
      /\ got = 0 /\ typed = 0 /\ shell = "prompt" /\ helper = "starts"
  BY DEF P!Init
<1>2. Said = <<>> /\ Len(Said) = 0
  BY <1>1 DEF Said
<1>3. Ordered(Said, up, typed)
  BY <1>1, <1>2 DEF Ordered, Sorted
<1>4. P!Ends(Said) = 0
  <2>1. {i \in 1..Len(Said) : Said[i] = 0} = {}
    BY <1>2
  <2> QED  BY <2>1, OneCardinalityP, FS_EmptySet DEF P!Ends, P!End
<1>5. P!MarkersCount
  BY <1>1, <1>2, <1>4, MarkersOf
<1> QED  BY <1>1, <1>3, <1>5 DEF PipeInv

\* A later question has a higher number.
LEMMA OrderedGrows ==
    ASSUME NEW a, NEW u, NEW n, Ordered(a, u, n) PROVE Ordered(a, u, n + 1)
<1>1. n + 1 \in Nat /\ n \in Nat
  BY DEF Ordered
<1>2. \A i \in 1..Len(a) : a[i] <= n + 1
  <2>1. ASSUME NEW i \in 1..Len(a) PROVE a[i] <= n + 1
    <3>1. a[i] \in Nat /\ a[i] <= n
      BY DEF Ordered
    <3> QED  BY <1>1, <3>1
  <2> QED  BY <2>1
<1>3. \A i \in 1..Len(u) : u[i] <= n + 1
  <2>1. ASSUME NEW i \in 1..Len(u) PROVE u[i] <= n + 1
    <3>1. u[i] \in Nat /\ u[i] <= n
      BY DEF Ordered
    <3> QED  BY <1>1, <3>1
  <2> QED  BY <2>1
<1> QED  BY <1>1, <1>2, <1>3 DEF Ordered

\* A line is typed.
LEMMA TypesKeeps == PipeInv /\ P!Types => PipeInv'
<1> SUFFICES ASSUME PipeInv, P!Types PROVE PipeInv'
  OBVIOUS
<1>1. /\ typed' = typed + 1 /\ line' \in {<<typed + 1, 0>>, <<typed + 1>>, <<0>>}
      /\ UNCHANGED <<up, down, helper, rest, got, shown>>
  BY DEF P!Types, P!Blank, P!NL
<1>2. typed \in Nat
  BY DEF PipeInv, Ordered
<1>3. Said' = Said
  BY <1>1 DEF Said
<1>4. Ordered(Said', up', typed')
  BY <1>1, <1>3, OrderedGrows DEF PipeInv
<1>5. line' \in Seq(Nat) /\ \A i \in 1..Len(line') : line'[i] \in {0, typed'}
  <2>1. CASE line' = <<typed + 1, 0>>
    BY <1>1, <1>2, <2>1
  <2>2. CASE line' = <<typed + 1>>
    BY <1>1, <1>2, <2>2
  <2>3. CASE line' = <<0>>
    BY <1>1, <1>2, <2>3
  <2> QED  BY <1>1, <2>1, <2>2, <2>3
<1>6. P!MarkersCount'
  BY <1>1 DEF PipeInv, P!MarkersCount
<1> QED  BY <1>1, <1>4, <1>5, <1>6 DEF PipeInv

\* The shell's and the helper's steps that move nothing.
LEMMA NothingMoves ==
    ASSUME PipeInv, UNCHANGED <<up, down, rest, got, shown, line, typed>>,
           shell' = shell \/ shell' # "write",
           helper' = helper \/ (rest = <<>> /\ helper' # "answers")
                            \/ helper' = "killed"
    PROVE  PipeInv'
<1>1. Said' = Said
  BY DEF Said
<1>2. Ordered(Said', up', typed')
  BY <1>1 DEF PipeInv
<1>3. P!MarkersCount'
  BY DEF PipeInv, P!MarkersCount
<1>4. helper' \in {"starts", "reads"} => rest' = <<>>
  BY DEF PipeInv
<1>5. shell' = "write" => \A i \in 1..Len(line') : line'[i] \in {0, typed'}
  BY DEF PipeInv
<1> QED  BY <1>2, <1>3, <1>4, <1>5 DEF PipeInv

\* The line goes up, or the shell dies.
LEMMA WritesKeeps == PipeInv /\ P!Writes => PipeInv'
<1> SUFFICES ASSUME PipeInv, P!Writes PROVE PipeInv'
  OBVIOUS
<1>1. /\ shell = "write" /\ shell' # "write"
      /\ UNCHANGED <<line, typed, down, helper, rest, got, shown>>
      /\ up' = up \/ up' = up \o line
  BY DEF P!Writes
<1>2. CASE up' = up
  BY <1>1, <1>2, NothingMoves
<1>3. CASE up' = up \o line
  <2>1. line \in Seq(Nat) /\ \A i \in 1..Len(line) : line[i] \in {0, typed}
    BY <1>1 DEF PipeInv
  <2>2. Ordered(Said, up, typed)
    BY DEF PipeInv
  <2>3. Ordered(Said, up \o line, typed)
    BY <2>1, <2>2, OrderedWrites
  <2>4. Said' = Said
    BY <1>1 DEF Said
  <2>5. P!MarkersCount'
    BY <1>1 DEF PipeInv, P!MarkersCount
  <2> QED  BY <1>1, <1>3, <2>3, <2>4, <2>5 DEF PipeInv
<1> QED  BY <1>1, <1>2, <1>3

\* The least of two numbers.
LEMMA LeastOfTwo == ASSUME NEW a \in Nat, NEW b \in Nat PROVE P!Min({a, b}) \in 0..a
<1>1. \E x \in {a, b} : \A y \in {a, b} : x <= y
  <2>1. CASE a <= b
    BY <2>1
  <2>2. CASE b <= a
    BY <2>2
  <2> QED  BY <2>1, <2>2
<1> DEFINE m == CHOOSE x \in {a, b} : \A y \in {a, b} : x <= y
<1>2. m \in {a, b} /\ \A y \in {a, b} : m <= y
  BY <1>1
<1>3. P!Min({a, b}) = m
  BY DEF P!Min
<1> HIDE DEF m
<1> QED  BY <1>2, <1>3

\* What was said stays said.
LEMMA SaidAsBefore ==
    ASSUME PipeInv, Said' = Said, UNCHANGED <<up, got, typed, helper, line>>,
           shell' = shell \/ shell' # "write",
           shown' \in Seq(Nat), down' \in Seq(Nat), rest' \in Seq(Nat),
           rest = <<>> => rest' = <<>>,
           rest' # <<>> => rest'[Len(rest')] = rest[Len(rest)] /\ rest # <<>>
    PROVE  PipeInv'
<1>1. Ordered(Said', up', typed')
  BY DEF PipeInv
<1> DEFINE said == Said
<1>2. /\ P!Ends(Said) = got
      /\ \A i, j \in 1..Len(Said) : i < j /\ Said[j] # 0 => Said[i] <= Said[j]
      /\ helper = "answers" /\ rest # <<>> => rest[Len(rest)] = 0
      /\ got > 0 => Said[Len(Said)] = 0
  BY MarkersOf DEF PipeInv
<1>3. /\ P!Ends(Said)' = got'
      /\ \A i, j \in 1..Len(Said') : i < j /\ Said'[j] # 0 => Said'[i] <= Said'[j]
      /\ helper' = "answers" /\ rest' # <<>> => rest'[Len(rest')] = 0
      /\ got' > 0 => Said'[Len(Said')] = 0
  <2>1. P!Ends(Said)' = P!Ends(Said)
    BY DEF P!Ends
  <2> QED  BY <1>2, <2>1
<1>4. P!MarkersCount'
  BY <1>3 DEF P!MarkersCount, Said, P!End, P!Last
<1>5. shell' = "write" => \A i \in 1..Len(line') : line'[i] \in {0, typed'}
  BY DEF PipeInv
<1> QED  BY <1>1, <1>4, <1>5 DEF PipeInv

\* The shell reads what is there.
LEMMA ReadsKeeps == PipeInv /\ P!Reads => PipeInv'
<1> SUFFICES ASSUME PipeInv, P!Reads PROVE PipeInv'
  OBVIOUS
<1>0. shown \in Seq(Nat) /\ down \in Seq(Nat) /\ rest \in Seq(Nat) /\ Len(down) \in Nat
  BY DEF PipeInv
<1>1. UNCHANGED <<line, typed, up, helper, rest, got>> /\ shell' # "write"
  BY DEF P!Reads
<1>2. CASE UNCHANGED <<shown, down>>
  BY <1>1, <1>2, NothingMoves
<1>3. CASE ~UNCHANGED <<shown, down>>
  <2> DEFINE n == P!Min({Len(down), ReadSize})
  <2>1. shown' = shown \o SubSeq(down, 1, n) /\ down' = SubSeq(down, n + 1, Len(down))
    BY <1>3 DEF P!Reads
  <2>2. n \in 0..Len(down)
    BY <1>0, SizesOK, LeastOfTwo
  <2> HIDE DEF n
  <2>3. Said' = Said
    BY <1>0, <1>1, <2>1, <2>2, StillSaid DEF Said
  <2>4. shown' \in Seq(Nat) /\ down' \in Seq(Nat)
    <3>1. SubSeq(down, n + 1, Len(down)) \in Seq(Nat)
      BY <1>0, <2>2, Behind
    <3>2. SubSeq(down, 1, n) \in Seq(Nat)
      <4>1. \A i \in 1..n : down[i] \in Nat
        BY <1>0, <2>2
      <4> QED  BY <2>2, <4>1, SubSeqProperties
    <3> QED  BY <1>0, <2>1, <3>1, <3>2
  <2> QED  BY <1>0, <1>1, <2>3, <2>4, SaidAsBefore
<1> QED  BY <1>2, <1>3

\* The helper prints a token, comes to the end, or dies.
LEMMA PrintsKeeps == PipeInv /\ P!Prints => PipeInv'
<1> SUFFICES ASSUME PipeInv, P!Prints PROVE PipeInv'
  OBVIOUS
<1>0. shown \in Seq(Nat) /\ down \in Seq(Nat) /\ rest \in Seq(Nat)
  BY DEF PipeInv
<1>1. UNCHANGED <<shell, line, typed, up, got, shown>>
  BY DEF P!Prints
<1>2. CASE UNCHANGED <<down, rest>>
  <2>1. helper' = "killed" \/ (rest = <<>> /\ helper' # "answers") \/ helper' = helper
    BY <1>2 DEF P!Prints
  <2> QED  BY <1>1, <1>2, <2>1, NothingMoves
<1>3. CASE ~UNCHANGED <<down, rest>>
  <2>1. /\ rest # <<>> /\ down' = Append(down, Head(rest)) /\ rest' = Tail(rest)
        /\ helper' = helper
    BY <1>3 DEF P!Prints
  <2>2. Said' = Said
    BY <1>0, <1>1, <2>1, StillSaid DEF Said
  <2>3. down' \in Seq(Nat) /\ rest' \in Seq(Nat)
    BY <1>0, <2>1
  <2>4. rest' # <<>> => rest'[Len(rest')] = rest[Len(rest)]
    BY <1>0, <2>1
  <2> QED  BY <1>0, <1>1, <2>1, <2>2, <2>3, <2>4, SaidAsBefore
<1> QED  BY <1>2, <1>3

\* One fgets takes at least one token, of those there are.
LEMMA FgetsTakes ==
    ASSUME up \in Seq(Nat), P!FgetsEnd > 0 PROVE P!FgetsEnd \in 1..Len(up)
<1> DEFINE ends == {i \in 1..Len(up) : up[i] = P!NL}
<1>1. ends \subseteq Nat /\ Len(up) \in Nat
  OBVIOUS
<1>2. CASE ends # {} /\ P!Min(ends) <= FgetsSize
  <2>1. \E x \in ends : \A y \in ends : x <= y
    BY <1>1, <1>2, LeastOne
  <2>2. P!Min(ends) \in ends
    BY <2>1 DEF P!Min
  <2>3. P!FgetsEnd = P!Min(ends)
    BY <1>2 DEF P!FgetsEnd
  <2> QED  BY <2>2, <2>3
<1>3. CASE ~(ends # {} /\ P!Min(ends) <= FgetsSize)
  <2>1. P!FgetsEnd = IF Len(up) >= FgetsSize THEN FgetsSize
                     ELSE IF P!NoMoreInput THEN Len(up) ELSE 0
    BY <1>3 DEF P!FgetsEnd
  <2> HIDE DEF ends
  <2> QED  BY <1>1, <2>1, SizesOK
<1> QED  BY <1>2, <1>3

\* The helper takes a question, and will answer it.
LEMMA FgetsKeeps == PipeInv /\ P!Fgets => PipeInv'
<1> SUFFICES ASSUME PipeInv, P!Fgets PROVE PipeInv'
  OBVIOUS
<1>0. /\ shown \in Seq(Nat) /\ down \in Seq(Nat) /\ rest = <<>> /\ up \in Seq(Nat)
      /\ got \in Nat /\ helper = "reads" /\ Ordered(Said, up, typed)
  BY DEF PipeInv, P!Fgets, Ordered
<1> DEFINE k == P!FgetsEnd
<1>1. k \in 1..Len(up) /\ Len(up) \in Nat
  BY <1>0, FgetsTakes DEF P!Fgets
<1>2. /\ up' = SubSeq(up, k + 1, Len(up)) /\ UNCHANGED <<shell, line, typed, down, shown>>
      /\ Head(up) = up[1]
  BY <1>0, <1>1 DEF P!Fgets
<1>3. Said = shown \o down /\ Said \in Seq(Nat)
  <2>1. shown \o down \in Seq(Nat) /\ \A s \in Seq(Nat) : s \o <<>> = s
    BY <1>0
  <2> QED  BY <1>0, <2>1 DEF Said
<1>4. /\ P!Ends(Said) = got
      /\ \A i, j \in 1..Len(Said) : i < j /\ Said[j] # 0 => Said[i] <= Said[j]
      /\ got > 0 => Said[Len(Said)] = 0
  BY MarkersOf DEF PipeInv
<1>5. CASE up[1] = 0
  <2>1. UNCHANGED <<helper, rest, got>>
    BY <1>2, <1>5 DEF P!Fgets, P!NL
  <2>2. Said' = Said
    BY <1>2, <2>1 DEF Said
  <2>3. Ordered(Said, SubSeq(up, k + 1, Len(up)), typed)
    BY <1>0, <1>1, OrderedSkips
  <2>4. P!MarkersCount'
    BY <1>2, <2>1 DEF PipeInv, P!MarkersCount
  <2>5. shell' = "write" => \A i \in 1..Len(line') : line'[i] \in {0, typed'}
    BY <1>2 DEF PipeInv
  <2> QED  BY <1>2, <2>1, <2>2, <2>3, <2>4, <2>5 DEF PipeInv
<1>6. CASE up[1] # 0
  <2>1. rest' \in P!Answers(up[1]) /\ helper' = "answers" /\ got' = got + 1
    BY <1>2, <1>6 DEF P!Fgets, P!NL
  <2>2. PICK m \in 1..MaxAnswer : rest' = [i \in 1..m |-> up[1]] \o <<0>>
    BY <2>1 DEF P!Answers, P!End
  <2>3. up[1] \in Nat /\ m \in Nat
    BY <1>0, <1>1, SizesOK
  <2> DEFINE x == [i \in 1..m |-> up[1]] \o <<0>>
  <2>4. /\ x \in Seq(Nat) /\ Len(x) = m + 1 /\ x[m + 1] = 0
        /\ \A i \in 1..m : x[i] = up[1]
    <3>1. [i \in 1..m |-> up[1]] \in Seq(Nat) /\ Len([i \in 1..m |-> up[1]]) = m
      BY <2>3
    <3> DEFINE w == [i \in 1..m |-> up[1]]
    <3>2. w \in Seq(Nat) /\ Len(w) = m /\ \A i \in 1..m : w[i] = up[1]
      BY <3>1
    <3> HIDE DEF w
    <3>3. w \o <<0>> \in Seq(Nat) /\ Len(w \o <<0>>) = m + 1 /\ (w \o <<0>>)[m + 1] = 0
          /\ \A i \in 1..m : (w \o <<0>>)[i] = up[1]
      BY <2>3, <3>2
    <3> QED  BY <3>3 DEF w
  <2>5. rest' = x
    BY <2>2
  <2> HIDE DEF x
  <2>6. Said' = Said \o x
    BY <1>2, <1>3, <2>5 DEF Said
  <2>7. Ordered(Said \o x, SubSeq(up, k + 1, Len(up)), typed)
    <3>1. \A i \in 1..Len(x) : x[i] \in {0, up[1]}
      BY <2>3, <2>4
    <3> HIDE DEF k
    <3> QED  BY <1>0, <1>1, <1>6, <2>4, <3>1, OrderedAnswers
  <2>8. P!Ends(Said \o x) = got + 1
    BY <1>3, <1>4, <1>6, <2>3, <2>4, EndsAdded
  <2>9. (Said \o x)[Len(Said \o x)] = 0
    <3>1. /\ Len(Said) \in Nat /\ Len(Said \o x) = Len(Said) + Len(x)
          /\ \A i \in 1..Len(Said) + Len(x) : i > Len(Said) => (Said \o x)[i] = x[i - Len(Said)]
      BY <1>3, <2>4, Places
    <3>2. Len(Said) + Len(x) \in 1..Len(Said) + Len(x) /\ Len(Said) + Len(x) > Len(Said)
          /\ Len(Said) + Len(x) - Len(Said) = m + 1
      BY <2>3, <2>4, <3>1
    <3> QED  BY <2>4, <3>1, <3>2
  <2>10. P!MarkersCount'
    <3>1. P!Ends(Said)' = got'
      <4>1. P!Ends(Said)' = P!Ends(Said \o x)
        BY <2>6 DEF P!Ends
      <4> QED  BY <2>1, <2>8, <4>1
    <3>2. \A i, j \in 1..Len(Said') : i < j /\ Said'[j] # 0 => Said'[i] <= Said'[j]
      BY <2>6, <2>7 DEF Ordered, Sorted
    <3>3. rest'[Len(rest')] = 0
      BY <2>4, <2>5
    <3>4. Said'[Len(Said')] = 0
      BY <2>6, <2>9
    <3> QED  BY <3>1, <3>2, <3>3, <3>4 DEF P!MarkersCount, Said, P!End, P!Last
  <2>11. shell' = "write" => \A i \in 1..Len(line') : line'[i] \in {0, typed'}
    BY <1>2 DEF PipeInv
  <2>12. /\ shown' \in Seq(Nat) /\ down' \in Seq(Nat) /\ rest' \in Seq(Nat)
         /\ line' \in Seq(Nat) /\ got' \in Nat /\ Ordered(Said', up', typed')
    BY <1>0, <1>2, <2>1, <2>4, <2>5, <2>6, <2>7 DEF PipeInv
  <2> QED  BY <2>1, <2>10, <2>11, <2>12 DEF PipeInv
<1> QED  BY <1>5, <1>6

PipeHolds == program = "pipe" => PipeInv

\* Whatever is typed, and however it is cut.
LEMMA PipeInvariance == Spec => []PipeHolds
<1>1. Init => PipeHolds
  BY PipeBegins DEF Init, PipeHolds
<1>2. PipeHolds /\ [Next]_vars => PipeHolds'
  <2> SUFFICES ASSUME PipeHolds, [Next]_vars, program' = "pipe" PROVE PipeInv'
    BY DEF PipeHolds
  <2>1. program = "pipe" /\ PipeInv
    BY DEF Next, vars, PipeHolds
  <2>2. P!Next \/ UNCHANGED <<shell, line, helper, typed, pipeOnly>>
    BY <2>1 DEF Next, vars
  <2>3. CASE P!Leaves \/ P!Closes \/ P!Waits \/ P!Starts \/ P!HelperEnds
    <3>1. /\ UNCHANGED <<up, down, rest, got, shown, line, typed>>
          /\ shell' = shell \/ shell' # "write"
          /\ helper' = helper \/ (helper \in {"starts", "reads"} /\ helper' \in {"reads", "ended"})
      BY <2>3 DEF P!Leaves, P!Closes, P!Waits, P!Starts, P!HelperEnds
    <3>2. helper' = helper \/ (rest = <<>> /\ helper' # "answers")
      BY <2>1, <3>1 DEF PipeInv
    <3> QED  BY <2>1, <3>1, <3>2, NothingMoves
  <2>4. CASE UNCHANGED <<shell, line, helper, typed, pipeOnly>>
    BY <2>1, <2>4, NothingMoves DEF pipeOnly
  <2> QED  BY <2>1, <2>2, <2>3, <2>4, TypesKeeps, WritesKeeps, ReadsKeeps, FgetsKeeps,
              PrintsKeeps DEF P!Next, P!ShellStep, P!HelperStep
<1> QED  BY <1>1, <1>2, PTL DEF Spec

-----------------------------------------------------------------------------
(* The shell with redirections.                                             *)

\* What holds of 0, and of k + 1 when of k, holds of every number.
LEMMA EveryNumber ==
    ASSUME NEW M, M \subseteq Nat, 0 \in M, \A k \in M : k + 1 \in M PROVE M = Nat
<1> SUFFICES ASSUME Nat \ M # {} PROVE FALSE
  OBVIOUS
<1>1. Nat \ M \subseteq Nat
  OBVIOUS
<1>2. PICK i \in Nat \ M : \A j \in Nat \ M : i <= j
  BY <1>1, LeastOne
<1>3. i - 1 \in Nat /\ i - 1 \in M
  BY <1>2
<1> QED  BY <1>2, <1>3

\* The loop over args, and the same over the words of the line, from their recurrences.
AtStart(words, garbage, found) ==
    [args |-> words, fds |-> garbage, filled |-> found \cup 1..Len(words), i |-> 1, ok |-> TRUE]

Turns(f, words, garbage, found, n) ==
    f = [k \in 0..n |-> IF k = 0 THEN AtStart(words, garbage, found) ELSE X!Turn(f[k - 1])]

Unread == [skip |-> FALSE, failed |-> FALSE, kept |-> <<>>]

Pass(b, words, k) ==
    LET redirects == ~b.skip /\ ~b.failed /\ words[k] \in X!Redirections
        fails == redirects /\ (k = Len(words) \/ words[k + 1] = "bad")
    IN  [skip |-> redirects /\ ~fails,
         failed |-> b.failed \/ fails,
         kept |-> IF b.skip \/ (redirects /\ ~fails) THEN b.kept ELSE Append(b.kept, words[k])]

Passes(g, words, n) == g = [k \in 0..n |-> IF k = 0 THEN Unread ELSE Pass(g[k - 1], words, k)]

\* The loop is defined.
LEMMA LoopDefined ==
    ASSUME NEW words, NEW garbage, NEW found, NEW n \in Nat
    PROVE  \E f : Turns(f, words, garbage, found, n)
<1> DEFINE start == AtStart(words, garbage, found)
           M == {m \in Nat : \E f : Turns(f, words, garbage, found, m)}
<1> HIDE DEF start
<1>1. 0 \in M
  <2>1. Turns([k \in 0..0 |-> start], words, garbage, found, 0)
    BY DEF Turns, start
  <2> QED  BY <2>1
<1>2. ASSUME NEW m \in M PROVE m + 1 \in M
  <2>1. PICK f : Turns(f, words, garbage, found, m)
    BY <1>2
  <2> DEFINE h == [k \in 0..(m + 1) |-> IF k <= m THEN f[k] ELSE X!Turn(f[m])]
  <2>2. \A k \in 0..m : f[k] = IF k = 0 THEN start ELSE X!Turn(f[k - 1])
    BY <2>1 DEF Turns, start
  <2>3. ASSUME NEW k \in 0..(m + 1)
        PROVE h[k] = IF k = 0 THEN start ELSE X!Turn(h[k - 1])
    <3>1. CASE k = 0
      BY <2>2, <3>1
    <3>2. CASE k # 0
      <4>1. k - 1 \in 0..m /\ h[k - 1] = f[k - 1]
        BY <3>2
      <4>2. CASE k <= m
        BY <2>2, <3>2, <4>1, <4>2
      <4>3. CASE k = m + 1
        <5>1. k - 1 = m /\ ~(k <= m)
          BY <4>3
        <5>2. h[k] = X!Turn(f[m])
          BY <5>1
        <5> QED  BY <3>2, <4>1, <5>1, <5>2
      <4> QED  BY <4>2, <4>3
    <3> QED  BY <3>1, <3>2
  <2>4. h = [k \in 0..(m + 1) |-> h[k]]
    OBVIOUS
  <2> HIDE DEF h
  <2>5. Turns(h, words, garbage, found, m + 1)
    BY <2>3, <2>4 DEF Turns, start
  <2> QED  BY <2>5
<1>3. M = Nat
  <2> HIDE DEF M
  <2>1. M \subseteq Nat
    BY DEF M
  <2> QED  BY <1>1, <1>2, <2>1, EveryNumber
<1> QED  BY <1>3

\* The passage over the words is defined.
LEMMA PassageDefined ==
    ASSUME NEW words, NEW n \in Nat PROVE \E g : Passes(g, words, n)
<1> DEFINE M == {m \in Nat : \E g : Passes(g, words, m)}
<1>1. 0 \in M
  <2>1. Passes([k \in 0..0 |-> Unread], words, 0)
    BY DEF Passes
  <2> QED  BY <2>1
<1>2. ASSUME NEW m \in M PROVE m + 1 \in M
  <2>1. PICK g : Passes(g, words, m)
    BY <1>2
  <2> DEFINE h == [k \in 0..(m + 1) |-> IF k <= m THEN g[k] ELSE Pass(g[m], words, m + 1)]
  <2>2. \A k \in 0..m : g[k] = IF k = 0 THEN Unread ELSE Pass(g[k - 1], words, k)
    BY <2>1 DEF Passes
  <2>3. ASSUME NEW k \in 0..(m + 1)
        PROVE h[k] = IF k = 0 THEN Unread ELSE Pass(h[k - 1], words, k)
    <3>1. CASE k = 0
      BY <2>2, <3>1
    <3>2. CASE k # 0
      <4>1. k - 1 \in 0..m /\ h[k - 1] = g[k - 1]
        BY <3>2
      <4>2. CASE k <= m
        BY <2>2, <3>2, <4>1, <4>2
      <4>3. CASE k = m + 1
        <5>1. k - 1 = m /\ ~(k <= m)
          BY <4>3
        <5>2. h[k] = Pass(g[m], words, m + 1)
          BY <5>1
        <5> QED  BY <3>2, <4>1, <4>3, <5>1, <5>2
      <4> QED  BY <4>2, <4>3
    <3> QED  BY <3>1, <3>2
  <2>4. h = [k \in 0..(m + 1) |-> h[k]]
    OBVIOUS
  <2> HIDE DEF h
  <2>5. Passes(h, words, m + 1)
    BY <2>3, <2>4 DEF Passes
  <2> QED  BY <2>5
<1>3. M = Nat
  <2> HIDE DEF M
  <2>1. M \subseteq Nat
    BY DEF M
  <2> QED  BY <1>1, <1>2, <2>1, EveryNumber
<1> QED  BY <1>3

\* X!Redirect is where the loop ends, X!Understood where the passage does.
LEMMA WhereTheyEnd ==
    ASSUME NEW words, NEW garbage, NEW found, Len(words) \in Nat
    PROVE  \E f, g : /\ Turns(f, words, garbage, found, Len(words))
                     /\ Passes(g, words, Len(words))
                     /\ X!Redirect(words, garbage, found) = f[Len(words)]
                     /\ X!Understood(words) = g[Len(words)]
<1> DEFINE n == Len(words)
           f == CHOOSE f : Turns(f, words, garbage, found, n)
           g == CHOOSE g : Passes(g, words, n)
<1>1. Turns(f, words, garbage, found, n)
  BY LoopDefined
<1>2. Passes(g, words, n)
  BY PassageDefined
<1>3. X!Redirect(words, garbage, found) = f[n]
  BY DEF X!Redirect, Turns, AtStart
<1>4. X!Understood(words) = g[n]
  BY DEF X!Understood, Passes, Unread, Pass
<1> QED  BY <1>1, <1>2, <1>3, <1>4

\* The words from the c-th on.
From(words, c) == SubSeq(words, c + 1, Len(words))

\* What is left behind the first c words.
LEMMA WordsBehind ==
    ASSUME NEW words \in Seq(Words), NEW c \in 0..Len(words)
    PROVE  /\ From(words, c) \in Seq(Words)
           /\ Len(words) \in Nat /\ Len(From(words, c)) = Len(words) - c
           /\ \A i \in 1..Len(words) - c : From(words, c)[i] = words[c + i]
<1>1. Len(words) \in Nat /\ \A i \in 1..Len(words) : words[i] \in Words
  OBVIOUS
<1>2. c + 1 \in Int /\ Len(words) \in Int /\ \A i \in (c + 1)..Len(words) : words[i] \in Words
  BY <1>1
<1>3. /\ From(words, c) \in Seq(Words)
      /\ Len(From(words, c))
           = IF c + 1 <= Len(words) THEN Len(words) - (c + 1) + 1 ELSE 0
      /\ \A i \in 1..(Len(words) - (c + 1) + 1) : From(words, c)[i] = words[(c + 1) + i - 1]
  BY <1>2, SubSeqProperties DEF From
<1>4. \A i \in 1..Len(words) - c : From(words, c)[i] = words[c + i]
  <2>1. ASSUME NEW i \in 1..Len(words) - c PROVE From(words, c)[i] = words[c + i]
    <3>1. i \in 1..(Len(words) - (c + 1) + 1) /\ (c + 1) + i - 1 = c + i
      BY <1>1
    <3> QED  BY <1>3, <3>1
  <2> QED  BY <2>1
<1> QED  BY <1>1, <1>3, <1>4

\* Place by place, of words.
LEMMA WordPlaces ==
    ASSUME NEW a \in Seq(Words), NEW b \in Seq(Words)
    PROVE  /\ a \o b \in Seq(Words) /\ Len(a) \in Nat /\ Len(b) \in Nat
           /\ Len(a \o b) = Len(a) + Len(b)
           /\ \A i \in 1..Len(a) : (a \o b)[i] = a[i]
           /\ \A i \in 1..Len(a) + Len(b) : i > Len(a) => (a \o b)[i] = b[i - Len(a)]
OBVIOUS

\* The word that comes next goes to the words kept.
LEMMA OneKept ==
    ASSUME NEW a \in Seq(Words), NEW words \in Seq(Words), NEW c \in 0..Len(words),
           c < Len(words)
    PROVE  /\ a \o From(words, c) = Append(a, words[c + 1]) \o From(words, c + 1)
           /\ Append(a, words[c + 1]) \in Seq(Words)
           /\ Len(Append(a, words[c + 1])) = Len(a) + 1
<1> DEFINE b == From(words, c)
           d == From(words, c + 1)
           w == words[c + 1]
           p == Append(a, w)
<1>0. Len(words) \in Nat /\ w \in Words /\ c + 1 \in 0..Len(words)
  <2>1. Len(words) \in Nat /\ c + 1 \in 1..Len(words)
    OBVIOUS
  <2> QED  BY <2>1
<1>1. /\ b \in Seq(Words) /\ Len(b) = Len(words) - c
      /\ \A i \in 1..Len(words) - c : b[i] = words[c + i]
  BY WordsBehind
<1>2. /\ d \in Seq(Words) /\ Len(d) = Len(words) - (c + 1)
      /\ \A i \in 1..Len(words) - (c + 1) : d[i] = words[(c + 1) + i]
  BY <1>0, WordsBehind
<1>3. /\ p \in Seq(Words) /\ Len(p) = Len(a) + 1 /\ p[Len(a) + 1] = w /\ Len(a) \in Nat
      /\ \A i \in 1..Len(a) : p[i] = a[i]
  BY <1>0
<1> HIDE DEF b, d, p
<1>4. /\ a \o b \in Seq(Words) /\ Len(a \o b) = Len(a) + Len(b)
      /\ \A i \in 1..Len(a) : (a \o b)[i] = a[i]
      /\ \A i \in 1..Len(a) + Len(b) : i > Len(a) => (a \o b)[i] = b[i - Len(a)]
  BY <1>1, WordPlaces
<1>5. /\ p \o d \in Seq(Words) /\ Len(p \o d) = Len(p) + Len(d)
      /\ \A i \in 1..Len(p) : (p \o d)[i] = p[i]
      /\ \A i \in 1..Len(p) + Len(d) : i > Len(p) => (p \o d)[i] = d[i - Len(p)]
  BY <1>2, <1>3, WordPlaces
<1> DEFINE l == a \o b
           r == p \o d
<1> HIDE DEF l, r
<1>6. l \in Seq(Words) /\ r \in Seq(Words) /\ Len(l) = Len(r) /\ Len(l) = Len(a) + Len(words) - c
  BY <1>0, <1>1, <1>2, <1>3, <1>4, <1>5 DEF l, r
<1>7. ASSUME NEW i \in 1..Len(l) PROVE l[i] = r[i]
  <2>1. CASE i <= Len(a)
    <3>1. i \in 1..Len(a) /\ i \in 1..Len(p)
      BY <1>3, <2>1
    <3>2. l[i] = a[i] /\ r[i] = p[i]
      BY <1>4, <1>5, <3>1 DEF l, r
    <3> QED  BY <1>3, <3>1, <3>2
  <2>2. CASE i = Len(a) + 1
    <3>1. i \in 1..Len(a) + Len(b) /\ i > Len(a) /\ i - Len(a) = 1 /\ i \in 1..Len(p)
      BY <1>0, <1>1, <1>3, <2>2
    <3>2. l[i] = b[1] /\ r[i] = p[i]
      BY <1>4, <1>5, <3>1 DEF l, r
    <3>3. b[1] = w
      <4>1. 1 \in 1..Len(words) - c
        BY <1>0
      <4> QED  BY <1>1, <4>1
    <3> QED  BY <1>3, <2>2, <3>2, <3>3
  <2>3. CASE i > Len(a) + 1
    <3>1. /\ i \in 1..Len(a) + Len(b) /\ i > Len(a) /\ i \in 1..Len(p) + Len(d) /\ i > Len(p)
          /\ i - Len(a) \in 1..Len(words) - c /\ i - Len(p) \in 1..Len(words) - (c + 1)
          /\ c + (i - Len(a)) = (c + 1) + (i - Len(p))
      BY <1>0, <1>1, <1>2, <1>3, <1>6, <2>3
    <3>2. l[i] = b[i - Len(a)] /\ r[i] = d[i - Len(p)]
      BY <1>4, <1>5, <3>1 DEF l, r
    <3>3. b[i - Len(a)] = words[c + (i - Len(a))] /\ d[i - Len(p)] = words[(c + 1) + (i - Len(p))]
      BY <1>1, <1>2, <3>1
    <3> QED  BY <3>1, <3>2, <3>3
  <2>4. i <= Len(a) \/ i = Len(a) + 1 \/ i > Len(a) + 1
    BY <1>3, <1>6
  <2> QED  BY <2>1, <2>2, <2>3, <2>4
<1>8. l = r
  BY <1>6, <1>7, SeqEqual
<1> QED  BY <1>3, <1>8 DEF l, r, b, d, p

\* A word is taken out from behind the words kept.
LEMMA OneRemoved ==
    ASSUME NEW a \in Seq(Words), NEW words \in Seq(Words), NEW c \in 0..Len(words),
           c < Len(words)
    PROVE  X!RemoveAt(a \o From(words, c), Len(a) + 1) = a \o From(words, c + 1)
<1> DEFINE b == From(words, c)
           d == From(words, c + 1)
           s == a \o b
           i == Len(a) + 1
           low == SubSeq(s, 1, i - 1)
           high == SubSeq(s, i + 1, Len(s))
<1>0. Len(words) \in Nat /\ c + 1 \in 0..Len(words) /\ Len(a) \in Nat
  OBVIOUS
<1>1. /\ b \in Seq(Words) /\ Len(b) = Len(words) - c
      /\ \A j \in 1..Len(words) - c : b[j] = words[c + j]
  BY WordsBehind
<1>2. /\ d \in Seq(Words) /\ Len(d) = Len(words) - (c + 1)
      /\ \A j \in 1..Len(words) - (c + 1) : d[j] = words[(c + 1) + j]
  BY <1>0, WordsBehind
<1> HIDE DEF b, d
<1>3. /\ s \in Seq(Words) /\ Len(s) = Len(a) + Len(b)
      /\ \A j \in 1..Len(a) : s[j] = a[j]
      /\ \A j \in 1..Len(a) + Len(b) : j > Len(a) => s[j] = b[j - Len(a)]
  BY <1>1, WordPlaces
<1> HIDE DEF s
<1>4. i - 1 = Len(a) /\ Len(a) < Len(s) /\ i \in 0..Len(s)
  BY <1>0, <1>1, <1>3
<1>5. low = a
  <2>1. \A j \in 1..Len(a) : s[j] \in Words
    BY <1>0, <1>3, <1>4
  <2>2. low \in Seq(Words) /\ Len(low) = Len(a) /\ \A j \in 1..Len(a) : low[j] = s[j]
    BY <1>0, <1>4, <2>1, SubSeqProperties
  <2> HIDE DEF low
  <2> QED  BY <1>3, <2>2, SeqEqual
<1>6. high = d
  <2>1. high = From(s, i)
    BY DEF From
  <2>2. /\ high \in Seq(Words) /\ Len(high) = Len(s) - i
        /\ \A j \in 1..Len(s) - i : high[j] = s[i + j]
    <3>1. s \in Seq(Words)
      BY <1>3
    <3> HIDE DEF high, i
    <3>2. /\ From(s, i) \in Seq(Words) /\ Len(From(s, i)) = Len(s) - i
          /\ \A j \in 1..Len(s) - i : From(s, i)[j] = s[i + j]
      BY <1>4, <3>1, WordsBehind
    <3> QED  BY <2>1, <3>2
  <2> HIDE DEF high
  <2>3. Len(high) = Len(d)
    BY <1>0, <1>1, <1>2, <1>3, <2>2
  <2>4. ASSUME NEW j \in 1..Len(d) PROVE high[j] = d[j]
    <3>1. /\ j \in 1..Len(s) - i /\ i + j \in 1..Len(a) + Len(b) /\ i + j > Len(a)
          /\ (i + j) - Len(a) = 1 + j /\ 1 + j \in 1..Len(words) - c
          /\ j \in 1..Len(words) - (c + 1) /\ c + (1 + j) = (c + 1) + j
      BY <1>0, <1>1, <1>2, <1>3
    <3>2. high[j] = s[i + j] /\ s[i + j] = b[(i + j) - Len(a)]
      BY <1>3, <2>2, <3>1
    <3>3. b[1 + j] = words[c + (1 + j)] /\ d[j] = words[(c + 1) + j]
      BY <1>1, <1>2, <3>1
    <3> QED  BY <3>1, <3>2, <3>3
  <2> QED  BY <1>2, <2>2, <2>3, <2>4, SeqEqual
<1>7. X!RemoveAt(s, i) = low \o high
  BY DEF X!RemoveAt
<1> HIDE DEF low, high
<1>8. X!RemoveAt(s, i) = a \o d
  BY <1>5, <1>6, <1>7
<1> QED  BY <1>8 DEF s, d, b

\* A state of the loop.
Loop(s) ==
    /\ s = [args |-> s.args, fds |-> s.fds, filled |-> s.filled, i |-> s.i, ok |-> s.ok]
    /\ s.ok \in BOOLEAN

\* The places of args that are not NULL: none that was NULL in the memory found and had no word,
\* and once a redirection has been taken out, not the one behind the words.
EndOf(s, words, found) ==
    /\ s.filled \subseteq found \cup 1..Len(words)
    /\ s.args = words \/ Len(s.args) + 1 \notin s.filled

\* The loop is past what the passage g has kept of the first c words, or has failed like it, and
\* has the words behind them still to go; after k turns that is at least k words.
Along(s, g, words, found, c, k) ==
    /\ c >= k \/ c = Len(words)
    /\ g[c].skip = FALSE /\ g[c].failed = ~s.ok /\ g[c].kept \in Seq(Words)
    /\ s.ok = TRUE => s.i = Len(g[c].kept) + 1
    /\ s.args = g[c].kept \o From(words, c)
    /\ EndOf(s, words, found)

\* What a turn does with the word it is at.
LEMMA TurnOf ==
    ASSUME NEW s, Loop(s), NEW t, t = X!Turn(s)
    PROVE  /\ Loop(t)
           /\ s.ok = FALSE \/ s.i > Len(s.args) => t = s
           /\ s.ok = TRUE /\ ~(s.i > Len(s.args)) /\ s.args[s.i] \notin X!Redirections =>
                /\ t.ok = TRUE /\ t.i = s.i + 1 /\ t.args = s.args /\ t.filled = s.filled
           /\ s.ok = TRUE /\ ~(s.i > Len(s.args)) /\ s.args[s.i] \in X!Redirections =>
                IF s.i = Len(s.args) \/ s.args[s.i + 1] = "bad"
                THEN t.ok = FALSE /\ t.args = s.args /\ t.filled = s.filled
                ELSE /\ t.ok = TRUE /\ t.i = s.i
                     /\ t.args = X!RemoveAt(X!RemoveAt(s.args, s.i), s.i)
                     /\ t.filled = s.filled \ {Len(s.args) - 1}
<1> DEFINE i == s.i
           a == s.args
           fd == X!Opened(a[i], a[i + 1])
           opened == [s.fds EXCEPT ![a[i]] = fd]
<1>0. s = [args |-> a, fds |-> s.fds, filled |-> s.filled, i |-> i, ok |-> s.ok] /\ s.ok \in BOOLEAN
  BY DEF Loop
<1>1. CASE s.ok = FALSE \/ i > Len(a)
  <2>1. t = s
    BY <1>1 DEF X!Turn
  <2> QED  BY <1>0, <1>1, <2>1 DEF Loop
<1>2. CASE s.ok = TRUE /\ ~(i > Len(a)) /\ a[i] \notin X!Redirections
  <2>1. t = [s EXCEPT !.i = i + 1]
    BY <1>2 DEF X!Turn
  <2>2. t = [args |-> a, fds |-> s.fds, filled |-> s.filled, i |-> i + 1, ok |-> TRUE]
    BY <1>0, <1>2, <2>1
  <2> QED  BY <1>2, <2>2 DEF Loop
<1>3. CASE s.ok = TRUE /\ ~(i > Len(a)) /\ a[i] \in X!Redirections
  <2>0. fd = -1 <=> a[i + 1] = "bad"
    BY DEF X!Opened
  <2>1. t = IF i = Len(a) THEN [s EXCEPT !.ok = FALSE]
            ELSE IF fd = -1 THEN [s EXCEPT !.fds[a[i]] = fd, !.ok = FALSE]
            ELSE [s EXCEPT !.fds[a[i]] = fd, !.args = X!RemoveAt(X!RemoveAt(@, i), i),
                           !.filled = @ \ {Len(a) - 1}]
    BY <1>3 DEF X!Turn
  <2> HIDE DEF fd
  <2>2. CASE i = Len(a)
    <3>1. t = [args |-> a, fds |-> s.fds, filled |-> s.filled, i |-> i, ok |-> FALSE]
      BY <1>0, <2>1, <2>2
    <3> QED  BY <1>3, <2>2, <3>1 DEF Loop
  <2>3. CASE i # Len(a) /\ fd = -1
    <3>1. t = [args |-> a, fds |-> opened, filled |-> s.filled, i |-> i, ok |-> FALSE]
      BY <1>0, <2>1, <2>3
    <3> HIDE DEF opened
    <3> QED  BY <1>3, <2>0, <2>3, <3>1 DEF Loop
  <2>4. CASE i # Len(a) /\ fd # -1
    <3>1. t = [args |-> X!RemoveAt(X!RemoveAt(a, i), i), fds |-> opened,
               filled |-> s.filled \ {Len(a) - 1}, i |-> i, ok |-> TRUE]
      BY <1>0, <1>3, <2>1, <2>4
    <3> HIDE DEF opened
    <3> QED  BY <1>3, <2>0, <2>4, <3>1 DEF Loop
  <2> QED  BY <2>2, <2>3, <2>4
<1> QED  BY <1>0, <1>1, <1>2, <1>3

\* What the passage does with word k when it is at b: r.
Passed(b, words, k, r) ==
    /\ b.skip = TRUE => r.skip = FALSE /\ r.failed = b.failed /\ r.kept = b.kept
    /\ b.skip = FALSE /\ (b.failed = TRUE \/ words[k] \notin X!Redirections) =>
         r.skip = FALSE /\ r.failed = b.failed /\ r.kept = Append(b.kept, words[k])
    /\ b.skip = FALSE /\ b.failed = FALSE /\ words[k] \in X!Redirections =>
         IF k = Len(words) \/ words[k + 1] = "bad"
         THEN r.skip = FALSE /\ r.failed = TRUE /\ r.kept = Append(b.kept, words[k])
         ELSE r.skip = TRUE /\ r.failed = FALSE /\ r.kept = b.kept

LEMMA PassOf ==
    ASSUME NEW b, NEW words, NEW k, b.skip \in BOOLEAN, b.failed \in BOOLEAN
    PROVE  Passed(b, words, k, Pass(b, words, k))
<1> DEFINE r == Pass(b, words, k)
           w == words[k] \in X!Redirections
           e == k = Len(words) \/ words[k + 1] = "bad"
           redirects == ~b.skip /\ ~b.failed /\ w
           fails == redirects /\ e
           more == Append(b.kept, words[k])
           skip == redirects /\ ~fails
           failed == b.failed \/ fails
           kept == IF b.skip \/ (redirects /\ ~fails) THEN b.kept ELSE more
<1>1. r = [skip |-> skip, failed |-> failed, kept |-> kept]
  BY DEF Pass
<1> HIDE DEF r, w, e, more
<1>2. r.skip = skip /\ r.failed = failed /\ r.kept = kept
  <2> HIDE DEF skip, failed, kept
  <2> QED  BY <1>1, Zenon
<1> DEFINE Result ==
      /\ b.skip = TRUE => r.skip = FALSE /\ r.failed = b.failed /\ r.kept = b.kept
      /\ b.skip = FALSE /\ (b.failed = TRUE \/ ~w) =>
           r.skip = FALSE /\ r.failed = b.failed /\ r.kept = more
      /\ b.skip = FALSE /\ b.failed = FALSE /\ w =>
           IF e THEN r.skip = FALSE /\ r.failed = TRUE /\ r.kept = more
           ELSE r.skip = TRUE /\ r.failed = FALSE /\ r.kept = b.kept
<1>3. ASSUME b.skip = TRUE PROVE Result
  BY <1>2, <1>3, Zenon
<1>4. ASSUME b.skip = FALSE, b.failed = TRUE PROVE Result
  BY <1>2, <1>4, Zenon
<1>5. ASSUME b.skip = FALSE, b.failed = FALSE PROVE Result
  <2>1. CASE ~w
    BY <1>2, <1>5, <2>1, Zenon
  <2>2. CASE w /\ e
    BY <1>2, <1>5, <2>2, Zenon
  <2>3. CASE w /\ ~e
    BY <1>2, <1>5, <2>3, Zenon
  <2> QED  BY <2>1, <2>2, <2>3
<1>6. Result
  BY <1>3, <1>4, <1>5
<1> QED  BY <1>6 DEF Passed, r, w, e, more

\* A turn takes one word, or a redirection and its file.
LEMMA TurnGoesAlong ==
    ASSUME NEW words \in Seq(Words), NEW found, NEW g, Passes(g, words, Len(words)),
           NEW c \in 0..Len(words), NEW k \in Nat, NEW s, Loop(s),
           Along(s, g, words, found, c, k)
    PROVE  \E e \in 0..Len(words) : Along(X!Turn(s), g, words, found, e, k + 1)
<1> DEFINE n == Len(words)
           t == X!Turn(s)
           a == g[c].kept
<1>0. n \in Nat /\ s.ok \in BOOLEAN /\ c \in Nat
  BY DEF Loop
<1>1. /\ Loop(t)
      /\ s.ok = FALSE \/ s.i > Len(s.args) => t = s
      /\ s.ok = TRUE /\ ~(s.i > Len(s.args)) /\ s.args[s.i] \notin X!Redirections =>
           /\ t.ok = TRUE /\ t.i = s.i + 1 /\ t.args = s.args /\ t.filled = s.filled
      /\ s.ok = TRUE /\ ~(s.i > Len(s.args)) /\ s.args[s.i] \in X!Redirections =>
           IF s.i = Len(s.args) \/ s.args[s.i + 1] = "bad"
           THEN t.ok = FALSE /\ t.args = s.args /\ t.filled = s.filled
           ELSE /\ t.ok = TRUE /\ t.i = s.i
                /\ t.args = X!RemoveAt(X!RemoveAt(s.args, s.i), s.i)
                /\ t.filled = s.filled \ {Len(s.args) - 1}
  BY TurnOf
<1> HIDE DEF t
<1>2. /\ c >= k \/ c = n
      /\ g[c].skip = FALSE /\ g[c].failed = ~s.ok /\ a \in Seq(Words) /\ Len(a) \in Nat
      /\ s.ok = TRUE => s.i = Len(a) + 1
      /\ s.args = a \o From(words, c)
      /\ EndOf(s, words, found)
  BY DEF Along
<1> HIDE DEF a
<1>3. /\ Len(s.args) = Len(a) + (n - c)
      /\ \A j \in 1..n - c : s.args[Len(a) + j] = words[c + j]
  <2>1. /\ From(words, c) \in Seq(Words) /\ Len(From(words, c)) = n - c
        /\ \A j \in 1..n - c : From(words, c)[j] = words[c + j]
    BY WordsBehind
  <2>2. /\ Len(a \o From(words, c)) = Len(a) + Len(From(words, c))
        /\ \A j \in 1..Len(a) + Len(From(words, c)) :
             j > Len(a) => (a \o From(words, c))[j] = From(words, c)[j - Len(a)]
    BY <1>2, <2>1, WordPlaces
  <2>3. ASSUME NEW j \in 1..n - c PROVE s.args[Len(a) + j] = words[c + j]
    <3>1. /\ Len(a) + j \in 1..Len(a) + Len(From(words, c)) /\ Len(a) + j > Len(a)
          /\ (Len(a) + j) - Len(a) = j
      BY <1>0, <1>2, <2>1
    <3> QED  BY <1>2, <2>1, <2>2, <3>1
  <2> QED  BY <1>2, <2>1, <2>2, <2>3
<1>4. CASE c = n
  <2>1. s.ok = TRUE => s.i > Len(s.args)
    BY <1>0, <1>2, <1>3, <1>4
  <2>2. t = s
    BY <1>0, <1>1, <2>1
  <2>3. Along(t, g, words, found, c, k + 1)
    BY <1>2, <1>4, <2>2 DEF Along, a
  <2> QED  BY <2>3 DEF t
<1>5. CASE c < n
  <2> DEFINE w == words[c + 1]
  <2>0. c + 1 \in 0..n /\ c + 1 # 0 /\ (c + 1) - 1 = c /\ (c + 1 >= k + 1 \/ c + 1 = n)
    BY <1>0, <1>2, <1>5
  <2>1. g[c + 1] = Pass(g[c], words, c + 1)
    BY <2>0 DEF Passes
  <2>2. /\ g[c].skip \in BOOLEAN /\ g[c].failed \in BOOLEAN
        /\ g[c].failed = TRUE <=> s.ok = FALSE
    BY <1>0, <1>2
  <2>3. /\ s.ok = FALSE \/ w \notin X!Redirections =>
             /\ g[c + 1].skip = FALSE /\ g[c + 1].failed = g[c].failed
             /\ g[c + 1].kept = Append(a, w)
        /\ s.ok = TRUE /\ w \in X!Redirections =>
             IF c + 1 = n \/ words[(c + 1) + 1] = "bad"
             THEN g[c + 1].skip = FALSE /\ g[c + 1].failed = TRUE /\ g[c + 1].kept = Append(a, w)
             ELSE g[c + 1].skip = TRUE /\ g[c + 1].failed = FALSE /\ g[c + 1].kept = a
    <3> DEFINE b == g[c]
               r == g[c + 1]
               m == c + 1
    <3>1. r = Pass(b, words, m) /\ b.skip \in BOOLEAN /\ b.failed \in BOOLEAN
      BY <2>1, <2>2
    <3>2. b.skip = FALSE /\ (b.failed = TRUE <=> s.ok = FALSE) /\ b.kept = a
      BY <1>2, <2>2 DEF a
    <3> HIDE DEF b, r, m
    <3>3. Passed(b, words, m, r)
      BY <3>1, PassOf
    <3>4. /\ s.ok = FALSE \/ words[m] \notin X!Redirections =>
               r.skip = FALSE /\ r.failed = b.failed /\ r.kept = Append(a, words[m])
          /\ s.ok = TRUE /\ words[m] \in X!Redirections =>
               IF m = Len(words) \/ words[m + 1] = "bad"
               THEN r.skip = FALSE /\ r.failed = TRUE /\ r.kept = Append(a, words[m])
               ELSE r.skip = TRUE /\ r.failed = FALSE /\ r.kept = a
      BY <1>0, <3>1, <3>2, <3>3 DEF Passed
    <3> QED  BY <3>4 DEF b, r, m
  <2>4. /\ s.args = Append(a, w) \o From(words, c + 1)
        /\ Append(a, w) \in Seq(Words) /\ Len(Append(a, w)) = Len(a) + 1
    BY <1>2, <1>5, OneKept
  <2>5. s.ok = TRUE => ~(s.i > Len(s.args)) /\ s.args[s.i] = w
    <3>1. 1 \in 1..n - c
      BY <1>0, <1>5
    <3>2. s.args[Len(a) + 1] = w
      BY <1>3, <3>1
    <3> QED  BY <1>0, <1>2, <1>3, <1>5, <3>2
  <2>6. s.ok = TRUE =>
          /\ s.i = Len(s.args) <=> c + 1 = n
          /\ c + 1 # n => s.args[s.i + 1] = words[(c + 1) + 1]
    <3>1. ASSUME s.ok = TRUE PROVE s.i = Len(s.args) <=> c + 1 = n
      BY <1>0, <1>2, <1>3, <3>1
    <3>2. ASSUME s.ok = TRUE, c + 1 # n PROVE s.args[s.i + 1] = words[(c + 1) + 1]
      <4>1. 2 \in 1..n - c /\ s.i + 1 = Len(a) + 2 /\ (c + 1) + 1 = c + 2
        BY <1>0, <1>2, <1>5, <3>2
      <4>2. s.args[Len(a) + 2] = words[c + 2]
        BY <1>3, <4>1
      <4> QED  BY <4>1, <4>2
    <3> QED  BY <3>1, <3>2
  <2> HIDE DEF w
  <2>7. CASE s.ok = FALSE
    <3>1. t = s
      BY <1>1, <2>7
    <3>2. Along(t, g, words, found, c + 1, k + 1)
      BY <1>2, <2>0, <2>3, <2>4, <2>7, <3>1 DEF Along
    <3> QED  BY <2>0, <3>2 DEF t
  <2>8. CASE s.ok = TRUE /\ w \notin X!Redirections
    <3>1. /\ t.ok = s.ok /\ t.i = s.i + 1 /\ t.args = s.args /\ t.filled = s.filled
      BY <1>1, <2>5, <2>8
    <3>2. t.i = Len(Append(a, w)) + 1
      BY <1>2, <2>4, <2>8, <3>1
    <3>3. EndOf(t, words, found)
      BY <1>2, <3>1 DEF EndOf
    <3>4. Along(t, g, words, found, c + 1, k + 1)
      BY <1>2, <2>0, <2>3, <2>4, <2>8, <3>1, <3>2, <3>3 DEF Along
    <3> QED  BY <2>0, <3>4 DEF t
  <2>9. CASE s.ok = TRUE /\ w \in X!Redirections /\ (c + 1 = n \/ words[(c + 1) + 1] = "bad")
    <3>1. /\ t.ok = FALSE /\ t.args = s.args /\ t.filled = s.filled
      BY <1>1, <2>5, <2>6, <2>9
    <3>2. EndOf(t, words, found)
      BY <1>2, <3>1 DEF EndOf
    <3>3. g[c + 1].skip = FALSE /\ g[c + 1].failed = TRUE /\ g[c + 1].kept = Append(a, w)
      BY <2>3, <2>9
    <3>4. Along(t, g, words, found, c + 1, k + 1)
      BY <2>0, <2>4, <3>1, <3>2, <3>3 DEF Along
    <3> QED  BY <2>0, <3>4 DEF t
  <2>10. CASE /\ s.ok = TRUE /\ w \in X!Redirections
              /\ c + 1 # n /\ words[(c + 1) + 1] # "bad"
    <3>1. /\ t.ok = TRUE /\ t.i = s.i
          /\ t.args = X!RemoveAt(X!RemoveAt(s.args, s.i), s.i)
          /\ t.filled = s.filled \ {Len(s.args) - 1}
      BY <1>1, <2>5, <2>6, <2>10
    <3>2. c + 2 \in 0..n /\ c + 2 # 0 /\ (c + 2) - 1 = c + 1 /\ (c + 1) + 1 = c + 2
      BY <1>0, <1>5, <2>10
    <3>3. g[c + 2] = Pass(g[c + 1], words, c + 2)
      BY <3>2 DEF Passes
    <3>4. g[c + 1].skip = TRUE /\ g[c + 1].failed = FALSE /\ g[c + 1].kept = a
      BY <2>3, <2>10
    <3>5. g[c + 2].skip = FALSE /\ g[c + 2].failed = FALSE /\ g[c + 2].kept = a
      <4> DEFINE b == g[c + 1]
                 r == g[c + 2]
                 m == c + 2
      <4>1. r = Pass(b, words, m) /\ b.skip = TRUE /\ b.failed = FALSE /\ b.kept = a
        BY <3>3, <3>4
      <4> HIDE DEF b, r, m
      <4>2. b.skip \in BOOLEAN /\ b.failed \in BOOLEAN
        BY <4>1
      <4>3. Passed(b, words, m, r)
        BY <4>1, <4>2, PassOf
      <4>4. r.skip = FALSE /\ r.failed = b.failed /\ r.kept = b.kept
        BY <4>1, <4>3 DEF Passed
      <4> QED  BY <4>1, <4>4 DEF r
    <3>6. t.args = a \o From(words, c + 2)
      <4>1. X!RemoveAt(a \o From(words, c), Len(a) + 1) = a \o From(words, c + 1)
        BY <1>2, <1>5, OneRemoved
      <4>2. X!RemoveAt(a \o From(words, c + 1), Len(a) + 1) = a \o From(words, (c + 1) + 1)
        <5>1. c + 1 < n
          BY <1>0, <1>5, <2>10
        <5> QED  BY <1>2, <2>0, <5>1, OneRemoved
      <4> QED  BY <1>2, <2>10, <3>1, <3>2, <4>1, <4>2
    <3>7. Len(t.args) = Len(s.args) - 2
      <4>1. From(words, c + 2) \in Seq(Words) /\ Len(From(words, c + 2)) = n - (c + 2)
        BY <3>2, WordsBehind
      <4>2. Len(a \o From(words, c + 2)) = Len(a) + Len(From(words, c + 2))
        BY <1>2, <4>1, WordPlaces
      <4>3. Len(t.args) = Len(a) + (n - (c + 2))
        BY <3>6, <4>1, <4>2
      <4>4. n - (c + 2) = (n - c) - 2 /\ n - c \in Nat
        BY <1>0, <3>2
      <4> DEFINE l == Len(t.args)
                 o == Len(s.args)
                 d == n - c
                 v == Len(a)
      <4>5. l = v + (d - 2) /\ o = v + d /\ v \in Nat /\ d \in Nat
        BY <1>2, <1>3, <4>3, <4>4
      <4> HIDE DEF l, o, d, v
      <4>6. l = o - 2
        BY <4>5
      <4> QED  BY <4>6 DEF l, o
    <3>8. EndOf(t, words, found)
      <4>1. Len(t.args) + 1 = Len(s.args) - 1
        BY <1>0, <1>2, <1>3, <3>7
      <4> QED  BY <1>2, <3>1, <4>1 DEF EndOf
    <3>9. c + 2 >= k + 1 \/ c + 2 = n
      BY <1>0, <1>2, <1>5
    <3>10. Along(t, g, words, found, c + 2, k + 1)
      BY <1>2, <2>10, <3>1, <3>5, <3>6, <3>8, <3>9 DEF Along
    <3> QED  BY <3>2, <3>10 DEF t
  <2> QED  BY <1>0, <2>7, <2>8, <2>9, <2>10
<1> QED  BY <1>0, <1>4, <1>5

\* The loop ends as the passage does.
LEMMA LoopKeeps ==
    ASSUME NEW words \in Seq(Words), NEW garbage, NEW found
    PROVE  /\ X!Redirect(words, garbage, found).args = X!Understood(words).kept
           /\ X!Redirect(words, garbage, found).args \in Seq(Words)
           /\ X!Redirect(words, garbage, found).ok = ~X!Understood(words).failed
           /\ EndOf(X!Redirect(words, garbage, found), words, found)
<1> DEFINE n == Len(words)
<1>0. n \in Nat
  OBVIOUS
<1>1. PICK f, g : /\ Turns(f, words, garbage, found, n) /\ Passes(g, words, n)
                  /\ X!Redirect(words, garbage, found) = f[n] /\ X!Understood(words) = g[n]
  BY <1>0, WhereTheyEnd
<1> DEFINE Reached(k) == Loop(f[k]) /\ \E c \in 0..n : Along(f[k], g, words, found, c, k)
           M == {k \in Nat : k <= n => Reached(k)}
           start == AtStart(words, garbage, found)
<1>2. \A k \in 0..n : f[k] = IF k = 0 THEN start ELSE X!Turn(f[k - 1])
  BY <1>1 DEF Turns
<1>3. 0 \in M
  <2>1. f[0] = start /\ 0 \in 0..n
    BY <1>0, <1>2
  <2>2. Loop(f[0])
    BY <2>1 DEF Loop, AtStart
  <2>3. g[0] = Unread
    BY <1>1, <2>1 DEF Passes
  <2>4. g[0].skip = FALSE /\ g[0].failed = FALSE /\ g[0].kept = <<>>
    BY <2>3 DEF Unread
  <2>5. <<>> \o From(words, 0) = words
    <3>1. From(words, 0) \in Seq(Words) /\ Len(From(words, 0)) = n
          /\ \A i \in 1..n : From(words, 0)[i] = words[i]
      BY <2>1, WordsBehind
    <3> DEFINE b == From(words, 0)
    <3> HIDE DEF b
    <3>2. b = words
      BY <3>1, SeqEqual DEF b
    <3> QED  BY <3>2 DEF b
  <2>6. /\ f[0].args = words /\ f[0].ok = TRUE /\ f[0].i = 1
        /\ f[0].filled = found \cup 1..n
    BY <2>1 DEF AtStart
  <2>7. EndOf(f[0], words, found)
    BY <2>6 DEF EndOf
  <2>8. <<>> \in Seq(Words) /\ Len(<<>>) + 1 = 1
    OBVIOUS
  <2>10. /\ g[0].kept \in Seq(Words) /\ f[0].i = Len(g[0].kept) + 1
         /\ f[0].args = g[0].kept \o From(words, 0)
    BY <2>4, <2>5, <2>6, <2>8
  <2>11. g[0].failed = ~f[0].ok
    BY <2>4, <2>6
  <2>9. Along(f[0], g, words, found, 0, 0)
    BY <2>4, <2>7, <2>10, <2>11 DEF Along
  <2> QED  BY <2>1, <2>2, <2>9
<1>4. ASSUME NEW k \in M PROVE k + 1 \in M
  <2>1. SUFFICES ASSUME k + 1 <= n PROVE Reached(k + 1)
    OBVIOUS
  <2>2. k \in Nat /\ Reached(k) /\ k + 1 \in 0..n /\ k + 1 # 0 /\ (k + 1) - 1 = k
    BY <1>0, <2>1
  <2>3. f[k + 1] = X!Turn(f[k])
    BY <1>2, <2>2
  <2>4. Loop(f[k + 1])
    <3> DEFINE s == f[k]
               t == f[k + 1]
    <3>1. Loop(s) /\ t = X!Turn(s)
      BY <2>2, <2>3
    <3> HIDE DEF s, t
    <3>2. Loop(t)
      BY <3>1, TurnOf
    <3> QED  BY <3>2 DEF t
  <2>5. PICK c \in 0..n : Along(f[k], g, words, found, c, k)
    BY <2>2
  <2>6. \E e \in 0..n : Along(X!Turn(f[k]), g, words, found, e, k + 1)
    BY <1>1, <2>2, <2>5, TurnGoesAlong
  <2> QED  BY <2>3, <2>4, <2>6
<1>5. M = Nat
  <2> HIDE DEF M
  <2>1. M \subseteq Nat
    BY DEF M
  <2> QED  BY <1>3, <1>4, <2>1, EveryNumber
<1>6. Reached(n)
  BY <1>0, <1>5
<1>7. PICK c \in 0..n : Along(f[n], g, words, found, c, n)
  BY <1>6
<1>8. c = n
  BY <1>0, <1>1, <1>7 DEF Along
<1>9. /\ g[n].kept \in Seq(Words) /\ f[n].args = g[n].kept \o From(words, n)
      /\ g[n].failed = ~f[n].ok /\ EndOf(f[n], words, found)
  BY <1>7, <1>8 DEF Along
<1>10. From(words, n) = <<>>
  <2>1. From(words, n) \in Seq(Words) /\ Len(From(words, n)) = 0
    BY <1>0, WordsBehind
  <2> QED  BY <2>1
<1>11. f[n].args = g[n].kept
  <2> DEFINE a == g[n].kept
  <2> HIDE DEF a
  <2>1. a \in Seq(Words) => a \o <<>> = a
    OBVIOUS
  <2> QED  BY <1>9, <1>10, <2>1 DEF a
<1>12. f[n].ok = ~g[n].failed
  <2>1. f[n].ok \in BOOLEAN
    BY <1>6 DEF Loop
  <2> QED  BY <1>9, <2>1
<1> QED  BY <1>1, <1>9, <1>11, <1>12

\* What EvaluateCommand makes of the words, and what execvp finds behind them.
Evaluates(words, c) ==
    /\ c.args = X!Understood(words).kept /\ c.ok = ~X!Understood(words).failed
    /\ X!Behind(c) # {} => c.args = words /\ c.reused
    /\ c.name \notin {"exit", "cd", "pwd"} => c.index = -1
    /\ c.filled \subseteq Nat

LEMMA Evaluated ==
    ASSUME NEW words \in Seq(Words), NEW garbage, NEW found, found \subseteq Nat
    PROVE  Evaluates(words, X!EvaluateCommand(words, garbage, found))
<1> DEFINE c == X!EvaluateCommand(words, garbage, found)
<1> DEFINE r == X!Redirect(words, garbage, found)
           at_ == {k \in 1..Len(X!Builtins) : X!Builtins[k] = words[1]}
           index == IF ~r.ok \/ at_ = {} THEN -1
                    ELSE Len(r.args) + (CHOOSE k \in at_ : TRUE) - 1
           again == found # {}
<1>1. c = [name |-> words[1], args |-> r.args, fds |-> r.fds, ok |-> r.ok,
           filled |-> r.filled, reused |-> again, index |-> index]
  BY DEF X!EvaluateCommand
<1>2. words[1] \notin {"exit", "cd", "pwd"} => index = -1
  BY DEF X!Builtins
<1>3. /\ r.args = X!Understood(words).kept /\ r.ok = ~X!Understood(words).failed
      /\ r.args \in Seq(Words) /\ EndOf(r, words, found)
  BY LoopKeeps
<1> HIDE DEF c, r, index
<1>4. /\ c.ok = r.ok /\ c.args = r.args /\ c.name = words[1] /\ c.filled = r.filled
      /\ c.index = index
  BY <1>1
<1>5. c.reused = again
  <2> HIDE DEF again
  <2> QED  BY <1>1
<1>6. Len(words) \in Nat /\ Len(c.args) \in Nat
  BY <1>3, <1>4
<1>7. c.filled \subseteq found \cup 1..Len(words) /\ (c.args = words \/ Len(c.args) + 1 \notin c.filled)
  BY <1>3, <1>4 DEF EndOf
<1>8. c.filled \subseteq Nat
  <2>1. 1..Len(words) \subseteq Nat
    BY <1>6
  <2> QED  BY <1>7, <2>1
<1>9. ASSUME NEW p \in X!Behind(c) PROVE c.args = words /\ found # {}
  <2>1. p \in c.filled /\ p > Len(c.args) /\ (Len(c.args) + 1)..p \subseteq c.filled
    BY DEF X!Behind
  <2>2. p \in Nat /\ Len(c.args) + 1 \in (Len(c.args) + 1)..p
    BY <1>6, <1>8, <2>1
  <2>3. c.args = words
    BY <1>7, <2>1, <2>2
  <2>4. p \notin 1..Len(words)
    BY <2>1, <2>2, <2>3
  <2> QED  BY <1>7, <2>1, <2>3, <2>4
<1> QED  BY <1>2, <1>3, <1>4, <1>5, <1>8, <1>9 DEF Evaluates, c

\* Freed memory has words in places.
XshInv == X!WordsKept /\ freed \subseteq Nat

XshHolds == program = "xsh" => XshInv

\* Whatever is typed, and however long the loop over the words goes on.
LEMMA XshInvariance == Spec => []XshHolds
<1>1. Init => XshHolds
  BY DEF Init, XshHolds, XshInv, X!Init, X!WordsKept
<1>2. XshHolds /\ [Next]_vars => XshHolds'
  <2> SUFFICES ASSUME XshHolds, [Next]_vars, program' = "xsh" PROVE XshInv'
    BY DEF XshHolds
  <2>1. program = "xsh" /\ XshInv
    BY DEF Next, vars, XshHolds
  <2>2. X!Next \/ UNCHANGED <<shell, line, child, xshOnly>>
    BY <2>1 DEF Next, vars
  <2>3. CASE X!ReadLine
    <3>1. PICK n \in 1..MaxWords, found \in {{}, freed} :
                 \E w \in [1..n -> Words], b \in X!Garbage(found) :
                   X!BuiltIn(w, b, found) \/ X!Program(w, b, found)
      BY <2>3 DEF X!ReadLine
    <3>2. PICK words \in [1..n -> Words], garbage \in X!Garbage(found) :
                 X!BuiltIn(words, garbage, found) \/ X!Program(words, garbage, found)
      BY <3>1
    <3>3. words \in Seq(Words) /\ found \subseteq Nat
      <4>1. n \in Nat
        BY SizesOK
      <4>2. words \in Seq(Words)
        BY <3>2, <4>1
      <4>3. freed \subseteq Nat
        BY <2>1 DEF XshInv
      <4> QED  BY <3>1, <4>2, <4>3
    <3>4. /\ line' = words /\ cmd' = X!EvaluateCommand(words, garbage, found)
          /\ child' = child \/ shell' = "forked"
          /\ freed' = cmd'.filled \/ freed' = freed \ found
      BY <3>2 DEF X!BuiltIn, X!Program
    <3>5. Evaluates(words, cmd')
      BY <3>3, <3>4, Evaluated
    <3>6. shell' = "read" => child' = "none"
      BY <2>1, <2>3, <3>4 DEF XshInv, X!WordsKept, X!ReadLine
    <3>7. X!Understood(line)' = X!Understood(words) /\ X!Behind(cmd)' = X!Behind(cmd')
      BY <3>4 DEF X!Understood, X!Behind
    <3>8. X!WordsKept'
      BY <3>4, <3>5, <3>6, <3>7 DEF X!WordsKept, Evaluates
    <3>9. freed' \subseteq Nat
      BY <2>1, <3>4, <3>5 DEF XshInv, Evaluates
    <3> QED  BY <3>8, <3>9 DEF XshInv
  <2>4. CASE ~X!ReadLine
    <3>1. UNCHANGED <<line, cmd, freed>> /\ (shell' = "read" => child' = "none")
      BY <2>1, <2>2, <2>4 DEF xshOnly, X!Next, X!Ends, X!ChildExecs, X!ChildEnds, X!SetsGroup,
         X!Waits, X!WordsKept, XshInv
    <3>2. X!Understood(line)' = X!Understood(line) /\ X!Behind(cmd)' = X!Behind(cmd)
      BY <3>1 DEF X!Understood, X!Behind
    <3>3. X!WordsKept'
      BY <2>1, <3>1, <3>2 DEF XshInv, X!WordsKept
    <3> QED  BY <2>1, <3>1, <3>3 DEF XshInv
  <2> QED  BY <2>3, <2>4
<1> QED  BY <1>1, <1>2, PTL DEF Spec

-----------------------------------------------------------------------------

\* What was typed is what is used. xsh.c takes the redirections that it could do, and nothing
\* else, out of the words of a line, in order, up to one that fails, and adds words to them only
\* when it runs a line from which it took nothing in memory that a built-in command gave back;
\* mini_login_sk.c gives a shell under a name for one password, that of whoever wrote the first
\* line of the name, at whatever point another login appends to the file or dies, and whatever
\* is left of its line; through the pipe chat every question taken by the helper gets its one
\* marker, behind the answers to those before it, wherever reads and fgets cut the lines; the
\* helper's test reports a whole answer; and the daemon that writes to the log is in a session
\* without a terminal.
THEOREM AnswersBelong == Spec => []InputAndAnswers
<1>1. DaemonHolds /\ TestHolds /\ LoginHolds /\ PipeHolds /\ XshHolds => InputAndAnswers
  <2> SUFFICES ASSUME DaemonHolds, TestHolds, LoginHolds, PipeHolds, XshHolds
               PROVE InputAndAnswers
    OBVIOUS
  <2>1. program = "xsh" => X!WordsKept
    BY DEF XshHolds, XshInv
  <2>2. program = "login" => L!OneAccount
    BY LoginIsSound DEF LoginHolds
  <2>3. program = "pipe" => P!MarkersCount
    BY DEF PipeHolds, PipeInv
  <2>4. program = "test" => T!AnswerReported
    BY DEF TestHolds, TestInv
  <2>5. program = "daemon" => D!DaemonStays
    BY DEF DaemonHolds, DaemonInv
  <2> QED  BY <2>1, <2>2, <2>3, <2>4, <2>5 DEF InputAndAnswers
<1> QED  BY <1>1, DaemonInvariance, TestInvariance, LoginInvariance, PipeInvariance,
            XshInvariance, PTL
==============================================================================
