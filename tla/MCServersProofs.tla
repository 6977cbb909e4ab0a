--------------------------- MODULE MCServersProofs ---------------------------
(***************************************************************************)
(* Proofs about the programs of MCServers, for any number of clients, any  *)
(* lines, buffers and room in the kernel: the zombies of the forking       *)
(* server are the signals it missed, what is sent arrives, and what a      *)
(* program was told stays true until it acts on it.                        *)
(***************************************************************************)
EXTENDS MCServers, FiniteSetTheorems, SequenceTheorems, WellFoundedInduction, TLAPS

-----------------------------------------------------------------------------
(* The forking server: the zombies.                                         *)

\* A module that is instantiated brings its own name for the size of a set.
LEMMA OneCardinality == \A Q : F!Cardinality(Q) = Cardinality(Q)
BY DEF F!Cardinality, Cardinality

States == {"none", "echo", "refused", "zombie", "reaped"}

ForkTypes == child \in [Many -> States] /\ sigchld \in BOOLEAN /\ missed \in Nat

ForkInv == ForkTypes /\ F!ZombiesAreMissedSignals

\* Finitely many clients leave finitely many zombies.
LEMMA ZombiesFinite == IsFiniteSet(F!Zombies)
BY ClientsOK, FS_Subset DEF F!Zombies

\* What neither ends a child nor reaps one.
LEMMA SameZombies ==
    ASSUME ForkInv, UNCHANGED <<sigchld, missed>>,
           child' \in [Many -> States], F!Zombies' = F!Zombies
    PROVE  ForkInv'
<1>1. ForkTypes'
  BY Zenon DEF ForkInv, ForkTypes
<1>2. F!ZombiesAreMissedSignals'
  BY DEF ForkInv, F!ZombiesAreMissedSignals
<1> QED  BY <1>1, <1>2 DEF ForkInv

\* A child that ends adds a zombie and either sets the signal or is missed; a handler that runs
\* takes one of each away.
LEMMA ForkStep == ASSUME ForkInv, F!ForkNext PROVE ForkInv'
<1> USE DEF ForkInv
<1>1. CASE \E x \in Many : F!Accept(x)
  <2>1. PICK x \in Many : F!Accept(x)
    BY <1>1
  <2>2. child' \in [Many -> States] /\ F!Zombies' = F!Zombies
    BY <2>1 DEF F!Accept, ForkTypes, States, F!Zombies
  <2> QED  BY <2>1, <2>2, SameZombies DEF F!Accept
<1>2. CASE UNCHANGED <<child, sigchld, missed>>
  <2>1. child' \in [Many -> States] /\ F!Zombies' = F!Zombies
    BY <1>2 DEF ForkTypes, F!Zombies
  <2> QED  BY <1>2, <2>1, SameZombies
<1>3. CASE \E x \in Many : F!ChildEnds(x)
  <2>1. PICK x \in Many : F!ChildEnds(x)
    BY <1>3
  <2>2. /\ child[x] = "echo" /\ child' = [child EXCEPT ![x] = "zombie"]
        /\ sigchld' = TRUE /\ missed' = missed + (IF sigchld THEN 1 ELSE 0)
    BY <2>1 DEF F!ChildEnds
  <2>3. ForkTypes'
    <3>1. child' \in [Many -> States]
      BY <2>2 DEF ForkTypes, States
    <3>2. sigchld' \in BOOLEAN
      BY <2>2, Zenon
    <3>3. missed' \in Nat
      BY <2>2 DEF ForkTypes
    <3> QED  BY <3>1, <3>2, <3>3 DEF ForkTypes
  <2>4. F!Zombies' = F!Zombies \cup {x} /\ x \notin F!Zombies
    BY <2>2 DEF ForkTypes, F!Zombies
  <2>5. Cardinality(F!Zombies') = Cardinality(F!Zombies) + 1
    BY <2>4, ZombiesFinite, FS_AddElement
  <2>6. F!ZombiesAreMissedSignals'
    BY <2>2, <2>5, OneCardinality DEF F!ZombiesAreMissedSignals, ForkTypes
  <2> QED  BY <2>3, <2>6
<1>4. CASE F!read_childproc
  <2>1. sigchld = TRUE /\ sigchld' = FALSE /\ missed' = missed
    <3>1. sigchld \in BOOLEAN /\ sigchld
      BY <1>4, Zenon DEF F!read_childproc, ForkTypes
    <3> QED  BY <1>4, <3>1 DEF F!read_childproc
  <2>2. Cardinality(F!Zombies) = missed + 1
    BY <2>1, OneCardinality DEF F!ZombiesAreMissedSignals
  <2>3. F!Zombies # {}
    BY <2>2, FS_EmptySet DEF ForkTypes
  <2>4. PICK z \in F!Zombies : child' = [child EXCEPT ![z] = "reaped"]
    BY <1>4, <2>3 DEF F!read_childproc
  <2>5. F!Zombies' = F!Zombies \ {z}
    BY <2>4 DEF ForkTypes, F!Zombies
  <2>6. Cardinality(F!Zombies') = Cardinality(F!Zombies) - 1
    BY <2>4, <2>5, ZombiesFinite, FS_RemoveElement
  <2>7. F!ZombiesAreMissedSignals'
    BY <2>1, <2>2, <2>6, OneCardinality DEF F!ZombiesAreMissedSignals, ForkTypes
  <2>8. ForkTypes'
    <3>1. child' \in [Many -> States]
      BY <2>4 DEF ForkTypes, States, F!Zombies
    <3>2. sigchld' \in BOOLEAN
      BY <2>1, Zenon
    <3> QED  BY <2>1, <3>1, <3>2 DEF ForkTypes
  <2> QED  BY <2>7, <2>8
<1> QED  BY <1>1, <1>2, <1>3, <1>4 DEF F!ForkNext, F!ChildEcho

\* The server starts without a child.
LEMMA ForkBegins == F!ForkInit => ForkInv
<1> SUFFICES ASSUME F!ForkInit PROVE ForkInv
  OBVIOUS
<1>1. sigchld = FALSE /\ sigchld \in BOOLEAN
  BY Zenon DEF F!ForkInit
<1>2. ForkTypes
  BY <1>1 DEF F!ForkInit, ForkTypes, States
<1>3. F!Zombies = {}
  BY DEF F!ForkInit, F!Zombies
<1>4. F!ZombiesAreMissedSignals
  BY <1>1, <1>3, FS_EmptySet, OneCardinality DEF F!ZombiesAreMissedSignals, F!ForkInit
<1> QED  BY <1>2, <1>4 DEF ForkInv

\* However children end and signals merge, the zombies left are as many as the signals that
\* came while one was pending, and one more while one is: the handler never finds nothing to
\* reap, and never makes up for a signal it missed.
THEOREM ZombiesAreCounted == Spec => []ZombiesAreMissedSignals
<1> DEFINE Inv == program = "fork" => ForkInv
<1>1. Init => Inv
  BY ForkBegins DEF Init
<1>2. Inv /\ [Next]_vars => Inv'
  <2> SUFFICES ASSUME Inv, [Next]_vars, program' = "fork" PROVE ForkInv'
    OBVIOUS
  <2>1. program = "fork"
    BY DEF Next, vars
  <2>2. CASE F!ForkNext
    BY <2>1, <2>2, ForkStep
  <2>3. CASE UNCHANGED vars
    <3>1. UNCHANGED <<child, sigchld, missed>>
      BY <2>3 DEF vars, forks
    <3>2. child' \in [Many -> States] /\ F!Zombies' = F!Zombies
      BY <2>1, <3>1 DEF ForkInv, ForkTypes, F!Zombies
    <3> QED  BY <2>1, <3>1, <3>2, SameZombies
  <2> QED  BY <2>1, <2>2, <2>3 DEF Next
<1>3. Inv => ZombiesAreMissedSignals
  BY DEF ForkInv, ZombiesAreMissedSignals
<1> HIDE DEF Inv
<1> QED  BY <1>1, <1>2, <1>3, PTL DEF Spec

-----------------------------------------------------------------------------
(* The producer and the consumer: what gets through.                        *)

SharedTypes ==
    /\ producer \in {"prompt", "copy", "done"} /\ consumer \in {"wait", "awake", "done"}
    /\ sem \in Nat /\ typed \in Nat /\ printed \in Seq(Int)

\* The shared text is the last line typed, unless it is just being copied.
TextIsNewest == ptr = IF producer = "copy" THEN -1 ELSE typed

SharedInv == SharedTypes /\ TextIsNewest /\ P!NewestGetsThrough

\* A line is typed, or posted: what has been printed stays as true as it was.
LEMMA ProducerKeeps ==
    ASSUME SharedInv, P!Copies \/ P!Posts \/ P!ProducerExits PROVE SharedInv'
<1> USE DEF SharedInv, SharedTypes, P!Torn
<1>1. CASE P!Copies
  BY <1>1 DEF P!Copies, TextIsNewest, P!NewestGetsThrough
<1>2. CASE P!Posts
  BY <1>2 DEF P!Posts, TextIsNewest, P!NewestGetsThrough
<1>3. CASE P!ProducerExits
  BY <1>3 DEF P!ProducerExits, TextIsNewest, P!NewestGetsThrough
<1> QED  BY <1>1, <1>2, <1>3

\* What a print adds is the newest line or a torn one, so it is neither earlier than its post
\* nor earlier than what was printed before.
LEMMA PrintKeeps ==
    ASSUME SharedInv, P!Prints PROVE SharedInv'
<1> USE DEF SharedInv, P!Torn
<1>1. /\ printed' = Append(printed, ptr) /\ consumer = "awake" /\ consumer' = "wait"
      /\ producer' = producer /\ ptr' = ptr /\ sem' = sem /\ typed' = typed
  BY DEF P!Prints
<1>2. ptr \in Int /\ (ptr = -1 \/ ptr = typed)
  BY DEF SharedTypes, TextIsNewest
<1>3. SharedTypes'
  BY <1>1, <1>2 DEF SharedTypes
<1>4. TextIsNewest'
  BY <1>1 DEF TextIsNewest
<1>5. /\ Len(printed') = Len(printed) + 1 /\ printed'[Len(printed) + 1] = ptr
      /\ \A k \in 1..Len(printed) : printed'[k] = printed[k]
  BY <1>1, <1>2 DEF SharedTypes
<1>6. Len(printed) + sem + 1 = typed - (IF producer = "copy" THEN 1 ELSE 0)
  BY <1>1 DEF P!NewestGetsThrough
<1>7. /\ Len(printed) \in Nat
      /\ \A k \in 1..Len(printed) : printed[k] \in k..typed \/ printed[k] = -1
      /\ \A j, k \in 1..Len(printed) : j < k => printed[j] <= printed[k] \/ printed[k] = -1
  BY DEF P!NewestGetsThrough, SharedTypes
<1>8. \A k \in 1..Len(printed') : printed'[k] \in k..typed' \/ printed'[k] = -1
  BY <1>1, <1>2, <1>5, <1>6, <1>7 DEF SharedTypes
<1>9. ASSUME NEW j \in 1..Len(printed'), NEW k \in 1..Len(printed'), j < k
      PROVE  printed'[j] <= printed'[k] \/ printed'[k] = -1
  <2>1. CASE k \in 1..Len(printed)
    BY <1>5, <1>7, <1>9, <2>1
  <2>2. CASE k = Len(printed) + 1
    <3>1. printed'[k] = ptr /\ printed'[j] = printed[j] /\ j \in 1..Len(printed)
      BY <1>5, <1>7, <1>9, <2>2
    <3>2. printed[j] <= typed
      BY <1>7, <3>1 DEF SharedTypes
    <3> QED  BY <1>2, <3>1, <3>2
  <2> QED  BY <1>5, <1>7, <2>1, <2>2
<1>10. producer' # "copy" => printed'[Len(printed')] = typed'
  BY <1>1, <1>5 DEF TextIsNewest
<1>11. Len(printed') + sem' + 0 = typed' - (IF producer' = "copy" THEN 1 ELSE 0)
  BY <1>1, <1>5, <1>6, <1>7 DEF SharedTypes
<1>12. P!NewestGetsThrough'
  BY <1>1, <1>8, <1>9, <1>10, <1>11 DEF P!NewestGetsThrough
<1> QED  BY <1>3, <1>4, <1>12

\* Every step of the two keeps it.
LEMMA SharedStep == ASSUME SharedInv, P!PCNext \/ UNCHANGED shared PROVE SharedInv'
<1>1. CASE P!Wakes
  BY <1>1 DEF P!Wakes, SharedInv, SharedTypes, TextIsNewest, P!NewestGetsThrough, P!Torn
<1>2. CASE UNCHANGED shared
  BY <1>2 DEF shared, SharedInv, SharedTypes, TextIsNewest, P!NewestGetsThrough, P!Torn
<1>3. CASE P!Misled
  BY <1>3 DEF P!Misled, SharedInv, SharedTypes, TextIsNewest, P!NewestGetsThrough, P!Torn
<1> QED  BY <1>1, <1>2, <1>3, ProducerKeeps, PrintKeeps DEF P!PCNext

-----------------------------------------------------------------------------
(* The record locks.                                                        *)

\* A process holds the lock from when it obtained it to its close; and nobody's attempt fails
\* unless the other holds it, or held it and has not been seen off by waitpid.
LockInv ==
    /\ test \in 1..5
    /\ at \in [L!Procs -> {"off", "lock", "sleep", "gone", "reap"}]
    /\ got \in [L!Procs -> {"none", "locked", "failed"}]
    /\ locks \subseteq L!Procs
    /\ at["child"] # "reap" /\ at["parent"] # "gone"
    /\ \A p \in L!Procs : at[p] = "off" <=> test = 5
    /\ \A p \in L!Procs : p \in locks <=> at[p] = "sleep" /\ got[p] = "locked"
    /\ \A p \in L!Procs : at[p] \in {"lock", "off"} <=> got[p] = "none"
    /\ \A p, q \in locks : p = q
    /\ \A p \in L!Procs : got[p] = "failed" => L!Tests[test][p] = "try"
    /\ ~(got["child"] = "failed" /\ got["parent"] = "failed")

\* Every step of the tests keeps it.
LEMMA LockStep == ASSUME LockInv, L!LocksNext \/ UNCHANGED record PROVE LockInv'
<1> USE DEF LockInv, L!Procs
<1>1. ASSUME NEW p \in L!Procs, L!try_lock(p) PROVE LockInv'
  <2>1. /\ at' = [at EXCEPT ![p] = "sleep"] /\ test' = test /\ at[p] = "lock"
        /\ p \notin locks /\ got[p] = "none"
    BY <1>1 DEF L!try_lock
  <2>2. CASE locks \ {p} = {} /\ locks' = locks \cup {p} /\ got' = [got EXCEPT ![p] = "locked"]
    BY <2>1, <2>2
  <2>3. CASE /\ locks \ {p} # {} /\ L!Tests[test][p] = "try"
             /\ got' = [got EXCEPT ![p] = "failed"] /\ locks' = locks
    <3>1. PICK q \in locks : q # p
      BY <2>3
    <3>2. got[q] = "locked" /\ L!Procs = {p, q}
      BY <3>1
    <3>3. \A r \in L!Procs : got'[r] = "failed" => L!Tests[test'][r] = "try"
      BY <2>1, <2>3, <3>1, <3>2
    <3> QED  BY <2>1, <2>3, <3>1, <3>2, <3>3
  <2> QED  BY <1>1, <2>2, <2>3 DEF L!try_lock
<1>2. ASSUME NEW p \in L!Procs, L!Closes(p) PROVE LockInv'
  BY <1>2 DEF L!Closes
<1>3. CASE L!run_test
  BY <1>3 DEF L!run_test, L!Tests
<1>4. CASE UNCHANGED record
  BY <1>4 DEF record
<1> QED  BY <1>1, <1>2, <1>3, <1>4 DEF L!LocksNext

-----------------------------------------------------------------------------
(* Runs of numbered bytes.                                                  *)

\* The bytes of s are those after the first m.
Run(s, m) == s \in Seq(Nat) /\ \A i \in 1..Len(s) : s[i] = m + i

\* No bytes are a run, and so is a line.
LEMMA RunOf ==
    ASSUME NEW m \in Nat, NEW n \in Nat
    PROVE  /\ Run(<<>>, m) /\ Len(<<>>) = 0
           /\ Run([i \in 1..n |-> m + i], m) /\ Len([i \in 1..n |-> m + i]) = n
BY DEF Run

\* Runs of which the second follows the first.
LEMMA RunsJoin ==
    ASSUME NEW m \in Nat, NEW s, NEW t, Run(s, m), Run(t, m + Len(s))
    PROVE  /\ Run(s \o t, m) /\ Len(s \o t) = Len(s) + Len(t)
           /\ Len(s) \in Nat /\ Len(t) \in Nat
<1>1. s \in Seq(Nat) /\ t \in Seq(Nat) /\ Len(s) \in Nat /\ Len(t) \in Nat
  BY DEF Run
<1>2. /\ s \o t \in Seq(Nat) /\ Len(s \o t) = Len(s) + Len(t)
      /\ \A i \in 1..(Len(s) + Len(t)) :
           (s \o t)[i] = IF i <= Len(s) THEN s[i] ELSE t[i - Len(s)]
  BY <1>1, ConcatProperties
<1>3. ASSUME NEW i \in 1..Len(s \o t) PROVE (s \o t)[i] = m + i
  <2>1. CASE i <= Len(s)
    BY <1>1, <1>2, <2>1 DEF Run
  <2>2. CASE ~(i <= Len(s))
    <3> DEFINE j == i - Len(s)
    <3>1. j \in 1..Len(t) /\ m + Len(s) + j = m + i
      BY <1>1, <1>2, <2>2
    <3> HIDE DEF j
    <3>2. (s \o t)[i] = t[j]
      BY <1>2, <2>2 DEF j
    <3> QED  BY <3>1, <3>2 DEF Run
  <2> QED  BY <2>1, <2>2
<1> QED  BY <1>1, <1>2, <1>3 DEF Run

\* A run that is cut.
LEMMA RunCut ==
    ASSUME NEW m \in Nat, NEW s, Run(s, m), NEW n \in 0..Len(s)
    PROVE  /\ Run(SubSeq(s, 1, n), m) /\ Len(SubSeq(s, 1, n)) = n
           /\ Run(SubSeq(s, n + 1, Len(s)), m + n)
           /\ Len(SubSeq(s, n + 1, Len(s))) = Len(s) - n
           /\ Len(s) \in Nat
<1>1. s \in Seq(Nat) /\ Len(s) \in Nat /\ n \in Nat /\ n <= Len(s)
      /\ \A i \in 1..Len(s) : s[i] = m + i
  BY DEF Run
<1>2. /\ SubSeq(s, 1, n) \in Seq(Nat) /\ Len(SubSeq(s, 1, n)) = n
      /\ \A i \in 1..n : SubSeq(s, 1, n)[i] = s[i]
  <2>1. 1 \in Int /\ n \in Int /\ \A i \in 1..n : s[i] \in Nat
    BY <1>1
  <2>2. /\ SubSeq(s, 1, n) \in Seq(Nat)
        /\ Len(SubSeq(s, 1, n)) = IF 1 <= n THEN n - 1 + 1 ELSE 0
        /\ \A i \in 1..(n - 1 + 1) : SubSeq(s, 1, n)[i] = s[1 + i - 1]
    BY <2>1, SubSeqProperties
  <2> QED  BY <1>1, <2>2
<1>3. /\ SubSeq(s, n + 1, Len(s)) \in Seq(Nat) /\ Len(SubSeq(s, n + 1, Len(s))) = Len(s) - n
      /\ \A i \in 1..(Len(s) - n) : SubSeq(s, n + 1, Len(s))[i] = s[n + i]
  <2>1. n + 1 \in Int /\ Len(s) \in Int /\ \A i \in (n + 1)..Len(s) : s[i] \in Nat
    BY <1>1
  <2>2. /\ SubSeq(s, n + 1, Len(s)) \in Seq(Nat)
        /\ Len(SubSeq(s, n + 1, Len(s))) =
             IF n + 1 <= Len(s) THEN Len(s) - (n + 1) + 1 ELSE 0
        /\ \A i \in 1..(Len(s) - (n + 1) + 1) :
             SubSeq(s, n + 1, Len(s))[i] = s[n + 1 + i - 1]
    BY <2>1, SubSeqProperties
  <2> QED  BY <1>1, <2>2
<1> QED  BY <1>1, <1>2, <1>3 DEF Run

\* A run from the start is what the modules call [i \in 1..n |-> i].
LEMMA RunIs ==
    ASSUME NEW s, Run(s, 0) PROVE s = [i \in 1..Len(s) |-> i]
<1>1. s \in Seq(Nat) /\ \A i \in 1..Len(s) : s[i] = i
  BY DEF Run
<1>2. Len(s) \in Nat
  BY <1>1
<1>3. [i \in 1..Len(s) |-> i] \in Seq(Nat) /\ Len([i \in 1..Len(s) |-> i]) = Len(s)
  BY <1>2
<1> QED  BY <1>1, <1>2, <1>3, SeqEqual

-----------------------------------------------------------------------------
(* The echo clients, for all three servers: what a step does to a client r   *)
(* of kind k that types lines of n bytes, and to its connection q.           *)

Peers == [pc : {"new", "talk", "deaf", "quit", "wait", "done", "spin"},
          said : Nat, heard : Seq(Nat)]
Links == [up : Seq(Nat), down : Seq(Nat),
          eof : BOOLEAN, gone : BOOLEAN, shut : BOOLEAN, lost : BOOLEAN]

Spoken(r, n, after) == [r EXCEPT !.said = r.said + n, !.pc = after]

Sent(q, r, n) ==
  [q EXCEPT !.up = IF q.shut THEN q.up ELSE q.up \o [i \in 1..n |-> r.said + i]]

Says(k, n, r, q, r2, q2) ==
    \E after \in {"talk", "deaf", "quit", "wait", "done"} :
      /\ r2 = Spoken(r, n, after) /\ q2 = Sent(q, r, n)
      /\ r.pc = "talk" \/ (k = "duplex" /\ r.pc = "deaf")
      /\ \/ k = "duplex" /\ after = r.pc
         \/ k # "duplex" /\ after = "wait"
         \/ q.shut /\ after \in {"quit", "done"}

Hears(k, r, q, r2, q2) ==
    \E m \in 0..Len(q.down), after \in {"talk", "quit", "wait"} :
      /\ r2 = [r EXCEPT !.heard = r.heard \o SubSeq(q.down, 1, m), !.pc = after]
      /\ q2 = [q EXCEPT !.down = SubSeq(q.down, m + 1, Len(q.down))]
      /\ \/ k = "duplex" /\ r.pc \in {"talk", "quit"} /\ after = r.pc
         \/ /\ k = "counting" /\ r.pc = "wait"
            /\ after = IF Len(r.heard) + m = r.said THEN "talk" ELSE "wait"
         \/ k = "oneread" /\ r.pc = "wait" /\ after = "talk"

\* The client connects, or is done with writing, with reading or with both.
Turns(k, r, q, r2, q2) ==
    \E after \in {"talk", "deaf", "quit", "done", "spin"} :
      /\ r2 = [r EXCEPT !.pc = after]
      /\ \/ r.pc = "new" /\ after = "talk" /\ q2 = q
         \/ /\ k = "duplex" /\ r.pc \in {"talk", "deaf"}
            /\ after = IF r.pc = "deaf" THEN "done" ELSE "quit"
            /\ q2 = [q EXCEPT !.eof = TRUE]
         \/ /\ k = "duplex" /\ r.pc = "talk" /\ q.shut /\ q.down = <<>>
            /\ after = "deaf" /\ q2 = [q EXCEPT !.gone = FALSE]
         \/ /\ k = "duplex" /\ r.pc = "quit" /\ q.shut /\ q.down = <<>>
            /\ after = "done" /\ q2 = [q EXCEPT !.gone = TRUE]
         \/ /\ k # "duplex" /\ r.pc \in {"talk", "wait"} /\ after = "done"
            /\ q2 = [q EXCEPT !.eof = TRUE, !.gone = TRUE, !.down = <<>>]
         \/ k = "counting" /\ r.pc = "wait" /\ after = "spin" /\ q2 = q

Moves(k, n, r, q, r2, q2) ==
    Says(k, n, r, q, r2, q2) \/ Hears(k, r, q, r2, q2) \/ Turns(k, r, q, r2, q2)

\* The client x moves.
Steps(k, n, x) ==
    \E r2, q2 : /\ client' = [client EXCEPT ![x] = r2] /\ conn' = [conn EXCEPT ![x] = q2]
                /\ Moves(k, n, client[x], conn[x], r2, q2)

Net(clients) == client \in [clients -> Peers] /\ conn \in [clients -> Links]

EchoKind(x) == IF x \in Counting THEN "counting" ELSE "duplex"

\* What echo_mpclient.c and echo_client2.c do in echo_mpserv.c's run is one of these steps.
LEMMA ForkClients ==
    ASSUME Net(Many), NEW x \in Many, F!ClientNext(x)
    PROVE  Steps(EchoKind(x), ForkLine, x)
<1> DEFINE r == client[x]
           q == conn[x]
           k == EchoKind(x)
<1>1. /\ Kinds(Many, Counting, "counting")[x] = k /\ k \in {"duplex", "counting"}
      /\ Len(q.down) \in Nat
  BY DEF EchoKind, Kinds, Net, Links
<1>0. client \in [Many -> Peers] /\ conn \in [Many -> Links]
  BY DEF Net
<1>2. CASE F!Connect(x)
  <2>1. /\ client' = [client EXCEPT ![x] = [r EXCEPT !.pc = "talk"]]
        /\ conn' = [conn EXCEPT ![x] = q] /\ r.pc = "new"
    BY <1>0, <1>2 DEF Peers, Links, F!Connect
  <2> QED  BY <2>1 DEF Steps, Moves, Turns
<1>3. ASSUME NEW after \in {"talk", "deaf", "quit", "wait", "done"}, F!Say(x, after),
             r.pc = "talk" \/ (k = "duplex" /\ r.pc = "deaf"),
             \/ k = "duplex" /\ after = r.pc
             \/ k # "duplex" /\ after = "wait"
             \/ q.shut /\ after \in {"quit", "done"}
      PROVE  Steps(k, ForkLine, x)
  <2>1. /\ client' = [client EXCEPT ![x] = Spoken(r, ForkLine, after)]
        /\ conn' = [conn EXCEPT ![x] = Sent(q, r, ForkLine)]
    BY <1>0, <1>3 DEF Peers, Links, F!Say, Spoken, Sent
  <2> QED  BY <1>3, <2>1 DEF Steps, Moves, Says
<1>4. ASSUME NEW m \in 0..Len(q.down), NEW after \in {"talk", "quit", "wait"},
             F!Hears(x, m, after),
             \/ k = "duplex" /\ r.pc \in {"talk", "quit"} /\ after = r.pc
             \/ /\ k = "counting" /\ r.pc = "wait"
                /\ after = IF Len(r.heard) + m = r.said THEN "talk" ELSE "wait"
      PROVE  Steps(k, ForkLine, x)
  <2>1. /\ client' = [client EXCEPT ![x] =
              [r EXCEPT !.heard = r.heard \o SubSeq(q.down, 1, m), !.pc = after]]
        /\ conn' = [conn EXCEPT ![x] =
              [q EXCEPT !.down = SubSeq(q.down, m + 1, Len(q.down))]]
    BY <1>0, <1>4 DEF Peers, Links, F!Hears, F!First, F!Rest
  <2> QED  BY <1>4, <2>1 DEF Steps, Moves, Hears
<1>5. CASE F!WriteRoutine(x)
  <2>0. k = "duplex" /\ r.pc \in {"talk", "deaf"}
    BY <1>1, <1>5 DEF F!WriteRoutine
  <2>1. CASE F!Say(x, r.pc) \/ (q.shut /\ F!Say(x, IF r.pc = "deaf" THEN "done" ELSE "quit"))
    BY <1>3, <2>0, <2>1
  <2>2. CASE /\ client' = [client EXCEPT ![x].pc = IF @ = "deaf" THEN "done" ELSE "quit"]
             /\ conn' = [conn EXCEPT ![x].eof = TRUE]
    <3>1. /\ client' = [client EXCEPT ![x] =
                [r EXCEPT !.pc = IF r.pc = "deaf" THEN "done" ELSE "quit"]]
          /\ conn' = [conn EXCEPT ![x] = [q EXCEPT !.eof = TRUE]]
      BY <1>0, <2>2 DEF Peers, Links
    <3> QED  BY <1>1, <1>5, <3>1 DEF F!WriteRoutine, Steps, Moves, Turns
  <2> QED  BY <1>5, <2>1, <2>2 DEF F!WriteRoutine
<1>6. CASE F!ReadRoutine(x)
  <2>1. CASE \E m \in 1..Len(q.down) : F!Hears(x, m, r.pc)
    BY <1>1, <1>4, <1>6, <2>1 DEF F!ReadRoutine
  <2>2. CASE /\ F!AtEnd(x)
             /\ client' = [client EXCEPT ![x].pc = IF @ = "quit" THEN "done" ELSE "deaf"]
             /\ conn' = [conn EXCEPT ![x].gone = client[x].pc = "quit"]
    <3>1. /\ client' = [client EXCEPT ![x] =
                [r EXCEPT !.pc = IF r.pc = "quit" THEN "done" ELSE "deaf"]]
          /\ conn' = [conn EXCEPT ![x] = [q EXCEPT !.gone = (r.pc = "quit")]]
      BY <1>0, <2>2 DEF Peers, Links
    <3>2. q.shut /\ q.down = <<>>
      BY <2>2 DEF F!AtEnd
    <3> QED  BY <1>1, <1>6, <3>1, <3>2 DEF F!ReadRoutine, Steps, Moves, Turns
  <2> QED  BY <1>6, <2>1, <2>2 DEF F!ReadRoutine
<1>7. ASSUME F!Hangs(x), client' = [client EXCEPT ![x].pc = "done"], k # "duplex",
             r.pc \in {"talk", "wait"}
      PROVE  Steps(k, ForkLine, x)
  <2>1. /\ client' = [client EXCEPT ![x] = [r EXCEPT !.pc = "done"]]
        /\ conn' = [conn EXCEPT ![x] = [q EXCEPT !.eof = TRUE, !.gone = TRUE, !.down = <<>>]]
    BY <1>0, <1>7 DEF Peers, Links, F!Hangs
  <2> QED  BY <1>7, <2>1 DEF Steps, Moves, Turns
<1>8. CASE F!Prompt(x)
  BY <1>1, <1>3, <1>7, <1>8 DEF F!Prompt
<1>9. CASE F!CountsBytes(x)
  <2>1. CASE \E m \in 1..Len(q.down) :
               F!Hears(x, m, IF Len(r.heard) + m = r.said THEN "talk" ELSE "wait")
    BY <1>1, <1>4, <1>9, <2>1 DEF F!CountsBytes
  <2>2. CASE client' = [client EXCEPT ![x].pc = "spin"] /\ UNCHANGED conn
    <3>1. /\ client' = [client EXCEPT ![x] = [r EXCEPT !.pc = "spin"]]
          /\ conn' = [conn EXCEPT ![x] = q]
      BY <1>0, <2>2 DEF Peers, Links
    <3> QED  BY <1>1, <1>9, <3>1 DEF F!CountsBytes, Steps, Moves, Turns
  <2> QED  BY <1>1, <1>7, <1>9, <2>1, <2>2 DEF F!CountsBytes
<1>10. ~F!ReadsOnce(x)
  BY <1>1 DEF F!ReadsOnce
<1> QED  BY <1>2, <1>5, <1>6, <1>8, <1>9, <1>10 DEF F!ClientNext

\* Each instance brings its own name for the least of two numbers.
LEMMA LeastIsOneF ==
  ASSUME NEW m \in Nat, NEW n \in Nat
  PROVE  F!Min({m, n}) = IF m <= n THEN m ELSE n
BY DEF F!Min

LEMMA LeastIsOneT ==
  ASSUME NEW m \in Nat, NEW n \in Nat
  PROVE  T!Min({m, n}) = IF m <= n THEN m ELSE n
BY DEF T!Min

LEMMA LeastIsOneX ==
  ASSUME NEW m \in Nat, NEW n \in Nat
  PROVE  X!Min({m, n}) = IF m <= n THEN m ELSE n
BY DEF X!Min

LEMMA LeastIsOneS ==
  ASSUME NEW m \in Nat, NEW n \in Nat
  PROVE  S!Min({m, n}) = IF m <= n THEN m ELSE n
BY DEF S!Min

\* The same for the clients of echo_storeserv.c.
LEMMA StoreClients ==
    ASSUME Net(Few), NEW x \in Few, T!ClientNext(x)
    PROVE  Steps(EchoKind(x), StoreLine, x)
<1> DEFINE r == client[x]
           q == conn[x]
           k == EchoKind(x)
<1>1. /\ Kinds(Few, Counting, "counting")[x] = k /\ k \in {"duplex", "counting"}
      /\ Len(q.down) \in Nat
  BY DEF EchoKind, Kinds, Net, Links
<1>0. client \in [Few -> Peers] /\ conn \in [Few -> Links]
  BY DEF Net
<1>2. CASE T!Connect(x)
  <2>1. /\ client' = [client EXCEPT ![x] = [r EXCEPT !.pc = "talk"]]
        /\ conn' = [conn EXCEPT ![x] = q] /\ r.pc = "new"
    BY <1>0, <1>2 DEF Peers, Links, T!Connect
  <2> QED  BY <2>1 DEF Steps, Moves, Turns
<1>3. ASSUME NEW after \in {"talk", "deaf", "quit", "wait", "done"}, T!Say(x, after),
             r.pc = "talk" \/ (k = "duplex" /\ r.pc = "deaf"),
             \/ k = "duplex" /\ after = r.pc
             \/ k # "duplex" /\ after = "wait"
             \/ q.shut /\ after \in {"quit", "done"}
      PROVE  Steps(k, StoreLine, x)
  <2>1. /\ client' = [client EXCEPT ![x] = Spoken(r, StoreLine, after)]
        /\ conn' = [conn EXCEPT ![x] = Sent(q, r, StoreLine)]
    BY <1>0, <1>3 DEF Peers, Links, T!Say, Spoken, Sent
  <2> QED  BY <1>3, <2>1 DEF Steps, Moves, Says
<1>4. ASSUME NEW m \in 0..Len(q.down), NEW after \in {"talk", "quit", "wait"},
             T!Hears(x, m, after),
             \/ k = "duplex" /\ r.pc \in {"talk", "quit"} /\ after = r.pc
             \/ /\ k = "counting" /\ r.pc = "wait"
                /\ after = IF Len(r.heard) + m = r.said THEN "talk" ELSE "wait"
      PROVE  Steps(k, StoreLine, x)
  <2>1. /\ client' = [client EXCEPT ![x] =
              [r EXCEPT !.heard = r.heard \o SubSeq(q.down, 1, m), !.pc = after]]
        /\ conn' = [conn EXCEPT ![x] =
              [q EXCEPT !.down = SubSeq(q.down, m + 1, Len(q.down))]]
    BY <1>0, <1>4 DEF Peers, Links, T!Hears, T!First, T!Rest
  <2> QED  BY <1>4, <2>1 DEF Steps, Moves, Hears
<1>5. CASE T!WriteRoutine(x)
  <2>0. k = "duplex" /\ r.pc \in {"talk", "deaf"}
    BY <1>1, <1>5 DEF T!WriteRoutine
  <2>1. CASE T!Say(x, r.pc) \/ (q.shut /\ T!Say(x, IF r.pc = "deaf" THEN "done" ELSE "quit"))
    BY <1>3, <2>0, <2>1
  <2>2. CASE /\ client' = [client EXCEPT ![x].pc = IF @ = "deaf" THEN "done" ELSE "quit"]
             /\ conn' = [conn EXCEPT ![x].eof = TRUE]
    <3>1. /\ client' = [client EXCEPT ![x] =
                [r EXCEPT !.pc = IF r.pc = "deaf" THEN "done" ELSE "quit"]]
          /\ conn' = [conn EXCEPT ![x] = [q EXCEPT !.eof = TRUE]]
      BY <1>0, <2>2 DEF Peers, Links
    <3> QED  BY <1>1, <1>5, <3>1 DEF T!WriteRoutine, Steps, Moves, Turns
  <2> QED  BY <1>5, <2>1, <2>2 DEF T!WriteRoutine
<1>6. CASE T!ReadRoutine(x)
  <2>1. CASE \E m \in 1..Len(q.down) : T!Hears(x, m, r.pc)
    BY <1>1, <1>4, <1>6, <2>1 DEF T!ReadRoutine
  <2>2. CASE /\ T!AtEnd(x)
             /\ client' = [client EXCEPT ![x].pc = IF @ = "quit" THEN "done" ELSE "deaf"]
             /\ conn' = [conn EXCEPT ![x].gone = client[x].pc = "quit"]
    <3>1. /\ client' = [client EXCEPT ![x] =
                [r EXCEPT !.pc = IF r.pc = "quit" THEN "done" ELSE "deaf"]]
          /\ conn' = [conn EXCEPT ![x] = [q EXCEPT !.gone = (r.pc = "quit")]]
      BY <1>0, <2>2 DEF Peers, Links
    <3>2. q.shut /\ q.down = <<>>
      BY <2>2 DEF T!AtEnd
    <3> QED  BY <1>1, <1>6, <3>1, <3>2 DEF T!ReadRoutine, Steps, Moves, Turns
  <2> QED  BY <1>6, <2>1, <2>2 DEF T!ReadRoutine
<1>7. ASSUME T!Hangs(x), client' = [client EXCEPT ![x].pc = "done"], k # "duplex",
             r.pc \in {"talk", "wait"}
      PROVE  Steps(k, StoreLine, x)
  <2>1. /\ client' = [client EXCEPT ![x] = [r EXCEPT !.pc = "done"]]
        /\ conn' = [conn EXCEPT ![x] = [q EXCEPT !.eof = TRUE, !.gone = TRUE, !.down = <<>>]]
    BY <1>0, <1>7 DEF Peers, Links, T!Hangs
  <2> QED  BY <1>7, <2>1 DEF Steps, Moves, Turns
<1>8. CASE T!Prompt(x)
  BY <1>1, <1>3, <1>7, <1>8 DEF T!Prompt
<1>9. CASE T!CountsBytes(x)
  <2>1. CASE \E m \in 1..Len(q.down) :
               T!Hears(x, m, IF Len(r.heard) + m = r.said THEN "talk" ELSE "wait")
    BY <1>1, <1>4, <1>9, <2>1 DEF T!CountsBytes
  <2>2. CASE client' = [client EXCEPT ![x].pc = "spin"] /\ UNCHANGED conn
    <3>1. /\ client' = [client EXCEPT ![x] = [r EXCEPT !.pc = "spin"]]
          /\ conn' = [conn EXCEPT ![x] = q]
      BY <1>0, <2>2 DEF Peers, Links
    <3> QED  BY <1>1, <1>9, <3>1 DEF T!CountsBytes, Steps, Moves, Turns
  <2> QED  BY <1>1, <1>7, <1>9, <2>1, <2>2 DEF T!CountsBytes
<1>10. ~T!ReadsOnce(x)
  BY <1>1 DEF T!ReadsOnce
<1> QED  BY <1>2, <1>5, <1>6, <1>8, <1>9, <1>10 DEF T!ClientNext

SelectKind(x) == IF x \in Hasty THEN "oneread" ELSE "duplex"

\* And for echo_mpclient.c and echo_client.c against echo_selectserv.c.
LEMMA SelectClients ==
    ASSUME Net(Few), NEW x \in Few, S!ClientNext(x)
    PROVE  Steps(SelectKind(x), SelectLine, x)
<1> DEFINE r == client[x]
           q == conn[x]
           k == SelectKind(x)
<1>1. /\ Kinds(Few, Hasty, "oneread")[x] = k /\ k \in {"duplex", "oneread"}
      /\ Len(q.down) \in Nat
  BY DEF SelectKind, Kinds, Net, Links
<1>0. client \in [Few -> Peers] /\ conn \in [Few -> Links]
  BY DEF Net
<1>2. CASE S!Connect(x)
  <2>1. /\ client' = [client EXCEPT ![x] = [r EXCEPT !.pc = "talk"]]
        /\ conn' = [conn EXCEPT ![x] = q] /\ r.pc = "new"
    BY <1>0, <1>2 DEF Peers, Links, S!Connect
  <2> QED  BY <2>1 DEF Steps, Moves, Turns
<1>3. ASSUME NEW after \in {"talk", "deaf", "quit", "wait", "done"}, S!Say(x, after),
             r.pc = "talk" \/ (k = "duplex" /\ r.pc = "deaf"),
             \/ k = "duplex" /\ after = r.pc
             \/ k # "duplex" /\ after = "wait"
             \/ q.shut /\ after \in {"quit", "done"}
      PROVE  Steps(k, SelectLine, x)
  <2>1. /\ client' = [client EXCEPT ![x] = Spoken(r, SelectLine, after)]
        /\ conn' = [conn EXCEPT ![x] = Sent(q, r, SelectLine)]
    BY <1>0, <1>3 DEF Peers, Links, S!Say, Spoken, Sent
  <2> QED  BY <1>3, <2>1 DEF Steps, Moves, Says
<1>4. ASSUME NEW m \in 0..Len(q.down), NEW after \in {"talk", "quit", "wait"},
             S!Hears(x, m, after),
             \/ k = "duplex" /\ r.pc \in {"talk", "quit"} /\ after = r.pc
             \/ k = "oneread" /\ r.pc = "wait" /\ after = "talk"
      PROVE  Steps(k, SelectLine, x)
  <2>1. /\ client' = [client EXCEPT ![x] =
              [r EXCEPT !.heard = r.heard \o SubSeq(q.down, 1, m), !.pc = after]]
        /\ conn' = [conn EXCEPT ![x] =
              [q EXCEPT !.down = SubSeq(q.down, m + 1, Len(q.down))]]
    BY <1>0, <1>4 DEF Peers, Links, S!Hears, S!First, S!Rest
  <2> QED  BY <1>4, <2>1 DEF Steps, Moves, Hears
<1>5. CASE S!WriteRoutine(x)
  <2>0. k = "duplex" /\ r.pc \in {"talk", "deaf"}
    BY <1>1, <1>5 DEF S!WriteRoutine
  <2>1. CASE S!Say(x, r.pc) \/ (q.shut /\ S!Say(x, IF r.pc = "deaf" THEN "done" ELSE "quit"))
    BY <1>3, <2>0, <2>1
  <2>2. CASE /\ client' = [client EXCEPT ![x].pc = IF @ = "deaf" THEN "done" ELSE "quit"]
             /\ conn' = [conn EXCEPT ![x].eof = TRUE]
    <3>1. /\ client' = [client EXCEPT ![x] =
                [r EXCEPT !.pc = IF r.pc = "deaf" THEN "done" ELSE "quit"]]
          /\ conn' = [conn EXCEPT ![x] = [q EXCEPT !.eof = TRUE]]
      BY <1>0, <2>2 DEF Peers, Links
    <3> QED  BY <1>1, <1>5, <3>1 DEF S!WriteRoutine, Steps, Moves, Turns
  <2> QED  BY <1>5, <2>1, <2>2 DEF S!WriteRoutine
<1>6. CASE S!ReadRoutine(x)
  <2>1. CASE \E m \in 1..Len(q.down) : S!Hears(x, m, r.pc)
    BY <1>1, <1>4, <1>6, <2>1 DEF S!ReadRoutine
  <2>2. CASE /\ S!AtEnd(x)
             /\ client' = [client EXCEPT ![x].pc = IF @ = "quit" THEN "done" ELSE "deaf"]
             /\ conn' = [conn EXCEPT ![x].gone = client[x].pc = "quit"]
    <3>1. /\ client' = [client EXCEPT ![x] =
                [r EXCEPT !.pc = IF r.pc = "quit" THEN "done" ELSE "deaf"]]
          /\ conn' = [conn EXCEPT ![x] = [q EXCEPT !.gone = (r.pc = "quit")]]
      BY <1>0, <2>2 DEF Peers, Links
    <3>2. q.shut /\ q.down = <<>>
      BY <2>2 DEF S!AtEnd
    <3> QED  BY <1>1, <1>6, <3>1, <3>2 DEF S!ReadRoutine, Steps, Moves, Turns
  <2> QED  BY <1>6, <2>1, <2>2 DEF S!ReadRoutine
<1>7. ASSUME S!Hangs(x), client' = [client EXCEPT ![x].pc = "done"], k # "duplex",
             r.pc \in {"talk", "wait"}
      PROVE  Steps(k, SelectLine, x)
  <2>1. /\ client' = [client EXCEPT ![x] = [r EXCEPT !.pc = "done"]]
        /\ conn' = [conn EXCEPT ![x] = [q EXCEPT !.eof = TRUE, !.gone = TRUE, !.down = <<>>]]
    BY <1>0, <1>7 DEF Peers, Links, S!Hangs
  <2> QED  BY <1>7, <2>1 DEF Steps, Moves, Turns
<1>8. CASE S!Prompt(x)
  BY <1>1, <1>3, <1>7, <1>8 DEF S!Prompt
<1>9. CASE S!ReadsOnce(x)
  <2>1. k = "oneread" /\ r.pc = "wait"
    BY <1>1, <1>9 DEF S!ReadsOnce
  <2>2. PICK m \in 0..Len(q.down) : S!Hears(x, m, "talk")
    <3>0. SelectLine \in Nat /\ Len(q.down) \in Nat
      BY <1>1, SizesOK
    <3>1. S!Min({Len(q.down), SelectLine}) \in 0..Len(q.down)
      <4>1. ASSUME NEW m \in Nat, NEW n \in Nat
            PROVE  S!Min({m, n}) \in 0..m
        BY LeastIsOneS
      <4> HIDE DEF q
      <4> QED  BY <3>0, <4>1
    <3>2. \/ S!Hears(x, 0, "talk")
          \/ \E m \in 1..S!Min({Len(q.down), SelectLine}) : S!Hears(x, m, "talk")
      BY <1>9 DEF S!ReadsOnce
    <3> DEFINE l == Len(q.down)
               t == S!Min({l, SelectLine})
    <3>3. \A m \in 1..t : m \in 0..l
      <4>1. l \in Nat /\ t \in 0..l
        BY <3>0, <3>1
      <4> HIDE DEF l, t
      <4> QED  BY <4>1
    <3>4. 0 \in 0..l
      BY <3>0
    <3> HIDE DEF l, q
    <3> QED  BY <3>2, <3>3, <3>4 DEF l
  <2> QED  BY <1>4, <2>1, <2>2
<1>10. ~S!CountsBytes(x)
  BY <1>1 DEF S!CountsBytes
<1> QED  BY <1>2, <1>5, <1>6, <1>8, <1>9, <1>10 DEF S!ClientNext

-----------------------------------------------------------------------------
(* What a client of any of the servers and its connection stand for.        *)

\* The server has echoed e bytes.  What was heard is what was said, from its first byte on, and
\* what comes down is next; no more comes back than was echoed, and what goes up is what was not
\* yet.  A counting client that asks for a line has heard all, and who closed its socket has
\* ended.
Whole(k, r, q, e) ==
    /\ r \in Peers /\ q \in Links /\ e \in Nat
    /\ Run(r.heard, 0) /\ Run(q.down, Len(r.heard))
    /\ Len(r.heard) + Len(q.down) <= e /\ e <= r.said
    /\ ~q.shut => /\ Run(q.up, e) /\ e + Len(q.up) = r.said
                  /\ ~q.gone => Len(r.heard) + Len(q.down) = e
    /\ k = "counting" /\ r.pc \in {"new", "talk"} => Len(r.heard) = r.said
    /\ q.gone => r.pc = "done"

\* A client and a connection that nobody used yet.
LEMMA WholeAtFirst ==
    ASSUME NEW k,
           NEW r, r = [pc |-> "new", said |-> 0, heard |-> <<>>],
           NEW q, q = [up |-> <<>>, down |-> <<>>, eof |-> FALSE,
                       gone |-> FALSE, shut |-> FALSE, lost |-> FALSE]
    PROVE  Whole(k, r, q, 0)
<1>1. r \in Peers /\ q \in Links
  BY DEF Peers, Links
<1>2. /\ r.heard = <<>> /\ r.said = 0 /\ q.up = <<>> /\ q.down = <<>>
      /\ q.gone = FALSE /\ Len(<<>>) = 0
  OBVIOUS
<1>3. Run(<<>>, 0)
  BY RunOf
<1> QED  BY <1>1, <1>2, <1>3 DEF Whole

\* The client writes a line.
LEMMA SayingKeeps ==
    ASSUME NEW k, NEW e, NEW n \in Nat, NEW r, NEW q, NEW r2, NEW q2,
           Whole(k, r, q, e), Says(k, n, r, q, r2, q2)
    PROVE  Whole(k, r2, q2, e)
<1>1. PICK after \in {"talk", "deaf", "quit", "wait", "done"} :
        /\ r2 = Spoken(r, n, after) /\ q2 = Sent(q, r, n)
        /\ r.pc \in {"talk", "deaf"}
        /\ k = "counting" => after \in {"wait", "quit", "done"}
  BY DEF Says
<1> DEFINE line == [i \in 1..n |-> r.said + i]
<1>2. r \in Peers /\ q \in Links /\ r.said \in Nat
  BY DEF Whole, Peers
<1>3. Run(line, r.said) /\ Len(line) = n /\ line \in Seq(Nat)
  BY <1>2, RunOf DEF Run
<1> HIDE DEF line
<1>4. /\ r2 \in Peers /\ r2.heard = r.heard /\ r2.said = r.said + n /\ r2.pc = after
  <2>1. r.said + n \in Nat
    BY <1>2
  <2> DEFINE said == r.said + n
  <2>2. r2 = [r EXCEPT !.said = said, !.pc = after]
    BY <1>1 DEF Spoken
  <2> HIDE DEF said
  <2>3. r2 \in Peers /\ r2.heard = r.heard /\ r2.said = said /\ r2.pc = after
    BY <1>2, <2>1, <2>2 DEF Peers, said
  <2> QED  BY <2>3 DEF said
<1>5. /\ q2.up = (IF q.shut THEN q.up ELSE q.up \o line)
      /\ q2.down = q.down /\ q2.gone = q.gone /\ q2.shut = q.shut
      /\ q2.eof = q.eof /\ q2.lost = q.lost
  BY <1>1, <1>2 DEF Links, Sent, line
<1>6. q2 \in Links
  <2>1. q.up \o line \in Seq(Nat)
    BY <1>2, <1>3 DEF Links
  <2>2. [q EXCEPT !.up = IF q.shut THEN q.up ELSE q.up \o line] \in Links
    BY <1>2, <2>1 DEF Links
  <2> QED  BY <1>1, <2>2 DEF Sent, line
<1>7. ASSUME ~q2.shut
      PROVE  /\ Run(q2.up, e) /\ e + Len(q2.up) = r2.said
             /\ ~q2.gone => Len(r2.heard) + Len(q2.down) = e
  <2> DEFINE up == q.up
  <2>1. /\ e \in Nat /\ Run(up, e) /\ e + Len(up) = r.said /\ Len(up) \in Nat
        /\ ~q.gone => Len(r.heard) + Len(q.down) = e
    BY <1>2, <1>5, <1>7 DEF Whole, Links
  <2>2. q2.up = up \o line
    BY <1>5, <1>7
  <2> HIDE DEF up
  <2>3. Run(up \o line, e) /\ Len(up \o line) = Len(up) + n
    BY <1>3, <2>1, RunsJoin
  <2>4. e + (Len(up) + n) = r.said + n
    BY <2>1
  <2>5. Run(q2.up, e) /\ e + Len(q2.up) = r2.said
    BY <1>4, <2>2, <2>3, <2>4
  <2> QED  BY <1>4, <1>5, <2>1, <2>5
<1>8. e <= r2.said
  <2>1. e <= r.said /\ e \in Nat
    BY DEF Whole
  <2>2. \A a \in Nat : e <= a => e <= a + n
    BY <2>1
  <2> QED  BY <1>2, <1>4, <2>1, <2>2
<1> QED  BY <1>1, <1>4, <1>5, <1>6, <1>7, <1>8 DEF Whole

\* What is read moves from one run to the other.
LEMMA HearingMoves ==
    ASSUME NEW h, NEW d, Run(h, 0), Run(d, Len(h)), NEW m \in 0..Len(d)
    PROVE  /\ Run(h \o SubSeq(d, 1, m), 0) /\ Len(h \o SubSeq(d, 1, m)) = Len(h) + m
           /\ Run(SubSeq(d, m + 1, Len(d)), Len(h) + m)
           /\ Len(h \o SubSeq(d, 1, m)) + Len(SubSeq(d, m + 1, Len(d))) = Len(h) + Len(d)
<1> DEFINE here == SubSeq(d, 1, m)
           rest == SubSeq(d, m + 1, Len(d))
<1>1. Len(h) \in Nat /\ Len(d) \in Nat /\ m \in Nat
  BY DEF Run
<1>2. /\ Run(here, Len(h)) /\ Len(here) = m
      /\ Run(rest, Len(h) + m) /\ Len(rest) = Len(d) - m
  BY <1>1, RunCut
<1> HIDE DEF here, rest
<1>3. Run(here, 0 + Len(h))
  BY <1>1, <1>2
<1>4. Run(h \o here, 0) /\ Len(h \o here) = Len(h) + m
  BY <1>2, <1>3, RunsJoin
<1>5. (Len(h) + m) + (Len(d) - m) = Len(h) + Len(d)
  BY <1>1
<1> QED  BY <1>2, <1>4, <1>5 DEF here, rest

\* The client reads.
LEMMA HearingKeeps ==
    ASSUME NEW k, NEW e, NEW r, NEW q, NEW r2, NEW q2,
           Whole(k, r, q, e), Hears(k, r, q, r2, q2)
    PROVE  Whole(k, r2, q2, e)
<1>1. PICK m \in 0..Len(q.down), after \in {"talk", "quit", "wait"} :
        /\ r2 = [r EXCEPT !.heard = r.heard \o SubSeq(q.down, 1, m), !.pc = after]
        /\ q2 = [q EXCEPT !.down = SubSeq(q.down, m + 1, Len(q.down))]
        /\ r.pc \in {"talk", "quit", "wait"}
        /\ k = "counting" /\ after = "talk" => Len(r.heard) + m = r.said
  BY DEF Hears
<1> DEFINE here == SubSeq(q.down, 1, m)
           rest == SubSeq(q.down, m + 1, Len(q.down))
<1>2. r \in Peers /\ q \in Links /\ Run(r.heard, 0) /\ Run(q.down, Len(r.heard))
      /\ Len(r.heard) \in Nat
  BY DEF Whole, Peers
<1>3. /\ Run(r.heard \o here, 0) /\ Len(r.heard \o here) = Len(r.heard) + m
      /\ Run(rest, Len(r.heard) + m)
      /\ Len(r.heard \o here) + Len(rest) = Len(r.heard) + Len(q.down)
  BY <1>2, HearingMoves
<1> HIDE DEF here, rest
<1>5. r2.heard = r.heard \o here /\ r2.said = r.said /\ r2.pc = after /\ r2 \in Peers
  <2>1. r.heard \o here \in Seq(Nat)
    BY <1>3 DEF Run
  <2>2. [r EXCEPT !.heard = r.heard \o here, !.pc = after] \in Peers
    BY <1>2, <2>1 DEF Peers
  <2> QED  BY <1>1, <1>2, <2>2 DEF Peers, here
<1>6. /\ q2.down = rest /\ q2.up = q.up /\ q2.gone = q.gone /\ q2.shut = q.shut /\ q2 \in Links
  <2>1. rest \in Seq(Nat)
    BY <1>3 DEF Run
  <2>2. [q EXCEPT !.down = rest] \in Links
    BY <1>2, <2>1 DEF Links
  <2> QED  BY <1>1, <1>2, <2>2 DEF Links, rest
<1>7. Len(r2.heard) + Len(q2.down) = Len(r.heard) + Len(q.down)
      /\ Len(r2.heard) = Len(r.heard) + m
  BY <1>3, <1>5, <1>6
<1>8. ~q.gone
  BY <1>1 DEF Whole
<1>9. /\ Len(r2.heard) + Len(q2.down) <= e
      /\ ~q2.shut => /\ Run(q2.up, e) /\ e + Len(q2.up) = r2.said
                     /\ ~q2.gone => Len(r2.heard) + Len(q2.down) = e
  BY <1>5, <1>6, <1>7 DEF Whole
<1>10. k = "counting" /\ r2.pc \in {"new", "talk"} => Len(r2.heard) = r2.said
  BY <1>1, <1>5, <1>7
<1>11. Run(r2.heard, 0) /\ Run(q2.down, Len(r2.heard))
  BY <1>3, <1>5, <1>6, <1>7
<1>12. e \in Nat
  BY DEF Whole
<1> QED  BY <1>5, <1>6, <1>8, <1>9, <1>10, <1>11, <1>12 DEF Whole

\* The client connects or is done.
LEMMA TurningKeeps ==
    ASSUME NEW k, NEW e, NEW r, NEW q, NEW r2, NEW q2,
           Whole(k, r, q, e), Turns(k, r, q, r2, q2)
    PROVE  Whole(k, r2, q2, e)
<1>1. r \in Peers /\ q \in Links
  BY DEF Whole
<1>2. PICK after \in {"talk", "deaf", "quit", "done", "spin"} : r2 = [r EXCEPT !.pc = after]
  BY DEF Turns
<1>3. r2 \in Peers /\ r2.heard = r.heard /\ r2.said = r.said /\ r2.pc = after
  BY <1>1, <1>2 DEF Peers
<1>4. r2.pc \in {"new", "talk"} => r.pc = "new" /\ q2 = q
  BY <1>3 DEF Turns
<1>5. /\ q2 \in Links /\ q2.up = q.up /\ q2.shut = q.shut
      /\ q2.gone => r2.pc = "done"
      /\ q2.down = q.down \/ (q2.gone /\ q2.down = <<>>)
      /\ ~q2.gone => ~q.gone
  <2>1. CASE q2 = q /\ r.pc # "done"
    BY <1>1, <2>1 DEF Whole
  <2>2. CASE q2 = [q EXCEPT !.eof = TRUE] /\ r.pc # "done"
    BY <1>1, <2>2 DEF Links, Whole
  <2>3. CASE q2 = [q EXCEPT !.gone = FALSE] /\ r.pc # "done"
    BY <1>1, <2>3 DEF Links, Whole
  <2>4. CASE q2 = [q EXCEPT !.gone = TRUE] /\ r2.pc = "done"
    BY <1>1, <2>4 DEF Links
  <2>5. CASE q2 = [q EXCEPT !.eof = TRUE, !.gone = TRUE, !.down = <<>>] /\ r2.pc = "done"
    <3>1. q2.gone = TRUE /\ q2.down = <<>> /\ q2.up = q.up /\ q2.shut = q.shut
      BY <1>1, <2>5 DEF Links
    <3>2. q2 \in Links
      <4>1. \A s \in Seq(Nat) : [q EXCEPT !.eof = TRUE, !.gone = TRUE, !.down = s] \in Links
        BY <1>1 DEF Links
      <4>2. <<>> \in Seq(Nat)
        OBVIOUS
      <4> QED  BY <2>5, <4>1, <4>2, Zenon
    <3> QED  BY <2>5, <3>1, <3>2
  <2> QED  BY <1>3, <2>1, <2>2, <2>3, <2>4, <2>5 DEF Turns
<1>6. Len(r.heard) \in Nat
  BY <1>1 DEF Peers
<1>7. Run(q2.down, Len(r2.heard))
  BY <1>3, <1>5, <1>6, RunOf DEF Whole
<1>8. k = "counting" /\ r2.pc \in {"new", "talk"} => Len(r2.heard) = r2.said
  BY <1>3, <1>4 DEF Whole
<1>9. ~q2.shut => /\ Run(q2.up, e) /\ e + Len(q2.up) = r2.said
                  /\ ~q2.gone => Len(r2.heard) + Len(q2.down) = e
  BY <1>3, <1>5 DEF Whole
<1>10. Len(r2.heard) + Len(q2.down) <= e
  <2>1. Len(r.heard) + Len(q.down) <= e /\ Len(q.down) \in Nat /\ e \in Nat
    BY <1>1 DEF Whole, Links
  <2>2. CASE q2.down = q.down
    BY <1>3, <2>1, <2>2
  <2>3. CASE q2.down = <<>>
    <3>1. Len(q2.down) = 0
      BY <2>3
    <3>2. \A a, b \in Nat : a + b <= e => a + 0 <= e
      BY <2>1
    <3> QED  BY <1>3, <1>6, <2>1, <3>1, <3>2, Zenon
  <2> QED  BY <1>5, <2>2, <2>3
<1> QED  BY <1>3, <1>5, <1>7, <1>8, <1>9, <1>10 DEF Whole

\* Whatever a client does keeps it so.
LEMMA MovesKeep ==
    ASSUME NEW k, NEW e, NEW n \in Nat, NEW r, NEW q, NEW r2, NEW q2,
           Whole(k, r, q, e), Moves(k, n, r, q, r2, q2)
    PROVE  Whole(k, r2, q2, e)
BY SayingKeeps, HearingKeeps, TurningKeeps DEF Moves

\* What the server does to a connection: it echoes m bytes, or closes it.
Echoed(q, m) ==
    [q EXCEPT !.up = SubSeq(q.up, m + 1, Len(q.up)),
              !.down = IF q.gone THEN q.down ELSE q.down \o SubSeq(q.up, 1, m),
              !.lost = q.lost \/ q.gone]

Shut(q) == [q EXCEPT !.shut = TRUE]

\* A round of the echo loop moves bytes from the way up to the way back.
LEMMA EchoingKeeps ==
    ASSUME NEW k, NEW e, NEW r, NEW q, Whole(k, r, q, e), ~q.shut, NEW m \in 0..Len(q.up)
    PROVE  Whole(k, r, Echoed(q, m), e + m)
<1> DEFINE up == q.up
           back == SubSeq(up, 1, m)
           rest == SubSeq(up, m + 1, Len(up))
           q2 == Echoed(q, m)
<1>1. /\ r \in Peers /\ q \in Links /\ e \in Nat /\ m \in Nat /\ m \in 0..Len(up)
      /\ Run(up, e) /\ e + Len(up) = r.said /\ Run(q.down, Len(r.heard))
      /\ Len(r.heard) \in Nat /\ Len(q.down) \in Nat /\ Len(up) \in Nat
      /\ Len(r.heard) + Len(q.down) <= e
      /\ ~q.gone => Len(r.heard) + Len(q.down) = e
  BY DEF Whole, Peers, Links
<1> HIDE DEF up
<1>2. /\ Run(back, e) /\ Len(back) = m /\ Run(rest, e + m) /\ Len(rest) = Len(up) - m
  BY <1>1, RunCut
<1> HIDE DEF back, rest
<1>3. back \in Seq(Nat) /\ rest \in Seq(Nat) /\ q.down \in Seq(Nat)
  BY <1>1, <1>2 DEF Run
<1>4. /\ q2.up = rest /\ q2.shut = q.shut /\ q2.gone = q.gone /\ q2 \in Links
      /\ q2.down = IF q.gone THEN q.down ELSE q.down \o back
  <2>1. q.down \o back \in Seq(Nat)
    BY <1>3
  <2> DEFINE l == q.lost \/ q.gone
             d == IF q.gone THEN q.down ELSE q.down \o back
  <2>2. l \in BOOLEAN /\ d \in Seq(Nat)
    BY <1>3, <2>1
  <2>3. q2 = [q EXCEPT !.up = rest, !.down = d, !.lost = l]
    BY DEF Echoed, back, rest, up
  <2> HIDE DEF l, d, q2
  <2>4. q2.up = rest /\ q2.down = d /\ q2.shut = q.shut /\ q2.gone = q.gone /\ q2 \in Links
    BY <1>1, <1>3, <2>2, <2>3 DEF Links
  <2> QED  BY <2>4 DEF d
<1>5. /\ Run(q2.down, Len(r.heard))
      /\ ~q.gone => Len(q2.down) = Len(q.down) + m
      /\ q.gone => q2.down = q.down
  <2>1. CASE q.gone
    BY <1>1, <1>4, <2>1
  <2>2. CASE ~q.gone
    <3> DEFINE d == q.down
               h == Len(r.heard)
    <3>1. h \in Nat /\ Run(d, h) /\ Run(back, h + Len(d)) /\ q2.down = d \o back
      BY <1>1, <1>2, <1>4, <2>2
    <3> HIDE DEF d, h, q2
    <3>2. Run(d \o back, h) /\ Len(d \o back) = Len(d) + m
      BY <1>2, <3>1, RunsJoin
    <3> QED  BY <2>2, <3>1, <3>2 DEF d, h
  <2> QED  BY <2>1, <2>2
<1> HIDE DEF q2
<1>6. /\ Len(r.heard) + Len(q2.down) <= e + m
      /\ ~q2.gone => Len(r.heard) + Len(q2.down) = e + m
  <2>1. CASE q.gone
    <3>1. \A a, b \in Nat : a + b <= e => a + b <= e + m
      BY <1>1
    <3>2. q2.gone /\ q2.down = q.down
      BY <1>4, <1>5, <2>1
    <3> QED  BY <1>1, <3>1, <3>2, Zenon
  <2>2. CASE ~q.gone
    <3>1. Len(q2.down) = Len(q.down) + m /\ Len(r.heard) + Len(q.down) = e
      BY <1>1, <1>5, <2>2
    <3>2. \A a, b \in Nat : a + (b + m) = (a + b) + m
      BY <1>1
    <3>3. Len(r.heard) + Len(q2.down) = e + m
      BY <1>1, <3>1, <3>2, Zenon
    <3>4. e + m \in Nat /\ \A a \in Nat : a <= a
      BY <1>1
    <3> QED  BY <3>3, <3>4, Zenon
  <2> QED  BY <2>1, <2>2
<1>7. Run(q2.up, e + m) /\ (e + m) + Len(q2.up) = r.said /\ e + m \in Nat
  <2>1. (e + m) + (Len(up) - m) = r.said
    BY <1>1
  <2> QED  BY <1>1, <1>2, <1>4, <2>1
<1>8. e + m <= r.said
  <2>1. e + m <= e + Len(up)
    BY <1>1
  <2> QED  BY <1>1, <2>1
<1>9. Whole(k, r, q2, e + m)
  BY <1>1, <1>4, <1>5, <1>6, <1>7, <1>8 DEF Whole
<1> QED  BY <1>9 DEF q2

\* What the server closes is no longer read.
LEMMA ShuttingKeeps ==
    ASSUME NEW k, NEW e, NEW r, NEW q, Whole(k, r, q, e) PROVE Whole(k, r, Shut(q), e)
<1>1. q \in Links
  BY DEF Whole
<1>2. /\ Shut(q) \in Links /\ Shut(q).down = q.down /\ Shut(q).gone = q.gone
      /\ Shut(q).shut = TRUE
  BY <1>1 DEF Shut, Links
<1> QED  BY <1>2 DEF Whole

-----------------------------------------------------------------------------
(* The forking server: what its clients hear.                               *)

\* A server that still reads has not closed.  A duplex client that was let in closes its half
\* before the server closes, hears all it said before that, and goes on to the end.
Duty(k, r, q, c) ==
    /\ c \in {"none", "echo"} => ~q.shut
    /\ k = "duplex" /\ c # "refused" =>
         /\ r.pc # "deaf" /\ (q.gone => q.shut)
         /\ q.eof => r.pc \in {"quit", "done"}
         /\ q.shut => q.eof /\ Len(r.heard) + Len(q.down) = r.said
         /\ r.pc = "done" => q.shut /\ q.down = <<>>

\* The step of a client.
LEMMA DutyOfClients ==
    ASSUME NEW k, NEW e, NEW n, NEW c, NEW r, NEW q, NEW r2, NEW q2,
           Whole(k, r, q, e), Whole(k, r2, q2, e), Duty(k, r, q, c), Moves(k, n, r, q, r2, q2)
    PROVE  Duty(k, r2, q2, c)
<1>1. r \in Peers /\ q \in Links
  BY DEF Whole
<1>2. q2.shut = q.shut
  BY <1>1 DEF Moves, Says, Hears, Turns, Sent, Links
<1>3. SUFFICES ASSUME k = "duplex", c # "refused"
               PROVE  /\ r2.pc # "deaf" /\ (q2.gone => q2.shut)
                      /\ q2.eof => r2.pc \in {"quit", "done"}
                      /\ q2.shut => q2.eof /\ Len(r2.heard) + Len(q2.down) = r2.said
                      /\ r2.pc = "done" => q2.shut /\ q2.down = <<>>
  BY <1>2 DEF Duty
<1>4. /\ r.pc # "deaf" /\ (q.gone => q.shut)
      /\ q.eof => r.pc \in {"quit", "done"}
      /\ q.shut => q.eof /\ Len(r.heard) + Len(q.down) = r.said
      /\ r.pc = "done" => q.shut /\ q.down = <<>>
  BY <1>3 DEF Duty
<1>5. CASE Says(k, n, r, q, r2, q2)
  <2>1. r.pc = "talk" /\ ~q.shut /\ ~q.eof /\ ~q.gone
    BY <1>3, <1>4, <1>5 DEF Says
  <2>2. r2.pc = "talk" /\ q2.eof = q.eof /\ q2.gone = q.gone
    <3>1. r2 = Spoken(r, n, "talk") /\ q2 = Sent(q, r, n)
      BY <1>3, <1>5, <2>1 DEF Says
    <3> QED  BY <1>1, <3>1 DEF Spoken, Sent, Peers, Links
  <2> QED  BY <1>2, <2>1, <2>2
<1>6. CASE Hears(k, r, q, r2, q2)
  <2>1. PICK m \in 0..Len(q.down) :
          /\ r2 = [r EXCEPT !.heard = r.heard \o SubSeq(q.down, 1, m), !.pc = r.pc]
          /\ q2 = [q EXCEPT !.down = SubSeq(q.down, m + 1, Len(q.down))]
          /\ r.pc \in {"talk", "quit"}
    BY <1>3, <1>6 DEF Hears
  <2>2. /\ r2.pc = r.pc /\ r2.said = r.said /\ q2.eof = q.eof /\ q2.gone = q.gone
        /\ r2.heard = r.heard \o SubSeq(q.down, 1, m)
        /\ q2.down = SubSeq(q.down, m + 1, Len(q.down))
    BY <1>1, <2>1 DEF Peers, Links
  <2>3. Len(r2.heard) + Len(q2.down) = Len(r.heard) + Len(q.down)
    <3>1. Run(r.heard, 0) /\ Run(q.down, Len(r.heard))
      BY DEF Whole
    <3>2. Len(r.heard \o SubSeq(q.down, 1, m)) + Len(SubSeq(q.down, m + 1, Len(q.down)))
            = Len(r.heard) + Len(q.down)
      BY <3>1, HearingMoves
    <3> QED  BY <2>2, <3>2
  <2> QED  BY <1>2, <1>4, <2>1, <2>2, <2>3
<1>7. CASE Turns(k, r, q, r2, q2)
  <2>1. CASE r2 = [r EXCEPT !.pc = "talk"] /\ q2 = q /\ r.pc = "new"
    <3>1. r2.pc = "talk" /\ r2.heard = r.heard /\ r2.said = r.said
      BY <1>1, <2>1 DEF Peers
    <3> QED  BY <1>4, <2>1, <3>1
  <2>2. CASE r2 = [r EXCEPT !.pc = "quit"] /\ q2 = [q EXCEPT !.eof = TRUE] /\ r.pc = "talk"
    <3>1. /\ r2.pc = "quit" /\ r2.heard = r.heard /\ r2.said = r.said
          /\ q2.down = q.down /\ q2.gone = q.gone /\ q2.eof = TRUE
      BY <1>1, <2>2 DEF Peers, Links
    <3> QED  BY <1>2, <1>4, <3>1
  <2>3. CASE /\ r2 = [r EXCEPT !.pc = "done"] /\ q2 = [q EXCEPT !.gone = TRUE]
             /\ r.pc = "quit" /\ q.shut /\ q.down = <<>>
    <3>1. /\ r2.pc = "done" /\ r2.heard = r.heard /\ r2.said = r.said
          /\ q2.down = q.down /\ q2.gone = TRUE /\ q2.eof = q.eof
      BY <1>1, <2>3 DEF Peers, Links
    <3> QED  BY <1>2, <1>4, <2>3, <3>1
  <2>4. ~(r.pc = "talk" /\ q.shut)
    BY <1>4
  <2> QED  BY <1>3, <1>4, <1>7, <2>1, <2>2, <2>3, <2>4 DEF Turns
<1> QED  BY <1>5, <1>6, <1>7 DEF Moves

\* The server answers, or lets the client in.
LEMMA DutyOfEcho ==
    ASSUME NEW k, NEW r, NEW q, NEW m, q \in Links, Duty(k, r, q, "echo")
    PROVE  Duty(k, r, Echoed(q, m), "echo")
<1>1. /\ Echoed(q, m).shut = q.shut /\ Echoed(q, m).gone = q.gone /\ Echoed(q, m).eof = q.eof
  BY DEF Echoed, Links
<1> QED  BY <1>1 DEF Duty

LEMMA DutyOfAccept ==
    ASSUME NEW k, NEW r, NEW q, q \in Links, Duty(k, r, q, "none")
    PROVE  Duty(k, r, q, "echo") /\ Duty(k, r, Shut(q), "refused")
BY DEF Duty

\* The child ends because its client closed its half.
LEMMA DutyOfTheEnd ==
    ASSUME NEW k, NEW e, NEW r, NEW q, Whole(k, r, q, e), Duty(k, r, q, "echo"),
           (q.up = <<>> /\ q.eof) \/ q.gone
    PROVE  Duty(k, r, Shut(q), "zombie")
<1>1. q \in Links
  BY DEF Whole
<1>2. /\ Shut(q).shut = TRUE /\ Shut(q).gone = q.gone /\ Shut(q).eof = q.eof
      /\ Shut(q).down = q.down
  BY <1>1 DEF Shut, Links
<1>3. ASSUME k = "duplex" PROVE q.eof /\ Len(r.heard) + Len(q.down) = r.said
  <2>1. ~q.shut /\ ~q.gone /\ q.up = <<>> /\ q.eof
    BY <1>3 DEF Duty
  <2>2. e + Len(q.up) = r.said /\ Len(r.heard) + Len(q.down) = e /\ e \in Nat
    BY <2>1 DEF Whole
  <2>3. Len(q.up) = 0 /\ e + 0 = e
    BY <2>1, <2>2
  <2> QED  BY <2>1, <2>2, <2>3
<1> QED  BY <1>2, <1>3 DEF Duty

\* Every client and its child.
ForkGood(x) ==
    /\ \E e \in Nat : Whole(EchoKind(x), client[x], conn[x], e)
    /\ Duty(EchoKind(x), client[x], conn[x], child[x])

ForkWhole == Net(Many) /\ child \in [Many -> States] /\ \A x \in Many : ForkGood(x)

\* One client and its child move; the others are as they were.
LEMMA OneForkClient ==
    ASSUME ForkWhole, NEW x \in Many, NEW r2, NEW q2, NEW c2 \in States, NEW e \in Nat,
           client' = [client EXCEPT ![x] = r2], conn' = [conn EXCEPT ![x] = q2],
           child' = [child EXCEPT ![x] = c2],
           Whole(EchoKind(x), r2, q2, e), Duty(EchoKind(x), r2, q2, c2)
    PROVE  ForkWhole'
<1>1. r2 \in Peers /\ q2 \in Links
  BY DEF Whole
<1>2. Net(Many)' /\ child' \in [Many -> States]
  BY <1>1 DEF ForkWhole, Net
<1>3. ASSUME NEW y \in Many PROVE ForkGood(y)'
  <2>1. CASE y = x
    <3>1. client'[y] = r2 /\ conn'[y] = q2 /\ child'[y] = c2
      BY <2>1 DEF ForkWhole, Net
    <3> QED  BY <2>1, <3>1 DEF ForkGood
  <2>2. CASE y # x
    <3>1. client'[y] = client[y] /\ conn'[y] = conn[y] /\ child'[y] = child[y]
      BY <2>2 DEF ForkWhole, Net
    <3>2. ForkGood(y)
      BY DEF ForkWhole
    <3> QED  BY <3>1, <3>2 DEF ForkGood
  <2> QED  BY <2>1, <2>2
<1> QED  BY <1>2, <1>3 DEF ForkWhole

\* A round of the echo loop, as each of the three servers names it.
LEMMA ForkEchoIs ==
    ASSUME Net(Many), NEW x \in Many, NEW n \in F!EchoSizes(x), F!Echo(x, n)
    PROVE  n \in 0..Len(conn[x].up) /\ conn' = [conn EXCEPT ![x] = Echoed(conn[x], n)]
<1> DEFINE l == Len(conn[x].up)
<1>1. l \in Nat /\ ForkBuf \in Nat
  BY SizesOK DEF Net, Links
<1>2. n \in 1..F!Min({ForkBuf, l})
  BY DEF F!EchoSizes
<1>3. n \in 0..l
  <2> HIDE DEF l
  <2>1. F!Min({ForkBuf, l}) = IF ForkBuf <= l THEN ForkBuf ELSE l
    BY <1>1, LeastIsOneF
  <2> QED  BY <1>1, <1>2, <2>1
<1>4. conn' = [conn EXCEPT ![x] = Echoed(conn[x], n)]
  BY DEF F!Echo, F!First, F!Rest, Echoed, Net, Links
<1> QED  BY <1>3, <1>4

\* Every step of echo_mpserv.c and of its clients keeps them all so.
LEMMA ForkWholeStep == ASSUME ForkWhole, F!ForkNext PROVE ForkWhole'
<1>0. Net(Many) /\ child \in [Many -> States]
      /\ client \in [Many -> Peers] /\ conn \in [Many -> Links]
  BY DEF ForkWhole, Net
<1>1. ASSUME NEW x \in Many, F!ClientNext(x), UNCHANGED child PROVE ForkWhole'
  <2>1. PICK r2, q2 :
          /\ client' = [client EXCEPT ![x] = r2] /\ conn' = [conn EXCEPT ![x] = q2]
          /\ Moves(EchoKind(x), ForkLine, client[x], conn[x], r2, q2)
    BY <1>0, <1>1, ForkClients DEF Steps
  <2>2. PICK e \in Nat : Whole(EchoKind(x), client[x], conn[x], e)
    BY DEF ForkWhole, ForkGood
  <2>3. Whole(EchoKind(x), r2, q2, e)
    BY <2>1, <2>2, MovesKeep, SizesOK
  <2>4. Duty(EchoKind(x), r2, q2, child[x])
    BY <2>1, <2>2, <2>3, DutyOfClients DEF ForkWhole, ForkGood
  <2>5. child' = [child EXCEPT ![x] = child[x]] /\ child[x] \in States
    BY <1>0, <1>1
  <2> QED  BY <2>1, <2>3, <2>4, <2>5, OneForkClient
<1>2. ASSUME NEW x \in Many, F!Accept(x) PROVE ForkWhole'
  <2>1. /\ client' = [client EXCEPT ![x] = client[x]] /\ child[x] = "none"
        /\ \/ /\ child' = [child EXCEPT ![x] = "echo"]
              /\ conn' = [conn EXCEPT ![x] = conn[x]]
           \/ /\ child' = [child EXCEPT ![x] = "refused"]
              /\ conn' = [conn EXCEPT ![x] = Shut(conn[x])]
    BY <1>0, <1>2 DEF F!Accept, Shut
  <2>2. PICK e \in Nat : Whole(EchoKind(x), client[x], conn[x], e)
    BY DEF ForkWhole, ForkGood
  <2>3. /\ Duty(EchoKind(x), client[x], conn[x], "echo")
        /\ Duty(EchoKind(x), client[x], Shut(conn[x]), "refused")
    BY <1>0, <2>1, DutyOfAccept DEF ForkWhole, ForkGood
  <2>4. Whole(EchoKind(x), client[x], Shut(conn[x]), e)
    BY <2>2, ShuttingKeeps
  <2>5. "echo" \in States /\ "refused" \in States
    BY DEF States
  <2> QED  BY <2>1, <2>2, <2>3, <2>4, <2>5, OneForkClient
<1>3. ASSUME NEW x \in Many, F!ChildEcho(x) PROVE ForkWhole'
  <2>1. PICK n \in F!EchoSizes(x) : F!Echo(x, n)
    BY <1>3 DEF F!ChildEcho
  <2>2. n \in 0..Len(conn[x].up) /\ conn' = [conn EXCEPT ![x] = Echoed(conn[x], n)]
    BY <1>0, <2>1, ForkEchoIs
  <2>3. /\ client' = [client EXCEPT ![x] = client[x]]
        /\ child' = [child EXCEPT ![x] = "echo"] /\ child[x] = "echo"
    BY <1>0, <1>3 DEF F!ChildEcho
  <2>4. PICK e \in Nat : Whole(EchoKind(x), client[x], conn[x], e)
    BY DEF ForkWhole, ForkGood
  <2>5. Duty(EchoKind(x), client[x], conn[x], "echo")
    BY <2>3 DEF ForkWhole, ForkGood
  <2>6. Whole(EchoKind(x), client[x], Echoed(conn[x], n), e + n) /\ e + n \in Nat
    BY <2>2, <2>4, <2>5, EchoingKeeps DEF Duty
  <2>7. Duty(EchoKind(x), client[x], Echoed(conn[x], n), "echo")
    BY <1>0, <2>5, DutyOfEcho
  <2>8. "echo" \in States
    BY DEF States
  <2> QED  BY <2>2, <2>3, <2>6, <2>7, <2>8, OneForkClient
<1>4. ASSUME NEW x \in Many, F!ChildEnds(x) PROVE ForkWhole'
  <2>1. /\ client' = [client EXCEPT ![x] = client[x]]
        /\ conn' = [conn EXCEPT ![x] = Shut(conn[x])]
        /\ child' = [child EXCEPT ![x] = "zombie"] /\ child[x] = "echo"
        /\ (conn[x].up = <<>> /\ conn[x].eof) \/ conn[x].gone
    BY <1>0, <1>4 DEF F!ChildEnds, Shut, F!ReadsZero, F!SigPipe
  <2>2. PICK e \in Nat : Whole(EchoKind(x), client[x], conn[x], e)
    BY DEF ForkWhole, ForkGood
  <2>3. Duty(EchoKind(x), client[x], conn[x], "echo")
    BY <2>1 DEF ForkWhole, ForkGood
  <2>4. Duty(EchoKind(x), client[x], Shut(conn[x]), "zombie")
    BY <2>1, <2>2, <2>3, DutyOfTheEnd
  <2>5. Whole(EchoKind(x), client[x], Shut(conn[x]), e)
    BY <2>2, ShuttingKeeps
  <2>6. "zombie" \in States
    BY DEF States
  <2> QED  BY <2>1, <2>2, <2>4, <2>5, <2>6, OneForkClient
<1>5. CASE F!read_childproc
  <2>1. CASE UNCHANGED child
    BY <1>5, <2>1 DEF F!read_childproc, ForkWhole, ForkGood, Net
  <2>2. ASSUME NEW z \in F!Zombies, child' = [child EXCEPT ![z] = "reaped"] PROVE ForkWhole'
    <3>1. z \in Many /\ child[z] = "zombie" /\ "reaped" \in States
      BY DEF F!Zombies, States
    <3>2. /\ client' = [client EXCEPT ![z] = client[z]] /\ conn' = [conn EXCEPT ![z] = conn[z]]
      BY <1>0, <1>5, <3>1 DEF F!read_childproc
    <3>3. PICK e \in Nat : Whole(EchoKind(z), client[z], conn[z], e)
      BY <3>1 DEF ForkWhole, ForkGood
    <3>4. Duty(EchoKind(z), client[z], conn[z], "zombie")
      BY <3>1 DEF ForkWhole, ForkGood
    <3>5. Duty(EchoKind(z), client[z], conn[z], "reaped")
      BY <3>4 DEF Duty
    <3> QED  BY <2>2, <3>1, <3>2, <3>3, <3>5, OneForkClient
  <2> QED  BY <1>5, <2>1, <2>2 DEF F!read_childproc
<1> QED  BY <1>1, <1>2, <1>3, <1>4, <1>5 DEF F!ForkNext

\* Nobody has connected yet.
LEMMA ForkWholeBegins == F!ForkInit => ForkWhole
<1> SUFFICES ASSUME F!ForkInit PROVE ForkWhole
  OBVIOUS
<1>1. /\ client = [x \in Many |-> [pc |-> "new", said |-> 0, heard |-> <<>>]]
      /\ conn = [x \in Many |-> [up |-> <<>>, down |-> <<>>, eof |-> FALSE,
                                 gone |-> FALSE, shut |-> FALSE, lost |-> FALSE]]
      /\ child = [x \in Many |-> "none"]
  BY DEF F!ForkInit, F!ClientsInit
<1>2. ASSUME NEW x \in Many
      PROVE  /\ Whole(EchoKind(x), client[x], conn[x], 0)
             /\ Duty(EchoKind(x), client[x], conn[x], child[x])
  <2>1. /\ client[x] = [pc |-> "new", said |-> 0, heard |-> <<>>]
        /\ conn[x] = [up |-> <<>>, down |-> <<>>, eof |-> FALSE,
                      gone |-> FALSE, shut |-> FALSE, lost |-> FALSE]
        /\ child[x] = "none"
    BY <1>1
  <2>2. Whole(EchoKind(x), client[x], conn[x], 0)
    BY <2>1, WholeAtFirst
  <2>3. Duty(EchoKind(x), client[x], conn[x], child[x])
    BY <2>1 DEF Duty
  <2> QED  BY <2>2, <2>3
<1>3. \A x \in Many : client[x] \in Peers /\ conn[x] \in Links
  BY <1>2 DEF Whole
<1>4. Net(Many) /\ child \in [Many -> States]
  BY <1>1, <1>3 DEF Net, States
<1>5. \A x \in Many : ForkGood(x)
  BY <1>2 DEF ForkGood
<1> QED  BY <1>4, <1>5 DEF ForkWhole

\* What HeardIsSaid and InOrder say.
Sound(k, r, q) ==
    /\ r.heard = [i \in 1..Len(r.heard) |-> i]
    /\ k = "counting" /\ r.pc = "talk" => Len(r.heard) = r.said
    /\ \/ q.gone \/ q.shut
       \/ r.heard \o q.down \o <<>> \o q.up = [i \in 1..r.said |-> i]

\* A whole client hears its own bytes, and between the two no byte is out of place.
LEMMA WholeIsSound ==
    ASSUME NEW k, NEW e, NEW r, NEW q, Whole(k, r, q, e) PROVE Sound(k, r, q)
<1> DEFINE h == r.heard
           d == q.down
           u == q.up
<1>1. h = [i \in 1..Len(h) |-> i]
  BY RunIs DEF Whole
<1>2. ASSUME ~q.gone, ~q.shut PROVE h \o d \o <<>> \o u = [i \in 1..r.said |-> i]
  <2>1. /\ Run(h, 0) /\ Run(d, Len(h)) /\ Run(u, Len(h) + Len(d))
        /\ Len(h) + Len(d) + Len(u) = r.said
    BY <1>2 DEF Whole
  <2> HIDE DEF h, d, u
  <2>2. Len(h) \in Nat /\ Len(d) \in Nat /\ Len(u) \in Nat /\ h \in Seq(Nat) /\ d \in Seq(Nat)
    BY <2>1 DEF Run
  <2>3. Run(d, 0 + Len(h))
    BY <2>1, <2>2
  <2>4. Run(h \o d, 0) /\ Len(h \o d) = Len(h) + Len(d)
    BY <2>1, <2>3, RunsJoin
  <2>5. Run(u, 0 + Len(h \o d))
    BY <2>1, <2>2, <2>4
  <2>6. Run((h \o d) \o u, 0) /\ Len((h \o d) \o u) = r.said
    <3> DEFINE hd == h \o d
    <3>1. Run(hd \o u, 0) /\ Len(hd \o u) = Len(hd) + Len(u)
      <4>1. Run(hd, 0) /\ Run(u, 0 + Len(hd)) /\ 0 \in Nat
        BY <2>4, <2>5
      <4> HIDE DEF hd
      <4> QED  BY <4>1, RunsJoin
    <3> QED  BY <2>1, <2>4, <3>1
  <2>7. h \o d \o <<>> = h \o d
    BY <2>4 DEF Run
  <2> QED  BY <2>6, <2>7, RunIs
<1> QED  BY <1>1, <1>2 DEF Whole, Sound

\* So every client of echo_mpserv.c hears what it said.
LEMMA ForkEchoesAll == ForkWhole => F!ForkEchoes
<1> SUFFICES ASSUME ForkWhole, NEW x \in Many
             PROVE  /\ F!HeardIsSaid(x) /\ F!InOrder(x, <<>>)
                    /\ Kinds(Many, Counting, "counting")[x] = "duplex" /\ client[x].pc = "done"
                         /\ child[x] # "refused" => Len(client[x].heard) = client[x].said
  BY DEF F!ForkEchoes
<1>1. Kinds(Many, Counting, "counting")[x] = EchoKind(x)
  BY DEF Kinds, EchoKind
<1>2. PICK e \in Nat : Whole(EchoKind(x), client[x], conn[x], e)
  BY DEF ForkWhole, ForkGood
<1>3. F!HeardIsSaid(x) /\ F!InOrder(x, <<>>)
  <2>1. Sound(EchoKind(x), client[x], conn[x])
    BY <1>2, WholeIsSound
  <2> QED  BY <1>1, <2>1 DEF F!HeardIsSaid, F!InOrder, Sound
<1>4. ASSUME EchoKind(x) = "duplex", client[x].pc = "done", child[x] # "refused"
      PROVE  Len(client[x].heard) = client[x].said
  <2>1. /\ conn[x].down = <<>>
        /\ Len(client[x].heard) + Len(conn[x].down) = client[x].said
    BY <1>4 DEF ForkWhole, ForkGood, Duty
  <2>2. Len(conn[x].down) = 0 /\ Len(client[x].heard) \in Nat
    BY <1>2, <2>1 DEF Whole, Peers
  <2> QED  BY <2>1, <2>2
<1> QED  BY <1>1, <1>3, <1>4

-----------------------------------------------------------------------------
(* The transfer of the file.                                                *)

\* A server that has its file closes its half when it has sent all, and the client ends when it
\* has read all that was sent before that.
FileInv ==
    /\ size \in Nat /\ pos \in 0..size
    /\ recv \notin {"lost", "killed"} =>
         Run(received, 0) /\ Run(stream, Len(received)) /\ Len(received) + Len(stream) = pos
    /\ server \in {"shut", "wait"} => pos = size
    /\ eof => server \notin {"accept", "send", "shut"} /\ ("server" \in fopened => pos = size)
    /\ recv = "done" => eof /\ stream = <<>>

\* Nothing is sent yet.
LEMMA FileBegins == X!FileInit => FileInv
<1> SUFFICES ASSUME X!FileInit PROVE FileInv
  OBVIOUS
<1>1. /\ size \in Nat /\ pos \in 0..size /\ pos = 0 /\ server = "accept" /\ recv = "connect"
      /\ stream = <<>> /\ received = <<>> /\ eof = FALSE /\ Len(<<>>) = 0
  BY SizesOK DEF X!FileInit
<1>2. Run(<<>>, 0)
  BY RunOf
<1> QED  BY <1>1, <1>2 DEF FileInv

\* A block of the file goes out; a short one is the last.
LEMMA BlockKeeps == ASSUME FileInv, X!SendBlock PROVE FileInv'
<1> DEFINE n == X!Min({Block, size - pos})
           block == [i \in 1..n |-> pos + i]
<1>1. /\ size \in Nat /\ pos \in Nat /\ pos <= size /\ size - pos \in Nat /\ Block \in Nat
      /\ Block # 0
  BY SizesOK DEF FileInv
<1>2. n = IF Block <= size - pos THEN Block ELSE size - pos
  <2> DEFINE left == size - pos
  <2>1. left \in Nat
    BY <1>1
  <2> HIDE DEF left
  <2>2. X!Min({Block, left}) = IF Block <= left THEN Block ELSE left
    BY <1>1, <2>1, LeastIsOneX
  <2> QED  BY <2>2 DEF left
<1>3. /\ server = "send" /\ size' = size /\ fopened' = fopened /\ recv' = recv
      /\ received' = received
  BY DEF X!SendBlock
<1>4. Run(block, pos) /\ Len(block) = n /\ n \in Nat
  <2>1. n \in Nat
    BY <1>1, <1>2
  <2> HIDE DEF n
  <2> QED  BY <1>1, <2>1, RunOf
<1>5. \/ /\ recv # "killed" /\ stream' = stream \o block /\ pos' = pos + n /\ eof' = eof
         /\ server' = IF n < Block THEN "shut" ELSE "send"
      \/ /\ recv = "killed" /\ pos' = pos + n /\ eof' = eof
         /\ server' \in {IF n < Block THEN "shut" ELSE "send", "killed"}
      \/ /\ "server" \notin fopened /\ pos' = pos /\ stream' = stream
         /\ server' = "killed" /\ eof' = TRUE
  BY DEF X!SendBlock
<1> HIDE DEF n, block
<1>6. ~eof /\ recv # "done"
  BY <1>3 DEF FileInv
<1>7. pos + n \in 0..size /\ (n < Block => pos + n = size)
  BY <1>1, <1>2
<1>8. CASE "server" \notin fopened /\ pos' = pos /\ stream' = stream /\ server' = "killed"
           /\ eof' = TRUE
  BY <1>3, <1>6, <1>8 DEF FileInv
<1>9. CASE /\ recv = "killed" /\ pos' = pos + n /\ eof' = eof
           /\ server' \in {IF n < Block THEN "shut" ELSE "send", "killed"}
  BY <1>1, <1>3, <1>6, <1>7, <1>9 DEF FileInv
<1>10. CASE /\ recv # "killed" /\ stream' = stream \o block /\ pos' = pos + n /\ eof' = eof
            /\ server' = IF n < Block THEN "shut" ELSE "send"
  <2>1. ASSUME recv # "lost"
        PROVE  Run(received', 0) /\ Run(stream', Len(received')) /\ Len(received') + Len(stream') = pos'
    <3>1. /\ Run(received, 0) /\ Run(stream, Len(received)) /\ Len(received) + Len(stream) = pos
          /\ Len(received) \in Nat /\ Len(stream) \in Nat
      BY <1>10, <2>1 DEF FileInv, Run
    <3>2. Run(block, Len(received) + Len(stream))
      BY <1>4, <3>1
    <3>3. /\ Run(stream \o block, Len(received))
          /\ Len(stream \o block) = Len(stream) + Len(block)
      BY <3>1, <3>2, RunsJoin
    <3> QED  BY <1>3, <1>4, <1>10, <3>1, <3>3
  <2> QED  BY <1>1, <1>3, <1>6, <1>7, <1>10, <2>1 DEF FileInv
<1> QED  BY <1>5, <1>8, <1>9, <1>10

\* Bytes move from the stream to the file.
LEMMA FileMoves ==
    ASSUME Run(received, 0), Run(stream, Len(received)), NEW n \in 0..Len(stream)
    PROVE  /\ Run(received \o SubSeq(stream, 1, n), 0)
           /\ Len(received \o SubSeq(stream, 1, n)) = Len(received) + n
           /\ Run(SubSeq(stream, n + 1, Len(stream)), Len(received) + n)
           /\ Len(received \o SubSeq(stream, 1, n)) + Len(SubSeq(stream, n + 1, Len(stream)))
                = Len(received) + Len(stream)
<1> DEFINE moved(h, d, m) ==
      /\ Run(h \o SubSeq(d, 1, m), 0) /\ Len(h \o SubSeq(d, 1, m)) = Len(h) + m
      /\ Run(SubSeq(d, m + 1, Len(d)), Len(h) + m)
      /\ Len(h \o SubSeq(d, 1, m)) + Len(SubSeq(d, m + 1, Len(d))) = Len(h) + Len(d)
<1>1. \A h, d : Run(h, 0) /\ Run(d, Len(h)) => \A m \in 0..Len(d) : moved(h, d, m)
  BY HearingMoves
<1>2. moved(received, stream, n)
  <2> HIDE DEF moved
  <2> QED  BY <1>1
<1> QED  BY <1>2

\* What is read is the next of what was sent.
LEMMA ReceiveKeeps == ASSUME FileInv, X!Receive PROVE FileInv'
<1>1. /\ Run(received, 0) /\ Run(stream, Len(received)) /\ Len(received) + Len(stream) = pos
      /\ Len(stream) \in Nat /\ recv = "read"
      /\ size' = size /\ pos' = pos /\ fopened' = fopened /\ server' = server /\ eof' = eof
  BY DEF FileInv, Run, X!Receive
<1>2. ASSUME NEW n \in 1..X!Min({Block, Len(stream)}),
             received' = received \o SubSeq(stream, 1, n),
             stream' = SubSeq(stream, n + 1, Len(stream)), recv' = recv
      PROVE  FileInv'
  <2>1. n \in 0..Len(stream)
    <3>1. Block \in Nat
      BY SizesOK
    <3>2. X!Min({Block, Len(stream)}) = IF Block <= Len(stream) THEN Block ELSE Len(stream)
      <4> DEFINE l == Len(stream)
      <4>1. l \in Nat
        BY <1>1
      <4> HIDE DEF l
      <4>2. X!Min({Block, l}) = IF Block <= l THEN Block ELSE l
        BY <3>1, <4>1, LeastIsOneX
      <4> QED  BY <4>2 DEF l
    <3> QED  BY <1>1, <3>1, <3>2
  <2>2. /\ Run(received', 0) /\ Len(received') = Len(received) + n
        /\ Run(stream', Len(received) + n)
        /\ Len(received') + Len(stream') = Len(received) + Len(stream)
    <3>1. /\ Run(received \o SubSeq(stream, 1, n), 0)
          /\ Len(received \o SubSeq(stream, 1, n)) = Len(received) + n
          /\ Run(SubSeq(stream, n + 1, Len(stream)), Len(received) + n)
          /\ Len(received \o SubSeq(stream, 1, n)) + Len(SubSeq(stream, n + 1, Len(stream)))
               = Len(received) + Len(stream)
      <4>1. Run(received, 0) /\ Run(stream, Len(received))
        BY <1>1
      <4> QED  BY <2>1, <4>1, FileMoves
    <3> QED  BY <1>2, <3>1
  <2>3. Run(received', 0) /\ Run(stream', Len(received')) /\ Len(received') + Len(stream') = pos'
    BY <1>1, <2>2
  <2>4. recv' = "read"
    BY <1>1, <1>2
  <2> QED  BY <1>1, <2>3, <2>4 DEF FileInv
<1>3. CASE /\ stream = <<>> /\ eof /\ recv' \in {"done", "killed"}
           /\ stream' = stream /\ received' = received
  BY <1>1, <1>3 DEF FileInv
<1>4. CASE recv' = "killed"
  BY <1>1, <1>4 DEF FileInv
<1> QED  BY <1>1, <1>2, <1>3, <1>4 DEF X!Receive

\* Every step of file_server.c and file_client.c.
LEMMA FileStep == ASSUME FileInv, X!FileNext \/ UNCHANGED transfer PROVE FileInv'
<1>1. CASE X!Meet
  BY <1>1 DEF X!Meet, FileInv
<1>2. CASE X!Shutdown
  BY <1>2 DEF X!Shutdown, FileInv
<1>3. CASE X!ServerEnds
  BY <1>3 DEF X!ServerEnds, FileInv
<1>4. CASE X!NoConnection
  BY <1>4 DEF X!NoConnection, FileInv
<1>5. CASE X!AcceptFails
  <2>1. /\ server = "accept" /\ server' \in {"done", "killed"} /\ ~eof
        /\ (recv' = recv /\ received' = received) \/ recv' = "killed"
        /\ UNCHANGED <<size, pos, fopened, stream, eof, thanks>>
    BY <1>5 DEF X!AcceptFails, FileInv
  <2> QED  BY <2>1 DEF FileInv
<1>6. CASE X!ReadFails
  <2>1. recv' \in {"lost", "killed"} /\ UNCHANGED <<size, pos, fopened, server, stream, eof, thanks>>
    BY <1>6 DEF X!ReadFails
  <2> QED  BY <2>1 DEF FileInv
<1>7. CASE UNCHANGED transfer
  BY <1>7 DEF transfer, FileInv
<1> QED
  BY <1>1, <1>2, <1>3, <1>4, <1>5, <1>6, <1>7, BlockKeeps, ReceiveKeeps
     DEF X!FileNext, X!FileServer, X!FileClient

\* So the client that ends has the whole file, if the server had it.
LEMMA TheFileArrives == FileInv => X!FileArrives
<1> SUFFICES ASSUME FileInv PROVE X!FileArrives
  OBVIOUS
<1>1. ASSUME recv \notin {"lost", "killed"} PROVE received \o stream = [i \in 1..pos |-> i]
  <2>1. /\ Run(received, 0) /\ Run(stream, 0 + Len(received))
        /\ Len(received) + Len(stream) = pos /\ Len(received) \in Nat
    <3>1. Len(received) \in Nat /\ Run(received, 0)
      BY <1>1 DEF FileInv, Run
    <3> QED  BY <1>1, <3>1 DEF FileInv
  <2>2. Run(received \o stream, 0) /\ Len(received \o stream) = pos
    BY <2>1, RunsJoin
  <2> QED  BY <2>2, RunIs
<1>2. ASSUME recv = "done", "server" \in fopened PROVE Len(received) = size
  <2>1. stream = <<>> /\ pos = size /\ Len(received) + Len(stream) = pos /\ Len(received) \in Nat
    BY <1>2 DEF FileInv, Run
  <2>2. Len(stream) = 0
    BY <2>1
  <2> QED  BY <2>1, <2>2
<1> QED  BY <1>1, <1>2 DEF X!FileArrives

-----------------------------------------------------------------------------
(* The select server: the descriptors of a round.                           *)

\* This instance has its own names for the size of a set and its greatest member.
LEMMA OneCardinalityS == \A Q : S!Cardinality(Q) = Cardinality(Q)
BY DEF S!Cardinality, Cardinality

LEMMA MostIsOneS ==
  ASSUME NEW m \in Nat, NEW n \in Nat
  PROVE  S!Max({m, n}) = IF m >= n THEN m ELSE n
BY DEF S!Max

\* The least of some numbers is one of them.
LEMMA LeastIsThere ==
    ASSUME NEW Q, Q \subseteq Nat, Q # {} PROVE S!Min(Q) \in Q
<1>1. PICK m \in Q : \A n \in Q : <<n, m>> \notin OpToRel(<, Nat)
  BY NatLessThanWellFounded, WFMin
<1>2. \A n \in Q : m <= n
  <2>1. ASSUME NEW n \in Q PROVE m <= n
    <3>1. ~(n < m)
      <4>1. <<n, m>> \in Nat \X Nat /\ <<n, m>>[1] = n /\ <<n, m>>[2] = m
        OBVIOUS
      <4> QED  BY <1>1, <4>1 DEF OpToRel
    <3>2. n \in Nat /\ m \in Nat
      OBVIOUS
    <3> QED  BY <3>1, <3>2
  <2> QED  BY <2>1
<1> QED  BY <1>2 DEF S!Min

\* The process knows its clients by numbers of their own, watches exactly these and the server
\* socket, and has closed none of them.
Table ==
    /\ fd \in [DOMAIN fd -> Few] /\ DOMAIN fd \subseteq Nat /\ \A f \in DOMAIN fd : f > S!Serv
    /\ \A f, g \in DOMAIN fd : fd[f] = fd[g] => f = g
    /\ reads = {S!Serv} \cup DOMAIN fd
    /\ fd_max \in Nat /\ \A f \in reads : f <= fd_max
    /\ \A f \in DOMAIN fd : alive => ~conn[fd[f]].shut

\* Only a client that may close its socket while bytes come back loses any, and no duplex client
\* is gone before the server closed.
Rude(k, q) == (k = "duplex" /\ q.gone => q.shut) /\ (q.lost => k = "oneread")

SelectGood(x) ==
    /\ \E e \in Nat : Whole(SelectKind(x), client[x], conn[x], e)
    /\ Rude(SelectKind(x), conn[x])

Visited == alive => cpy_reads \subseteq reads /\ \A f \in cpy_reads : S!Readable(f)

SelectInv ==
    /\ Net(Few) /\ (\A x \in Few : SelectGood(x)) /\ Table /\ Visited
    /\ alive \in BOOLEAN /\ S!DiesOnlyOfRudeness

\* There is a free number for one more client.
LEMMA FreeNumber ==
    ASSUME SelectInv
    PROVE  LET new == S!Min((S!Serv + 1..S!Serv + 1 + S!Cardinality(Few)) \ DOMAIN fd)
           IN  new \in Nat /\ new > S!Serv /\ new \notin DOMAIN fd
<1> DEFINE n == Cardinality(Few)
           all == 4..(4 + n)
<1>1. IsFiniteSet(Few) /\ n \in Nat
  BY ClientsOK, FS_CardinalityType
<1>2. fd \in Injection(DOMAIN fd, Few)
  BY DEF SelectInv, Table, Injection, IsInjective
<1>3. IsFiniteSet(DOMAIN fd) /\ Cardinality(DOMAIN fd) <= n
  BY <1>1, <1>2, FS_Injection
<1>4. IsFiniteSet(all) /\ Cardinality(all) = n + 1
  <2> HIDE DEF n
  <2>1. 4 \in Int /\ 4 + n \in Int /\ ~(4 > 4 + n) /\ (4 + n) - 4 + 1 = n + 1
    BY <1>1
  <2> QED  BY <2>1, FS_Interval
<1>5. ~(all \subseteq DOMAIN fd)
  <2>1. all \subseteq DOMAIN fd => Cardinality(all) <= Cardinality(DOMAIN fd)
    BY <1>3, FS_Subset
  <2>2. Cardinality(DOMAIN fd) \in Nat
    BY <1>3, FS_CardinalityType
  <2> HIDE DEF n, all
  <2> QED  BY <1>1, <1>3, <1>4, <2>1, <2>2
<1>6. S!Serv + 1..S!Serv + 1 + S!Cardinality(Few) = all
  BY OneCardinalityS DEF S!Serv
<1>7. all \ DOMAIN fd \subseteq Nat /\ all \ DOMAIN fd # {}
  BY <1>1, <1>5
<1>8. S!Min(all \ DOMAIN fd) \in all \ DOMAIN fd
  <2> HIDE DEF all
  <2> QED  BY <1>7, LeastIsThere
<1> DEFINE new == S!Min(all \ DOMAIN fd)
<1>9. new \in Nat /\ new > S!Serv /\ new \notin DOMAIN fd
  <2> HIDE DEF n
  <2>1. new \in 4..(4 + n) /\ new \notin DOMAIN fd
    BY <1>8
  <2> HIDE DEF new
  <2> QED  BY <1>1, <2>1 DEF S!Serv
<1> QED  BY <1>6, <1>9

\* What a client's step leaves as it was.
LEMMA MovesFrame ==
    ASSUME NEW k, NEW n \in Nat, NEW r, NEW q, NEW r2, NEW q2, r \in Peers, q \in Links,
           Moves(k, n, r, q, r2, q2)
    PROVE  /\ q2.shut = q.shut /\ q2.lost = q.lost /\ (q.eof => q2.eof)
           /\ q.up # <<>> => q2.up # <<>>
           /\ r2.pc # "new"
           /\ k = "duplex" /\ q2.gone => q.gone \/ q.shut
<1>1. CASE Says(k, n, r, q, r2, q2)
  <2>1. PICK after \in {"talk", "deaf", "quit", "wait", "done"} :
          r2 = Spoken(r, n, after) /\ q2 = Sent(q, r, n)
    BY <1>1 DEF Says
  <2> DEFINE line == [i \in 1..n |-> r.said + i]
  <2>2. line \in Seq(Nat)
    <3>1. r.said \in Nat
      BY DEF Peers
    <3> QED  BY <3>1, RunOf DEF Run
  <2>3. /\ q2.shut = q.shut /\ q2.lost = q.lost /\ q2.eof = q.eof /\ q2.gone = q.gone
        /\ q2.up = (IF q.shut THEN q.up ELSE q.up \o line) /\ r2.pc = after
    BY <2>1 DEF Spoken, Sent, Peers, Links
  <2> HIDE DEF line
  <2>4. q.up # <<>> => q.up \o line # <<>>
    BY <2>2 DEF Links
  <2> QED  BY <2>3, <2>4
<1>2. CASE Hears(k, r, q, r2, q2)
  <2>1. PICK m \in 0..Len(q.down), after \in {"talk", "quit", "wait"} :
          /\ r2 = [r EXCEPT !.heard = r.heard \o SubSeq(q.down, 1, m), !.pc = after]
          /\ q2 = [q EXCEPT !.down = SubSeq(q.down, m + 1, Len(q.down))]
    BY <1>2 DEF Hears
  <2>2. /\ q2.shut = q.shut /\ q2.lost = q.lost /\ q2.eof = q.eof /\ q2.gone = q.gone
        /\ q2.up = q.up /\ r2.pc = after
    BY <2>1 DEF Peers, Links
  <2> QED  BY <2>2
<1>3. CASE Turns(k, r, q, r2, q2)
  <2>1. PICK after \in {"talk", "deaf", "quit", "done", "spin"} : r2 = [r EXCEPT !.pc = after]
    BY <1>3 DEF Turns
  <2>2. r2.pc = after
    BY <2>1 DEF Peers
  <2>3. CASE q2 = q
    BY <2>2, <2>3
  <2>4. CASE q2 = [q EXCEPT !.eof = TRUE]
    BY <2>2, <2>4 DEF Links
  <2>5. CASE q2 = [q EXCEPT !.gone = FALSE]
    BY <2>2, <2>5 DEF Links
  <2>6. CASE q2 = [q EXCEPT !.gone = TRUE] /\ q.shut
    BY <2>2, <2>6 DEF Links
  <2>7. CASE q2 = [q EXCEPT !.eof = TRUE, !.gone = TRUE, !.down = <<>>] /\ k # "duplex"
    BY <2>2, <2>7 DEF Links
  <2> QED  BY <1>3, <2>3, <2>4, <2>5, <2>6, <2>7 DEF Turns
<1> QED  BY <1>1, <1>2, <1>3 DEF Moves

\* One client or its connection changes.
LEMMA OneSelectClient ==
    ASSUME SelectInv, NEW x \in Few, NEW r2, NEW q2, NEW e \in Nat,
           client' = [client EXCEPT ![x] = r2], conn' = [conn EXCEPT ![x] = q2],
           Whole(SelectKind(x), r2, q2, e), Rude(SelectKind(x), q2)
    PROVE  /\ Net(Few)' /\ \A y \in Few : SelectGood(y)'
           /\ client'[x] = r2 /\ conn'[x] = q2
           /\ \A y \in Few \ {x} : client'[y] = client[y] /\ conn'[y] = conn[y]
<1>1. r2 \in Peers /\ q2 \in Links
  BY DEF Whole
<1>2. /\ client'[x] = r2 /\ conn'[x] = q2 /\ Net(Few)'
      /\ \A y \in Few \ {x} : client'[y] = client[y] /\ conn'[y] = conn[y]
  BY <1>1 DEF SelectInv, Net
<1>3. ASSUME NEW y \in Few PROVE SelectGood(y)'
  <2>1. CASE y = x
    BY <1>2, <2>1 DEF SelectGood
  <2>2. CASE y # x
    <3>1. SelectGood(y)
      BY DEF SelectInv
    <3>2. client'[y] = client[y] /\ conn'[y] = conn[y]
      BY <1>2, <2>2
    <3> QED  BY <3>1, <3>2 DEF SelectGood
  <2> QED  BY <2>1, <2>2
<1> QED  BY <1>2, <1>3

\* The server is ended only once.
LEMMA RudenessStays ==
    ASSUME SelectInv, alive' = alive, \A y \in Few : conn[y].lost => conn'[y].lost
    PROVE  S!DiesOnlyOfRudeness'
BY DEF SelectInv, S!DiesOnlyOfRudeness

\* A step of a client.
LEMMA SelectClientKeeps ==
    ASSUME SelectInv, NEW x \in Few, S!ClientNext(x), UNCHANGED select
    PROVE  SelectInv'
<1>0. /\ Net(Few) /\ client \in [Few -> Peers] /\ conn \in [Few -> Links]
      /\ fd' = fd /\ reads' = reads /\ cpy_reads' = cpy_reads /\ fd_max' = fd_max
      /\ alive' = alive
  BY DEF SelectInv, Net, select
<1>1. PICK r2, q2 :
        /\ client' = [client EXCEPT ![x] = r2] /\ conn' = [conn EXCEPT ![x] = q2]
        /\ Moves(SelectKind(x), SelectLine, client[x], conn[x], r2, q2)
  BY <1>0, SelectClients DEF Steps
<1>2. PICK e \in Nat : Whole(SelectKind(x), client[x], conn[x], e)
  BY DEF SelectInv, SelectGood
<1>3. Whole(SelectKind(x), r2, q2, e)
  BY <1>1, <1>2, MovesKeep, SizesOK
<1>4. /\ q2.shut = conn[x].shut /\ q2.lost = conn[x].lost /\ (conn[x].eof => q2.eof)
      /\ conn[x].up # <<>> => q2.up # <<>>
      /\ r2.pc # "new"
      /\ SelectKind(x) = "duplex" /\ q2.gone => conn[x].gone \/ conn[x].shut
  <2>1. client[x] \in Peers /\ conn[x] \in Links /\ SelectLine \in Nat
    BY <1>0, SizesOK
  <2> QED  BY <1>1, <2>1, MovesFrame
<1>5. Rude(SelectKind(x), q2)
  BY <1>4 DEF SelectInv, SelectGood, Rude
<1>6. /\ Net(Few)' /\ (\A y \in Few : SelectGood(y)')
      /\ client'[x] = r2 /\ conn'[x] = q2
      /\ \A y \in Few \ {x} : client'[y] = client[y] /\ conn'[y] = conn[y]
  BY <1>1, <1>3, <1>5, OneSelectClient
<1>7. \A y \in Few : /\ conn'[y].shut = conn[y].shut /\ conn'[y].lost = conn[y].lost
                     /\ (conn[y].eof => conn'[y].eof)
                     /\ (conn[y].up # <<>> => conn'[y].up # <<>>)
                     /\ (client[y].pc # "new" => client'[y].pc # "new")
  BY <1>4, <1>6
<1>8. Table'
  BY <1>0, <1>7 DEF SelectInv, Table
<1>9. ASSUME NEW f, S!Readable(f) PROVE S!Readable(f)'
  <2>1. S!Waiting \subseteq S!Waiting'
    BY <1>0, <1>7 DEF S!Waiting
  <2>2. CASE f = S!Serv
    BY <1>9, <2>1, <2>2 DEF S!Readable
  <2>3. CASE f # S!Serv
    <3>1. f \in DOMAIN fd /\ fd[f] \in Few /\ (conn[fd[f]].up # <<>> \/ conn[fd[f]].eof)
      BY <1>9, <2>3 DEF S!Readable, SelectInv, Table
    <3> QED  BY <1>0, <1>7, <2>3, <3>1 DEF S!Readable
  <2> QED  BY <2>2, <2>3
<1>10. Visited'
  BY <1>0, <1>9 DEF SelectInv, Visited
<1>11. S!DiesOnlyOfRudeness'
  BY <1>0, <1>7, RudenessStays
<1>12. alive' \in BOOLEAN
  BY <1>0, Zenon DEF SelectInv
<1> QED  BY <1>6, <1>8, <1>10, <1>11, <1>12 DEF SelectInv

\* The numbers select reports are readable, and are among those given to it.
LEMMA SelectKeeps == ASSUME SelectInv, S!Select PROVE SelectInv'
<1>1. /\ client' = client /\ conn' = conn /\ fd' = fd /\ reads' = reads /\ fd_max' = fd_max
      /\ alive' = alive /\ cpy_reads' = {f \in reads : f <= fd_max /\ S!Readable(f)}
  BY DEF S!Select
<1>2. \A f : S!Readable(f)' = S!Readable(f)
  BY <1>1 DEF S!Readable, S!Waiting
<1>3. Visited'
  BY <1>1, <1>2 DEF Visited
<1>4. Table'
  BY <1>1 DEF SelectInv, Table
<1>5. Net(Few)' /\ \A x \in Few : SelectGood(x)'
  BY <1>1 DEF SelectInv, Net, SelectGood
<1>6. S!DiesOnlyOfRudeness' /\ alive' \in BOOLEAN
  BY <1>1, Zenon DEF SelectInv, S!DiesOnlyOfRudeness
<1> QED  BY <1>3, <1>4, <1>5, <1>6 DEF SelectInv

\* A new client gets a number of its own.
LEMMA AcceptKeeps == ASSUME SelectInv, S!AcceptOne PROVE SelectInv'
<1> DEFINE new == S!Min((S!Serv + 1..S!Serv + 1 + S!Cardinality(Few)) \ DOMAIN fd)
<1>1. PICK x \in S!Waiting :
        /\ fd' = [f \in DOMAIN fd \cup {new} |-> IF f = new THEN x ELSE fd[f]]
        /\ reads' = reads \cup {new} /\ fd_max' = S!Max({fd_max, new})
        /\ cpy_reads' = cpy_reads \ {S!Serv} /\ client' = client /\ conn' = conn
        /\ alive' = alive
  BY DEF S!AcceptOne
<1>2. new \in Nat /\ new > S!Serv /\ new \notin DOMAIN fd
  BY FreeNumber
<1> HIDE DEF new
<1>3. x \in Few /\ ~conn[x].shut /\ \A f \in DOMAIN fd : fd[f] # x
  BY DEF S!Waiting
<1>4. /\ DOMAIN fd' = DOMAIN fd \cup {new} /\ fd'[new] = x
      /\ \A f \in DOMAIN fd : fd'[f] = fd[f]
  BY <1>1, <1>2
<1>5. Table'
  <2>1. fd_max' \in Nat /\ fd_max' >= fd_max /\ fd_max' >= new /\ fd_max \in Nat
    BY <1>1, <1>2, MostIsOneS DEF SelectInv, Table
  <2>2. /\ fd' \in [DOMAIN fd' -> Few] /\ DOMAIN fd' \subseteq Nat
        /\ \A f \in DOMAIN fd' : f > S!Serv
        /\ reads' = {S!Serv} \cup DOMAIN fd'
    BY <1>1, <1>2, <1>3, <1>4 DEF SelectInv, Table
  <2>3. \A f, g \in DOMAIN fd' : fd'[f] = fd'[g] => f = g
    BY <1>2, <1>3, <1>4 DEF SelectInv, Table
  <2>4. \A f \in reads' : f <= fd_max'
    <3>1. \A f \in reads : f \in Nat /\ f <= fd_max
      BY DEF SelectInv, Table, S!Serv
    <3> QED  BY <1>1, <1>2, <2>1, <3>1
  <2>5. \A f \in DOMAIN fd' : alive' => ~conn'[fd'[f]].shut
    BY <1>1, <1>3, <1>4 DEF SelectInv, Table
  <2> QED  BY <2>1, <2>2, <2>3, <2>4, <2>5 DEF Table
<1>6. ASSUME alive PROVE cpy_reads' \subseteq reads' /\ \A f \in cpy_reads' : S!Readable(f)'
  <2>1. ASSUME NEW f \in cpy_reads' PROVE f \in reads' /\ S!Readable(f)'
    <3>1. f \in reads /\ S!Readable(f) /\ f # S!Serv
      BY <1>1, <1>6 DEF SelectInv, Visited
    <3>2. f \in DOMAIN fd /\ fd'[f] = fd[f]
      BY <1>4, <3>1 DEF S!Readable
    <3> QED  BY <1>1, <1>4, <3>1, <3>2 DEF S!Readable
  <2> QED  BY <2>1
<1>7. Net(Few)' /\ \A y \in Few : SelectGood(y)'
  BY <1>1 DEF SelectInv, Net, SelectGood
<1>8. S!DiesOnlyOfRudeness' /\ alive' \in BOOLEAN
  BY <1>1, Zenon DEF SelectInv, S!DiesOnlyOfRudeness
<1>9. Visited'
  BY <1>1, <1>6 DEF Visited
<1> QED  BY <1>5, <1>7, <1>8, <1>9 DEF SelectInv

\* Whose turn it is has not been closed, and no other number stands for the same client.
LEMMA WhoseTurn ==
    ASSUME SelectInv, NEW f, f # S!Serv, S!Turn(f)
    PROVE  /\ f \in DOMAIN fd /\ fd[f] \in Few /\ ~conn[fd[f]].shut /\ f \in cpy_reads /\ alive
           /\ \A g \in cpy_reads : f <= g
           /\ \A g \in DOMAIN fd \ {f} : fd[g] \in Few \ {fd[f]}
<1>1. f \in cpy_reads /\ alive /\ \A g \in cpy_reads : f <= g
  BY DEF S!Turn
<1>2. f \in DOMAIN fd
  BY <1>1 DEF SelectInv, Visited, Table
<1> QED  BY <1>1, <1>2 DEF SelectInv, Table

\* The rest of the round, when the server was at f and that was client x's.
LEMMA RestOfTheRound ==
    ASSUME SelectInv, NEW f, f # S!Serv, S!Turn(f), client' = client,
           cpy_reads' = cpy_reads \ {f},
           \A g \in DOMAIN fd \ {f} : g \in DOMAIN fd' /\ fd'[g] = fd[g],
           \A y \in Few \ {fd[f]} : conn'[y] = conn[y]
    PROVE  \A g \in cpy_reads' : g \in reads \ {f} /\ S!Readable(g)'
<1> SUFFICES ASSUME NEW g \in cpy_reads' PROVE g \in reads \ {f} /\ S!Readable(g)'
  OBVIOUS
<1>1. /\ g \in reads /\ g # f /\ S!Readable(g) /\ f <= g /\ f > S!Serv /\ g # S!Serv
      /\ g \in DOMAIN fd
  <2>1. g \in cpy_reads /\ g # f /\ f <= g /\ f \in DOMAIN fd /\ alive
    BY WhoseTurn
  <2>2. g \in reads /\ S!Readable(g) /\ f > S!Serv /\ f \in Nat /\ (g = S!Serv \/ g \in DOMAIN fd)
    BY <2>1 DEF SelectInv, Visited, Table
  <2>3. g # S!Serv
    BY <2>1, <2>2 DEF S!Serv
  <2> QED  BY <2>1, <2>2, <2>3
<1>2. g \in DOMAIN fd' /\ fd'[g] = fd[g] /\ conn'[fd[g]] = conn[fd[g]]
  BY <1>1, WhoseTurn
<1> QED  BY <1>1, <1>2 DEF S!Readable

\* A round of the echo loop.
LEMMA SelectEchoIs ==
    ASSUME Net(Few), NEW x \in Few, NEW n \in S!EchoSizes(x), S!Echo(x, n)
    PROVE  n \in 0..Len(conn[x].up) /\ conn' = [conn EXCEPT ![x] = Echoed(conn[x], n)]
<1> DEFINE l == Len(conn[x].up)
<1>1. l \in Nat /\ SelectBuf \in Nat
  BY SizesOK DEF Net, Links
<1>2. n \in 1..S!Min({SelectBuf, l})
  BY DEF S!EchoSizes
<1>3. n \in 0..l
  <2> HIDE DEF l
  <2>1. S!Min({SelectBuf, l}) = IF SelectBuf <= l THEN SelectBuf ELSE l
    BY <1>1, LeastIsOneS
  <2> QED  BY <1>1, <1>2, <2>1
<1>4. conn' = [conn EXCEPT ![x] = Echoed(conn[x], n)]
  BY DEF S!Echo, S!First, S!Rest, Echoed, Net, Links
<1> QED  BY <1>3, <1>4

\* The server answers a client the round found readable.
LEMMA EchoOneKeeps == ASSUME SelectInv, NEW f, S!EchoOne(f) PROVE SelectInv'
<1> DEFINE x == fd[f]
<1>1. /\ f \in DOMAIN fd /\ x \in Few /\ ~conn[x].shut /\ alive /\ f # S!Serv /\ S!Turn(f)
      /\ \A g \in DOMAIN fd \ {f} : fd[g] \in Few \ {x}
  BY WhoseTurn DEF S!EchoOne
<1>2. PICK n \in S!EchoSizes(x) : S!Echo(x, n)
  BY DEF S!EchoOne
<1>3. /\ client' = client /\ fd' = fd /\ reads' = reads /\ fd_max' = fd_max /\ alive' = alive
      /\ cpy_reads' = cpy_reads \ {f}
  BY DEF S!EchoOne
<1>4. Net(Few) /\ conn[x] \in Links /\ client' = [client EXCEPT ![x] = client[x]]
  BY <1>1, <1>3 DEF SelectInv, Net
<1>5. n \in 0..Len(conn[x].up) /\ conn' = [conn EXCEPT ![x] = Echoed(conn[x], n)]
  BY <1>1, <1>2, <1>4, SelectEchoIs
<1>6. PICK e \in Nat : Whole(SelectKind(x), client[x], conn[x], e)
  BY <1>1 DEF SelectInv, SelectGood
<1>7. Whole(SelectKind(x), client[x], Echoed(conn[x], n), e + n) /\ e + n \in Nat
  BY <1>1, <1>5, <1>6, EchoingKeeps
<1>8. /\ Echoed(conn[x], n).shut = conn[x].shut /\ Echoed(conn[x], n).gone = conn[x].gone
      /\ Echoed(conn[x], n).lost = (conn[x].lost \/ conn[x].gone)
  BY <1>4 DEF Echoed, Links
<1>9. Rude(SelectKind(x), Echoed(conn[x], n))
  <2>1. Rude(SelectKind(x), conn[x])
    BY <1>1 DEF SelectInv, SelectGood
  <2>2. SelectKind(x) \in {"duplex", "oneread"}
    BY DEF SelectKind
  <2> QED  BY <1>1, <1>8, <2>1, <2>2 DEF Rude
<1>10. /\ Net(Few)' /\ (\A y \in Few : SelectGood(y)')
       /\ conn'[x] = Echoed(conn[x], n)
       /\ \A y \in Few \ {x} : conn'[y] = conn[y]
  <2> DEFINE r2 == client[x]
             q2 == Echoed(conn[x], n)
             d == e + n
  <2>1. /\ x \in Few /\ d \in Nat /\ client' = [client EXCEPT ![x] = r2]
        /\ conn' = [conn EXCEPT ![x] = q2]
        /\ Whole(SelectKind(x), r2, q2, d) /\ Rude(SelectKind(x), q2)
    BY <1>1, <1>4, <1>5, <1>7, <1>9
  <2> HIDE DEF x, r2, q2, d
  <2>2. /\ Net(Few)' /\ (\A y \in Few : SelectGood(y)') /\ conn'[x] = q2
        /\ \A y \in Few \ {x} : conn'[y] = conn[y]
    BY <2>1, OneSelectClient
  <2> QED  BY <2>2 DEF q2
<1>11. \A y \in Few : conn'[y].shut = conn[y].shut /\ (conn[y].lost => conn'[y].lost)
  BY <1>8, <1>10
<1>12. Table'
  BY <1>3, <1>11 DEF SelectInv, Table
<1>13. \A g \in cpy_reads' : g \in reads \ {f} /\ S!Readable(g)'
  <2>1. \A g \in DOMAIN fd \ {f} : g \in DOMAIN fd' /\ fd'[g] = fd[g]
    BY <1>3
  <2> QED  BY <1>1, <1>3, <1>10, <2>1, RestOfTheRound
<1>14. Visited'
  BY <1>3, <1>13 DEF Visited
<1>15. S!DiesOnlyOfRudeness'
  BY <1>3, <1>11, RudenessStays
<1>16. alive' \in BOOLEAN
  BY <1>3, Zenon DEF SelectInv
<1> QED  BY <1>10, <1>12, <1>14, <1>15, <1>16 DEF SelectInv

\* It closes one that is at its end, and the highest descriptor falls.
LEMMA CloseOneKeeps == ASSUME SelectInv, NEW f, S!CloseOne(f) PROVE SelectInv'
<1> DEFINE x == fd[f]
<1>1. /\ f \in DOMAIN fd /\ x \in Few /\ alive /\ f # S!Serv /\ S!Turn(f)
      /\ \A g \in DOMAIN fd \ {f} : fd[g] \in Few \ {x}
  BY WhoseTurn DEF S!CloseOne
<1>2. /\ client' = client /\ fd' = [g \in DOMAIN fd \ {f} |-> fd[g]] /\ reads' = reads \ {f}
      /\ fd_max' = fd_max /\ alive' = alive /\ cpy_reads' = cpy_reads \ {f}
      /\ conn' = [conn EXCEPT ![x] = Shut(conn[x])]
  <2>1. conn' = [conn EXCEPT ![x].shut = TRUE]
    BY DEF S!CloseOne
  <2>2. conn' = [conn EXCEPT ![x] = Shut(conn[x])]
    BY <1>1, <2>1 DEF Shut, SelectInv, Net, Links
  <2> QED  BY <2>2 DEF S!CloseOne
<1>3. conn[x] \in Links /\ client' = [client EXCEPT ![x] = client[x]]
  BY <1>1, <1>2 DEF SelectInv, Net
<1>4. PICK e \in Nat : Whole(SelectKind(x), client[x], conn[x], e)
  BY <1>1 DEF SelectInv, SelectGood
<1>5. Whole(SelectKind(x), client[x], Shut(conn[x]), e)
  BY <1>4, ShuttingKeeps
<1>6. Shut(conn[x]).lost = conn[x].lost /\ Shut(conn[x]).shut = TRUE
  BY <1>3 DEF Shut, Links
<1>7. Rude(SelectKind(x), Shut(conn[x]))
  BY <1>1, <1>6 DEF SelectInv, SelectGood, Rude
<1>8. /\ Net(Few)' /\ (\A y \in Few : SelectGood(y)')
      /\ conn'[x] = Shut(conn[x])
      /\ \A y \in Few \ {x} : conn'[y] = conn[y]
  <2> DEFINE r2 == client[x]
             q2 == Shut(conn[x])
  <2>1. /\ x \in Few /\ client' = [client EXCEPT ![x] = r2]
        /\ conn' = [conn EXCEPT ![x] = q2]
        /\ Whole(SelectKind(x), r2, q2, e) /\ Rude(SelectKind(x), q2)
    BY <1>1, <1>2, <1>3, <1>5, <1>7
  <2> HIDE DEF x, r2, q2
  <2>2. /\ Net(Few)' /\ (\A y \in Few : SelectGood(y)') /\ conn'[x] = q2
        /\ \A y \in Few \ {x} : conn'[y] = conn[y]
    BY <1>4, <2>1, OneSelectClient
  <2> QED  BY <2>2 DEF q2
<1>9. DOMAIN fd' = DOMAIN fd \ {f} /\ \A g \in DOMAIN fd \ {f} : fd'[g] = fd[g]
  BY <1>2
<1>10. Table'
  <2>1. /\ fd' \in [DOMAIN fd' -> Few] /\ DOMAIN fd' \subseteq Nat
        /\ \A g \in DOMAIN fd' : g > S!Serv
        /\ \A g, h \in DOMAIN fd' : fd'[g] = fd'[h] => g = h
    BY <1>2, <1>9 DEF SelectInv, Table
  <2>2. /\ reads' = {S!Serv} \cup DOMAIN fd' /\ fd_max' \in Nat
        /\ \A g \in reads' : g <= fd_max'
    BY <1>1, <1>2, <1>9 DEF SelectInv, Table
  <2>3. \A g \in DOMAIN fd' : alive' => ~conn'[fd'[g]].shut
    BY <1>1, <1>2, <1>8, <1>9 DEF SelectInv, Table
  <2> QED  BY <2>1, <2>2, <2>3 DEF Table
<1>11. \A g \in cpy_reads' : g \in reads \ {f} /\ S!Readable(g)'
  BY <1>1, <1>2, <1>8, <1>9, RestOfTheRound
<1>12. Visited'
  BY <1>2, <1>11 DEF Visited
<1>13. S!DiesOnlyOfRudeness'
  BY <1>2, <1>6, <1>8, RudenessStays
<1>14. alive' \in BOOLEAN
  BY <1>2, Zenon DEF SelectInv
<1> QED  BY <1>8, <1>10, <1>12, <1>13, <1>14 DEF SelectInv

\* It dies of a write to a client that is gone.
LEMMA KilledKeeps == ASSUME SelectInv, NEW f, S!ServerKilled(f) PROVE SelectInv'
<1> DEFINE x == fd[f]
<1>1. x \in Few /\ conn[x].lost
  BY WhoseTurn DEF S!ServerKilled, S!SigPipe
<1>2. /\ client' = client /\ fd' = fd /\ reads' = reads /\ fd_max' = fd_max /\ alive' = FALSE
      /\ conn' = [y \in Few |-> IF client[y].pc = "new" THEN conn[y] ELSE Shut(conn[y])]
  BY DEF S!ServerKilled, Shut
<1>3. ASSUME NEW y \in Few PROVE conn'[y] \in Links /\ SelectGood(y)'
  <2>1. PICK e \in Nat : Whole(SelectKind(y), client[y], conn[y], e)
    BY DEF SelectInv, SelectGood
  <2>2. Whole(SelectKind(y), client[y], conn'[y], e)
    BY <1>2, <2>1, ShuttingKeeps
  <2>3. Rude(SelectKind(y), conn[y]) /\ conn[y] \in Links
    BY DEF SelectInv, SelectGood, Net
  <2>4. Rude(SelectKind(y), Shut(conn[y]))
    <3>1. Shut(conn[y]).lost = conn[y].lost /\ Shut(conn[y]).shut = TRUE
      BY <2>3 DEF Shut, Links
    <3> QED  BY <2>3, <3>1 DEF Rude
  <2>5. Rude(SelectKind(y), conn'[y])
    BY <1>2, <2>3, <2>4
  <2>6. client'[y] = client[y]
    BY <1>2
  <2> QED  BY <2>2, <2>5, <2>6 DEF SelectGood, Whole
<1>4. Net(Few)'
  BY <1>2, <1>3 DEF SelectInv, Net
<1>5. Table' /\ Visited'
  BY <1>2 DEF SelectInv, Table, Visited
<1>6. S!DiesOnlyOfRudeness' /\ alive' \in BOOLEAN
  <2>1. conn'[x].lost = conn[x].lost
    <3>1. conn[x] \in Links
      BY <1>1 DEF SelectInv, Net
    <3>2. Shut(conn[x]).lost = conn[x].lost
      BY <3>1 DEF Shut, Links
    <3> QED  BY <1>1, <1>2, <3>2
  <2>2. SelectKind(x) = "oneread"
    BY <1>1 DEF SelectInv, SelectGood, Rude
  <2>3. Kinds(Few, Hasty, "oneread")[x] = "oneread"
    BY <1>1, <2>2 DEF Kinds, SelectKind
  <2> QED  BY <1>1, <1>2, <2>1, <2>3 DEF S!DiesOnlyOfRudeness
<1> QED  BY <1>3, <1>4, <1>5, <1>6 DEF SelectInv

\* An accept that fails ends the turn of the listening socket, and nothing else.
LEMMA AcceptFailsKeeps == ASSUME SelectInv, S!AcceptFails PROVE SelectInv'
<1>1. /\ client' = client /\ conn' = conn /\ fd' = fd /\ reads' = reads /\ fd_max' = fd_max
      /\ alive' = alive /\ cpy_reads' = cpy_reads \ {S!Serv}
  BY DEF S!AcceptFails
<1>2. \A f : S!Readable(f)' = S!Readable(f)
  BY <1>1 DEF S!Readable, S!Waiting
<1>3. Visited' /\ Table'
  BY <1>1, <1>2 DEF SelectInv, Visited, Table
<1>4. Net(Few)' /\ \A x \in Few : SelectGood(x)'
  BY <1>1 DEF SelectInv, Net, SelectGood
<1>5. S!DiesOnlyOfRudeness' /\ alive' \in BOOLEAN
  BY <1>1, Zenon DEF SelectInv, S!DiesOnlyOfRudeness
<1> QED  BY <1>3, <1>4, <1>5 DEF SelectInv

\* Every step of the select server and its clients keeps it.
LEMMA SelectStep == ASSUME SelectInv, S!SelectNext PROVE SelectInv'
<1>1. CASE S!SelectStep
  BY <1>1, SelectKeeps, AcceptKeeps, AcceptFailsKeeps, EchoOneKeeps, CloseOneKeeps, KilledKeeps
     DEF S!SelectStep
<1>2. ASSUME NEW x \in Few, S!ClientNext(x), S!selServVars' = S!selServVars PROVE SelectInv'
  <2>1. UNCHANGED select
    BY <1>2 DEF S!selServVars, select
  <2> QED  BY <1>2, <2>1, SelectClientKeeps
<1> QED  BY <1>1, <1>2 DEF S!SelectNext

\* The steps of others leave the round alone.
LEMMA SelectSame == ASSUME SelectInv, UNCHANGED <<net, select>> PROVE SelectInv'
<1>1. /\ client' = client /\ conn' = conn /\ fd' = fd /\ reads' = reads /\ fd_max' = fd_max
      /\ alive' = alive /\ cpy_reads' = cpy_reads
  BY DEF net, select
<1>2. \A f : S!Readable(f)' = S!Readable(f)
  BY <1>1 DEF S!Readable, S!Waiting
<1>3. Visited' /\ Table'
  BY <1>1, <1>2 DEF SelectInv, Visited, Table
<1>4. Net(Few)' /\ \A x \in Few : SelectGood(x)'
  BY <1>1 DEF SelectInv, Net, SelectGood
<1>5. S!DiesOnlyOfRudeness' /\ alive' \in BOOLEAN
  BY <1>1, Zenon DEF SelectInv, S!DiesOnlyOfRudeness
<1> QED  BY <1>3, <1>4, <1>5 DEF SelectInv

\* The server has only its listening socket.
LEMMA SelectBegins == S!SelectInit => SelectInv
<1> SUFFICES ASSUME S!SelectInit PROVE SelectInv
  OBVIOUS
<1>1. /\ client = [x \in Few |-> [pc |-> "new", said |-> 0, heard |-> <<>>]]
      /\ conn = [x \in Few |-> [up |-> <<>>, down |-> <<>>, eof |-> FALSE,
                                gone |-> FALSE, shut |-> FALSE, lost |-> FALSE]]
      /\ fd = [f \in {} |-> f] /\ reads = {S!Serv} /\ cpy_reads = {} /\ fd_max = S!Serv
      /\ alive = TRUE
  BY DEF S!SelectInit, S!ClientsInit
<1>2. ASSUME NEW x \in Few
      PROVE  /\ Whole(SelectKind(x), client[x], conn[x], 0)
             /\ Rude(SelectKind(x), conn[x])
  <2>1. /\ client[x] = [pc |-> "new", said |-> 0, heard |-> <<>>]
        /\ conn[x] = [up |-> <<>>, down |-> <<>>, eof |-> FALSE,
                      gone |-> FALSE, shut |-> FALSE, lost |-> FALSE]
    BY <1>1
  <2>2. Whole(SelectKind(x), client[x], conn[x], 0)
    BY <2>1, WholeAtFirst
  <2>3. Rude(SelectKind(x), conn[x])
    BY <2>1 DEF Rude
  <2> QED  BY <2>2, <2>3
<1>3. \A x \in Few : client[x] \in Peers /\ conn[x] \in Links
  BY <1>2 DEF Whole
<1>4. Net(Few)
  BY <1>1, <1>3 DEF Net
<1>5. \A x \in Few : SelectGood(x)
  BY <1>2 DEF SelectGood
<1>6. Table /\ Visited
  BY <1>1 DEF Table, Visited, S!Serv
<1>7. S!DiesOnlyOfRudeness /\ alive \in BOOLEAN
  BY <1>1, Zenon DEF S!DiesOnlyOfRudeness
<1> QED  BY <1>4, <1>5, <1>6, <1>7 DEF SelectInv

\* So what select told is so when the round comes to it.
LEMMA RoundIsTrue == SelectInv => S!RoundStaysTrue
BY DEF SelectInv, Table, Visited, S!RoundStaysTrue

\* And every client of echo_selectserv.c hears what it said.
LEMMA SelectEchoesAll == SelectInv => S!SelectEchoes
<1> SUFFICES ASSUME SelectInv, NEW x \in Few PROVE S!HeardIsSaid(x) /\ S!InOrder(x, <<>>)
  BY DEF S!SelectEchoes
<1>1. PICK e \in Nat : Whole(SelectKind(x), client[x], conn[x], e)
  BY DEF SelectInv, SelectGood
<1>2. Sound(SelectKind(x), client[x], conn[x])
  BY <1>1, WholeIsSound
<1>3. Kinds(Few, Hasty, "oneread")[x] = SelectKind(x)
  BY DEF Kinds, SelectKind
<1> QED  BY <1>2, <1>3 DEF S!HeardIsSaid, S!InOrder, Sound

\* The programs that share memory or locks begin well.
LEMMA SharedBegins == P!PCInit => SharedInv
<1> SUFFICES ASSUME P!PCInit PROVE SharedInv
  OBVIOUS
<1>1. Len(<<>>) = 0 /\ <<>> \in Seq(Int)
  OBVIOUS
<1> QED  BY <1>1 DEF P!PCInit, SharedInv, SharedTypes, TextIsNewest, P!NewestGetsThrough

LEMMA LocksBegin == L!LocksInit => LockInv
BY DEF L!LocksInit, LockInv, L!Procs, L!Tests

\* The locks of blocking_test.c that were obtained are held.
LEMMA LocksAreKept == LockInv => L!LocksKept
BY DEF LockInv, L!LocksKept, L!Procs

-----------------------------------------------------------------------------
(* The storing server: what gets into the file.                             *)

Places(s, x) == {i \in DOMAIN s : s[i][1] = x}

\* The bytes of x in s are its first m, once each and in order.
Kept(s, x, m) ==
    /\ {s[i][2] : i \in Places(s, x)} = 1..m
    /\ \A i, j \in Places(s, x) : i < j => s[i][2] < s[j][2]

Pairs == Few \X Nat

\* What a child writes to the pipe.
Marked(x, t) == [i \in 1..Len(t) |-> <<x, t[i]>>]

\* What a concatenation of two such sequences is, place by place.
LEMMA JoinedPairs ==
    ASSUME NEW s \in Seq(Pairs), NEW new \in Seq(Pairs)
    PROVE  /\ s \o new \in Seq(Pairs) /\ Len(s \o new) = Len(s) + Len(new)
           /\ DOMAIN (s \o new) = 1..(Len(s) + Len(new))
           /\ \A i \in 1..(Len(s) + Len(new)) :
                (s \o new)[i] = IF i <= Len(s) THEN s[i] ELSE new[i - Len(s)]
OBVIOUS

\* The bytes of x that are put in follow those that are there.
LEMMA KeptMore ==
    ASSUME NEW s \in Seq(Pairs), NEW x \in Few, NEW m \in Nat, NEW t, Run(t, m), Kept(s, x, m)
    PROVE  Kept(s \o Marked(x, t), x, m + Len(t))
<1> DEFINE new == Marked(x, t)
           u == s \o new
           l == Len(s)
<1>1. /\ t \in Seq(Nat) /\ Len(t) \in Nat /\ l \in Nat
      /\ \A i \in 1..Len(t) : t[i] = m + i
  BY DEF Run
<1>2. new \in Seq(Pairs) /\ Len(new) = Len(t) /\ \A i \in 1..Len(t) : new[i] = <<x, m + i>>
  BY <1>1 DEF Marked, Pairs
<1> HIDE DEF new
<1>3. /\ u \in Seq(Pairs) /\ Len(u) = l + Len(t) /\ DOMAIN u = 1..(l + Len(t))
      /\ \A i \in 1..l : u[i] = s[i]
      /\ \A i \in 1..Len(t) : u[l + i] = <<x, m + i>>
  <2>1. /\ u \in Seq(Pairs) /\ Len(u) = l + Len(t)
        /\ \A i \in 1..(l + Len(t)) : u[i] = IF i <= l THEN s[i] ELSE new[i - l]
    BY <1>2, JoinedPairs
  <2>2. DOMAIN u = 1..(l + Len(t))
    BY <1>2, JoinedPairs
  <2> HIDE DEF u
  <2>3. ASSUME NEW i \in 1..l PROVE u[i] = s[i]
    BY <1>1, <2>1
  <2>4. ASSUME NEW i \in 1..Len(t) PROVE u[l + i] = <<x, m + i>>
    <3>1. l + i \in 1..(l + Len(t)) /\ ~(l + i <= l) /\ (l + i) - l = i
      BY <1>1
    <3> HIDE DEF l
    <3>2. u[l + i] = new[i]
      BY <2>1, <3>1
    <3> QED  BY <1>2, <3>2
  <2> QED  BY <2>1, <2>2, <2>3, <2>4
<1> HIDE DEF u
<1>4. Places(s, x) \subseteq 1..l /\ \A i \in Places(s, x) : s[i][2] \in 1..m
  <2>1. DOMAIN s = 1..l
    OBVIOUS
  <2> QED  BY <2>1 DEF Places, Kept
<1>5. Places(u, x) = Places(s, x) \cup ((l + 1)..(l + Len(t)))
  <2>1. DOMAIN s = 1..l
    OBVIOUS
  <2> HIDE DEF l
  <2>2. ASSUME NEW i \in 1..l PROVE i \in Places(u, x) <=> i \in Places(s, x)
    BY <1>1, <1>3, <2>1 DEF Places
  <2>3. ASSUME NEW i \in (l + 1)..(l + Len(t)) PROVE i \in Places(u, x)
    <3>1. i - l \in 1..Len(t) /\ l + (i - l) = i /\ i \in 1..(l + Len(t))
      BY <1>1
    <3>2. u[i] = <<x, m + (i - l)>>
      BY <1>3, <3>1
    <3> QED  BY <1>3, <3>1, <3>2 DEF Places
  <2>4. \A i \in Places(u, x) : i \in 1..l \/ i \in (l + 1)..(l + Len(t))
    BY <1>1, <1>3 DEF Places
  <2>5. Places(s, x) \subseteq 1..l
    BY <2>1 DEF Places
  <2> QED  BY <2>2, <2>3, <2>4, <2>5
<1>6. \A i \in Places(s, x) : u[i] = s[i]
  BY <1>3, <1>4
<1>7. \A i \in (l + 1)..(l + Len(t)) : u[i][2] = m + (i - l)
  <2> SUFFICES ASSUME NEW i \in (l + 1)..(l + Len(t)) PROVE u[i][2] = m + (i - l)
    OBVIOUS
  <2> HIDE DEF l
  <2>1. i - l \in 1..Len(t) /\ l + (i - l) = i
    BY <1>1
  <2>2. u[i] = <<x, m + (i - l)>>
    BY <1>3, <2>1
  <2> QED  BY <2>2
<1> HIDE DEF l
<1>8. {u[i][2] : i \in Places(u, x)} = 1..(m + Len(t))
  <2>1. ASSUME NEW i \in Places(u, x) PROVE u[i][2] \in 1..(m + Len(t))
    <3>1. CASE i \in Places(s, x)
      <4>1. u[i][2] \in 1..m
        BY <1>4, <1>6, <3>1
      <4> QED  BY <1>1, <4>1
    <3>2. CASE i \in (l + 1)..(l + Len(t))
      <4>1. m + (i - l) \in 1..(m + Len(t))
        BY <1>1, <3>2
      <4> QED  BY <1>7, <3>2, <4>1
    <3> QED  BY <1>5, <3>1, <3>2
  <2>2. ASSUME NEW b \in 1..(m + Len(t)) PROVE \E i \in Places(u, x) : u[i][2] = b
    <3>1. CASE b \in 1..m
      <4>1. PICK i \in Places(s, x) : s[i][2] = b
        BY <3>1 DEF Kept
      <4> QED  BY <1>5, <1>6, <4>1
    <3>2. CASE b \in (m + 1)..(m + Len(t))
      <4> DEFINE i == l + (b - m)
      <4>1. i \in (l + 1)..(l + Len(t)) /\ m + (i - l) = b
        BY <1>1, <3>2
      <4> HIDE DEF i
      <4> QED  BY <1>5, <1>7, <4>1
    <3> QED  BY <1>1, <3>1, <3>2
  <2> QED  BY <2>1, <2>2
<1>9. ASSUME NEW i \in Places(u, x), NEW j \in Places(u, x), i < j PROVE u[i][2] < u[j][2]
  <2>1. CASE i \in Places(s, x) /\ j \in Places(s, x)
    BY <1>6, <1>9, <2>1 DEF Kept
  <2>2. CASE i \in Places(s, x) /\ j \in (l + 1)..(l + Len(t))
    <3>1. u[i][2] \in 1..m /\ u[j][2] = m + (j - l)
      BY <1>4, <1>6, <1>7, <2>2
    <3>2. j - l \in Nat /\ j - l >= 1
      BY <1>1, <2>2
    <3> QED  BY <3>1, <3>2
  <2>3. CASE i \in (l + 1)..(l + Len(t)) /\ j \in (l + 1)..(l + Len(t))
    <3>1. u[i][2] = m + (i - l) /\ u[j][2] = m + (j - l)
      BY <1>7, <2>3
    <3>2. m + (i - l) < m + (j - l)
      BY <1>1, <1>9, <2>3
    <3> QED  BY <3>1, <3>2
  <2>4. ~(i \in (l + 1)..(l + Len(t)) /\ j \in Places(s, x))
    BY <1>1, <1>4, <1>9
  <2> QED  BY <1>5, <2>1, <2>2, <2>3, <2>4
<1> QED  BY <1>8, <1>9 DEF Kept, u, new

\* The bytes of the others are where they were.
LEMMA KeptOthers ==
    ASSUME NEW s \in Seq(Pairs), NEW x \in Few, NEW t \in Seq(Nat), NEW y, y # x, NEW n,
           Kept(s, y, n)
    PROVE  Kept(s \o Marked(x, t), y, n)
<1> DEFINE new == Marked(x, t)
           u == s \o new
<1>1. new \in Seq(Pairs) /\ Len(new) = Len(t) /\ Len(t) \in Nat /\ Len(s) \in Nat
      /\ \A i \in 1..Len(t) : new[i][1] = x
  BY DEF Marked, Pairs
<1> HIDE DEF new
<1>2. /\ Len(u) = Len(s) + Len(t) /\ DOMAIN u = 1..(Len(s) + Len(t))
      /\ \A i \in 1..(Len(s) + Len(t)) : u[i] = IF i <= Len(s) THEN s[i] ELSE new[i - Len(s)]
  BY <1>1, JoinedPairs
<1> HIDE DEF u
<1>3. Places(u, y) = Places(s, y) /\ \A i \in Places(s, y) : u[i] = s[i]
  <2>1. DOMAIN s = 1..Len(s)
    OBVIOUS
  <2>2. ASSUME NEW i \in 1..(Len(s) + Len(t)), ~(i <= Len(s)) PROVE i \notin Places(u, y)
    <3>1. i - Len(s) \in 1..Len(t)
      BY <1>1, <2>2
    <3>2. u[i][1] = x
      BY <1>1, <1>2, <2>2, <3>1
    <3> QED  BY <3>2 DEF Places
  <2>3. ASSUME NEW i \in 1..Len(s) PROVE u[i] = s[i] /\ i \in 1..(Len(s) + Len(t))
    BY <1>1, <1>2
  <2>4. \A i \in 1..(Len(s) + Len(t)) : i <= Len(s) => i \in 1..Len(s)
    BY <1>1
  <2>5. \A i : i \in Places(s, y) <=> i \in 1..Len(s) /\ s[i][1] = y
    BY <2>1 DEF Places
  <2>6. \A i : i \in Places(u, y) <=> i \in 1..(Len(s) + Len(t)) /\ u[i][1] = y
    BY <1>2 DEF Places
  <2>7. ASSUME NEW i \in Places(s, y) PROVE i \in Places(u, y)
    BY <2>3, <2>5, <2>6
  <2>8. ASSUME NEW i \in Places(u, y) PROVE i \in Places(s, y)
    <3>1. i \in 1..(Len(s) + Len(t)) /\ u[i][1] = y
      BY <2>6
    <3>2. i \in 1..Len(s)
      BY <2>2, <2>4, <3>1
    <3> QED  BY <2>3, <2>5, <3>1, <3>2
  <2>9. Places(u, y) = Places(s, y)
    BY <2>7, <2>8
  <2> QED  BY <2>3, <2>5, <2>9
<1>4. {u[i][2] : i \in Places(u, y)} = {s[i][2] : i \in Places(s, y)}
  BY <1>3
<1>5. \A i, j \in Places(u, y) : i < j => u[i][2] < u[j][2]
  BY <1>3 DEF Kept
<1> QED  BY <1>4, <1>5 DEF Kept, u, new

\* The child of x: what it holds of its client follows the m bytes it put in
\* the pipe, and what the client heard or will hear is what follows.
Stored(x, r, q, c, h, m) ==
    /\ m \in Nat /\ Run(h, m)
    /\ Whole(EchoKind(x), r, q, m + Len(h))
    /\ c \in {"none", "echo"} => ~q.shut

StoreGood(x) ==
    \E m \in Nat : /\ Kept(file \o pipe, x, m)
                   /\ Stored(x, client[x], conn[x], child[x], hold[x], m)

StoreInv ==
    /\ Net(Few) /\ child \in [Few -> States] /\ hold \in [Few -> Seq(Nat)]
    /\ pipe \in Seq(Pairs) /\ file \in Seq(Pairs)
    /\ \A x \in Few : StoreGood(x)

\* One client or its child moves; what is stored of the others stays.
LEMMA OneStoreClient ==
    ASSUME StoreInv, NEW x \in Few, NEW r2, NEW q2, NEW c2 \in States, NEW h2, NEW m,
           client' = [client EXCEPT ![x] = r2], conn' = [conn EXCEPT ![x] = q2],
           child' = [child EXCEPT ![x] = c2], hold' = [hold EXCEPT ![x] = h2],
           pipe' \in Seq(Pairs), file' \in Seq(Pairs),
           Kept(file' \o pipe', x, m), Stored(x, r2, q2, c2, h2, m),
           \A y \in Few \ {x}, n \in Nat : Kept(file \o pipe, y, n) => Kept(file' \o pipe', y, n)
    PROVE  StoreInv'
<1>1. r2 \in Peers /\ q2 \in Links /\ h2 \in Seq(Nat) /\ m \in Nat
  BY DEF Stored, Whole, Run
<1>2. Net(Few)' /\ child' \in [Few -> States] /\ hold' \in [Few -> Seq(Nat)]
  BY <1>1 DEF StoreInv, Net
<1>3. ASSUME NEW y \in Few PROVE StoreGood(y)'
  <2>1. CASE y = x
    <3>1. client'[y] = r2 /\ conn'[y] = q2 /\ child'[y] = c2 /\ hold'[y] = h2
      BY <2>1 DEF StoreInv, Net
    <3> QED  BY <1>1, <2>1, <3>1 DEF StoreGood
  <2>2. CASE y # x
    <3>1. /\ client'[y] = client[y] /\ conn'[y] = conn[y]
          /\ child'[y] = child[y] /\ hold'[y] = hold[y]
      BY <2>2 DEF StoreInv, Net
    <3>2. PICK n \in Nat : /\ Kept(file \o pipe, y, n)
                           /\ Stored(y, client[y], conn[y], child[y], hold[y], n)
      BY DEF StoreInv, StoreGood
    <3>3. Kept(file' \o pipe', y, n)
      BY <2>2, <3>2
    <3> QED  BY <3>1, <3>2, <3>3 DEF StoreGood
  <2> QED  BY <2>1, <2>2
<1> QED  BY <1>2, <1>3 DEF StoreInv

\* Nothing goes into the pipe or the file.
LEMMA OneOfThem ==
    ASSUME StoreInv, NEW x \in Few, NEW r2, NEW q2, NEW c2 \in States, NEW h2, NEW m,
           client' = [client EXCEPT ![x] = r2], conn' = [conn EXCEPT ![x] = q2],
           child' = [child EXCEPT ![x] = c2], hold' = [hold EXCEPT ![x] = h2],
           pipe' = pipe, file' = file,
           Kept(file \o pipe, x, m), Stored(x, r2, q2, c2, h2, m)
    PROVE  StoreInv'
<1>1. pipe' \in Seq(Pairs) /\ file' \in Seq(Pairs)
  BY DEF StoreInv
<1>2. file' \o pipe' = file \o pipe
  OBVIOUS
<1>3. Kept(file' \o pipe', x, m)
  BY <1>2
<1>4. \A y \in Few \ {x}, n \in Nat : Kept(file \o pipe, y, n) => Kept(file' \o pipe', y, n)
  BY <1>2
<1> QED  BY <1>1, <1>3, <1>4, OneStoreClient

\* A round of the echo loop of echo_storeserv.c.
LEMMA StoreEchoIs ==
    ASSUME Net(Few), NEW x \in Few, NEW n \in T!EchoSizes(x), T!Echo(x, n)
    PROVE  n \in 0..Len(conn[x].up) /\ conn' = [conn EXCEPT ![x] = Echoed(conn[x], n)]
<1> DEFINE l == Len(conn[x].up)
<1>1. l \in Nat /\ StoreBuf \in Nat
  BY SizesOK DEF Net, Links
<1>2. n \in 1..T!Min({StoreBuf, l})
  BY DEF T!EchoSizes
<1>3. n \in 0..l
  <2> HIDE DEF l
  <2>1. T!Min({StoreBuf, l}) = IF StoreBuf <= l THEN StoreBuf ELSE l
    BY <1>1, LeastIsOneT
  <2> QED  BY <1>1, <1>2, <2>1
<1>4. conn' = [conn EXCEPT ![x] = Echoed(conn[x], n)]
  BY DEF T!Echo, T!First, T!Rest, Echoed, Net, Links
<1> QED  BY <1>3, <1>4

\* What the storer takes out of the pipe is what it puts into the file.
LEMMA CutAndJoined ==
    ASSUME NEW s \in Seq(Pairs), NEW t \in Seq(Pairs), NEW n \in 0..Len(t)
    PROVE  /\ s \o SubSeq(t, 1, n) \in Seq(Pairs) /\ SubSeq(t, n + 1, Len(t)) \in Seq(Pairs)
           /\ (s \o SubSeq(t, 1, n)) \o SubSeq(t, n + 1, Len(t)) = s \o t
<1> DEFINE a == SubSeq(t, 1, n)
           b == SubSeq(t, n + 1, Len(t))
<1>1. /\ a \in Seq(Pairs) /\ Len(a) = n /\ n \in Nat /\ Len(t) \in Nat /\ n <= Len(t)
      /\ \A i \in 1..n : a[i] = t[i]
      /\ b \in Seq(Pairs) /\ Len(b) = Len(t) - n
      /\ \A i \in 1..(Len(t) - n) : b[i] = t[n + i]
  OBVIOUS
<1> HIDE DEF a, b
<1>2. s \o a \in Seq(Pairs) /\ Len(s \o a) = Len(s) + n /\ Len(s) \in Nat
      /\ \A i \in 1..(Len(s) + n) : (s \o a)[i] = IF i <= Len(s) THEN s[i] ELSE a[i - Len(s)]
  <2>1. a \in Seq(Pairs) /\ s \in Seq(Pairs) /\ Len(s) \in Nat
    BY <1>1
  <2>2. /\ s \o a \in Seq(Pairs) /\ Len(s \o a) = Len(s) + Len(a)
        /\ \A i \in 1..(Len(s) + Len(a)) :
             (s \o a)[i] = IF i <= Len(s) THEN s[i] ELSE a[i - Len(s)]
    BY <2>1, JoinedPairs
  <2> QED  BY <1>1, <2>1, <2>2
<1> DEFINE sa == s \o a
<1> HIDE DEF sa
<1>3. sa \in Seq(Pairs) /\ Len(sa) = Len(s) + n
  BY <1>2 DEF sa
<1>4. /\ sa \o b \in Seq(Pairs) /\ Len(sa \o b) = Len(s) + Len(t)
      /\ \A i \in 1..(Len(s) + Len(t)) :
           (sa \o b)[i] = IF i <= Len(s) + n THEN sa[i] ELSE b[i - (Len(s) + n)]
  <2>1. Len(sa) + Len(b) = Len(s) + Len(t)
    BY <1>1, <1>2, <1>3
  <2>2. sa \in Seq(Pairs) /\ b \in Seq(Pairs)
    BY <1>1, <1>3
  <2>3. /\ sa \o b \in Seq(Pairs) /\ Len(sa \o b) = Len(sa) + Len(b)
        /\ \A i \in 1..(Len(sa) + Len(b)) :
             (sa \o b)[i] = IF i <= Len(sa) THEN sa[i] ELSE b[i - Len(sa)]
    BY <2>2, JoinedPairs
  <2> QED  BY <1>3, <2>1, <2>3
<1>5. /\ s \o t \in Seq(Pairs) /\ Len(s \o t) = Len(s) + Len(t)
      /\ \A i \in 1..(Len(s) + Len(t)) : (s \o t)[i] = IF i <= Len(s) THEN s[i] ELSE t[i - Len(s)]
  BY JoinedPairs
<1>6. ASSUME NEW i \in 1..(Len(s) + Len(t)) PROVE (sa \o b)[i] = (s \o t)[i]
  <2>0. i \in Nat /\ i >= 1 /\ i <= Len(s) + Len(t)
    BY <1>1, <1>2
  <2>1. CASE i <= Len(s)
    <3>1. i \in 1..(Len(s) + n) /\ i <= Len(s) + n
      BY <1>1, <1>2, <2>0, <2>1
    <3>2. sa[i] = s[i]
      BY <1>2, <2>1, <3>1 DEF sa
    <3> QED  BY <1>4, <1>5, <2>1, <3>1, <3>2
  <2>2. CASE ~(i <= Len(s)) /\ i <= Len(s) + n
    <3>1. i \in 1..(Len(s) + n) /\ i - Len(s) \in 1..n
      BY <1>1, <1>2, <2>0, <2>2
    <3>2. sa[i] = t[i - Len(s)]
      BY <1>1, <1>2, <2>2, <3>1 DEF sa
    <3> QED  BY <1>4, <1>5, <2>2, <3>2
  <2>3. CASE ~(i <= Len(s) + n)
    <3>1. /\ i - (Len(s) + n) \in 1..(Len(t) - n) /\ n + (i - (Len(s) + n)) = i - Len(s)
          /\ ~(i <= Len(s))
      BY <1>1, <1>2, <2>0, <2>3
    <3>2. b[i - (Len(s) + n)] = t[i - Len(s)]
      BY <1>1, <3>1
    <3> QED  BY <1>4, <1>5, <2>3, <3>1, <3>2
  <2> QED  BY <2>1, <2>2, <2>3
<1>7. sa \o b = s \o t
  <2> DEFINE u == sa \o b
             v == s \o t
  <2>1. u \in Seq(Pairs) /\ v \in Seq(Pairs) /\ Len(u) = Len(v)
        /\ \A i \in 1..Len(u) : u[i] = v[i]
    BY <1>4, <1>5, <1>6
  <2> HIDE DEF u, v
  <2>2. u = v
    BY <2>1, SeqEqual
  <2> QED  BY <2>2 DEF u, v
<1> QED  BY <1>1, <1>2, <1>7 DEF sa, a, b

\* A child that holds nothing.
LEMMA NoBytes == ASSUME NEW m \in Nat PROVE Run(<<>>, m) /\ m + Len(<<>>) = m
BY DEF Run

\* The steps of the clients.
LEMMA StoreClientStep ==
    ASSUME StoreInv, NEW x \in Few, T!ClientNext(x),
           UNCHANGED <<child, sigchld, hold, pipe, file, storer>>
    PROVE  StoreInv'
<1>0. Net(Few) /\ child \in [Few -> States] /\ hold \in [Few -> Seq(Nat)]
  BY DEF StoreInv
<1>1. PICK r2, q2 :
        /\ client' = [client EXCEPT ![x] = r2] /\ conn' = [conn EXCEPT ![x] = q2]
        /\ Moves(EchoKind(x), StoreLine, client[x], conn[x], r2, q2)
  BY <1>0, StoreClients DEF Steps
<1>2. PICK m \in Nat : /\ Kept(file \o pipe, x, m)
                       /\ Stored(x, client[x], conn[x], child[x], hold[x], m)
  BY DEF StoreInv, StoreGood
<1>3. Whole(EchoKind(x), r2, q2, m + Len(hold[x]))
  BY <1>1, <1>2, MovesKeep, SizesOK DEF Stored
<1>4. q2.shut = conn[x].shut
  <2>1. conn[x] \in Links
    BY <1>0 DEF Net
  <2> QED  BY <1>1, <2>1 DEF Moves, Says, Hears, Turns, Sent, Links
<1>5. Stored(x, r2, q2, child[x], hold[x], m)
  BY <1>2, <1>3, <1>4 DEF Stored
<1>6. /\ child' = [child EXCEPT ![x] = child[x]] /\ child[x] \in States
      /\ hold' = [hold EXCEPT ![x] = hold[x]] /\ pipe' = pipe /\ file' = file
  BY <1>0
<1> QED  BY <1>1, <1>2, <1>5, <1>6, OneOfThem

\* The steps of the server and its children: a client is let in or refused,
LEMMA StoreAcceptStep == ASSUME StoreInv, NEW x \in Few, T!StoreAccept(x) PROVE StoreInv'
<1>0. /\ client \in [Few -> Peers] /\ conn \in [Few -> Links] /\ child \in [Few -> States]
      /\ hold \in [Few -> Seq(Nat)]
  BY DEF StoreInv, Net
<1>1. /\ client' = [client EXCEPT ![x] = client[x]] /\ child[x] = "none"
      /\ hold' = [hold EXCEPT ![x] = hold[x]] /\ pipe' = pipe /\ file' = file
      /\ \/ /\ child' = [child EXCEPT ![x] = "echo"]
            /\ conn' = [conn EXCEPT ![x] = conn[x]]
         \/ /\ child' = [child EXCEPT ![x] = "refused"]
            /\ conn' = [conn EXCEPT ![x] = Shut(conn[x])]
  BY <1>0 DEF T!StoreAccept, Shut
<1>2. PICK m \in Nat : /\ Kept(file \o pipe, x, m)
                       /\ Stored(x, client[x], conn[x], child[x], hold[x], m)
  BY DEF StoreInv, StoreGood
<1>3. Whole(EchoKind(x), client[x], Shut(conn[x]), m + Len(hold[x]))
  BY <1>2, ShuttingKeeps DEF Stored
<1>4. /\ Stored(x, client[x], conn[x], "echo", hold[x], m)
      /\ Stored(x, client[x], Shut(conn[x]), "refused", hold[x], m)
  BY <1>1, <1>2, <1>3 DEF Stored
<1>5. "echo" \in States /\ "refused" \in States
  BY DEF States
<1> QED  BY <1>1, <1>2, <1>4, <1>5, OneOfThem

\* a round of the echo loop, after which the child holds what it echoed,
LEMMA StoreEchoStep == ASSUME StoreInv, NEW x \in Few, T!StoreEcho(x) PROVE StoreInv'
<1>0. /\ client \in [Few -> Peers] /\ conn \in [Few -> Links] /\ child \in [Few -> States]
      /\ hold \in [Few -> Seq(Nat)] /\ Net(Few)
  BY DEF StoreInv, Net
<1>1. PICK n \in T!EchoSizes(x) :
        T!Echo(x, n) /\ hold' = [hold EXCEPT ![x] = SubSeq(conn[x].up, 1, n)]
  BY DEF T!StoreEcho, T!First
<1>2. n \in 0..Len(conn[x].up) /\ conn' = [conn EXCEPT ![x] = Echoed(conn[x], n)]
  BY <1>0, <1>1, StoreEchoIs
<1>3. /\ client' = [client EXCEPT ![x] = client[x]] /\ child[x] = "echo" /\ hold[x] = <<>>
      /\ child' = [child EXCEPT ![x] = "echo"] /\ pipe' = pipe /\ file' = file
  BY <1>0 DEF T!StoreEcho
<1>4. PICK m \in Nat : /\ Kept(file \o pipe, x, m)
                       /\ Stored(x, client[x], conn[x], child[x], hold[x], m)
  BY DEF StoreInv, StoreGood
<1>5. Whole(EchoKind(x), client[x], conn[x], m) /\ ~conn[x].shut
  <2>1. m + Len(hold[x]) = m
    BY <1>3
  <2> QED  BY <1>3, <1>4, <2>1 DEF Stored
<1>6. Run(conn[x].up, m)
  BY <1>5 DEF Whole
<1>7. Run(SubSeq(conn[x].up, 1, n), m) /\ Len(SubSeq(conn[x].up, 1, n)) = n
  BY <1>2, <1>6, RunCut
<1>8. Whole(EchoKind(x), client[x], Echoed(conn[x], n), m + n)
  BY <1>2, <1>5, EchoingKeeps
<1>9. ~Echoed(conn[x], n).shut
  BY <1>0, <1>5 DEF Echoed, Links
<1>10. Stored(x, client[x], Echoed(conn[x], n), "echo", SubSeq(conn[x].up, 1, n), m)
  BY <1>7, <1>8, <1>9 DEF Stored
<1>11. "echo" \in States
  BY DEF States
<1> QED  BY <1>1, <1>2, <1>3, <1>4, <1>10, <1>11, OneOfThem

\* the write of that to the pipe,
LEMMA StorePipeStep == ASSUME StoreInv, NEW x \in Few, T!StorePipe(x) PROVE StoreInv'
<1>0. /\ client \in [Few -> Peers] /\ conn \in [Few -> Links] /\ child \in [Few -> States]
      /\ hold \in [Few -> Seq(Nat)] /\ pipe \in Seq(Pairs) /\ file \in Seq(Pairs)
  BY DEF StoreInv, Net
<1> DEFINE new == Marked(x, hold[x])
<1>1. /\ client' = [client EXCEPT ![x] = client[x]] /\ conn' = [conn EXCEPT ![x] = conn[x]]
      /\ child' = [child EXCEPT ![x] = child[x]] /\ child[x] \in States
      /\ hold' = [hold EXCEPT ![x] = <<>>] /\ pipe' = pipe \o new /\ file' = file
  BY <1>0 DEF T!StorePipe, Marked
<1>2. PICK m \in Nat : /\ Kept(file \o pipe, x, m)
                       /\ Stored(x, client[x], conn[x], child[x], hold[x], m)
  BY DEF StoreInv, StoreGood
<1>3. new \in Seq(Pairs) /\ Len(hold[x]) \in Nat /\ hold[x] \in Seq(Nat)
  BY <1>0 DEF Marked, Pairs
<1>4. /\ file \o pipe \in Seq(Pairs) /\ pipe' \in Seq(Pairs) /\ file' \in Seq(Pairs)
      /\ file' \o pipe' = (file \o pipe) \o new
  <2> HIDE DEF new
  <2>1. file \o pipe \in Seq(Pairs) /\ pipe \o new \in Seq(Pairs)
    BY <1>0, <1>3, JoinedPairs
  <2>2. file \o (pipe \o new) = (file \o pipe) \o new
    BY <1>0, <1>3, ConcatAssociative
  <2> QED  BY <1>0, <1>1, <2>1, <2>2
<1>5. Kept(file' \o pipe', x, m + Len(hold[x]))
  <2>1. Run(hold[x], m)
    BY <1>2 DEF Stored
  <2>2. Kept((file \o pipe) \o new, x, m + Len(hold[x]))
    BY <1>2, <1>4, <2>1, KeptMore
  <2> QED  BY <1>4, <2>2
<1>6. \A y \in Few \ {x}, n \in Nat : Kept(file \o pipe, y, n) => Kept(file' \o pipe', y, n)
  <2>1. ASSUME NEW y \in Few \ {x}, NEW n \in Nat, Kept(file \o pipe, y, n)
        PROVE  Kept(file' \o pipe', y, n)
    <3>1. Kept((file \o pipe) \o new, y, n)
      BY <1>3, <1>4, <2>1, KeptOthers
    <3> QED  BY <1>4, <3>1
  <2> QED  BY <2>1
<1>7. Stored(x, client[x], conn[x], child[x], <<>>, m + Len(hold[x]))
  <2>1. /\ m + Len(hold[x]) \in Nat /\ Run(<<>>, m + Len(hold[x]))
        /\ (m + Len(hold[x])) + Len(<<>>) = m + Len(hold[x])
    <3> DEFINE k == m + Len(hold[x])
    <3>1. k \in Nat
      BY <1>3
    <3> HIDE DEF k
    <3>2. k \in Nat /\ Run(<<>>, k) /\ k + Len(<<>>) = k
      BY <3>1, NoBytes
    <3> QED  BY <3>2 DEF k
  <2> QED  BY <1>2, <2>1 DEF Stored
<1> QED  BY <1>1, <1>4, <1>5, <1>6, <1>7, OneStoreClient

\* the storer's read and write, which join pipe and file as they were,
LEMMA StoresStep == ASSUME StoreInv, T!Stores PROVE StoreInv'
<1>0. pipe \in Seq(Pairs) /\ file \in Seq(Pairs)
  BY DEF StoreInv
<1> DEFINE n == T!Min({StoreBuf, Len(pipe)})
<1>1. n \in 0..Len(pipe)
  <2>1. Len(pipe) \in Nat /\ StoreBuf \in Nat
    BY <1>0, SizesOK
  <2> DEFINE l == Len(pipe)
  <2>2. l \in Nat
    BY <2>1
  <2> HIDE DEF l
  <2>3. T!Min({StoreBuf, l}) \in 0..l
    BY <2>1, <2>2, LeastIsOneT
  <2> QED  BY <2>3 DEF l
<1>2. /\ file' = file \o SubSeq(pipe, 1, n) /\ pipe' = SubSeq(pipe, n + 1, Len(pipe))
      /\ UNCHANGED <<client, conn, child, hold>>
  BY DEF T!Stores, T!First, T!Rest
<1> HIDE DEF n
<1>3. /\ file' \in Seq(Pairs) /\ pipe' \in Seq(Pairs) /\ file' \o pipe' = file \o pipe
  BY <1>0, <1>1, <1>2, CutAndJoined
<1>4. \A x \in Few : StoreGood(x)'
  BY <1>2, <1>3 DEF StoreInv, StoreGood
<1> QED  BY <1>2, <1>3, <1>4 DEF StoreInv, Net

\* the end of a child, which by then holds nothing,
LEMMA StoreEndsStep == ASSUME StoreInv, NEW x \in Few, T!StoreChildEnds(x) PROVE StoreInv'
<1>0. /\ client \in [Few -> Peers] /\ conn \in [Few -> Links] /\ child \in [Few -> States]
      /\ hold \in [Few -> Seq(Nat)]
  BY DEF StoreInv, Net
<1>1. /\ client' = [client EXCEPT ![x] = client[x]] /\ conn' = [conn EXCEPT ![x] = Shut(conn[x])]
      /\ child' = [child EXCEPT ![x] = "zombie"] /\ hold' = [hold EXCEPT ![x] = hold[x]]
      /\ pipe' = pipe /\ file' = file
  BY <1>0 DEF T!StoreChildEnds, Shut
<1>2. PICK m \in Nat : /\ Kept(file \o pipe, x, m)
                       /\ Stored(x, client[x], conn[x], child[x], hold[x], m)
  BY DEF StoreInv, StoreGood
<1>3. Whole(EchoKind(x), client[x], Shut(conn[x]), m + Len(hold[x]))
  BY <1>2, ShuttingKeeps DEF Stored
<1>4. Stored(x, client[x], Shut(conn[x]), "zombie", hold[x], m)
  BY <1>2, <1>3 DEF Stored
<1>5. "zombie" \in States
  BY DEF States
<1> QED  BY <1>1, <1>2, <1>4, <1>5, OneOfThem

\* and the reaping of one.
LEMMA StoreReapsStep == ASSUME StoreInv, T!StoreReaps PROVE StoreInv'
<1>0. /\ client \in [Few -> Peers] /\ conn \in [Few -> Links] /\ child \in [Few -> States]
      /\ hold \in [Few -> Seq(Nat)]
  BY DEF StoreInv, Net
<1>1. UNCHANGED <<client, conn, hold, pipe, file>>
  BY DEF T!StoreReaps
<1>2. CASE UNCHANGED child
  BY <1>1, <1>2 DEF StoreInv, StoreGood, Net
<1>3. ASSUME NEW z \in Few, child[z] = "zombie", child' = [child EXCEPT ![z] = "reaped"]
      PROVE  StoreInv'
  <2>1. /\ client' = [client EXCEPT ![z] = client[z]] /\ conn' = [conn EXCEPT ![z] = conn[z]]
        /\ hold' = [hold EXCEPT ![z] = hold[z]] /\ pipe' = pipe /\ file' = file
    BY <1>0, <1>1
  <2>2. PICK m \in Nat : /\ Kept(file \o pipe, z, m)
                         /\ Stored(z, client[z], conn[z], child[z], hold[z], m)
    BY DEF StoreInv, StoreGood
  <2>3. Stored(z, client[z], conn[z], "reaped", hold[z], m)
    BY <2>2 DEF Stored
  <2>4. "reaped" \in States
    BY DEF States
  <2> QED  BY <1>3, <2>1, <2>2, <2>3, <2>4, OneOfThem
<1> QED  BY <1>2, <1>3 DEF T!StoreReaps

\* Every step of echo_storeserv.c and its clients.
LEMMA StoreStep == ASSUME StoreInv, T!StoreNext PROVE StoreInv'
BY StoreClientStep, StoreAcceptStep, StoreEchoStep, StorePipeStep, StoresStep, StoreEndsStep,
   StoreReapsStep DEF T!StoreNext, T!servVars

\* Nothing is stored yet.
LEMMA StoreBegins == T!StoreInit => StoreInv
<1> SUFFICES ASSUME T!StoreInit PROVE StoreInv
  OBVIOUS
<1>1. /\ client = [x \in Few |-> [pc |-> "new", said |-> 0, heard |-> <<>>]]
      /\ conn = [x \in Few |-> [up |-> <<>>, down |-> <<>>, eof |-> FALSE,
                                gone |-> FALSE, shut |-> FALSE, lost |-> FALSE]]
      /\ child = [x \in Few |-> "none"] /\ hold = [x \in Few |-> <<>>]
      /\ pipe = <<>> /\ file = <<>>
  BY DEF T!StoreInit, T!ClientsInit
<1>2. <<>> \in Seq(Pairs) /\ Len(<<>>) = 0 /\ 0 + 0 = 0 /\ Run(<<>>, 0)
  <2>1. <<>> \in Seq(Pairs) /\ Len(<<>>) = 0 /\ 0 + 0 = 0
    OBVIOUS
  <2>2. Run(<<>>, 0)
    BY DEF Run
  <2> QED  BY <2>1, <2>2
<1>3. ASSUME NEW x \in Few
      PROVE  /\ Stored(x, client[x], conn[x], child[x], hold[x], 0)
             /\ client[x] \in Peers /\ conn[x] \in Links
  <2>1. /\ client[x] = [pc |-> "new", said |-> 0, heard |-> <<>>]
        /\ conn[x] = [up |-> <<>>, down |-> <<>>, eof |-> FALSE,
                      gone |-> FALSE, shut |-> FALSE, lost |-> FALSE]
        /\ child[x] = "none" /\ hold[x] = <<>>
    BY <1>1
  <2>2. Whole(EchoKind(x), client[x], conn[x], 0)
    BY <2>1, WholeAtFirst
  <2>3. client[x] \in Peers /\ conn[x] \in Links
    BY <2>2 DEF Whole
  <2>4. conn[x].shut = FALSE
    BY <2>1
  <2> QED  BY <1>2, <2>1, <2>2, <2>3, <2>4 DEF Stored
<1>4. \A x \in Few : Kept(file \o pipe, x, 0)
  <2>1. file \o pipe \in Seq(Pairs) /\ Len(file \o pipe) = 0
    BY <1>1, <1>2
  <2>2. DOMAIN (file \o pipe) = {}
    BY <2>1
  <2>3. \A x \in Few : Places(file \o pipe, x) = {}
    BY <2>2 DEF Places
  <2> QED  BY <2>3 DEF Kept
<1>5. \A x \in Few : StoreGood(x)
  BY <1>3, <1>4 DEF StoreGood
<1>6. Net(Few) /\ child \in [Few -> States] /\ hold \in [Few -> Seq(Nat)]
  <2>1. <<>> \in Seq(Nat)
    OBVIOUS
  <2> QED  BY <1>1, <1>3, <2>1 DEF Net, States
<1> QED  BY <1>1, <1>2, <1>5, <1>6 DEF StoreInv

\* A run is what the modules call [i \in 1..n |-> m + i].
LEMMA RunFrom ==
    ASSUME NEW m \in Nat, NEW s, Run(s, m) PROVE s = [i \in 1..Len(s) |-> m + i]
<1>1. s \in Seq(Nat) /\ \A i \in 1..Len(s) : s[i] = m + i
  BY DEF Run
<1>2. Len(s) \in Nat
  BY <1>1
<1>3. [i \in 1..Len(s) |-> m + i] \in Seq(Nat) /\ Len([i \in 1..Len(s) |-> m + i]) = Len(s)
  BY <1>2
<1> QED  BY <1>1, <1>2, <1>3, SeqEqual

\* So the file and the pipe hold what each client said, in order.
LEMMA StoredAll == StoreInv => T!StoredInOrder
<1> SUFFICES ASSUME StoreInv, NEW x \in Few
             PROVE  \E m \in 0..client[x].said :
                      /\ Kept(file \o pipe, x, m)
                      /\ hold[x] = [i \in 1..Len(hold[x]) |-> m + i]
                      /\ Len(client[x].heard) + Len(conn[x].down) <= m + Len(hold[x])
                      /\ T!InOrder(x, <<>>) /\ T!HeardIsSaid(x)
  BY DEF T!StoredInOrder, Kept, Places
<1>1. Kinds(Few, Counting, "counting")[x] = EchoKind(x)
  BY DEF Kinds, EchoKind
<1>2. PICK m \in Nat : /\ Kept(file \o pipe, x, m)
                       /\ Stored(x, client[x], conn[x], child[x], hold[x], m)
  BY DEF StoreInv, StoreGood
<1>3. /\ Run(hold[x], m) /\ Whole(EchoKind(x), client[x], conn[x], m + Len(hold[x]))
  BY <1>2 DEF Stored
<1>4. T!HeardIsSaid(x) /\ T!InOrder(x, <<>>)
  <2>1. Sound(EchoKind(x), client[x], conn[x])
    BY <1>3, WholeIsSound
  <2> QED  BY <1>1, <2>1 DEF T!HeardIsSaid, T!InOrder, Sound
<1>5. /\ Len(client[x].heard) + Len(conn[x].down) <= m + Len(hold[x])
      /\ m + Len(hold[x]) <= client[x].said
  BY <1>3 DEF Whole
<1>6. m \in 0..client[x].said
  <2>1. client[x].said \in Nat /\ Len(hold[x]) \in Nat
    BY <1>3 DEF Whole, Peers, Run
  <2> QED  BY <1>5, <2>1
<1>7. hold[x] = [i \in 1..Len(hold[x]) |-> m + i]
  BY <1>3, RunFrom
<1> QED  BY <1>2, <1>4, <1>5, <1>6, <1>7

\* The other programs leave the clients alone.
LEMMA ForkSame == ASSUME ForkWhole, UNCHANGED <<client, conn, child>> PROVE ForkWhole'
BY DEF ForkWhole, ForkGood, Net

LEMMA StoreSame ==
    ASSUME StoreInv, UNCHANGED <<client, conn, child, hold, pipe, file>> PROVE StoreInv'
BY DEF StoreInv, StoreGood, Net

-----------------------------------------------------------------------------
(* The two theorems about the runs.                                          *)

\* Whatever the sizes of reads and writes, the order of the clients and the
\* moment one hangs up, and however many clients there are: each hears its own
\* bytes in order (echo_mpserv.c, echo_selectserv.c), the duplex client that was
\* let in all of them; of each its first bytes are stored, once and in order
\* (echo_storeserv.c); and a client of file_server.c that got a connection has the
\* beginning of the file, all of it when it thanks a server that could open it.
THEOREM WhatIsSentArrives == Spec => []EchoesIntact
<1> DEFINE Inv == /\ program = "fork" => ForkWhole
                  /\ program = "store" => StoreInv
                  /\ program = "select" => SelectInv
                  /\ program = "file" => FileInv
<1>1. Init => Inv
  BY ForkWholeBegins, StoreBegins, SelectBegins, FileBegins DEF Init
<1>2. Inv /\ [Next]_vars => Inv'
  <2> SUFFICES ASSUME Inv, [Next]_vars PROVE Inv'
    OBVIOUS
  <2>1. program' = program
    BY DEF Next, vars
  <2>2. ASSUME program = "fork" PROVE ForkWhole'
    <3>1. CASE UNCHANGED vars
      BY <2>2, <3>1, ForkSame DEF vars, net, forks
    <3> QED  BY <2>2, <3>1, ForkWholeStep DEF Next
  <2>3. ASSUME program = "store" PROVE StoreInv'
    <3>1. CASE UNCHANGED vars
      BY <2>3, <3>1, StoreSame DEF vars, net, forks, store
    <3> QED  BY <2>3, <3>1, StoreStep DEF Next
  <2>4. ASSUME program = "select" PROVE SelectInv'
    <3>1. CASE UNCHANGED vars
      BY <2>4, <3>1, SelectSame DEF vars
    <3> QED  BY <2>4, <3>1, SelectStep DEF Next
  <2>5. ASSUME program = "file" PROVE FileInv'
    <3>1. CASE UNCHANGED vars
      BY <2>5, <3>1, FileStep DEF vars
    <3> QED  BY <2>5, <3>1, FileStep DEF Next
  <2> QED  BY <2>1, <2>2, <2>3, <2>4, <2>5
<1>3. Inv => EchoesIntact
  BY ForkEchoesAll, StoredAll, SelectEchoesAll, TheFileArrives DEF EchoesIntact
<1> HIDE DEF Inv
<1> QED  BY <1>1, <1>2, <1>3, PTL DEF Spec

\* What a program was told stays true until it acts on it: every descriptor a
\* round of echo_selectserv.c still has to visit is open and readable, and only a
\* client that hung up rudely kills that server; a record lock that
\* blocking_test.c obtained is held against every other process; and the text
\* behind a post of producer.c is the newest or another post follows.
THEOREM ToldAndActedOn == Spec => []ToldStaysTrue
<1> DEFINE Inv == /\ program = "select" => SelectInv
                  /\ program = "record" => LockInv
                  /\ program = "shared" => SharedInv
<1>1. Init => Inv
  BY SelectBegins, LocksBegin, SharedBegins DEF Init
<1>2. Inv /\ [Next]_vars => Inv'
  <2> SUFFICES ASSUME Inv, [Next]_vars PROVE Inv'
    OBVIOUS
  <2>1. program' = program
    BY DEF Next, vars
  <2>2. ASSUME program = "select" PROVE SelectInv'
    <3>1. CASE S!SelectNext
      BY <2>2, <3>1, SelectStep
    <3>2. CASE UNCHANGED vars
      BY <2>2, <3>2, SelectSame DEF vars
    <3> QED  BY <2>2, <3>1, <3>2 DEF Next
  <2>3. ASSUME program = "record" PROVE LockInv'
    <3>1. CASE UNCHANGED vars
      BY <2>3, <3>1, LockStep DEF vars
    <3> QED  BY <2>3, <3>1, LockStep DEF Next
  <2>4. ASSUME program = "shared" PROVE SharedInv'
    <3>1. CASE UNCHANGED vars
      BY <2>4, <3>1, SharedStep DEF vars
    <3> QED  BY <2>4, <3>1, SharedStep DEF Next
  <2> QED  BY <2>1, <2>2, <2>3, <2>4
<1>3. Inv => ToldStaysTrue
  BY RoundIsTrue, LocksAreKept DEF ToldStaysTrue, SelectInv, SharedInv
<1> HIDE DEF Inv
<1> QED  BY <1>1, <1>2, <1>3, PTL DEF Spec
==============================================================================
