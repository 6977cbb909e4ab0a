---------------------------- MODULE GameQueueProofs ----------------------------
(* Proofs about GameQueue, for any workers, list size, strength and lines.  *)
EXTENDS GameQueue, TLAPS, SequenceTheorems

\* The part of the invariant that is inductive by itself: each conjunct needs the others.
Core == TypeOK /\ ListIntact /\ LockDiscipline

\* What an attack line holds is what arguments are.
LEMMA LineArguments ==
  ASSUME NEW l \in Lines
  PROVE  l \in Seq(Arguments)
  <1>1. l \in Seq(Int \cup {NaN})
    BY ConstantsOK
  <1>2. \A i \in DOMAIN l : l[i] \in Arguments
    BY DEF Arguments
  <1> QED
    BY <1>1, <1>2

LEMMA CoreInit == Init => Core
  <1> SUFFICES ASSUME Init PROVE Core
    OBVIOUS
  <1> USE ConstantsOK DEF Init
  <1>1. TypeOK
    <2>1. <<>> \in Seq(Arguments) /\ <<>> \in Seq(Damages) /\ <<>> \in Seq(Nat)
          /\ <<>> \in Seq({"open", "hit", "missed"})
      OBVIOUS
    <2>2. MaxHp \in 1..MaxHp
      OBVIOUS
    <2>3. {ai_mode, ai_thinking, running} \subseteq BOOLEAN
      OBVIOUS
    <2> QED
      BY <2>1, <2>2, <2>3 DEF TypeOK, NULL
  <1>2. ListIntact
    BY DEF ListIntact, NULL
  <1>3. LockDiscipline
    BY DEF LockDiscipline, NULL
  <1> QED
    BY <1>1, <1>2, <1>3 DEF Core

\* Steps that only move the main thread between points outside enqueue_job's lock.
LEMMA CoreMainLocal ==
  ASSUME Core,
         \/ ReadAttack \/ ReadQuestion \/ ReadProgram \/ ProgramEnds \/ ReadExit
         \/ Think \/ ThinkEnds \/ SkipArg \/ AttackEnds \/ CallEnqueue \/ Stop \/ Join
  PROVE  Core'
  <1> USE ConstantsOK DEF Core, TypeOK, ListIntact, LockDiscipline, list, shell, boss, Nodes, NULL
  <1>1. CASE ReadAttack
    BY <1>1, LineArguments DEF ReadAttack, Typed
  <1>2. CASE ReadQuestion
    BY <1>2 DEF ReadQuestion, Typed
  <1>3. CASE ReadProgram
    BY <1>3 DEF ReadProgram, Typed
  <1>4. CASE ProgramEnds
    BY <1>4 DEF ProgramEnds
  <1>5. CASE ReadExit
    BY <1>5 DEF ReadExit
  <1>6. CASE Think
    BY <1>6 DEF Think
  <1>7. CASE ThinkEnds
    BY <1>7 DEF ThinkEnds
  <1>8. CASE SkipArg
    BY <1>8 DEF SkipArg
  <1>9. CASE AttackEnds
    BY <1>9 DEF AttackEnds
  <1>10. CASE CallEnqueue
    BY <1>10 DEF CallEnqueue
  <1>11. CASE Stop
    BY <1>11 DEF Stop
  <1>12. CASE Join
    BY <1>12 DEF Join
  <1> QED
    BY <1>1, <1>2, <1>3, <1>4, <1>5, <1>6, <1>7, <1>8, <1>9, <1>10, <1>11, <1>12

\* The arithmetic of a hit keeps the boss' strength between one and full, or NaN.
LEMMA StruckType ==
  ASSUME NEW h \in (1..MaxHp) \cup {NaN}, NEW d \in Int \cup {NaN}, Positive(d)
  PROVE  Struck(h, d) \in (1..MaxHp) \cup {NaN}
  BY ConstantsOK DEF Struck, Reborn, Clamped, Less, Positive

LEMMA DamagesType == Damages \subseteq Int \cup {NaN}
  BY ConstantsOK DEF Damages, Arguments

\* enqueue_job and the broadcast.
LEMMA CoreEnqueue ==
  ASSUME Core, EnqueueLock \/ EnqueueWaits \/ EnqueuePuts \/ Broadcast
  PROVE  Core'
  <1> USE ConstantsOK DEF Core, TypeOK, ListIntact, LockDiscipline, list, shell, boss, Nodes, NULL
  <1>1. CASE EnqueueLock
    BY <1>1 DEF EnqueueLock
  <1>2. CASE EnqueueWaits
    BY <1>2 DEF EnqueueWaits
  <1>3. CASE EnqueuePuts
    <2> DEFINE n == Len(damage) + 1
    <2>1. /\ Head(args) \in Damages
          /\ Tail(args) \in Seq(Arguments)
      BY <1>3 DEF EnqueuePuts, Damages
    <2>2. /\ damage' = Append(damage, Head(args))
          /\ damage' \in Seq(Damages)
          /\ Len(damage') = n
          /\ fate' \in Seq({"open", "hit", "missed"})
          /\ Len(fate') = n
      BY <1>3, <2>1 DEF EnqueuePuts
    <2>3. /\ next' \in Seq(Nat)
          /\ Len(next') = n
          /\ next'[n] = NULL
          /\ tail # NULL => next'[tail] = n
          /\ \A j \in 1..(n - 1) : j # tail => next'[j] = next[j]
      <3>1. CASE tail = NULL
        BY <1>3, <3>1, AppendProperties DEF EnqueuePuts, LinkTail
      <3>2. CASE tail # NULL
        <4> DEFINE linked == [next EXCEPT ![tail] = n]
        <4>1. linked \in Seq(Nat) /\ Len(linked) = Len(next)
              /\ \A j \in 1..Len(next) : linked[j] = IF j = tail THEN n ELSE next[j]
          BY <3>2, ExceptSeq
        <4>2. next' = Append(linked, NULL)
          BY <1>3, <3>2 DEF EnqueuePuts, LinkTail
        <4> QED
          BY <3>2, <4>1, <4>2, AppendProperties
      <3> QED
        BY <3>1, <3>2
    <2>4. /\ worker' \in [Workers -> {"lock", "test", "wait", "asleep", "take", "strike",
                                      "hit", "exited"}]
          /\ \A w \in Workers : \/ worker'[w] = worker[w]
                                \/ worker[w] = "asleep" /\ worker'[w] = "lock"
      BY <1>3 DEF EnqueuePuts, SignalNotEmpty, Asleep
    <2>5. /\ queue_mutex = Main /\ queue_mutex' = None
          /\ main = "enqueue" /\ main' = "attack"
          /\ args' = Tail(args)
          /\ head' = IF tail # NULL THEN head ELSE n
          /\ tail' = n
          /\ queue_len < MAX_QUEUE_SIZE /\ queue_len' = queue_len + 1
          /\ UNCHANGED <<ai_mode, ai_thinking, ticks, commands, events, running, job,
                         old_hp, hp_mutex, hp_boss>>
      BY <1>3 DEF EnqueuePuts
    <2>6. TypeOK'
      BY <2>1, <2>2, <2>3, <2>4, <2>5
    <2>7. ListIntact'
      <3>1. CASE head = NULL
        BY <2>2, <2>3, <2>5, <3>1
      <3>2. CASE head # NULL
        <4>1. head' = head /\ tail = n - 1 /\ tail' = n /\ head <= tail /\ n \in Nat
          BY <2>5, <3>2
        <4>2. ASSUME NEW j \in head..(n - 1)
              PROVE  next'[j] = j + 1
          <5>1. CASE j = tail
            BY <2>3, <3>2, <4>1, <5>1
          <5>2. CASE j # tail
            BY <2>3, <3>2, <4>1, <5>2
          <5> QED
            BY <5>1, <5>2
        <4>3. /\ head' # NULL /\ tail' # NULL /\ head' <= tail' /\ tail' = Len(damage')
              /\ next'[tail'] = NULL
              /\ \A j \in head'..(tail' - 1) : next'[j] = j + 1
          BY <2>2, <2>3, <3>2, <4>1, <4>2
        <4>4. queue_len' = tail' - head' + 1 /\ queue_len' <= MAX_QUEUE_SIZE
          <5>1. queue_len = tail - head + 1 /\ head \in Nat /\ tail \in Nat
            BY <3>2, <4>1
          <5>2. queue_len' = queue_len + 1 /\ queue_len < MAX_QUEUE_SIZE
            BY <2>5
          <5> QED
            BY <4>1, <5>1, <5>2
        <4> QED
          BY <4>3, <4>4
      <3> QED
        BY <3>1, <3>2
    <2>8. LockDiscipline'
      BY <2>4, <2>5
    <2> QED
      BY <2>6, <2>7, <2>8
  <1>4. CASE Broadcast
    BY <1>4 DEF Broadcast, WakeAll, Asleep
  <1> QED
    BY <1>1, <1>2, <1>3, <1>4

\* dequeue_job.
LEMMA CoreDequeue ==
  ASSUME Core, NEW w \in Workers,
         \/ DequeueLock(w) \/ DequeueTest(w) \/ DequeueWaits(w) \/ DequeueEnds(w)
         \/ DequeueTakes(w)
  PROVE  Core'
  <1> USE ConstantsOK DEF Core, TypeOK, ListIntact, LockDiscipline, list, shell, boss, Nodes, NULL, Goto
  <1>1. CASE DequeueLock(w)
    BY <1>1 DEF DequeueLock
  <1>2. CASE DequeueTest(w)
    BY <1>2 DEF DequeueTest
  <1>3. CASE DequeueWaits(w)
    BY <1>3 DEF DequeueWaits
  <1>4. CASE DequeueEnds(w)
    BY <1>4 DEF DequeueEnds, MustExit
  <1>5. CASE DequeueTakes(w)
    <2>1. /\ queue_mutex = w /\ queue_mutex' = None
          /\ worker[w] = "take" /\ worker' = [worker EXCEPT ![w] = "strike"]
          /\ job' = [job EXCEPT ![w] = head]
          /\ main' = IF main = "asleep" THEN "lock" ELSE main
          /\ UNCHANGED <<args, ai_mode, ai_thinking, ticks, commands, events, running,
                         damage, next, old_hp, hp_mutex, hp_boss, fate>>
      BY <1>5 DEF DequeueTakes, SignalNotFull
    <2>2. /\ head # NULL
          /\ head' = IF head = tail THEN NULL ELSE head + 1
          /\ tail' = IF head = tail THEN NULL ELSE tail
          /\ queue_len' = queue_len - 1
      <3>1. /\ head # NULL /\ head' = next[head]
            /\ tail' = IF next[head] = NULL THEN NULL ELSE tail
            /\ queue_len' = queue_len - 1
        BY <1>5 DEF DequeueTakes, TailAfter
      <3>2. next[head] = IF head = tail THEN NULL ELSE head + 1
        BY <3>1
      <3> QED
        BY <3>1, <3>2
    <2>3. TypeOK'
      <3>1. head' \in Nodes \cup {NULL} /\ tail' \in Nodes \cup {NULL} /\ queue_len' \in Nat
        BY <2>2
      <3> QED
        BY <2>1, <2>2, <3>1
    <2>4. ListIntact'
      <3>1. CASE head = tail
        BY <2>1, <2>2, <3>1
      <3>2. CASE head # tail
        BY <2>1, <2>2, <3>2
      <3> QED
        BY <3>1, <3>2
    <2>5. LockDiscipline'
      BY <2>1, <2>2
    <2> QED
      BY <2>3, <2>4, <2>5
  <1> QED
    BY <1>1, <1>2, <1>3, <1>4, <1>5

\* worker_main.
LEMMA CoreStrike ==
  ASSUME Core, NEW w \in Workers, AttackMissed(w) \/ HpLock(w) \/ HpHit(w)
  PROVE  Core'
  <1> USE ConstantsOK DEF Core, TypeOK, ListIntact, LockDiscipline, list, shell, boss, Nodes, NULL, Goto
  <1>1. CASE AttackMissed(w)
    <2>1. /\ worker[w] = "strike" /\ worker' = [worker EXCEPT ![w] = "lock"]
          /\ job' = [job EXCEPT ![w] = NULL]
          /\ fate' \in Seq({"open", "hit", "missed"}) /\ Len(fate') = Len(fate)
          /\ UNCHANGED <<main, args, ai_mode, ai_thinking, ticks, commands, events,
                         running, damage, next, head, tail, queue_len, queue_mutex,
                         old_hp, hp_mutex, hp_boss>>
      BY <1>1 DEF AttackMissed
    <2>2. TypeOK' /\ ListIntact'
      BY <2>1
    <2>3. LockDiscipline'
      BY <2>1
    <2> QED
      BY <2>2, <2>3
  <1>2. CASE HpLock(w)
    BY <1>2 DEF HpLock
  <1>3. CASE HpHit(w)
    <2>1. /\ worker[w] = "hit" /\ worker' = [worker EXCEPT ![w] = "lock"]
          /\ hp_mutex = w /\ hp_mutex' = None
          /\ job' = [job EXCEPT ![w] = NULL]
          /\ fate' \in Seq({"open", "hit", "missed"}) /\ Len(fate') = Len(fate)
          /\ hp_boss' = Struck(old_hp[w], damage[job[w]])
          /\ UNCHANGED <<main, args, ai_mode, ai_thinking, ticks, commands, events,
                         running, damage, next, head, tail, queue_len, queue_mutex,
                         old_hp>>
      BY <1>3 DEF HpHit
    <2>2. damage[job[w]] \in Damages
      BY <2>1
    <2>3. hp_boss' \in (1..MaxHp) \cup {NaN}
      BY <2>1, <2>2, StruckType, DamagesType DEF Damages
    <2>4. TypeOK' /\ ListIntact'
      BY <2>1, <2>3
    <2>5. LockDiscipline'
      BY <2>1
    <2> QED
      BY <2>4, <2>5
  <1> QED
    BY <1>1, <1>2, <1>3

\* Signals, spurious wakeups and stuttering.
LEMMA CoreEnv ==
  ASSUME Core, EnvStep \/ Terminated \/ UNCHANGED vars
  PROVE  Core'
  <1> USE ConstantsOK DEF Core, TypeOK, ListIntact, LockDiscipline, list, shell, boss, Nodes, NULL
  <1>1. CASE ToggleAiMode
    BY <1>1 DEF ToggleAiMode, Event
  <1>2. CASE InterruptThinking
    <2> USE <1>2 DEF InterruptThinking, Event
    <2>1. TypeOK'
      <3>1. UNCHANGED <<args, commands, ticks, running, damage, next, fate, head, tail,
                        queue_len, queue_mutex, job, old_hp, hp_mutex, hp_boss>>
        OBVIOUS
      <3>2. events' \in Nat
        OBVIOUS
      <3>3. ai_mode' \in BOOLEAN /\ ai_thinking' \in BOOLEAN
        OBVIOUS
      <3>4. main' \in {main, "lock"}
        OBVIOUS
      <3>5. worker' \in [Workers -> {"lock", "test", "wait", "asleep", "take", "strike",
                                     "hit", "exited"}]
        OBVIOUS
      <3> QED
        BY <3>1, <3>2, <3>3, <3>4, <3>5
    <2>2. ListIntact' /\ LockDiscipline'
      OBVIOUS
    <2> QED
      BY <2>1, <2>2
  <1>3. CASE SpuriousWakeup
    <2> USE <1>3 DEF SpuriousWakeup, Event, Asleep, Goto
    <2>1. TypeOK'
      <3>1. UNCHANGED <<args, commands, ticks, running, damage, next, fate, head, tail,
                        queue_len, queue_mutex, job, old_hp, hp_mutex, hp_boss>>
        OBVIOUS
      <3>2. events' \in Nat
        OBVIOUS
      <3>3. ai_mode' \in BOOLEAN /\ ai_thinking' \in BOOLEAN
        OBVIOUS
      <3>4. main' \in {main, "lock"}
        OBVIOUS
      <3>5. worker' \in [Workers -> {"lock", "test", "wait", "asleep", "take", "strike",
                                     "hit", "exited"}]
        OBVIOUS
      <3> QED
        BY <3>1, <3>2, <3>3, <3>4, <3>5
    <2>2. ListIntact' /\ LockDiscipline'
      OBVIOUS
    <2> QED
      BY <2>1, <2>2
  <1>4. CASE Terminated \/ UNCHANGED vars
    <2>1. /\ UNCHANGED <<main, args, running, queue_mutex, worker, job>>
          /\ UNCHANGED <<ai_mode, ai_thinking, ticks, commands, events>>
          /\ UNCHANGED <<damage, next, head, tail, queue_len>>
          /\ UNCHANGED <<old_hp, hp_mutex, hp_boss, fate>>
      BY <1>4 DEF Terminated, vars
    <2> QED
      BY <2>1
  <1> QED
    BY <1>1, <1>2, <1>3, <1>4 DEF EnvStep

LEMMA CoreNext == Core /\ [Next]_vars => Core'
  BY CoreMainLocal, CoreEnqueue, CoreDequeue, CoreStrike, CoreEnv
     DEF Next, MainStep, WorkerStep

\* Every variable keeps the values the program gives it.
THEOREM TypeCorrect == Spec => []TypeOK
  BY CoreInit, CoreNext, PTL DEF Spec, Core

\* The linked list and its length agree, whatever the threads do.
THEOREM ListStaysIntact == Spec => []ListIntact
  BY CoreInit, CoreNext, PTL DEF Spec, Core

\* The two mutexes exclude, and nobody sleeps or leaves without a reason.
THEOREM LocksAreKept == Spec => []LockDiscipline
  BY CoreInit, CoreNext, PTL DEF Spec, Core

-----------------------------------------------------------------------------
(* Where the attacks are.  Four actions move them, each from one place to   *)
(* the next; the others leave the places alone.                             *)

places == <<damage, head, tail, job, fate>>

LEMMA PlacesUnchanged ==
  ASSUME JobsAccounted, UNCHANGED places
  PROVE  JobsAccounted'
  BY DEF JobsAccounted, places, Nodes, Waiting, Held, Settled

\* Which steps leave the places alone.
LEMMA PlacesMove ==
  ASSUME [Next]_vars,
         ~EnqueuePuts,
         \A w \in Workers : ~DequeueTakes(w) /\ ~AttackMissed(w) /\ ~HpHit(w)
  PROVE  UNCHANGED places
  <1> USE DEF places, list, boss
  <1>1. CASE MainStep
    BY <1>1 DEF MainStep, ReadAttack, ReadQuestion, ReadProgram, ProgramEnds, ReadExit,
                Think, ThinkEnds, SkipArg, AttackEnds, CallEnqueue, EnqueueLock,
                EnqueueWaits, Stop, Broadcast, Join
  <1>2. ASSUME NEW w \in Workers, WorkerStep(w)
        PROVE  UNCHANGED places
    BY <1>2 DEF WorkerStep, DequeueLock, DequeueTest, DequeueWaits, DequeueEnds, HpLock
  <1>3. CASE EnvStep
    BY <1>3 DEF EnvStep, ToggleAiMode, InterruptThinking, SpuriousWakeup
  <1>4. CASE Terminated \/ UNCHANGED vars
    BY <1>4 DEF Terminated, vars
  <1> QED
    BY <1>1, <1>2, <1>3, <1>4 DEF Next

LEMMA EnqueueMoves ==
  ASSUME Core, JobsAccounted, EnqueuePuts
  PROVE  /\ Nodes' = Nodes \cup {Len(damage) + 1}
         /\ Waiting' = Waiting \cup {Len(damage) + 1}
         /\ Held' = Held
         /\ Settled' = Settled
         /\ JobsAccounted'
  <1> DEFINE n == Len(damage) + 1
  <1> USE DEF Core, TypeOK, ListIntact, NULL
  <1>1. /\ head' = IF tail # NULL THEN head ELSE n
        /\ tail' = n
        /\ job' = job
        /\ fate' = Append(fate, "open")
        /\ Len(damage') = n
    BY DEF EnqueuePuts, Nodes
  <1>2. n \in Nat /\ n \notin Nodes /\ Nodes' = Nodes \cup {n}
    BY <1>1 DEF Nodes
  <1>3. Waiting' = Waiting \cup {n}
    <2>1. CASE head = NULL
      BY <1>1, <1>2, <2>1 DEF Waiting, Nodes
    <2>2. CASE head # NULL
      BY <1>1, <1>2, <2>2 DEF Waiting, Nodes
    <2> QED
      BY <2>1, <2>2
  <1>4. Held' = Held
    BY <1>1 DEF Held
  <1>5. Settled' = Settled
    BY <1>1, <1>2, AppendProperties DEF Settled, Nodes
  <1>6. n \notin Held /\ n \notin Settled
    BY <1>2 DEF Held, Settled, Nodes
  <1>7. \A v, w \in Workers : job'[v] = job'[w] /\ job'[v] # NULL => v = w
    BY <1>1 DEF JobsAccounted
  <1>8. Waiting \subseteq Nodes
    BY DEF JobsAccounted
  <1> QED
    BY <1>2, <1>3, <1>4, <1>5, <1>6, <1>7, <1>8 DEF JobsAccounted

LEMMA DequeueMoves ==
  ASSUME Core, JobsAccounted, NEW w \in Workers, DequeueTakes(w)
  PROVE  /\ head \in Waiting
         /\ \A j \in Waiting : head <= j
         /\ Nodes' = Nodes
         /\ Waiting' = Waiting \ {head}
         /\ Held' = Held \cup {head}
         /\ Settled' = Settled
         /\ JobsAccounted'
  <1> USE DEF Core, TypeOK, ListIntact, NULL
  <1>1. /\ head # NULL
        /\ damage' = damage /\ fate' = fate
        /\ job' = [job EXCEPT ![w] = head]
        /\ head' = next[head]
        /\ tail' = IF next[head] = NULL THEN NULL ELSE tail
        /\ worker[w] = "take"
    BY DEF DequeueTakes, TailAfter, boss
  <1>2. next[head] = IF head = tail THEN NULL ELSE head + 1
    BY <1>1 DEF Nodes
  <1>3. head \in Waiting /\ \A j \in Waiting : head <= j
    BY <1>1 DEF Waiting, Nodes
  <1>4. Waiting' = Waiting \ {head}
    BY <1>1, <1>2 DEF Waiting, Nodes
  <1>5. job[w] = NULL
    BY <1>1 DEF LockDiscipline
  <1>6. Held' = Held \cup {head}
    BY <1>1, <1>5 DEF Held
  <1>7. Nodes' = Nodes /\ Settled' = Settled
    BY <1>1 DEF Settled, Nodes
  <1>8. head \notin Held
    BY <1>3 DEF JobsAccounted
  <1>9. \A u, v \in Workers : job'[u] = job'[v] /\ job'[u] # NULL => u = v
    BY <1>1, <1>8 DEF JobsAccounted, Held
  <1> QED
    BY <1>3, <1>4, <1>6, <1>7, <1>9 DEF JobsAccounted

LEMMA StrikeMoves ==
  ASSUME Core, JobsAccounted, NEW w \in Workers, AttackMissed(w) \/ HpHit(w)
  PROVE  /\ job[w] \in Held
         /\ Nodes' = Nodes
         /\ Waiting' = Waiting
         /\ Held' = Held \ {job[w]}
         /\ Settled' = Settled \cup {job[w]}
         /\ fate' = [fate EXCEPT ![job[w]] = IF AttackMissed(w) THEN "missed" ELSE "hit"]
         /\ JobsAccounted'
  <1> USE DEF Core, TypeOK, NULL
  <1>1. /\ UNCHANGED <<damage, head, tail>>
        /\ job' = [job EXCEPT ![w] = NULL]
        /\ fate' = [fate EXCEPT ![job[w]] = IF AttackMissed(w) THEN "missed" ELSE "hit"]
        /\ worker[w] \in {"strike", "hit"}
    BY DEF AttackMissed, HpHit, list
  <1>2. job[w] # NULL /\ job[w] \in Nodes
    BY <1>1 DEF LockDiscipline
  <1>3. Nodes' = Nodes /\ Waiting' = Waiting
    BY <1>1 DEF Nodes, Waiting
  <1>4. Held' = Held \ {job[w]} /\ job[w] \in Held
    BY <1>1, <1>2 DEF JobsAccounted, Held
  <1>5. Settled' = Settled \cup {job[w]}
    BY <1>1, <1>2 DEF Settled, Nodes
  <1>6. \A u, v \in Workers : job'[u] = job'[v] /\ job'[u] # NULL => u = v
    BY <1>1 DEF JobsAccounted
  <1>7. job[w] \notin Waiting /\ job[w] \notin Settled
    BY <1>4 DEF JobsAccounted
  <1> QED
    BY <1>1, <1>2, <1>3, <1>4, <1>5, <1>6, <1>7 DEF JobsAccounted

LEMMA AccountedNext == Core /\ JobsAccounted /\ [Next]_vars => JobsAccounted'
  BY EnqueueMoves, DequeueMoves, StrikeMoves, PlacesMove, PlacesUnchanged

LEMMA AccountedInit == Init => JobsAccounted
  BY DEF Init, JobsAccounted, Nodes, Waiting, Held, Settled, NULL

\* No attack is lost and none is in two hands, whatever the threads do.
THEOREM NoAttackIsLost == Spec => []JobsAccounted
  BY CoreInit, CoreNext, AccountedInit, AccountedNext, PTL DEF Spec

-----------------------------------------------------------------------------
(* Who sleeps and who leaves.                                               *)

Liveliness == NoLostWakeup /\ DrainedAtExit

LEMMA LivelyInit == Init => Liveliness
  BY ConstantsOK DEF Init, Liveliness, NoLostWakeup, DrainedAtExit, Nodes, Settled, Asleep

\* The main thread's steps: an attack put on the list finds or wakes a worker, the
\* broadcast leaves no sleeper, and main returns when every worker has left.
LEMMA LivelyMain ==
  ASSUME Core, JobsAccounted, Liveliness, MainStep
  PROVE  Liveliness'
  <1> USE ConstantsOK
      DEF Core, TypeOK, Liveliness, NoLostWakeup, DrainedAtExit, LockDiscipline, list,
          boss, Nodes, Settled
  <1>1. CASE EnqueuePuts
    <2>1. /\ main = "enqueue" /\ main' = "attack" /\ running /\ running'
          /\ \A w \in Workers : worker[w] # "exited"
      BY <1>1 DEF EnqueuePuts
    <2>2. \E w \in Workers : worker'[w] \notin {"asleep", "exited"}
      <3>1. CASE Asleep = {}
        BY <1>1, <2>1, <3>1 DEF EnqueuePuts, SignalNotEmpty, Asleep
      <3>2. CASE Asleep # {}
        BY <1>1, <3>2 DEF EnqueuePuts, SignalNotEmpty, Asleep
      <3> QED
        BY <3>1, <3>2
    <2>3. \A w \in Workers : worker'[w] # "exited"
      BY <1>1, <2>1 DEF EnqueuePuts, SignalNotEmpty, Asleep
    <2> QED
      BY <2>1, <2>2, <2>3
  <1>2. CASE EnqueueLock \/ EnqueueWaits
    <2>1. UNCHANGED <<running, damage, queue_len, worker, fate>>
      BY <1>2 DEF EnqueueLock, EnqueueWaits
    <2>2. queue_len <= MAX_QUEUE_SIZE
      BY DEF ListIntact
    <2>3. main' \in {"enqueue", "asleep"} /\ (main' = "asleep" => queue_len >= MAX_QUEUE_SIZE)
      BY <1>2 DEF EnqueueLock, EnqueueWaits
    <2> QED
      BY <2>1, <2>2, <2>3
  <1>3. CASE Stop
    BY <1>3 DEF Stop
  <1>4. CASE Broadcast
    <2>1. /\ main = "broadcast" /\ main' = "join" /\ UNCHANGED <<running, list, fate>>
          /\ queue_mutex = None
          /\ worker' = [w \in Workers |-> IF worker[w] = "asleep" THEN "lock" ELSE worker[w]]
      BY <1>4 DEF Broadcast, WakeAll, Asleep
    <2> QED
      BY <2>1
  <1>5. CASE Join
    <2>1. queue_len = 0 /\ \A w \in Workers : worker[w] = "exited" /\ job[w] = NULL
      BY <1>5 DEF Join
    <2>2. Waiting = {} /\ Held = {}
      BY <2>1 DEF Waiting, Held, ListIntact, NULL
    <2>3. Nodes = Settled
      BY <2>2 DEF JobsAccounted
    <2> QED
      BY <1>5, <2>3 DEF Join
  <1>6. CASE \/ ReadAttack \/ ReadQuestion \/ ReadProgram \/ ProgramEnds \/ ReadExit
             \/ Think \/ ThinkEnds \/ SkipArg \/ AttackEnds \/ CallEnqueue
    <2>1. /\ UNCHANGED <<running, list, worker, fate>>
          /\ main' \notin {"asleep", "join", "exited"}
      BY <1>6 DEF ReadAttack, ReadQuestion, ReadProgram, ProgramEnds, ReadExit, Think,
                  ThinkEnds, SkipArg, AttackEnds, CallEnqueue, Typed
    <2> QED
      BY <2>1
  <1> QED
    BY <1>1, <1>2, <1>3, <1>4, <1>5, <1>6 DEF MainStep

\* A worker's steps: it goes to sleep or leaves only over an empty list.
LEMMA LivelyWorker ==
  ASSUME Core, Liveliness, NEW w \in Workers, WorkerStep(w)
  PROVE  Liveliness'
  <1> USE ConstantsOK
      DEF Core, TypeOK, Liveliness, NoLostWakeup, DrainedAtExit, LockDiscipline, list,
          boss, Nodes, Settled, Goto
  <1>1. CASE DequeueLock(w)
    BY <1>1 DEF DequeueLock
  <1>2. CASE DequeueTest(w)
    BY <1>2 DEF DequeueTest
  <1>3. CASE DequeueWaits(w)
    BY <1>3 DEF DequeueWaits
  <1>4. CASE DequeueEnds(w)
    <2>1. queue_len = 0 /\ ~running
      BY <1>4 DEF DequeueEnds, MustExit, ListIntact
    <2> QED
      BY <1>4, <2>1 DEF DequeueEnds
  <1>5. CASE DequeueTakes(w)
    <2>1. /\ worker[w] = "take" /\ worker' = [worker EXCEPT ![w] = "strike"]
          /\ main' = IF main = "asleep" THEN "lock" ELSE main
          /\ UNCHANGED <<running, damage, fate>>
          /\ queue_len > 0 /\ queue_len' = queue_len - 1
      BY <1>5 DEF DequeueTakes, SignalNotFull, ListIntact
    <2> QED
      BY <2>1
  <1>6. CASE AttackMissed(w) \/ HpHit(w)
    <2>1. /\ worker[w] \in {"strike", "hit"} /\ worker' = [worker EXCEPT ![w] = "lock"]
          /\ UNCHANGED <<main, running, queue_len, damage>>
          /\ main # "exited"
      BY <1>6 DEF AttackMissed, HpHit
    <2> QED
      BY <2>1
  <1>7. CASE HpLock(w)
    BY <1>7 DEF HpLock
  <1> QED
    BY <1>1, <1>2, <1>3, <1>4, <1>5, <1>6, <1>7 DEF WorkerStep

LEMMA LivelyEnv ==
  ASSUME Core, Liveliness, EnvStep \/ Terminated \/ UNCHANGED vars
  PROVE  Liveliness'
  <1> USE ConstantsOK
      DEF Core, TypeOK, Liveliness, NoLostWakeup, DrainedAtExit, list, boss, Nodes, Settled
  <1>1. CASE ToggleAiMode \/ InterruptThinking
    BY <1>1 DEF ToggleAiMode, InterruptThinking
  <1>2. CASE SpuriousWakeup
    BY <1>2 DEF SpuriousWakeup, Event, Asleep, Goto
  <1>3. CASE Terminated \/ UNCHANGED vars
    BY <1>3 DEF Terminated, vars
  <1> QED
    BY <1>1, <1>2, <1>3 DEF EnvStep

\* The whole inductive invariant.
Inv == Core /\ JobsAccounted /\ Liveliness

THEOREM Invariant == Spec => []Inv
  <1>1. Init => Inv
    BY CoreInit, AccountedInit, LivelyInit DEF Inv
  <1>2. Inv /\ [Next]_vars => Inv'
    BY CoreNext, AccountedNext, LivelyMain, LivelyWorker, LivelyEnv DEF Inv, Next
  <1> QED
    BY <1>1, <1>2, PTL DEF Spec

\* While attacks wait, a worker is up; no one sleeps through the end.
THEOREM NoWakeupIsLost == Spec => []NoLostWakeup
  BY Invariant, PTL DEF Inv, Liveliness

\* Workers leave an empty list, and the process ends with every attack settled.
THEOREM NothingIsLeftAtExit == Spec => []DrainedAtExit
  BY Invariant, PTL DEF Inv, Liveliness

-----------------------------------------------------------------------------
(* The threads implement the service.                                       *)

LEMMA StruckAgrees ==
  ASSUME NEW h \in (1..MaxHp) \cup {NaN}, NEW d \in Int \cup {NaN}, Positive(d)
  PROVE  Struck(h, d) = Service!Struck(h, d)
  BY ConstantsOK DEF Struck, Reborn, Clamped, Less, Positive, Service!Struck

\* What waits on the list is what the service has queued, and so on.
LEMMA StatusPlaces ==
  ASSUME Core, JobsAccounted
  PROVE  /\ DOMAIN AttackStatus = Nodes
         /\ Service!At("queued") = Waiting
         /\ Service!At("taken") = Held
  <1>1. DOMAIN AttackStatus = Nodes
    BY DEF AttackStatus
  <1>2. Waiting \subseteq Nodes /\ Held \subseteq Nodes /\ Waiting \cap Held = {}
    BY DEF JobsAccounted
  <1>3. \A j \in Nodes : fate[j] \notin {"queued", "taken"}
    <2>1. \A j \in Nodes : fate[j] \in {"open", "hit", "missed"}
      BY DEF Core, TypeOK, Nodes
    <2> QED
      BY <2>1
  <1>4. \A j \in Nodes : /\ AttackStatus[j] = "queued" <=> j \in Waiting
                         /\ AttackStatus[j] = "taken" <=> j \in Held
    BY <1>2, <1>3 DEF AttackStatus
  <1> QED
    BY <1>1, <1>2, <1>4 DEF Service!At

LEMMA EnqueueSubmits ==
  ASSUME Inv, EnqueuePuts
  PROVE  Service!Submit(Head(args)) /\ Head(args) \in Damages
  <1> USE DEF Inv, Core
  <1> DEFINE n == Len(damage) + 1
  <1>1. /\ main = "enqueue" /\ main' = "attack" /\ running /\ running' = running
        /\ queue_len < MAX_QUEUE_SIZE
        /\ damage' = Append(damage, Head(args))
        /\ fate' = Append(fate, "open")
        /\ hp_boss' = hp_boss
    BY DEF EnqueuePuts, LockDiscipline
  <1>2. /\ Nodes' = Nodes \cup {n}
        /\ Waiting' = Waiting \cup {n}
        /\ Held' = Held
        /\ JobsAccounted'
    BY EnqueueMoves
  <1>3. n \in Nat /\ n \notin Nodes
    BY DEF TypeOK, Nodes
  <1>4. \A j \in Nodes : AttackStatus'[j] = AttackStatus[j]
    BY <1>1, <1>2, <1>3 DEF AttackStatus, TypeOK, Nodes
  <1>5. AttackStatus'[n] = "queued"
    BY <1>2 DEF AttackStatus
  <1> DEFINE S == {"queued", "taken", "open", "hit", "missed"}
  <1>6. /\ AttackStatus \in Seq(S) /\ Len(AttackStatus) = Len(damage)
        /\ AttackStatus' \in [1..n -> S]
    <2>1. AttackStatus \in [1..Len(damage) -> S]
      BY DEF AttackStatus, TypeOK, Nodes
    <2>2. Len(damage) \in Nat
      BY DEF TypeOK
    <2>3. Nodes' = 1..n
      BY <1>1, AppendProperties DEF TypeOK, EnqueuePuts, LockDiscipline, Nodes, Damages
    <2>4. \A j \in 1..n : fate'[j] \in {"open", "hit", "missed"}
      BY <1>1, <2>2, AppendProperties DEF TypeOK
    <2>5. AttackStatus' \in [1..n -> S]
      BY <2>3, <2>4 DEF AttackStatus
    <2> QED
      BY <2>1, <2>2, <2>5
  <1>7. AttackStatus' = Append(AttackStatus, "queued")
    <2>1. Append(AttackStatus, "queued") \in [1..n -> S]
      <3>1. /\ Append(AttackStatus, "queued") \in Seq(S)
            /\ Len(Append(AttackStatus, "queued")) = n
        BY <1>6, AppendProperties
      <3> QED
        BY <3>1, LenProperties
    <2>2. \A j \in 1..n : Append(AttackStatus, "queued")[j] = AttackStatus'[j]
      BY <1>3, <1>4, <1>5, <1>6, AppendProperties DEF Nodes
    <2> QED
      BY <1>6, <2>1, <2>2
  <1>8. \A j \in Service!At("queued") : Len(AttackStatus) + 1 - j < MAX_QUEUE_SIZE
    <2>1. Service!At("queued") = Waiting
      BY StatusPlaces
    <2>2. ASSUME NEW j \in Waiting
          PROVE  n - j <= queue_len
      BY <1>3 DEF Waiting, TypeOK, ListIntact, Nodes, NULL
    <2>3. Waiting \subseteq Nat /\ queue_len \in Nat /\ MAX_QUEUE_SIZE \in Nat
      BY ConstantsOK DEF Waiting, TypeOK, Nodes, NULL
    <2>4. ASSUME NEW j \in Waiting
          PROVE  n - j < MAX_QUEUE_SIZE
      BY <1>1, <1>3, <2>2, <2>3
    <2>5. Len(AttackStatus) = Len(damage) /\ Len(damage) \in Nat
      BY <1>6 DEF TypeOK
    <2> SUFFICES ASSUME NEW j \in Service!At("queued")
                 PROVE  Len(AttackStatus) + 1 - j < MAX_QUEUE_SIZE
      OBVIOUS
    <2>6. n - j < MAX_QUEUE_SIZE /\ j \in Nat
      BY <2>1, <2>3, <2>4
    <2> QED
      BY <2>5, <2>6
  <1>9. Head(args) \in Damages
    BY <1>1 DEF TypeOK, LockDiscipline, Damages
  <1>10. Phase = "open" /\ Phase' = Phase
    BY <1>1 DEF Phase
  <1> QED
    BY <1>1, <1>7, <1>8, <1>9, <1>10 DEF Service!Submit

LEMMA DequeueTakesNext ==
  ASSUME Inv, NEW w \in Workers, DequeueTakes(w)
  PROVE  Service!Take(head) /\ head \in DOMAIN AttackStatus
  <1> USE DEF Inv, Core
  <1>1. /\ head \in Waiting
        /\ \A j \in Waiting : head <= j
        /\ Nodes' = Nodes
        /\ Waiting' = Waiting \ {head}
        /\ Held' = Held \cup {head}
    BY DequeueMoves
  <1>2. /\ UNCHANGED <<damage, fate, hp_boss, running>>
        /\ main' = "exited" <=> main = "exited"
    BY DEF DequeueTakes, SignalNotFull, boss
  <1>3. AttackStatus' = [AttackStatus EXCEPT ![head] = "taken"]
    BY <1>1, <1>2 DEF AttackStatus
  <1> QED
    BY <1>1, <1>2, <1>3, StatusPlaces DEF Service!Take, Phase, JobsAccounted

LEMMA StrikeSettles ==
  ASSUME Inv, NEW w \in Workers, AttackMissed(w) \/ HpHit(w)
  PROVE  /\ Service!Miss(job[w]) \/ Service!Hit(job[w])
         /\ job[w] \in DOMAIN AttackStatus
  <1> USE DEF Inv, Core
  <1>1. /\ job[w] \in Held /\ job[w] \in Nodes
        /\ Nodes' = Nodes
        /\ Waiting' = Waiting
        /\ Held' = Held \ {job[w]}
        /\ fate' = [fate EXCEPT ![job[w]] = IF AttackMissed(w) THEN "missed" ELSE "hit"]
    BY StrikeMoves DEF JobsAccounted
  <1>2. UNCHANGED <<damage, running, main>>
    BY DEF AttackMissed, HpHit, list
  <1>3. job[w] \notin Waiting
    BY <1>1 DEF JobsAccounted
  <1>4. AttackStatus' =
          [AttackStatus EXCEPT ![job[w]] = IF AttackMissed(w) THEN "missed" ELSE "hit"]
    <2> DEFINE outcome == IF AttackMissed(w) THEN "missed" ELSE "hit"
    <2>1. job[w] \notin Held' /\ fate'[job[w]] = outcome
      BY <1>1 DEF TypeOK, Nodes
    <2>2. AttackStatus'[job[w]] = outcome
      BY <1>1, <1>3, <2>1 DEF AttackStatus
    <2>3. \A j \in Nodes \ {job[w]} : AttackStatus'[j] = AttackStatus[j]
      BY <1>1 DEF AttackStatus, TypeOK, Nodes
    <2> QED
      BY <1>1, <2>2, <2>3 DEF AttackStatus
  <1>5. CASE AttackMissed(w)
    <2>1. PICK v \in Workers : hp_mutex = v
      BY <1>5 DEF AttackMissed, TypeOK
    <2>2. v # w /\ job[v] # NULL
      BY <1>5, <2>1 DEF AttackMissed, LockDiscipline
    <2>3. job[v] \in Held /\ job[v] # job[w]
      BY <2>2 DEF Held, JobsAccounted
    <2>4. hp_boss' = hp_boss
      BY <1>5 DEF AttackMissed
    <2> QED
      BY <1>1, <1>2, <1>4, <1>5, <2>3, <2>4, StatusPlaces DEF Service!Miss, Phase
  <1>6. CASE HpHit(w)
    <2>1. ~AttackMissed(w)
      BY <1>6 DEF AttackMissed, HpHit
    <2>2. hp_boss' = Struck(hp_boss, damage[job[w]])
      BY <1>6 DEF HpHit, LockDiscipline
    <2>3. damage[job[w]] \in Damages
      BY <1>1 DEF TypeOK, Nodes
    <2>4. hp_boss' = Service!Struck(hp_boss, damage[job[w]])
      BY <2>2, <2>3, StruckAgrees, DamagesType DEF TypeOK, Damages
    <2> QED
      BY <1>1, <1>2, <1>4, <2>1, <2>4, StatusPlaces DEF Service!Hit, Phase
  <1> QED
    BY <1>5, <1>6

\* Any other step of a thread is invisible to the service.
LEMMA OthersStutter ==
  ASSUME Inv, [Next]_vars, ~EnqueuePuts, ~Stop, ~Join,
         \A w \in Workers : ~DequeueTakes(w) /\ ~AttackMissed(w) /\ ~HpHit(w)
  PROVE  UNCHANGED Service!vars
  <1>1. UNCHANGED places
    BY PlacesMove
  <1>2. UNCHANGED AttackStatus
    BY <1>1 DEF AttackStatus, Nodes, Waiting, Held, places
  <1>3. UNCHANGED <<hp_boss, running>> /\ (main' = "exited" <=> main = "exited")
    <2> USE DEF boss, list
    <2>1. CASE MainStep
      BY <2>1 DEF MainStep, ReadAttack, ReadQuestion, ReadProgram, ProgramEnds, ReadExit,
                  Think, ThinkEnds, SkipArg, AttackEnds, CallEnqueue, EnqueueLock,
                  EnqueueWaits, Broadcast, Typed
    <2>2. ASSUME NEW w \in Workers, WorkerStep(w)
          PROVE  UNCHANGED <<hp_boss, running>> /\ (main' = "exited" <=> main = "exited")
      BY <2>2 DEF WorkerStep, DequeueLock, DequeueTest, DequeueWaits, DequeueEnds, HpLock
    <2>3. CASE EnvStep
      BY <2>3 DEF EnvStep, ToggleAiMode, InterruptThinking, SpuriousWakeup
    <2>4. CASE Terminated \/ UNCHANGED vars
      BY <2>4 DEF Terminated, vars
    <2> QED
      BY <2>1, <2>2, <2>3, <2>4 DEF Next
  <1> QED
    BY <1>1, <1>2, <1>3 DEF Service!vars, Phase, places

\* The game does what the service promises: attacks are taken in order, each strikes
\* exactly once or is missed while another is in progress, and the end leaves none.
THEOREM Implementation == Spec => ImplementsService
  <1>1. Init => Service!Init
    BY DEF Init, Service!Init, AttackStatus, Nodes, Phase
  <1>2. Inv /\ [Next]_vars => [Service!Next]_(Service!vars)
    <2> SUFFICES ASSUME Inv, [Next]_vars
                 PROVE  Service!Next \/ UNCHANGED Service!vars
      OBVIOUS
    <2>1. CASE EnqueuePuts
      BY <2>1, EnqueueSubmits DEF Service!Next
    <2>2. ASSUME NEW w \in Workers, DequeueTakes(w)
          PROVE  Service!Next
      BY <2>2, DequeueTakesNext DEF Service!Next
    <2>3. ASSUME NEW w \in Workers, AttackMissed(w) \/ HpHit(w)
          PROVE  Service!Next
      BY <2>3, StrikeSettles DEF Service!Next
    <2>4. CASE Stop
      <3>1. /\ main = "stop" /\ main' = "broadcast" /\ running /\ ~running'
            /\ UNCHANGED <<hp_boss, damage>>
            /\ UNCHANGED AttackStatus
        BY <2>4 DEF Stop, Inv, Core, LockDiscipline, list, boss, AttackStatus, Nodes,
                    Waiting, Held
      <3> QED
        BY <3>1 DEF Service!Next, Service!Close, Phase
    <2>5. CASE Join
      <3>1. /\ main = "join" /\ main' = "exited" /\ ~running /\ running' = running
            /\ UNCHANGED <<hp_boss, damage>>
            /\ UNCHANGED AttackStatus
        BY <2>5 DEF Join, Inv, Core, LockDiscipline, list, boss, AttackStatus, Nodes,
                    Waiting, Held
      <3>2. Waiting = {} /\ Held = {}
        <4>1. \A w \in Workers : worker[w] = "exited" /\ job[w] = NULL
          BY <2>5 DEF Join, Inv, Core, LockDiscipline
        <4>2. queue_len = 0
          BY <4>1, ConstantsOK DEF Inv, Liveliness, DrainedAtExit
        <4>3. Waiting = {}
          BY <4>2 DEF Inv, Core, TypeOK, ListIntact, Waiting, Nodes, NULL
        <4> QED
          BY <4>1, <4>3 DEF Held
      <3> QED
        BY <3>1, <3>2, StatusPlaces DEF Service!Next, Service!Finish, Phase, Inv
    <2>6. CASE /\ ~EnqueuePuts /\ ~Stop /\ ~Join
               /\ \A w \in Workers : ~DequeueTakes(w) /\ ~AttackMissed(w) /\ ~HpHit(w)
      BY <2>6, OthersStutter
    <2> QED
      BY <2>1, <2>2, <2>3, <2>4, <2>5, <2>6
  <1> QED
    BY <1>1, <1>2, Invariant, PTL DEF Spec, Service!Spec, ImplementsService
===============================================================================
