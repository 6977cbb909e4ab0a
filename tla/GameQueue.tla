------------------------------ MODULE GameQueue ------------------------------
(***************************************************************************)
(* aisys/thread/mini_shell_game_queue.c: the main thread reads commands and *)
(* puts the attacks of an "attack d1 d2 ..." line on a bounded linked list; *)
(* worker threads take them off and strike the boss.  The list, its length  *)
(* and the two condition variables are under queue_mutex, the boss' hp is   *)
(* under hp_mutex, and `running' is written by the main thread without a    *)
(* lock.  Signals switch the AI mode and interrupt its reasoning.           *)
(***************************************************************************)
EXTENDS Integers, Sequences

CONSTANTS
    Workers,        \* the worker threads
    MAX_QUEUE_SIZE, \* nodes the list may hold
    MaxHp,          \* the boss' full strength
    NaN,            \* atof("nan"): a damage that compares with nothing
    Lines,          \* argument lists of the attack commands, as atof reads them
    ThinkTicks,     \* seconds the AI mode reasons for
    MaxCommands,    \* bound: commands the user types before leaving
    MaxEvents,      \* bound: signals and spurious wakeups
    Main,           \* the main thread, as an owner of queue_mutex
    None            \* no owner

NULL == 0           \* the null node pointer; nodes are numbered by malloc order

Positive(d) == d # NaN => d > 0     \* not skipped: `dmg <= 0' is false of NaN
Arguments == UNION {{l[i] : i \in DOMAIN l} : l \in Lines}
Damages == {d \in Arguments : Positive(d)}

ASSUME ConstantsOK ==
    /\ Workers # {}
    /\ Main \notin Workers /\ None \notin Workers /\ Main # None
    /\ MAX_QUEUE_SIZE \in Nat \ {0}
    /\ MaxHp \in Nat \ {0}
    /\ NaN \notin Int
    /\ Lines \subseteq Seq(Int \cup {NaN})
    /\ {ThinkTicks, MaxCommands, MaxEvents} \subseteq Nat

VARIABLES
    main,           \* where the main thread is
    args,           \* arguments of the attack command still to be looked at
    ai_mode, ai_thinking, ticks,
    running,
    commands, events,
    damage, next,   \* the nodes ever allocated: job_t.damage and job_t.next
    head, tail, queue_len,
    queue_mutex,    \* its owner
    worker,         \* where each worker is
    job,            \* the node each worker took
    old_hp,         \* each worker's local copy
    hp_mutex,       \* its owner
    hp_boss,
    fate            \* history: what became of each node's attack

list == <<damage, next, head, tail, queue_len>>
shell == <<ai_mode, ai_thinking, ticks, commands, events>>
boss == <<old_hp, hp_mutex, hp_boss, fate>>
vars == <<main, args, running, shell, list, queue_mutex, worker, job, boss>>

-----------------------------------------------------------------------------
(* The boss' strength after a hit: the subtraction, the clamp at zero and   *)
(* the rebirth of a boss that was alive and is not any more.                *)

Less(h, d) == IF h = NaN \/ d = NaN THEN NaN ELSE h - d
Clamped(h) == IF h # NaN /\ h < 0 THEN 0 ELSE h
Reborn(old, new) ==
    IF new # NaN /\ old # NaN /\ new <= 0 /\ old > 0 THEN MaxHp ELSE new
Struck(h, d) == Reborn(h, Clamped(Less(h, d)))

Asleep == {w \in Workers : worker[w] = "asleep"}

Init ==
    /\ main = "read" /\ args = <<>>
    /\ ai_mode = FALSE /\ ai_thinking = FALSE /\ ticks = 0
    /\ running = TRUE
    /\ commands = 0 /\ events = 0
    /\ damage = <<>> /\ next = <<>>
    /\ head = NULL /\ tail = NULL /\ queue_len = 0
    /\ queue_mutex = None
    /\ worker = [w \in Workers |-> "lock"]
    /\ job = [w \in Workers |-> NULL]
    /\ old_hp = [w \in Workers |-> MaxHp]
    /\ hp_mutex = None
    /\ hp_boss = MaxHp
    /\ fate = <<>>

-----------------------------------------------------------------------------
(* The main thread: one command at a time.                                  *)

Typed ==
    /\ main = "read"
    /\ commands < MaxCommands
    /\ commands' = commands + 1

\* An "attack" line in AI mode.
ReadAttack ==
    /\ Typed
    /\ ai_mode
    /\ args' \in Lines
    /\ main' = "attack"
    /\ UNCHANGED <<ai_mode, ai_thinking, ticks, events, running, list, queue_mutex,
                   worker, job, boss>>

\* Any other line in AI mode is a question to reason about.
ReadQuestion ==
    /\ Typed
    /\ ai_mode
    /\ ai_thinking' = TRUE
    /\ ticks' = 0
    /\ main' = "think"
    /\ UNCHANGED <<ai_mode, args, events, running, list, queue_mutex, worker, job, boss>>

\* Outside AI mode a line is a program to run in the foreground.
ReadProgram ==
    /\ Typed
    /\ ~ai_mode
    /\ main' = "waitpid"
    /\ UNCHANGED <<ai_mode, ai_thinking, ticks, args, events, running, list,
                   queue_mutex, worker, job, boss>>

\* waitpid returns when the program has ended or has been stopped.
ProgramEnds ==
    /\ main = "waitpid"
    /\ main' = "read"
    /\ UNCHANGED <<args, shell, running, list, queue_mutex, worker, job, boss>>

\* "exit", or the end of the input.
ReadExit ==
    /\ main = "read"
    /\ main' = "stop"
    /\ UNCHANGED <<args, shell, running, list, queue_mutex, worker, job, boss>>

\* One second of reasoning.
Think ==
    /\ main = "think"
    /\ ai_thinking
    /\ ticks < ThinkTicks
    /\ ticks' = ticks + 1
    /\ UNCHANGED <<main, args, ai_mode, ai_thinking, commands, events, running, list,
                   queue_mutex, worker, job, boss>>

\* The reasoning is complete or was interrupted.
ThinkEnds ==
    /\ main = "think"
    /\ ~ai_thinking \/ ticks = ThinkTicks
    /\ ai_thinking' = FALSE
    /\ main' = "read"
    /\ UNCHANGED <<args, ai_mode, ticks, commands, events, running, list, queue_mutex,
                   worker, job, boss>>

\* An argument that is no positive damage is skipped.
SkipArg ==
    /\ main = "attack"
    /\ args # <<>>
    /\ ~Positive(Head(args))
    /\ args' = Tail(args)
    /\ UNCHANGED <<main, shell, running, list, queue_mutex, worker, job, boss>>

AttackEnds ==
    /\ main = "attack"
    /\ args = <<>>
    /\ main' = "read"
    /\ UNCHANGED <<args, shell, running, list, queue_mutex, worker, job, boss>>

CallEnqueue ==
    /\ main = "attack"
    /\ args # <<>>
    /\ Positive(Head(args))
    /\ main' = "lock"
    /\ UNCHANGED <<args, shell, running, list, queue_mutex, worker, job, boss>>

-----------------------------------------------------------------------------
(* enqueue_job                                                              *)

\* pthread_mutex_lock, also on the way out of pthread_cond_wait(&not_full).
EnqueueLock ==
    /\ main = "lock"
    /\ queue_mutex = None
    /\ queue_mutex' = Main
    /\ main' = "enqueue"
    /\ UNCHANGED <<args, shell, running, list, worker, job, boss>>

EnqueueWaits ==
    /\ main = "enqueue"
    /\ queue_len >= MAX_QUEUE_SIZE
    /\ queue_mutex' = None
    /\ main' = "asleep"
    /\ UNCHANGED <<args, shell, running, list, worker, job, boss>>

\* pthread_cond_signal(&not_empty) wakes one of the workers that sleep, if any.
SignalNotEmptyForgotten == worker' = worker                            \* mutant
SignalNotEmpty ==
    IF Asleep = {} THEN worker' = worker
    ELSE \E w \in Asleep : worker' = [worker EXCEPT ![w] = "lock"]

\* The old tail points to the new node n, which ends the chain.
LinkTailForgotten(n) == Append(next, NULL)                             \* mutant
LinkTail(n) ==
    IF tail # NULL THEN Append([next EXCEPT ![tail] = n], NULL)
    ELSE Append(next, NULL)

EnqueuePuts ==
    /\ main = "enqueue"
    /\ queue_len < MAX_QUEUE_SIZE
    /\ LET n == Len(damage) + 1
       IN  /\ damage' = Append(damage, Head(args))
           /\ next' = LinkTail(n)
           /\ head' = IF tail # NULL THEN head ELSE n
           /\ tail' = n
    /\ queue_len' = queue_len + 1
    /\ fate' = Append(fate, "open")
    /\ SignalNotEmpty
    /\ queue_mutex' = None
    /\ args' = Tail(args)
    /\ main' = "attack"
    /\ UNCHANGED <<shell, running, job, old_hp, hp_mutex, hp_boss>>

-----------------------------------------------------------------------------
(* dequeue_job, in the worker threads                                       *)

Goto(w, there) == worker' = [worker EXCEPT ![w] = there]

\* pthread_mutex_lock, also on the way out of pthread_cond_wait(&not_empty).
DequeueLock(w) ==
    /\ worker[w] = "lock"
    /\ queue_mutex = None
    /\ queue_mutex' = w
    /\ Goto(w, "test")
    /\ UNCHANGED <<main, args, shell, running, list, job, boss>>

\* The loop's condition; `running' can change between this and the wait.
DequeueTest(w) ==
    /\ worker[w] = "test"
    /\ Goto(w, IF queue_len = 0 /\ running THEN "wait" ELSE "take")
    /\ UNCHANGED <<main, args, shell, running, list, queue_mutex, job, boss>>

DequeueWaits(w) ==
    /\ worker[w] = "wait"
    /\ queue_mutex' = None
    /\ Goto(w, "asleep")
    /\ UNCHANGED <<main, args, shell, running, list, job, boss>>

MustExitAtOnce == ~running                      \* mutant: leaves attacks behind
MustExit == ~running /\ queue_len = 0

\* The last node leaves a list without a tail.
TailAfterKept(n) == tail                                               \* mutant
TailAfter(n) == IF next[n] = NULL THEN NULL ELSE tail

\* pthread_cond_signal(&not_full) wakes the main thread, if it sleeps.
SignalNotFullForgotten == main' = main                                 \* mutant
SignalNotFull == main' = IF main = "asleep" THEN "lock" ELSE main

\* NULL is returned, and worker_main leaves its loop.
DequeueEnds(w) ==
    /\ worker[w] = "take"
    /\ MustExit \/ head = NULL
    /\ queue_mutex' = None
    /\ Goto(w, "exited")
    /\ UNCHANGED <<main, args, shell, running, list, job, boss>>

\* The head is unlinked.
DequeueTakes(w) ==
    /\ worker[w] = "take"
    /\ ~MustExit
    /\ head # NULL
    /\ job' = [job EXCEPT ![w] = head]
    /\ head' = next[head]
    /\ tail' = TailAfter(head)
    /\ queue_len' = queue_len - 1
    /\ SignalNotFull
    /\ queue_mutex' = None
    /\ Goto(w, "strike")
    /\ UNCHANGED <<args, shell, running, damage, next, boss>>

-----------------------------------------------------------------------------
(* worker_main                                                              *)

\* pthread_mutex_timedlock fails when another worker has the lock for too long.
AttackMissed(w) ==
    /\ worker[w] = "strike"
    /\ hp_mutex # None
    /\ fate' = [fate EXCEPT ![job[w]] = "missed"]
    /\ job' = [job EXCEPT ![w] = NULL]
    /\ Goto(w, "lock")
    /\ UNCHANGED <<main, args, shell, running, list, queue_mutex, old_hp, hp_mutex,
                   hp_boss>>

\* mutant: the lock does not exclude
HpLockShared(w) ==
    /\ worker[w] = "strike"
    /\ hp_mutex' = w
    /\ old_hp' = [old_hp EXCEPT ![w] = hp_boss]
    /\ Goto(w, "hit")
    /\ UNCHANGED <<main, args, shell, running, list, queue_mutex, job, hp_boss, fate>>

HpLock(w) ==
    /\ worker[w] = "strike"
    /\ hp_mutex = None
    /\ hp_mutex' = w
    /\ old_hp' = [old_hp EXCEPT ![w] = hp_boss]
    /\ Goto(w, "hit")
    /\ UNCHANGED <<main, args, shell, running, list, queue_mutex, job, hp_boss, fate>>

HpHit(w) ==
    /\ worker[w] = "hit"
    /\ hp_boss' = Struck(old_hp[w], damage[job[w]])
    /\ hp_mutex' = None
    /\ fate' = [fate EXCEPT ![job[w]] = "hit"]
    /\ job' = [job EXCEPT ![w] = NULL]
    /\ Goto(w, "lock")
    /\ UNCHANGED <<main, args, shell, running, list, queue_mutex, old_hp>>

-----------------------------------------------------------------------------
(* The end of main                                                          *)

\* `running = 0', outside of the lock.
Stop ==
    /\ main = "stop"
    /\ running' = FALSE
    /\ main' = "broadcast"
    /\ UNCHANGED <<args, shell, list, queue_mutex, worker, job, boss>>

WakeAll == [w \in Workers |-> IF w \in Asleep THEN "lock" ELSE worker[w]]

\* mutant: not under queue_mutex, a worker about to sleep is overlooked
BroadcastUnlocked ==
    /\ main = "broadcast"
    /\ worker' = WakeAll
    /\ main' = "join"
    /\ UNCHANGED <<args, shell, running, list, queue_mutex, job, boss>>

\* Under queue_mutex every sleeper is woken.
Broadcast ==
    /\ main = "broadcast"
    /\ queue_mutex = None
    /\ worker' = WakeAll
    /\ main' = "join"
    /\ UNCHANGED <<args, shell, running, list, queue_mutex, job, boss>>

Join ==
    /\ main = "join"
    /\ \A w \in Workers : worker[w] = "exited"
    /\ main' = "exited"
    /\ UNCHANGED <<args, shell, running, list, queue_mutex, worker, job, boss>>

-----------------------------------------------------------------------------
(* Signals and spurious wakeups                                             *)

Event ==
    /\ main # "exited"
    /\ events < MaxEvents
    /\ events' = events + 1

\* handle_sigquit.  While a program has the terminal its keys are not the shell's.
ToggleAiMode ==
    /\ Event
    /\ main # "waitpid"
    /\ ai_mode' = ~ai_mode
    /\ UNCHANGED <<main, args, ai_thinking, ticks, commands, running, list,
                   queue_mutex, worker, job, boss>>

\* handle_sigint
InterruptThinking ==
    /\ Event
    /\ ai_mode
    /\ ai_thinking
    /\ ai_thinking' = FALSE
    /\ UNCHANGED <<main, args, ai_mode, ticks, commands, running, list, queue_mutex,
                   worker, job, boss>>

\* pthread_cond_wait may return without a signal.
SpuriousWakeup ==
    /\ Event
    /\ \/ /\ \E w \in Asleep : Goto(w, "lock")
          /\ main' = main
       \/ /\ main = "asleep"
          /\ main' = "lock"
          /\ worker' = worker
    /\ UNCHANGED <<args, ai_mode, ai_thinking, ticks, commands, running, list,
                   queue_mutex, job, boss>>

\* The process is gone.
Terminated ==
    /\ main = "exited"
    /\ UNCHANGED vars

-----------------------------------------------------------------------------

MainStep ==
    \/ ReadAttack \/ ReadQuestion \/ ReadProgram \/ ProgramEnds \/ ReadExit
    \/ Think \/ ThinkEnds
    \/ SkipArg \/ AttackEnds \/ CallEnqueue
    \/ EnqueueLock \/ EnqueueWaits \/ EnqueuePuts
    \/ Stop \/ Broadcast \/ Join

WorkerStep(w) ==
    \/ DequeueLock(w) \/ DequeueTest(w) \/ DequeueWaits(w) \/ DequeueEnds(w)
    \/ DequeueTakes(w)
    \/ AttackMissed(w) \/ HpLock(w) \/ HpHit(w)

EnvStep == ToggleAiMode \/ InterruptThinking \/ SpuriousWakeup

Next ==
    \/ MainStep
    \/ \E w \in Workers : WorkerStep(w)
    \/ EnvStep
    \/ Terminated

Spec == Init /\ [][Next]_vars

\* The scheduler runs every thread that can run; the user owes nothing.
MainRuns ==
    \/ Think \/ ThinkEnds
    \/ SkipArg \/ AttackEnds \/ CallEnqueue
    \/ EnqueueLock \/ EnqueueWaits \/ EnqueuePuts
    \/ Stop \/ Broadcast \/ Join

FairSpec ==
    /\ Spec
    /\ WF_vars(MainRuns)
    /\ \A w \in Workers : WF_vars(WorkerStep(w))

-----------------------------------------------------------------------------
(* Properties                                                               *)

Nodes == 1..Len(damage)
Waiting == IF head = NULL THEN {} ELSE head..tail   \* the nodes on the list
Held == {job[w] : w \in Workers} \ {NULL}           \* the nodes workers took
Settled == {j \in Nodes : fate[j] # "open"}

\* The values the variables take.
TypeOK ==
    /\ main \in {"read", "attack", "lock", "enqueue", "asleep", "think", "waitpid",
                 "stop", "broadcast", "join", "exited"}
    /\ args \in Seq(Arguments)
    /\ ai_mode \in BOOLEAN /\ ai_thinking \in BOOLEAN /\ running \in BOOLEAN
    /\ ticks \in Nat /\ commands \in Nat /\ events \in Nat /\ queue_len \in Nat
    /\ damage \in Seq(Damages)
    /\ next \in Seq(Nat)
    /\ fate \in Seq({"open", "hit", "missed"})
    /\ Len(next) = Len(damage) /\ Len(fate) = Len(damage)
    /\ head \in Nodes \cup {NULL} /\ tail \in Nodes \cup {NULL}
    /\ queue_mutex \in Workers \cup {Main, None}
    /\ worker \in [Workers -> {"lock", "test", "wait", "asleep", "take", "strike",
                               "hit", "exited"}]
    /\ job \in [Workers -> Nodes \cup {NULL}]
    /\ old_hp \in [Workers -> (1..MaxHp) \cup {NaN}]
    /\ hp_mutex \in Workers \cup {None}
    /\ hp_boss \in (1..MaxHp) \cup {NaN}

\* The linked list enqueue_job and dequeue_job share: head and tail are null together,
\* the nodes from head to tail are chained in the order they were allocated, the last one
\* ends the chain, and queue_len counts them and never passes MAX_QUEUE_SIZE.
ListIntact ==
    /\ head = NULL <=> tail = NULL
    /\ head # NULL =>
        /\ head <= tail /\ tail = Len(damage)
        /\ next[tail] = NULL
        /\ \A j \in head..(tail - 1) : next[j] = j + 1
    /\ queue_len = IF head = NULL THEN 0 ELSE tail - head + 1
    /\ queue_len <= MAX_QUEUE_SIZE

\* "Remaining jobs must not be lost": every attack ever put on the list is, at any
\* moment, in exactly one of three places: on the list, in the hands of one worker,
\* settled.
JobsAccounted ==
    /\ Nodes = Waiting \cup Held \cup Settled
    /\ Waiting \cap Held = {} /\ Waiting \cap Settled = {} /\ Held \cap Settled = {}
    /\ \A v, w \in Workers : job[v] = job[w] /\ job[v] # NULL => v = w

\* Both mutexes exclude: queue_mutex belongs to whoever is inside enqueue_job or
\* dequeue_job and hp_mutex to the worker that strikes, whose copy of the boss' strength
\* is current; a thread sleeps or leaves only for a reason that still holds under the lock.
LockDiscipline ==
    /\ main = "enqueue" <=> queue_mutex = Main
    /\ \A w \in Workers :
        /\ worker[w] \in {"test", "wait", "take"} <=> queue_mutex = w
        /\ worker[w] = "hit" <=> hp_mutex = w
        /\ worker[w] = "hit" => old_hp[w] = hp_boss
        /\ worker[w] \in {"strike", "hit"} <=> job[w] # NULL
        /\ worker[w] = "wait" => queue_len = 0
        /\ worker[w] = "take" => queue_len > 0 \/ ~running
    /\ running <=> main \notin {"broadcast", "join", "exited"}
    /\ main \in {"lock", "enqueue", "asleep"} => args # <<>> /\ Positive(Head(args))

\* No wakeup is lost: while attacks wait on the list some worker is up to take them,
\* the main thread sleeps on not_full only while the list is full, and after the
\* broadcast at the end nobody sleeps on not_empty or is about to.
NoLostWakeup ==
    /\ queue_len > 0 => \E w \in Workers : worker[w] \notin {"asleep", "exited"}
    /\ main = "asleep" => queue_len = MAX_QUEUE_SIZE
    /\ main \in {"join", "exited"} => \A w \in Workers : worker[w] \notin {"wait", "asleep"}

\* A worker leaves only when the shell is stopping and the list is empty, so once main
\* has joined them all every attack has been settled.
DrainedAtExit ==
    /\ (\E w \in Workers : worker[w] = "exited") => ~running /\ queue_len = 0
    /\ main = "exited" => Nodes = Settled /\ \A w \in Workers : worker[w] = "exited"

\* The threads and their list together do what the service promises: attacks are taken in
\* the order of their acceptance, strike once, one at a time, and are missed only when
\* another attack is in progress.
AttackStatus ==
    [j \in Nodes |-> IF j \in Waiting THEN "queued"
                     ELSE IF j \in Held THEN "taken" ELSE fate[j]]
Phase == IF main = "exited" THEN "closed" ELSE IF running THEN "open" ELSE "draining"
Service == INSTANCE JobService WITH
    Capacity <- MAX_QUEUE_SIZE, hp <- hp_boss, status <- AttackStatus, phase <- Phase
ImplementsService == Service!Spec

\* An attack that was accepted is settled in the end, whatever the user does next.
Settles(j) == (j \in Nodes) ~> (j \in Settled)

\* A full list lets the main thread go on in the end.
EnqueueReturns == (main = "lock") ~> (main = "attack")

\* Leaving the shell ends the process: no worker sleeps through the broadcast.
ExitCompletes == (main = "stop") ~> (main = "exited")
===============================================================================
