--------------------------- MODULE DeadlockHunters ---------------------------
(***************************************************************************)
(* aisys/deadlock_hunters.c: threads that lock mutexes one after the other  *)
(* with trylock and never release them, a wait-for graph in which a thread  *)
(* that fails notes the owner it waits for, and a monitor that ends the     *)
(* program when the graph has had a cycle for Grace seconds.  The program   *)
(* has two threads that lock A then B and B then A; here the threads, the   *)
(* mutexes and the orders are parameters.                                   *)
(***************************************************************************)
EXTENDS Integers, Sequences, WaitGraph

CONSTANTS
    Threads, Mutexes,
    Orders,     \* the assignments of a locking order to each thread
    Grace,      \* the seconds after which the monitor gives up
    None        \* no thread

ASSUME DeadlockConstants ==
    /\ Threads # {}
    /\ None \notin Threads
    /\ Orders \subseteq [Threads -> Seq(Mutexes)]
    /\ Grace \in Nat \ {0}

VARIABLES
    order,              \* the orders of this program
    step,               \* which mutex of its order each thread is at
    pc,                 \* where each thread is in lock_mutex
    holder,             \* of each pthread mutex: the thread that locked it
    owner_idx,          \* of each Mutex record: the thread that wrote its index
    blamed,             \* the owner_idx each thread read after a failed trylock
    edge,               \* the wait-for graph
    deadlock_started,   \* is a time recorded there?
    elapsed,            \* seconds since that time, counted up to Grace
    age,                \* history: seconds a deadlock has existed, up to Grace
    monitor,            \* "scan" or "report"
    process             \* "running", "reported" (exit(0)) or "returned"

threads == <<step, pc, holder, owner_idx, blamed>>
watch == <<deadlock_started, elapsed, monitor>>
vars == <<order, threads, edge, watch, age, process>>

Wanted(t) == order[t][step[t]]
Running == process = "running"

Init ==
    /\ order \in Orders
    /\ step = [t \in Threads |-> 1]
    /\ pc = [t \in Threads |-> "call"]
    /\ holder = [m \in Mutexes |-> None]
    /\ owner_idx = [m \in Mutexes |-> None]
    /\ blamed = [t \in Threads |-> None]
    /\ edge = [t \in Threads |-> [u \in Threads |-> FALSE]]
    /\ deadlock_started = FALSE /\ elapsed = 0
    /\ age = 0
    /\ monitor = "scan"
    /\ process = "running"

Goto(t, there) == pc' = [pc EXCEPT ![t] = there]

-----------------------------------------------------------------------------
(* The threads: lock_mutex for each mutex of their order.                   *)

\* The thread function calls lock_mutex for its next mutex, or returns.
CallLock(t) ==
    /\ Running
    /\ pc[t] = "call"
    /\ Goto(t, IF step[t] <= Len(order[t]) THEN "try" ELSE "returned")
    /\ UNCHANGED <<order, step, holder, owner_idx, blamed, edge, watch, age, process>>

\* mutant: the result of trylock is not looked at
TryLockUnchecked(t) ==
    /\ Running
    /\ pc[t] = "try"
    /\ holder' = [holder EXCEPT ![Wanted(t)] = t]
    /\ Goto(t, "record")
    /\ UNCHANGED <<order, step, owner_idx, blamed, edge, watch, age, process>>

TryLock(t) ==
    /\ Running
    /\ pc[t] = "try"
    /\ holder[Wanted(t)] = None
    /\ holder' = [holder EXCEPT ![Wanted(t)] = t]
    /\ Goto(t, "record")
    /\ UNCHANGED <<order, step, owner_idx, blamed, edge, watch, age, process>>

\* mutant: the owner is not noted
RecordOwnerForgotten(t) ==
    /\ Running
    /\ pc[t] = "record"
    /\ Goto(t, "clear")
    /\ UNCHANGED <<order, step, holder, owner_idx, blamed, edge, watch, age, process>>

\* The owner is written after the lock was taken: others can fail in between.
RecordOwner(t) ==
    /\ Running
    /\ pc[t] = "record"
    /\ owner_idx' = [owner_idx EXCEPT ![Wanted(t)] = t]
    /\ Goto(t, "clear")
    /\ UNCHANGED <<order, step, holder, blamed, edge, watch, age, process>>

\* clear_edges_from, under the graph's lock; lock_mutex returns.
ClearEdges(t) ==
    /\ Running
    /\ pc[t] = "clear"
    /\ edge' = [edge EXCEPT ![t] = [u \in Threads |-> FALSE]]
    /\ step' = [step EXCEPT ![t] = @ + 1]
    /\ Goto(t, "call")
    /\ UNCHANGED <<order, holder, owner_idx, blamed, watch, age, process>>

\* EBUSY
TryFails(t) ==
    /\ Running
    /\ pc[t] = "try"
    /\ holder[Wanted(t)] # None
    /\ Goto(t, "blame")
    /\ UNCHANGED <<order, step, holder, owner_idx, blamed, edge, watch, age, process>>

\* The owner is read without any lock; one that is not there yet is not blamed.
BlameNobody(t) ==
    /\ Running
    /\ pc[t] = "blame"
    /\ owner_idx[Wanted(t)] = None
    /\ Goto(t, "try")
    /\ UNCHANGED <<order, step, holder, owner_idx, blamed, edge, watch, age, process>>

BlameOwner(t) ==
    /\ Running
    /\ pc[t] = "blame"
    /\ owner_idx[Wanted(t)] # None
    /\ blamed' = [blamed EXCEPT ![t] = owner_idx[Wanted(t)]]
    /\ Goto(t, "add")
    /\ UNCHANGED <<order, step, holder, owner_idx, edge, watch, age, process>>

\* mutant: the edge is turned round
AddEdgeBackwards(t) ==
    /\ Running
    /\ pc[t] = "add"
    /\ edge' = [edge EXCEPT ![blamed[t]][t] = TRUE]
    /\ Goto(t, "try")
    /\ UNCHANGED <<order, step, holder, owner_idx, blamed, watch, age, process>>

\* add_edge, under the graph's lock.
AddEdge(t) ==
    /\ Running
    /\ pc[t] = "add"
    /\ edge' = [edge EXCEPT ![t][blamed[t]] = TRUE]
    /\ Goto(t, "try")
    /\ UNCHANGED <<order, step, holder, owner_idx, blamed, watch, age, process>>

ThreadStep(t) ==
    \/ CallLock(t) \/ TryLock(t) \/ RecordOwner(t) \/ ClearEdges(t)
    \/ TryFails(t) \/ BlameNobody(t) \/ BlameOwner(t) \/ AddEdge(t)

-----------------------------------------------------------------------------
(* Deadlocks, and cycles of the graph.                                      *)

WaitsFor(t, u) == pc[t] \in {"try", "blame", "add"} /\ holder[Wanted(t)] = u
Deadlock == Cyclic(Threads, WaitsFor)

\* What detect_cycle finds (DfsCycle models the search itself).
HasEdge(t, u) == edge[t][u]
HasCycleAnyEdge == \E t, u \in Threads : HasEdge(t, u)                 \* mutant
HasCycle == Cyclic(Threads, HasEdge)

-----------------------------------------------------------------------------
(* The monitor and the clock.                                               *)

\* mutant: every round records the time anew
ScanRestarts ==
    /\ Running
    /\ monitor = "scan"
    /\ deadlock_started' = HasCycle
    /\ elapsed' = 0
    /\ monitor' = "scan"
    /\ UNCHANGED <<order, threads, edge, age, process>>

\* One round of monitor_cycle under the graph's lock.
Scan ==
    /\ Running
    /\ monitor = "scan"
    /\ deadlock_started' = HasCycle
    /\ elapsed' = IF HasCycle /\ deadlock_started THEN elapsed ELSE 0
    /\ monitor' = IF deadlock_started' /\ elapsed' >= Grace THEN "report" ELSE "scan"
    /\ UNCHANGED <<order, threads, edge, age, process>>

Report ==
    /\ Running
    /\ monitor = "report"
    /\ process' = "reported"
    /\ UNCHANGED <<order, threads, edge, watch, age>>

\* main joins the threads, cancels the monitor and returns.
MainReturns ==
    /\ Running
    /\ \A t \in Threads : pc[t] = "returned"
    /\ process' = "returned"
    /\ UNCHANGED <<order, threads, edge, watch, age>>

Later(seconds) == IF seconds < Grace THEN seconds + 1 ELSE Grace

\* time() shows the next second.
Tick ==
    /\ Running
    /\ elapsed' = IF deadlock_started THEN Later(elapsed) ELSE 0
    /\ age' = IF Deadlock THEN Later(age) ELSE 0
    /\ UNCHANGED <<order, threads, edge, deadlock_started, monitor, process>>

Ended ==
    /\ ~Running
    /\ UNCHANGED vars

Next ==
    \/ \E t \in Threads : ThreadStep(t)
    \/ Scan \/ Report \/ MainReturns \/ Tick \/ Ended

Spec == Init /\ [][Next]_vars

\* Every thread is scheduled, and time goes on.
FairSpec ==
    /\ Spec
    /\ \A t \in Threads : WF_vars(ThreadStep(t))
    /\ WF_vars(Scan \/ Report)
    /\ WF_vars(MainReturns)
    /\ WF_vars(Tick)

-----------------------------------------------------------------------------
(* Properties                                                               *)

\* The values the variables take.
TypeOK ==
    /\ order \in Orders
    /\ step \in [Threads -> Nat \ {0}]
    /\ pc \in [Threads -> {"call", "try", "record", "clear", "blame", "add", "returned"}]
    /\ \A t \in Threads : pc[t] \notin {"call", "returned"} => step[t] \in DOMAIN order[t]
    /\ holder \in [Mutexes -> Threads \cup {None}]
    /\ owner_idx \in [Mutexes -> Threads \cup {None}]
    /\ blamed \in [Threads -> Threads \cup {None}]
    /\ edge \in [Threads -> [Threads -> BOOLEAN]]
    /\ deadlock_started \in BOOLEAN
    /\ elapsed \in 0..Grace /\ age \in 0..Grace
    /\ monitor \in {"scan", "report"}
    /\ process \in {"running", "reported", "returned"}

\* The graph never lies: a thread with an edge to another one is still waiting for a mutex
\* the other one holds, although owners are read without a lock and edges are added later.
EdgesTrue == \A t, u \in Threads : edge[t][u] => WaitsFor(t, u)

\* The monitor records a time, and ends the program, only when threads really wait for each
\* other in a circle, and then the circle has existed for at least the grace period.
AlarmTrue ==
    /\ deadlock_started \/ monitor = "report" \/ process = "reported" => Deadlock
    /\ deadlock_started => elapsed <= age
    /\ monitor = "report" \/ process = "reported" => age = Grace

\* A deadlock never resolves itself: waiting longer cannot make the report wrong.
DeadlockForever == [][Deadlock => Deadlock']_vars

\* Every deadlock is reported in the end.
DeadlockReported == Deadlock ~> process = "reported"

\* A thread that waits for a mutex whose holder has returned without releasing it.
Starved ==
    \E t, u \in Threads : WaitsFor(t, u) /\ pc[u] = "returned"

\* The program ends, with main returning or with a report, unless a thread starves behind
\* one that has returned with its locks: that hang the monitor does not see.
EndsOrStarves == <>(~Running \/ Starved)
===============================================================================
