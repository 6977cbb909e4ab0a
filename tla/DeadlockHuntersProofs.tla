------------------------ MODULE DeadlockHuntersProofs ------------------------
(***************************************************************************)
(* What DeadlockHunters guarantees for any threads, mutexes and locking     *)
(* orders: the wait-for graph never lies, a deadlock never goes away, and   *)
(* so the monitor never ends a program that could still go on.  Then what   *)
(* DfsCycle guarantees for any number of nodes and any graph: the answer of *)
(* detect_cycle, which DeadlockHunters takes for one step, is the right     *)
(* one, and it comes after a bounded number of steps.                       *)
(***************************************************************************)
EXTENDS DeadlockHunters, DfsCycle, FiniteSets, FiniteSetTheorems, SequenceTheorems, TLAPS

\* A recorded owner is the holder: nothing is ever unlocked.
OwnersTrue == \A m \in Mutexes : owner_idx[m] # None => owner_idx[m] = holder[m]

\* What a thread in the middle of lock_mutex knows of the mutex it wants.
Pending ==
    \A t \in Threads :
        /\ pc[t] \in {"record", "clear"} => holder[Wanted(t)] = t
        /\ pc[t] \in {"blame", "add"} => holder[Wanted(t)] # None
        /\ pc[t] = "add" => blamed[t] = holder[Wanted(t)]

Inv == TypeOK /\ OwnersTrue /\ Pending /\ EdgesTrue

-----------------------------------------------------------------------------

\* The mutex a thread is busy with is one of the mutexes.
LEMMA WantedType ==
    ASSUME TypeOK, NEW t \in Threads, pc[t] \notin {"call", "returned"}
    PROVE  Wanted(t) \in Mutexes
<1>1. order[t] \in Seq(Mutexes)
    BY DeadlockConstants DEF TypeOK
<1>2. step[t] \in DOMAIN order[t]
    BY DEF TypeOK
<1> QED BY <1>1, <1>2 DEF Wanted

\* The values the variables take are kept by every step of a thread.
LEMMA ThreadType ==
    ASSUME TypeOK, NEW t \in Threads, ThreadStep(t)
    PROVE  TypeOK'
<1>1. pc[t] \notin {"call", "returned"} => Wanted(t) \in Mutexes
    BY WantedType
<1>2. CASE CallLock(t)
    <2>1. order[t] \in Seq(Mutexes) /\ step[t] \in Nat \ {0}
        BY DeadlockConstants DEF TypeOK
    <2>2. step[t] <= Len(order[t]) => step[t] \in DOMAIN order[t]
        BY <2>1
    <2> QED BY <1>2, <2>2 DEF CallLock, Goto, TypeOK, watch
<1>3. CASE TryLock(t)
    BY <1>1, <1>3 DEF TryLock, Goto, TypeOK, watch
<1>4. CASE RecordOwner(t)
    BY <1>1, <1>4 DEF RecordOwner, Goto, TypeOK, watch
<1>5. CASE ClearEdges(t)
    BY <1>5 DEF ClearEdges, Goto, TypeOK, watch
<1>6. CASE TryFails(t)
    BY <1>6 DEF TryFails, Goto, TypeOK, watch
<1>7. CASE BlameNobody(t)
    BY <1>7 DEF BlameNobody, Goto, TypeOK, watch
<1>8. CASE BlameOwner(t)
    BY <1>1, <1>8 DEF BlameOwner, Goto, TypeOK, watch
<1>9. CASE AddEdge(t)
    <2>1. edge' = [edge EXCEPT ![t] = [edge[t] EXCEPT ![blamed[t]] = TRUE]]
        BY <1>9 DEF AddEdge
    <2>2. edge[t] \in [Threads -> BOOLEAN]
        BY DEF TypeOK
    <2>3. [edge[t] EXCEPT ![blamed[t]] = TRUE] \in [Threads -> BOOLEAN]
        BY <2>2
    <2>4. edge' \in [Threads -> [Threads -> BOOLEAN]]
        BY <2>1, <2>3 DEF TypeOK
    <2> QED BY <1>9, <2>4 DEF AddEdge, Goto, TypeOK, watch
<1> QED BY <1>2, <1>3, <1>4, <1>5, <1>6, <1>7, <1>8, <1>9 DEF ThreadStep

\* The values the variables take are kept by every step.
LEMMA TypeKept ==
    ASSUME TypeOK, [Next]_vars
    PROVE  TypeOK'
<1>1. Grace \in Nat \ {0}
    BY DeadlockConstants
<1>2. CASE \E t \in Threads : ThreadStep(t)
    BY <1>2, ThreadType
<1>3. CASE Scan
    <2>1. HasCycle \in BOOLEAN
        BY DEF HasCycle, Cyclic
    <2> QED BY <1>1, <1>3, <2>1 DEF Scan, TypeOK, threads
<1>4. CASE Report
    BY <1>4 DEF Report, TypeOK, threads, watch
<1>5. CASE MainReturns
    BY <1>5 DEF MainReturns, TypeOK, threads, watch
<1>6. CASE Tick
    <2>1. \A seconds \in 0..Grace : Later(seconds) \in 0..Grace
        BY <1>1 DEF Later
    <2> QED BY <1>1, <1>6, <2>1 DEF Tick, TypeOK, threads
<1>7. CASE Ended \/ UNCHANGED vars
    BY <1>7 DEF Ended, vars, threads, watch, TypeOK
<1> QED BY <1>2, <1>3, <1>4, <1>5, <1>6, <1>7 DEF Next

-----------------------------------------------------------------------------

\* A step that is no thread's leaves the threads and the graph alone.
LEMMA ThreadsUnchanged ==
    ASSUME [Next]_vars, ~ \E t \in Threads : ThreadStep(t)
    PROVE  UNCHANGED <<order, step, pc, holder, owner_idx, blamed, edge>>
BY DEF Next, Scan, Report, MainReturns, Tick, Ended, vars, threads

\* Waiting is for ever: a mutex is never released, so it stays with its holder, and the
\* thread that wants it stays in the loop of lock_mutex.
LEMMA WaitStable ==
    ASSUME TypeOK, [Next]_vars, NEW t \in Threads, NEW u \in Threads, WaitsFor(t, u)
    PROVE  WaitsFor(t, u)'
<1>1. CASE \E w \in Threads : ThreadStep(w)
    <2>1. PICK w \in Threads : ThreadStep(w)
        BY <1>1
    <2>2. holder[Wanted(t)] # None /\ Wanted(t) \in Mutexes
        BY WantedType, DeadlockConstants DEF WaitsFor
    <2>3. order' = order
        BY <2>1 DEF ThreadStep, CallLock, TryLock, RecordOwner, ClearEdges,
                    TryFails, BlameNobody, BlameOwner, AddEdge
    <2>4. step'[t] = step[t]
        BY <2>1 DEF ThreadStep, CallLock, TryLock, RecordOwner, ClearEdges,
                    TryFails, BlameNobody, BlameOwner, AddEdge, WaitsFor, TypeOK
    <2>5. pc'[t] \in {"try", "blame", "add"}
        BY <2>1, <2>2 DEF ThreadStep, CallLock, TryLock, RecordOwner, ClearEdges,
                    TryFails, BlameNobody, BlameOwner, AddEdge, Goto, WaitsFor, TypeOK
    <2>6. holder'[Wanted(t)] = holder[Wanted(t)]
        BY <2>1, <2>2 DEF ThreadStep, CallLock, TryLock, RecordOwner, ClearEdges,
                    TryFails, BlameNobody, BlameOwner, AddEdge, TypeOK
    <2> QED BY <2>3, <2>4, <2>5, <2>6 DEF WaitsFor, Wanted
<1>2. CASE ~ \E w \in Threads : ThreadStep(w)
    BY <1>2, ThreadsUnchanged DEF WaitsFor, Wanted
<1> QED BY <1>1, <1>2

\* So a deadlock is for ever.
LEMMA DeadlockStable ==
    ASSUME TypeOK, [Next]_vars, Deadlock
    PROVE  Deadlock'
<1>1. PICK S \in SUBSET Threads : Closed(S, WaitsFor)
    BY DEF Deadlock, Cyclic
<1>2. S # {} /\ \A t \in S : \E u \in S : WaitsFor(t, u)'
    BY <1>1, WaitStable DEF Closed
<1> QED BY <1>2 DEF Deadlock, Cyclic, Closed

\* A cycle of the graph is a deadlock.
LEMMA CycleIsDeadlock ==
    ASSUME EdgesTrue, HasCycle
    PROVE  Deadlock
<1>1. PICK S \in SUBSET Threads : Closed(S, HasEdge)
    BY DEF HasCycle, Cyclic
<1>2. S # {} /\ \A t \in S : \E u \in S : WaitsFor(t, u)
    BY <1>1 DEF Closed, HasEdge, EdgesTrue
<1> QED BY <1>2 DEF Deadlock, Cyclic, Closed

-----------------------------------------------------------------------------

\* What the graph rests on is kept by every step of a thread.
LEMMA ThreadKeeps ==
    ASSUME Inv, TypeOK', NEW t \in Threads, ThreadStep(t)
    PROVE  OwnersTrue' /\ Pending' /\ EdgesTrue'
<1>1. [Next]_vars
    BY DEF Next
<1>2. pc[t] \notin {"call", "returned"} => Wanted(t) \in Mutexes
    BY WantedType DEF Inv
<1>3. \A u, v \in Threads : edge[u][v] => WaitsFor(u, v)'
    BY <1>1, WaitStable DEF Inv, EdgesTrue
<1>4. \A u \in Threads : u # t => /\ pc'[u] = pc[u]
                                 /\ Wanted(u)' = Wanted(u)
                                 /\ blamed'[u] = blamed[u]
    BY DEF ThreadStep, CallLock, TryLock, RecordOwner, ClearEdges, TryFails, BlameNobody,
           BlameOwner, AddEdge, Goto, Wanted, Inv, TypeOK
<1>5. \A u \in Threads : pc[u] \notin {"call", "returned"} => Wanted(u) \in Mutexes
    BY WantedType DEF Inv
<1>6. None \notin Threads
    BY DeadlockConstants
<1>7. CASE CallLock(t)
    <2>1. /\ UNCHANGED <<order, step, holder, owner_idx, blamed, edge>>
          /\ pc'[t] \in {"try", "returned"}
        BY <1>7 DEF CallLock, Goto, Inv, TypeOK
    <2>2. OwnersTrue'
        BY <2>1 DEF OwnersTrue, Inv
    <2>3. Pending'
        BY <2>1, <1>4 DEF Pending, Inv
    <2>4. EdgesTrue'
        BY <2>1, <1>3 DEF EdgesTrue
    <2> QED BY <2>2, <2>3, <2>4
<1>8. CASE TryLock(t)
    <2>1. /\ UNCHANGED <<order, step, owner_idx, blamed, edge>>
          /\ pc[t] = "try" /\ pc'[t] = "record"
          /\ holder[Wanted(t)] = None
          /\ holder' = [holder EXCEPT ![Wanted(t)] = t]
        BY <1>8 DEF TryLock, Goto, Inv, TypeOK
    <2>2. \A m \in Mutexes : holder[m] # None => holder'[m] = holder[m]
        BY <2>1 DEF Inv, TypeOK
    <2>3. OwnersTrue'
        BY <2>1, <2>2 DEF OwnersTrue, Inv
    <2>4. Wanted(t)' = Wanted(t) /\ holder'[Wanted(t)] = t
        BY <2>1, <1>2 DEF Wanted, Inv, TypeOK
    <2>5. \A u \in Threads :
            u # t => /\ pc'[u] \in {"record", "clear"} => holder'[Wanted(u)] = u
                     /\ pc'[u] \in {"blame", "add"} => holder'[Wanted(u)] # None
                     /\ pc'[u] = "add" => blamed'[u] = holder'[Wanted(u)]
        BY <2>2, <1>4, <1>5, <1>6 DEF Pending, Inv
    <2>6. pc'[t] = "record" /\ order' = order /\ step' = step
        BY <2>1
    <2>7. Pending'
        <3> SUFFICES ASSUME NEW u \in Threads
                     PROVE  /\ pc'[u] \in {"record", "clear"} => holder'[Wanted(u)'] = u
                            /\ pc'[u] \in {"blame", "add"} => holder'[Wanted(u)'] # None
                            /\ pc'[u] = "add" => blamed'[u] = holder'[Wanted(u)']
            BY DEF Pending
        <3>1. Wanted(u)' = Wanted(u)
            BY <2>6 DEF Wanted
        <3>2. CASE u = t
            BY <3>1, <3>2, <2>4, <2>6
        <3>3. CASE u # t
            BY <3>1, <3>3, <2>5 DEF Wanted
        <3> QED BY <3>2, <3>3
    <2>8. EdgesTrue'
        BY <2>1, <1>3 DEF EdgesTrue
    <2> QED BY <2>3, <2>7, <2>8
<1>9. CASE RecordOwner(t)
    <2>1. /\ UNCHANGED <<order, step, holder, blamed, edge>>
          /\ pc[t] = "record" /\ pc'[t] = "clear"
          /\ owner_idx' = [owner_idx EXCEPT ![Wanted(t)] = t]
        BY <1>9 DEF RecordOwner, Goto, Inv, TypeOK
    <2>2. Wanted(t)' = Wanted(t) /\ holder[Wanted(t)] = t
        BY <2>1 DEF Wanted, Pending, Inv
    <2>3. OwnersTrue'
        BY <2>1, <2>2, <1>2 DEF OwnersTrue, Inv, TypeOK
    <2>4. Pending'
        BY <2>1, <2>2, <1>4 DEF Pending, Inv
    <2>5. EdgesTrue'
        BY <2>1, <1>3 DEF EdgesTrue
    <2> QED BY <2>3, <2>4, <2>5
<1>10. CASE ClearEdges(t)
    <2>1. /\ UNCHANGED <<holder, owner_idx, blamed>>
          /\ pc'[t] = "call"
          /\ edge' = [edge EXCEPT ![t] = [u \in Threads |-> FALSE]]
        BY <1>10 DEF ClearEdges, Goto, Inv, TypeOK
    <2>2. OwnersTrue'
        BY <2>1 DEF OwnersTrue, Inv
    <2>3. Pending'
        BY <2>1, <1>4 DEF Pending, Inv
    <2>4. \A u, v \in Threads : edge'[u][v] => edge[u][v]
        BY <2>1 DEF Inv, TypeOK
    <2>5. EdgesTrue'
        BY <2>4, <1>3 DEF EdgesTrue
    <2> QED BY <2>2, <2>3, <2>5
<1>11. CASE TryFails(t) \/ BlameNobody(t)
    <2>1. /\ UNCHANGED <<order, step, holder, owner_idx, blamed, edge>>
          /\ \/ pc'[t] = "blame" /\ holder[Wanted(t)] # None
             \/ pc'[t] = "try"
        BY <1>11 DEF TryFails, BlameNobody, Goto, Inv, TypeOK
    <2>2. OwnersTrue'
        BY <2>1 DEF OwnersTrue, Inv
    <2>3. Wanted(t)' = Wanted(t)
        BY <2>1 DEF Wanted
    <2>4. Pending'
        BY <2>1, <2>3, <1>4 DEF Pending, Inv
    <2>5. EdgesTrue'
        BY <2>1, <1>3 DEF EdgesTrue
    <2> QED BY <2>2, <2>4, <2>5
<1>12. CASE BlameOwner(t)
    <2>1. /\ UNCHANGED <<order, step, holder, owner_idx, edge>>
          /\ pc[t] = "blame" /\ pc'[t] = "add"
          /\ owner_idx[Wanted(t)] # None /\ blamed'[t] = owner_idx[Wanted(t)]
        BY <1>12 DEF BlameOwner, Goto, Inv, TypeOK
    <2>2. OwnersTrue'
        BY <2>1 DEF OwnersTrue, Inv
    <2>3. Wanted(t)' = Wanted(t) /\ blamed'[t] = holder[Wanted(t)] /\ holder[Wanted(t)] # None
        BY <2>1, <1>2 DEF Wanted, OwnersTrue, Inv
    <2>4. Pending'
        BY <2>1, <2>3, <1>4 DEF Pending, Inv
    <2>5. EdgesTrue'
        BY <2>1, <1>3 DEF EdgesTrue
    <2> QED BY <2>2, <2>4, <2>5
<1>13. CASE AddEdge(t)
    <2>1. /\ UNCHANGED <<order, step, holder, owner_idx, blamed>>
          /\ pc[t] = "add" /\ pc'[t] = "try"
          /\ edge' = [edge EXCEPT ![t][blamed[t]] = TRUE]
        BY <1>13 DEF AddEdge, Goto, Inv, TypeOK
    <2>2. OwnersTrue'
        BY <2>1 DEF OwnersTrue, Inv
    <2>3. Pending'
        BY <2>1, <1>4 DEF Pending, Inv
    <2>4. \A u, v \in Threads : edge'[u][v] => edge[u][v] \/ (u = t /\ v = blamed[t])
        BY <2>1 DEF Inv, TypeOK
    <2>5. blamed[t] = holder[Wanted(t)]
        BY <2>1 DEF Pending, Inv
    <2>6. WaitsFor(t, blamed[t])'
        BY <2>1, <2>5 DEF WaitsFor, Wanted
    <2>7. EdgesTrue'
        BY <2>4, <2>6, <2>1, <1>3 DEF EdgesTrue, WaitsFor, Wanted
    <2> QED BY <2>2, <2>3, <2>7
<1> QED BY <1>7, <1>8, <1>9, <1>10, <1>11, <1>12, <1>13 DEF ThreadStep

\* The inductive invariant.
THEOREM Invariant == Spec => []Inv
<1>1. Init => Inv
    <2> SUFFICES ASSUME Init
                 PROVE  Inv
        OBVIOUS
    <2>1. TypeOK
        <3>1. edge \in [Threads -> [Threads -> BOOLEAN]]
            BY DEF Init
        <3>2. elapsed \in 0..Grace /\ age \in 0..Grace
            BY DeadlockConstants DEF Init
        <3>3. /\ pc \in [Threads -> {"call"}] /\ step \in [Threads -> Nat \ {0}]
              /\ \A t \in Threads : pc[t] = "call"
            BY DEF Init
        <3>4. /\ holder \in [Mutexes -> Threads \cup {None}]
              /\ owner_idx \in [Mutexes -> Threads \cup {None}]
              /\ blamed \in [Threads -> Threads \cup {None}]
            BY DEF Init
        <3>5. order \in Orders /\ deadlock_started = FALSE /\ monitor = "scan" /\ process = "running"
            BY DEF Init
        <3> QED BY <3>1, <3>2, <3>3, <3>4, <3>5 DEF TypeOK
    <2>2. OwnersTrue
        BY DEF Init, OwnersTrue
    <2>3. Pending
        BY DEF Init, Pending
    <2>4. EdgesTrue
        BY DEF Init, EdgesTrue
    <2> QED BY <2>1, <2>2, <2>3, <2>4 DEF Inv
<1>2. Inv /\ [Next]_vars => Inv'
    <2> SUFFICES ASSUME Inv, [Next]_vars
                 PROVE  Inv'
        OBVIOUS
    <2>1. TypeOK'
        BY TypeKept DEF Inv
    <2>2. CASE \E t \in Threads : ThreadStep(t)
        BY <2>1, <2>2, ThreadKeeps DEF Inv
    <2>3. CASE ~ \E t \in Threads : ThreadStep(t)
        BY <2>1, <2>3, ThreadsUnchanged DEF Inv, OwnersTrue, Pending, EdgesTrue, WaitsFor, Wanted
    <2> QED BY <2>2, <2>3
<1> QED BY <1>1, <1>2, PTL DEF Spec

\* The values the variables take, for any threads, mutexes and orders of locking.
THEOREM TypeCorrect == Spec => []TypeOK
BY Invariant, PTL DEF Inv

\* Whatever the order in which owners are noted and read and edges are added and cleared, an
\* edge of the wait-for graph is a thread that is still waiting for the thread it points to.
THEOREM GraphIsTrue == Spec => []EdgesTrue
BY Invariant, PTL DEF Inv

\* Once threads wait for each other in a circle they do for ever.
THEOREM DeadlockIsForever == Spec => DeadlockForever
<1>1. Inv /\ [Next]_vars => [Deadlock => Deadlock']_vars
    BY DeadlockStable DEF Inv
<1> QED BY <1>1, Invariant, PTL DEF Spec, DeadlockForever

-----------------------------------------------------------------------------

\* The monitor's alarm stays true.
LEMMA AlarmKept ==
    ASSUME Inv, AlarmTrue, [Next]_vars
    PROVE  AlarmTrue'
<1>1. Grace \in Nat \ {0} /\ elapsed \in 0..Grace /\ age \in 0..Grace
    BY DeadlockConstants DEF Inv, TypeOK
<1>2. Deadlock => Deadlock'
    BY DeadlockStable DEF Inv
<1>3. CASE \E t \in Threads : ThreadStep(t)
    <2>1. UNCHANGED <<watch, age, process>>
        BY <1>3 DEF ThreadStep, CallLock, TryLock, RecordOwner, ClearEdges, TryFails,
                    BlameNobody, BlameOwner, AddEdge
    <2> QED BY <2>1, <1>2 DEF AlarmTrue, watch
<1>4. CASE Scan
    <2>1. HasCycle => Deadlock
        BY CycleIsDeadlock DEF Inv
    <2> QED BY <1>1, <1>2, <1>4, <2>1 DEF Scan, AlarmTrue
<1>5. CASE Report
    BY <1>2, <1>5 DEF Report, AlarmTrue, watch
<1>6. CASE MainReturns
    BY <1>2, <1>6 DEF MainReturns, AlarmTrue, watch
<1>7. CASE Tick
    BY <1>1, <1>2, <1>7 DEF Tick, AlarmTrue, Later
<1>8. CASE Ended \/ UNCHANGED vars
    BY <1>2, <1>8 DEF Ended, vars, watch, AlarmTrue
<1> QED BY <1>3, <1>4, <1>5, <1>6, <1>7, <1>8 DEF Next

\* The monitor ends the program only for a real deadlock that has lasted the grace period, so
\* no run that could still have finished is cut short.
THEOREM NoFalseAlarm == Spec => []AlarmTrue
<1>1. Init => AlarmTrue
    BY DeadlockConstants DEF Init, AlarmTrue
<1>2. Inv /\ AlarmTrue /\ [Next]_vars => AlarmTrue'
    BY AlarmKept
<1> QED BY <1>1, <1>2, Invariant, PTL DEF Spec

-----------------------------------------------------------------------------
(* The depth-first search.                                                  *)

USE ThreadCountIsNat

\* The values the variables of the search take.
SearchTypes ==
    /\ graph \in [Nodes -> [Nodes -> BOOLEAN]]
    /\ visited \subseteq Nodes /\ stack \subseteq visited
    /\ calls \in Seq([node : Nodes, next : 0..THREAD_COUNT])
    /\ root \in 0..THREAD_COUNT
    /\ verdict \in {"none", "searching", "yes", "no"}

\* The calls that have not returned are a path of the graph, without a node twice.
Path ==
    /\ stack = {calls[k].node : k \in 1..Len(calls)}
    /\ \A j, k \in 1..Len(calls) : calls[j].node = calls[k].node => j = k
    /\ \A k \in 1..(Len(calls) - 1) :
           calls[k].next = calls[k + 1].node /\ graph[calls[k].node][calls[k + 1].node]

\* The successors a call is done with are left for good.
DoneWith ==
    \A k \in 1..Len(calls) : \A n \in Nodes :
        n < calls[k].next /\ graph[calls[k].node][n] => n \in visited \ stack

\* No node that is left for good is on a circle.
NoCircleLeft ==
    \A T \in SUBSET Nodes :
        (\A t \in T : \E u \in T : graph[t][u]) => T \cap (visited \ stack) = {}

RootsVisited == \A n \in Nodes : n < root => n \in visited

SearchInv ==
    /\ SearchTypes
    /\ verdict = "searching" => Path /\ DoneWith /\ NoCircleLeft /\ RootsVisited

\* The innermost call is at one of its successors or at the end of its loop.
LEMMA CurrentType ==
    ASSUME SearchTypes, calls # <<>>
    PROVE  /\ Len(calls) \in Nat \ {0}
           /\ Current \in [node : Nodes, next : 0..THREAD_COUNT]
<1> DEFINE Frames == [node : Nodes, next : 0..THREAD_COUNT]
<1>1. calls \in Seq(Frames)
    BY DEF SearchTypes
<1> HIDE DEF Frames
<1>2. Len(calls) \in Nat \ {0} /\ calls[Len(calls)] \in Frames
    BY <1>1
<1> QED BY <1>2 DEF Current, Frames

\* A call for a node not visited, from a root or over an edge, makes the path longer.
LEMMA VisitKeeps ==
    ASSUME SearchInv, verdict = "searching",
           NEW n \in Nodes, n \notin visited, Visit(n),
           calls # <<>> => Current.next = n /\ graph[Current.node][n]
    PROVE  SearchInv'
<1> DEFINE Frames == [node : Nodes, next : 0..THREAD_COUNT]
           L == Len(calls)
<1>1. SearchTypes /\ Path /\ DoneWith /\ NoCircleLeft /\ RootsVisited
    BY DEF SearchInv
<1>2. calls \in Seq(Frames) /\ L \in Nat
    BY <1>1 DEF SearchTypes
<1>3. /\ visited' = visited \cup {n} /\ stack' = stack \cup {n}
      /\ calls' = Append(calls, [node |-> n, next |-> 0])
      /\ graph' = graph /\ root' = root /\ verdict' = verdict
    BY DEF Visit
<1>4. [node |-> n, next |-> 0] \in Frames
    OBVIOUS
<1> HIDE DEF Frames
<1>5. /\ calls' \in Seq(Frames) /\ Len(calls') = L + 1
      /\ \A k \in 1..L : calls'[k] = calls[k]
      /\ calls'[L + 1] = [node |-> n, next |-> 0]
    BY <1>2, <1>3, <1>4
<1>6. visited' \ stack' = visited \ stack
    BY <1>3
<1>7. SearchTypes'
    BY <1>1, <1>3, <1>5 DEF SearchTypes, Nodes, Frames
<1>8. Path'
  <2>1. \A k \in 1..L : calls[k].node \in stack /\ calls[k].node \in visited
    BY <1>1 DEF Path, SearchTypes
  <2>2. \A k \in 1..(L + 1) : calls'[k].node = IF k = L + 1 THEN n ELSE calls[k].node
    BY <1>2, <1>5
  <2>3. stack' = {calls'[k].node : k \in 1..Len(calls')}
    BY <1>1, <1>2, <1>3, <1>5, <2>2 DEF Path
  <2>4. ASSUME NEW j \in 1..(L + 1), NEW k \in 1..(L + 1), calls'[j].node = calls'[k].node
        PROVE  j = k
    <3>1. CASE j \in 1..L /\ k \in 1..L
      BY <1>1, <1>5, <2>4, <3>1 DEF Path
    <3>2. CASE j = L + 1 \/ k = L + 1
      BY <1>2, <2>1, <2>2, <2>4, <3>2
    <3> QED BY <1>2, <3>1, <3>2
  <2>5. ASSUME NEW k \in 1..L
        PROVE  calls'[k].next = calls'[k + 1].node /\ graph[calls'[k].node][calls'[k + 1].node]
    <3>1. CASE k = L
      <4>1. calls # <<>>
        BY <1>2, <3>1
      <4> QED BY <1>2, <1>5, <2>2, <3>1, <4>1 DEF Current
    <3>2. CASE k # L
      <4>1. k \in 1..(L - 1) /\ k + 1 \in 1..L
        BY <1>2, <3>2
      <4> QED BY <1>1, <1>5, <4>1 DEF Path
    <3> QED BY <3>1, <3>2
  <2>6. Len(calls') = L + 1 /\ Len(calls') - 1 = L /\ graph' = graph
    BY <1>2, <1>3, <1>5
  <2>7. \A j, k \in 1..(L + 1) : calls'[j].node = calls'[k].node => j = k
    BY <2>4
  <2>8. \A k \in 1..L : /\ calls'[k].next = calls'[k + 1].node
                       /\ graph[calls'[k].node][calls'[k + 1].node]
    BY <2>5
  <2> QED BY <2>3, <2>6, <2>7, <2>8 DEF Path
<1>9. DoneWith'
  <2> SUFFICES ASSUME NEW k \in 1..(L + 1), NEW m \in Nodes,
                      m < calls'[k].next, graph[calls'[k].node][m]
               PROVE  m \in visited \ stack
    BY <1>3, <1>5, <1>6 DEF DoneWith, Nodes
  <2>1. k # L + 1
    BY <1>5 DEF Nodes
  <2>2. k \in 1..L /\ calls'[k] = calls[k]
    BY <1>2, <1>5, <2>1
  <2> QED BY <1>1, <2>2 DEF DoneWith
<1>10. NoCircleLeft' /\ RootsVisited'
    BY <1>1, <1>3, <1>6 DEF NoCircleLeft, RootsVisited, Nodes
<1> QED BY <1>7, <1>8, <1>9, <1>10 DEF SearchInv

\* A call goes on from a node that is no successor, or that is left for good.
LEMMA AdvanceKeeps ==
    ASSUME SearchInv, verdict = "searching", calls # <<>>,
           Current.next \in Nodes, Advance,
           graph[Current.node][Current.next] => Current.next \in visited \ stack
    PROVE  SearchInv'
<1> DEFINE Frames == [node : Nodes, next : 0..THREAD_COUNT]
           L == Len(calls)
<1>1. SearchTypes /\ Path /\ DoneWith /\ NoCircleLeft /\ RootsVisited
    BY DEF SearchInv
<1>2. calls \in Seq(Frames) /\ L \in Nat \ {0} /\ Current \in Frames
    BY <1>1, CurrentType DEF SearchTypes
<1>3. /\ calls' = [calls EXCEPT ![L].next = @ + 1]
      /\ graph' = graph /\ visited' = visited /\ stack' = stack
      /\ root' = root /\ verdict' = verdict
    BY DEF Advance
<1> DEFINE frame == [node |-> Current.node, next |-> Current.next + 1]
<1>4. frame \in Frames /\ frame.node = Current.node /\ frame.next = Current.next + 1
    BY <1>2 DEF Nodes
<1>12. calls' = [calls EXCEPT ![L] = frame]
  <2>1. [calls[L] EXCEPT !.next = @ + 1] = frame
    BY <1>2 DEF Current
  <2> QED BY <1>3, <2>1
<1> HIDE DEF Frames, frame
<1>5. /\ Len(calls') = L /\ DOMAIN calls' = 1..L
      /\ \A k \in 1..L : k # L => calls'[k] = calls[k]
      /\ calls'[L] = frame
    BY <1>2, <1>12
<1>6. calls' \in Seq(Frames)
    BY <1>2, <1>4, <1>12
<1>7. ASSUME NEW k \in 1..L PROVE calls'[k].node = calls[k].node
  <2>1. CASE k = L
    BY <1>4, <1>5, <2>1 DEF Current
  <2> QED BY <1>5, <2>1
<1>8. SearchTypes'
    BY <1>1, <1>3, <1>6 DEF SearchTypes, Nodes, Frames
<1>9. Path'
  <2>1. stack' = {calls'[k].node : k \in 1..Len(calls')}
    BY <1>1, <1>3, <1>5, <1>7 DEF Path
  <2>2. \A j, k \in 1..Len(calls') : calls'[j].node = calls'[k].node => j = k
    BY <1>1, <1>5, <1>7 DEF Path
  <2>3. ASSUME NEW k \in 1..(L - 1)
        PROVE  calls'[k].next = calls'[k + 1].node /\ graph[calls'[k].node][calls'[k + 1].node]
    <3>1. k \in 1..L /\ k # L /\ k + 1 \in 1..L
      BY <1>2
    <3> QED BY <1>1, <1>5, <1>7, <3>1 DEF Path
  <2> QED BY <1>3, <1>5, <2>1, <2>2, <2>3 DEF Path
<1>10. DoneWith'
  <2> SUFFICES ASSUME NEW k \in 1..L, NEW m \in Nodes,
                      m < calls'[k].next, graph[calls'[k].node][m]
               PROVE  m \in visited \ stack
    BY <1>3, <1>5 DEF DoneWith, Nodes
  <2>1. CASE k # L
    BY <1>1, <1>5, <2>1 DEF DoneWith
  <2>2. CASE k = L
    <3>0. calls'[k].next = Current.next + 1 /\ calls'[k].node = Current.node
      BY <1>4, <1>5, <2>2
    <3>1. m < Current.next + 1 /\ graph[Current.node][m]
      BY <3>0
    <3>2. CASE m = Current.next
      BY <3>1, <3>2
    <3>3. CASE m < Current.next
      BY <1>1, <1>2, <3>1, <3>3 DEF DoneWith, Current
    <3> QED BY <1>2, <3>1, <3>2, <3>3 DEF Nodes
  <2> QED BY <2>1, <2>2
<1>11. NoCircleLeft' /\ RootsVisited'
    BY <1>1, <1>3 DEF NoCircleLeft, RootsVisited, Nodes
<1> QED BY <1>8, <1>9, <1>10, <1>11 DEF SearchInv

\* A sequence without its last element.
LEMMA WithoutLast ==
    ASSUME NEW S, NEW s \in Seq(S), s # <<>>
    PROVE  /\ SubSeq(s, 1, Len(s) - 1) \in Seq(S)
           /\ Len(SubSeq(s, 1, Len(s) - 1)) = Len(s) - 1
           /\ \A k \in 1..(Len(s) - 1) : SubSeq(s, 1, Len(s) - 1)[k] = s[k]
<1>1. Len(s) \in Nat \ {0}
    OBVIOUS
<1>2. Len(s) - 1 \in Int /\ \A k \in 1..(Len(s) - 1) : s[k] \in S
    BY <1>1
<1> DEFINE t == SubSeq(s, 1, Len(s) - 1)
<1>3. /\ t \in Seq(S)
      /\ Len(t) = IF 1 <= Len(s) - 1 THEN Len(s) - 1 - 1 + 1 ELSE 0
      /\ \A i \in 1..(Len(s) - 1 - 1 + 1) : t[i] = s[1 + i - 1]
    BY <1>2, SubSeqProperties
<1> HIDE DEF t
<1>4. Len(t) = Len(s) - 1
  <2>1. CASE Len(s) = 1
    BY <1>3, <2>1
  <2>2. CASE Len(s) # 1
    <3>1. \A n \in Nat \ {0} : n # 1 => 1 <= n - 1 /\ n - 1 - 1 + 1 = n - 1
      OBVIOUS
    <3> QED BY <1>1, <1>3, <2>2, <3>1
  <2> QED BY <2>1, <2>2
<1>5. ASSUME NEW k \in 1..(Len(s) - 1) PROVE t[k] = s[k]
  <2>1. k \in 1..(Len(s) - 1 - 1 + 1) /\ 1 + k - 1 = k
    BY <1>1
  <2> QED BY <1>3, <2>1
<1> QED BY <1>3, <1>4, <1>5 DEF t

\* A call that is done with all its successors leaves its node for good: from there one comes
\* only to nodes left before, so the node is on no circle.
LEMMA ReturnKeeps ==
    ASSUME SearchInv, Return
    PROVE  SearchInv'
<1> DEFINE Frames == [node : Nodes, next : 0..THREAD_COUNT]
           L == Len(calls)
           top == Current.node
<1>1. /\ SearchTypes /\ Path /\ DoneWith /\ NoCircleLeft /\ RootsVisited
      /\ calls # <<>> /\ Current.next = THREAD_COUNT
    BY DEF SearchInv, Return
<1>2. calls \in Seq(Frames) /\ L \in Nat \ {0} /\ Current \in Frames
    BY <1>1, CurrentType DEF SearchTypes
<1> HIDE DEF Frames
<1>3. /\ calls' = SubSeq(calls, 1, L - 1) /\ stack' = stack \ {top}
      /\ graph' = graph /\ visited' = visited /\ root' = root /\ verdict' = verdict
    BY DEF Return
<1>4. /\ calls' \in Seq(Frames) /\ Len(calls') = L - 1
      /\ \A k \in 1..(L - 1) : calls'[k] = calls[k]
    BY <1>1, <1>2, <1>3, WithoutLast
<1>5. top \in stack /\ top \in visited /\ top \in Nodes /\ top = calls[L].node
    BY <1>1, <1>2 DEF Path, SearchTypes, Current
<1>6. visited' \ stack' = (visited \ stack) \cup {top}
    BY <1>3, <1>5
<1>7. SearchTypes'
    BY <1>1, <1>3, <1>4 DEF SearchTypes, Nodes, Frames
<1>8. Path'
  <2>1. \A k \in 1..(L - 1) : calls[k].node # top
    BY <1>1, <1>2, <1>5 DEF Path
  <2>2. stack' = {calls'[k].node : k \in 1..Len(calls')}
    BY <1>1, <1>2, <1>3, <1>4, <1>5, <2>1 DEF Path
  <2>3. ASSUME NEW j \in 1..(L - 1), NEW k \in 1..(L - 1), calls'[j].node = calls'[k].node
        PROVE  j = k
    <3>1. j \in 1..L /\ k \in 1..L /\ calls'[j] = calls[j] /\ calls'[k] = calls[k]
      BY <1>2, <1>4
    <3> QED BY <1>1, <2>3, <3>1 DEF Path
  <2>4. ASSUME NEW k \in 1..(L - 2)
        PROVE  calls'[k].next = calls'[k + 1].node /\ graph[calls'[k].node][calls'[k + 1].node]
    <3>1. k \in 1..(L - 1) /\ k + 1 \in 1..(L - 1)
      BY <1>2
    <3> QED BY <1>1, <1>4, <3>1 DEF Path
  <2> QED BY <1>2, <1>3, <1>4, <2>2, <2>3, <2>4 DEF Path
<1>9. DoneWith'
  <2> SUFFICES ASSUME NEW k \in 1..(L - 1), NEW m \in Nodes,
                      m < calls'[k].next, graph[calls'[k].node][m]
               PROVE  m \in visited' \ stack'
    BY <1>3, <1>4 DEF DoneWith, Nodes
  <2>1. k \in 1..L /\ calls'[k] = calls[k]
    BY <1>2, <1>4
  <2> QED BY <1>1, <1>6, <2>1 DEF DoneWith
<1>10. NoCircleLeft'
  <2> SUFFICES ASSUME NEW T \in SUBSET Nodes, \A t \in T : \E u \in T : graph[t][u]
               PROVE  T \cap ((visited \ stack) \cup {top}) = {}
    BY <1>3, <1>6 DEF NoCircleLeft, Nodes
  <2>1. T \cap (visited \ stack) = {}
    BY <1>1 DEF NoCircleLeft
  <2>2. top \notin T
    <3> SUFFICES ASSUME top \in T PROVE FALSE
      OBVIOUS
    <3>1. PICK u \in T : graph[top][u]
      OBVIOUS
    <3>2. u \in Nodes /\ u < Current.next
      BY <1>1 DEF Nodes
    <3>3. u \in visited \ stack
      BY <1>1, <1>2, <3>1, <3>2 DEF DoneWith, Current
    <3> QED BY <2>1, <3>3
  <2> QED BY <2>1, <2>2
<1>11. RootsVisited'
    BY <1>1, <1>3 DEF RootsVisited, Nodes
<1> QED BY <1>7, <1>8, <1>9, <1>10, <1>11 DEF SearchInv
\* detect_cycle goes on from a node that is visited.
LEMMA NextRootKeeps ==
    ASSUME SearchInv, NextRoot
    PROVE  SearchInv'
<1>1. /\ SearchTypes /\ Path /\ DoneWith /\ NoCircleLeft /\ RootsVisited
      /\ root \in visited /\ root \in Nodes /\ root' = root + 1
      /\ graph' = graph /\ visited' = visited /\ stack' = stack /\ calls' = calls
      /\ verdict' = verdict
    BY DEF SearchInv, NextRoot, BetweenRoots
<1>2. SearchTypes' /\ RootsVisited'
    BY <1>1 DEF SearchTypes, RootsVisited, Nodes
<1>3. Path' /\ DoneWith' /\ NoCircleLeft'
    BY <1>1 DEF Path, DoneWith, NoCircleLeft, Nodes
<1> QED BY <1>2, <1>3 DEF SearchInv

\* Whenever detect_cycle is not at work the locals are what they are before its first step.
LEMMA AtRest ==
    ASSUME SearchTypes, Cleared,
           graph' \in [Nodes -> [Nodes -> BOOLEAN]],
           verdict' \in {"none", "searching", "yes", "no"}
    PROVE  SearchInv'
<1>1. visited' = {} /\ stack' = {} /\ calls' = <<>> /\ root' = 0 /\ Len(calls') = 0
    BY DEF Cleared
<1>2. SearchTypes'
    BY <1>1 DEF SearchTypes, Nodes
<1>3. Path'
    BY <1>1 DEF Path
<1>4. DoneWith' /\ NoCircleLeft' /\ RootsVisited'
    BY <1>1 DEF DoneWith, NoCircleLeft, RootsVisited, Nodes
<1> QED BY <1>2, <1>3, <1>4 DEF SearchInv

\* A path that meets itself is a circle, from where it meets itself to its end.
LEMMA MeetIsCycle ==
    ASSUME SearchInv, MeetPath
    PROVE  Cyclic(Nodes, Edge)
<1> DEFINE L == Len(calls)
           met == Current.next
<1>1. /\ SearchTypes /\ Path /\ calls # <<>>
      /\ met \in stack /\ graph[Current.node][met]
    BY DEF SearchInv, MeetPath, AtEdge, Edge
<1>2. L \in Nat \ {0} /\ Current = calls[L]
    BY <1>1, CurrentType DEF Current
<1>3. PICK j \in 1..L : calls[j].node = met
    BY <1>1 DEF Path
<1> DEFINE Circle == {calls[k].node : k \in j..L}
<1>4. Circle \in SUBSET Nodes /\ Circle # {}
  <2>1. \A k \in j..L : calls[k].node \in stack
    BY <1>1, <1>2 DEF Path
  <2>2. j \in j..L
    BY <1>2
  <2> QED BY <1>1, <2>1, <2>2 DEF SearchTypes
<1>5. ASSUME NEW k \in j..L PROVE \E u \in Circle : graph[calls[k].node][u]
  <2>1. CASE k = L
    <3>1. j \in j..L /\ met \in Circle
      BY <1>2, <1>3
    <3> QED BY <1>1, <1>2, <2>1, <3>1
  <2>2. CASE k # L
    <3>1. k \in 1..(L - 1) /\ k + 1 \in j..L
      BY <1>2, <2>2
    <3> QED BY <1>1, <3>1 DEF Path
  <2> QED BY <2>1, <2>2
<1>6. \A t \in Circle : \E u \in Circle : graph[t][u]
    BY <1>5
<1> HIDE DEF Circle
<1> QED BY <1>4, <1>6 DEF Cyclic, Closed, Edge

\* When every root is done with, every node is left for good, and none is on a circle.
LEMMA NoneIsAcyclic ==
    ASSUME SearchInv, NoCycle
    PROVE  ~Cyclic(Nodes, Edge)
<1>1. /\ SearchTypes /\ Path /\ NoCircleLeft /\ RootsVisited
      /\ calls = <<>> /\ root = THREAD_COUNT
    BY DEF SearchInv, NoCycle, BetweenRoots
<1>2. stack = {}
    BY <1>1 DEF Path
<1>3. \A n \in Nodes : n \in visited \ stack
    BY <1>1, <1>2 DEF RootsVisited, Nodes
<1>4. ASSUME NEW T \in SUBSET Nodes, \A t \in T : \E u \in T : graph[t][u]
      PROVE  T = {}
    BY <1>1, <1>3, <1>4 DEF NoCircleLeft
<1> QED BY <1>4 DEF Cyclic, Closed, Edge

\* One step of the search, or of a thread that changes the graph, keeps what the search knows.
LEMMA SearchInvKept ==
    ASSUME SearchInv, [DfsNext]_dfsVars
    PROVE  SearchInv'
<1>1. SearchTypes
    BY DEF SearchInv
<1>2. CASE \/ \E from, to \in Nodes : AddGraphEdge(from, to)
           \/ \E from \in Nodes : ClearEdgesFrom(from)
  <2>1. /\ graph' \in [Nodes -> [Nodes -> BOOLEAN]] /\ verdict' = "none"
        /\ visited' = visited /\ stack' = stack /\ calls' = calls /\ root' = root
    <3>1. CASE \E from, to \in Nodes : AddGraphEdge(from, to)
      BY <1>1, <3>1 DEF AddGraphEdge, Change, locals, SearchTypes
    <3>2. CASE \E from \in Nodes : ClearEdgesFrom(from)
      BY <1>1, <3>2 DEF ClearEdgesFrom, Change, locals, SearchTypes
    <3> QED BY <1>2, <3>1, <3>2
  <2> QED BY <1>1, <2>1 DEF SearchInv, SearchTypes, Nodes
<1>3. CASE Detect \/ NoCycle \/ MeetPath
    BY <1>1, <1>3, AtRest DEF Detect, NoCycle, MeetPath, Answer, SearchTypes
<1>4. CASE VisitRoot
    BY <1>4, VisitKeeps DEF VisitRoot, BetweenRoots
<1>5. CASE NextRoot
    BY <1>5, NextRootKeeps
<1>6. CASE SkipNoEdge
    BY <1>6, AdvanceKeeps DEF SkipNoEdge, Edge
<1>7. CASE SkipVisited
    BY <1>7, AdvanceKeeps DEF SkipVisited, AtEdge, Edge
<1>8. CASE Descend
    BY <1>8, VisitKeeps DEF Descend, AtEdge, Edge
<1>9. CASE Return
    BY <1>9, ReturnKeeps
<1>10. CASE UNCHANGED dfsVars
  <2>1. /\ graph' = graph /\ visited' = visited /\ stack' = stack /\ calls' = calls
        /\ root' = root /\ verdict' = verdict
    BY <1>10 DEF dfsVars, locals
  <2>2. SearchTypes'
    BY <1>1, <2>1 DEF SearchTypes, Nodes
  <2>3. /\ (Path => Path') /\ (DoneWith => DoneWith')
        /\ (NoCircleLeft => NoCircleLeft') /\ (RootsVisited => RootsVisited')
    BY <2>1 DEF Path, DoneWith, NoCircleLeft, RootsVisited, Nodes
  <2> QED BY <2>1, <2>2, <2>3 DEF SearchInv
<1> QED BY <1>2, <1>3, <1>4, <1>5, <1>6, <1>7, <1>8, <1>9, <1>10 DEF DfsNext, SearchStep

\* An answer is given for the graph as it is, and taken back when the graph changes.
LEMMA AnswerExact ==
    ASSUME SearchInv, SearchExact, [DfsNext]_dfsVars
    PROVE  SearchExact'
<1>1. CASE MeetPath \/ NoCycle
  <2>1. graph' = graph
    BY <1>1 DEF MeetPath, NoCycle, Answer
  <2>2. CASE MeetPath
    <3>1. verdict' = "yes"
      BY <2>2 DEF MeetPath, Answer
    <3> QED BY <2>1, <2>2, <3>1, MeetIsCycle
        DEF SearchExact, Cyclic, Closed, Edge, Nodes
  <2>3. CASE NoCycle
    <3>1. verdict' = "no"
      BY <2>3 DEF NoCycle, Answer
    <3> QED BY <2>1, <2>3, <3>1, NoneIsAcyclic
        DEF SearchExact, Cyclic, Closed, Edge, Nodes
  <2> QED BY <1>1, <2>2, <2>3
<1>2. CASE ~(MeetPath \/ NoCycle)
  <2>1. verdict' \in {"none", "searching"} \/ (verdict' = verdict /\ graph' = graph)
    BY <1>2 DEF DfsNext, SearchStep, AddGraphEdge, ClearEdgesFrom, Change,
                Detect, VisitRoot, NextRoot, SkipNoEdge, Descend,
                SkipVisited, Return, Visit, Advance, dfsVars
  <2>2. CASE verdict' \in {"none", "searching"}
    BY <2>2 DEF SearchExact
  <2>3. CASE verdict' = verdict /\ graph' = graph
    BY <2>3 DEF SearchExact, Cyclic, Closed, Edge, Nodes
  <2> QED BY <2>1, <2>2, <2>3
<1> QED BY <1>1, <1>2

\* Whatever the graph and the number of its nodes, detect_cycle says that there is a cycle
\* exactly when some nodes wait for each other in a circle.
THEOREM SearchIsExact == DfsSpec => []SearchExact
<1>1. DfsInit => SearchInv /\ SearchExact
  <2> SUFFICES ASSUME DfsInit PROVE SearchInv /\ SearchExact
    OBVIOUS
  <2> QED BY DEF DfsInit, Nodes, SearchInv, SearchTypes, SearchExact
<1>2. SearchInv /\ SearchExact /\ [DfsNext]_dfsVars
      => SearchInv' /\ SearchExact'
    BY SearchInvKept, AnswerExact
<1> QED BY <1>1, <1>2, PTL DEF DfsSpec

-----------------------------------------------------------------------------

\* The steps a search may still need: <<n, 0>> is the call for node n, <<n, m + 1>> the turn of
\* its loop at successor m, <<THREAD_COUNT, r>> the turn of detect_cycle at root r.
Ahead(n, m) ==
    \/ n \notin visited
    \/ \E k \in 1..Len(calls) : calls[k].node = n /\ calls[k].next < m

Turns == (0..THREAD_COUNT) \X (0..(THREAD_COUNT + 1))

TurnsLeft ==
    {p \in Turns : IF p[1] = THREAD_COUNT THEN root <= p[2] /\ p[2] <= THREAD_COUNT
                   ELSE Ahead(p[1], p[2])}

\* A step that leaves a turn behind and brings none back makes the set of turns smaller.
LEMMA TurnGone ==
    ASSUME root' >= root, root \in Nat, root' \in Nat,
           \A n \in Nodes : \A m \in 0..(THREAD_COUNT + 1) : Ahead(n, m)' => Ahead(n, m),
           NEW p \in TurnsLeft, p \notin TurnsLeft'
    PROVE  TurnsLeft' \subseteq TurnsLeft /\ TurnsLeft' # TurnsLeft
<1>1. ASSUME NEW q \in TurnsLeft' PROVE q \in TurnsLeft
  <2>1. q \in Turns /\ q[1] \in 0..THREAD_COUNT /\ q[2] \in 0..(THREAD_COUNT + 1)
    BY <1>1 DEF TurnsLeft, Turns
  <2>2. CASE q[1] = THREAD_COUNT
    BY <1>1, <2>1, <2>2 DEF TurnsLeft
  <2>3. CASE q[1] # THREAD_COUNT
    <3>1. q[1] \in Nodes /\ Ahead(q[1], q[2])'
      BY <1>1, <2>1, <2>3 DEF TurnsLeft, Nodes
    <3>2. Ahead(q[1], q[2])
      BY <2>1, <3>1
    <3> QED BY <2>1, <2>3, <3>2 DEF TurnsLeft
  <2> QED BY <2>2, <2>3
<1> QED BY <1>1

\* Each step of a search that gives no answer leaves a turn behind for good.
LEMMA StepTakesTurn ==
    ASSUME SearchInv, SearchStep, verdict' = "searching"
    PROVE  TurnsLeft' \subseteq TurnsLeft /\ TurnsLeft' # TurnsLeft
<1> DEFINE Frames == [node : Nodes, next : 0..THREAD_COUNT]
           L == Len(calls)
           At == Current
<1>1. verdict = "searching"
    BY DEF SearchStep, VisitRoot, NextRoot, NoCycle, BetweenRoots,
           SkipNoEdge, Descend, SkipVisited, MeetPath, Return, AtEdge
<1>2. SearchTypes /\ Path /\ SearchTypes'
  <2>1. [DfsNext]_dfsVars
    BY DEF DfsNext
  <2> QED BY <1>1, <2>1, SearchInvKept DEF SearchInv
<1>3. /\ L \in Nat /\ root \in 0..THREAD_COUNT /\ root' \in 0..THREAD_COUNT
      /\ visited \subseteq Nodes
      /\ \A k \in 1..L : calls[k].node \in visited /\ calls[k].next \in 0..THREAD_COUNT
  <2>1. calls \in Seq(Frames)
    BY <1>2 DEF SearchTypes
  <2> HIDE DEF Frames
  <2>2. L \in Nat /\ \A k \in 1..L : calls[k] \in Frames
    BY <2>1
  <2>3. \A k \in 1..L : calls[k].node \in stack
    BY <1>2 DEF Path
  <2> QED BY <1>2, <2>2, <2>3 DEF SearchTypes, Frames
<1>4. CASE NextRoot
  <2>1. /\ root' = root + 1 /\ visited' = visited /\ calls' = calls
        /\ root \in 0..(THREAD_COUNT - 1)
    BY <1>4 DEF NextRoot, Nodes
  <2> DEFINE p == <<THREAD_COUNT, root>>
  <2>2. p \in TurnsLeft /\ p \notin TurnsLeft'
    BY <1>3, <2>1 DEF TurnsLeft, Turns
  <2>3. \A n \in Nodes : \A m \in 0..(THREAD_COUNT + 1) : Ahead(n, m)' => Ahead(n, m)
    BY <2>1 DEF Ahead
  <2> HIDE DEF p
  <2> QED BY <1>3, <2>1, <2>2, <2>3, TurnGone
<1>5. ASSUME NEW node \in Nodes, node \notin visited, Visit(node)
      PROVE  TurnsLeft' \subseteq TurnsLeft /\ TurnsLeft' # TurnsLeft
  <2>1. /\ root' = root /\ visited' = visited \cup {node} /\ Len(calls') = L + 1
        /\ \A k \in 1..L : calls'[k] = calls[k]
        /\ calls'[L + 1].node = node /\ calls'[L + 1].next = 0
    <3>1. calls \in Seq(Frames) /\ calls' = Append(calls, [node |-> node, next |-> 0])
      BY <1>2, <1>5 DEF SearchTypes, Visit
    <3> HIDE DEF Frames
    <3>2. /\ Len(calls') = L + 1 /\ \A k \in 1..L : calls'[k] = calls[k]
          /\ calls'[L + 1] = [node |-> node, next |-> 0]
      BY <3>1
    <3> QED BY <1>5, <3>2 DEF Visit
  <2> DEFINE p == <<node, 0>>
  <2>2. p \in TurnsLeft
    BY <1>5 DEF TurnsLeft, Turns, Ahead, Nodes
  <2>3. ~Ahead(node, 0)'
    <3>1. node \in visited'
      BY <2>1
    <3>2. \A k \in 1..(L + 1) : calls'[k].next >= 0
      BY <1>3, <2>1
    <3> QED BY <1>3, <2>1, <3>1, <3>2 DEF Ahead
  <2>4. p \notin TurnsLeft'
    BY <1>5, <2>3 DEF TurnsLeft, Nodes
  <2>5. ASSUME NEW n \in Nodes, NEW m \in 0..(THREAD_COUNT + 1), Ahead(n, m)'
        PROVE  Ahead(n, m)
    <3>1. CASE n \notin visited'
      BY <2>1, <3>1 DEF Ahead
    <3>2. CASE \E k \in 1..(L + 1) : calls'[k].node = n /\ calls'[k].next < m
      <4>1. PICK k \in 1..(L + 1) : calls'[k].node = n /\ calls'[k].next < m
        BY <3>2
      <4>2. CASE k \in 1..L
        BY <2>1, <4>1, <4>2 DEF Ahead
      <4>3. CASE k = L + 1
        BY <1>5, <2>1, <4>1, <4>3 DEF Ahead
      <4> QED BY <1>3, <4>2, <4>3
    <3> QED BY <2>1, <2>5, <3>1, <3>2 DEF Ahead
  <2> HIDE DEF p
  <2> QED BY <1>3, <2>1, <2>2, <2>4, <2>5, TurnGone
<1>6. CASE SkipNoEdge \/ SkipVisited
  <2>1. calls # <<>> /\ Advance
    BY <1>6 DEF SkipNoEdge, SkipVisited, AtEdge
  <2>2. At \in Frames /\ L \in 1..L /\ At = calls[L]
    BY <1>2, <1>3, <2>1, CurrentType DEF Current
  <2>3. /\ root' = root /\ visited' = visited /\ Len(calls') = L
        /\ \A k \in 1..L : calls'[k].node = calls[k].node
        /\ \A k \in 1..L : calls'[k].next = IF k = L THEN At.next + 1 ELSE calls[k].next
    <3> DEFINE frame == [At EXCEPT !.next = @ + 1]
    <3>1. frame.node = At.node /\ frame.next = At.next + 1
      BY <2>2
    <3>2. calls \in Seq(Frames) /\ calls' = [calls EXCEPT ![L] = frame]
      BY <1>2, <2>1, <2>2 DEF SearchTypes, Advance
    <3> HIDE DEF Frames, frame
    <3>3. Len(calls') = L /\ \A k \in 1..L : calls'[k] = IF k = L THEN frame ELSE calls[k]
      BY <3>2
    <3> QED BY <2>1, <2>2, <3>1, <3>3 DEF Advance
  <2>8. PICK top \in Nodes : top = At.node
    BY <2>2
  <2>9. PICK turn \in 0..THREAD_COUNT : turn = At.next
    BY <2>2
  <2> DEFINE p == <<top, turn + 1>>
  <2>4. p \in TurnsLeft
    <3>1. Ahead(top, turn + 1)
      BY <1>3, <2>2, <2>8, <2>9 DEF Ahead
    <3> QED BY <3>1 DEF TurnsLeft, Turns, Nodes
  <2>5. ~Ahead(top, turn + 1)'
    <3>1. \A k \in 1..L : calls'[k].node = top => k = L
      BY <1>2, <2>2, <2>3, <2>8 DEF Path
    <3>2. ASSUME NEW k \in 1..L, calls'[k].node = top
          PROVE  ~(calls'[k].next < turn + 1)
      BY <2>2, <2>3, <2>9, <3>1, <3>2
    <3>3. top \in visited'
      BY <1>3, <2>2, <2>3, <2>8
    <3> QED BY <2>3, <3>2, <3>3 DEF Ahead
  <2>6. p \notin TurnsLeft'
    BY <2>5 DEF TurnsLeft, Nodes
  <2>7. ASSUME NEW n \in Nodes, NEW m \in 0..(THREAD_COUNT + 1), Ahead(n, m)'
        PROVE  Ahead(n, m)
    <3>1. CASE n \notin visited'
      BY <2>3, <3>1 DEF Ahead
    <3>2. CASE \E k \in 1..L : calls'[k].node = n /\ calls'[k].next < m
      <4>1. PICK k \in 1..L : calls'[k].node = n /\ calls'[k].next < m
        BY <3>2
      <4>2. calls[k].next < m
        BY <1>3, <2>2, <2>3, <4>1
      <4> QED BY <2>3, <4>1, <4>2 DEF Ahead
    <3> QED BY <2>3, <2>7, <3>1, <3>2 DEF Ahead
  <2> HIDE DEF p
  <2> QED BY <1>3, <2>3, <2>4, <2>6, <2>7, TurnGone
<1>7. CASE Return
  <2>1. calls # <<>> /\ At.next = THREAD_COUNT /\ visited' = visited /\ root' = root
    BY <1>7 DEF Return
  <2>2. At \in Frames /\ L \in 1..L /\ At = calls[L]
    BY <1>2, <1>3, <2>1, CurrentType DEF Current
  <2>3. Len(calls') = L - 1 /\ \A k \in 1..(L - 1) : calls'[k] = calls[k]
    <3>1. calls \in Seq(Frames) /\ calls' = SubSeq(calls, 1, L - 1)
      BY <1>2, <1>7 DEF SearchTypes, Return
    <3> HIDE DEF Frames
    <3> QED BY <2>1, <3>1, WithoutLast
  <2>8. PICK top \in Nodes : top = At.node
    BY <2>2
  <2> DEFINE p == <<top, THREAD_COUNT + 1>>
  <2>4. p \in TurnsLeft
    <3>1. Ahead(top, THREAD_COUNT + 1)
      BY <1>3, <2>1, <2>2, <2>8 DEF Ahead
    <3> QED BY <3>1 DEF TurnsLeft, Turns, Nodes
  <2>5. ~Ahead(top, THREAD_COUNT + 1)'
    <3>1. ASSUME NEW k \in 1..(L - 1) PROVE calls'[k].node # top
      <4>1. k \in 1..L /\ k # L
        BY <1>3
      <4> QED BY <1>2, <2>2, <2>3, <2>8, <4>1 DEF Path
    <3>2. top \in visited'
      BY <1>3, <2>1, <2>2, <2>8
    <3> QED BY <1>3, <2>3, <3>1, <3>2 DEF Ahead
  <2>6. p \notin TurnsLeft'
    BY <2>5 DEF TurnsLeft, Nodes
  <2>7. ASSUME NEW n \in Nodes, NEW m \in 0..(THREAD_COUNT + 1), Ahead(n, m)'
        PROVE  Ahead(n, m)
    <3>1. CASE n \notin visited'
      BY <2>1, <3>1 DEF Ahead
    <3>2. CASE \E k \in 1..(L - 1) : calls'[k].node = n /\ calls'[k].next < m
      <4>1. PICK k \in 1..(L - 1) : calls'[k].node = n /\ calls'[k].next < m
        BY <3>2
      <4>2. k \in 1..L
        BY <1>3
      <4> QED BY <2>3, <4>1, <4>2 DEF Ahead
    <3> QED BY <2>3, <2>7, <3>1, <3>2 DEF Ahead
  <2> HIDE DEF p
  <2> QED BY <1>3, <2>1, <2>4, <2>6, <2>7, TurnGone
<1>8. CASE VisitRoot \/ Descend
    BY <1>5, <1>8 DEF VisitRoot, Descend, AtEdge
<1>9. ~NoCycle /\ ~MeetPath
    BY DEF NoCycle, MeetPath, Answer
<1> QED BY <1>4, <1>6, <1>7, <1>8, <1>9 DEF SearchStep

\* There are finitely many turns.
LEMMA TurnsFinite ==
    /\ IsFiniteSet(TurnsLeft)
    /\ Cardinality(TurnsLeft) \in 0..((THREAD_COUNT + 1) * (THREAD_COUNT + 2))
<1>1. /\ IsFiniteSet(0..THREAD_COUNT) /\ IsFiniteSet(0..(THREAD_COUNT + 1))
      /\ Cardinality(0..THREAD_COUNT) = THREAD_COUNT + 1
      /\ Cardinality(0..(THREAD_COUNT + 1)) = THREAD_COUNT + 2
    BY FS_Interval
<1>2. /\ IsFiniteSet(Turns)
      /\ Cardinality(Turns) = (THREAD_COUNT + 1) * (THREAD_COUNT + 2)
    BY <1>1, FS_Product DEF Turns
<1>3. TurnsLeft \subseteq Turns
    BY DEF TurnsLeft
<1>4. IsFiniteSet(TurnsLeft) /\ Cardinality(TurnsLeft) <= Cardinality(Turns)
    BY <1>2, <1>3, FS_Subset
<1>5. Cardinality(TurnsLeft) \in Nat
    BY <1>4, FS_CardinalityType
<1> QED BY <1>2, <1>4, <1>5

\* The guards of the steps of detect_cycle and of dfs_cycle: some step can be taken.
CanStep ==
    \/ /\ BetweenRoots
       /\ \/ root \in Nodes \ visited \/ root \in Nodes \cap visited
          \/ root = THREAD_COUNT
    \/ /\ verdict = "searching" /\ calls # <<>>
       /\ \/ Current.next \in Nodes /\ ~Edge(Current.node, Current.next)
          \/ Current.next = THREAD_COUNT
    \/ /\ AtEdge
       /\ \/ Current.next \notin visited \/ Current.next \in visited \ stack
          \/ Current.next \in visited \cap stack

\* A search that has given no answer is not stuck.
LEMMA SearchCanStep ==
    ASSUME SearchInv, verdict = "searching"
    PROVE  CanStep
<1>1. SearchTypes /\ root \in 0..THREAD_COUNT
    BY DEF SearchInv, SearchTypes
<1>2. CASE calls = <<>>
    BY <1>1, <1>2 DEF CanStep, BetweenRoots, Nodes
<1>3. CASE calls # <<>>
  <2>1. Current.next \in Nodes \/ Current.next = THREAD_COUNT
    BY <1>1, <1>3, CurrentType DEF Nodes
  <2> QED BY <1>3, <2>1 DEF CanStep, AtEdge
<1> QED BY <1>2, <1>3

\* The number of turns left is a bound on what a search still does: every step of it that
\* gives no answer makes the number smaller, so that the lock of the graph, which the search
\* holds, is held for at most (THREAD_COUNT + 1) * (THREAD_COUNT + 2) steps. And until there is
\* an answer there is a step to take.
THEOREM SearchEnds ==
    DfsSpec =>
        /\ [](Cardinality(TurnsLeft) \in 0..((THREAD_COUNT + 1) * (THREAD_COUNT + 2)))
        /\ [][SearchStep /\ verdict' = "searching"
                => Cardinality(TurnsLeft') < Cardinality(TurnsLeft)]_dfsVars
        /\ [](verdict = "searching" => CanStep)
<1>1. DfsInit => SearchInv
    BY DEF DfsInit, Nodes, SearchInv, SearchTypes
<1>2. SearchInv /\ [DfsNext]_dfsVars => SearchInv'
    BY SearchInvKept
<1>3. Cardinality(TurnsLeft) \in 0..((THREAD_COUNT + 1) * (THREAD_COUNT + 2))
    BY TurnsFinite
<1>4. ASSUME SearchInv, SearchStep, verdict' = "searching"
      PROVE  Cardinality(TurnsLeft') < Cardinality(TurnsLeft)
  <2>1. TurnsLeft' \subseteq TurnsLeft /\ TurnsLeft' # TurnsLeft
    BY <1>4, StepTakesTurn
  <2>2. IsFiniteSet(TurnsLeft)
    BY TurnsFinite
  <2>3. /\ IsFiniteSet(TurnsLeft') /\ Cardinality(TurnsLeft') <= Cardinality(TurnsLeft)
        /\ Cardinality(TurnsLeft') # Cardinality(TurnsLeft)
    BY <2>1, <2>2, FS_Subset
  <2>4. Cardinality(TurnsLeft') \in Nat /\ Cardinality(TurnsLeft) \in Nat
    BY <2>2, <2>3, FS_CardinalityType
  <2> QED BY <2>3, <2>4
<1>5. SearchInv /\ [DfsNext]_dfsVars
      => [SearchStep /\ verdict' = "searching"
            => Cardinality(TurnsLeft') < Cardinality(TurnsLeft)]_dfsVars
    BY <1>4
<1>6. SearchInv => (verdict = "searching" => CanStep)
    BY SearchCanStep
<1> QED BY <1>1, <1>2, <1>3, <1>5, <1>6, PTL DEF DfsSpec
===============================================================================
