------------------------------- MODULE DfsCycle -------------------------------
(***************************************************************************)
(* The wait-for graph of aisys/deadlock_hunters.c and the depth-first       *)
(* search that looks for a cycle in it: nodes 0 .. THREAD_COUNT-1, edges    *)
(* added one by one and cleared node by node, both under the lock of the    *)
(* graph, which detect_cycle holds from its first step to its answer.       *)
(* The arrays visited and stack are sets; the calls of dfs_cycle that have  *)
(* not returned are a sequence of frames, the innermost last.               *)
(***************************************************************************)
EXTENDS Naturals, Sequences, WaitGraph

CONSTANT THREAD_COUNT

ASSUME ThreadCountIsNat == THREAD_COUNT \in Nat

VARIABLES
    graph,      \* wait_for_graph.edge
    visited, stack,
    calls,      \* [node, next]: the node of each call and its loop variable
    root,       \* the loop variable of detect_cycle
    verdict     \* "searching", what detect_cycle returned, or "none" for a changed graph

locals == <<visited, stack, calls, root>>
dfsVars == <<graph, locals, verdict>>

Nodes == 0..(THREAD_COUNT - 1)
Edge(from, to) == graph[from][to]

DfsInit ==
    /\ graph = [i \in Nodes |-> [j \in Nodes |-> FALSE]]
    /\ visited = {} /\ stack = {} /\ calls = <<>> /\ root = 0
    /\ verdict = "none"

-----------------------------------------------------------------------------
(* The threads change the graph while no search holds its lock.             *)

Change(edges) == verdict # "searching" /\ graph' = edges /\ verdict' = "none" /\ UNCHANGED locals

AddGraphEdge(from, to) == Change([graph EXCEPT ![from][to] = TRUE])
ClearEdgesFrom(from) == Change([graph EXCEPT ![from] = [j \in Nodes |-> FALSE]])

-----------------------------------------------------------------------------
(* detect_cycle: a search from each node that none before has visited.      *)

Cleared == visited' = {} /\ stack' = {} /\ calls' = <<>> /\ root' = 0

Detect == verdict # "searching" /\ verdict' = "searching" /\ Cleared /\ UNCHANGED graph

\* Every call returns and the locals are gone.
Answer(a) == verdict' = a /\ Cleared /\ UNCHANGED graph

\* dfs_cycle(node) begins.
Visit(node) ==
    /\ visited' = visited \cup {node} /\ stack' = stack \cup {node}
    /\ calls' = Append(calls, [node |-> node, next |-> 0])
    /\ UNCHANGED <<graph, root, verdict>>

BetweenRoots == verdict = "searching" /\ calls = <<>>

VisitRoot == BetweenRoots /\ root \in Nodes \ visited /\ Visit(root)

\* The root is visited by now, from another one or by the search from it that found nothing.
NextRoot ==
    /\ BetweenRoots /\ root \in Nodes \cap visited
    /\ root' = root + 1
    /\ UNCHANGED <<graph, visited, stack, calls, verdict>>

NoCycle == BetweenRoots /\ root = THREAD_COUNT /\ Answer("no")

-----------------------------------------------------------------------------
(* dfs_cycle: the innermost call looks at its successors one by one.        *)

Current == calls[Len(calls)]

\* The next node is a successor, and the call is not at the end of its loop.
AtEdge ==
    /\ verdict = "searching" /\ calls # <<>>
    /\ Current.next \in Nodes /\ Edge(Current.node, Current.next)

Advance ==
    /\ calls' = [calls EXCEPT ![Len(calls)].next = @ + 1]
    /\ UNCHANGED <<graph, visited, stack, root, verdict>>

SkipNoEdge ==
    /\ verdict = "searching" /\ calls # <<>>
    /\ Current.next \in Nodes /\ ~Edge(Current.node, Current.next)
    /\ Advance

Descend == AtEdge /\ Current.next \notin visited /\ Visit(Current.next)

\* Visited before, or by the call just returned from, and not on the path to here.
SkipVisited == AtEdge /\ Current.next \in visited \ stack /\ Advance

MeetPath == AtEdge /\ Current.next \in visited \cap stack /\ Answer("yes")

\* mutant: the node stays on the current path when it is left
ReturnKeepsStack ==
    /\ verdict = "searching" /\ calls # <<>> /\ Current.next = THREAD_COUNT
    /\ calls' = SubSeq(calls, 1, Len(calls) - 1)
    /\ UNCHANGED <<graph, visited, stack, root, verdict>>

\* All successors were looked at: stack[node] = false, return false.
Return ==
    /\ verdict = "searching" /\ calls # <<>> /\ Current.next = THREAD_COUNT
    /\ stack' = stack \ {Current.node}
    /\ calls' = SubSeq(calls, 1, Len(calls) - 1)
    /\ UNCHANGED <<graph, visited, root, verdict>>

SearchStep ==
    \/ VisitRoot \/ NextRoot \/ NoCycle
    \/ SkipNoEdge \/ Descend \/ SkipVisited \/ MeetPath \/ Return

DfsNext ==
    \/ \E from, to \in Nodes : AddGraphEdge(from, to)
    \/ \E from \in Nodes : ClearEdgesFrom(from)
    \/ Detect \/ SearchStep

DfsSpec == DfsInit /\ [][DfsNext]_dfsVars

-----------------------------------------------------------------------------

\* Whatever edges were added and cleared, the depth-first search says "cycle" exactly when
\* some nodes wait for each other in a circle: the visited marks that save it from looking
\* at a node twice never hide a cycle, and the path marks never invent one.
SearchExact ==
    /\ verdict = "yes" => Cyclic(Nodes, Edge)
    /\ verdict = "no" => ~Cyclic(Nodes, Edge)
===============================================================================
