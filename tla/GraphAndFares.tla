---------------------------- MODULE GraphAndFares -----------------------------
(***************************************************************************)
(* Two exercises of C++/Algorithm/Assignment. Assignment3-1.c: an          *)
(* undirected graph is read edge by edge into a list of vertices and, for  *)
(* each of them, a list of its neighbours kept in order; then it is        *)
(* searched depth first. Assignment5.c: the cheapest journey from s to d   *)
(* with stops in between, where a flight costs by its length and a night   *)
(* at a stop by the place; once by divide and conquer, once by dynamic     *)
(* programming over an array that keeps what it held from call to call.    *)
(***************************************************************************)
EXTENDS Integers, Sequences, SequencesExt, FiniteSetsExt

CONSTANTS VertexSize, \* n
          MaxEdges,   \* bound: m, the edges read
          Places,     \* the last place; the first is 0
          Prices      \* of flights and nights

VARIABLES vertices, \* graph->vertices; <<v, v>> is a vertex that is its own successor
          aList,    \* the neighbours of each vertex, as its list gives them
          edges,    \* the pairs read
          printed,  \* by DFS
          reading,  \* "edges", "hung" or "done"
          A, H,     \* the fares and the nights
          m,        \* the array of airtelDP
          answer    \* of both to the last question

-----------------------------------------------------------------------------
(* Assignment3-1.c *)

Vertex == 1..VertexSize
Looped(list) == Len(list) = 2 /\ list[1] = list[2]

\* AddVertex: no vertex is looked at when the list has only one. Hung, if it walks for ever.
Hangs(list, v) == Looped(list) /\ v # list[1]
AddVertex(list, v) == IF Len(list) >= 2 /\ v \in Range(list) THEN list ELSE Append(list, v)

\* AddEdge: the new edge becomes the first one before the edge looked at, whatever came before
\* that; goes between it and the next one; or goes to the end.
AddEdge(list, target) ==
    LET n == Len(list)
        at == Min({i \in 1..n : i = n \/ list[i] > target \/ list[i + 1] > target})
    IN  IF list = <<>> THEN <<target>>
        ELSE IF list[at] > target THEN <<target>> \o SubSeq(list, at, n)
        ELSE InsertAt(list, at + 1, target)

RECURSIVE DFS(_, _)
\* The vertices printed when start has been searched too.
DFS(start, visited) ==
    FoldLeft(LAMBDA seen, target : IF target \in Range(seen) THEN seen ELSE DFS(target, seen),
             Append(visited, start), aList[start])

GraphInit ==
    /\ vertices = <<>> /\ aList = [v \in Vertex |-> <<>>]
    /\ edges = <<>> /\ printed = <<>> /\ reading = "edges"

\* One turn of the loop of main. A list that is walked for ever is the end.
ReadEdge(vertex1, vertex2) ==
    /\ reading = "edges" /\ Len(edges) < MaxEdges
    /\ LET one == AddVertex(vertices, vertex1)
       IN  IF Hangs(vertices, vertex1) \/ Hangs(one, vertex2)
           THEN reading' = "hung" /\ UNCHANGED <<vertices, aList, edges>>
           ELSE /\ vertices' = AddVertex(one, vertex2)
                /\ LET there == [aList EXCEPT ![vertex1] = AddEdge(@, vertex2)]
                   IN  aList' = [there EXCEPT ![vertex2] = AddEdge(@, vertex1)]
                /\ edges' = Append(edges, <<vertex1, vertex2>>)
                /\ UNCHANGED reading
    /\ UNCHANGED printed

Search(s) ==
    /\ reading = "edges"
    /\ printed' = DFS(s, <<>>) /\ reading' = "done"
    /\ UNCHANGED <<vertices, aList, edges>>

GraphNext == \E v \in Vertex : Search(v) \/ \E w \in Vertex : ReadEdge(v, w)

Joined(v, w) == \E i \in 1..Len(edges) : edges[i] = <<v, w>> \/ edges[i] = <<w, v>>
\* How often w should be found among the neighbours of v.
Ends(v, w) == Cardinality({i \in 1..Len(edges) : edges[i] = <<v, w>>})
                + Cardinality({i \in 1..Len(edges) : edges[i] = <<w, v>>})
Unseen(v, i) == {w \in Vertex : Joined(v, w) /\ \A j \in 1..i : printed[j] # w}

\* No edge is ever lost or out of order in a list of neighbours, so that the search prints a
\* depth-first order: each vertex once; next the smallest new neighbour of the last vertex
\* that has one; and in the end no neighbour is left. Reading only hangs when the first edge
\* joined a vertex to itself and another vertex follows.
GraphRight ==
    /\ \A v \in Vertex :
         /\ \A i \in 1..(Len(aList[v]) - 1) : aList[v][i] <= aList[v][i + 1]
         /\ \A w \in Vertex : Len(SelectSeq(aList[v], LAMBDA u : u = w)) = Ends(v, w)
    /\ reading = "hung" => edges[1][1] = edges[1][2]
    /\ reading = "done" =>
         /\ \A i \in 1..Len(printed) : \A j \in 1..(i - 1) : printed[i] # printed[j]
         /\ \A i \in 1..(Len(printed) - 1) :
              \E last \in 1..i : /\ printed[i + 1] \in Unseen(printed[last], i)
                                 /\ \A w \in Unseen(printed[last], i) : printed[i + 1] <= w
                                 /\ \A k \in (last + 1)..i : Unseen(printed[k], i) = {}
         /\ \A i \in 1..Len(printed) : Unseen(printed[i], Len(printed)) = {}

-----------------------------------------------------------------------------
(* Assignment5.c *)

INT_MAX == 2147483647

\* A stop at k, the first place excepted, costs a night.
Night(s, k) == IF k = s THEN 0 ELSE H[k]

RECURSIVE RAirtelDC(_, _)
RAirtelDC(s, d) ==
    IF d = s THEN 0
    ELSE Min({INT_MAX} \cup {RAirtelDC(s, k) + Night(s, k) + A[d - k] : k \in s..(d - 1)})

\* The inner loop of airtelDP, over the stops before j.
Cheapest(cost, s, j) ==
    Min({INT_MAX} \cup {cost[k] + Night(s, k) + A[j - k] : k \in s..(j - 1)})

\* airtelDP: the array afterwards.
AirtelDP(s, d) ==
    FoldLeft(LAMBDA cost, j : [cost EXCEPT ![j] = Cheapest(cost, s, j)],
             [i \in 0..Places |-> IF i <= s THEN 0 ELSE m[i]],
             [i \in 1..(IF d > s THEN d - s ELSE 0) |-> s + i])

AirInit ==
    /\ A \in [1..Places -> Prices] /\ H \in [1..Places -> Prices]
    /\ m = [i \in 0..Places |-> 0]
    /\ answer = [s |-> 0, d |-> 0, dc |-> 0, dp |-> 0]

AskBoth(s, d) ==
    /\ m' = AirtelDP(s, d)
    /\ answer' = [s |-> s, d |-> d, dc |-> RAirtelDC(s, d), dp |-> m'[d]]
    /\ UNCHANGED <<A, H>>

AirNext == \E s, d \in 0..Places : AskBoth(s, d)

\* What a journey costs that stops at all of these.
Cost(s, stops, d) ==
    LET way == <<s>> \o SetToSortSeq(stops, <) \o <<d>>
        flights == [i \in 1..(Len(way) - 1) |-> A[way[i + 1] - way[i]]]
    IN  FoldLeft(+, 0, flights) + FoldLeft(LAMBDA sum, k : sum + H[k], 0, SetToSortSeq(stops, <))

\* Both give the price of the cheapest set of stops, whatever was asked before and is still in
\* the array. Only backwards they differ, and neither refuses: no journey at all, or a free one.
FaresAgree ==
    IF answer.s > answer.d THEN answer.dc = INT_MAX /\ answer.dp = 0
    ELSE /\ answer.dc = answer.dp
         /\ answer.s < answer.d =>
              answer.dp = Min({Cost(answer.s, stops, answer.d) :
                                 stops \in SUBSET ((answer.s + 1)..(answer.d - 1))})
===============================================================================
