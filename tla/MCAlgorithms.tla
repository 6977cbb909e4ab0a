----------------------------- MODULE MCAlgorithms -----------------------------
(***************************************************************************)
(* The sequential algorithms, checked in one run: every behaviour is that   *)
(* of one of them, chosen at the start, fed with small inputs. DfsCycle,    *)
(* the depth-first search of deadlock_hunters.c, brings its own variables   *)
(* and its own property, SearchExact.                                      *)
(***************************************************************************)
EXTENDS Integers, Sequences, FiniteSets, DfsCycle

VARIABLES algorithm,
          one, two, hazard, pairs,                          \* SJU-CPU
          heapKind, heapArr, numOfData, wildFirst, content, taken,     \* heaps
          balancing, tree, keys, cut,                       \* search trees
          listKind, rule, next, prev, elem, allocated, num, \* lists
          before, cur, list, pos, fresh, defined,
          exp, depth, operand, clean,                       \* calculators
          sorter, mode, limit, A, given, todo, sorting,     \* quicksorts
          vertices, aList, edges, printed, reading,         \* Assignment3-1.c
          fares, nights, m, quoted,                         \* Assignment5.c
          job, array, first, popped, target, idx,           \* scode.c and others
          message, asked, longest, answer, sent, served     \* opserver.c

cpuVars == <<one, two, hazard, pairs>>
heapVars == <<heapKind, heapArr, numOfData, wildFirst, content, taken>>
treeVars == <<balancing, tree, keys, cut>>
listVars == <<listKind, rule, next, prev, elem, allocated, num, before, cur,
              list, pos, fresh, defined>>
expVars == <<exp, depth, operand, clean>>
sortVars == <<sorter, mode, limit, A, given, todo, sorting>>
graphVars == <<vertices, aList, edges, printed, reading>>
airVars == <<fares, nights, m, quoted>>
selectVars == <<job, array, first, popped, target, idx>>
opVars == <<message, asked, longest, answer, sent, served>>
vars == <<algorithm, dfsVars, cpuVars, heapVars, treeVars, listVars, expVars, sortVars,
          graphVars, airVars, selectVars, opVars>>

CpuWords == {901, 902, 103, 203, 302, 303, 500, 602, 700, 803, 0}

\* Mission4.asm, the program the simulators come with.
Mission4Asm == <<320, 901, 807, 520, 299, 902, 0, 320, 299, 716,
                 321, 520, 121, 320, 521, 608, 520, 902, 0>>

C == INSTANCE SjuCpu WITH Programs <- [1..4 -> CpuWords] \cup {Mission4Asm},
                          Inputs <- {<<2>>, <<-2, 3>>}, MaxPairs <- 6
Q == INSTANCE PriorityHeap WITH Priorities <- 1..3, HEAP_LEN <- 7, Slot0 <- {0, 9}
T == INSTANCE SearchTree WITH Keys <- 1..7
L == INSTANCE LinkedLists WITH Elems <- {1, 2}, MaxNodes <- 6
E == INSTANCE Expressions WITH Digits <- {"0", "3", "9"}, MaxTokens <- 7
S == INSTANCE Sorting WITH Arrays <- UNION {[1..n -> 1..3] : n \in 1..4} \cup
                                          {a \in [1..5 -> 1..5] : \A i, j \in 1..5 :
                                                                    a[i] = a[j] => i = j},
                              Limits <- {1, 2},
                              Rows <- UNION {[1..n -> 0..3] : n \in 1..5}, Top <- 3
G == INSTANCE GraphAndFares WITH VertexSize <- 4, MaxEdges <- 3, Places <- 3,
                                 Prices <- {0, 1, 5}, A <- fares, H <- nights, answer <- quoted
O == INSTANCE OpServer WITH Chars <- {"0", "2", "9", "+", "-", "*", "/", " "},
                            Half <- 128, MaxLength <- 5, MaxMessages <- 2

Init ==
    /\ algorithm \in {"dfs", "cpu", "heap", "tree", "list", "expression", "sort",
                     "graph", "airfare", "select", "server"}
    /\ IF algorithm = "dfs" THEN DfsInit
       ELSE /\ graph = <<>> /\ visited = {} /\ stack = {} /\ calls = <<>> /\ root = 0
            /\ verdict = "none"
    /\ IF algorithm = "cpu" THEN C!CpuInit
       ELSE one = <<>> /\ two = <<>> /\ hazard = FALSE /\ pairs = 0
    /\ IF algorithm = "heap" THEN Q!HeapInit
       ELSE /\ heapKind = "" /\ heapArr = <<>> /\ numOfData = 0 /\ wildFirst = FALSE
            /\ content = <<>> /\ taken = TRUE
    /\ IF algorithm = "tree" THEN T!TreeInit
       ELSE balancing = FALSE /\ tree = <<>> /\ keys = {} /\ cut = FALSE
    /\ IF algorithm = "list" THEN L!ListInit
       ELSE /\ listKind = "" /\ rule = FALSE /\ next = <<>> /\ prev = <<>> /\ elem = <<>>
            /\ allocated = 0 /\ num = 0 /\ before = 0 /\ cur = 0
            /\ list = <<>> /\ pos = 0 /\ fresh = FALSE /\ defined = TRUE
    /\ IF algorithm = "expression" THEN E!ExpInit
       ELSE exp = <<>> /\ depth = 0 /\ operand = TRUE /\ clean = TRUE
    /\ IF algorithm = "sort" THEN S!SortInit
       ELSE /\ sorter = "" /\ mode = "" /\ limit = 0 /\ A = <<>> /\ given = <<>>
            /\ todo = <<>> /\ sorting = ""
    /\ IF algorithm = "graph" THEN G!GraphInit
       ELSE vertices = <<>> /\ aList = <<>> /\ edges = <<>> /\ printed = <<>> /\ reading = ""
    /\ IF algorithm = "airfare" THEN G!AirInit
       ELSE fares = <<>> /\ nights = <<>> /\ m = <<>> /\ quoted = <<>>
    /\ IF algorithm = "select" THEN S!SelectInit
       ELSE job = "" /\ array = <<>> /\ first = <<>> /\ popped = 0 /\ target = 0 /\ idx = 0
    /\ IF algorithm = "server" THEN O!OpInit
       ELSE /\ message = <<>> /\ asked = <<>> /\ longest = 0 /\ answer = 0 /\ sent = 0
            /\ served = 0

Next ==
    /\ UNCHANGED algorithm
    /\ \/ /\ algorithm = "dfs" /\ DfsNext
          /\ UNCHANGED <<cpuVars, heapVars, treeVars, listVars, expVars, sortVars,
                         graphVars, airVars, selectVars, opVars>>
       \/ /\ algorithm = "cpu" /\ C!CpuNext
          /\ UNCHANGED <<dfsVars, heapVars, treeVars, listVars, expVars, sortVars,
                         graphVars, airVars, selectVars, opVars>>
       \/ /\ algorithm = "heap" /\ Q!HeapNext
          /\ UNCHANGED <<dfsVars, cpuVars, treeVars, listVars, expVars, sortVars,
                         graphVars, airVars, selectVars, opVars>>
       \/ /\ algorithm = "tree" /\ T!TreeNext
          /\ UNCHANGED <<dfsVars, cpuVars, heapVars, listVars, expVars, sortVars,
                         graphVars, airVars, selectVars, opVars>>
       \/ /\ algorithm = "list" /\ L!ListNext
          /\ UNCHANGED <<dfsVars, cpuVars, heapVars, treeVars, expVars, sortVars,
                         graphVars, airVars, selectVars, opVars>>
       \/ /\ algorithm = "expression" /\ E!ExpNext
          /\ UNCHANGED <<dfsVars, cpuVars, heapVars, treeVars, listVars, sortVars,
                         graphVars, airVars, selectVars, opVars>>
       \/ /\ algorithm = "sort" /\ S!SortNext
          /\ UNCHANGED <<dfsVars, cpuVars, heapVars, treeVars, listVars, expVars,
                         graphVars, airVars, selectVars, opVars>>
       \/ /\ algorithm = "graph" /\ G!GraphNext
          /\ UNCHANGED <<dfsVars, cpuVars, heapVars, treeVars, listVars, expVars,
                         sortVars, airVars, selectVars, opVars>>
       \/ /\ algorithm = "airfare" /\ G!AirNext
          /\ UNCHANGED <<dfsVars, cpuVars, heapVars, treeVars, listVars, expVars,
                         sortVars, graphVars, selectVars, opVars>>
       \/ /\ algorithm = "select" /\ S!SelectNext
          /\ UNCHANGED <<dfsVars, cpuVars, heapVars, treeVars, listVars, expVars,
                         sortVars, graphVars, airVars, opVars>>
       \/ /\ algorithm = "server" /\ O!OpNext
          /\ UNCHANGED <<dfsVars, cpuVars, heapVars, treeVars, listVars, expVars,
                         sortVars, graphVars, airVars, selectVars>>

Spec == Init /\ [][Next]_vars

\* Heaps, trees and lists hold what was put in and not taken out, in the order they promise,
\* unless a call was made that they do not refuse and cannot serve.
StructuresHold == CASE algorithm = "heap" -> Q!HeapRight
                    [] algorithm = "tree" -> T!TreeKeeps
                    [] algorithm = "list" -> L!ListsHold
                    [] OTHER -> TRUE

\* Calculators, sorts, searches and selections, the dynamic programme and the depth-first search
\* give the right result, or fail where they must; two CPUs in step are one CPU, but for
\* branches and stores that come too late.
ResultsRight == CASE algorithm = "expression" -> E!ExpressionsAgree
                  [] algorithm = "cpu" -> C!PairsKeepTheProgram
                  [] algorithm = "sort" -> S!SortsHold
                  [] algorithm = "graph" -> G!GraphRight
                  [] algorithm = "airfare" -> G!FaresAgree
                  [] algorithm = "select" -> S!SelectionsRight
                  [] algorithm = "server" -> O!ServerCalculates
                  [] OTHER -> TRUE
===============================================================================
