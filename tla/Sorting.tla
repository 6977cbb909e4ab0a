------------------------------- MODULE Sorting --------------------------------
(***************************************************************************)
(* Exercises on an array.                                                  *)
(* Quicksort, three times: Datastruct/Sorting/QuickSort.c ("first": the     *)
(* first element is the pivot), and C++/Algorithm/Assignment/Assignment2.c  *)
(* and d.c, which choose the pivot in one of four ways, two of them by      *)
(* chance, stop at short intervals and finish with an insertion sort.       *)
(* C++/Algorithm/Assignment/scode.c finds the k-th smallest element on a    *)
(* heap with holes ("select"); Datastruct/Sorting/MergeSort.c sorts         *)
(* ("merge"); and Datastruct/Searching/InterpolSearch.c looks for a target  *)
(* in a sorted array ("search").                                           *)
(***************************************************************************)
EXTENDS Integers, Sequences, SequencesExt

CONSTANTS Arrays, Limits, \* of the quicksorts: what they sort, and when they stop
          Rows,           \* the arrays of the others
          Top             \* the largest number in a row; buildList puts it in array[0]

VARIABLES sorter,   \* "first", "Assignment2" or "d"
          mode, limit,
          A, given, \* the array, and as it was at first; its indexes begin with 1
          todo,     \* the recursive calls to come, the next one first
          sorting,  \* "calls", "hung" or "done"
          job,      \* "select", "merge" or "search"
          array,    \* indexes begin with 1, as in scode.c
          first,    \* the array as it was given
          popped,   \* "select": elements popped, -1 before the heap is built
          target, idx   \* "search": what is looked for, and where it was found

-----------------------------------------------------------------------------
(* Quicksort                                                                *)

modes == {"deterministic1", "randomized1", "deterministic3", "randomized3"}

Swap(arr, i, j) == [arr EXCEPT ![i] = arr[j], ![j] = arr[i]]

FindIndexOfMedianOfThree(a, b, c) ==
    CASE (A[a] >= A[b] /\ A[a] <= A[c]) \/ (A[a] <= A[b] /\ A[a] >= A[c]) -> a
      [] (A[b] >= A[a] /\ A[b] <= A[c]) \/ (A[b] <= A[a] /\ A[b] >= A[c]) -> b
      [] OTHER -> c

\* The pivots findPivot may return for l..r.
FindPivot(l, r) ==
    CASE mode = "deterministic1" -> {r}
      [] mode = "randomized1" -> l..r
      [] mode = "deterministic3" -> {FindIndexOfMedianOfThree(l, (l + r) \div 2, r)}
      [] mode = "randomized3" ->
           {FindIndexOfMedianOfThree(a, b, c) : a \in l..r, b \in l..r, c \in l..r}

\* x may stay left of the pivot p.
StaysLeft(x, p) == IF sorter = "d" THEN x < p ELSE x <= p

RECURSIVE Meet(_, _, _, _), FirstMeet(_, _, _, _, _)

\* The loop of inPlacePartition: i and j go on over what is in place, and swap what is not,
\* until they have passed each other; the array, and i.
Meet(arr, i, j, p) ==
    IF i > j THEN <<arr, i>>
    ELSE IF StaysLeft(arr[i], p) THEN Meet(arr, i + 1, j, p)
    ELSE IF ~StaysLeft(arr[j], p) THEN Meet(arr, i, j - 1, p)
    ELSE Meet(Swap(arr, i, j), i, j, p)

InPlacePartition(l, r, k) ==
    LET parked == Swap(A, k, r)
        met == Meet(parked, l, r - 1, A[k])
    IN  <<Swap(met[1], met[2], r), met[2]>>

\* Partition of QuickSort.c. low may run past right and, at the end of the array, past the
\* array: it only ends further on. turns counts exchanges: two elements like the pivot are
\* exchanged for ever.
FirstMeet(arr, low, high, p, turns) ==
    IF turns = 0 THEN <<arr, 0>>
    ELSE IF low > high THEN <<arr, high>>
    ELSE IF arr[low] < p THEN FirstMeet(arr, low + 1, high, p, turns)
    ELSE IF arr[high] > p THEN FirstMeet(arr, low, high - 1, p, turns)
    ELSE FirstMeet(Swap(arr, low, high), low, high, p, turns - 1)

Partition(left, right) ==
    LET met == FirstMeet(A, left + 1, right, A[left], Len(A) + 1)
    IN  IF met[2] = 0 THEN met ELSE <<Swap(met[1], met[2], left), met[2]>>

RECURSIVE Sunk(_, _)
\* insertionSort: the element at j sinks as long as the one before it is larger.
Sunk(arr, j) == IF j > 1 /\ arr[j - 1] > arr[j] THEN Sunk(Swap(arr, j, j - 1), j - 1) ELSE arr
InsertionSort(arr) == FoldLeft(Sunk, arr, [i \in 1..Len(arr) |-> i])

SortInit ==
    /\ sorter \in {"first", "Assignment2", "d"}
    /\ mode \in (IF sorter = "first" THEN {"deterministic1"} ELSE modes)
    /\ limit \in (IF sorter = "first" THEN {0} ELSE Limits)
    /\ given \in Arrays /\ A = given
    /\ todo = <<<<1, Len(A)>>>> /\ sorting = "calls"

\* The call for l..r returns at once: the interval is too short.
ReturnShort ==
    /\ sorting = "calls" /\ todo # <<>>
    /\ todo[1][2] - todo[1][1] < limit
    /\ todo' = Tail(todo)
    /\ UNCHANGED <<sorter, mode, limit, A, given, sorting>>

RQuickSort ==
    /\ sorting = "calls" /\ todo # <<>>
    /\ todo[1][2] - todo[1][1] >= limit
    /\ \E k \in FindPivot(todo[1][1], todo[1][2]) :
         LET l == todo[1][1]
             r == todo[1][2]
             cutAt == IF sorter = "first" THEN Partition(l, r) ELSE InPlacePartition(l, r, k)
             a == cutAt[2]
         IN  /\ A' = cutAt[1]
             /\ IF a = 0 THEN sorting' = "hung" /\ UNCHANGED todo
                ELSE /\ todo' = <<<<l, a - 1>>, <<a + 1, r>>>> \o Tail(todo)
                     /\ UNCHANGED sorting
    /\ UNCHANGED <<sorter, mode, limit, given>>

Finish ==
    /\ sorting = "calls" /\ todo = <<>>
    /\ A' = IF limit > 1 THEN InsertionSort(A) ELSE A
    /\ sorting' = "done"
    /\ UNCHANGED <<sorter, mode, limit, given, todo>>

SortNext == ReturnShort \/ RQuickSort \/ Finish

-----------------------------------------------------------------------------
Times(arr, v) == Len(SelectSeq(arr, LAMBDA x : x = v))
Equals == \E i, j \in 1..Len(given) : i < j /\ given[i] = given[j]

\* Whatever pivots chance picks, the array stays a permutation of what it was; while calls are
\* to come, what is left of each of their intervals goes before it and what is right of it
\* after; in the end the array is sorted. Only QuickSort.c may hang, and only over equal
\* elements.
SortsHold ==
    /\ \A i \in 1..Len(A) : Times(A, A[i]) = Times(given, A[i])
    /\ sorting = "calls" =>
         \A c \in 1..Len(todo) : \A i \in todo[c][1]..todo[c][2] :
             /\ \A j \in 1..(todo[c][1] - 1) : A[j] <= A[i]
             /\ \A j \in (todo[c][2] + 1)..Len(A) : A[i] <= A[j]
    /\ sorting = "done" => \A i \in 1..(Len(A) - 1) : A[i] <= A[i + 1]
    /\ sorting = "hung" => sorter = "first" /\ Equals

-----------------------------------------------------------------------------
n == Len(array)
Missing == -1
Crash == -2

-----------------------------------------------------------------------------
(* scode.c *)

RECURSIVE DownHeap(_, _), RBuildHeap(_, _), ListHeap(_, _)

DownHeap(arr, i) ==
    LET smaller == IF n >= 2 * i + 1 /\ arr[2 * i + 1] < arr[2 * i] THEN 2 * i + 1 ELSE 2 * i
    IN  IF n < 2 * i \/ arr[i] <= arr[smaller] THEN arr
        ELSE DownHeap(Swap(arr, i, smaller), smaller)

\* Both subtrees first, then the root.
RBuildHeap(arr, i) ==
    IF i > n THEN arr ELSE DownHeap(RBuildHeap(RBuildHeap(arr, 2 * i), 2 * i + 1), i)

\* The hole at index is filled by the smaller child, down to a leaf, which gets a number larger
\* than all. What lies behind the array does not decide: it is read, but then n = 2 * index.
ListHeap(arr, index) ==
    IF n < 2 * index THEN [arr EXCEPT ![index] = Top + 1]
    ELSE IF n = 2 * index \/ arr[2 * index] < arr[2 * index + 1]
    THEN ListHeap([arr EXCEPT ![index] = arr[2 * index]], 2 * index)
    ELSE ListHeap([arr EXCEPT ![index] = arr[2 * index + 1]], 2 * index + 1)

BuildHeap ==
    /\ job = "select" /\ popped = -1
    /\ array' = RBuildHeap(array, 1) /\ popped' = 0
    /\ UNCHANGED <<job, first, target, idx>>

\* One turn of the loop of popheap.
PopHeap ==
    /\ job = "select" /\ popped \in 0..(n - 2)
    /\ array' = ListHeap(array, 1) /\ popped' = popped + 1
    /\ UNCHANGED <<job, first, target, idx>>

-----------------------------------------------------------------------------
(* MergeSort.c *)

RECURSIVE Merged(_, _), MergeSort(_)

\* MergeTwoArea
Merged(f, r) ==
    IF f = <<>> THEN r
    ELSE IF r = <<>> THEN f
    ELSE IF f[1] <= r[1] THEN <<f[1]>> \o Merged(Tail(f), r) ELSE <<r[1]>> \o Merged(f, Tail(r))

\* The halves of left..right part at (left + right) / 2.
MergeSort(arr) ==
    IF Len(arr) < 2 THEN arr
    ELSE LET mid == (Len(arr) + 1) \div 2
         IN  Merged(MergeSort(SubSeq(arr, 1, mid)), MergeSort(SubSeq(arr, mid + 1, Len(arr))))

Merge ==
    /\ job = "merge" /\ popped = -1
    /\ array' = MergeSort(array) /\ popped' = 0
    /\ UNCHANGED <<job, first, target, idx>>

-----------------------------------------------------------------------------
(* InterpolSearch.c *)

RECURSIVE ISearch(_, _, _)

\* The place is calculated with doubles: a quotient that is a whole number, but for those of the
\* two ends, may come out just below it and be cut to one less.
Places(from, last, t) ==
    LET d == array[last] - array[from]
        exact == (t - array[from]) * (last - from)
    IN  {from + exact \div d} \cup
        (IF exact % d = 0 /\ array[from] < t /\ t < array[last] THEN {from + (exact \div d) - 1} ELSE {})

\* The indexes it may return. Between equal ends the place is 0/0, which is no index.
ISearch(from, last, t) ==
    IF array[from] > t \/ array[last] < t THEN {Missing}
    ELSE IF array[from] = array[last] THEN {Crash}
    ELSE UNION {IF array[mid] = t THEN {mid}
                ELSE IF array[mid] > t THEN ISearch(from, mid - 1, t)
                ELSE ISearch(mid + 1, last, t) : mid \in Places(from, last, t)}

LookFor(t) ==
    /\ job = "search" /\ idx = 0
    /\ \A i \in 1..(n - 1) : array[i] <= array[i + 1]
    /\ target' = t /\ idx' \in ISearch(1, n, t)
    /\ UNCHANGED <<job, array, first, popped>>

-----------------------------------------------------------------------------
SelectInit ==
    /\ job \in {"select", "merge", "search"}
    /\ array \in Rows /\ first = array
    /\ popped = -1 /\ target = 0 /\ idx = 0

SelectNext == BuildHeap \/ PopHeap \/ Merge \/ \E t \in 0..(Top + 1) : LookFor(t)

-----------------------------------------------------------------------------
Sorted == SortSeq(first, <)
Strictly == \A i \in 1..(n - 1) : array[i] < array[i + 1]

\* After k - 1 pops the root is the k-th smallest element: the heap keeps its order, the holes
\* included, and holds the elements not yet popped. A merge sort gives the sorted array. The
\* search finds a target exactly when it is there; it fails only between equal ends, and in
\* an array without equal elements only when that array has but one.
SelectionsRight ==
    /\ job = "select" /\ popped >= 0 =>
         /\ array[1] = Sorted[popped + 1]
         /\ \A i \in 2..n : array[i \div 2] <= array[i]
         /\ \A v \in 0..Top : Times(array, v) = Times(SubSeq(Sorted, popped + 1, n), v)
    /\ job = "merge" /\ popped = 0 => array = Sorted
    /\ job = "search" /\ idx # 0 =>
         /\ idx = Missing <=> target \notin Range(array)
         /\ idx > 0 => array[idx] = target
         /\ idx = Crash /\ Strictly => n = 1
===============================================================================
