----------------------------- MODULE PriorityHeap -----------------------------
(***************************************************************************)
(* The heaps of C++/Datastruct/Heap: SimpleHeap.c, whose elements carry a   *)
(* priority, and UsefulHeap.c, whose user compares the data (HeapSort.c,    *)
(* UsefulHeapMain.c). Here an element is its priority and the smaller one   *)
(* goes first, in both. What the array holds beyond numOfData stays there.  *)
(***************************************************************************)
EXTENDS Naturals, Sequences

CONSTANTS Priorities, HEAP_LEN,
          Slot0      \* what heapArr[0], which nothing ever sets, may hold

VARIABLES heapKind,  \* "simple" or "useful"
          heapArr, numOfData,
          wildFirst, \* what heapArr[0] held at first goes before some priority
          content,   \* how many elements of each priority should be there
          taken      \* the last element HDelete returned, and whether it was a smallest one


GetParentIDX(idx) == idx \div 2
GetLChildIDX(idx) == idx * 2
GetRChildIDX(idx) == GetLChildIDX(idx) + 1

\* mutant: the right child is looked at when it is the stale slot after the last one
GetHiPriChildOfTwo(idx) ==
    IF GetLChildIDX(idx) > numOfData THEN 0
    ELSE IF heapArr[GetLChildIDX(idx)] > heapArr[GetRChildIDX(idx)]
    THEN GetRChildIDX(idx) ELSE GetLChildIDX(idx)

\* The child that goes first, 0 when there is none.
GetHiPriChildIDX(idx) ==
    IF GetLChildIDX(idx) > numOfData THEN 0
    ELSE IF GetLChildIDX(idx) = numOfData THEN GetLChildIDX(idx)
    ELSE IF heapArr[GetLChildIDX(idx)] > heapArr[GetRChildIDX(idx)]
    THEN GetRChildIDX(idx) ELSE GetLChildIDX(idx)

RECURSIVE Rise(_, _, _), Sink(_, _, _, _), SinkAnyway(_, _, _, _)

\* The loop of HInsert: parents come down until data fits at idx.
Rise(arr, idx, data) ==
    IF idx # 1 /\ data < arr[GetParentIDX(idx)]
    THEN Rise([arr EXCEPT ![idx] = arr[GetParentIDX(idx)]], GetParentIDX(idx), data)
    ELSE [arr EXCEPT ![idx] = data]

\* The loop of UsefulHeap's HDelete, at most turns of it: children come up until last fits.
Sink(arr, parentIdx, last, turns) ==
    LET childIdx == GetHiPriChildIDX(parentIdx)
    IN  IF turns = 0 \/ childIdx = 0 \/ last <= arr[childIdx]
        THEN [arr EXCEPT ![parentIdx] = last]
        ELSE Sink([arr EXCEPT ![parentIdx] = arr[childIdx]], childIdx, last, turns - 1)

\* The loop of SimpleHeap's HDelete: where there is no child it compares with slot 0. The
\* bound on the turns cuts the loop it enters when slot 0 goes first.
SinkAnyway(arr, parentIdx, last, turns) ==
    LET childIdx == GetHiPriChildIDX(parentIdx)
    IN  IF turns = 0 \/ last <= arr[childIdx]
        THEN [arr EXCEPT ![parentIdx] = last]
        ELSE SinkAnyway([arr EXCEPT ![parentIdx] = arr[childIdx]], childIdx, last, turns - 1)

HeapInit ==
    /\ heapKind \in {"simple", "useful"}
    /\ \E s \in Slot0 : /\ heapArr = [i \in 0..HEAP_LEN |-> s]
                       /\ wildFirst = (\E p \in Priorities : s < p)
    /\ numOfData = 0
    /\ content = [p \in Priorities |-> 0]
    /\ taken = TRUE

HInsert(data) ==
    /\ numOfData < HEAP_LEN - 1
    /\ heapArr' = Rise(heapArr, numOfData + 1, data)
    /\ numOfData' = numOfData + 1
    /\ content' = [content EXCEPT ![data] = @ + 1]
    /\ UNCHANGED <<heapKind, wildFirst, taken>>

HDelete ==
    /\ numOfData > 0
    /\ LET last == heapArr[numOfData]
           top == heapArr[1]
       IN  /\ heapArr' = IF heapKind = "useful" THEN Sink(heapArr, 1, last, 10)
                         ELSE SinkAnyway(heapArr, 1, last, HEAP_LEN)
           /\ numOfData' = numOfData - 1
           /\ taken' = \A p \in Priorities : content[p] > 0 => top <= p
           /\ content' = IF top \in Priorities /\ content[top] > 0
                         THEN [content EXCEPT ![top] = @ - 1] ELSE content
    /\ UNCHANGED <<heapKind, wildFirst>>

HeapNext == HDelete \/ \E data \in Priorities : HInsert(data)

-----------------------------------------------------------------------------
\* Through any mixture of insertions and deletions, whatever stale elements lie beyond the
\* end, a heap holds exactly what was put in and not taken, every parent goes before its
\* children, and what was taken went first; SimpleHeap only if slot 0, which nothing sets,
\* happened to go last.
HeapRight ==
    \/ heapKind = "simple" /\ wildFirst
    \/ /\ taken
       /\ \A i \in 2..numOfData : heapArr[GetParentIDX(i)] <= heapArr[i]
       /\ \A p \in Priorities : Len(SelectSeq([i \in 1..numOfData |-> heapArr[i]],
                                              LAMBDA e : e = p)) = content[p]
===============================================================================
