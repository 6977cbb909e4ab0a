----------------------------- MODULE LinkedLists ------------------------------
(***************************************************************************)
(* Two linked lists as they lie in memory, beside the sequence each of them *)
(* stands for: the doubly linked list of C++/Algorithm/1week (kind          *)
(* "double"; positions are typed), and the list with a dummy head, an       *)
(* optional sort rule and a cursor of C++/Datastruct/Graph (kind "cursor"). *)
(***************************************************************************)
EXTENDS Integers, Sequences, SequencesExt

CONSTANTS Elems,
          MaxNodes   \* bound: nodes allocated, the sentinels included

VARIABLES listKind, rule,      \* rule: SetSortRule was called before the first insertion
          next, prev, elem, allocated, num,
          before, cur,         \* the cursor; pos is the place of cur in the sequence
          list, pos, fresh,    \* fresh: before is just before cur, and cur is not removed
          defined              \* no call has read or written what no node holds

header == 0
trailer == 1
NULL == -1
Wild == -2               \* an address nobody set
Nodes == 0..(MaxNodes - 1)
cursorVars == <<before, cur, pos, fresh>>

ListInit ==
    /\ listKind \in {"double", "cursor"}
    /\ rule \in BOOLEAN /\ (listKind = "double" => ~rule)
    /\ next = [n \in Nodes |-> IF n = header THEN IF listKind = "double" THEN trailer ELSE NULL
                               ELSE Wild]
    /\ prev = [n \in Nodes |-> IF n = trailer THEN header ELSE Wild]
    /\ elem = [n \in Nodes |-> 0]
    /\ allocated = 2 /\ num = 0
    /\ before = Wild /\ cur = Wild
    /\ list = <<>> /\ pos = 0 /\ fresh = FALSE /\ defined = TRUE

-----------------------------------------------------------------------------
(* DoubleLinkedList.c *)

\* select: r times next, from the header on.
Select(r) == LET at[i \in 0..r] == IF i = 0 THEN header ELSE next[at[i - 1]] IN at[r]

\* get, with 0 for a position that it refuses.
Get(r) == IF r > num THEN 0 ELSE elem[Select(r)]

\* Position 0 is not refused: the header has no predecessor to link to.
Add(r, e) ==
    /\ listKind = "double" /\ defined
    /\ r <= num + 1 /\ allocated < MaxNodes
    /\ IF r < 1 THEN defined' = FALSE /\ UNCHANGED <<next, prev, elem, num, list>>
       ELSE LET tmp == Select(r)
            IN  /\ next' = [next EXCEPT ![prev[tmp]] = allocated, ![allocated] = tmp]
                /\ prev' = [prev EXCEPT ![allocated] = prev[tmp], ![tmp] = allocated]
                /\ elem' = [elem EXCEPT ![allocated] = e]
                /\ num' = num + 1
                /\ list' = InsertAt(list, r, e)
                /\ UNCHANGED defined
    /\ allocated' = allocated + 1
    /\ UNCHANGED <<listKind, rule, cursorVars>>

Delete(r) ==
    /\ listKind = "double" /\ defined
    /\ r <= num
    /\ IF r < 1 THEN defined' = FALSE /\ UNCHANGED <<next, prev, num, list>>
       ELSE LET r_node == Select(r)
            IN  /\ next' = [next EXCEPT ![prev[r_node]] = next[r_node]]
                /\ prev' = [prev EXCEPT ![next[r_node]] = prev[r_node]]
                /\ num' = num - 1
                /\ list' = RemoveAt(list, r)
                /\ UNCHANGED defined
    /\ UNCHANGED <<listKind, rule, elem, allocated, cursorVars>>

-----------------------------------------------------------------------------
(* DLinkedList.c *)

\* Behind the node at, and in the sequence at place i, comes a new node. A cursor whose cur
\* follows it moves on in the sequence, and no longer knows the node before it when that is
\* the new one.
InsertBehind(at, i, data) ==
    /\ allocated < MaxNodes
    /\ next' = [next EXCEPT ![at] = allocated, ![allocated] = next[at]]
    /\ elem' = [elem EXCEPT ![allocated] = data]
    /\ allocated' = allocated + 1 /\ num' = num + 1
    /\ list' = InsertAt(list, i, data)
    /\ pos' = IF i <= pos THEN pos + 1 ELSE pos
    /\ fresh' = (fresh /\ i # pos)
    /\ UNCHANGED <<listKind, rule, prev, before, cur, defined>>

FInsert(data) == InsertBehind(header, 1, data)

\* With the rule "smaller first", the node goes before the first larger one.
SInsert(data) ==
    LET place == CHOOSE i \in 1..(Len(list) + 1) :
                   /\ i = Len(list) + 1 \/ elem[Select(i)] > data
                   /\ \A j \in 1..(i - 1) : elem[Select(j)] <= data
    IN  InsertBehind(Select(place - 1), place, data)

LInsert(data) ==
    /\ listKind = "cursor" /\ defined
    /\ IF rule THEN SInsert(data) ELSE FInsert(data)

LFirst ==
    /\ listKind = "cursor" /\ defined
    /\ next[header] # NULL
    /\ before' = header /\ cur' = next[header]
    /\ pos' = 1 /\ fresh' = TRUE
    /\ UNCHANGED <<listKind, rule, next, prev, elem, allocated, num, list, defined>>

LNext ==
    /\ listKind = "cursor" /\ defined
    /\ cur # Wild /\ next[cur] # NULL
    /\ before' = cur /\ cur' = next[cur]
    /\ pos' = pos + 1 /\ fresh' = TRUE
    /\ UNCHANGED <<listKind, rule, next, prev, elem, allocated, num, list, defined>>

\* cur goes and the node before it becomes cur. Without a successful LFirst or LNext just
\* before, before is no longer the node before cur: what lies between is lost, or cur is freed
\* and stays in the list.
LRemove ==
    /\ listKind = "cursor" /\ defined
    /\ cur # Wild /\ num > 0
    /\ IF fresh THEN list' = RemoveAt(list, pos) /\ pos' = pos - 1 /\ UNCHANGED defined
       ELSE defined' = FALSE /\ UNCHANGED <<list, pos>>
    /\ next' = [next EXCEPT ![before] = next[cur]]
    /\ cur' = before
    /\ num' = num - 1 /\ fresh' = FALSE
    /\ UNCHANGED <<listKind, rule, prev, elem, allocated, before>>

ListNext ==
    \/ \E r \in 0..MaxNodes : Delete(r) \/ \E e \in Elems : Add(r, e)
    \/ \E e \in Elems : LInsert(e)
    \/ LFirst \/ LNext \/ LRemove

-----------------------------------------------------------------------------
\* A list in memory is the sequence it stands for, whatever the order of insertions, removals
\* and steps of the cursor: the links lead through it once, forward and (where there are such
\* links) back, the count is its length, a sorted list is sorted and the cursor is where it
\* should be, until a call is made that the list does not refuse and cannot serve.
ListsHold ==
    defined =>
        /\ num = Len(list)
        /\ \A i \in 1..(num + 1) : Get(i) = IF i > Len(list) THEN 0 ELSE list[i]
        /\ next[Select(num)] = IF listKind = "double" THEN trailer ELSE NULL
        /\ listKind = "double" =>
             /\ \A i \in 1..num : prev[Select(i)] = Select(i - 1)
             /\ prev[trailer] = Select(num)
        /\ rule => \A i \in 1..(num - 1) : list[i] <= list[i + 1]
        /\ pos <= num /\ (cur # Wild => cur = Select(pos))
        /\ fresh => before = Select(pos - 1)
===============================================================================
