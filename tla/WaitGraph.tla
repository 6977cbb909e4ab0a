------------------------------ MODULE WaitGraph ------------------------------
(* Circles of waiting, of threads or of the nodes of a graph.               *)

\* Each member of S waits for a member of S.
Closed(S, waits(_, _)) == S # {} /\ \A t \in S : \E u \in S : waits(t, u)

\* With finitely many nodes such a set is there exactly when a cycle is: whoever goes on
\* from one member to the next meets one again.  DfsCycle compares this with the search.
Cyclic(nodes, waits(_, _)) == \E S \in SUBSET nodes : Closed(S, waits)
===============================================================================
