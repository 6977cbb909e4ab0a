-------------------------- MODULE MCDeadlockHunters --------------------------
(* DeadlockHunters with the program's opposite orders and with others: the  *)
(* same order twice, orders with nothing in common, a circle of three.      *)
EXTENDS DeadlockHunters

CONSTANTS t1, t2, t3, a, b, c

MCThreads == {t1, t2, t3}
MCMutexes == {a, b, c}
MCOrders ==
    {[t \in MCThreads |-> CASE t = t1 -> <<a, b>> [] t = t2 -> <<b, a>> [] t = t3 -> <<>>],
     [t \in MCThreads |-> CASE t = t1 -> <<a, b>> [] t = t2 -> <<a, b>> [] t = t3 -> <<c>>],
     [t \in MCThreads |-> CASE t = t1 -> <<a>> [] t = t2 -> <<b>> [] t = t3 -> <<c>>],
     [t \in MCThreads |-> CASE t = t1 -> <<a, b>> [] t = t2 -> <<b, c>> [] t = t3 -> <<c, a>>]}
===============================================================================
