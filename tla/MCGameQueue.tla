----------------------------- MODULE MCGameQueue -----------------------------
(* Small instances of GameQueue: a list with room for two nodes, or for one *)
(* in the liveness run, so that it fills; attack lines with skipped,        *)
(* ordinary, fatal and NaN damages.                                         *)
EXTENDS GameQueue

CONSTANTS w1, w2

MCWorkers == {w1, w2}
MCLines == {<<2, 0, 3>>, <<1, NaN>>}
MCLivenessLines == {<<2, 3>>}

\* Every attack that enqueue_job accepted is settled in the end, whether the user goes on,
\* leaves or does nothing any more; two commands of two attacks are all there are.
EveryAttackSettles == \A j \in 1..4 : Settles(j)
===============================================================================
