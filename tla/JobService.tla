------------------------------ MODULE JobService ------------------------------
(***************************************************************************)
(* What the boss game of aisys/thread/mini_shell_game_queue.c promises,     *)
(* without threads, locks or lists.  Attacks are accepted while the service *)
(* is open, at most Capacity of them wait, they are taken in the order in   *)
(* which they were accepted, and each one strikes the boss exactly once or, *)
(* when another attack is in progress, is missed.  The service closes only  *)
(* when nothing is left to do.                                              *)
(***************************************************************************)
EXTENDS Naturals, Sequences

CONSTANTS
    Damages,    \* the damages an attack may carry
    Capacity,   \* how many attacks may wait
    MaxHp,      \* the boss' full strength
    NaN         \* the damage and the strength that are not a number

VARIABLES
    status,     \* of each accepted attack: "queued", "taken", "hit" or "missed"
    damage,     \* of each accepted attack
    hp,         \* the boss' strength
    phase       \* "open", "draining" or "closed"

vars == <<status, damage, hp, phase>>

At(where) == {j \in DOMAIN status : status[j] = where}

\* The boss' strength after an attack: one that takes all it has left brings it
\* back at full strength, and nothing can be computed from NaN.
Struck(h, d) ==
    IF h = NaN \/ d = NaN THEN NaN ELSE IF d < h THEN h - d ELSE MaxHp

-----------------------------------------------------------------------------

Init ==
    /\ status = <<>>
    /\ damage = <<>>
    /\ hp = MaxHp
    /\ phase = "open"

\* As attacks are taken in order those that wait are the last ones accepted.
Submit(d) ==
    /\ phase = "open"
    /\ \A j \in At("queued") : Len(status) + 1 - j < Capacity
    /\ status' = Append(status, "queued")
    /\ damage' = Append(damage, d)
    /\ UNCHANGED <<hp, phase>>

Take(j) ==
    /\ j \in At("queued")
    /\ \A i \in At("queued") : j <= i
    /\ status' = [status EXCEPT ![j] = "taken"]
    /\ UNCHANGED <<damage, hp, phase>>

Hit(j) ==
    /\ j \in At("taken")
    /\ status' = [status EXCEPT ![j] = "hit"]
    /\ hp' = Struck(hp, damage[j])
    /\ UNCHANGED <<damage, phase>>

Miss(j) ==
    /\ j \in At("taken")
    /\ At("taken") # {j}
    /\ status' = [status EXCEPT ![j] = "missed"]
    /\ UNCHANGED <<damage, hp, phase>>

Close ==
    /\ phase = "open"
    /\ phase' = "draining"
    /\ UNCHANGED <<status, damage, hp>>

Finish ==
    /\ phase = "draining"
    /\ At("queued") \cup At("taken") = {}
    /\ phase' = "closed"
    /\ UNCHANGED <<status, damage, hp>>

Next ==
    \/ \E d \in Damages : Submit(d)
    \/ \E j \in DOMAIN status : Take(j) \/ Hit(j) \/ Miss(j)
    \/ Close
    \/ Finish

Spec == Init /\ [][Next]_vars

===============================================================================
