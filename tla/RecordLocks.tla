----------------------------- MODULE RecordLocks -----------------------------
(***************************************************************************)
(* aisys/blocking_test.c: a parent and its child lock the same file with   *)
(* fcntl, each with or without waiting, in four tests.  Such a lock        *)
(* belongs to a process, is not inherited, and goes when that process      *)
(* closes the file.  sleep promises no order: the child is only likely to  *)
(* be first.                                                               *)
(***************************************************************************)
EXTENDS Naturals, Sequences

Procs == {"child", "parent"}

\* The modes of the four calls of run_test in main.
Tests == <<[child |-> "try", parent |-> "try"], [child |-> "wait", parent |-> "try"],
           [child |-> "try", parent |-> "wait"], [child |-> "wait", parent |-> "wait"]>>

VARIABLES test,  \* the number of the test, 5 when main returns
          at,    \* per process: "off", "lock", "sleep", "gone"; the parent "reap" too
          locks, \* the processes that hold the lock
          got    \* the results of try_lock: "none", "locked", "failed"

lockVars == <<test, at, locks, got>>

LocksInit == /\ test = 1
             /\ at = [p \in Procs |-> "lock"]
             /\ locks = {}
             /\ got = [p \in Procs |-> "none"]

try_lock(p) ==
  /\ test <= Len(Tests) /\ at[p] = "lock"
  /\ \/ /\ locks \ {p} = {}
        /\ locks' = locks \union {p} /\ got' = [got EXCEPT ![p] = "locked"]
     \/ /\ locks \ {p} # {} /\ Tests[test][p] = "try"
        /\ got' = [got EXCEPT ![p] = "failed"] /\ UNCHANGED locks
  /\ at' = [at EXCEPT ![p] = "sleep"]
  /\ UNCHANGED test

\* The child closes the file after its sleep and exits, the parent at once,
\* before it waits for the child.
Closes(p) == /\ at[p] = "sleep"
             /\ at' = [at EXCEPT ![p] = IF p = "child" THEN "gone" ELSE "reap"]
             /\ locks' = locks \ {p}
             /\ UNCHANGED <<test, got>>

\* waitpid, and the next test.
run_test == /\ at["parent"] = "reap" /\ at["child"] = "gone"
            /\ test' = test + 1
            /\ at' = [p \in Procs |-> IF test = Len(Tests) THEN "off" ELSE "lock"]
            /\ got' = [p \in Procs |-> "none"]
            /\ UNCHANGED locks

LocksNext == (\E p \in Procs : try_lock(p) \/ Closes(p)) \/ run_test

\* What a process was told stays true until it closes the file itself: the
\* parent's close and the fork do not take the child's lock away.  At most
\* one holds it, only an attempt that does not wait can fail, not both fail,
\* and no lock is carried into the next test.
LocksKept ==
  /\ \A p \in Procs : at[p] = "sleep" /\ got[p] = "locked" => locks = {p}
  /\ \A p \in Procs : got[p] = "failed" => Tests[test][p] = "try"
  /\ \E p \in Procs : got[p] # "failed"
  /\ \A p \in Procs : at[p] # "sleep" => p \notin locks
=============================================================================
