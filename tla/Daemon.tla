-------------------------------- MODULE Daemon --------------------------------
(***************************************************************************)
(* aisys/daemon/daemon_sys_summary_ai.c: a process that forks twice to      *)
(* leave its terminal and then writes a summary of the system to its log    *)
(* again and again. A SIGHUP may reach any of the three processes at any    *)
(* time; the model is external.                                            *)
(***************************************************************************)
EXTENDS Naturals, FiniteSets

CONSTANT MaxRounds \* bound: summaries written

Processes == {"starter", "leader", "daemon"}

VARIABLES at,      \* where each process is; "none", "gone" (exited) or "killed"
          session, \* the session of each: "terminal" or "own"
          ignores, \* who ignores SIGHUP
          fds,     \* what descriptors 0, 1 and 2 of the daemon are
          entries, \* complete entries of the log
          rounds

daemonVars == <<at, session, ignores, fds, entries, rounds>>

DaemonInit ==
    /\ at = [p \in Processes |-> IF p = "starter" THEN "fork" ELSE "none"]
    /\ session = [p \in Processes |-> "terminal"]
    /\ ignores = {} /\ fds = "inherited" /\ entries = 0 /\ rounds = 0

\* fork: the child has its parent's session and what it ignores. A failed one ends the parent.
Forks(parent, child, there) ==
    /\ at[parent] = "fork"
    /\ \/ /\ at' = [at EXCEPT ![parent] = "exit", ![child] = there]
          /\ session' = [session EXCEPT ![child] = session[parent]]
          /\ ignores' = IF parent \in ignores THEN ignores \cup {child} ELSE ignores
       \/ at' = [at EXCEPT ![parent] = "gone"] /\ UNCHANGED <<session, ignores>>
    /\ UNCHANGED <<fds, entries, rounds>>

Exits(p) ==
    /\ at[p] = "exit" /\ at' = [at EXCEPT ![p] = "gone"]
    /\ UNCHANGED <<session, ignores, fds, entries, rounds>>

SetSid ==
    /\ at["leader"] = "setsid"
    /\ session' = [session EXCEPT !["leader"] = "own"]
    /\ at' = [at EXCEPT !["leader"] = "sigaction"]
    /\ UNCHANGED <<ignores, fds, entries, rounds>>

IgnoresHup ==
    /\ at["leader"] = "sigaction"
    /\ ignores' = ignores \cup {"leader"}
    /\ at' = [at EXCEPT !["leader"] = "fork"]
    /\ UNCHANGED <<session, fds, entries, rounds>>

\* chdir may fail; all descriptors are closed and the first three opened again.
Settles ==
    /\ at["daemon"] = "chdir"
    /\ \/ at' = [at EXCEPT !["daemon"] = "loop"] /\ fds' = "null"
       \/ at' = [at EXCEPT !["daemon"] = "gone"] /\ UNCHANGED fds
    /\ UNCHANGED <<session, ignores, entries, rounds>>

\* sysinfo and fopen; without them it only sleeps.
Opens ==
    /\ at["daemon"] = "loop" /\ rounds < MaxRounds
    /\ rounds' = rounds + 1
    /\ at' \in {[at EXCEPT !["daemon"] = "loop"], [at EXCEPT !["daemon"] = "asks"]}
    /\ UNCHANGED <<session, ignores, fds, entries>>

\* get_ai_summary returns, with a summary or without, and the entry is written.
Writes ==
    /\ at["daemon"] = "asks"
    /\ entries' = entries + 1
    /\ at' = [at EXCEPT !["daemon"] = "loop"]
    /\ UNCHANGED <<session, ignores, fds, rounds>>

Hup(p) ==
    /\ at[p] \notin {"none", "gone", "killed"} /\ p \notin ignores
    /\ at' = [at EXCEPT ![p] = "killed"]
    /\ UNCHANGED <<session, ignores, fds, entries, rounds>>

DaemonSteps ==
    \/ Forks("starter", "leader", "setsid") \/ Forks("leader", "daemon", "chdir")
    \/ Exits("starter") \/ Exits("leader")
    \/ SetSid \/ IgnoresHup \/ Settles \/ Opens \/ Writes
DaemonNext == DaemonSteps \/ \E p \in Processes : Hup(p)

-----------------------------------------------------------------------------
\* The daemon is of no terminal's session and no SIGHUP ends it, whichever of the three ends
\* first; where it writes its log, nothing of the terminal is open; and there is one daemon
\* only behind a leader that has left its session.
DaemonStays ==
    /\ at["daemon"] # "killed"
    /\ at["daemon"] # "none" => session["daemon"] = "own" /\ session["leader"] = "own"
    /\ at["daemon"] \in {"loop", "asks"} => fds = "null"
    /\ entries <= rounds
===============================================================================
