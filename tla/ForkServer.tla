----------------------------- MODULE ForkServer ------------------------------
(***************************************************************************)
(* socket program/MultiProcess/echo_mpserv.c: a process for each client,   *)
(* and a handler of SIGCHLD that reaps one child each time it runs.        *)
(* A signal that arrives while one is pending is lost.                     *)
(***************************************************************************)
EXTENDS EchoClients

VARIABLES
  child,   \* per client: its process
  sigchld, \* SIGCHLD is pending
  missed   \* history: children that ended while it already was

forkVars == <<client, conn, child, sigchld, missed>>

ForkInit ==
  /\ ClientsInit
  /\ child = [c \in Clients |-> "none"]
  /\ sigchld = FALSE
  /\ missed = 0

Zombies == {c \in Clients : child[c] = "zombie"}

\* accept and fork; when fork fails the connection is closed.
Accept(c) ==
  /\ client[c].pc # "new" /\ child[c] = "none"
  /\ \/ child' = [child EXCEPT ![c] = "echo"] /\ UNCHANGED conn
     \/ child' = [child EXCEPT ![c] = "refused"] /\ conn' = [conn EXCEPT ![c].shut = TRUE]
  /\ UNCHANGED <<client, sigchld, missed>>

ChildEcho(c) ==
  /\ child[c] = "echo"
  /\ \E n \in EchoSizes(c) : Echo(c, n)
  /\ UNCHANGED <<client, child, sigchld, missed>>

\* The child returns from main, or is ended by SIGPIPE.
ChildEnds(c) ==
  /\ child[c] = "echo" /\ (ReadsZero(c) \/ SigPipe(c))
  /\ child' = [child EXCEPT ![c] = "zombie"]
  /\ conn' = [conn EXCEPT ![c].shut = TRUE]
  /\ sigchld' = TRUE
  /\ missed' = missed + (IF sigchld THEN 1 ELSE 0)
  /\ UNCHANGED client

\* (mutant) a handler that reaps nothing.
OnlyPrints == /\ sigchld /\ sigchld' = FALSE
              /\ UNCHANGED <<client, conn, child, missed>>

\* One waitpid(-1, .., WNOHANG); accept then fails with EINTR and is called again.
read_childproc ==
  /\ sigchld /\ sigchld' = FALSE
  /\ \/ Zombies = {} /\ UNCHANGED child
     \/ \E z \in Zombies : child' = [child EXCEPT ![z] = "reaped"]
  /\ UNCHANGED <<client, conn, missed>>

ForkNext == \/ \E c \in Clients : \/ Accept(c) \/ ChildEcho(c) \/ ChildEnds(c)
                                  \/ ClientNext(c) /\ UNCHANGED <<child, sigchld, missed>>
            \/ read_childproc

ForkSpec == ForkInit /\ [][ForkNext]_forkVars

\* The children left as zombies are exactly those whose signal was missed:
\* no run of the handler finds nothing to reap, and none makes up for a
\* signal that was merged with another.
ZombiesAreMissedSignals ==
  Cardinality(Zombies) = missed + (IF sigchld THEN 1 ELSE 0)

\* What comes back is what was said, and all of it when the writer closed
\* its half with shutdown and the reader went on to the end.
ForkEchoes ==
  \A c \in Clients :
    /\ HeardIsSaid(c) /\ InOrder(c, <<>>)
    /\ Kind[c] = "duplex" /\ client[c].pc = "done" /\ child[c] # "refused"
         => Len(client[c].heard) = client[c].said

=============================================================================
