---------------------------- MODULE SelectServer -----------------------------
(***************************************************************************)
(* socket program/Multiplex/echo_selectserv.c: one process, which asks     *)
(* select for the readable descriptors among `reads' and goes through them *)
(* in order.  The kernel gives a new connection the lowest free number.    *)
(* A timeout of select changes nothing and is a stutter.                   *)
(***************************************************************************)
EXTENDS EchoClients

Serv == 3 \* serv_sock; 0 to 2 are the standard streams

VARIABLES
  fd,        \* which client each open descriptor belongs to
  reads,     \* the set given to select
  cpy_reads, \* what of the answer of select is still to be visited
  fd_max,
  alive      \* the process runs

selectVars == <<client, conn, fd, reads, cpy_reads, fd_max, alive>>
selServVars == <<fd, reads, cpy_reads, fd_max, alive>>

SelectInit ==
  /\ ClientsInit
  /\ fd = [f \in {} |-> f]
  /\ reads = {Serv} /\ cpy_reads = {} /\ fd_max = Serv
  /\ alive = TRUE

Waiting == {c \in Clients : client[c].pc # "new" /\ ~conn[c].shut
                              /\ c \notin {fd[f] : f \in DOMAIN fd}}

Readable(f) == IF f = Serv THEN Waiting # {}
               ELSE f \in DOMAIN fd /\ (conn[fd[f]].up # <<>> \/ conn[fd[f]].eof)

Select ==
  /\ alive /\ cpy_reads = {}
  /\ cpy_reads' = {f \in reads : f <= fd_max /\ Readable(f)}
  /\ cpy_reads' # {}
  /\ UNCHANGED <<client, conn, fd, reads, fd_max, alive>>

\* The for loop visits the descriptors from 0 to fd_max.
Turn(f) == alive /\ f \in cpy_reads /\ \A g \in cpy_reads : f <= g

AcceptOne ==
  /\ Turn(Serv)
  /\ \E c \in Waiting :
       LET new == Min((Serv + 1..Serv + 1 + Cardinality(Clients)) \ DOMAIN fd)
       IN  /\ fd' = [f \in DOMAIN fd \union {new} |-> IF f = new THEN c ELSE fd[f]]
           /\ reads' = reads \union {new}
           /\ fd_max' = Max({fd_max, new})
  /\ cpy_reads' = cpy_reads \ {Serv}
  /\ UNCHANGED <<client, conn, alive>>

\* accept returns -1, which FD_SET takes for a bit that select, with fewer than
\* 60 clients, does not look at: the client goes on waiting for the next round.
AcceptFails == /\ Turn(Serv) /\ cpy_reads' = cpy_reads \ {Serv}
               /\ UNCHANGED <<client, conn, fd, reads, fd_max, alive>>

EchoOne(f) ==
  /\ f # Serv /\ Turn(f)
  /\ \E n \in EchoSizes(fd[f]) : Echo(fd[f], n)
  /\ cpy_reads' = cpy_reads \ {f}
  /\ UNCHANGED <<client, fd, reads, fd_max, alive>>

\* (mutant) the descriptor stays in reads.
CloseWithoutClear(f) ==
  /\ f # Serv /\ Turn(f) /\ ReadsZero(fd[f])
  /\ conn' = [conn EXCEPT ![fd[f]].shut = TRUE]
  /\ fd' = [g \in DOMAIN fd \ {f} |-> fd[g]]
  /\ cpy_reads' = cpy_reads \ {f}
  /\ UNCHANGED <<client, reads, fd_max, alive>>

CloseOne(f) ==
  /\ f # Serv /\ Turn(f) /\ ReadsZero(fd[f])
  /\ conn' = [conn EXCEPT ![fd[f]].shut = TRUE]
  /\ fd' = [g \in DOMAIN fd \ {f} |-> fd[g]]
  /\ reads' = reads \ {f}
  /\ cpy_reads' = cpy_reads \ {f}
  /\ UNCHANGED <<client, fd_max, alive>>

\* SIGPIPE ends the server, and every connection with it.
ServerKilled(f) ==
  /\ f # Serv /\ Turn(f) /\ SigPipe(fd[f])
  /\ alive' = FALSE
  /\ conn' = [c \in Clients |-> IF client[c].pc = "new" THEN conn[c]
                                ELSE [conn[c] EXCEPT !.shut = TRUE]]
  /\ UNCHANGED <<client, fd, reads, cpy_reads, fd_max>>

SelectStep == \/ Select \/ AcceptOne \/ AcceptFails
              \/ \E f \in cpy_reads : EchoOne(f) \/ CloseOne(f) \/ ServerKilled(f)

SelectNext == \/ SelectStep
              \/ \E c \in Clients : (alive \/ client[c].pc # "new")
                                      /\ ClientNext(c) /\ UNCHANGED selServVars

\* The descriptors of a round are still what select said when their turn
\* comes, although others are opened and closed meanwhile: no accept and no
\* read waits, and no number stands for another client than when it was seen.
\* select watches exactly what is open.
RoundStaysTrue ==
  alive => /\ \A f \in cpy_reads : Readable(f)
        /\ reads = {Serv} \union DOMAIN fd
        /\ \A f \in reads : f <= fd_max

\* Only a client that hangs up on bytes still coming back can end the server.
DiesOnlyOfRudeness ==
  ~alive => \E c \in Clients : conn[c].lost /\ Kind[c] = "oneread"

SelectEchoes == \A c \in Clients : HeardIsSaid(c) /\ InOrder(c, <<>>)
=============================================================================
