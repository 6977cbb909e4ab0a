----------------------------- MODULE StoreServer -----------------------------
(***************************************************************************)
(* socket program/Pipe/echo/echo_storeserv.c: like the forking server, but *)
(* every child also writes what it echoed to one pipe, from which a        *)
(* process forked at the start (the storer) writes echomsg.txt.  All       *)
(* processes hold both ends of the pipe, the storer too: no read of it     *)
(* ever returns 0, and without a storer a full pipe blocks the children.   *)
(***************************************************************************)
EXTENDS EchoClients

CONSTANT PipeRoom \* what the pipe holds

VARIABLES child, sigchld,
          hold,   \* per child: what it read and has not yet put in the pipe
          pipe,   \* pairs of a client and a byte
          file,   \* echomsg.txt
          storer  \* "runs", or "failed" when the file cannot be opened

storeVars == <<client, conn, child, sigchld, hold, pipe, file, storer>>
servVars == <<child, sigchld, hold, pipe, file, storer>>

StoreInit ==
  /\ ClientsInit
  /\ child = [c \in Clients |-> "none"]
  /\ hold = [c \in Clients |-> <<>>]
  /\ pipe = <<>> /\ file = <<>>
  /\ storer \in {"runs", "failed"}
  /\ sigchld = (storer = "failed")

\* The result of fork is not looked at: without a child the connection is closed.
StoreAccept(c) ==
  /\ client[c].pc # "new" /\ child[c] = "none"
  /\ \/ child' = [child EXCEPT ![c] = "echo"] /\ UNCHANGED conn
     \/ child' = [child EXCEPT ![c] = "refused"] /\ conn' = [conn EXCEPT ![c].shut = TRUE]
  /\ UNCHANGED <<client, sigchld, hold, pipe, file, storer>>

StoreEcho(c) ==
  /\ child[c] = "echo" /\ hold[c] = <<>>
  /\ \E n \in EchoSizes(c) : /\ Echo(c, n)
                             /\ hold' = [hold EXCEPT ![c] = First(conn[c].up, n)]
  /\ UNCHANGED <<client, child, sigchld, pipe, file, storer>>

\* A write of at most PIPE_BUF bytes goes in as a whole.
StorePipe(c) ==
  /\ child[c] = "echo" /\ hold[c] # <<>>
  /\ Len(pipe) + Len(hold[c]) <= PipeRoom
  /\ pipe' = pipe \o [i \in 1..Len(hold[c]) |-> <<c, hold[c][i]>>]
  /\ hold' = [hold EXCEPT ![c] = <<>>]
  /\ UNCHANGED <<client, conn, child, sigchld, file, storer>>

\* A read of whatever children wrote since, up to BUF_SIZE bytes.
Stores ==
  /\ storer = "runs" /\ pipe # <<>>
  /\ LET n == Min({ServerBuf, Len(pipe)})
     IN  file' = file \o First(pipe, n) /\ pipe' = Rest(pipe, n)
  /\ UNCHANGED <<client, conn, child, sigchld, hold, storer>>

StoreChildEnds(c) ==
  /\ child[c] = "echo" /\ hold[c] = <<>> /\ (ReadsZero(c) \/ SigPipe(c))
  /\ child' = [child EXCEPT ![c] = "zombie"]
  /\ conn' = [conn EXCEPT ![c].shut = TRUE]
  /\ sigchld' = TRUE
  /\ UNCHANGED <<client, hold, pipe, file, storer>>

\* One child is reaped, which may be the failed storer.
StoreReaps ==
  /\ sigchld /\ sigchld' = FALSE
  /\ \/ \E z \in Clients : child[z] = "zombie" /\ child' = [child EXCEPT ![z] = "reaped"]
     \/ (storer = "failed" \/ \A c \in Clients : child[c] # "zombie") /\ UNCHANGED child
  /\ UNCHANGED <<client, conn, hold, pipe, file, storer>>

StoreNext == \/ \E c \in Clients : \/ StoreAccept(c) \/ StoreEcho(c)
                                   \/ StorePipe(c) \/ StoreChildEnds(c)
                                   \/ ClientNext(c) /\ UNCHANGED servVars
             \/ Stores \/ StoreReaps

\* What the children put in the pipe is stored by client in the order it was
\* said, whatever chunks of other clients come between: its first m bytes, once
\* each and in order.  The child holds what comes next: nothing is lost, cut or
\* doubled, and everything a client heard is in the file or on its way.
StoredInOrder ==
  \A c \in Clients : \E m \in 0..client[c].said :
    LET kept == file \o pipe
        mine == {i \in DOMAIN kept : kept[i][1] = c}
    IN  /\ {kept[i][2] : i \in mine} = 1..m
        /\ \A i, j \in mine : i < j => kept[i][2] < kept[j][2]
        /\ hold[c] = [i \in 1..Len(hold[c]) |-> m + i]
        /\ Len(client[c].heard) + Len(conn[c].down) <= m + Len(hold[c])
        /\ InOrder(c, <<>>) /\ HeardIsSaid(c)

\* While there is a storer every byte put in the pipe gets into the file;
\* without one the pipe fills and a client waits for an echo for ever.
EverythingStored ==
  \A c \in Clients :
    child[c] = "echo" /\ hold[c] # <<>> ~> hold[c] = <<>> \/ storer = "failed"
=============================================================================
