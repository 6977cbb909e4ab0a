----------------------------- MODULE EchoClients -----------------------------
(***************************************************************************)
(* The connections of the echo examples under `socket program', and their  *)
(* three clients: echo_mpclient.c, whose parent reads and whose child      *)
(* writes ("duplex"), echo_client2.c, which counts the bytes of its line   *)
(* ("counting"), and echo_client.c, which reads once ("oneread").  The     *)
(* servers are modules of their own.  The bytes of a client are numbered.  *)
(* TCP is external: a byte stream in each direction.                       *)
(* A client at the end of its input writes its last line again and again   *)
(* (the result of fgets is not looked at), as a user could.                *)
(***************************************************************************)
EXTENDS Naturals, Sequences, SequencesExt, FiniteSetsExt

CONSTANTS Clients,   \* the client processes
          Kind,      \* the program of each
          LineLen,   \* the bytes of a line
          Lines,     \* bound: lines a user types
          ServerBuf, \* BUF_SIZE of the server
          Room       \* what the kernel keeps for a client that does not read

VARIABLES
  client, \* per client: pc, the number of bytes said, the bytes heard
  conn    \* per client: bytes up and down, eof (up is closed), gone (its
          \* socket is), shut (the server's is), lost (a write came too late)

netVars == <<client, conn>>

ClientsInit ==
  /\ client = [c \in Clients |-> [pc |-> "new", said |-> 0, heard |-> <<>>]]
  /\ conn = [c \in Clients |-> [up |-> <<>>, down |-> <<>>, eof |-> FALSE,
                                gone |-> FALSE, shut |-> FALSE, lost |-> FALSE]]

First(s, n) == SubSeq(s, 1, n)
Rest(s, n) == SubSeq(s, n + 1, Len(s))

Connect(c) ==
  /\ client[c].pc = "new"
  /\ client' = [client EXCEPT ![c].pc = "talk"]
  /\ UNCHANGED conn

\* A line is written whole; on a connection the server closed it is lost or
\* ends the writer (SIGPIPE).
Say(c, after) ==
  /\ client[c].said + LineLen <= Lines * LineLen
  /\ client' = [client EXCEPT ![c].said = @ + LineLen, ![c].pc = after]
  /\ conn' = [conn EXCEPT ![c].up =
                IF conn[c].shut THEN @
                ELSE @ \o [i \in 1..LineLen |-> client[c].said + i]]

Hangs(c) == conn' = [conn EXCEPT ![c].eof = TRUE, ![c].gone = TRUE, ![c].down = <<>>]

\* (mutant) close instead of shutdown(SHUT_WR): the reader hears no more.
WriteRoutineCloses(c) ==
  /\ Kind[c] = "duplex" /\ client[c].pc \in {"talk", "deaf"}
  /\ \/ Say(c, client[c].pc)
     \/ Hangs(c) /\ client' = [client EXCEPT ![c].pc = "quit"]

WriteRoutine(c) ==
  /\ Kind[c] = "duplex" /\ client[c].pc \in {"talk", "deaf"}
  /\ \/ Say(c, client[c].pc)
     \/ conn[c].shut /\ Say(c, IF client[c].pc = "deaf" THEN "done" ELSE "quit")
     \/ /\ client' = [client EXCEPT ![c].pc = IF @ = "deaf" THEN "done" ELSE "quit"]
        /\ conn' = [conn EXCEPT ![c].eof = TRUE]

Hears(c, n, after) ==
  /\ client' = [client EXCEPT ![c].heard = @ \o First(conn[c].down, n), ![c].pc = after]
  /\ conn' = [conn EXCEPT ![c].down = Rest(@, n)]

AtEnd(c) == conn[c].down = <<>> /\ conn[c].shut

\* The reader ends when the server has closed; the writer may still be there.
ReadRoutine(c) ==
  /\ Kind[c] = "duplex" /\ client[c].pc \in {"talk", "quit"}
  /\ \/ \E n \in 1..Len(conn[c].down) : Hears(c, n, client[c].pc)
     \/ /\ AtEnd(c)
        /\ client' = [client EXCEPT ![c].pc = IF @ = "quit" THEN "done" ELSE "deaf"]
        /\ conn' = [conn EXCEPT ![c].gone = client[c].pc = "quit"]

Prompt(c) ==
  /\ Kind[c] # "duplex" /\ client[c].pc = "talk"
  /\ \/ Say(c, "wait")
     \/ conn[c].shut /\ Say(c, "done")
     \/ Hangs(c) /\ client' = [client EXCEPT ![c].pc = "done"]

\* A read of nothing is added up for ever; an error ends the client.
CountsBytes(c) ==
  /\ Kind[c] = "counting" /\ client[c].pc = "wait"
  /\ \/ \E n \in 1..Len(conn[c].down) :
          Hears(c, n, IF Len(client[c].heard) + n = client[c].said THEN "talk" ELSE "wait")
     \/ /\ AtEnd(c)
        /\ \/ client' = [client EXCEPT ![c].pc = "spin"] /\ UNCHANGED conn
           \/ client' = [client EXCEPT ![c].pc = "done"] /\ Hangs(c)

ReadsOnce(c) ==
  /\ Kind[c] = "oneread" /\ client[c].pc = "wait"
  /\ \/ \E n \in 1..Min({Len(conn[c].down), LineLen}) : Hears(c, n, "talk")
     \/ AtEnd(c) /\ Hears(c, 0, "talk")

ClientNext(c) == \/ Connect(c) \/ WriteRoutine(c) \/ ReadRoutine(c)
                 \/ Prompt(c) \/ CountsBytes(c) \/ ReadsOnce(c)

ClientReads(c) == ReadRoutine(c) \/ CountsBytes(c) \/ ReadsOnce(c)

(***************************************************************************)
(* What a server does with a connection.                                   *)
(***************************************************************************)
\* One round of the echo loop: a read of at most ServerBuf bytes and a write,
\* which waits for room and is lost when the client is gone.
EchoSizes(c) == {n \in 1..Min({ServerBuf, Len(conn[c].up)}) :
                   conn[c].gone \/ Len(conn[c].down) + n <= Room}

Echo(c, n) ==
  conn' = [conn EXCEPT ![c].up = Rest(@, n),
                       ![c].down = IF conn[c].gone THEN @ ELSE @ \o First(conn[c].up, n),
                       ![c].lost = @ \/ conn[c].gone]

\* A second write to a client that is gone ends the writer.
SigPipe(c) == conn[c].gone /\ conn[c].lost /\ conn[c].up # <<>>

ReadsZero(c) == conn[c].up = <<>> /\ conn[c].eof

\* Every byte is where the stream says: heard, on its way back, held by the
\* server (between), or on its way up.
InOrder(c, between) ==
  LET all == client[c].heard \o conn[c].down \o between \o conn[c].up
  IN  conn[c].gone \/ conn[c].shut \/ all = [i \in 1..client[c].said |-> i]

\* A client hears its own bytes from the first on; the counting client asks
\* for the next line only when it has the whole of the last one, and the
\* duplex client that ends after "q" has heard all, unless refused.
HeardIsSaid(c) ==
  LET h == client[c].heard IN
  /\ h = [i \in 1..Len(h) |-> i]
  /\ Kind[c] = "counting" /\ client[c].pc = "talk" => Len(h) = client[c].said
=============================================================================
