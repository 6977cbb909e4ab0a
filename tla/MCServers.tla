------------------------------ MODULE MCServers ------------------------------
(***************************************************************************)
(* The small programs that serve, share or lock, checked in one run: every *)
(* behaviour is that of one of them, chosen at the start.                  *)
(***************************************************************************)
EXTENDS Naturals, Sequences, FiniteSets

CONSTANTS
  Many, Few,    \* the clients of the forking server, and of the other two
  Counting,     \* those of them that run echo_client2.c; with echo_selectserv.c
  Hasty,        \* those that run echo_client.c; all others run echo_mpclient.c
  Lines,        \* bound: lines a user types
  ForkLine, ForkBuf, ForkRoom,          \* LineLen, ServerBuf and Room of EchoClients
  StoreLine, StoreBuf, StoreRoom, PipeRoom,
  SelectLine, SelectBuf, SelectRoom,
  MaxLines,     \* of ProducerConsumer
  Block, MaxFile \* of FileTransfer

ASSUME ClientsOK == IsFiniteSet(Many) /\ IsFiniteSet(Few)

ASSUME SizesOK ==
  /\ {ForkLine, ForkBuf, ForkRoom, StoreLine, StoreBuf, StoreRoom, PipeRoom,
      SelectLine, SelectBuf, SelectRoom, Block} \subseteq Nat \ {0}
  /\ Lines \in Nat /\ MaxLines \in Nat /\ MaxFile \in Nat

VARIABLES program,
          client, conn, child, sigchld, missed,          \* echo servers
          hold, pipe, file, storer,                      \* echo_storeserv.c
          fd, reads, cpy_reads, fd_max, alive,           \* echo_selectserv.c
          producer, consumer, ptr, sem, typed, printed,  \* producer.c, consumer.c
          test, at, locks, got,                          \* blocking_test.c
          size, pos, fopened, server, recv,              \* file_*.c
          stream, eof, thanks, received

net == <<client, conn>>
forks == <<child, sigchld>>
store == <<hold, pipe, file, storer>>
select == <<fd, reads, cpy_reads, fd_max, alive>>
shared == <<producer, consumer, ptr, sem, typed, printed>>
record == <<test, at, locks, got>>
transfer == <<size, pos, fopened, server, recv, stream, eof, thanks, received>>
vars == <<program, net, forks, missed, store, select, shared, record, transfer>>

Kinds(clients, some, kind) == [x \in clients |-> IF x \in some THEN kind ELSE "duplex"]

F == INSTANCE ForkServer WITH Clients <- Many, Kind <- Kinds(Many, Counting, "counting"),
       LineLen <- ForkLine, ServerBuf <- ForkBuf, Room <- ForkRoom
T == INSTANCE StoreServer WITH Clients <- Few, Kind <- Kinds(Few, Counting, "counting"),
       LineLen <- StoreLine, ServerBuf <- StoreBuf, Room <- StoreRoom
S == INSTANCE SelectServer WITH Clients <- Few, Kind <- Kinds(Few, Hasty, "oneread"),
       LineLen <- SelectLine, ServerBuf <- SelectBuf, Room <- SelectRoom
P == INSTANCE ProducerConsumer
L == INSTANCE RecordLocks
X == INSTANCE FileTransfer

Init ==
  /\ program \in {"fork", "store", "select", "shared", "record", "file"}
  /\ IF program = "fork" THEN F!ForkInit
     ELSE T!ClientsInit /\ missed = 0 /\ child = [x \in Few |-> "none"]
  /\ IF program = "store" THEN T!StoreInit
     ELSE /\ hold = <<>> /\ pipe = <<>> /\ file = <<>> /\ storer = "runs"
          /\ sigchld = FALSE
  /\ fd = [f \in {} |-> f] /\ reads = {S!Serv} /\ cpy_reads = {}
  /\ fd_max = S!Serv /\ alive = TRUE
  /\ program = "select" => S!SelectInit
  /\ P!PCInit /\ L!LocksInit /\ X!FileInit
  /\ program # "file" => size = 0 /\ fopened = {}

Next ==
  /\ UNCHANGED program
  /\ \/ /\ program = "fork" /\ F!ForkNext
        /\ UNCHANGED <<store, select, shared, record, transfer>>
     \/ /\ program = "store" /\ T!StoreNext
        /\ UNCHANGED <<missed, select, shared, record, transfer>>
     \/ /\ program = "select" /\ S!SelectNext
        /\ UNCHANGED <<forks, missed, store, shared, record, transfer>>
     \/ /\ program = "shared" /\ P!PCNext
        /\ UNCHANGED <<net, forks, missed, store, select, record, transfer>>
     \/ /\ program = "record" /\ L!LocksNext
        /\ UNCHANGED <<net, forks, missed, store, select, shared, transfer>>
     \/ /\ program = "file" /\ X!FileNext
        /\ UNCHANGED <<net, forks, missed, store, select, shared, record>>

(***************************************************************************)
(* Fairness: a process goes on when it can, and the accept of the select   *)
(* server does not fail for ever; who types owes nothing.                  *)
(***************************************************************************)
Fairness ==
  /\ \A x \in Many :
       /\ WF_net(program = "fork" /\ F!ClientReads(x))
       /\ WF_<<net, forks>>(program = "fork" /\ (F!ChildEcho(x) \/ F!ChildEnds(x)))
       /\ WF_<<net, forks>>(program = "fork" /\ F!Accept(x))
  /\ WF_forks(program = "fork" /\ F!read_childproc)
  /\ \A x \in Few :
       /\ WF_net(program = "store" /\ T!ClientReads(x))
       /\ WF_<<net, forks, store>>(program = "store"
            /\ (T!StoreEcho(x) \/ T!StorePipe(x) \/ T!StoreChildEnds(x)))
       /\ WF_<<net, forks>>(program = "store" /\ T!StoreAccept(x))
       /\ WF_net(program = "select" /\ S!ClientReads(x))
  /\ WF_store(program = "store" /\ T!Stores)
  /\ WF_<<net, select>>(program = "select" /\ S!SelectStep)
  /\ SF_<<net, select>>(program = "select" /\ S!AcceptOne)
  /\ WF_shared(program = "shared" /\ (P!Wakes \/ P!Prints \/ P!Misled))
  /\ WF_shared(program = "shared" /\ P!Posts)
  /\ \A p \in L!Procs : WF_record(program = "record" /\ (L!try_lock(p) \/ L!Closes(p)))
  /\ WF_record(program = "record" /\ L!run_test)
  /\ WF_transfer(program = "file" /\ X!FileServer)
  /\ WF_transfer(program = "file" /\ X!FileClient)

Spec == Init /\ [][Next]_vars /\ Fairness

\* Whatever the sizes of reads and writes, the order of the clients and the
\* moment one hangs up: what a client hears, what is stored of it and what a
\* file becomes at the other end is what was sent, in order and complete
\* (echo_mpserv.c, echo_storeserv.c, echo_selectserv.c, file_server.c).
EchoesIntact ==
  CASE program = "fork" -> F!ForkEchoes
    [] program = "store" -> T!StoredInOrder
    [] program = "select" -> S!SelectEchoes
    [] program = "file" -> X!FileArrives
    [] OTHER -> TRUE

\* echo_mpserv.c reaps one child per signal: the zombies that stay are those
\* whose signal came while another was pending.
ZombiesAreMissedSignals == program = "fork" => F!ZombiesAreMissedSignals

\* What a program was told and acts on later is still so: the descriptors of
\* a round of echo_selectserv.c, which only a rude client can end; a lock
\* obtained in blocking_test.c; the text behind a post in producer.c.
ToldStaysTrue ==
  CASE program = "select" -> S!RoundStaysTrue /\ S!DiesOnlyOfRudeness
    [] program = "record" -> L!LocksKept
    [] program = "shared" -> P!NewestGetsThrough
    [] OTHER -> TRUE

Asks(x) == x \in DOMAIN client /\ client[x].pc \in {"quit", "wait", "spin"}

\* A child waits to write to a pipe nobody reads, or the one process of the
\* select server to a client that does not read.
Held == \/ program = "store" /\ storer = "failed"
        \/ /\ program = "select"
           /\ \E x \in Few \cap Hasty : client[x].pc = "talk" /\ Len(conn[x].down) = SelectRoom

\* echo_client2.c adds up reads of 0 for ever (lines 54 to 60) when its server
\* closed the connection on it, which a server does whose fork failed.
Deserted(x) == client[x].pc = "spin" /\ child[x] = "refused"

\* Every client that waits for its echo or has said goodbye gets on, but for the
\* one whose server has closed and who never looks for the end; every child ends
\* when its client has, every post is printed unless a torn text has ended the
\* consumer, all four tests of the locks end, and so does the transfer of the
\* file to a client that got a connection.
ServersReturn ==
  /\ \A x \in Few : \* whoever is not among them is like one of them
       /\ Asks(x) ~> ~Asks(x) \/ Held \/ Deserted(x)
       /\ program = "fork" /\ client[x].pc = "done" ~> program = "fork" /\ child[x] # "echo"
  /\ \A x \in Few :
       program = "store" /\ child[x] = "echo" /\ hold[x] # <<>>
         ~> program = "store" /\ (hold[x] = <<>> \/ storer = "failed")
  /\ program = "shared" /\ sem > 0 ~> consumer = "done" \/ (sem = 0 /\ consumer = "wait")
  /\ program = "record" ~> test = 5
  /\ program = "file" ~> program = "file" /\ X!TransferEnds
=============================================================================
