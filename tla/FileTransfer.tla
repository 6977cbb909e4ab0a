---------------------------- MODULE FileTransfer -----------------------------
(***************************************************************************)
(* socket program/TCP/file_server.c and file_client.c: a file is sent in   *)
(* blocks, the server closes its half of the connection and waits for a    *)
(* word of thanks on the other.  What nobody looks at may fail: either     *)
(* fopen, connect with all that leads to it, and accept.  Once there is a  *)
(* connection TCP, which is external, loses nothing; a program that uses a *)
(* FILE it did not get is killed.                                          *)
(***************************************************************************)
EXTENDS Naturals, Sequences, FiniteSetsExt

CONSTANTS Block,  \* BUF_SIZE
          MaxFile \* bound: size of the file

VARIABLES size, pos,     \* of the file, and how far it was read
          fopened,       \* whose fopen succeeded
          server, recv,  \* where the two programs are
          stream,        \* bytes under way; eof: the server's half is closed
          eof, thanks, received

fileVars == <<size, pos, fopened, server, recv, stream, eof, thanks, received>>

FileInit == /\ size \in 0..MaxFile /\ pos = 0
            /\ fopened \in SUBSET {"server", "client"}
            /\ server = "accept" /\ recv = "connect"
            /\ stream = <<>> /\ received = <<>>
            /\ eof = FALSE /\ thanks = FALSE

Meet == /\ server = "accept" /\ recv = "connect" /\ server' = "send" /\ recv' = "read"
        /\ UNCHANGED <<size, pos, fopened, stream, eof, thanks, received>>

\* connect fails, and the client reads from what is no connection.
NoConnection == /\ recv = "connect" /\ recv' = "lost"
                /\ UNCHANGED <<size, pos, fopened, server, stream, eof, thanks, received>>

\* With no client every write, shutdown and read fails and the server ends; a
\* client whose connect succeeded is reset, and killed: by the fwrite after its
\* failed read, or as it thanks.
AcceptFails ==
  /\ server = "accept"
  /\ server' = IF "server" \in fopened THEN "done" ELSE "killed"
  /\ recv' \in IF recv = "connect" THEN {"connect", "killed"} ELSE {recv}
  /\ received' \in IF recv' = recv THEN {received} ELSE {<<>>, <<0>>}
  /\ UNCHANGED <<size, pos, fopened, stream, eof, thanks>>

\* A short block, of no bytes when the size is a multiple of Block, is the last.
\* fread from no FILE kills the server, and its half is closed for it; what is
\* written to a client that was killed is lost, or kills the server (SIGPIPE).
SendBlock ==
  LET n == Min({Block, size - pos})
      last == IF n < Block THEN "shut" ELSE "send" IN
  /\ server = "send"
  /\ \/ /\ "server" \in fopened /\ recv # "killed"
        /\ stream' = stream \o [i \in 1..n |-> pos + i]
        /\ pos' = pos + n /\ server' = last /\ UNCHANGED eof
     \/ /\ "server" \in fopened /\ recv = "killed"
        /\ pos' = pos + n /\ server' \in {last, "killed"} /\ UNCHANGED <<stream, eof>>
     \/ /\ "server" \notin fopened
        /\ server' = "killed" /\ eof' = TRUE /\ UNCHANGED <<pos, stream>>
  /\ UNCHANGED <<size, fopened, recv, thanks, received>>

\* (mutant) the server waits for thanks without closing its half.
NoShutdown == /\ server = "shut" /\ server' = "wait"
              /\ UNCHANGED <<size, pos, fopened, recv, stream, eof, thanks, received>>

Shutdown == /\ server = "shut" /\ server' = "wait" /\ eof' = TRUE
            /\ UNCHANGED <<size, pos, fopened, recv, stream, thanks, received>>

\* Without a FILE fwrite kills the client, and fclose after the thanks.
Receive ==
  /\ recv = "read"
  /\ \/ \E n \in 1..Min({Block, Len(stream)}) :
          /\ "client" \in fopened
          /\ received' = received \o SubSeq(stream, 1, n)
          /\ stream' = SubSeq(stream, n + 1, Len(stream))
          /\ UNCHANGED <<recv, thanks>>
     \/ /\ stream # <<>> /\ "client" \notin fopened
        /\ recv' = "killed" /\ stream' = <<>> /\ UNCHANGED <<thanks, received>>
     \/ /\ stream = <<>> /\ eof /\ thanks' = TRUE
        /\ recv' = IF "client" \in fopened THEN "done" ELSE "killed"
        /\ UNCHANGED <<stream, received>>
  /\ UNCHANGED <<size, pos, fopened, server, eof>>

\* read returns -1, which is not 0: fwrite is given (size_t)-1 bytes of buf.  It
\* may write what lies there and come back, for ever, or kill the client.
ReadFails ==
  /\ recv = "lost"
  /\ IF "client" \in fopened
     THEN recv' \in {"lost", "killed"} /\ received' \in {received, <<0>>}
     ELSE recv' = "killed" /\ UNCHANGED received
  /\ UNCHANGED <<size, pos, fopened, server, stream, eof, thanks>>

\* The only read of the server: it returns when thanks come, or no more can.
ServerEnds == /\ server = "wait" /\ (thanks \/ recv = "killed") /\ server' = "done"
              /\ UNCHANGED <<size, pos, fopened, recv, stream, eof, thanks, received>>

FileServer == Meet \/ AcceptFails \/ SendBlock \/ Shutdown \/ ServerEnds

FileClient == NoConnection \/ Receive \/ ReadFails

FileNext == FileServer \/ FileClient

\* What a client with a connection has received is the file so far, and all of
\* it when it has thanked a server that had the file.
FileArrives ==
  /\ recv \notin {"lost", "killed"} => received \o stream = [i \in 1..pos |-> i]
  /\ recv = "done" /\ "server" \in fopened => Len(received) = size

\* The transfer ends, unless the client got no connection: it may then write
\* what is no file for ever, and the server wait for another.
TransferEnds ==
  \/ recv = "lost"
  \/ recv \in {"done", "killed"} /\ server \in {"done", "killed", "accept"}
=============================================================================
