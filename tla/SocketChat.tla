------------------------------ MODULE SocketChat ------------------------------
(***************************************************************************)
(* aisys/socket: the shell (mini_shell_ai_socket_sk.c) and the helper       *)
(* (ai_helper_chat_stream_socket_sk.c) over one TCP connection.  The helper *)
(* streams an answer and closes it with a marker; the shell prints what has *)
(* come and looks for the marker.  TCP keeps the order of the bytes and     *)
(* nothing else: a read returns any part of what is there.                  *)
(*                                                                         *)
(* A line the user types and a text of the model are members of small sets  *)
(* of byte sequences; the log of the conversation is in ChatLog.            *)
(***************************************************************************)
EXTENDS Naturals, Sequences

CONSTANTS
    Bytes, NL,      \* the characters; the newline is one
    Marker,         \* "<<<END>>>"
    Slack,          \* 64: what the shell keeps back beyond the length of the marker
    ReadSize,       \* 1023: sizeof(buf) - 1
    Capacity,       \* 4096: sizeof(acc)
    Lines,          \* what fgets returns: a line, or a part of a long one
    Answers,        \* what the model says
    ErrorText,      \* "[AI ERROR]"
    Cut,            \* stands in "shown" where a marker was taken out
    MaxQuestions    \* bound: questions per connection

ASSUME TextsOK ==
    /\ NL \in Bytes /\ Cut \notin Bytes
    /\ Marker \in Seq(Bytes) /\ Marker # <<>> /\ ErrorText \in Seq(Bytes)
    /\ Lines \cup Answers \subseteq Seq(Bytes) \ {<<>>}

\* What the shell keeps back while it has not found the marker.
Margin == Len(Marker) + Slack

ASSUME SizesOK ==
    /\ Slack \in Nat /\ ReadSize \in Nat /\ Capacity \in Nat /\ MaxQuestions \in Nat
    /\ Margin + ReadSize < Capacity - 1

VARIABLES
    client,         \* where the shell is
    request,        \* the line it sent last
    acc,            \* received and neither printed nor thrown away
    up, down,       \* the bytes under way to the helper and to the shell
    server,         \* where the helper is
    rest,           \* what the model has not said yet
    \* history
    asked,          \* the questions of this connection
    shown,          \* what the shell printed of the stream
    taken,          \* the same with the markers in it
    sent,           \* what the helper wrote
    plain           \* no answer held a marker and no read split a line

shell == <<client, request, acc, shown, taken, asked>>
helper == <<server, rest, sent, plain>>
vars == <<shell, helper, up, down>>

Prefix(s, n) == SubSeq(s, 1, n)
Drop(s, n) == SubSeq(s, n + 1, Len(s))

\* The places where a marker begins.
Found(s) == {i \in 1..Len(s) : /\ i + Len(Marker) - 1 <= Len(s)
                               /\ SubSeq(s, i, i + Len(Marker) - 1) = Marker}

\* What the texts of the programs have of this: no newline is in the marker; the text of an error
\* neither holds a marker nor ends one begun before it, since no "[" is in one; and fgets ends a
\* line at its first newline, so that only a blank line has nothing else.
ASSUME TextsApart ==
    /\ \A k \in 1..Len(Marker) : Marker[k] # NL
    /\ ErrorText # <<>> /\ Found(ErrorText) = {}
    /\ \A k \in 1..Len(Marker) : Marker[k] # ErrorText[1]
    /\ \A line \in Lines : line = <<NL>> \/ \E k \in 1..Len(line) : line[k] # NL

\* strstr: the bytes before the first one
Before(s) == (CHOOSE i \in Found(s) : \A j \in Found(s) : i <= j) - 1

Gone == client \in {"exited", "killed"}

\* The shell has connected and the helper has accepted.
Init ==
    /\ client = "prompt" /\ server = "reading"
    /\ request = <<>> /\ acc = <<>> /\ up = <<>> /\ down = <<>> /\ rest = <<>>
    /\ asked = 0 /\ shown = <<>> /\ taken = <<>> /\ sent = <<>> /\ plain = TRUE

-----------------------------------------------------------------------------
(* The shell.                                                               *)

\* The shell ends: its memory, its screen and what was on its way to it are gone.  What it
\* sent is still read.
ShellEnds(how) ==
    /\ client' = how
    /\ request' = <<>> /\ acc' = <<>> /\ down' = <<>>
    /\ asked' = 0 /\ shown' = <<>> /\ taken' = <<>> /\ sent' = <<>>
    /\ UNCHANGED <<server, rest, plain>>

\* A line is read and sent.
Ask ==
    /\ client = "prompt"
    /\ asked < MaxQuestions
    /\ request' \in Lines
    /\ asked' = asked + 1
    /\ client' = "reading"
    /\ up' = up \o request'
    /\ UNCHANGED <<acc, down, shown, taken, helper>>

\* The helper is gone, and the write ends the shell (SIGPIPE).
AskInVain ==
    /\ client = "prompt" /\ server = "gone"
    /\ ShellEnds("killed")
    /\ UNCHANGED up

\* "exit", or the end of the input
Leave ==
    /\ client = "prompt"
    /\ ShellEnds("exited")
    /\ UNCHANGED up

\* The user types Ctrl+C.
Kill ==
    /\ ~Gone
    /\ ShellEnds("killed")
    /\ UNCHANGED up

\* How much of s is beyond what is to be kept.
Surplus(s, keep) == IF Len(s) > keep THEN Len(s) - keep ELSE 0

\* What acc would not have room for is printed first.
MakesRoom(n) ==
    IF n + Len(acc) >= Capacity - 1 THEN Surplus(acc, Len(Marker) - 1) ELSE 0

\* No marker: what is beyond the margin cannot be part of one and is printed.
PrintsEarly(s) == Surplus(s, Margin)

\* mutant: the remainder begins a byte late
RemainderLate(s) == Drop(s, Before(s) + Len(Marker) + 1)

\* What follows the marker.
Remainder(s) == Drop(s, Before(s) + Len(Marker))

\* n bytes are read.  If there is a marker now, what is before it is printed and, since this
\* is the end of the loop, what is after it; otherwise what is beyond the margin is.
Receive(n) ==
    LET room == MakesRoom(n)
        s == Drop(acc, room) \o Prefix(down, n)
    IN  /\ client = "reading"
        /\ down' = Drop(down, n)
        /\ IF Found(s) # {}
           THEN /\ shown' = shown \o Prefix(acc, room) \o Prefix(s, Before(s))
                            \o <<Cut>> \o Remainder(s)
                /\ taken' = taken \o Prefix(acc, room) \o Prefix(s, Before(s))
                            \o Marker \o Remainder(s)
                /\ acc' = <<>>
                /\ client' = "prompt"
           ELSE /\ shown' = shown \o Prefix(acc, room) \o Prefix(s, PrintsEarly(s))
                /\ taken' = taken \o Prefix(acc, room) \o Prefix(s, PrintsEarly(s))
                /\ acc' = Drop(s, PrintsEarly(s))
                /\ UNCHANGED client
        /\ UNCHANGED <<request, asked, up, helper>>

\* mutant: the end of the stream is taken for a read of nothing
StreamEndsUnseen ==
    /\ client = "reading" /\ server = "gone" /\ down = <<>>
    /\ UNCHANGED vars

\* The helper is gone: read fails or returns 0, and what is left in acc is printed.
StreamEnds ==
    /\ client = "reading" /\ server = "gone" /\ down = <<>>
    /\ shown' = shown \o acc
    /\ taken' = taken \o acc
    /\ acc' = <<>>
    /\ client' = "prompt"
    /\ UNCHANGED <<request, asked, up, down, helper>>

ShellReads ==
    \/ \E n \in 1..Len(down) : n <= ReadSize /\ Receive(n)
    \/ StreamEnds

-----------------------------------------------------------------------------
(* The helper.                                                              *)

\* The newline at the end is taken off; nothing else is a question.
Blank(prompt) == prompt = <<NL>>

\* A read returns some of the bytes; a blank one is passed over without a word.
ReadPrompt(n) ==
    /\ server = "reading"
    /\ \/ /\ Blank(Prefix(up, n))
          /\ plain' = (plain /\ n = Len(up))
          /\ UNCHANGED <<server, rest>>
       \/ /\ ~Blank(Prefix(up, n))
          /\ rest' \in Answers
          /\ plain' = (plain /\ n = Len(up) /\ Found(rest') = {})
          /\ server' = "answering"
    /\ up' = Drop(up, n)
    /\ UNCHANGED <<shell, down, sent>>

\* write(cfd, ...): to a shell that has gone it is lost, or ends the helper (SIGPIPE).
Write(text, next) ==
    IF Gone
    THEN server' \in {next, "gone"} /\ UNCHANGED <<down, sent>>
    ELSE server' = next /\ down' = down \o text /\ sent' = sent \o text

\* The model says some more, and it is passed on.
StreamChunk(n) ==
    /\ server = "answering"
    /\ Write(Prefix(rest, n), "answering")
    /\ rest' = Drop(rest, n)
    /\ UNCHANGED <<shell, up, plain>>

\* The model has said all it has to say.
AnswerEnds ==
    /\ server = "answering" /\ rest = <<>>
    /\ server' = "ending"
    /\ UNCHANGED <<shell, up, down, rest, sent, plain>>

\* mutant: after an error the next prompt is read
CallFailsAtOnce ==
    /\ server = "answering"
    /\ Write(ErrorText, "reading")
    /\ rest' = <<>>
    /\ UNCHANGED <<shell, up, plain>>

\* mutant: the error has a marker of its own
CallFailsMarked ==
    /\ server = "answering"
    /\ Write(ErrorText \o Marker, "ending")
    /\ rest' = <<>>
    /\ UNCHANGED <<shell, up, plain>>

\* The call fails before or while the model answers, or the model says nothing.
CallFails ==
    /\ server = "answering"
    /\ Write(ErrorText, "ending")
    /\ rest' = <<>>
    /\ UNCHANGED <<shell, up, plain>>

SendMarker ==
    /\ server = "ending"
    /\ Write(<<NL>> \o Marker \o <<NL>>, "reading")
    /\ UNCHANGED <<shell, up, rest, plain>>

\* The helper is killed.
Crash ==
    /\ server # "gone"
    /\ server' = "gone"
    /\ UNCHANGED <<shell, up, down, rest, sent, plain>>

\* read returns nothing, the socket is closed; accept returns the next shell.
NextShell ==
    /\ Gone /\ server = "reading" /\ up = <<>>
    /\ client' = "prompt"
    /\ plain' = TRUE
    /\ UNCHANGED <<request, acc, shown, taken, asked, server, rest, sent, up, down>>

HelperStep ==
    \/ \E n \in 1..Len(up) : ReadPrompt(n)
    \/ \E n \in 1..Len(rest) : StreamChunk(n)
    \/ AnswerEnds \/ CallFails \/ SendMarker

\* Both are gone.
Ended == Gone /\ server = "gone" /\ UNCHANGED vars

Next ==
    \/ Ask \/ AskInVain \/ Leave \/ Kill \/ ShellReads
    \/ HelperStep \/ Crash \/ NextShell
    \/ Ended

Spec == Init /\ [][Next]_vars

\* Both processes run when they can; nobody has to type, to kill or to connect.
FairSpec == Spec /\ WF_vars(ShellReads) /\ WF_vars(HelperStep)

-----------------------------------------------------------------------------
(* Properties                                                               *)

\* The values the variables take.  What the shell keeps back is bounded by the margin, so the
\* 4096 bytes of acc always have room for another read.
TypeOK ==
    /\ client \in {"prompt", "reading", "exited", "killed"}
    /\ server \in {"reading", "answering", "ending", "gone"}
    /\ request \in Seq(Bytes) /\ acc \in Seq(Bytes)
    /\ up \in Seq(Bytes) /\ down \in Seq(Bytes) /\ rest \in Seq(Bytes)
    /\ shown \in Seq(Bytes \cup {Cut}) /\ taken \in Seq(Bytes) /\ sent \in Seq(Bytes)
    /\ asked \in Nat /\ plain \in BOOLEAN
    /\ Len(acc) <= Margin

\* However the stream is split and joined, and whatever is printed early, moved to the front
\* or left over after a marker: the shell loses, repeats and reorders no byte of it.
NothingLost == taken \o acc \o down = sent

\* And what it holds back of the stream always leaves room in acc[4096] for another read.
StreamHeld == NothingLost /\ Len(acc) <= Margin

\* If no answer held the marker and no read split a line, the shell asks for the next line
\* when all of the answer to the last one is on the screen, but for a last newline that is
\* still on its way, and it showed no marker.
InStep ==
    client = "prompt" /\ plain /\ server # "gone" =>
        /\ up = <<>> /\ server = "reading" /\ down \in {<<>>, <<NL>>}
        /\ Found(shown) = {}

\* Each waits for the other.
Stuck == client = "reading" /\ server = "reading" /\ up = <<>> /\ down = <<>>

\* That happens to a blank line only, whatever the answers hold and however reads split the
\* lines: the markers that came too early or too often never leave a later question without
\* one.
StuckOnBlankLine == Stuck => Blank(request)

\* A question is over in the end: answered, or cut short with the helper gone, unless each
\* waits for the other.
QuestionEnds == client = "reading" ~> (client # "reading" \/ Stuck)
===============================================================================
