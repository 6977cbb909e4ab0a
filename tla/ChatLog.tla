------------------------------- MODULE ChatLog -------------------------------
(***************************************************************************)
(* The conversation in each of the four helpers: its log, the messages      *)
(* built from it for each call of the model, and the parsing of the answer. *)
(* "socket" (aisys/socket/ai_helper_chat_stream_socket_sk.c) gets the       *)
(* answer in pieces cut anywhere and passes it on to the shell while it     *)
(* comes (SocketChat).  "pipe" (aisys/pipe/ai_helper_chat_repl.c) and "shm" *)
(* (aisys/Assignment5) get it in one JSON object and cut it to the size of  *)
(* response.  "multi" (ai_helper_chat_stream_multiuser_sk.c) streams it     *)
(* like "socket", but makes room in the log by throwing lines away; its     *)
(* poll loop has parts still to be written and is left out.                 *)
(*                                                                         *)
(* A text is a sequence of tokens: words, newlines and the two role tags,   *)
(* each of them one unit of length.                                         *)
(***************************************************************************)
EXTENDS Naturals, Sequences, SequencesExt

CONSTANTS
    NL, User, Assistant,    \* "\n", "USER: ", "ASSISTANT: "
    Words,          \* all other tokens
    Prompts,        \* what the shell asks: not empty, see SocketChat
    Replies,        \* what the model says: the texts of the lines of a stream
    Capacity,       \* 1 MiB: the size of the log
    Reserve,        \* 100: no entry is begun in less
    OutSize,        \* 8192: sizeof(response)
    ContentSize,    \* 4096: sizeof(content)
    Tmp,            \* 4096: sizeof(tmp) in the append_log of "multi"
    Junk            \* what lies in memory behind tmp

Tokens == Words \cup {NL, User, Assistant}
Roles == {User, Assistant}

ASSUME LogConstants ==
    /\ Prompts \subseteq Seq(Tokens) \ {<<>>}
    /\ Replies \subseteq Seq(Seq(Tokens))
    /\ Capacity \in Nat /\ Reserve \in Nat /\ OutSize \in Nat \ {0}
    /\ ContentSize \in Nat \ {0} /\ Tmp \in Nat \ {0}
    /\ Capacity > OutSize + 2 /\ Junk \in Words /\ NL \notin Roles /\ User # Assistant
    /\ \A p \in Prompts : Len(p) + 2 < Capacity

VARIABLES
    helper,     \* which of the four
    log,        \* ai_ctx_map up to ai_ctx_size
    phase,      \* "idle", or "calling" the model
    prompt,     \* what is asked
    messages,   \* what the model is sent
    wire,       \* what it has yet to send
    buf,        \* ctx.buf: the line that is not complete
    out,        \* ctx.out: the answer for the log
    \* history
    streamed,   \* what was passed on to the shell
    got,        \* what has come from the model
    said        \* the entries of the log

vars == <<log, phase, prompt, messages, wire, buf, out, streamed, got, said>>
hvars == <<vars, helper>>

-----------------------------------------------------------------------------
(* The log.                                                                 *)

Entry(role, text) == <<role>> \o text \o <<NL>>

\* mutant: an entry that does not fit is cut
LoggedCut(role, text) ==
    LET room == Capacity - Len(log)
        whole == Entry(role, text)
    IN  IF room < Reserve THEN log
        ELSE log \o SubSeq(whole, 1, IF Len(whole) < room THEN Len(whole) ELSE room - 1)

\* An entry is written whole or not at all.
Fits(role, text) ==
    /\ Capacity - Len(log) >= Reserve
    /\ Len(Entry(role, text)) < Capacity - Len(log)

Logged(role, text) == IF Fits(role, text) THEN log \o Entry(role, text) ELSE log

\* The same for the history.
Noted(role, text) ==
    IF Fits(role, text) THEN Append(said, [role |-> role, text |-> text]) ELSE said

\* The complete lines of s, and the rest behind the last.
Split(s, end) ==
    LET read[k \in 0..Len(s)] == \* the first k
          IF k = 0 THEN [lines |-> <<>>, rest |-> <<>>]
          ELSE LET before == read[k - 1]
               IN  IF s[k] = end
                   THEN [lines |-> Append(before.lines, before.rest), rest |-> <<>>]
                   ELSE [lines |-> before.lines, rest |-> Append(before.rest, s[k])]
    IN  read[Len(s)]

\* A line is a message if it begins with a role and goes on; a long one is cut.
Message(line) ==
    IF Len(line) > 1 /\ Head(line) \in Roles
    THEN LET content == Tail(line)
         IN  <<[role |-> Head(line),
                content |-> IF Len(content) >= ContentSize
                            THEN SubSeq(content, 1, ContentSize - 1) ELSE content]>>
    ELSE <<>>

\* build_messages_json: line by line
Messages(text) ==
    LET lines == Split(text, NL).lines
    IN  FlattenSeq([i \in 1..Len(lines) |-> Message(lines[i])])

-----------------------------------------------------------------------------
(* The stream: a line of JSON for each text, which can be cut in the middle  *)
(* of it and before its newline.                                            *)

Opens(text) == [part |-> "open", text |-> text]
Closes == [part |-> "close", text |-> <<>>]
EndOfLine == [part |-> "newline", text |-> <<>>]

Stream(reply) == FlattenSeq([i \in 1..Len(reply) |-> <<Opens(reply[i]), Closes, EndOfLine>>])

\* cJSON_Parse: the text, if the line is complete
Parsed(line) == IF Len(line) = 2 /\ line[1].part = "open" /\ line[2] = Closes
                THEN <<line[1].text>> ELSE <<>>

\* mutant: the incomplete line at the end is thrown away
LinesForgotten(s) ==
    LET lines == Split(s, EndOfLine).lines
    IN  [rest |-> <<>>, texts |-> FlattenSeq([i \in 1..Len(lines) |-> Parsed(lines[i])])]

\* The texts of the complete lines, and the rest, which is kept.
Lines(s) ==
    LET read == Split(s, EndOfLine)
    IN  [rest |-> read.rest,
         texts |-> FlattenSeq([i \in 1..Len(read.lines) |-> Parsed(read.lines[i])])]

\* Every text that still fits goes to ctx.out.
Kept(soFar, texts) ==
    LET o[k \in 0..Len(texts)] == \* after the first k
          IF k = 0 THEN soFar
          ELSE IF Len(o[k - 1]) + Len(texts[k]) + 1 < OutSize THEN o[k - 1] \o texts[k]
          ELSE o[k - 1]
    IN  o[Len(texts)]

-----------------------------------------------------------------------------
\* A new helper: its log is empty, whatever the file holds.
Init ==
    /\ log = <<>> /\ said = <<>> /\ phase = "idle" /\ prompt = <<>> /\ messages = <<>>
    /\ wire = <<>> /\ buf = <<>> /\ out = <<>> /\ streamed = <<>> /\ got = <<>>

\* mutant: the messages are those of the log as it was
AskedStale(question) ==
    /\ log' = Logged(User, question)
    /\ messages' = Messages(log)

\* The question is logged, and the messages are built from the log.
Asked(question) ==
    /\ log' = Logged(User, question)
    /\ messages' = Messages(log')

\* mutant: response still holds the last answer
ResetNothing == buf' = <<>> /\ out' = out

\* A call begins with nothing.
Reset == buf' = <<>> /\ out' = <<>>

\* A prompt has come: the model is called.
Call ==
    /\ phase = "idle"
    /\ prompt' \in Prompts
    /\ Asked(prompt')
    /\ said' = Noted(User, prompt')
    /\ \E reply \in Replies : wire' = Stream(reply)
    /\ Reset
    /\ streamed' = <<>> /\ got' = <<>>
    /\ phase' = "calling"

\* stream_callback: some of the answer has come.
Piece(n) ==
    LET s == buf \o SubSeq(wire, 1, n)
        texts == Lines(s).texts
    IN  /\ phase = "calling"
        /\ wire' = SubSeq(wire, n + 1, Len(wire))
        /\ got' = got \o SubSeq(wire, 1, n)
        /\ buf' = Lines(s).rest
        /\ streamed' = streamed \o FlattenSeq(texts)
        /\ out' = Kept(out, texts)
        /\ UNCHANGED <<log, phase, prompt, messages, said>>

\* The transfer is over, complete or not.  A last line without a newline counts.  The answer
\* is logged if the call did not fail and there is one; a question without one stays.
CallEnds ==
    LET answer == Kept(out, Parsed(buf))
    IN  /\ phase = "calling"
        /\ streamed' = streamed \o FlattenSeq(Parsed(buf))
        /\ \/ /\ wire = <<>> /\ answer # <<>>
              /\ log' = Logged(Assistant, answer)
              /\ said' = Noted(Assistant, answer)
           \/ UNCHANGED <<log, said>>
        /\ phase' = "idle"
        /\ wire' = <<>> /\ buf' = <<>> /\ out' = answer
        /\ UNCHANGED <<prompt, messages, got>>

\* The helper is killed and started again.
Restart ==
    /\ log' = <<>> /\ said' = <<>> /\ phase' = "idle" /\ prompt' = <<>> /\ messages' = <<>>
    /\ wire' = <<>> /\ buf' = <<>> /\ out' = <<>> /\ streamed' = <<>> /\ got' = <<>>

SocketTurn == helper = "socket" /\ (Call \/ (\E n \in 1..Len(wire) : Piece(n)) \/ CallEnds)
-----------------------------------------------------------------------------
(* "pipe" and "shm": an answer in one piece.                                *)

\* The helper of the pipe skips an empty line, that of the shared memory does
\* not; a prompt is one line.
PlainPrompts == {q \in Prompts : NL \notin Range(q)}
                  \cup (IF helper = "shm" THEN {<<>>} ELSE {})

\* What is left of the answer in response: strncpy
Copied(text) == SubSeq(text, 1, IF Len(text) < OutSize THEN Len(text) ELSE OutSize - 1)

\* ai_chat_with_context up to the call; response keeps the last answer
PlainAsks ==
    /\ phase = "idle"
    /\ prompt' \in PlainPrompts
    /\ Asked(prompt')
    /\ said' = Noted(User, prompt')
    /\ \E reply \in Replies : wire' = <<Opens(FlattenSeq(reply)), Closes>>
    /\ buf' = <<>> /\ streamed' = <<>> /\ got' = <<>>
    /\ phase' = "calling"
    /\ UNCHANGED out

\* Some of the object has come: it is kept until the transfer is over.
write_callback(n) ==
    /\ phase = "calling"
    /\ buf' = buf \o SubSeq(wire, 1, n)
    /\ wire' = SubSeq(wire, n + 1, Len(wire))
    /\ got' = buf'
    /\ UNCHANGED <<log, phase, prompt, messages, out, streamed, said>>

\* response and the log get the same text
Answered(answer) ==
    /\ out' = Copied(answer)
    /\ log' = Logged(Assistant, out')
    /\ said' = Noted(Assistant, out')

\* call_chat_api returns, and with it ai_chat_with_context: the shell is given
\* response, or "AI ERROR", which does not go into the log.
PlainEnds ==
    /\ phase = "calling"
    /\ \/ /\ wire = <<>> /\ Parsed(buf) # <<>>
          /\ Answered(Parsed(buf)[1])
          /\ streamed' = out'
       \/ UNCHANGED <<log, said, out, streamed>>
    /\ phase' = "idle"
    /\ wire' = <<>> /\ buf' = <<>>
    /\ UNCHANGED <<prompt, messages, got>>

\* The loops of the two programs around it
PipeTurn == /\ helper = "pipe"
            /\ PlainAsks \/ (\E n \in 1..Len(wire) : write_callback(n)) \/ PlainEnds
ShmTurn == /\ helper = "shm"
           /\ PlainAsks \/ (\E n \in 1..Len(wire) : write_callback(n)) \/ PlainEnds
-----------------------------------------------------------------------------
(* "multi": a log that always has room.                                     *)

\* What tmp holds, and what is copied from it: len is the length the entry would have, so a
\* long one goes on with the null that ends tmp and whatever lies behind it.
Formatted(role, text) ==
    LET whole == Entry(role, text)
    IN  IF Len(whole) < Tmp THEN {whole}
        ELSE {(SubSeq(whole, 1, Tmp - 1) \o <<Junk>>) \o [i \in 1..(Len(whole) - Tmp) |-> j]
                : j \in {Junk, NL}}

\* The log without as many lines at its front as need tokens ask for.
Trimmed(need) ==
    LET after == {0, Len(log)} \cup {i \in 1..Len(log) : log[i] = NL}
        enough == {i \in after : i = Len(log) \/ Len(log) - i + need < Capacity}
        cut == CHOOSE i \in enough : \A j \in enough : i <= j
    IN  SubSeq(log, cut + 1, Len(log))

\* mutant: the new entry goes in front of what is kept
PutInFront(role, text) ==
    {entry \o Trimmed(Len(entry)) : entry \in Formatted(role, text)}

append_log(role, text) ==
    {Trimmed(Len(entry)) \o entry : entry \in Formatted(role, text)}

build_messages_json(text) == Messages(text)

MultiAsks ==
    /\ phase = "idle"
    /\ prompt' \in Prompts
    /\ log' \in append_log(User, prompt')
    /\ messages' = build_messages_json(log')
    /\ said' = <<[role |-> User, text |-> prompt']>>
    /\ \E reply \in Replies : wire' = Stream(reply)
    /\ Reset
    /\ streamed' = <<>> /\ got' = <<>>
    /\ phase' = "calling"

stream_callback(n) == Piece(n)

\* The end of call_chat_api and of ai_chat_with_context_stream
MultiEnds ==
    LET answer == Kept(out, Parsed(buf))
    IN  /\ phase = "calling"
        /\ streamed' = streamed \o FlattenSeq(Parsed(buf))
        /\ \/ /\ wire = <<>> /\ answer # <<>>
              /\ log' \in append_log(Assistant, answer)
              /\ said' = <<[role |-> Assistant, text |-> answer]>>
           \/ UNCHANGED <<log, said>>
        /\ phase' = "idle"
        /\ wire' = <<>> /\ buf' = <<>> /\ out' = answer
        /\ UNCHANGED <<prompt, messages, got>>

MultiTurn == /\ helper = "multi"
             /\ MultiAsks \/ (\E n \in 1..Len(wire) : stream_callback(n)) \/ MultiEnds
-----------------------------------------------------------------------------
HInit == Init /\ helper \in {"socket", "pipe", "shm", "multi"}

\* A helper that is killed starts with an empty log; so does each client of "multi".
HNext ==
    /\ UNCHANGED helper
    /\ \/ SocketTurn
       \/ PipeTurn
       \/ ShmTurn
       \/ MultiTurn
       \/ Restart

HSpec == HInit /\ [][HNext]_hvars

SocketSpec == HInit /\ helper = "socket" /\ [][HNext]_hvars
-----------------------------------------------------------------------------
(* Properties                                                               *)

\* The texts of the lines of s that are complete, or lack no more than their newline.
TextsOf(s) ==
    LET texts[k \in 0..Len(s)] == \* of the first k parts
          IF k = 0 THEN <<>>
          ELSE IF s[k] = Closes THEN Append(texts[k - 1], s[k - 1].text) ELSE texts[k - 1]
    IN  texts[Len(s)]

\* However the answer is cut into pieces, the shell is given each of its texts once and in
\* order: those that have come, but for the last one if only its newline is missing.
StreamedOnce ==
    LET texts == TextsOf(got)
        all == FlattenSeq(texts)
    IN  IF phase = "idle" \/ got = <<>> \/ Last(got) # Closes
        THEN streamed = all
        ELSE streamed = FlattenSeq(Front(texts))

\* The first line of a text.
FirstLine(text) == LET ends == {i \in 1..Len(text) : text[i] = NL}
                   IN  IF ends = {} THEN text
                       ELSE SubSeq(text, 1, (CHOOSE i \in ends : \A j \in ends : i <= j) - 1)

\* The other lines of a text.
Later(text) == SubSeq(text, Len(FirstLine(text)) + 2, Len(text))

\* The log reads as what was said: each entry gives its first line as a message of its role,
\* whatever was said before it and however full the log is.  Later lines of a text are left
\* out unless they begin like an entry.
LogReadsAsSaid ==
    Messages(log) =
        FlattenSeq([i \in 1..Len(said) |->
            Message(<<said[i].role>> \o FirstLine(said[i].text))
                \o Messages(Later(said[i].text) \o <<NL>>)])

\* The model is asked the question: if it found room in the log, its first line is the last
\* message, unless a later line begins like an entry.
AsksTheQuestion ==
    /\ phase = "calling" /\ said # <<>> /\ Last(said) = [role |-> User, text |-> prompt]
    /\ FirstLine(prompt) # <<>> /\ Roles \cap Range(prompt) = {}
    => messages # <<>> /\ <<Last(messages)>> = Message(<<User>> \o FirstLine(prompt))

\* The answer in the log is the one the shell was given, if response has room for it.
LogsWhatWasShown ==
    [][said' # said /\ said' # <<>> /\ Last(said').role = Assistant =>
          \/ Last(said').text = streamed'
          \/ Len(streamed') + 1 >= OutSize]_vars

\* "If not enough space, trim oldest lines until it fits": the question is in the log when
\* the model is called.
RoomIsMade ==
    phase = "calling" => said # <<>> /\ Last(said) = [role |-> User, text |-> prompt]

\* What a streaming helper passes on does not depend on how it was cut.
StreamsOnce == helper \in {"socket", "multi"} => StreamedOnce

\* The logs nothing is thrown away from read as what was said.
LogsReadAsSaid == helper # "multi" => LogReadsAsSaid

\* The question is the last message of the call, except behind an entry of "multi" that was
\* too long for tmp: the question then goes on in that entry's line.
AsksIt == Junk \notin Range(log) => AsksTheQuestion

\* "multi" always finds room: what was said last stands at the end of its log, and what is in
\* front of it begins with a line; only an entry as long as tmp can be spoilt.  Neither the
\* log nor an answer outgrows its memory, whatever is thrown away and however long the
\* conversation is.
NewestIsKept ==
    /\ Len(log) < Capacity /\ Len(out) < OutSize
    /\ helper = "multi" /\ said # <<>> =>
         LET newest == Entry(Last(said).role, Last(said).text)
             size == IF Len(newest) < Len(log) THEN Len(newest) ELSE Len(log)
             old == SubSeq(log, 1, Len(log) - size)
             new == SubSeq(log, Len(log) - size + 1, Len(log))
         IN  /\ size = Len(newest)
             /\ Len(newest) < Tmp => new = newest
             /\ old = <<>> \/ Last(old) \in {NL, Junk}
===============================================================================
