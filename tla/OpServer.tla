------------------------------- MODULE OpServer -------------------------------
(***************************************************************************)
(* socket program/TCP/opserver.c: a server that reads an expression and      *)
(* answers with what calculate makes of it. The message is read over the    *)
(* one before it and nothing ends it.                                       *)
(***************************************************************************)
EXTENDS Integers, Sequences, SequencesExt, FiniteSetsExt

CONSTANTS Chars,     \* what a message may hold: digits, operators, a space
          Half,      \* an int is in -Half..(Half - 1)
          MaxLength, \* bound: of the messages of a run together
          MaxMessages

Digits == Chars \cap {"0", "1", "2", "3", "9"}
Operators == Chars \cap {"+", "-", "*", "/"}

VARIABLES message, \* the memory up to its first NUL
          asked,   \* the message read last
          longest, \* the length of the longest message so far
          answer,  \* to it
          sent,    \* how many bytes of memory were sent, beginning with its text
          served   \* messages, or -1 when a division has ended the server

\* What an int overflows to.
Wrap(v) == ((v + Half) % (2 * Half)) - Half

Number(d) == CHOOSE v \in 0..9 : ToString(v) = d
\* C division goes towards zero.
Quotient(a, b) == LET q == (IF a < 0 THEN -a ELSE a) \div (IF b < 0 THEN -b ELSE b)
                  IN  IF (a < 0) = (b < 0) THEN q ELSE -q

\* What current_op does with result. ok is lost by the divisions that end the process: by zero,
\* and of the least int by -1; fits, when an int overflows.
Operated(s) ==
    LET Result(v) == [s EXCEPT !.result = Wrap(v), !.fits = @ /\ v = Wrap(v)]
    IN  CASE s.op = "+" -> Result(s.result + s.op1)
          [] s.op = "-" -> Result(s.result - s.op1)
          [] s.op = "*" -> Result(s.result * s.op1)
          [] s.op = "/" -> IF s.op1 = 0 \/ (s.op1 = -1 /\ s.result = -Half)
                           THEN [s EXCEPT !.ok = FALSE]
                           ELSE Result(Quotient(s.result, s.op1))
          [] OTHER -> s

\* One more digit.
Shifted(s, d) == LET v == s.op1 * 10 + Number(d)
                 IN  [s EXCEPT !.op1 = Wrap(v), !.fits = @ /\ v = Wrap(v)]

\* One turn of the loop of calculate. A number is used when the operator behind it comes, or at
\* the last character; "+" and "-" replace the operator before the number first, "*" and "/"
\* do not.
Character(s, c, last) ==
    LET t == IF c \in Digits THEN Shifted(s, c) ELSE s
    IN  IF ~s.ok \/ ~(c \in Operators \/ last) THEN t
        ELSE [Operated([t EXCEPT !.op = IF c \in {"+", "-"} THEN c ELSE @])
                 EXCEPT !.op = c, !.op1 = 0]

Start == [result |-> 0, op1 |-> 0, op |-> "+", ok |-> TRUE, fits |-> TRUE]

Calculate(text) ==
    FoldLeft(LAMBDA s, i : Character(s, text[i], i = Len(text)),
             Start, [i \in 1..Len(text) |-> i])

OpInit ==
    /\ message \in {<<>>, <<"9", "9">>, <<"9", "/", "0">>} \* what the memory held
    /\ asked = <<>> /\ longest = Len(message) /\ answer = 0 /\ sent = 0 /\ served = 0

\* read, calculate, sprintf and write; as many bytes are sent as were read.
Serve(text) ==
    /\ served \in 0..(MaxMessages - 1)
    /\ message' = text \o SubSeq(message, Len(text) + 1, Len(message))
    /\ asked' = text /\ longest' = Max({longest, Len(text)})
    /\ LET s == Calculate(message')
       IN  IF s.ok THEN answer' = s.result /\ sent' = Len(text) /\ served' = served + 1
           ELSE served' = -1 /\ UNCHANGED <<answer, sent>>

\* read returns -1, which is not 0: what is there is calculated again, and a write of (size_t)-1
\* bytes fails.
ReadFails ==
    /\ served \in 0..(MaxMessages - 1)
    /\ served' = IF Calculate(message).ok THEN served ELSE -1
    /\ UNCHANGED <<message, asked, longest, answer, sent>>

OpNext == \/ \E k \in 1..(MaxLength - Len(asked)) : \E text \in [1..k -> Chars] : Serve(text)
          \/ ReadFails

-----------------------------------------------------------------------------
\* Numbers with an operator between each two of them and no spaces.
Expression(text) ==
    /\ text # <<>> /\ text[1] \in Digits /\ Last(text) \in Digits
    /\ \A i \in 1..Len(text) : text[i] \in Digits \cup Operators
    /\ \A i \in 1..(Len(text) - 1) : text[i] \in Operators => text[i + 1] \in Digits
Places(text) == {i \in 1..Len(text) : text[i] \in Operators}

\* Every "+" and "-" comes behind operators like itself only ("+" also behind none).
Steady(text) ==
    \A i \in Places(text) : text[i] \in {"+", "-"} =>
        LET before == {j \in Places(text) : j < i}
        IN  IF before = {} THEN text[i] = "+" ELSE text[Max(before)] = text[i]

\* From left to right, all operators of one rank.
LeftToRight(text) ==
    Operated(FoldLeft(LAMBDA s, c : IF c \in Digits THEN Shifted(s, c)
                                    ELSE [Operated(s) EXCEPT !.op1 = 0, !.op = c],
                      Start, text))

\* A message as long as every one before it, and as what the memory held, is answered with its
\* value from left to right, where no "+" or "-" replaces another operator; and only a division
\* ends the server. Of a message that nothing follows in memory, every answer is sent to its
\* end while no int overflows, though no more bytes are sent than were read.
ServerCalculates ==
    /\ Len(asked) = longest => message = asked
    /\ Expression(asked) /\ Steady(asked) /\ Len(asked) = longest =>
         /\ LeftToRight(asked).ok => served >= 0 /\ answer = LeftToRight(asked).result
         /\ ~LeftToRight(asked).ok => served = -1
    /\ message = asked /\ served > 0 /\ Calculate(message).fits => Len(ToString(answer)) <= sent
    /\ served = -1 => "/" \in Range(message)
===============================================================================
