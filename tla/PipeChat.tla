------------------------------ MODULE PipeChat -------------------------------
(***************************************************************************)
(* aisys/pipe: mini_shell_ai_pipe_sk.c, which writes a line to its helper   *)
(* and reads the answer with one read, and the loop of the helper           *)
(* ai_helper_chat_repl.c (what it says is ChatLog).                         *)
(*                                                                         *)
(* The n-th line typed is the token n, followed by NL if fgets got all of   *)
(* it; the answer to it is some tokens n and End.                           *)
(***************************************************************************)
EXTENDS Naturals, Sequences, SequencesExt, FiniteSetsExt

CONSTANTS MaxLines,  \* bound: lines typed
          MaxAnswer, \* bound: tokens of an answer
          UpRoom,    \* what the pipe to the helper and its stdin hold
          DownRoom,  \* what the pipe to the shell holds
          ReadSize,  \* 1023: one read of the shell
          FgetsSize  \* 4095: one fgets of the helper

VARIABLES shell,  \* "prompt", "write", "read", "closing", "waits", "done", "killed"
          line,   \* buf: what was typed last
          typed,  \* lines typed
          up, down, \* the pipes, up with what lies in the helper's stdin
          helper, \* "starts", "reads", "answers", "ended", "killed"
          rest,   \* what it has yet to print
          \* history
          got,    \* questions it has taken
          shown   \* what the shell has printed

vars == <<shell, line, typed, up, down, helper, rest, got, shown>>

NL == 0
End == 0
Blank == <<NL>>

Init == /\ shell = "prompt" /\ line = <<>> /\ typed = 0 /\ up = <<>> /\ down = <<>>
        /\ helper = "starts" /\ rest = <<>> /\ got = 0 /\ shown = <<>>

Gone == helper \in {"ended", "killed"}

\* A line, an empty one, or one that fgets does not get to the end of.
Types == /\ shell = "prompt" /\ typed < MaxLines
         /\ typed' = typed + 1
         /\ line' \in {<<typed', NL>>, <<typed'>>, Blank}
         /\ shell' = "write"
         /\ UNCHANGED <<up, down, helper, rest, got, shown>>

\* "exit", or the end of the input
Leaves == /\ shell = "prompt" /\ shell' = "closing"
          /\ UNCHANGED <<line, typed, up, down, helper, rest, got, shown>>

\* The line goes into the pipe at once, or waits for room; SIGPIPE is not ignored.
Writes == /\ shell = "write"
          /\ IF Gone THEN shell' = "killed" /\ UNCHANGED up
             ELSE /\ Len(up) + Len(line) <= UpRoom
                  /\ up' = up \o line /\ shell' = "read"
          /\ UNCHANGED <<line, typed, down, helper, rest, got, shown>>

\* One read, of what is there.
Reads == /\ shell = "read"
         /\ \/ /\ down # <<>>
               /\ LET n == Min({Len(down), ReadSize})
                  IN  /\ shown' = shown \o SubSeq(down, 1, n)
                      /\ down' = SubSeq(down, n + 1, Len(down))
               /\ shell' = "prompt"
            \/ /\ down = <<>> /\ Gone
               /\ shell' = "closing" /\ UNCHANGED <<shown, down>>
         /\ UNCHANGED <<line, typed, up, helper, rest, got>>

Closes == /\ shell = "closing" /\ shell' = "waits"
          /\ UNCHANGED <<line, typed, up, down, helper, rest, got, shown>>

Waits == /\ shell = "waits" /\ Gone /\ shell' = "done"
         /\ UNCHANGED <<line, typed, up, down, helper, rest, got, shown>>

\* execl, and the log: any of it may fail
Starts == /\ helper = "starts" /\ helper' \in {"reads", "ended"}
          /\ UNCHANGED <<shell, line, typed, up, down, rest, got, shown>>

NoMoreInput == shell \in {"waits", "killed"}

\* What fgets returns: 0 if it still waits.
FgetsEnd == LET ends == {i \in 1..Len(up) : up[i] = NL}
            IN  IF ends # {} /\ Min(ends) <= FgetsSize THEN Min(ends)
                ELSE IF Len(up) >= FgetsSize THEN FgetsSize
                ELSE IF NoMoreInput THEN Len(up) ELSE 0

\* mutant: after a failed call there is no marker
AnswersWithoutEnd(n) == {[i \in 1..k |-> n] \o <<End>> : k \in 1..MaxAnswer} \cup {<<n>>}

\* The answer or "AI ERROR", and in either case the marker
Answers(n) == {[i \in 1..k |-> n] \o <<End>> : k \in 1..MaxAnswer}

Fgets == /\ helper = "reads" /\ FgetsEnd > 0
         /\ up' = SubSeq(up, FgetsEnd + 1, Len(up))
         /\ IF Head(up) = NL THEN UNCHANGED <<helper, rest, got>>
            ELSE /\ rest' \in Answers(Head(up))
                 /\ helper' = "answers" /\ got' = got + 1
         /\ UNCHANGED <<shell, line, typed, down, shown>>

\* stdout is flushed line by line, and a long line in parts.
Prints == /\ helper = "answers"
          /\ IF rest = <<>> THEN helper' = "reads" /\ UNCHANGED <<down, rest>>
             ELSE IF NoMoreInput THEN helper' = "killed" /\ UNCHANGED <<down, rest>>
             ELSE /\ Len(down) < DownRoom
                  /\ down' = Append(down, Head(rest)) /\ rest' = Tail(rest)
                  /\ UNCHANGED helper
          /\ UNCHANGED <<shell, line, typed, up, got, shown>>

HelperEnds == /\ helper = "reads" /\ up = <<>> /\ NoMoreInput /\ helper' = "ended"
              /\ UNCHANGED <<shell, line, typed, up, down, rest, got, shown>>

ShellStep == Writes \/ Reads \/ Closes \/ Waits
HelperStep == Starts \/ Fgets \/ Prints \/ HelperEnds
Next == Types \/ Leaves \/ ShellStep \/ HelperStep

Spec == Init /\ [][Next]_vars /\ WF_vars(ShellStep) /\ WF_vars(HelperStep)

Ends(s) == Cardinality({i \in 1..Len(s) : s[i] = End})

\* The shell may show an answer in pieces, under later questions, but in order, and every
\* question taken gets one marker, its last token.
MarkersCount ==
  LET all == shown \o down \o rest
  IN  /\ Ends(all) = got
      /\ \A i, j \in 1..Len(all) : i < j /\ all[j] # End => all[i] <= all[j]
      /\ helper = "answers" /\ rest # <<>> => Last(rest) = End
      /\ got > 0 => Last(all) = End

\* Shell and helper wait for each other: the shell for the answer to an empty line or to one
\* without its newline, or both for room in a full pipe.
Starved == /\ shell = "read" /\ down = <<>> /\ helper = "reads"
           /\ line = Blank \/ Last(line) # NL
Jammed == /\ shell = "write" /\ Len(up) + Len(line) > UpRoom
          /\ helper = "answers" /\ Len(down) = DownRoom
=============================================================================
