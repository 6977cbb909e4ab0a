--------------------------------- MODULE Xsh ---------------------------------
(***************************************************************************)
(* aisys/xsh.c: a shell with redirections and a table of built-in          *)
(* commands.  Words are strings; "bad" is a file that cannot be opened.    *)
(* parse_command leaves what malloc gave it as it found it.  Without a      *)
(* redirection input_fd and output_fd are no descriptor (-1, as good as    *)
(* any that is not open), 0, what fresh memory holds, or the number of an  *)
(* earlier command, which a file opened now may have got again.  Nothing   *)
(* ends args: behind its words is what the block held before, NULL in      *)
(* fresh memory and pointers into the line's buffer in a block that an     *)
(* earlier built-in command gave back.  The text such a pointer leads to   *)
(* by now is not modelled, only that execvp takes it for a word.           *)
(***************************************************************************)
EXTENDS Integers, Sequences, SequencesExt

CONSTANTS Words,    \* what a user may type
          MaxWords, \* bound: words in a line
          MaxStrays \* bound: programs not waited for

Builtins == <<"exit", "cd", "pwd">>
Redirections == {">", "<"}

VARIABLES shell,  \* "read", "forked", "wait", "done" or "crashed"
          line,   \* the last line typed
          cmd,    \* its Command: name, args, fds, the result of the evaluation, the
                  \* places of args that are not NULL (filled), and whether its
                  \* memory was another one's before (reused)
          freed,  \* the places filled in the block of args freed last; {}: none
          input,  \* standard input is open
          child,  \* "none", "forked", "runs", "ended"
          strays  \* programs the shell did not wait for

vars == <<shell, line, cmd, freed, input, child, strays>>

\* The number a file gets: one for input, another one for output.
Opened(d, name) == IF name = "bad" THEN -1 ELSE IF d = "<" THEN 4 ELSE 5

\* One turn of the loop over args: a redirection opens its file and is taken out of args
\* together with the name, so that i stays, and NULL is written behind the words that are
\* left; an error ends the evaluation.
Turn(s) ==
  LET i == s.i
      file == Opened(s.args[i], s.args[i + 1])
  IN  IF ~s.ok \/ i > Len(s.args) THEN s
      ELSE IF s.args[i] \notin Redirections THEN [s EXCEPT !.i = i + 1]
      ELSE IF i = Len(s.args) THEN [s EXCEPT !.ok = FALSE]
      ELSE IF file = -1 THEN [s EXCEPT !.fds[s.args[i]] = file, !.ok = FALSE]
      ELSE [s EXCEPT !.fds[s.args[i]] = file, !.args = RemoveAt(RemoveAt(@, i), i),
                     !.filled = @ \ {Len(s.args) - 1}]

\* The loop, which has no more turns than there are words.
Redirect(words, garbage, found) ==
  LET after[k \in 0..Len(words)] ==
        IF k = 0 THEN [args |-> words, fds |-> garbage,
                       filled |-> found \cup 1..Len(words), i |-> 1, ok |-> TRUE]
        ELSE Turn(after[k - 1])
  IN  after[Len(words)]

\* The search for the name goes on with the i of the loop before, which ended
\* at arg_count, and so does the index returned.
EvaluateCommand(words, garbage, found) ==
  LET r == Redirect(words, garbage, found)
      at == {k \in 1..Len(Builtins) : Builtins[k] = words[1]}
  IN  [name |-> words[1], args |-> r.args, fds |-> r.fds, ok |-> r.ok,
       filled |-> r.filled, reused |-> found # {},
       index |-> IF ~r.ok \/ at = {} THEN -1
                 ELSE Len(r.args) + (CHOOSE k \in at : TRUE) - 1]

\* The places behind the words of args that execvp goes through before it meets a NULL.
Behind(c) == {p \in c.filled : p > Len(c.args) /\ (Len(c.args) + 1)..p \subseteq c.filled}

\* What input_fd and output_fd may hold. A freed Command's input_fd may be the number that the
\* file for output gets now.
Garbage(found) == {[d \in Redirections |-> g] : g \in {-1, 0}}
                    \cup (IF found = {} THEN {} ELSE {[d \in Redirections |-> IF d = "<" THEN 5 ELSE -1]})

Init == /\ shell = "read" /\ line = <<>> /\ input = TRUE /\ freed = {}
        /\ cmd = EvaluateCommand(<<"">>, [d \in Redirections |-> -1], {})
        /\ child = "none" /\ strays = 0

Ends == /\ shell = "read" /\ shell' = "done"
        /\ UNCHANGED <<line, cmd, freed, input, child, strays>>

\* dup2 and close of 0 onto itself closes the standard input; one file for both is open for
\* writing only.
Redirected(c) == input' = (input /\ c.fds["<"] # 0 /\ c.fds[">"] # 0
                                 /\ ~(c.fds["<"] = 5 /\ c.fds[">"] = 5))

\* The entry of the table is called as (argc, argv): cd then reads a Command
\* at the address argc; entry 3 is null and there are none behind it.
BuiltIn(words, garbage, found) ==
  LET c == EvaluateCommand(words, garbage, found) IN
  /\ c.index # -1
  /\ line' = words /\ cmd' = c
  /\ Redirected(c)
  /\ shell' = CASE c.index = 0 -> "done" [] c.index = 2 -> "read" [] OTHER -> "crashed"
  /\ freed' = c.filled
  /\ UNCHANGED <<child, strays>>

\* After a failed redirection the command is run all the same.  Its memory is not given back.
Program(words, garbage, found) ==
  LET c == EvaluateCommand(words, garbage, found) IN
  /\ c.index = -1
  /\ line' = words /\ cmd' = c
  /\ \/ shell' = "forked" /\ child' = "forked"
     \/ UNCHANGED <<shell, child>>      \* fork failed
  /\ freed' = freed \ found
  /\ UNCHANGED <<input, strays>>

\* malloc gives the block freed last, or a fresh one.
ReadLine == /\ shell = "read" /\ input /\ strays < MaxStrays
            /\ \E n \in 1..MaxWords, found \in {{}, freed} :
                 \E words \in [1..n -> Words], garbage \in Garbage(found) :
                   BuiltIn(words, garbage, found) \/ Program(words, garbage, found)

ChildExecs == /\ child = "forked" /\ child' \in {"runs", "failed"}
              /\ UNCHANGED <<shell, line, cmd, freed, input, strays>>

ChildEnds == /\ child = "runs" /\ child' = "ended"
             /\ UNCHANGED <<shell, line, cmd, freed, input, strays>>

\* setpgid fails on a child that has called execvp, and the shell then goes
\* on without waiting for it.
SetsGroup == /\ shell = "forked"
             /\ IF child \in {"runs", "ended"}
                THEN shell' = "read" /\ strays' = strays + 1 /\ child' = "none"
                ELSE shell' = "wait" /\ UNCHANGED <<strays, child>>
             /\ UNCHANGED <<line, cmd, freed, input>>

Waits == /\ shell = "wait" /\ child \in {"failed", "ended"}
         /\ shell' = "read" /\ child' = "none"
         /\ UNCHANGED <<line, cmd, freed, input, strays>>

Next == Ends \/ ReadLine \/ ChildExecs \/ ChildEnds \/ SetsGroup \/ Waits

Spec == Init /\ [][Next]_vars

\* A line as it should be taken, word by word: every redirection goes with its file, up to one
\* that has no file or cannot open it; from there on all is kept as it was typed.
Understood(words) ==
  LET first[k \in 0..Len(words)] == \* of the first k words
        IF k = 0 THEN [skip |-> FALSE, failed |-> FALSE, kept |-> <<>>]
        ELSE LET before == first[k - 1]
                 redirects == ~before.skip /\ ~before.failed /\ words[k] \in Redirections
                 fails == redirects /\ (k = Len(words) \/ words[k + 1] = "bad")
             IN  [skip |-> redirects /\ ~fails,
                  failed |-> before.failed \/ fails,
                  kept |-> IF before.skip \/ (redirects /\ ~fails) THEN before.kept
                           ELSE Append(before.kept, words[k])]
  IN  first[Len(words)]

\* EvaluateCommand leaves the words of the line without the redirections it has done, in
\* order, also when it has failed at one and the rest is run as it stands; execvp is given
\* other words behind them only where no redirection was taken out, and only in memory that a
\* built-in command has given back.  -1 is returned for every command that is not in the
\* table; whatever was typed, one child at a time is waited for.
WordsKept ==
  /\ line # <<>> => cmd.args = Understood(line).kept /\ cmd.ok = ~Understood(line).failed
  /\ line # <<>> /\ Behind(cmd) # {} => cmd.args = line /\ cmd.reused
  /\ line # <<>> /\ cmd.name \notin {"exit", "cd", "pwd"} => cmd.index = -1
  /\ shell = "read" => child = "none"
=============================================================================
