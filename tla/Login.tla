-------------------------------- MODULE Login --------------------------------
(***************************************************************************)
(* aisys/mini_login_sk.c: several people at the login at once, over one     *)
(* file of names and hashes.  A hash is the password it was made of; lines *)
(* are shorter than the buffer they are read into.                         *)
(***************************************************************************)
EXTENDS Naturals, Sequences, FiniteSets

CONSTANTS People,     \* processes that run the program
          Names, Passwords,
          Odd,        \* a name with a colon in it, none of Names, and ...
          Before,     \* ... what stands before the colon, one of them
          MaxTyped    \* bound: names typed by all of them

Torn == "torn"       \* a hash that was not written to its end
Spoilt == "spoilt"   \* one with a part of another line in it
NoColon == "nocolon" \* the name in a line that has no colon
Another == "another" \* a name that nobody types

VARIABLES file,     \* mypasswd: a sequence of lines, each with a name and a hash as they are
                    \* read, whether its newline is missing (open), and as history what was
                    \* typed (named, pass) and the length of the file then looked at
          at,       \* where each process is
          name, password,
          login_attempts,
          seen,     \* the hash that getusrent found, or None
          typed,
          looked    \* history: the length of the file at that time

vars == <<file, at, name, password, login_attempts, seen, typed, looked>>

None == ""

Init == /\ file = <<>>
        /\ at = [p \in People |-> "ask"]
        /\ name = [p \in People |-> ""] /\ password = [p \in People |-> ""]
        /\ login_attempts = [p \in People |-> 0]
        /\ seen = [p \in People |-> None]
        /\ typed = 0 /\ looked = [p \in People |-> 0]

\* Line i is the first of the name.
First(i, n) == /\ i \in 1..Len(file) /\ file[i].name = n
               /\ \A j \in 1..(i - 1) : file[j].name # n

\* getusrent: the hash in the first line of the name
getusrent(n) == IF \E i \in 1..Len(file) : file[i].name = n
                THEN file[CHOOSE i \in 1..Len(file) : First(i, n)].hash
                ELSE None

Go(p, there) == at' = [at EXCEPT ![p] = there]

\* What was typed and found is not used again.
Forget(p) == /\ name' = [name EXCEPT ![p] = ""] /\ password' = [password EXCEPT ![p] = ""]
             /\ seen' = [seen EXCEPT ![p] = None] /\ looked' = [looked EXCEPT ![p] = 0]

\* The program ends, and may be run again.
Exits(p) == Go(p, "ask") /\ Forget(p) /\ login_attempts' = [login_attempts EXCEPT ![p] = 0]

\* Both prompts, then the search for the name; the end of the input ends the program.
Asks(p) == /\ at[p] = "ask"
           /\ \/ /\ typed < MaxTyped
                 /\ name' \in {[name EXCEPT ![p] = n] : n \in Names \cup {Odd}}
                 /\ password' \in {[password EXCEPT ![p] = w] : w \in Passwords}
                 /\ typed' = typed + 1
                 /\ seen' = [seen EXCEPT ![p] = getusrent(name'[p])]
                 /\ looked' = [looked EXCEPT ![p] = Len(file)]
                 /\ Go(p, IF seen'[p] = None THEN "save" ELSE "check")
                 /\ UNCHANGED login_attempts
              \/ Exits(p) /\ UNCHANGED typed
           /\ UNCHANGED file

\* The line that p registers, as it is read: it is cut at its first colon.
Line(p) == [name |-> IF name[p] = Odd THEN Before ELSE name[p],
            hash |-> IF name[p] = Odd THEN Spoilt ELSE password[p],
            open |-> FALSE, named |-> name[p], pass |-> password[p], looked |-> looked[p]]

\* A line that nobody looks for, with nothing of what was typed.
Lost(n, open) == [name |-> n, hash |-> Torn, open |-> open, named |-> "", pass |-> "", looked |-> 0]

\* What a write leaves of a line, if anything: all, all but the newline, or less than the hash
\* or the name.
Pieces(line) ==
  LET begun == [line EXCEPT !.open = TRUE]
  IN  {line, begun, [begun EXCEPT !.hash = IF @ = Spoilt THEN @ ELSE Torn], Lost(NoColon, TRUE)}

\* A line without a newline goes on with what is written next: with its hash, or with the name,
\* which then is another one than that of the piece.
Joined(last, piece) ==
  IF last.name # NoColon THEN {[last EXCEPT !.hash = Spoilt, !.open = piece.open]}
  ELSE IF piece.name = NoColon THEN {piece}
  ELSE {Lost(Another, piece.open)} \cup {[piece EXCEPT !.name = n] : n \in Names \ {piece.name}}

\* What one write at the end of the file can do, in part or whole.
Appended(line) ==
  {file} \cup
  (IF file # <<>> /\ file[Len(file)].open
   THEN UNION {{[file EXCEPT ![Len(file)] = joined] : joined \in Joined(file[Len(file)], piece)} :
               piece \in Pieces(line)}
   ELSE {Append(file, piece) : piece \in Pieces(line)})

\* save_user, which may fail in silence, and longjmp: the count starts anew.
save_user(p) == /\ at[p] = "save"
                /\ file' \in Appended(Line(p))
                /\ login_attempts' = [login_attempts EXCEPT ![p] = 0]
                /\ Go(p, "ask") /\ Forget(p)
                /\ UNCHANGED typed

\* crypt with what was found as the salt returns that, something else, or NULL; the right
\* password is followed by the shell, unless that cannot be run.
Checks(p) == /\ at[p] = "check"
             /\ IF password[p] = seen[p]
                THEN \/ Go(p, "shell") /\ UNCHANGED <<name, password, login_attempts, seen, looked>>
                     \/ Exits(p)
                ELSE \/ /\ login_attempts[p] + 1 < 3
                        /\ login_attempts' = [login_attempts EXCEPT ![p] = @ + 1]
                        /\ Go(p, "ask") /\ Forget(p)
                     \/ (login_attempts[p] + 1 >= 3 \/ seen[p] \in {Torn, Spoilt}) /\ Exits(p)
             /\ UNCHANGED <<file, typed>>

Next == \E p \in People : Asks(p) \/ save_user(p) \/ Checks(p)

Spec == Init /\ [][Next]_vars

\* All who get a shell under a name gave the same password, the one typed by whoever wrote the
\* first line of that name, however many registered at once and whatever was left of a write;
\* none has a name with a colon.  A name that a line still shows as it was typed was typed for
\* a second such line only by someone who had looked before the first was there.
OneAccount ==
  /\ \A p \in People : at[p] = "shell" =>
       /\ name[p] # Odd
       /\ \E i \in 1..Len(file) : First(i, name[p]) /\ file[i].pass = password[p]
  /\ \A i, j \in 1..Len(file) :
       i < j /\ file[i].name = file[j].name /\ file[i].name = file[i].named
             /\ file[j].name = file[j].named => file[j].looked < i
=============================================================================
