-------------------------------- MODULE SjuCpu --------------------------------
(***************************************************************************)
(* The SJU-CPU simulators of C++/ComputerArchitecture/Mission4: one CPU     *)
(* (Mission4-2.c), and two CPUs that share memory, AC and PC and take the   *)
(* instructions in pairs (Mission4-3.c). Both run the same program on the   *)
(* same input, a pair against two single cycles.                            *)
(***************************************************************************)
EXTENDS Integers, Sequences, TLC

CONSTANTS Programs,  \* the instruction words of a file, one sequence per file
          Inputs,    \* what the user types at the 901s
          MaxPairs   \* bound: pairs executed

VARIABLES one,       \* the machine of Mission4-2.c
          two,       \* the machine of Mission4-3.c
          hazard,    \* some pair was not the two next instructions of one CPU
          pairs


(***************************************************************************)
(* A machine: mem (what is not in its domain is 0), ac, pc, ir of each CPU, *)
(* the input not read and the output written.                              *)
(***************************************************************************)
Word(m, a) == IF a \in DOMAIN m.mem THEN m.mem[a] ELSE 0

MemorySize == 100

\* The file is read line by line to Memory[0], Memory[1], ... A newline at its very end is one
\* more turn of that loop, in which fgets returns NULL, and atoi kills both simulators before
\* they begin: Programs are the files that end without one, as Mission4.asm does.
Loaded(program, input) ==
    [mem |-> [a \in 0..(Len(program) - 1) |-> program[a + 1]], ac |-> 0, pc |-> 0,
     ir |-> <<0, 0>>, in |-> input, out |-> <<>>, halted |-> FALSE]

Fetch(c, m) == [m EXCEPT !.ir[c] = Word(m, m.pc), !.pc = @ + 1]

Add(m, a) == [m EXCEPT !.ac = @ + Word(m, a)]
Substract(m, a) == [m EXCEPT !.ac = @ - Word(m, a)]
Store(m, a) == [m EXCEPT !.mem = (a :> m.ac) @@ @]
Load(m, a) == [m EXCEPT !.ac = Word(m, a)]
Branch(m, a, taken) == IF taken THEN [m EXCEPT !.pc = a] ELSE m
\* Nothing is left to read: scanf leaves AC alone.
Input(m) == IF m.in = <<>> THEN m ELSE [m EXCEPT !.ac = Head(m.in), !.in = Tail(@)]
Output(m) == [m EXCEPT !.out = Append(@, m.ac)]

\* A word decides by its hundreds; between -99 and 99 it is the end, and a word
\* below that, or of no instruction, does nothing.
Execute(w, m) ==
    LET op == IF w < 0 THEN -((-w) \div 100) ELSE w \div 100
        a == w % 100
    IN  CASE w = 901 -> Input(m)
          [] w = 902 -> Output(m)
          [] op = 0 -> [m EXCEPT !.halted = TRUE]
          [] op = 1 -> Add(m, a)
          [] op = 2 -> Substract(m, a)
          [] op = 3 -> Store(m, a)
          [] op = 5 -> Load(m, a)
          [] op = 6 -> Branch(m, a, TRUE)
          [] op = 7 -> Branch(m, a, m.ac = 0)
          [] op = 8 -> Branch(m, a, m.ac >= 0)
          [] OTHER -> m

\* One turn of the loop of Mission4-2.c.
Cycle(m) == LET f == Fetch(1, m) IN IF m.halted THEN m ELSE Execute(f.ir[1], f)

Fetch2(m) == Fetch(2, m)
Execution1(m) == Execute(m.ir[1], m)
Execution2(m) == IF m.halted THEN m ELSE Execute(m.ir[2], m)

\* mutant: the second CPU goes first
PairSwapped(m) == LET x == Execution2(Fetch2(Fetch(1, m))) IN IF x.halted THEN x ELSE Execution1(x)

\* One turn of the loop of Mission4-3.c: both fetch, then both execute.
Pair(m) == Execution2(Execution1(Fetch2(Fetch(1, m))))

\* The second instruction of the pair at hand was fetched too early: the first one branches,
\* or stores over the second.
Early(m) ==
    LET w == Word(m, m.pc)
        op == w \div 100
    IN  \/ op = 6
        \/ op = 7 /\ m.ac = 0
        \/ op = 8 /\ m.ac >= 0
        \/ op = 3 /\ w % 100 = m.pc + 1

CpuInit ==
    /\ \E p \in Programs, i \in Inputs : one = Loaded(p, i)
    /\ two = one /\ hazard = FALSE /\ pairs = 0

CpuNext ==
    /\ ~two.halted /\ pairs < MaxPairs
    \* bound: no fetch from behind the memory, which is undefined
    /\ {one.pc, Cycle(one).pc, two.pc + 1} \subseteq 0..(MemorySize - 1)
    /\ two' = Pair(two)
    /\ one' = Cycle(Cycle(one))
    /\ hazard' = (hazard \/ Early(two))
    /\ pairs' = pairs + 1

-----------------------------------------------------------------------------
\* Two CPUs do what one does, in half the turns, as long as no pair began with a branch that
\* was taken or with a store over its own second half: the same memory and AC, the same
\* input taken and output given, the same end.
PairsKeepTheProgram ==
    \/ hazard
    \/ /\ \A f \in {"mem", "ac", "in", "out", "halted"} : one[f] = two[f]
       /\ ~two.halted => one.pc = two.pc
===============================================================================
