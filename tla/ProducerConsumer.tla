-------------------------- MODULE ProducerConsumer ---------------------------
(***************************************************************************)
(* aisys/IPC/producer.c and consumer.c: lines of text through one block of *)
(* shared memory and a semaphore that counts them.  The producer does not  *)
(* wait for the consumer, so a line may be overwritten before, or while,   *)
(* it is read.  Lines are numbered; the semaphore is taken to exist, as    *)
(* sem_open without O_CREAT does.                                          *)
(***************************************************************************)
EXTENDS Integers, Sequences

CONSTANT MaxLines \* bound: lines typed

Torn == -1        \* a mixture of two lines

VARIABLES producer, consumer, \* where they are
          ptr,                \* the shared text
          sem,
          typed,              \* lines typed so far
          printed             \* what the consumer printed

pcVars == <<producer, consumer, ptr, sem, typed, printed>>

PCInit == /\ producer = "prompt" /\ consumer = "wait"
          /\ ptr = 0 /\ sem = 0 /\ typed = 0 /\ printed = <<>>

\* fgets and the beginning of strcpy.
Copies == /\ producer = "prompt" /\ typed < MaxLines
          /\ producer' = "copy" /\ typed' = typed + 1 /\ ptr' = Torn
          /\ UNCHANGED <<consumer, sem, printed>>

Posts == /\ producer = "copy"
         /\ producer' = "prompt" /\ ptr' = typed /\ sem' = sem + 1
         /\ UNCHANGED <<consumer, typed, printed>>

\* "exit" or the end of the input: nothing is posted, and nobody tells the
\* consumer, whose own test for "exit\n" no line that was typed passes.
ProducerExits == /\ producer = "prompt" /\ producer' = "done"
                 /\ UNCHANGED <<consumer, ptr, sem, typed, printed>>

Wakes == /\ consumer = "wait" /\ sem > 0
         /\ sem' = sem - 1 /\ consumer' = "awake"
         /\ UNCHANGED <<producer, ptr, typed, printed>>

Prints == /\ consumer = "awake"
          /\ printed' = Append(printed, ptr) /\ consumer' = "wait"
          /\ UNCHANGED <<producer, ptr, sem, typed>>

\* But a torn text may: "exit now" while it is copied over "abcd".
Misled == /\ consumer = "awake" /\ ptr = Torn /\ consumer' = "done"
          /\ UNCHANGED <<producer, ptr, sem, typed, printed>>

PCNext == Copies \/ Posts \/ ProducerExits \/ Wakes \/ Prints \/ Misled

PCSpec == PCInit /\ [][PCNext]_pcVars

\* Every post is printed once, but for one that misled the consumer; what the
\* k-th print shows may be a later line than the k-th or torn, never an earlier
\* one; and once the consumer has caught up the last line it printed is the
\* last one typed.
NewestGetsThrough ==
  /\ Len(printed) + sem + (IF consumer = "wait" THEN 0 ELSE 1)
       = typed - (IF producer = "copy" THEN 1 ELSE 0)
  /\ \A k \in 1..Len(printed) : printed[k] \in k..typed \/ printed[k] = Torn
  /\ \A j, k \in 1..Len(printed) : j < k => printed[j] <= printed[k] \/ printed[k] = Torn
  /\ producer # "copy" /\ sem = 0 /\ consumer = "wait" /\ typed > 0
       => printed[Len(printed)] = typed

=============================================================================
