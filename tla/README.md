# Models of the concurrent programs of Today_I_Learned

The repository is a study diary: some four hundred small programs and notes. What is worth
modelled in it are the programs in which several threads or processes work together, most of
them under `src/aisys` (an operating-systems course) and `src/socket program`, and then the data
structures, algorithms and simulators under `src/C++`. The modules here are translated from that code.

## 1. Inventory

| component | state it keeps | operations | how its parts interact | hard about it |
|---|---|---|---|---|
| Attack queue of the game shell (`aisys/thread/mini_shell_game_queue.c`) | linked list `head`/`tail`/`queue_len`, `running`, `hp_boss`, `ai_mode`, `ai_thinking` | `enqueue_job`, `dequeue_job`, `worker_main`, the command loop, two signal handlers | shared memory under `queue_mutex` and `hp_mutex`, condition variables `not_full` and `not_empty`, an unlocked flag at exit | lost wakeups, attacks lost at exit, timed lock |
| Deadlock hunter (`aisys/deadlock_hunters.c`) | two mutexes with the names of their owners, a wait-for graph, the time a cycle was first seen | `lock_mutex`, `add_edge`, `clear_edges_from`, `detect_cycle`, `monitor_cycle` | trylock, a graph under a lock of its own, owners read without one | false and missed alarms |
| Shared-memory AI chat (`aisys/Assignment5`) | prompt and response buffers, two named semaphores, the helper's conversation log | ask, poll with a timeout or wait without one, answer, exit | two processes, POSIX semaphores that outlive them, `fork`/`waitpid` | late answers, overwritten buffers, crash and restart, a helper that is gone |
| Socket AI chat (`aisys/socket`) and pipe AI chat (`aisys/pipe`) | byte streams, the client's accumulator, the server's log file | ask, stream an answer with an end marker, search for the marker | TCP stream, pipes | split and joined reads, an empty line answered by nothing, a peer that goes away |
| Producer and consumer (`aisys/IPC`) | one shared block, a semaphore that counts lines | produce, consume | shared memory, a semaphore | lines overwritten before or while they are read |
| Lock examples (`aisys/lock/rwlock.c`, `aisys/blocking_test.c`) | a job list under a lock; record locks of a file | add, read; lock, try | `pthread_rwlock` calls, `fcntl` | locks go with a closed descriptor, `sleep` as an order |
| Interactive shells (`aisys/xsh.c`, `mini_shell_*.c`, `double_handler.c`) | mode flags, the terminal's foreground group, redirections | run a program, toggle a mode by a signal | `fork`, signals, terminal control | signals at the wrong moment, stopped jobs |
| Socket examples (`socket program`) | descriptor sets, children, a store behind a pipe, a message buffer | accept, echo, store, reap, send a file, calculate | sockets, pipes, `SIGCHLD`, `select` | coalesced signals, partial reads, peers that close |
| Data structures (`C++/Datastruct`) | heap, search trees, AVL tree, lists, stacks | insert, delete, rotate, evaluate | sequential | boundary cases over long sequences of calls |
| Login and small tools (`aisys/mini_login_sk.c`, `daemon`, `mini_wc.c`, `sscanfd.c`) | the file of names and hashes; the daemon's session and log | log in or register; become a daemon, summarize | one file for all who log in; `fork`, `setsid`, SIGHUP | two people who register at once, a terminal that hangs up |
| Exercise solutions (`C++/Algorithm`, `C++/ComputerArchitecture`, `BackJun`) | a simulated machine, lists, graphs, arrays | one run over input | sequential | two CPUs in step, boundaries, unset memory |
| Notes, third-party material (`Web`, `PublicKeyCrypto`, `HoneyPot`, `ctf`, `exploit`) | none that lasts | - | - | not a system; left out |

`PROJECT.json` lists the same components with their status, and the hazards, each at the line
where it bites.

What makes the modelled ones correct, in a sentence each: every attack put on the queue is struck
or missed exactly once and none is lost at exit; the monitor reports every lasting deadlock and
never anything else; the answer a shell prints is the answer to the question it asked, or, after
timeouts, to one not much older, and leaving always ends both processes; over the socket no byte is lost or
repeated, and every question that is not blank gets its marker; an echo is what was sent, and the
only zombies are those whose signal came while another was pending; a shell that prompts has the
terminal; and a data structure or an algorithm gives what it should, but under conditions that are
stated with it.

## 2. Modules

| module | what it models |
|---|---|
| `JobService` | abstract: attacks are submitted, taken, then strike or miss atomically; the service closes only when all are settled |
| `GameQueue` | `mini_shell_game_queue.c`: one action per step between two lock operations of the main thread and of each worker |
| `MCGameQueue`, `GameQueueProofs` | its constants for TLC; its theorems |
| `WaitGraph` | `Cyclic`: some nodes wait for each other in a circle |
| `DeadlockHunters`, `MCDeadlockHunters`, `DeadlockHuntersProofs` | `deadlock_hunters.c`: threads, graph, monitor and clock; constants; theorems |
| `DfsCycle` | `dfs_cycle` and `detect_cycle` step by step, with the stack of calls, over every graph `add_edge` and `clear_edges_from` can build |
| `ShmChat` | the shared memory, the semaphores and the helper's loop of `Assignment5` |
| `TimedShell`, `TimedShellProofs` | `mini_shell_ai.c` over `ShmChat`: connection test, polling, timeout, interrupt, exit |
| `LockStepShell`, `LockStepShellProofs` | `mini_shell_ai_shm_posix.c` over `ShmChat`: waiting without a timeout, killed and restarted over the names it left |
| `HelperTest` | `test_ai_helper.c` over `ShmChat` |
| `SocketChat`, `MCSocketChat`, `SocketChatProofs` | the two programs of `aisys/socket`: prompts and answers as byte streams, the marker, early printing; constants; theorems |
| `ChatLog`, `MCChatLog`, `ChatLogProofs` | the rest of the four helpers: the log, the messages built from it, the parsing of the answer; constants; theorems |
| `PipeChat` | the two programs of `aisys/pipe` |
| `EchoClients` | the connections and the three echo clients of `socket program` |
| `ForkServer`, `StoreServer`, `SelectServer` | the servers `echo_mpserv.c`, `echo_storeserv.c` and `echo_selectserv.c`, each over `EchoClients` |
| `FileTransfer`, `ProducerConsumer`, `RecordLocks` | `file_server.c` and `file_client.c`; `aisys/IPC`; `blocking_test.c` |
| `MCServers`, `MCServersProofs` | the composition of these: which of the programs runs is chosen at the start; theorems |
| `JobShell` | `mini_shell_sk.c`, `mini_shell_adv.c`, `mini_shell_mode.c` and `mini_shell_game.c`, by their differences |
| `Xsh`, `Login`, `Daemon` | `xsh.c`, `mini_login_sk.c`, `daemon_sys_summary_ai.c` |
| `MCPrograms` | `JobShell`, `Xsh`, `Login`, `PipeChat`, `HelperTest` and `Daemon` in one run |
| `MCProgramsProofs` | the terminal of the shells; words, passwords and answers that arrive whole |
| `PriorityHeap` | `SimpleHeap.c`, `UsefulHeap.c` |
| `SearchTree` | `BinarySearchTree2.c`, `BinarySearchTree3.c`, `AVLRebalance.c`, `BinaryTree3.c` |
| `LinkedLists` | `1week/DoubleLinkedList.c`, `Graph/DLinkedList.c` |
| `Expressions` | `InfixToPostfix.c`, `PostCalculator.c`, `ExpressionTree.c`, `BinaryTree2.c` |
| `Sorting` | `QuickSort.c`, `Assignment2.c`, `d.c`; `scode.c`, `MergeSort.c`, `InterpolSearch.c` |
| `GraphAndFares` | `Assignment3-1.c`; `Assignment5.c` |
| `SjuCpu` | `Mission4-2.c` and `Mission4-3.c`, the simulators with one and two CPUs |
| `OpServer` | `socket program/TCP/opserver.c` |
| `MCAlgorithms` | `DfsCycle` and the modules from `PriorityHeap` on in one run |

The last three `MC` modules have a variable that says which component a behaviour is about
(`program`, `algorithm`); the variables of the others keep a fixed value. They do not let
components interact that do not interact in the code.

### Correspondence with the code

**GameQueue.** Variables have the code's names. `main` and `worker` are program counters whose
values are the places where another thread can interfere: before a lock, holding it, asleep on a
condition variable, in the critical section. A critical section under `queue_mutex` is one action
where it touches nothing but what the lock protects; `running` is written by `Stop` without the
lock, in a step of its own, and read in the step that tests it, so every interleaving of that
race is there. `pthread_cond_signal` wakes one sleeper or none, `SpuriousWakeup` any. Nodes are
numbered in the order of `malloc`, so `next` and `damage` are sequences that remember what was
freed. `pthread_mutex_timedlock` is `HpLock` or, while another worker holds the lock,
`AttackMissed`. Strength is an integer or `NaN`: `atof("nan")` passes the test `dmg <= 0` and
poisons `hp_boss`. `fate` is a history variable.

**DeadlockHunters.** `owner` and `owner_idx` are written one after the other and both tested
before they are used; an owner seen without an index is skipped like no owner, so they are one
variable. Trylock, the note of the owner and the clearing of edges are three steps, and so are
the failed trylock, the unlocked read of the owner and `add_edge`. The two threads with the orders
A, B and B, A are one of the `Orders`. `elapsed` is the time since `deadlock_started`, cut at
`Grace` (5 s in the code). `age` is history: how long a deadlock has existed.

**ShmChat.** A question is its number, since what matters is which question an answer belongs to.
`Exit` stands for any text that begins with "exit". `strncpy` into shared memory takes two steps
with `Torn` in between (or `Exit`, if either text was): a reader in that time, or one that
overlaps it, gets a mixture. What the language model answers, the JSON around it, and the log of
the conversation are left out; an "AI ERROR" is an answer like any other. `asked`, `timeouts` and
`leftover` are counters the properties need.

**SocketChat.** `up` and `down` are the bytes under way in the two directions; a read takes any
number of them up to the size of the buffer, and one write of the model's answer is any part of
`rest`. `acc` is the accumulator, `Receive` the body of the inner loop: `MakesRoom` (lines 83-92),
append, `Found` and `Before` (`strstr`), and either the end of the loop with what follows the
marker printed, or `PrintsEarly`. The size of the margin, 64 in the code, is a constant. Each side
can be killed at any time: a shell's memory goes with it, what it sent is still read, and a helper
that writes to a closed connection is ended by SIGPIPE or not (the first write after the close
goes through). `shown` is the screen with `Cut` where a marker was taken out, `taken` the same with
the markers left in; `sent` is what the helper wrote; these and `plain` are history. TCP delivers
in order what was written: `\o` and `SubSeq` are all there is of it.

**ChatLog.** `log` is the mapped file up to `ai_ctx_size`, as tokens; `Logged` is
`append_log` (an entry is written whole or not at all), `Messages` is `build_messages_json` line by
line, with its cut at 4095. The model's stream is a line of JSON per text, in three parts so that it
can be cut inside and before its newline; `Piece` is one call of `stream_callback` with any number of
parts, `CallEnds` what `call_chat_api` and `ai_chat_with_context_stream` do after the transfer,
complete or not. All tokens have length one. The pipe helper and the shared-memory helper have the
same log over memory of their own and read the answer in one piece (`PipeTurn`, `ShmTurn`). The
multiuser helper throws lines away until an entry fits (`append_log` of "multi"), and copies an
entry through `tmp`: of one that is as long as `tmp`, what fits is followed by the null that ends
`tmp` and by whatever lies behind it, tokens of one kind (`Junk`) or newlines. A prompt fits into an
empty log: a helper reads at most 4095 bytes of one, the log has 1 MiB. `Split` is how both parsers find lines;
it, `Kept` and `TextsOf` are recursive functions, so that they can be proved about.

**EchoClients and the servers.** A connection is a pair of byte streams with what each side has
closed; bytes are numbered, so that lost, doubled or swapped ones show. "duplex" is the client that
forks a writer, "counting" the one that reads until it has as many bytes as it wrote, "oneread" the
one that reads once. The servers differ in who runs the echo loop: a child per connection and the
handler `read_childproc`, where `sigchld` is one bit because signals do not queue; the same with a
second `write` into a pipe that the storer reads; or one process over descriptor sets, where the
kernel gives out the lowest free number. The listening socket is the lowest of all and visited first, so
that a number closed in a round is given out again in the next one at the earliest. An `accept` that
fails leaves its client waiting. `echo_client2.c` adds up reads of 0 for ever when its server has
closed ("spin").

**FileTransfer, ProducerConsumer, RecordLocks.** Each process's step between two calls is an
action. The transfer includes the half-close and what neither program looks at: either `fopen`
(`fopened`; who uses a FILE it did not get is killed, which closes its socket), `connect` with all that
comes before it (the client is "lost": its `read` returns -1 for ever, and `fwrite` is given that as a
size, which writes what happens to lie there or kills it) and `accept`. Once two programs are
connected, reads and writes fail only because the other one is gone. The producer's `strcpy` and the
consumer's `printf` take two steps with `Torn` in between; a torn text may read "exit" and end the
consumer (`Misled`), which no typed line does, since the producer keeps it to itself.
`blocking_test.c` runs its four tests with parent and child in any order, since `sleep`
promises none.

**JobShell.** One loop for four shells; `kind` selects the signals ignored, what the child restores
and the mode toggled by SIGQUIT. `own`, `fg`, `ttou` are the child's process group, the terminal's
owner and the disposition of SIGTTOU; both shell and child call `setpgid`, in either order. A key
sends its signal to the group that owns the terminal at that moment. `fork` and `execvp` may fail.

**Xsh.** `EvaluateCommand` is translated with its loop variable, which the search in the table of
built-ins goes on with: "exit" alone is found at index 1, the entry of `cd`, so a built-in runs
another's code or reads past the table (`BuiltIn`; the comment at `xsh.c:220` says its index is returned).
Nothing that `parse_command` gets from `malloc` is set: `garbage` is what it left in `input_fd` and
`output_fd`, and `filled` are the places of `args` that are not NULL, those of the line and those of
the block's last user, a built-in command (`freed`; the block of a program is never given back).
`Behind` is what `execvp` reads after the words until it meets a NULL. A redirection that is done
writes one there; one that fails returns -1, and the words left at that point are run.

**Login, Daemon.** Search and append are two steps, between which others do theirs; a search sees the
file as it was at one moment. A line of the file is what `getusrent` makes of it: `save_user` leaves it
whole, or cut before its newline, within its hash or before its colon (`Pieces`), and the next
write goes on in such a line (`Joined`): a whole hash counts until then and is `Spoilt` by it.
`Odd` is a name with a colon, which reads back as another name. A login fails for good at the third
wrong password in a row; to register a name sets the count to 0, and a program that has ended may be
run again. The daemon's two forks, `setsid`, the ignored SIGHUP and the closing of descriptors are a step each, and
a SIGHUP may come between any two of them.

**PipeChat.** `up` and `down` are the pipes, bounded (`UpRoom`, `DownRoom`), one token per piece of
text. The shell writes a line and reads once; the helper reads with `fgets` (a line, or what fits)
and prints an answer that ends with the marker, also after a failed call. No one ignores SIGPIPE.

**HelperTest.** The test asks one question, polls, gives up and leaves; how it leaves depends on
whether its `waitpid` with `WNOHANG` found the helper ended.

**DfsCycle.** The search is a state machine: `calls` holds a frame for each call of `dfs_cycle` that
has not returned, its node and its loop variable; `root` is the loop variable of `detect_cycle`. A
step is one turn of a loop, a call or a return; `return true` ends all calls at once, as no caller
does anything more. The turn that called goes on in the same frame: its successor is visited then,
and the test of `stack` is what is left of the turn. Edges change only while no search holds the
lock, and `verdict` is forgotten then. The code has two nodes; the model has `THREAD_COUNT` of them.

**Other algorithms.** A call is one action; its loops are recursive operators or folds. State is what
survives a call: the array of a heap with its stale slots (slot 0 is unset memory in `SimpleHeap.c`),
the nodes of a list with their links, the tree, the array `m` of `airtelDP`, the message buffer of
`opserver.c` with the tail of older messages. What the properties compare with is kept beside it as
history (`content`, `keys`, `list`, `given`, `edges`) or computed from the input by a definition of
its own (`Value` of `Expressions` and `OpServer`, `Cost` of `GraphAndFares`, `Sorted`). Undefined
behaviour ends the comparison at a named condition (`defined`, `wildFirst`, `hung`, `Crash`) or is a
choice (`clean`: whether the memory behind the postfix string happens to end it). The CPU's words are
integers; overflow is not reached, nor the end of `Memory[100]`, and a program file that ends with a
newline, which kills both simulators while they load it (`atoi` of NULL), is none of `Programs`. The
ints of `opserver.c` wrap around at `Half`; interpolation search calculates with doubles, so that a
whole quotient may be cut to one less (`Places`). `SjuCpu` runs both simulators side by side, a pair against two
single cycles.

## 3. Runs

| run | what it asks | bounds |
|---|---|---|
| `game_queue_safety` | `ListIntact`, `JobsAccounted`, `NoLostWakeup`, `DrainedAtExit`, and that `GameQueue` implements `JobService` | 2 workers, room for 2, two commands out of two attack lines (skipped, ordinary, fatal and NaN damages), two signals or spurious wakeups |
| `game_queue_liveness` | every attack settles, `enqueue_job` returns, exit completes | 2 workers, room for 1, two lines of two attacks, so that main and workers sleep in turn |
| `deadlock_hunters` | `EdgesTrue`, `AlarmTrue`, `DeadlockForever`, `DeadlockReported`, `EndsOrStarves` | 3 threads, 3 mutexes, four assignments of orders, grace 2 |
| `timed_shell` | `InStep`, `Lag`, `QuestionReturns`, `ExitCompletes` | 4 questions, 2 polls each: up to 4 timeouts, so several answers can be outstanding |
| `timed_shell_stop` | expects a violation: what the banner says of Ctrl+\\ | 2 questions |
| `lock_step_shell` | `InStep`, `OneTurn`, `EveryQuestionAnswered`, `ExitCompletes` | 4 questions, 2 crashes anywhere |
| `socket_chat` | `StreamHeld`, `InStep`, `StuckOnBlankLine`, `QuestionEnds` | a marker of 2 characters, margin 3, reads of up to 2 bytes, 2 questions per connection out of a blank line, a short one and the first part of a long one; answers that end with half a marker or are a whole one; any number of connections |
| `chat_log` | `StreamsOnce`, `LogsReadAsSaid`, `AsksIt`, `NewestIsKept`, `LogsWhatWasShown` | four helpers; a log of 16 tokens; texts of several lines, a line that begins like an entry, an answer with a part too long for `response`; pieces of every size, failures at every point |
| `chat_log_trim` | expects a violation: the comment that says old lines are trimmed | the same, the socket helper |
| `servers` | `EchoesIntact`, `ZombiesAreMissedSignals`, `ToldStaysTrue`, `ServersReturn` | 3 clients of the forking server with a byte each, 2 of the others with lines of 3 bytes, buffers, sockets and a pipe smaller than what goes through them; 4 shared lines; all four lock tests; a file of up to 2 blocks, every open, connection and accept failing or not |
| `programs` | `TerminalKept`, `InputAndAnswers`, `WaitsEnd` | 3 keys and 2 programs per shell; command lines of up to 3 out of 5 words, one program not waited for; 2 people, 4 times a name and a password out of 2 (and the name with a colon), every cut of a line; pipes with room for 4 and 2 tokens, 4 lines; 3 summaries |
| `algorithms` | `SearchExact`, `StructuresHold`, `ResultsRight` | all graphs of 4 nodes; heaps of 6 elements of 3 priorities; all trees over 7 keys that insertions and removals lead to; lists of up to 4 elements; expressions of 7 tokens; arrays of up to 5; 11^4 programs of 4 words and `Mission4.asm`, 6 pairs; fares over 3 places; 5 characters of 8 in one message or two, an int of 8 bits |

The interesting cases happen within these bounds: a full queue with a sleeping producer, two
workers woken for one attack, a boss that dies and is reborn, a circle of three threads, an
answer two questions late, a semaphore left posted by one crash and another by the next, a marker
split over two reads with part of the text before it already printed; three children that end
under one pending signal, a descriptor number given out again after the round that closed it, an
expression with two operators, a double rotation and the removal of nodes of every shape, a second half of a pair that the first
half stores over. The theorems of section 5 hold without the bounds.

What the runs showed beyond the properties that hold:

- Ctrl+\\ does not stop an answer (`timed_shell_stop`): `handle_sigint` clears `ai_thinking`, which
  the polling loop never reads. The header comment and the banner say it does.
- After one timeout the timed shell stays behind by one answer for the rest of the session: `Lag`
  is tight, nothing drains the semaphore.
- The lock-step shell waits for ever once its helper is gone (not executable, or ended by an
  "exit" a killed shell left in the memory with its semaphore posted). This is why
  `EveryQuestionAnswered` ends in "or the helper is gone" and why its configuration does not
  check deadlock.
- In the deadlock hunter a thread that gets both mutexes returns without unlocking them and the
  other one retries for ever. There is no circle to see; `EndsOrStarves` names this case
  (`Starved`) and says that it is the only one.
- After a blank line shell and helper wait for each other for ever; `StuckOnBlankLine` says that
  nothing else does that, whatever the answers hold and wherever calls fail or lines are split.
- An answer that holds the marker text puts the screen one marker behind (`InStep` is stated
  without such answers), and so does a line longer than a read; no byte is lost by it.
- The branch of the socket shell for an accumulator that would overflow (lines 83-92) is dead:
  `StreamHeld` bounds what is kept by the margin, and a read fits behind it.
- The log of the conversation is never trimmed (`chat_log_trim`): the loop that does it, lines
  331-345, is only reached without an explicit buffer, and the only caller always passes one. Once
  fewer than 100 bytes are left every question is answered by what was said before it.
- The multiuser helper does make room, but an entry as long as `tmp` is written without its
  newline and with memory behind it: `NewestIsKept` and `AsksIt` except these entries.
- The pipe chat stops in exactly two ways (`WaitsEnd`): the shell waits for the answer to an empty or
  unfinished line, or both wait for room in full pipes (`Starved`, `Jammed`). Otherwise an answer
  longer than a read is shown in pieces under later questions, in order.
- A zombie of `echo_mpserv.c` is always one whose SIGCHLD came while another was pending:
  `ZombiesAreMissedSignals` counts them.
- A server whose `fork` failed closes the connection, and `echo_client2.c` then reads 0 for ever
  without noticing (`Deserted`; lines 54-60). `file_client.c` reads -1 for ever when it could not
  connect, and what it writes to its file in the meantime is undefined (`TransferEnds`; lines 34-36).
  `ServersReturn` says that these are the only waits of a client that do not end, next to `Held`.
- The storing server waits for ever for a full pipe when its storer could not open its file, and
  the select server for a client that does not read (`Held` in `MCServers`).
- What `producer.c` writes may be overwritten unread or read torn; only the newest line is certain
  to get through whole (`NewestGetsThrough`). A torn text can end the consumer.
- In `mini_shell_sk.c` a program that reads before it has been given the terminal is stopped, and in
  `mini_shell_adv.c`, which ignores fewer signals, a key can end the shell itself
  (`StoppedForAReason`, `TerminalKept`).
- `xsh.c` never runs `exit` from its table: the index it returns is too large by the number of words.
  Its shell does not wait for a program that called `execvp` before `setpgid` was tried. A line without
  a redirection that was done may be run with words of an earlier built-in command behind its own, and
  one whose redirection fails is run as it stands (`WordsKept` says that nothing else happens to it).
- Two people who register one name at once both get their line; the first one counts ever after
  (`OneAccount`), also if it could be read only for a time because its newline was missing. A third try
  may succeed; there is no limit on tries, since registering a name or starting anew resets the count.
- Removing a node whose right child is its successor loses that child's right subtree
  (`BinarySearchTree3.c:163`, `cut`); only the root of the tree is rebalanced; what is called
  postorder visits right, node, left.
- `SimpleHeap.c:99` compares with slot 0, which nothing sets; `UsefulHeap.c` does not.
- The lists do not refuse position 0 (`DoubleLinkedList.c`) and a second removal without a step of the
  cursor (`DLinkedList.c:69`).
- The calculator on the stack is right as long as operands fit a char, and if memory happens to end
  its postfix string; the one on the tree is right.
- `QuickSort.c` hangs over two elements equal to the pivot; interpolation search divides 0 by 0
  between equal ends; `Assignment3-1.c` walks a ring for ever after a first edge from a vertex to
  itself; backwards `airtelDC` says there is no journey and `airtelDP` that it is free.
- Two CPUs in step are one CPU but for a branch taken, or a store over the second half, in the first
  half of a pair.
- `opserver.c` calculates from left to right, in ints, where no "+" or "-" comes behind another operator,
  which it replaces (two operators fit into the messages of the run); an answer is cut only where an int
  overflows or memory behind the message is read; a message shorter than an earlier one is read with the earlier one's tail; a
  division by zero ends the server.

## 4. Fairness

Only what the scheduler and the libraries give is assumed. In `GameQueue` each worker and the main
thread are weakly fair while they are not waiting for input: a thread that can go on for ever does.
Nothing stronger is needed of the mutexes, nothing is taken to hand them out in turn. The user,
signals and spurious wakeups owe nothing. In `DeadlockHunters` threads, monitor and clock are weakly fair. In the chat both
processes are weakly fair, which for the helper includes that the model server answers or fails
(it sets no timeout of its own); the user and crashes owe nothing. In `SocketChat` the shell's
reads and the helper's steps are weakly fair. In `MCServers` and `MCPrograms` each process is weakly
fair in what it can do without its user: a server's turn, a client's read, a program that runs ends
or stops, the storer and the consumer go on; who types, hangs up or presses a key owes nothing. The
kernel hands out sockets and pipe room without favour only in so far as one waiting process that can
always go on does. One assumption is stronger: `accept` of the select server does not fail for ever
(`SF` of `AcceptOne`), or a client would wait for it.

## 5. Proofs

All theorems are checked by TLAPS for every value of the constants that the named assumptions
allow (`ConstantsOK`, `DeadlockConstants`, `TextsDiffer`, `BoundsOK`, `TextsOK`, `TextsApart`,
`ClientsOK`, `SizesOK`, `LoginOK`).

- `GameQueueProofs`: `TypeCorrect`, `ListStaysIntact`, `LocksAreKept`, `NoAttackIsLost`,
  `NoWakeupIsLost`, `NothingIsLeftAtExit` and `Implementation`. The inductive invariant `Inv` adds
  to the type and the lock discipline that the list is the interval of node numbers from `head` to
  `tail`, that the nodes workers hold are the taken and unsettled ones before it, and that a
  worker past the loop of `dequeue_job` saw what it acts on under the lock. `NoLostWakeup` needs
  an argument of its own: a sleeper is excused only while another thread is on its way to the same
  test. `Implementation` maps every step to a step of `JobService` or a stutter.
- `DeadlockHuntersProofs`: `TypeCorrect`, `GraphIsTrue`, `DeadlockIsForever`, `NoFalseAlarm`. The
  key is `WaitStable`: nothing is ever unlocked, so a thread that waits for a holder waits for
  it for ever. Hence an edge added late is still true, a cycle of the graph is a deadlock, and an
  alarm stays true. It needs that a recorded owner is the holder (`OwnersTrue`) and what a thread
  in the middle of `lock_mutex` knows (`Pending`).

  That takes `detect_cycle` for one step with the right result. `SearchIsExact` shows it of
  `DfsCycle`, for any number of nodes and any graph, where TLC has four nodes: "yes" only if there is
  a circle, "no" only if there is none. The inductive invariant (`SearchInv`): the calls are a path
  of the graph, and `stack` its nodes (`Path`); what a call has gone over is visited and off the path
  (`DoneWith`); and no node that is visited and off the path is on a circle (`NoCircleLeft`). The last
  is stated for all sets of nodes whose members have a successor in the set, not for paths, so that
  it needs no induction: a node that is left has only successors that were left before it, so no
  such set holds it. An edge to the path closes a circle, which is the end of the path (`MeetIsCycle`). `SearchEnds`
  bounds the time the monitor holds the lock: of the finite set of turns that the search may still
  need, each step that gives no answer takes one away for good (`StepTakesTurn`), so that after
  (`THREAD_COUNT` + 1) * (`THREAD_COUNT` + 2) steps there is an answer; until then the guard of some
  step holds.
- `TimedShellProofs`: `TypeCorrect`, `AnswersInStep`, `LagIsBounded`. The invariant counts tokens:
  those in both semaphores and in the helper's hands are at most the timeouts, plus one while the
  shell polls; and each text is younger than the tokens still in `to_ai` allow.
- `LockStepShellProofs`: `TypeCorrect`, `TurnsAlternate`, `AnswersInStep`: one token, and the texts
  that go with it, through crashes and restarts.
- `SocketChatProofs`: `TypeCorrect` and `NothingIsLost` (`StreamHeld`), for every marker, text, margin
  and buffer with which a read fits behind the margin. `TypeOK /\ NothingLost` is inductive; the work is in
  the lemmas about cutting and joining sequences (`Cutting`, `MarkerFound`, `Moving`) and in
  `RoomForARead`.
  `OnlyBlankLinesStick` (`StuckOnBlankLine`) follows from `AnswerComes`: while the shell waits,
  the helper has something but newlines to read, is at an answer, or a marker is under way.
  `AnswersInStep` (`InStep`) rests on `Conversation`, which says of all that is on the screen, kept
  back and under way (`Stream`) what it is at each point of a question: `Closed`, with no marker and
  an end that no marker can go on from, or `AnswerOver`, with one marker at its end. Both need
  `TextsApart`: no newline is in the marker, "[AI ERROR]" neither holds a marker nor ends one begun
  before it, and a line `fgets` returns is blank or holds something else. Answers may hold anything.
- `MCProgramsProofs`: about the composition as it is run, an invariant for each program.
  - `TerminalStaysKept` (`TerminalKept`), for the four shells, any number of keys and programs.
    `TerminalKept` is not inductive: `JobInv` says at each step of the loop who owns the terminal and
    whether SIGTTOU is ignored there, from the few traits (`Traits`) in which the shells differ.
  - `AnswersBelong` (`InputAndAnswers`), for the five others. `LoginInv` says of a person in the
    middle of a login which line of the file was found, or that there was none up to `looked`
    (`Knows`), and that the others only append, or go on in a last line without a newline: that spoils
    its hash, or gives it a name that was not typed for it, and neither makes a password good (`Grown`). `PipeInv`: what
    was shown, lies in the pipes and was typed is one row of numbers that do not fall (`Ordered`), so
    an answer to the first question left has no smaller number behind it. `TestInv` counts the texts
    under way to or from the helper, at most one (`Answering`). `DaemonInv` says which process made
    which and what it inherits (`Lineage`). For `xsh.c`, `LoopKeeps` goes along the loop over the
    words: after k turns the loop is past at least k words and has kept of them what `Understood` keeps
    (`Along`), one turn taking a word or a redirection with its file (`TurnGoesAlong`). Two recursive
    functions are compared there: that they are defined is `LoopDefined` and `PassageDefined`, by
    the induction over sets of numbers in `EveryNumber`.
- `MCServersProofs`: about the composition as it is run, for any finite sets of clients of each kind
  and all sizes of lines, buffers, pipes and blocks.
  - `ZombiesAreCounted`: the count is inductive with the types, and needs that the handler always
    finds a child to reap.
  - `WhatIsSentArrives` (`EchoesIntact`). For the clients of all three echo servers, `Whole` says
    that what a client has heard, what comes down to it and what goes up are runs of one count, each
    beginning where the one before it ends; `Duty` adds, for the forking server, how far a client of
    the duplex kind and its connection can be apart. For the storing server (`StoreInv`), file and
    pipe together hold, of each client, the first bytes it sent (`Kept`), and its child the next ones
    (`Stored`): the writes of two children may mix, those of one not. In the transfer (`FileInv`)
    what was received and what is in the stream are one run up to `pos`.
  - `ToldAndActedOn` (`ToldStaysTrue`). `SelectInv`: the process knows its open connections by
    numbers of their own and watches exactly these (`Table`); what select said of one whose turn has
    not come is still so, because only the loop itself reads from it (`Visited`); and only a client
    that closes while bytes come back loses any (`Rude`). `SharedInv` adds what the shared text is: the
    last line typed, unless it is just being copied. `LockInv`: the holders are those that were told
    so and have not closed the file, and there is at most one.

- `ChatLogProofs`: `NewestStaysKept`, `LogStaysReadable`, `StreamStaysOnce`, `QuestionIsAsked` and
  `ShownIsLogged`, for all prompts, replies and sizes for which a prompt and an answer fit into an
  empty log. First the operators: each is a recursive function, and `Recursion` shows that there is
  one; `SplitGrows`, `KeptGrows`, `FlattenGrows` and `TextsGrow` then say what one element more
  changes. What holds for every sequence follows along its growth: induction over data, with the
  induction in a lemma about sets of sequences (`EverySequence`), which the provers can instantiate. Of a
  stream, `LinesJoin` says that reading on from the rest gives what reading it all gives, and
  `StreamRead` what the rest is: nothing, a text that is not closed, or one whose newline is missing.
  Of the log, `MessagesBehind` says that what stands behind the end of a line is read for itself,
  and `EntryRead` what an entry gives. The inductive invariant (`IInv`) has two parts. `LogHolds`:
  the log ends with a line (or with what lay behind `tmp`), the newest entry is its end, and where
  nothing is thrown away it reads as what was said; without the ending, a new entry could go on in
  an old line. `StreamHolds`: what is still to come makes a formed stream with what has come,
  `ctx.buf` is the rest of what has come, and `ctx.out` is what was passed on or that is too long
  for it. `QuestionIsAsked` needs that an entry too long for `tmp` leaves a `Junk` in the log
  (`FormattedTyped`), `ShownIsLogged` that each step which logs an answer logs `Kept` of it.

The type invariants, and `LockDiscipline` of `GameQueue`, are proved and not run: the proofs say more.

Only model-checked: liveness (and everything under fairness or ENABLED), and the algorithms other
than the depth-first search (`StructuresHold`, `ResultsRight`), whose operators are recursive, so that
the SMT solver does not take them.

## 6. Not modelled

- The text of messages, terminal modes, colours; failures of `malloc`, `pthread_create` and `mmap`;
  the programs the shells run, except that they end, stop and read the terminal.
- The poll loop of `aisys/socket/ai_helper_chat_stream_multiuser_sk.c`, a template with parts still
  to be written; its log is in `ChatLog`.
- `aisys/lock/rwlock.c` calls `pthread_rwlock` functions on a `pthread_mutex_t`: nothing is defined
  about it. `C++/Algorithm/9week/9week1.c` reads unset memory on most of its paths.
- What the daemon collects about the system, and `mini_wc.c`, `sscanfd.c`, `double_handler.c`: input
  and output without state.
- The one-message socket examples, socket options, and the exercises that compute one number and
  end; everything `PROJECT.json` marks `not_modelled`.

## 7. Plan

The modules planned at first are written. Next, in this order:

1. Theorems about the other algorithms, their loops written as steps first, as those of `DfsCycle`
   are: the partition of the quicksorts before the others.
2. `ChatLog` composed with `ShmChat` and `SocketChat`: multi-line prompts that merged reads make.
3. The remaining data structures (queues, the hash table) and `remove_zombie.c`.
