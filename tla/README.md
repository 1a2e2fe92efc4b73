# A verification of EltexSummer

The repository is a collection of programs in C: the tasks of a summer school
on C, Linux system programming, networks and the kernel. There is no one
system; there are some thirty small ones. This project models those in which
several processes, signals, connections or data structures can go wrong in ways
a test hardly reaches, checks them with TLC and proves all their safety
properties with TLAPS, for any values of the bounds.

    tlc -workers 2 -config <run>.cfg <module>.tla        one run
    tlapm <component>Proofs.tla                          one set of proofs
                                                         (Module2Proofs and ProgramsProofs take
                                                         a quarter of an hour each with two
                                                         threads, the others minutes)

`PROJECT.json` lists the components, the runs with their properties, the
mutated definitions each property was tried on, the source lines every
definition stands for, the disagreements between code and documents that were
found, the hazards and the theorems.

## 1. The programs

| program | state | operations | interaction | hard about it |
|---|---|---|---|---|
| module3/08 lines through System V semaphores | file, `mutex`, `empty`, read position of each consumer | producer appends lines and posts one permit per consumer; a consumer takes a permit, reads a line, analyses it | shared file, two semaphores, `wait`, SIGINT | permits are not reserved; SIGINT removes the semaphores under sleepers |
| module3/10 exchange over System V shared memory | segment (`count`, numbers, max, min, `done`), one semaphore | parent generates a set, child replaces it by its extremes, parent prints | polling `count` under a lock, SIGINT | `semop` returns with EINTR and nobody looks |
| module3/11 the same over POSIX | the same, names that outlive a run | the same, `sem_open` with O_EXCL | the same, several runs in a row | kills leave names; a second SIGINT kills |
| module3/06 chat over a System V queue | queue, the server's table, two processes a client | connect, line, shutdown, relay to every other slot | one bounded queue for all directions | the server sleeps in `msgsnd` on a queue only it empties |
| module3/15 calculator server with `select` | table of clients, descriptors, line buffers | accept, read, answer, close | TCP streams | torn and merged lines, lines without a newline, reused descriptors, SIGPIPE |
| module3/13 calculator and file server with `fork` | counter shared by all processes, one process a client | accept, dialogue, receive a file | TCP streams, shared memory | unlocked counter; file and lines in one stream, files of which less is sent than announced |
| module3/c02 taxi dispatcher | table of drivers, two FIFOs and a process each | create, send a task, ask for the status, quit | named FIFOs opened and closed for every command | every `open` waits, every `close` discards |
| module2/2.1, 4.1, 4.3 contact books | array, doubly linked list, AVL tree | add, find, update, delete from a menu | none, one user | find by name, change by id; heights in a byte |
| module2/4.2 priority queue | doubly linked list | enqueue, three kinds of dequeue | none | links at the ends |
| module3/09 lines through POSIX semaphores | as 08, one consumer, names that outlive a run | as 08 | as 08 | names left behind stop every later start |
| module3/07 ping-pong over a POSIX queue | one queue that outlives a run | send, receive | both directions in one queue | a process may take its own message |
| module3/12 UDP chat | address of the peer | send, receive | two threads, datagrams | the address is shared without a lock |
| module3/c01 echo on raw sockets | table of clients with counts | count, answer, CLOSE | datagrams, lost at a full buffer | a full table gives NULL; an answer is whatever comes to the port |
| module3/04 pipelines | descriptors of every process | fork, connect, exec, wait | pipes | who keeps an end open; a descriptor that was never filled is closed |
| module3/05 signal counter | counter, FILE | write a number, handle SIGINT or SIGQUIT | handlers against main loop and each other | the file is closed under the loop |
| module3/03 contacts in an array | array of 100, size, file | add, update, delete, read, write | none | the limit; a file caught half written, or not read |
| module2/3.1 access rights | mode | enter, read from a file, modify | none, one user | twelve masks and shifts |
| module5/task2 proc file | length and position of a message | read, write | callers share the position without a lock | an unsigned comparison below zero; every read begins at the start |
| module5/task3 LED timer | timer, LEDs | write, expire, unload | timer function against rmmod | the timer is armed again behind del_timer |
| module5/task4 character device | open flag, message, references | open, read, write, close, unload | processes against rmmod | the reference is taken late and given back early |
| module3/01, 02, 14 | none | one fork, one exec, one socket read | none | nothing |
| module2/2.2, 2.3, 3.2, 6.3, module5/task1, task5 | none | calculators, random addresses, single answers | none | boundary values |
| module1, module4, `*/screens` | documents, router configurations | no code | | |

module2/task4/6.1-6.2 is a copy of module2/task3/4.1 with another build.

What makes each correct:

* *08*: one user of the file at a time; no permit lost or invented; no consumer
  sleeps for ever; semaphores vanish only when nobody uses them; every consumer
  that could open the file reads the lines in order and leaves at its end only.
* *10, 11*: parent and child take turns on the segment; every set is answered
  once and printed as what it is; SIGINT ends the exchange and nothing is left.
* *06*: lines go to the others and to nobody else, in the order of the sender;
  a client that has left is sent nothing; the relay comes to an end.
* *15, 13*: a descriptor belongs to one client; the one thread never sleeps but
  in `select`; results belong to their questions; a client and its server do not
  wait for each other; the user count is right; clients cannot end the server.
  (Where the code does not keep this is in section 4.)
* *c02*: an answer is the answer to the last command; commands end; nothing is
  left running after quit.
* *books*: a contact is stored under an id of its own, stays what it was until
  it is named in an update or a deletion, and can be found.
* *queue*: one chain, the most urgent element in front.
* *09*: a run reads all it wrote; names stay only after a run that was killed or gave up.
* *07*: there is one turn, and it is not lost; "exit" ends both and removes the queue.
* *12*: a message goes to one whole address.
* *c01*: lines are numbered as the session counts them; a slot is held for a
  session, or for one whose goodbye never came.
* *04*: what goes into a pipeline comes out, and the prompt comes back.
* *05*: the third SIGINT closes the file once and gives the signals back.
* *03*: the file holds what the calls have made of it, as long as nothing fails.
* *3.1*: the nine bits are what the user means.
* *module5*: nothing of a module is left when it is gone; a reader gets the message
  that was written, or as much of it as section 4 says.

## 2. The modules

    LineFeed  <--refines-- SemLines  <-- SemLinesProofs
    Exchange  <--refines-- SharedMemory --> ShmSysV, ShmPosix
    SharedMemory <-- SharedMemoryProofs
    QueueChat <-- MCQueueChat, QueueChatProofs
    TcpSelect <-- MCTcpSelect, TcpSelectProofs
    TcpFork   <-- MCTcpFork, TcpForkProofs
    Taxi      <-- TaxiProofs
    ContactBook <--refines-- ContactConsole --> ArrayBook
                             ContactConsole --> ListBook --> Links
                             ContactConsole --> AvlBook  --> AvlTree
    Module2 --> ContactConsole, PQueue --> Links, AvlTree, Permissions
    Programs --> Module2, UdpEcho, Pipeline, PingPong, PosixSem, SignalLog,
                 UdpChat, FixedBook, KbLeds, CharDev, ProcFile
    Module2  <-- Module2Proofs
    Programs <-- MCPrograms, ProgramsProofs --> Module2Proofs

Everywhere a process is a program counter (`ppc`, `cpc[c]`, `spc`, ...) whose
values name the system call or the line it stands before. One action is the
code between two points at which another process can be noticed: a lock
operation, a system call, an access to shared memory. Code without such a point
is one action with everything it does.

**SemLines** (module3/08). `mutex` and `empty` are the semaphores, `sems` says
whether they exist; `lines` is the length of the file, `pos[c]` how much of it
consumer c has read. `SemLock`, `TakePermit` and their like return at once when
the semaphores are gone, because the code ignores what `semop` returns. Every `fopen`
may fail: `ProducerOpenFails` ends main with all its consumers forked, `ConsumerOpenFails`
one consumer.
*LineFeed* is what the file should be to a consumer: lines in order, an end only
at the end.

**ShmSysV** (module3/10). `SigintParent`, `SigintChild` set `running` or wake a
sleeper: the lock and unlock actions have a disjunct in which the sleeping
`semop` returns without effect. Generating and processing a set take two steps
each, so that a process that is inside without the lock can be seen half way.
The child that returns from `consume()` falls into the parent's code on a
segment it has detached (`Segfault`).

**ShmPosix** (module3/11). The names in the kernel are state, and the parent's
counter starts again after a run has ended or was killed (`StartAgain`), so the
histories contain any number of runs.

**SharedMemory** runs one of the two (`program`); what the other one alone has stays
as it is. *Exchange* is common to both: a set is submitted, answered and shown before
the next one.

**QueueChat** (module3/06). `queue` holds typed messages in their order;
`msgrcv` takes the oldest of its type, `msgsnd` waits at `Capacity`. The server
relays to one slot a step (`RelayCopy`), which is where it sleeps. A client is a
writer (`cpc`) and a reader (`reading`), each of which can be killed.

**TcpSelect** (module3/15). A TCP direction is a sequence of characters that a
read takes any prefix of (`Reads`); a line is one character that is not torn and
a newline. `peer[c]` is how far the other end has gone (open, closed, closed and
answered with a reset, reset), from which follow 0, ECONNRESET and SIGPIPE.
`fds` gives out the lowest free descriptor. The client types lines (`Type`), or what is
no line to the server (`TypeOther`): the beginning of a line that does not fit its
buffer, or "file" with the data of a file, which the server never asks for (in the
run a newline and a zero: what a read answers to, and what hides the rest of it). `others`
counts them. The two visitors of the run are symmetric: no definition tells them apart.

**TcpFork** (module3/13). `++` and `--` of the shared counter are a load and a
store. A token is what the client sends in one call; TCP does not tear it, but a read
may take several of them, the read of a file's contents (`ReadData`) the next line too.
What several tokens, or a piece of a file, say when they are read as a line is
`Said`: a piece of a file may say anything, "file" and "exit" included. The client sends
of a file as many chunks as it can read, whatever size it has announced (`SendFile`): none
of a directory, fewer or more when the file changes meanwhile. `astray` remembers whose
file was not all sent, or was taken for the line "file". A process that takes
something else for the length of a file's name writes behind its buffer; from there
(`lost`) only its end is followed.

**Taxi** (module3/c02). The FIFOs of a driver are `cmds[d]` and `msgs[d]`, with
who has them open following from the program counters; contents are discarded
when the last end is closed. Times are "running" or "over".

**module2**. `ContactConsole` is the dialogue of `console_input.c` on any of
three books, which are operators on records: `ArrayBook`, `ListBook` (pointers
are functions from nodes to nodes) and `AvlBook` on `AvlTree`. *ContactBook* is
what all three promise. `PQueue` has a state of its own. `Permissions` is the
program of task 3.1: `mode` is the set of the bits of the mode_t, `meant` the
rights a user would write down. `Module2` puts the four side by side, with the
tree by itself under keys in any order.

**UdpEcho** (module3/c01). A datagram to the server is a port and a kind of
text, one to a client the number in it. Both ends are on one host, so datagrams
keep their order and are not doubled; a full receive buffer drops them
(`MaxLost`). A port can have several sessions, one after the other, and an answer
goes to whoever has it open. `fresh`, `lost`, `unheard` and `closing` remember
what the properties except.

**Pipeline** (module3/04). `ends[P]` are the pipe ends that process P has open,
copied by fork and reduced by dup2 and close. `garbage` is what the never filled
pipes[num_commands - 1] names: any of the standard streams. Commands are filters;
they and the pipes are external.

**PingPong** (module3/07). A sleeper in `mq_receive` is handed the message
directly (`handed`), so the sender cannot take it back; a message sent before the other
sleeps it can. `OneTurn` is what is left of turns then: there is never more than one.
`SentInTurns` is what README.md asks for. The queue keeps its contents over a kill and a
next start.

**PosixSem** (module3/09). As ShmPosix the names are state that outlives a run;
one consumer, the parent. `fopen` may fail in either process. `given_up` says that some
run was killed, could not fork, or could not open the file to read: these leave names.

**SignalLog** (module3/05). `frames` is the stack of handlers with the place of
each; a handler is interrupted by the other signal only. A write to a closed FILE
is undefined: the process goes on or dies.

**UdpChat** (module3/12). `other_addr` has two halves that recvfrom stores and
sendto reads one by one.

**FixedBook** (module3/03). The array and list.bin; a run reads, calls, and
writes contact by contact. Opening, reading and writing may fail: main() goes on with the list
that was read so far, and writes it over the file (`ReadFails`); a run that cannot open
the file for writing leaves it as it was (`OpenFails`). `truth` is what the user has
asked for, `damaged` that such a failure or a kill has lost a part of it.

**KbLeds, CharDev, ProcFile** (module5). `my_timer_func`, `device_open`,
`device_release`, `read_proc` and `write_proc` are cut where another processor
can see the difference: in the device `module_put` and the return of `device_release`
behind it are two steps, and rmmod may come between. A text is a length, a piece of it an
interval. A read of the proc file copies from the beginning of the message whatever was
read before, so it is the lengths given out (`given`), the number of reads (`parts`)
and the longest of them (`reached`) that the model keeps.

**Programs** runs one of these programs per behaviour (`program`); all others
keep their initial state. They share a run because each is small, not because
they share anything else.

## 3. The runs

| run | instance | what it shows |
|---|---|---|
| sem | 3 consumers, 2 lines, SIGINT, failing forks and opens anywhere | exclusion, permits conserved, none missing at the end, order of lines (refinement of LineFeed), everybody ends unless main gave up in a fork or `fopen` |
| sem_lost (violation) | 2 consumers, 4 lines | a line can be read by nobody: fast consumers use the slow ones' permits, meet the end of the file and leave |
| shared_memory | 3 sets a run; 2 SIGINTs to each process of 10; any number of runs, kills and failed starts of 11 | the exchange stays in order in both (refinement of Exchange), even after EINTR has broken the lock of 10, which excludes until the first signal; in 11 exclusion, fresh starts, clean ends, and SIGINT ends a run |
| shm_sysv_stuck (violation) | 2 sets, 1 SIGINT | Ctrl-C during a sleeping lock: the second unlock waits for 0 for ever and the parent waits for the child |
| queue | 2 clients with 3 and 2 lines, table of 2, queue of 3, one kill | own lines never come back, sender order, no mail after shutdown, a relay ends or the queue is full of what nobody takes |
| queue_stuck (violation) | the same without a kill | the clients fill the queue while the server sleeps in `msgsnd`: it never receives again |
| tcp_select | a client with 4 lines, one of which may be none, 2 symmetric visitors, 2 slots, a buffer of 4, one vanishing client | descriptors, counter, buffers, sleeping only in `select`, results in step, no mutual waiting on a connection with lines only, whatever the others send |
| tcp_select_exit (violation) | 1 client, 3 lines | "exit" at the second number kills the server by SIGPIPE |
| tcp_fork | a client with 3 lines and files of at most 1 chunk, a visitor, one failure | what the unlocked counter means; mutual waiting, and lines taken for parts of a file, only when a file was not all sent or its contents were read as the line "file" |
| taxi | 2 drivers, 3 commands, one signal to a driver | answers are current until a notice shifts them, the first command arrives, quit leaves nobody, commands end unless a message was lost |
| programs | array and tree: 3 and 4 contacts with 1 phone number; list: 4 contacts, 3 first names; queue: 4 elements, priorities 0..2; tree: 5 keys; a "byte" of 5 values; rights: 3 triples of digits, 2 of letters, 2 files, every command; echo: 2 and 1 sessions of 2 lines on 2 ports, 1 slot, 1 loss; pipeline: 3 commands, 2 items, pipes of 1; ping-pong: 2 runs of 4 messages; semaphores: 3 starts, 2 lines; signals: 7; UDP: 3 datagrams each way, 2 strangers; fixed book: 2 runs of 3 calls, an array of 2; LEDs: 4 writes; device: 2 processes, 3 opens, a buffer of 4; proc file: 2 callers, 4 calls | see below |
| ping_own (violation) | 1 run of 2 messages | Ping takes its own message and sends again |

Of programs: the books keep what they promise (`KeepsItsContacts`, a refinement of
ContactBook). `BooksKeepOrder`: the array is never overrun, the list is one chain
in the order of names until a name is changed, the tree is what `SpineUntilLost`
says, the bare tree is in order, and the file of 03 holds what the calls made of
it unless a kill or a failed open, read or write has cost it contacts. A stored contact is
found but for the tree's search by name (`StoredIsFound`). `CommandsFailOnlyThen`:
an update is refused only after a deletion, the tree is lost only when its oldest
contact is deleted or a byte overflows, and a contact that has a phone number
never loses its last one. The queue is in order (`QueueInOrder`), the rights are
meant (`RightsAreMeant`). `EchoNumbers`: in a new session that loses nothing, the
answer in the client's hands is the number of its line and no client waits in
vain; `EchoSlots`: a slot is held for a live session, for a CLOSE under way or for
a goodbye that never came, and for nothing else. `WhatGoesInComesOut` and
`PromptsAgain` are the pipelines' safety and liveness; `OneTurn` and
`ExitEndsBoth` those of the ping-pong. `RunsAreWhole`: a refused start needs an
earlier run that was killed or gave up in `fork` or `fopen`, and an undisturbed run reads
every line. `ClosedAtTheThird` and `GoesToTheLatest` except one overlap each (a nested
handler, a torn address). `UnloadIsClean` excepts rmmod under the timer function,
under a call of open() that has no reference yet or was refused, and under the return
from a release that has given its reference back. `ReadersGet`: the device hands out
the last piece of a text whole; from the proc file, as long as calls do not overlap,
reads get as many characters together as the message has, but the message only if
one read takes all of it, since each copies the beginning.

*Why the bounds are enough.* A bound is right when the interesting case happens
within it and a larger instance only repeats it. Three consumers are the fewest
of which two can starve a third; two lines give a permit left from the round
before. Two sets and a third give "the set before, this one, the next"; two
signals to a process give an interrupted lock and an interrupted unlock. A queue
of three is filled by two clients and is larger than a relay. Two slots and three
clients give a full table and a descriptor given out again; four lines are one
calculation and a next line out of step, or three with one that does not end; a buffer of four holds a
line, its newline and a remainder. Three lines in `tcp_fork` are
one more than the shortest way to a line read as a length. The taxi's third command meets what the first two
left. Four contacts make a middle, two ends and one more; BYTE = 5 makes the
overflow of an unsigned char (256 in the code: the 255th contact) happen at the
fourth. In programs one slot for two ports is a full table, and a second session
on a port meets what the first left; three commands have a middle one with both
neighbours; a second run meets what a killed first one left and a third shows
that refusals last; seven signals nest both handlers around the third SIGINT and
end the process; an array of two is overrun by the third call; a text of 7 in a
buffer of 4 takes three writes. The bounds are constants or, where they stand for nothing in the code,
named `Max...`.

*Deadlock.* Every program ends, or waits for a user who has gone, so all runs say
`CHECK_DEADLOCK FALSE`; what must not wait is stated as a property instead
(`NobodyStarves`, `Termination`, `SigintEndsRun`, `RelayEndsOrBlocked`, `NobodyWaitsInVain`,
`OnlyStrayFilesHurt`, `CommandsEnd`, `OneTurn`, `PromptsAgain`).

*Fairness.* A process that can go on is scheduled: weak fairness for its own
steps. System V and POSIX semaphores that change while the other side sleeps a
millisecond outside the lock do wake their sleeper: strong fairness of the lock
operations in 10 and 11 (08 needs weak fairness only). No fairness is assumed of users, signals,
kills, failing calls and connections. The interpreter and the commands of a pipeline, and both ends
of the ping-pong once they receive, are scheduled. In QueueChat a client's reader and leaving
writer are fair, typing is not.

Several properties are conjunctions of parts with names of their own, which
the module states one by one: `RunsAreSeparate` is FreshStart and CleanExit of
ShmPosix, `TableIsSound` is SlotsOwnDescriptors, OnlineCount and Terminated of
TcpSelect, and so on; each part was broken by a mutated definition of its own.

*The type invariants* are proved where a module states one for its state, as
part of the inductive invariant (`TypeCorrect` of SemLines and Taxi among the
theorems; `Types`, `PipeTypes`, ... in the modules of proofs elsewhere); no run
spends a property on one.

## 4. What the code does otherwise than its documents say

* 08 leaves lines unanalysed (`sem_lost`); README.md:1-6 excludes it.
* 10 can hang on Ctrl-C (`shm_sysv_stuck`); README.md:6-7 promises the total.
* 06 can stop forwarding (`queue_stuck`); README.md:4-5.
* 15 is ended by a client that types "exit" when the second number is asked for
  (`tcp_select_exit`); tcp_server_new.h:21-22 offers exit.
* 07: README.md:2-4 asks for two queues and for messages in turns; the code has one
  queue for both directions, although chat.h:13-14 prepares two types, and a process
  can take its own message and send again (`ping_own`). There is one turn all the
  same, unless an input ends, a process is killed, or a killed run has left messages
  (`OneTurn`).
* module2/task3/4.2/tests/queue_test.c:99 expects the most urgent element from
  `dequeueWithMinPriority(15)`; the code returns the first element whose number
  is at least 15. No run states that test's expectation.

* 05 does not end at the third SIGINT, as its README.md says: the handler closes
  the file and restores the default actions, the loop goes on writing to the
  closed file, and the next SIGINT or SIGQUIT ends it (`ClosedAtTheThird`).
* c01: a client that meets the end of its input sends no CLOSE, only SIGINT does;
  its slot is never freed (`EchoSlots`).
* 04: commands beyond MAX_COMMANDS are dropped without a word, and the line is run
  without them.

Other things the models contain and the properties name as exceptions:

* 08: a fork that fails half way, or a producer that cannot open the file, ends main and
  leaves consumers asleep for ever.
* 09: a fork or a consumer's `fopen` that fails leaves both names behind and refuses
  every later start; a producer that cannot open the file leaves the consumer asleep.
* 11: a second SIGINT kills the parent and leaves its names.
* 06: a client that connects twice and leaves once is sent mail for ever.
* 13: the counter counts killed processes and loses updates. Client and process wait for
  each other when a file cannot be opened, when less of it is sent than announced (a
  directory, a file that shrinks), or when its contents stay in the stream and a piece of
  them read as a line says "file".
* 15: the counter counts connections reset before their first prompt. A line that does
  not fit the client's buffer (fgets takes 1022 characters, the newline among them) goes
  out without its newline and is not answered; "file" is answered as a line, but the data the client sends
  behind it is not asked for, and can swallow the line that follows.
* 03: when the file cannot be opened or read, main() goes on with what it has and writes
  that over the file; when it cannot be opened to write, the run's calls are lost.
* module5/task4: rmmod frees the module under a process that is on its way into open()
  without a reference, was refused there, or has given its reference back in
  `device_release` (chardev.c:91) and not yet returned.
* module5/task2: a message read in parts is its beginning several times, its end
  reaches nobody.
* module2/task3/4.3: the AVL tree is never rotated to the right, its 255th contact ends
  the program, and deleting the oldest of several contacts leaves a pointer to freed
  memory.

## 5. The proofs

They hold for every value of the constants, under the modules' named
assumptions (finite sets, natural bounds).

**SemLinesProofs.** The type invariant is not inductive alone: that `i` stays
below MAX_LINES needs to know where the producer's loop stands (`LoopInv`), and
that a consumer is never ahead of the file needs it too. Exclusion needs `LockInv`:
while somebody is in the file the semaphore is 0. `PermitConservation` counts
attempts as a set of pairs <<consumer, attempt>>; each permit taken adds one pair
(`AttemptsFinite`, `SameTaken` keep the cardinality tractable). After the final post there are
more permits than a waiting consumer's absence allows the others to use, hence
`NoStarvation`. `Refinement` maps each step to a step of LineFeed or a stutter.

**SharedMemoryProofs.** The lock of the System V program is broken by EINTR, so the
refinement cannot rest on it. `HandOver` says what `count` alone guarantees: while it is
0 the parent owns the segment, while it is 1 the child does; `Owned` says the same of
the POSIX program. `SemCounts` adds what the System V semaphore says until the first
signal, for `ExclusiveFirst`. `NamesInv` (without SEM_NAME nobody is alive and no object
is left) carries a POSIX run over to the next, `LockInv` gives `Exclusive`, and both
`RunsApart`. A step of SharedMemory is a step of the program that runs (`EveryStep`), so
`Refinement` maps it to a step of Exchange, a new run or a stutter.

**QueueChatProofs.** `MailInOrder` is about the two ends of a line's way: from its
sender to the server, through `msg` into the mail of the others, and onto their
screens. The invariant says that one sender's lines are in order all along it
(`QueueInv`, `MsgInv`, `PrintedInv`, `PrintedMsgInv`, `TypedInv`); that a message leaves
the middle of the queue is dealt with once (`RemoveAtProperties`, `TakenShrinks`).
That the server's id may be a client's as well, which main() allows, breaks nothing:
the server ignores that client, so it never is in the table (`TableInv`). The action
property `NoMailAfterShutdown` rests on `LeftInv`: a client has no more slots than it has
connected times, up to one, so the first slot `remove_client` finds is the only one.

**TcpSelectProofs.** `TableIsSound`, `ReadNeverBlocks` and `NobodyWaitsInVain` need each
other and three more facts. `PlacesInv`: the server knows a connection in one place,
the backlog or one descriptor, so that a descriptor given out again during a scan
belongs to nobody else. `ReadyInv`: what select() reported is of slots in use and
stays true up to the slot the scan has come to; a connection accepted in between gets
a free descriptor, which was not reported. `LinesInv`: on a connection that has sent lines
only, what is under way are whole lines but for the beginning, so a read that takes
everything takes a newline, and is answered; what other connections send does not
matter to it. The action property `ResultsAreInStep` has an invariant of its own on
top of that one, `StepsInv`: a calm connection has one thing under way, the last line
typed or replies, and nothing when its user may type (`CalmInv`), so the slot
holds the last lines taken from it (`SlotsInv`); TLC has checked it on the instance of
the run and on one with two talkers. `LineTaken` is what the buffer, which
is never emptied, is worth when a line comes alone.

**TaxiProofs.** `NamesInv` says which numbers have names and processes, which
gives `QuitLeavesNobody`. For `AnswersMeetCommands`, `CurrentInv` says that until a notice
the only command and the only answer in any FIFO are of the command the server is
about, one after the other; `FirstInv`, that a driver cannot answer its first
command before the server waits, since both open() of server_fifo lie between.

**TcpForkProofs.** `CountInv` follows the unlocked counter with what the parent is about to
add in the sum; a load and a store of two processes that overlap set `raced`, the only
way out of it. `PlacesInv` says where a connection is that has no process yet. For
`OnlyStrayFilesHurt`, `UpAt` says what may stand in the stream behind what (`Sized`: a size
has at least its chunks behind it), `PartAt` that a process that expects a part of a file
finds it at the head and one that reads the contents has enough of them under way
(`Chunks`), and `TurnAt` whose turn it is when nothing is under way; the three are needed
together, since a part is found because it followed the one before it. They are
claimed of clients that are not `astray`.

**Module2Proofs** holds the lemmas on the programs of module2, **ProgramsProofs** those on
the others and all theorems. In each behaviour of Programs one program moves by its own Next,
so each invariant of a program is proved of that Next, and lifted to ProgramsSpec, the
specification of the run, by the same few steps.

* *c01*. `SlotsInv` generalises `EchoSlots`, and is not inductive without `LinesInv`: a
  line in the buffer takes a slot when its turn comes, so every line already needs
  a live session, a lost goodbye, or a goodbye behind it. Taking the first datagram
  shifts the places of all others by one. For `EchoNumbers`, `Talk` names the three
  states a session that lost nothing can be in, with what the server has counted.
* *09*. `NamesInv` says which names exist at each point of main() as long as nothing has
  crashed; `CountInv` that permits, lines in the file and lines read differ by what
  the producer and the consumer have in hand, and by the producer's last post.
* *module5*. A timer taken back while its function is not running stays away
  (`TakenBackInv`). `already_open` is true exactly while one process is inside
  (`ExclusiveInv`), and who is between try_module_get and module_put holds the module
  (`HolderInv`). For `ReadersGet` the writer of the device has filled whole buffers before
  (`WritingInv`), so what is left is the last piece, and the reader has its beginning
  (`ReadingInv`); in the proc file the lengths given and what is left add up to the
  message (`ReadersInv`), and each of several reads was given less than all of it
  (`PartsInv`). Each
  exception the properties make is needed: without it the invariant is broken in that
  window.
* *12*. While nothing overlaps, the stored address is whole and the one last heard
  (`ChatInv`).
* *05*. `FileInv` ties the file to the counter and to the places of the handlers on the
  stack, `RestoreInv` the dispositions to who has still to restore them, `AloneInv` what
  holds while no handler has interrupted the other.
* *07*. `TurnsInv` says what one turn is: a process that may type, one message in
  the queue or in one pair of hands, or nothing after an end of input or a kill.
* *3.1*. `Means` relates mode and rights; the lemmas on the six notations (`DigitBits`,
  `Letter9`, ...) say what each expression of shifts and masks makes of a bit.
* *04*. The flow through a pipeline is a number for each pipe of what has come out of
  the command before it (`Flow`); what has come out of a command is what went in but for
  what lies before it and what it holds, and a command that has ended let all through.
  That holds because every command keeps its own ends until then (`EndsInv`).
* *4.2*. `Walk` and `FirstIn` of PQueue follow pointers by recursive functions, of which
  TLAPS knows nothing but their equation. `ElementsInv` names the chain they follow: a
  sequence along which `next` leads, along whose reverse `prev` leads, with head and tail
  at its ends and ascending priorities. On a chain the walk is the chain
  (`WalksTheChain`) and the search is the first place in it (`FindsTheFirst`, by the least
  element of a set of naturals, `LeastOf`). Enqueueing puts an element into the chain and
  its reverse, taking one leaves it out of both, at the ends and between
  (`LinksWith`, `LinksWithout`, `Backwards...`).

* *Contact books*. `ConsoleInv` says of the book in use that it is sound, and of the
  console that the contact it is about to change is in the book. One lemma for
  each operation of each book says what it makes of a sound book: sound again, with
  just that contact stored or removed (`Stores`, `Removes`). A step of the console is then
  a `GoodStep` whatever book is below it, which gives `ContactsAreKept`, `OrderIsKept`
  and `FailuresAreKnown` at once.
    * *array* (`ArrayInv`): the contacts are within the allocated places, in the order
      of ids, so the search stops at the contact with an id and a deletion
      moves the later ones up by one.
    * *list* (`ListInv`): the chain of the priority queue again, with an entry to every node,
      and names that ascend until one is changed. Where the insertion stops, the names in
      front are smaller and those behind are not, also when a change has broken the order
      and it stops somewhere.
    * *tree* (`AvlInv`): under the console ids only grow and `contacts.c` drops the new root
      after a deletion, so the tree is a chain of left children (`Spine`). Insertion and
      deletion are recursive functions along it; the lemmas give them place by place, from
      the end of the chain, which is finite. It is lost only at the size that no longer fits a
      byte, or with its oldest contact.
    * A search by name (`BookFinds`) takes the first of the name in the array and the list. In
      the tree it turns by name in an order of ids: it misses a contact only behind an
      older one, not the oldest, with a later first name (`NamesFind`).
* *03*. `FixedInv` relates file, array and what the user has asked for at each point of
  a run in which nothing was lost: while the file is being written it holds the contacts
  written so far. Whatever fails, file and array stay within the array's size.
* *4.3, the tree by itself*. `SubTree(M, p, S)` says that the nodes below p are S: there is a
  function from nodes to the keys below each, with which smaller keys lie to the right,
  larger ones to the left, and heights are the larger of two and one. A subtree is taken
  apart into its root and two subtrees and put together again (`SubTreeParts`, `PartsMake`), and
  what goes from the parts to the whole holds for every subtree (`ByParts`: among those
  it fails for there would be one of least height). `insert_node`, `delete_node`, `remove_min`,
  `Leftmost` and `Below` choose a function that solves a recursive equation; `MadeByParts`
  gives one for a subtree, so there is one to choose, and `InsertMade` and its like say what
  it satisfies. `Balances` goes through make_balance: it turns to the left or not at all, and either way
  the keys stay where a search looks for them, although the tree need not be balanced.
  `HangsOnLeft` and `HangsOnRight` say what happens on the way up. `HeightIsSmall` counts: a
  height is at most the number of keys, so with fewer than 255 a byte holds it and no
  difference of heights is taken for another.

The assumptions on the constants of Programs are what the code fixes: sizes are
natural numbers (`SizesAssumption`, `BuffersAssumption`, `PriorityAssumption`, `PipelineAssumption`), an
address is not the name of a place in the program (`AddressesAssumption`), octal digits are
0..7 and a file has some of the bits 0..8 (`RightsAssumption`), names are pairs of numbers and a byte
has more than two values (`BooksAssumption`; the code's has 256). Only `KeysAssumption` excludes
states of the program: the bare tree has fewer than 255 keys, because with 255 in ascending
order an insertion ends the program, which is what the console's own 255th contact does
(`LostByOldestOrByte` has no such assumption). TLC evaluates them all.

*Only model-checked*: liveness under fairness (`Termination`, `SigintEndsRun`,
`RelayEndsOrBlocked`, `CommandsEnd`, `PromptsAgain`, `ExitEndsBoth`), which is beyond the provers
here. Every other property of a passing run is a theorem.

## 6. What is left out

Names, numbers, texts and times are abstracted to what the properties can tell
apart; the head of each module says how. Failing `malloc`, set-up calls that end
the program before anything interacts, printing and the arithmetic of the
calculators are left out. So are a failing `accept`, an end of the input of a TCP
client (13, 15), a `recv` of the client of 15 that cuts a reply in two, and a read of 13
that tears what the client sent with one call; reads that merge calls are modelled, and
so are torn lines in 15. Memory written behind an array is not followed: the
step that would do it is excluded by a bound (taxi, MAX_DRIVERS), ends the
process, or is a state of its own (`crashed`, `lost`, `full`). Two starts of 07 or
09 at the same time are left out: a next run starts when the last one is over.

Not modelled, because there is nothing in which two steps could meet and nothing
is kept from one call to the next: module3/01 (two halves of argv), 02 (one child
at a time), 14 (a socket copied to a file), module5/task1 and task5 (single
answers), the calculators, and the IP calculator, whose outcome is a matter of
rand(). module1 and module4 hold no code.

## 7. The plan

Order: what has most interleavings first, abstract specification before the
detailed one, proofs after TLC agrees.

1. Done: SemLines, SharedMemory with their abstractions and proofs;
   QueueChat; TcpSelect; Taxi; the programs of module2; TcpFork; the smaller
   programs of module3 and the kernel modules, composed in Programs.
2. Done: theorems about every program, its safety properties all of them.
3. Left: liveness, should the provers come to support it, and what 13 and 15 leave
   out (a failing accept, the failures of the set-up, the arithmetic).
