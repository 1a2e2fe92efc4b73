------------------------------ MODULE Programs ------------------------------
(***************************************************************************)
(* The smaller programs of the repository, one of them at a time: those of *)
(* module2, the shorter ones of module3 and the kernel modules of module5. *)
(* Each has variables and bounds of its own; the ones that do not run keep *)
(* their initial state.                                                    *)
(***************************************************************************)
EXTENDS Module2

VARIABLE program

\* c01
CONSTANTS Ports, MAX_CLIENTS, MaxSessions, MaxTyped, MaxLost
VARIABLES clients, serving, toServer, user, toClient, typed, closing, sessions, lost, unheard, fresh
Echo == INSTANCE UdpEcho
echoVars == <<clients, serving, toServer, user, toClient, typed, closing, sessions, lost, unheard,
              fresh>>

\* 04
CONSTANTS MaxStages, Items, PipeSize, MaxLines
VARIABLES shell, num_commands, broken, garbage, stage, ends, std, holds, pipe, input, output, hurt,
          lines_typed
Pipes == INSTANCE Pipeline
pipeVars == <<shell, num_commands, broken, garbage, stage, ends, std, holds, pipe, input, output,
              hurt, lines_typed>>

\* 07
CONSTANTS MAX_QUEUE_SIZE, MaxGames, MaxTexts
VARIABLES where, mq, handed, named, began_empty, silent, killed, texts, games
Ping == INSTANCE PingPong
pingVars == <<where, mq, handed, named, began_empty, silent, killed, texts, games>>

\* 09
CONSTANTS MAX_LINES, MaxStarts
VARIABLES names, main, prod, sem, empty, in_file, lines_read, permits, hit, given_up, starts
Sems == INSTANCE PosixSem
semVars == <<names, main, prod, sem, empty, in_file, lines_read, permits, hit, given_up, starts>>

\* 05
CONSTANT MaxSignals
VARIABLES frames, counter, begun, file, disposition, process, closings, nested, signals
Signal == INSTANCE SignalLog
sigVars == <<frames, counter, begun, file, disposition, process, closings, nested, signals>>

\* 12
CONSTANTS Peer, Strangers, MaxMails
VARIABLES other_addr, recv_thread, send_thread, latest, target, seen, raced, mails
Chat == INSTANCE UdpChat
chatVars == <<other_addr, recv_thread, send_thread, latest, target, seen, raced, mails>>

\* 03
CONSTANTS MAX_CONTACT_SIZE, People, Workplaces, MaxRuns, MaxCalls
VARIABLES bin, list, doing, written, truth, damaged, runs, calls
Fixed == INSTANCE FixedBook
fixedVars == <<bin, list, doing, written, truth, damaged, runs, calls>>

\* module5/task3
CONSTANTS Written, MaxStores
VARIABLES module, timer, func, led, _kbledstatus, leds, overtaken, stores
Leds == INSTANCE KbLeds
ledVars == <<module, timer, func, led, _kbledstatus, leds, overtaken, stores>>

\* module5/task4
CONSTANTS Procs, BUF_LEN, Texts, MaxOpens
VARIABLES already_open, step, holding, module_state, msg, offset, text, accepted, heard,
          overtaken_call, opens
Device == INSTANCE CharDev
devVars == <<already_open, step, holding, module_state, msg, offset, text, accepted, heard,
             overtaken_call, opens>>

\* module5/task2
CONSTANTS Callers, PROCFS_MAX_SIZE, Counts, MaxProcCalls
VARIABLES len, temp, call, count, loaded, given, parts, reached, beyond, overlapped, proc_calls
Proc == INSTANCE ProcFile
procVars == <<len, temp, call, count, loaded, given, parts, reached, beyond, overlapped, proc_calls>>

ASSUME SizesAssumption == MAX_LINES \in Nat /\ MAX_CONTACT_SIZE \in Nat
\* An address is no place of a thread.
ASSUME AddressesAssumption ==
  {"recvfrom", "cancelled", "fgets", "quit"} \intersect ({Peer} \union Strangers) = {}
ASSUME BuffersAssumption ==
  /\ BUF_LEN \in Nat /\ BUF_LEN > 1 /\ Texts \subseteq Nat
  /\ PROCFS_MAX_SIZE \in Nat /\ PROCFS_MAX_SIZE > 0 /\ Counts \subseteq Nat
ASSUME PipelineAssumption == MaxStages \in Nat /\ Items \in Nat

-----------------------------------------------------------------------------
Start ==
  /\ Module2Init
  /\ Echo!Init /\ Pipes!Init /\ Ping!Init /\ Sems!Init /\ Signal!Init /\ Chat!Init /\ Fixed!Init
  /\ Leds!Init /\ Device!Init /\ Proc!Init
  /\ program \in {"book", "queue", "tree", "rights", "echo", "pipes", "ping", "sems", "signal",
                  "chat", "fixed", "leds", "device", "proc"}
  /\ program # "book" => kind = "array"

Turn ==
  \/ program = "book" /\ Next
  \/ program = "queue" /\ Queue!Next
  \/ program = "tree" /\ TreeNext
  \/ program = "rights" /\ Rights!Next
  \/ program = "echo" /\ Echo!Next
  \/ program = "pipes" /\ Pipes!Next
  \/ program = "ping" /\ Ping!Next
  \/ program = "sems" /\ Sems!Next
  \/ program = "signal" /\ Signal!Next
  \/ program = "chat" /\ Chat!Next
  \/ program = "fixed" /\ Fixed!Next
  \/ program = "leds" /\ Leds!Next
  \/ program = "device" /\ Device!Next
  \/ program = "proc" /\ Proc!Next

\* The others stay as they are.
Keep(p, itsVars) == IF program = p THEN TRUE ELSE UNCHANGED itsVars
Others ==
  /\ Keep("book", vars) /\ Keep("queue", queueVars) /\ Keep("tree", tree)
  /\ Keep("rights", permVars) /\ Keep("echo", echoVars) /\ Keep("pipes", pipeVars)
  /\ Keep("ping", pingVars) /\ Keep("sems", semVars) /\ Keep("signal", sigVars)
  /\ Keep("chat", chatVars) /\ Keep("fixed", fixedVars) /\ Keep("leds", ledVars)
  /\ Keep("device", devVars) /\ Keep("proc", procVars)

allVars == <<program, vars, queueVars, tree, permVars, echoVars, pipeVars, pingVars, semVars,
             sigVars, chatVars, fixedVars, ledVars, devVars, procVars>>

\* The processes of a pipeline and of the ping-pong are scheduled.
Fairness ==
  /\ WF_pipeVars(program = "pipes" /\ Pipes!InterpreterStep)
  /\ \A k \in Pipes!Stages : WF_pipeVars(program = "pipes" /\ Pipes!StageStep(k))
  /\ \A P \in Ping!Both : WF_pingVars(program = "ping" /\ Ping!Moves(P))

ProgramsSpec ==
  /\ Start /\ [][Turn /\ Others /\ UNCHANGED program]_allVars
  /\ Fairness

-----------------------------------------------------------------------------
(* What each program promises, as its module states it.                    *)

\* The books of module2 are sound (ContactConsole), so is the tree under keys in
\* any order (Module2), and the book of module3/03 and its file (FixedBook).
BooksKeepOrder == BooksAreSound /\ TreeKeepsOrder /\ Fixed!FileKeepsContacts

\* Answers carry the line's number in its session (c01/server.c:141-177).
EchoNumbers == Echo!EchoNumbers
\* Slots are taken for live sessions or for lost goodbyes (c01/server.c:34-62).
EchoSlots == Echo!EchoSlots

\* The interpreter returns to its prompt (04/interpreter.c:121-135).
PromptsAgain == Pipes!PromptsAgain
\* Nothing is lost in a pipeline of which no part fails (04/interpreter.c:63-119).
WhatGoesInComesOut == Pipes!WhatGoesInComesOut

\* Two processes on one queue have one turn between them, though not by turns
\* (07/posix_queue_chat.c:22-61).
OneTurn == Ping!OneTurn
\* "exit" ends both and removes the queue (07/posix_queue_chat.c:92-101).
ExitEndsBoth == Ping!ExitEndsBoth

\* A run that is not hit reads all lines; names stay only after a run that was killed
\* or gave up (09/sem.c).
RunsAreWhole == Sems!RunsAreWhole

\* The third SIGINT closes the file, once (05/signal.c:11-37).
ClosedAtTheThird == Signal!ClosedAtTheThird

\* A message goes to one whole address, the latest (12/udp_client.c:7-39).
GoesToTheLatest == Chat!GoesToTheLatest

\* Neither kernel module leaves anything running or open behind (kbleds.c:134-141,
\* chardev.c:57-93), except where rmmod overlaps the timer function, a call of open()
\* or the return from a release.
UnloadIsClean == Leds!UnloadIsClean /\ Device!UnloadIsClean

\* The character device hands out the last piece of a text whole; the proc file hands
\* out its message whole to one read that takes all of it, and otherwise the beginning
\* of it several times (chardev.c:98-154, proc.c:14-35).
ReadersGet == Device!MessagesComeWhole /\ Proc!WholeOnlyAtOnce
=============================================================================
