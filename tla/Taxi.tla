-------------------------------- MODULE Taxi --------------------------------
(***************************************************************************)
(* module3/c02: a taxi dispatcher. The server forks driver processes and   *)
(* talks to each over two FIFOs, driver_fifo for commands and server_fifo  *)
(* for replies. It opens them for every command; the driver keeps          *)
(* server_fifo open and reopens driver_fifo after each end of file.        *)
(*                                                                         *)
(* Data: times are "running" or "over"; a message has the number of the    *)
(* command it answers, 0 if nobody asked. Failing fork() and commands with *)
(* an unknown pid change nothing and are left out.                         *)
(***************************************************************************)
EXTENDS Naturals, Sequences

CONSTANTS MaxDrivers,  \* bound: drivers created (the code has no bound)
          MaxCommands, \* bound: commands written
          MaxKills     \* bound: signals sent to drivers from outside

ASSUME BoundsAssumption == MaxDrivers \in Nat /\ MaxCommands \in Nat /\ MaxKills \in Nat

Drivers == 1..MaxDrivers

VARIABLES
  spc,          \* server: "prompt", "forked", "open", "write", "closeD", "openS",
                \*   "wait", "closeS", "killed", "bye"
  driver_count,
  rest,         \* drivers the command typed is still for
  cmd,          \* the command on its way: to, kind, num
  shown,        \* what the last read of a reply returned
  hup,          \* server_fifo has lost its writer since the server opened it
  dpc,          \* dpc[d]: "none", "start", "openD", "openS", "select", "read",
                \*   "reopen", "dead"
  named,        \* drivers whose FIFOs have their names
  cmds,         \* cmds[d]: unread commands in driver_fifo
  seen,         \* seen[d]: driver_fifo had a writer since the driver opened it
  nonblock,     \* nonblock[d]: driver_fifo was opened with O_NONBLOCK
  msgs,         \* msgs[d]: unread replies in server_fifo
  busy,         \* busy[d]: "no", "running", "over"
  kills,
  lost,         \* history: drivers an answer or a command was lost on
  unasked,      \* history: a notice nobody asked for went into a server_fifo
  sent          \* history: sent[d]: commands written to d

driverVars == <<dpc, named, seen, nonblock, busy>>
history == <<lost, unasked, sent>>
vars == <<spc, driver_count, rest, cmd, shown, hup, driverVars, cmds, msgs, kills, history>>

NoCommand == [to |-> 0, kind |-> "none", num |-> 0]

Init ==
  /\ spc = "prompt" /\ driver_count = 0 /\ rest = <<>> /\ cmd = NoCommand
  /\ shown = <<>> /\ hup = FALSE
  /\ dpc = [d \in Drivers |-> "none"] /\ named = {}
  /\ cmds = [d \in Drivers |-> <<>>] /\ msgs = [d \in Drivers |-> <<>>]
  /\ seen = [d \in Drivers |-> FALSE] /\ nonblock = [d \in Drivers |-> FALSE]
  /\ busy = [d \in Drivers |-> "no"]
  /\ kills = 0 /\ lost = {} /\ unasked = FALSE /\ sent = [d \in Drivers |-> 0]

-----------------------------------------------------------------------------
(* The ends of the FIFOs that are open. What is in a FIFO goes when neither *)
(* end is. A reader sees an end of file only after a writer has been there. *)

Alive(d) == dpc[d] \notin {"none", "dead"}
CommandReader(d) == dpc[d] \in {"openD", "openS", "select", "read"}
CommandWriter(d) == spc \in {"write", "closeD"} /\ cmd.to = d
CommandEnd(d) == seen[d] /\ ~CommandWriter(d)
ReplyReader(d) == spc \in {"wait", "closeS"} /\ cmd.to = d
ReplyWriter(d) == dpc[d] \in {"openS", "select", "read", "reopen"}

-----------------------------------------------------------------------------
(* The server. Commands are typed at the prompt.                           *)

others == <<driverVars, cmds, msgs, kills, history>>

Prompt == spc = "prompt" /\ rest = <<>>

\* create_driver: fork() and the entry in drivers[] are two steps.
Fork ==
  /\ Prompt /\ driver_count < MaxDrivers
  /\ dpc' = [dpc EXCEPT ![driver_count + 1] = "start"]
  /\ spc' = "forked"
  /\ UNCHANGED <<driver_count, rest, cmd, shown, hup, named, seen, nonblock, busy,
                 cmds, msgs, kills, history>>

Record ==
  /\ spc = "forked"
  /\ driver_count' = driver_count + 1
  /\ spc' = "prompt"
  /\ UNCHANGED <<rest, cmd, shown, hup, others>>

NextCommand(d, kind) ==
  /\ cmd.num < MaxCommands
  /\ cmd' = [to |-> d, kind |-> kind, num |-> cmd.num + 1]
  /\ spc' = "open"

SendTask ==
  /\ Prompt
  /\ \E d \in 1..driver_count : NextCommand(d, "TASK")
  /\ UNCHANGED <<driver_count, rest, shown, hup, others>>

\* get_status for one driver, get_drivers for all of them in turn.
GetStatus ==
  /\ Prompt
  /\ rest' \in {<<d>> : d \in 1..driver_count} \union {[i \in 1..driver_count |-> i]}
  /\ UNCHANGED <<spc, driver_count, cmd, shown, hup, others>>

NextStatus ==
  /\ spc = "prompt" /\ rest # <<>>
  /\ NextCommand(Head(rest), "STATUS")
  /\ rest' = Tail(rest)
  /\ UNCHANGED <<driver_count, shown, hup, others>>

\* open(driver_fifo): get_status does not wait for a reader, send_task does.
OpenFails ==
  /\ spc = "open"
  /\ \/ cmd.to \notin named
     \/ cmd.kind = "STATUS" /\ ~CommandReader(cmd.to)
  /\ spc' = "prompt"
  /\ UNCHANGED <<driver_count, rest, cmd, shown, hup, others>>

OpenCommand ==
  /\ spc = "open"
  /\ cmd.to \in named /\ CommandReader(cmd.to)
  /\ spc' = "write"
  /\ seen' = [seen EXCEPT ![cmd.to] = TRUE]
  /\ UNCHANGED <<driver_count, rest, cmd, shown, hup, dpc, named, nonblock, busy,
                 cmds, msgs, kills, history>>

\* The server does not ignore SIGPIPE.
Write ==
  /\ spc = "write"
  /\ sent' = [sent EXCEPT ![cmd.to] = @ + 1]
  /\ \/ /\ CommandReader(cmd.to)
        /\ cmds' = [cmds EXCEPT ![cmd.to] = Append(@, cmd)]
        /\ spc' = "closeD" /\ UNCHANGED lost
     \/ /\ ~CommandReader(cmd.to)
        /\ spc' = "killed" /\ lost' = lost \union {cmd.to}
        /\ UNCHANGED cmds
  /\ UNCHANGED <<driver_count, rest, cmd, shown, hup, driverVars, msgs, kills, unasked>>

CloseCommand ==
  /\ spc = "closeD"
  /\ spc' = "openS"
  /\ \/ CommandReader(cmd.to) /\ UNCHANGED <<cmds, lost>>
     \/ /\ ~CommandReader(cmd.to)
        /\ cmds' = [cmds EXCEPT ![cmd.to] = <<>>]
        /\ lost' = IF cmds[cmd.to] = <<>> THEN lost ELSE lost \union {cmd.to}
  /\ UNCHANGED <<driver_count, rest, cmd, shown, hup, driverVars, msgs, kills, unasked, sent>>

OpenReply ==
  /\ spc = "openS"
  /\ spc' = IF cmd.to \in named THEN "wait" ELSE "prompt"
  /\ hup' = FALSE
  /\ UNCHANGED <<driver_count, rest, cmd, shown, others>>

\* select() without a timeout (the timeouts are commented out), and the read.
AwaitReply ==
  /\ spc = "wait"
  /\ msgs[cmd.to] # <<>> \/ hup
  /\ shown' = msgs[cmd.to]
  /\ msgs' = [msgs EXCEPT ![cmd.to] = <<>>]
  /\ spc' = "closeS"
  /\ UNCHANGED <<driver_count, rest, cmd, hup, driverVars, cmds, kills, history>>

CloseReply ==
  /\ spc = "closeS"
  /\ spc' = "prompt"
  /\ msgs' = IF ReplyWriter(cmd.to) THEN msgs ELSE [msgs EXCEPT ![cmd.to] = <<>>]
  /\ UNCHANGED <<driver_count, rest, cmd, shown, hup, driverVars, cmds, kills, history>>

-----------------------------------------------------------------------------
(* A driver process.                                                       *)

serverVars == <<spc, driver_count, rest, cmd, shown, hup, kills>>

\* Both FIFOs are made, open() of driver_fifo waits for a writer.
MakeFifos(d) ==
  /\ dpc[d] = "start"
  /\ named' = named \union {d}
  /\ dpc' = [dpc EXCEPT ![d] = "openD"]
  /\ UNCHANGED <<serverVars, seen, nonblock, busy, cmds, msgs, history>>

DriverOpenD(d) ==
  /\ dpc[d] = "openD" /\ seen[d]
  /\ dpc' = [dpc EXCEPT ![d] = "openS"]
  /\ UNCHANGED <<serverVars, named, seen, nonblock, busy, cmds, msgs, history>>

\* Mutant: server_fifo is opened with O_RDWR, which does not wait.
DriverOpenSAtOnce(d) ==
  /\ dpc[d] = "openS"
  /\ dpc' = [dpc EXCEPT ![d] = "select"]
  /\ UNCHANGED <<serverVars, named, seen, nonblock, busy, cmds, msgs, history>>

\* open() of server_fifo waits for a reader.
DriverOpenS(d) ==
  /\ dpc[d] = "openS" /\ ReplyReader(d)
  /\ dpc' = [dpc EXCEPT ![d] = "select"]
  /\ UNCHANGED <<serverVars, named, seen, nonblock, busy, cmds, msgs, history>>

\* Writing to server_fifo: without a reader it fails with EPIPE, which the driver
\* ignores. skipped: whether commands were read that are not looked at.
Tell(d, num, kinds, skipped) ==
  /\ msgs' = IF ReplyReader(d)
             THEN [msgs EXCEPT ![d] = @ \o [k \in DOMAIN kinds |-> [num |-> num, kind |-> kinds[k]]]]
             ELSE msgs
  /\ lost' = IF skipped \/ (num # 0 /\ ~ReplyReader(d)) THEN lost \union {d} ELSE lost
  /\ unasked' = (unasked \/ (num = 0 /\ ReplyReader(d)))
  /\ UNCHANGED sent

\* select() returns; a task whose time is over is noticed now, and only now.
DriverWakes(d) ==
  /\ dpc[d] = "select" /\ (cmds[d] # <<>> \/ CommandEnd(d))
  /\ dpc' = [dpc EXCEPT ![d] = "read"]
  /\ \/ busy[d] = "over" /\ busy' = [busy EXCEPT ![d] = "no"] /\ Tell(d, 0, <<"available">>, FALSE)
     \/ busy[d] # "over" /\ UNCHANGED <<busy, msgs, history>>
  /\ UNCHANGED <<serverVars, named, seen, nonblock, cmds>>

\* Mutant: the refusal of a task is not sent.
AnswerAcceptedOnly(d, kind) ==
  IF kind = "TASK" /\ busy[d] # "no" THEN <<>>
  ELSE IF kind = "TASK" \/ busy[d] # "no" THEN <<"busy">> ELSE <<"available">>

\* Mutant: after a task has been accepted the error is sent as well.
AnswerNoElse(d, kind) ==
  IF kind = "TASK" THEN (IF busy[d] = "no" THEN <<"busy", "error">> ELSE <<"error">>)
  ELSE IF busy[d] = "no" THEN <<"available">> ELSE <<"busy">>

AnswerTo(d, kind) ==
  IF kind = "TASK" THEN (IF busy[d] = "no" THEN <<"busy">> ELSE <<"error">>)
  ELSE IF busy[d] = "no" THEN <<"available">> ELSE <<"busy">>

\* One read() takes all that is there, but only the first command is looked at.
DriverReads(d) ==
  /\ dpc[d] = "read" /\ cmds[d] # <<>>
  /\ LET c == Head(cmds[d]) IN
       /\ busy' = [busy EXCEPT ![d] = IF c.kind = "TASK" /\ @ = "no" THEN "running" ELSE @]
       /\ Tell(d, c.num, AnswerTo(d, c.kind), Len(cmds[d]) > 1)
  /\ cmds' = [cmds EXCEPT ![d] = <<>>]
  /\ dpc' = [dpc EXCEPT ![d] = "select"]
  /\ UNCHANGED <<serverVars, named, seen, nonblock>>

\* With O_NONBLOCK a read that finds a writer and no data fails (EAGAIN);
\* without it the driver sleeps in read() until one of the other two happens.
DriverReadsNothing(d) ==
  /\ dpc[d] = "read" /\ cmds[d] = <<>>
  /\ \/ CommandEnd(d) /\ dpc' = [dpc EXCEPT ![d] = "reopen"]
     \/ CommandWriter(d) /\ nonblock[d] /\ dpc' = [dpc EXCEPT ![d] = "select"]
  /\ UNCHANGED <<serverVars, named, seen, nonblock, busy, cmds, msgs, history>>

DriverReopens(d) ==
  /\ dpc[d] = "reopen"
  /\ dpc' = [dpc EXCEPT ![d] = "select"]
  /\ nonblock' = [nonblock EXCEPT ![d] = TRUE]
  /\ seen' = [seen EXCEPT ![d] = CommandWriter(d)]
  /\ UNCHANGED <<serverVars, named, busy, cmds, msgs, history>>

TimeRunsOut(d) ==
  /\ busy[d] = "running"
  /\ busy' = [busy EXCEPT ![d] = "over"]
  /\ UNCHANGED <<serverVars, dpc, named, seen, nonblock, cmds, msgs, history>>

-----------------------------------------------------------------------------
(* The end of processes.                                                   *)

\* The drivers in K are killed; FIFOs without any open end are emptied.
Die(K) ==
  /\ dpc' = [d \in Drivers |-> IF d \in K THEN "dead" ELSE dpc[d]]
  /\ cmds' = [d \in Drivers |-> IF d \in K /\ ~CommandWriter(d) THEN <<>> ELSE cmds[d]]
  /\ msgs' = [d \in Drivers |-> IF d \in K /\ ~ReplyReader(d) THEN <<>> ELSE msgs[d]]
  /\ hup' = (hup \/ \E d \in K : ReplyReader(d) /\ ReplyWriter(d))
  /\ lost' = lost \union {d \in K : cmds[d] # <<>> /\ ~CommandWriter(d)}

AllRecorded == 1..driver_count

\* Mutant: only drivers that have made their FIFOs are killed.
VictimsWithFifos == AllRecorded \intersect named
Victims == AllRecorded

\* cleanup, at "exit" or in the handler of SIGINT and SIGTERM: SIGTERM and
\* SIGKILL to every driver in the table, three seconds, the FIFOs are unlinked.
Quit ==
  /\ spc \notin {"killed", "bye"}
  /\ spc' = "bye"
  /\ Die(Victims)
  /\ named' = named \ AllRecorded
  /\ UNCHANGED <<driver_count, rest, cmd, shown, seen, nonblock, busy, kills, unasked, sent>>

\* SIGKILL to a driver.
KillDriver(d) ==
  /\ Alive(d) /\ kills < MaxKills
  /\ kills' = kills + 1
  /\ Die({d})
  /\ UNCHANGED <<spc, driver_count, rest, cmd, shown, named, seen, nonblock, busy, unasked, sent>>

\* SIGTERM or SIGINT to a driver: fork() gave it the server's handler and a copy
\* of drivers[] with all that are older, which it cleans up before it exits.
TermDriver(d) ==
  /\ Alive(d) /\ kills < MaxKills
  /\ kills' = kills + 1
  /\ Die(1..d)
  /\ named' = named \ (1..(d - 1))
  /\ UNCHANGED <<spc, driver_count, rest, cmd, shown, seen, nonblock, busy, unasked, sent>>

-----------------------------------------------------------------------------
Exchange ==
  \/ Record \/ NextStatus \/ OpenFails \/ OpenCommand \/ Write \/ CloseCommand
  \/ OpenReply \/ AwaitReply \/ CloseReply

DriverStep(d) ==
  \/ MakeFifos(d) \/ DriverOpenD(d) \/ DriverOpenS(d) \/ DriverWakes(d)
  \/ DriverReads(d) \/ DriverReadsNothing(d) \/ DriverReopens(d)

Next ==
  \/ Fork \/ SendTask \/ GetStatus \/ Exchange \/ Quit
  \/ \E d \in Drivers : DriverStep(d) \/ TimeRunsOut(d) \/ KillDriver(d) \/ TermDriver(d)

Spec == Init /\ [][Next]_vars

\* A command typed is carried on and drivers run; nobody has to type one.
FairSpec == Spec /\ WF_vars(Exchange) /\ \A d \in Drivers : WF_vars(DriverStep(d))

-----------------------------------------------------------------------------
(* Properties.                                                             *)

Command == [to : Drivers, kind : {"TASK", "STATUS"}, num : 1..MaxCommands]
Reply == [num : 0..MaxCommands, kind : {"busy", "available", "error"}]
TypeOK ==
  /\ spc \in {"prompt", "forked", "open", "write", "closeD", "openS", "wait", "closeS",
              "killed", "bye"}
  /\ driver_count \in 0..MaxDrivers /\ \A d \in 1..driver_count : dpc[d] # "none"
  /\ rest \in Seq(Drivers)
  /\ cmd \in Command \union {NoCommand}
  /\ shown \in Seq(Reply)
  /\ hup \in BOOLEAN
  /\ dpc \in [Drivers -> {"none", "start", "openD", "openS", "select", "read", "reopen", "dead"}]
  /\ named \subseteq Drivers
  /\ cmds \in [Drivers -> Seq(Command)] /\ msgs \in [Drivers -> Seq(Reply)]
  /\ seen \in [Drivers -> BOOLEAN] /\ nonblock \in [Drivers -> BOOLEAN]
  /\ busy \in [Drivers -> {"no", "running", "over"}]
  /\ kills \in 0..MaxKills /\ lost \subseteq Drivers /\ unasked \in BOOLEAN
  /\ sent \in [Drivers -> Nat]

\* What the server shows in answer to a command is the answer to that command
\* and nothing else, as long as no driver has announced the end of a task while
\* the server had its server_fifo open: those notices shift the answers, since
\* what is unread when the server closes the FIFO is read for the next command.
AnswerIsCurrent ==
  spc = "closeS" /\ ~unasked =>
    shown = <<>> \/ (Len(shown) = 1 /\ shown[1].num = cmd.num)

\* The first command a driver is sent is not lost and nor is its answer, unless
\* the driver is killed: the two open() that wait make the processes meet. Later
\* ones can be lost, by an answer written before the server has opened
\* server_fifo and by a command written while the driver reopens driver_fifo.
FirstCommandArrives == kills = 0 /\ spc # "bye" => \A d \in lost : sent[d] >= 2

\* Answers meet the commands they belong to, under the two conditions above
\* (server.c:75-138).
AnswersMeetCommands == AnswerIsCurrent /\ FirstCommandArrives

\* A command comes to its end, and the server back to its prompt, unless a
\* message was lost or a driver killed: only then it waits for ever, in select()
\* or in open().
CommandsEnd ==
  (spc \in {"open", "write", "closeD", "openS", "wait", "closeS"}) ~>
    \/ spc \in {"prompt", "killed", "bye"}
    \/ lost # {} \/ kills > 0

\* After cleanup no driver runs and no FIFO is left, but for one that a signal
\* caught between fork() and its entry in the table.
QuitLeavesNobody ==
  spc = "bye" => \A d \in Drivers : Alive(d) \/ d \in named => d = driver_count + 1
=============================================================================
