----------------------------- MODULE TcpSelect ------------------------------
(***************************************************************************)
(* module3/15: a calculator server. One process multiplexes its clients    *)
(* with select(); a client sends an operation and two numbers, one line    *)
(* each, and may only speak after it has heard something.                  *)
(*                                                                         *)
(* Data: the text of a line is one character <<kind, n>>, n counting the   *)
(* lines of its client; "op" is one of + - * /, "exit" the word, "num" any *)
(* other text. Numbers are not computed: a result is the three texts it    *)
(* was made from. A reply is only counted, and recv() does not cut one in  *)
(* two. accept() does not fail (a full table is 100 descriptors); the      *)
(* standard input of a client does not end.                                *)
(***************************************************************************)
EXTENDS Naturals, FiniteSets, Sequences, FiniteSetsExt

CONSTANTS Conns,       \* connections, in the course of a run
          MAX_CLIENTS, \* slots of the table
          BUFFER_SIZE, \* characters in the buffer of a slot
          MaxLines,    \* bound: MaxLines[c] lines typed on connection c
          MaxOthers,   \* bound: what a client sends that is no line, per connection
          MaxLosses    \* bound: clients that vanish

\* What is stored for a descriptor that is not open.
NoConn == "none"

ASSUME ConnsAssumption ==
  IsFiniteSet(Conns) /\ NoConn \notin Conns /\ MaxLines \in [Conns -> Nat]
ASSUME SizeAssumption == MAX_CLIENTS \in Nat /\ BUFFER_SIZE \in Nat /\ BUFFER_SIZE >= 4

VARIABLES
  spc,      \* server: "select", "accept", "scan", "killed", "stopped"
  ready,    \* client descriptors in read_fds after select()
  from,     \* loop variable i of the scan
  slots,    \* clients[]
  nclients,
  fds,      \* descriptors of the server: connection or NoConn
  backlog,  \* connections not yet accepted
  shut,     \* connections the server has closed
  peer,     \* peer[c]: how far the other end has gone, as the server's kernel knows
  up,       \* up[c]: characters on their way to the server
  replies,  \* replies[c]: replies written and not yet received
  user,     \* user[c]: "off", "recv", "type", "closed"
  typed,    \* typed[c]: lines typed
  others,   \* others[c]: what was sent on connection c that is no line
  losses,   \* clients that vanished
  calm,     \* history: connections whose lines and replies came one at a time
  unwelcome \* history: connections reset before their first prompt

clientVars == <<user, typed, others, losses>>
history == <<calm, unwelcome>>
vars == <<spc, ready, from, slots, nclients, fds, backlog, shut,
          peer, up, replies, clientVars, history>>

ListenFd == 3
Fds == (ListenFd + 1)..(ListenFd + Cardinality(Conns))
Slots == 1..MAX_CLIENTS
NL == <<"nl", 0>>
NUL == <<"nul", 0>>
Kinds == {"op", "num", "exit"}
Blank == [k \in 1..BUFFER_SIZE |-> NUL]
FreeSlot == [sockfd |-> 0, state |-> "OP", op |-> <<>>, first_num |-> <<>>, buffer |-> Blank]

Used == {i \in Slots : slots[i].sockfd # 0}
ConnOf(i) == fds[slots[i].sockfd]

Init ==
  /\ spc = "select" /\ ready = {} /\ from = 1
  /\ slots = [i \in Slots |-> FreeSlot] /\ nclients = 0
  /\ fds = [f \in Fds |-> NoConn]
  /\ backlog = <<>> /\ shut = {}
  /\ peer = [c \in Conns |-> "open"]
  /\ up = [c \in Conns |-> <<>>]
  /\ replies = [c \in Conns |-> 0]
  /\ user = [c \in Conns |-> "off"]
  /\ typed = [c \in Conns |-> 0] /\ others = [c \in Conns |-> 0] /\ losses = 0
  /\ calm = Conns /\ unwelcome = {}

-----------------------------------------------------------------------------
(* Sockets. The first write to a peer that has closed (FIN) succeeds and    *)
(* brings back a RST, sooner or later; a write after that raises SIGPIPE,   *)
(* which kills the server. A peer that resets the connection makes one      *)
(* write fail with ECONNRESET.                                              *)

Readable(c) == up[c] # <<>> \/ peer[c] # "open"

\* One write or two succeed, leaving the peer in p.
Written(c, p) ==
  \/ peer[c] = "open" /\ p = "open"
  \/ peer[c] = "fin" /\ p \in {"fin", "broken"}
WriteFails(c) == peer[c] = "reset"
WriteKills(c, n) == peer[c] = "broken" \/ (peer[c] = "fin" /\ n > 1)

\* Mutant: the count is not adjusted.
CloseClientUncounted(i) ==
  /\ fds' = [fds EXCEPT ![slots[i].sockfd] = NoConn]
  /\ shut' = shut \union {ConnOf(i)}
  /\ slots' = [slots EXCEPT ![i] = FreeSlot]
  /\ UNCHANGED nclients

\* close_client. (The code leaves the buffer, the operation and the number: dead,
\* for init_client clears the one and the others are set before they are used.)
CloseClient(i) ==
  /\ fds' = [fds EXCEPT ![slots[i].sockfd] = NoConn]
  /\ shut' = shut \union {ConnOf(i)}
  /\ slots' = [slots EXCEPT ![i] = FreeSlot]
  /\ nclients' = nclients - 1

\* n replies to the client of slot i, which is s when they have been written.
Answer(i, n, s) ==
  LET c == ConnOf(i) IN
  \/ /\ \E p \in {"open", "fin", "broken"} : Written(c, p) /\ peer' = [peer EXCEPT ![c] = p]
     /\ replies' = [replies EXCEPT ![c] = @ + n]
     /\ slots' = [slots EXCEPT ![i] = s]
     /\ spc' = spc
     /\ UNCHANGED <<nclients, fds, shut>>
  \/ /\ WriteFails(c)
     /\ CloseClient(i)
     /\ spc' = spc
     /\ UNCHANGED <<peer, replies>>
  \/ /\ WriteKills(c, n)
     /\ spc' = "killed"
     /\ UNCHANGED <<slots, nclients, fds, shut, peer, replies>>

-----------------------------------------------------------------------------
(* A line. The buffer is never emptied: a read overwrites its beginning     *)
(* and the first newline before a NUL ends the line, whoever wrote it.      *)

Overlay(buffer, s) == [k \in 1..BUFFER_SIZE |-> IF k <= Len(s) THEN s[k] ELSE buffer[k]]

\* Mutant: a read may fill the whole buffer.
ReadFull(c) == {SubSeq(up[c], 1, k) : k \in 1..Min({Len(up[c]), BUFFER_SIZE})}

\* What one read() may return: any number of characters that have arrived.
Reads(c) == {SubSeq(up[c], 1, k) : k \in 1..Min({Len(up[c]), BUFFER_SIZE - 1})}

LineEnds(buffer) ==
  {k \in 1..BUFFER_SIZE : buffer[k] = NL /\ \A j \in 1..(k - 1) : buffer[j] \notin {NL, NUL}}
IsWord(text, kind) == Len(text) = 1 /\ text[1][1] = kind


\* Mutant: an unknown operation is not answered.
HandleOpSilently(i, text, s) ==
  \/ /\ IsWord(text, "exit")
     /\ CloseClient(i)
     /\ UNCHANGED <<spc, peer, replies>>
  \/ /\ IsWord(text, "op")
     /\ Answer(i, 1, [s EXCEPT !.op = text, !.state = "FIRST"])
  \/ /\ ~IsWord(text, "op") /\ ~IsWord(text, "exit")
     /\ slots' = [slots EXCEPT ![i] = s]
     /\ UNCHANGED <<spc, nclients, fds, shut, peer, replies>>

\* WAITING_FOR_OP; anything else than an operation or "exit" gets the menu.
HandleOp(i, text, s) ==
  \/ /\ IsWord(text, "exit")
     /\ CloseClient(i)
     /\ UNCHANGED <<spc, peer, replies>>
  \/ /\ IsWord(text, "op")
     /\ Answer(i, 1, [s EXCEPT !.op = text, !.state = "FIRST"])
  \/ /\ ~IsWord(text, "op") /\ ~IsWord(text, "exit")
     /\ Answer(i, 1, s)

\* WAITING_FIRST_NUM
HandleFirst(i, text, s) == Answer(i, 1, [s EXCEPT !.first_num = text, !.state = "SECOND"])

Result == <<<<"num", 0>>, NL, NUL>>

\* Mutant: after a result the client is still asked for a second number.
HandleSecondAgain(i, s) == Answer(i, 2, [s EXCEPT !.buffer = Overlay(@, Result)])

\* WAITING_SECOND_NUM: the result is printed into the buffer, newline and all,
\* and sent; the menu follows. The operation and the number are dead then.
HandleSecond(i, s) ==
  Answer(i, 2, [s EXCEPT !.buffer = Overlay(@, Result), !.state = "OP",
                         !.op = <<>>, !.first_num = <<>>])

\* What follows the read; s is the slot with the new characters in its buffer.
HandleBuffer(i, s) ==
  \/ /\ LineEnds(s.buffer) = {}
     /\ slots' = [slots EXCEPT ![i] = s]
     /\ UNCHANGED <<spc, nclients, fds, shut, peer, replies>>
  \/ \E k \in LineEnds(s.buffer) :
       LET text == SubSeq(s.buffer, 1, k - 1)
           cut  == [s EXCEPT !.buffer[k] = NUL]
       IN \/ s.state = "OP" /\ HandleOp(i, text, cut)
          \/ s.state = "FIRST" /\ HandleFirst(i, text, cut)
          \/ s.state = "SECOND" /\ HandleSecond(i, cut)

\* process_client_data: end of stream and errors close, data is looked at. With
\* neither the read sleeps, and the server with it.
ProcessClientData(i) ==
  LET c == ConnOf(i) IN
  \/ \E read \in Reads(c) :
       /\ up' = [up EXCEPT ![c] = SubSeq(@, Len(read) + 1, Len(@))]
       /\ calm' = IF Len(read) = 2 /\ read = up[c] THEN calm ELSE calm \ {c}
       /\ HandleBuffer(i, [slots[i] EXCEPT !.buffer = Overlay(@, read)])
  \/ /\ up[c] = <<>> /\ peer[c] # "open"
     /\ CloseClient(i)
     /\ UNCHANGED <<spc, peer, up, replies, calm>>

-----------------------------------------------------------------------------
(* The loop of run_server.                                                 *)

Select ==
  /\ spc = "select"
  /\ \/ \E i \in Used : Readable(ConnOf(i))
     \/ backlog # <<>>
  /\ ready' = {slots[i].sockfd : i \in {j \in Used : Readable(ConnOf(j))}}
  /\ spc' = IF backlog # <<>> THEN "accept" ELSE "scan"
  /\ UNCHANGED <<from, slots, nclients, fds, backlog, shut, peer, up, replies, clientVars, history>>

FreeFd(f) == f \in Fds /\ fds[f] = NoConn /\ \A g \in Fds : g < f => fds[g] # NoConn
FreeAt(i) == i \in Slots \ Used /\ \A j \in Slots : j < i => j \in Used

\* Mutant: a connection there is no slot for is not closed.
RefuseOpen(c, f) ==
  /\ fds' = [fds EXCEPT ![f] = c]
  /\ UNCHANGED <<slots, nclients, shut, peer, replies, unwelcome>>

\* "Too many clients!"
Refuse(c, f) ==
  /\ shut' = shut \union {c}
  /\ UNCHANGED <<slots, nclients, fds, peer, replies, unwelcome>>

\* init_client; when its write fails the slot is free again, but the
\* connection stays counted. There is no write after this one to be killed by.
InitClient(c, f, i) ==
  /\ nclients' = nclients + 1
  /\ \/ /\ \E p \in {"open", "fin", "broken"} : Written(c, p) /\ peer' = [peer EXCEPT ![c] = p]
        /\ replies' = [replies EXCEPT ![c] = @ + 1]
        /\ slots' = [slots EXCEPT ![i] = [FreeSlot EXCEPT !.sockfd = f]]
        /\ fds' = [fds EXCEPT ![f] = c]
        /\ UNCHANGED <<shut, unwelcome>>
     \/ /\ WriteFails(c)
        /\ shut' = shut \union {c}
        /\ unwelcome' = unwelcome \union {c}
        /\ UNCHANGED <<slots, fds, peer, replies>>

Accept ==
  /\ spc = "accept"
  /\ \E f \in Fds :
       /\ FreeFd(f)
       /\ \/ \E i \in Slots : FreeAt(i) /\ InitClient(Head(backlog), f, i)
          \/ Used = Slots /\ Refuse(Head(backlog), f)
  /\ backlog' = Tail(backlog)
  /\ spc' = "scan"
  /\ UNCHANGED <<ready, from, up, clientVars, calm>>

\* Mutant: FD_ISSET is not asked.
DueAnyway(i) == i \in Used
Due(i) == i \in Used /\ slots[i].sockfd \in ready

Serve ==
  /\ spc = "scan"
  /\ \E i \in Slots :
       /\ i >= from /\ Due(i) /\ \A j \in from..(i - 1) : ~Due(j)
       /\ ProcessClientData(i)
       /\ from' = i + 1
  /\ UNCHANGED <<ready, backlog, clientVars, unwelcome>>

ScanDone ==
  /\ spc = "scan"
  /\ \A i \in Slots : i >= from => ~Due(i)
  /\ spc' = "select" /\ ready' = {} /\ from' = 1
  /\ UNCHANGED <<slots, nclients, fds, backlog, shut, peer, up, replies,
                 clientVars, history>>

Running == spc \in {"select", "accept", "scan"}

\* SIGINT: cleanup closes everything and exits.
Interrupt ==
  /\ Running
  /\ spc' = "stopped"
  /\ fds' = [f \in Fds |-> NoConn] /\ backlog' = <<>>
  /\ up' = [c \in Conns |-> <<>>]
  /\ UNCHANGED <<ready, from, slots, nclients, shut, peer, replies, clientVars, history>>

-----------------------------------------------------------------------------
(* The client program: it waits for a reply, asks its user for a line,      *)
(* sends it, and waits again.                                              *)

serverVars == <<spc, ready, from, slots, nclients, fds, shut, unwelcome>>

Connect(c) ==
  /\ user[c] = "off" /\ Running
  /\ backlog' = Append(backlog, c)
  /\ user' = [user EXCEPT ![c] = "recv"]
  /\ UNCHANGED <<serverVars, peer, up, replies, typed, others, losses, calm>>

\* One recv() may return several replies, or leave some for the next.
Recv(c) ==
  /\ user[c] = "recv"
  /\ \E k \in 1..replies[c] :
       /\ replies' = [replies EXCEPT ![c] = @ - k]
       /\ calm' = IF k = replies[c] THEN calm ELSE calm \ {c}
  /\ user' = [user EXCEPT ![c] = "type"]
  /\ UNCHANGED <<serverVars, backlog, peer, up, typed, others, losses>>

\* close(): with replies unread the server's kernel is told with a RST.
Hangup(c) ==
  /\ user' = [user EXCEPT ![c] = "closed"]
  /\ peer' = [peer EXCEPT ![c] = IF @ # "open" THEN @
                                 ELSE IF replies[c] = 0 THEN "fin" ELSE "reset"]

Send(c, characters) ==
  /\ user[c] = "type" /\ typed[c] < MaxLines[c]
  /\ typed' = [typed EXCEPT ![c] = @ + 1]
  /\ up' = [up EXCEPT ![c] = @ \o characters]
  /\ UNCHANGED <<serverVars, backlog, replies, losses>>

Line(kind, n) == <<<<kind, n>>, NL>>

Type(c) ==
  \E kind \in Kinds :
    /\ Send(c, Line(kind, typed[c] + 1))
    /\ \/ kind = "exit" /\ Hangup(c)
       \/ kind # "exit" /\ user' = [user EXCEPT ![c] = "recv"] /\ UNCHANGED peer
    /\ UNCHANGED <<others, calm>>

\* What is no line: the beginning of one that is too long for fgets(), without its
\* newline, the rest of which is what is read next; and "file", with the length of
\* a name, the name, the size and what the file holds: newlines, here one, which end
\* what is taken for a line, and zeros, behind which a read sees none.
Text == <<"num", 0>>
TooLong == [k \in 1..(BUFFER_SIZE - 2) |-> Text]
FileSent == Line("num", 0) \o <<NL, NUL>>

TypeOther(c) ==
  /\ others[c] < MaxOthers
  /\ \E characters \in {TooLong, FileSent} : Send(c, characters)
  /\ user' = [user EXCEPT ![c] = "recv"]
  /\ others' = [others EXCEPT ![c] = @ + 1] /\ calm' = calm \ {c}
  /\ UNCHANGED peer

\* The server has closed the connection, or is gone.
RecvEnds(c) ==
  /\ user[c] = "recv" /\ replies[c] = 0
  /\ c \in shut \/ ~Running
  /\ user' = [user EXCEPT ![c] = "closed"]
  /\ UNCHANGED <<serverVars, backlog, peer, up, replies, typed, others, losses, calm>>

\* The far end goes away on its own: a kill, another program, a lost host.
Vanish(c) ==
  /\ user[c] \in {"recv", "type"} /\ losses < MaxLosses
  /\ losses' = losses + 1
  /\ \/ Hangup(c)
     \/ user' = [user EXCEPT ![c] = "closed"] /\ peer' = [peer EXCEPT ![c] = "reset"]
  /\ UNCHANGED <<serverVars, backlog, up, replies, typed, others, calm>>

-----------------------------------------------------------------------------
ServerStep == Select \/ Accept \/ Serve \/ ScanDone

Next ==
  \/ ServerStep \/ Interrupt
  \/ \E c \in Conns : Connect(c) \/ Recv(c) \/ Type(c) \/ TypeOther(c) \/ RecvEnds(c) \/ Vanish(c)

Spec == Init /\ [][Next]_vars

-----------------------------------------------------------------------------
(* Properties.                                                             *)

Char == (Kinds \X Nat) \union {NL, NUL}
TypeOK ==
  /\ spc \in {"select", "accept", "scan", "killed", "stopped"}
  /\ ready \subseteq Fds
  /\ from \in 1..(MAX_CLIENTS + 1)
  /\ \A i \in Slots : /\ slots[i].sockfd \in Fds \union {0}
                      /\ slots[i].state \in {"OP", "FIRST", "SECOND"}
                      /\ slots[i].buffer \in [1..BUFFER_SIZE -> Char]
  /\ nclients \in 0..Cardinality(Conns)
  /\ fds \in [Fds -> Conns \union {NoConn}]
  /\ backlog \in Seq(Conns) /\ shut \subseteq Conns
  /\ peer \in [Conns -> {"open", "fin", "broken", "reset"}]
  /\ up \in [Conns -> Seq(Char)]
  /\ replies \in [Conns -> Nat]
  /\ user \in [Conns -> {"off", "recv", "type", "closed"}]
  /\ \A c \in Conns : typed[c] \in 0..MaxLines[c]
  /\ others \in [Conns -> 0..MaxOthers]
  /\ losses \in 0..MaxLosses

\* The slots in use and the open descriptors correspond one to one: no
\* descriptor is leaked, none is used after close() or by two slots, even
\* though the kernel gives freed numbers out again.
SlotsOwnDescriptors == Running =>
  /\ \A i \in Used : fds[slots[i].sockfd] # NoConn
  /\ \A i, j \in Used : slots[i].sockfd = slots[j].sockfd => i = j
  /\ \A f \in Fds : fds[f] # NoConn => \E i \in Used : slots[i].sockfd = f

\* The one thread never sleeps in read(): what select() reported is still true
\* when the scan comes to it, although accept() and close_client have changed
\* the table and the descriptors in between.
ReadNeverBlocks ==
  spc = "scan" => \A i \in Slots : i >= from /\ Due(i) => Readable(ConnOf(i))

\* "user(s) on-line" counts the slots in use, plus every connection that was
\* reset before its first prompt and is never subtracted again.
OnlineCount == Running => nclients = Cardinality(Used) + Cardinality(unwelcome)

\* The last character of a buffer stays NUL, so strchr and strlen stop.
Terminated == \A i \in Slots : slots[i].buffer[BUFFER_SIZE] = NUL

\* The server's table, its descriptors, its counter and its buffers agree
\* (tcp_server_new.c:36-62, 128-175).
TableIsSound == SlotsOwnDescriptors /\ OnlineCount /\ Terminated

\* A result is computed from an operation and two numbers that the client typed
\* one after the other, provided it sent lines only, which like the replies went
\* one at a time.
Sent(c, n) == \E kind \in Kinds : up[c] = Line(kind, n)
ResultsAreInStep ==
  [][\A i \in Used : LET c == ConnOf(i) IN
       c \in calm' /\ replies'[c] = replies[c] + 2 =>
         \E n \in 1..typed[c] : \E kind \in Kinds :
           /\ slots[i].op = <<<<"op", n>>>>
           /\ slots[i].first_num = <<<<kind, n + 1>>>>
           /\ Sent(c, n + 2)]_vars

\* A client and the server never wait for each other: however reads split and
\* merge lines and replies, a client that has nothing to receive is still in the
\* queue, has a whole line on the way, or will be told that it is over. Of the
\* lines of tcp_client.c two are excepted, with all that their connection sends
\* later: one that does not fit its buffer goes without a newline and is kept in
\* silence (line 99), and the data of a file is never asked for and can swallow
\* the line that follows (lines 43-62). The others go on all the same.
NobodyWaitsInVain ==
  \A c \in Conns : user[c] = "recv" /\ replies[c] = 0 /\ others[c] = 0 =>
    \/ \E k \in DOMAIN backlog : backlog[k] = c
    \/ up[c] # <<>> /\ up[c][Len(up[c])] = NL
    \/ c \in shut \/ ~Running

\* The prompt offers "exit" to leave (tcp_server_new.h:21-22): a client that
\* takes it, or goes away, does not end the server for the others.
OutlivesClients == spc # "killed"
=============================================================================
