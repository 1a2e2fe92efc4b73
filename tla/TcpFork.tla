------------------------------ MODULE TcpFork -------------------------------
(***************************************************************************)
(* module3/13: a calculator server that forks a process for every client,  *)
(* receives files from them, and counts its users in a shared integer that *)
(* all processes change without a lock.                                    *)
(*                                                                         *)
(* Data: what a client sends with one call is one token <<kind, n>>. A     *)
(* line is "div" (/), "exit", "file" or "text", which is anything else: an *)
(* operator, a number; the parts of a file are "len", "name", "size" with  *)
(* the number of its chunks, and the chunks. A token is never torn by TCP, *)
(* but tokens may be read together. Replies are only counted.              *)
(***************************************************************************)
EXTENDS Integers, FiniteSets, Sequences

CONSTANTS Conns,       \* connections, in the course of a run
          MaxLines,    \* bound: MaxLines[c] lines typed on c before "exit"
          MaxChunks,   \* bound: chunks of a file
          MaxFailures  \* bound: clients that vanish, and forks that fail

ASSUME ConnsAssumption == IsFiniteSet(Conns) /\ MaxLines \in [Conns -> Nat]
ASSUME BoundsAssumption == MaxChunks \in Nat /\ MaxFailures \in Nat

VARIABLES
  ppc,       \* parent: "accept", "load", "store", "fork", "stopped"
  newsock,   \* the connection in run_server's hands, or NoConn
  delta,     \* what the parent is adding to the counter
  nclients,  \* the counter, shared
  loaded,    \* the value a process has loaded in its ++ or --
  child,     \* child[c]: where the process that serves c is
  dividing,  \* dividing[c]: its op is /
  left,      \* left[c]: chunks recv_file still waits for
  backlog,   \* connections not yet accepted
  peer,      \* peer[c]: how far the other end has gone, as the kernel knows
  up,        \* up[c]: tokens on their way to the server
  replies,   \* replies[c]: replies written and not yet received
  user,      \* user[c]: "off", "recv", "type", "name", "closed"
  typed,     \* typed[c]: lines typed
  failures,  \* clients that have vanished, forks that have failed
  raced,     \* history: an update of the counter was lost
  astray     \* history: clients whose file was not all sent, or was taken for a line

counter == <<nclients, loaded, raced>>
dialogue == <<dividing, left, up, replies>>
clientVars == <<user, typed, astray>>
vars == <<ppc, newsock, delta, counter, child, dialogue, backlog, peer, clientVars, failures>>

NoConn == "none"
Parent == "parent"
Lines == {"text", "div", "exit", "file"}
Reading == {"op", "first", "second", "len", "name", "size", "data"}
Dead == {"none", "gone", "killed"}    \* not yet, or no longer, a process
Serving == {c \in Conns : child[c] \notin Dead}
Running == ppc # "stopped"

Init ==
  /\ ppc = "accept" /\ newsock = NoConn /\ delta = 0
  /\ nclients = 0 /\ loaded = [p \in Conns \union {Parent} |-> 0] /\ raced = FALSE
  /\ child = [c \in Conns |-> "none"]
  /\ dividing = [c \in Conns |-> FALSE] /\ left = [c \in Conns |-> 0]
  /\ backlog = <<>>
  /\ peer = [c \in Conns |-> "open"]
  /\ up = [c \in Conns |-> <<>>]
  /\ replies = [c \in Conns |-> 0]
  /\ user = [c \in Conns |-> "off"] /\ typed = [c \in Conns |-> 0]
  /\ failures = 0
  /\ astray = {}

-----------------------------------------------------------------------------
(* ++ and -- of the counter: a load, and a store of another value.          *)

Load(p) == loaded' = [loaded EXCEPT ![p] = nclients] /\ UNCHANGED <<nclients, raced>>

Store(p, value) ==
  /\ nclients' = value
  /\ raced' = (raced \/ nclients # loaded[p])
  /\ loaded' = [loaded EXCEPT ![p] = 0]

-----------------------------------------------------------------------------
(* The parent, run_server.                                                 *)

childVars == <<child, dialogue>>

Accept ==
  /\ ppc = "accept" /\ backlog # <<>>
  /\ newsock' = Head(backlog) /\ backlog' = Tail(backlog)
  /\ ppc' = "load" /\ delta' = 1
  /\ UNCHANGED <<counter, childVars, peer, clientVars, failures>>

ParentLoad ==
  /\ ppc = "load" /\ ppc' = "store"
  /\ Load(Parent)
  /\ UNCHANGED <<newsock, delta, childVars, backlog, peer, clientVars, failures>>

\* The new user is counted before the fork, and discounted when it fails.
ParentStore ==
  /\ ppc = "store"
  /\ Store(Parent, loaded[Parent] + delta)
  /\ ppc' = IF delta = 1 THEN "fork" ELSE "accept"
  /\ delta' = 0
  /\ UNCHANGED <<newsock, childVars, backlog, peer, clientVars, failures>>

Fork ==
  /\ ppc = "fork" /\ ppc' = "accept"
  /\ child' = [child EXCEPT ![newsock] = "menu"]
  /\ newsock' = NoConn
  /\ UNCHANGED <<delta, counter, dialogue, backlog, peer, clientVars, failures>>

\* Mutant: the user that was counted is not discounted.
StillCounted ==
  /\ ppc = "fork" /\ failures < MaxFailures
  /\ failures' = failures + 1
  /\ child' = [child EXCEPT ![newsock] = "gone"]
  /\ newsock' = NoConn /\ ppc' = "accept"
  /\ UNCHANGED <<delta, counter, dialogue, backlog, peer, clientVars>>

ForkFails ==
  /\ ppc = "fork" /\ failures < MaxFailures
  /\ failures' = failures + 1
  /\ child' = [child EXCEPT ![newsock] = "gone"]
  /\ newsock' = NoConn
  /\ ppc' = "load" /\ delta' = -1
  /\ UNCHANGED <<counter, dialogue, backlog, peer, clientVars>>

\* SIGINT goes to the whole group; cleanup of a child leaves the count alone.
Interrupt ==
  /\ Running /\ ppc' = "stopped"
  /\ child' = [c \in Conns |-> IF child[c] \in Dead THEN child[c] ELSE "gone"]
  /\ backlog' = <<>> /\ newsock' = NoConn
  /\ UNCHANGED <<delta, counter, dialogue, peer, clientVars, failures>>

-----------------------------------------------------------------------------
(* A child, handle_client and recv_file. A write to a closed peer succeeds  *)
(* once; when the RST has come it raises SIGPIPE, which kills the child.    *)

parentVars == <<ppc, newsock, delta, backlog>>

\* A reply is written and the child goes on at place.
Reply(c, place) ==
  \/ /\ \/ peer[c] = "open" /\ UNCHANGED peer
        \/ peer[c] = "fin" /\ \E p \in {"fin", "broken"} : peer' = [peer EXCEPT ![c] = p]
     /\ replies' = [replies EXCEPT ![c] = IF peer[c] = "open" THEN @ + 1 ELSE @]
     /\ child' = [child EXCEPT ![c] = place]
  \/ /\ peer[c] = "reset"
     /\ child' = [child EXCEPT ![c] = "leave"]
     /\ UNCHANGED <<peer, replies>>
  \/ /\ peer[c] = "broken"
     /\ child' = [child EXCEPT ![c] = "killed"]
     /\ UNCHANGED <<peer, replies>>

Menu(c) ==
  /\ child[c] = "menu"
  /\ Reply(c, "op")
  /\ UNCHANGED <<parentVars, counter, dividing, left, up, clientVars, failures>>

Takes(c, k) == up' = [up EXCEPT ![c] = SubSeq(@, k + 1, Len(@))]

\* What the k tokens that read() has taken say as a line: "exit" and "file" are
\* compared with all of it, an operator with its first character. The parts of a
\* file, and what is read behind them, may look like anything.
Parts == {"len", "name", "size", "chunk"}
\* Mutant: strncmp.
Prefixed(c, k) == LET kind == Head(up[c])[1] IN IF kind \in Parts THEN Lines ELSE {kind}
Said(c, k) ==
  LET kind == Head(up[c])[1] IN
  IF kind \in Parts THEN Lines
  ELSE IF k = 1 \/ kind = "div" THEN {kind} ELSE {"text"}

ReadOp(c) ==
  /\ child[c] = "op"
  /\ \E k \in 1..Len(up[c]) : \E line \in Said(c, k) :
       /\ Takes(c, k)
       /\ \/ /\ line = "exit"
             /\ child' = [child EXCEPT ![c] = "leave"]
             /\ UNCHANGED <<dividing, peer, replies, astray>>
          \/ /\ line = "file"
             /\ child' = [child EXCEPT ![c] = "len"]
             /\ astray' = IF Head(up[c])[1] \in Parts THEN astray \union {c} ELSE astray
             /\ UNCHANGED <<dividing, peer, replies>>
          \/ /\ line \in {"text", "div"}
             /\ dividing' = [dividing EXCEPT ![c] = (line = "div")]
             /\ Reply(c, "first")
             /\ UNCHANGED astray
  /\ UNCHANGED <<parentVars, counter, left, user, typed, failures>>

ReadFirst(c) ==
  /\ child[c] = "first"
  /\ \E k \in 1..Len(up[c]) : Takes(c, k)
  /\ Reply(c, "second")
  /\ UNCHANGED <<parentVars, counter, dividing, left, clientVars, failures>>

\* divide() traps on 0, and on the least int by -1. (op is dead after this.)
ReadSecond(c) ==
  /\ child[c] = "second"
  /\ \E k \in 1..Len(up[c]) : Takes(c, k)
  /\ dividing' = [dividing EXCEPT ![c] = FALSE]
  /\ \/ /\ dividing[c]
        /\ child' = [child EXCEPT ![c] = "killed"]
        /\ UNCHANGED <<peer, replies>>
     \/ /\ ~dividing[c] \/ Head(up[c])[1] \in Parts \union {"text"}
        /\ Reply(c, "menu")
  /\ UNCHANGED <<parentVars, counter, left, clientVars, failures>>

\* recv_file expects the parts of a file, each in a read() of its own. With a
\* length that is none it goes on, and writes behind filename[]: "lost".
ReadPart(c, part, place) ==
  /\ child[c] = part /\ up[c] # <<>>
  /\ up' = [up EXCEPT ![c] = Tail(@)]
  /\ child' = [child EXCEPT ![c] = IF Head(up[c])[1] = part THEN place ELSE "lost"]

ReadLen(c) == ReadPart(c, "len", "name") /\ UNCHANGED left
ReadName(c) == ReadPart(c, "name", "size") /\ UNCHANGED left

\* The file may fail to be created: then its contents stay in the stream.
ReadSize(c) ==
  /\ \/ ReadPart(c, "size", "data") /\ left' = [left EXCEPT ![c] = Head(up[c])[2]]
     \/ ReadPart(c, "size", "menu") /\ UNCHANGED left

\* A read() may take more than the file, and with it what the client sends next.
\* Chunks count as what they are, and of anything else it is not known how many it
\* makes up for. Or the write to the file fails.
ReadData(c) ==
  /\ child[c] = "data" /\ left[c] > 0
  /\ \E k \in 1..Len(up[c]) :
       LET m == IF k < left[c] THEN k ELSE left[c] IN
       /\ Takes(c, k)
       /\ \/ /\ \E n \in 0..left[c] :
                  /\ (\A i \in 1..m : up[c][i][1] = "chunk") => n = left[c] - m
                  /\ left' = [left EXCEPT ![c] = n]
             /\ UNCHANGED child
          \/ left' = [left EXCEPT ![c] = 0] /\ child' = [child EXCEPT ![c] = "menu"]

\* Mutant: the menu is written before the loop, and after a result.
NoMenuAgain(c) ==
  /\ child[c] = "data" /\ left[c] = 0
  /\ child' = [child EXCEPT ![c] = "op"]
  /\ UNCHANGED <<left, up>>

FileDone(c) ==
  /\ child[c] = "data" /\ left[c] = 0
  /\ child' = [child EXCEPT ![c] = "menu"]
  /\ UNCHANGED <<left, up>>

\* Of a process that has written where it must not only its end is followed.
LostEnds(c) ==
  /\ child[c] = "lost" /\ \E end \in {"killed", "leave"} : child' = [child EXCEPT ![c] = end]
  /\ UNCHANGED <<left, up>>

ReceiveFile(c) ==
  /\ ReadLen(c) \/ ReadName(c) \/ ReadSize(c) \/ ReadData(c) \/ FileDone(c) \/ LostEnds(c)
  /\ UNCHANGED <<parentVars, counter, dividing, replies, peer, clientVars, failures>>

\* read() returns 0 or -1: recv_file returns to the loop, which writes.
ReadEnds(c) ==
  /\ child[c] \in Reading \ {"data"} \/ (child[c] = "data" /\ left[c] > 0)
  /\ up[c] = <<>> /\ peer[c] # "open"
  /\ child' = [child EXCEPT ![c] = IF @ \in {"len", "name", "size", "data"} THEN "menu" ELSE "leave"]
  /\ left' = [left EXCEPT ![c] = 0]
  /\ UNCHANGED <<parentVars, counter, dividing, up, replies, peer, clientVars, failures>>

ChildLoad(c) ==
  /\ child[c] = "leave" /\ child' = [child EXCEPT ![c] = "store"]
  /\ up' = [up EXCEPT ![c] = <<>>]
  /\ Load(c)
  /\ UNCHANGED <<parentVars, dividing, left, replies, peer, clientVars, failures>>

ChildStore(c) ==
  /\ child[c] = "store" /\ child' = [child EXCEPT ![c] = "gone"]
  /\ Store(c, loaded[c] - 1)
  /\ UNCHANGED <<parentVars, dialogue, peer, clientVars, failures>>

-----------------------------------------------------------------------------
(* The client program. A closed socket drops what was not read from it.    *)

serverVars == <<ppc, newsock, delta, counter, child, dividing, left>>

Connect(c) ==
  /\ user[c] = "off" /\ Running
  /\ user' = [user EXCEPT ![c] = "recv"]
  /\ backlog' = Append(backlog, c)
  /\ UNCHANGED <<serverVars, peer, up, replies, typed, astray, failures>>

\* One recv() may return several replies, or leave some for the next.
Recv(c) ==
  /\ user[c] = "recv"
  /\ \E k \in 1..replies[c] : replies' = [replies EXCEPT ![c] = @ - k]
  /\ user' = [user EXCEPT ![c] = "type"]
  /\ UNCHANGED <<serverVars, backlog, peer, up, typed, astray, failures>>

\* close(): with replies unread the server is told with a RST.
Hangup(c) ==
  /\ user' = [user EXCEPT ![c] = "closed"] /\ typed' = [typed EXCEPT ![c] = 0]
  /\ replies' = [replies EXCEPT ![c] = 0]
  /\ peer' = [peer EXCEPT ![c] = IF replies[c] = 0 THEN "fin" ELSE "reset"]

Send(c, tokens) == up' = [up EXCEPT ![c] = @ \o tokens]

Type(c) ==
  /\ user[c] = "type"
  /\ \/ /\ Send(c, <<<<"exit", 0>>>>)
        /\ Hangup(c)
     \/ /\ typed[c] < MaxLines[c]
        /\ typed' = [typed EXCEPT ![c] = @ + 1]
        /\ \E line \in Lines \ {"exit"} :
             /\ Send(c, <<<<line, 0>>>>)
             /\ user' = [user EXCEPT ![c] = IF line = "file" THEN "name" ELSE "recv"]
        /\ UNCHANGED <<peer, replies>>
  /\ UNCHANGED <<serverVars, backlog, astray, failures>>

\* send_file, after "file\n" has gone: of a file of n chunks it sends as many as it
\* can read, none of a directory, fewer when the file has shrunk, more when it has
\* grown, and none when it is empty.
SendFile(c) ==
  /\ user[c] = "name"
  /\ \E n \in 0..MaxChunks : \E sent \in IF n = 0 THEN {0} ELSE 0..MaxChunks :
       /\ Send(c, <<<<"len", 0>>, <<"name", 0>>, <<"size", n>>>> \o [i \in 1..sent |-> <<"chunk", 0>>])
       /\ astray' = IF sent < n THEN astray \union {c} ELSE astray
  /\ user' = [user EXCEPT ![c] = "recv"]
  /\ UNCHANGED <<serverVars, backlog, peer, replies, typed, failures>>

\* open() or fstat() fails: the server is told nothing.
SendNoFile(c) ==
  /\ user[c] = "name"
  /\ astray' = astray \union {c}
  /\ user' = [user EXCEPT ![c] = "recv"]
  /\ UNCHANGED <<serverVars, backlog, peer, up, replies, typed, failures>>

Over(c) == child[c] \in {"store", "gone", "killed"} \/ ~Running

RecvEnds(c) ==
  /\ user[c] = "recv" /\ replies[c] = 0 /\ Over(c)
  /\ Hangup(c)
  /\ UNCHANGED <<serverVars, backlog, up, astray, failures>>

\* The far end goes away on its own: a kill, another program, a lost host.
Vanish(c) ==
  /\ user[c] \in {"recv", "type", "name"} /\ failures < MaxFailures
  /\ failures' = failures + 1
  /\ Hangup(c)
  /\ UNCHANGED <<serverVars, backlog, up, astray>>

-----------------------------------------------------------------------------
ParentStep == Accept \/ ParentLoad \/ ParentStore \/ Fork

ChildStep(c) ==
  \/ Menu(c) \/ ReadOp(c) \/ ReadFirst(c) \/ ReadSecond(c) \/ ReceiveFile(c) \/ ReadEnds(c)
  \/ ChildLoad(c) \/ ChildStore(c)

ClientStep(c) ==
  Connect(c) \/ Recv(c) \/ Type(c) \/ SendFile(c) \/ SendNoFile(c) \/ RecvEnds(c) \/ Vanish(c)

Next ==
  \/ ParentStep \/ ForkFails \/ Interrupt
  \/ \E c \in Conns : ChildStep(c) \/ ClientStep(c)

Spec == Init /\ [][Next]_vars

-----------------------------------------------------------------------------
(* Properties.                                                             *)

\* While no process is changing it and no update was lost, "user(s) on-line" is
\* the number of clients being served, plus every one whose process was killed
\* by a signal (tcp_server.c:98, 205, 215).
Settled == ppc = "accept" /\ \A c \in Conns : child[c] \notin {"leave", "store"}
UsersOnLine ==
  Settled /\ ~raced =>
    nclients = Cardinality(Serving) + Cardinality({c \in Conns : child[c] = "killed"})

\* A client and its process wait for each other only when the process expects a
\* file, or more of it, from a client that could not open the file it announced
\* (tcp_client.c:31-41), sent less than its size (a directory, a file that shrinks,
\* lines 50-62), or whose file was left in the stream and a piece of it, read as a
\* line, says "file" (tcp_server.c:56, 133-146): whatever else is read together or
\* taken for something else, one of them has to answer.
WaitsOnlyForAFile ==
  \A c \in Conns : user[c] = "recv" /\ replies[c] = 0 /\ up[c] = <<>> /\ child[c] \in Reading =>
    (child[c] = "data" /\ left[c] = 0) \/ (child[c] \in {"len", "data"} /\ c \in astray)

\* recv_file takes something else for a part of a file, and writes behind its
\* buffer, only for one of these clients: what a file that is whole leaves in the
\* stream never gets there unless it says "file" (tcp_server.c:56, 115-124).
PartsAreParts == \A c \in Conns : child[c] = "lost" => c \in astray

\* A client that sends the files it announces, and whose files do not say "file"
\* where a line is read, is served like any other.
OnlyStrayFilesHurt == WaitsOnlyForAFile /\ PartsAreParts
=============================================================================
