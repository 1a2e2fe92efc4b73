----------------------------- MODULE QueueChat ------------------------------
(***************************************************************************)
(* module3/06: a group chat over one System V message queue. Everything    *)
(* goes through the queue: lines for the server have type SERVER_ID, the   *)
(* server puts a copy for each other client in its table, of that client's *)
(* type. msgsnd sleeps while the queue is full.                            *)
(*                                                                         *)
(* Data: a line is "connect", "shutdown" or a chat line with the number    *)
(* its sender gave it. A client is two processes, a writer and a forked    *)
(* reader. Once the server has removed the queue it is not started again.  *)
(***************************************************************************)
EXTENDS Naturals, FiniteSets, SequencesExt

CONSTANTS SERVER_ID,   \* message type of the server
          Clients,     \* client ids in use (main() rejects those below SERVER_ID)
          MAX_CLIENTS, \* slots of the server's table
          Capacity,    \* bound: messages the queue holds (msg_qbytes)
          MaxLines,    \* bound: MaxLines[c] lines sent by c, apart from "shutdown"
          MaxCrashes   \* bound: processes killed

NoClient == 0

ASSUME ClientsAssumption ==
  /\ NoClient \notin Clients /\ IsFiniteSet(Clients) /\ MaxLines \in [Clients -> Nat]
  /\ MAX_CLIENTS \in Nat

VARIABLES
  queue,     \* messages in the order they were sent
  exists,    \* whether the queue has not been removed yet
  spc,       \* server: "recv", "relay", "down"
  msg,       \* server: msg, the message received last
  slot,      \* server: first slot not yet served
  active,    \* active_clients
  cpc,       \* cpc[c]: place of the writer
  reading,   \* clients whose reader process runs
  typed,     \* typed[c]: lines sent so far, apart from "shutdown"
  crashes,   \* processes killed so far
  received,  \* received[c]: chat lines <<from, number>> printed, in order
  connects,  \* connects[c]: "connect" lines the server has handled
  left       \* clients whose last control line handled was "shutdown"

table == <<active, connects, left>>
clients == <<cpc, reading, typed, received>>
vars == <<queue, exists, spc, msg, slot, table, clients, crashes>>

Slots == 1..MAX_CLIENTS
Message == [to : Clients \union {SERVER_ID}, from : Clients,
            text : {"connect", "shutdown", "line"}, num : Nat]
ForServer(c, text, num) == [to |-> SERVER_ID, from |-> c, text |-> text, num |-> num]

TypeOK ==
  /\ queue \in Seq(Message) /\ Len(queue) <= Capacity
  /\ exists \in BOOLEAN
  /\ spc \in {"recv", "relay", "down"}
  /\ msg \in Seq(Message) /\ Len(msg) <= 1
  /\ slot \in 1..(MAX_CLIENTS + 1)
  /\ active \in [Slots -> Clients \union {NoClient}]
  /\ cpc \in [Clients -> {"off", "prompt", "leave"}]
  /\ reading \subseteq Clients
  /\ \A c \in Clients : typed[c] \in 0..MaxLines[c]
  /\ crashes \in 0..MaxCrashes
  /\ \A c \in Clients : received[c] \in Seq(Clients \X Nat)
  /\ connects \in [Clients -> Nat]
  /\ left \subseteq Clients

Init ==
  /\ queue = <<>> /\ exists = TRUE
  /\ spc = "recv" /\ msg = <<>> /\ slot = 1
  /\ active = [i \in Slots |-> NoClient]
  /\ cpc = [c \in Clients |-> "off"]
  /\ reading = {}
  /\ typed = [c \in Clients |-> 0]
  /\ crashes = 0
  /\ received = [c \in Clients |-> <<>>]
  /\ connects = [c \in Clients |-> 0]
  /\ left = {}

-----------------------------------------------------------------------------
(* The queue. msgrcv takes the oldest message of the type it asks for; a    *)
(* msgsnd on a queue that is gone fails at once and the callers go on.      *)

\* Mutant: any message of the type, not the oldest.
AnyFor(type, i) == i \in DOMAIN queue /\ queue[i].to = type

OldestFor(type, i) ==
  /\ i \in DOMAIN queue
  /\ queue[i].to = type
  /\ \A j \in 1..(i - 1) : queue[j].to # type

Put(m) ==
  \/ exists /\ Len(queue) < Capacity /\ queue' = Append(queue, m)
  \/ ~exists /\ UNCHANGED queue

-----------------------------------------------------------------------------
(* The server: one loop over msgrcv.                                       *)

FirstFree(i) == active[i] = NoClient /\ \A j \in 1..(i - 1) : active[j] # NoClient
FirstOf(c, i) == active[i] = c /\ \A j \in 1..(i - 1) : active[j] # c

\* add_client: the first free slot; with a full table the client is only told
\* so on the server's terminal.
AddClient(c) ==
  \/ \E i \in Slots : FirstFree(i) /\ active' = [active EXCEPT ![i] = c]
  \/ (\A i \in Slots : active[i] # NoClient) /\ UNCHANGED active

\* Mutant: only the first slot is looked at.
RemoveFirstSlot(c) ==
  \/ active[1] = c /\ active' = [active EXCEPT ![1] = NoClient]
  \/ active[1] # c /\ UNCHANGED active

\* remove_client: the first slot that holds the client.
RemoveClient(c) ==
  \/ \E i \in Slots : FirstOf(c, i) /\ active' = [active EXCEPT ![i] = NoClient]
  \/ (\A i \in Slots : active[i] # c) /\ UNCHANGED active

ServerReceive ==
  /\ spc = "recv" /\ exists
  /\ \E i \in DOMAIN queue :
       LET m == queue[i] IN
       /\ OldestFor(SERVER_ID, i)
       /\ queue' = RemoveAt(queue, i)
       /\ msg' = <<m>>
       /\ \/ /\ m.from = SERVER_ID
             /\ UNCHANGED <<spc, slot, table>>
          \/ /\ m.from # SERVER_ID /\ m.text = "connect"
             /\ AddClient(m.from)
             /\ connects' = [connects EXCEPT ![m.from] = @ + 1]
             /\ left' = left \ {m.from}
             /\ UNCHANGED <<spc, slot>>
          \/ /\ m.from # SERVER_ID /\ m.text = "shutdown"
             /\ RemoveClient(m.from)
             /\ left' = left \union {m.from}
             /\ UNCHANGED <<spc, slot, connects>>
          \/ /\ m.from # SERVER_ID /\ m.text = "line"
             /\ spc' = "relay" /\ slot' = 1
             /\ UNCHANGED table
  /\ UNCHANGED <<exists, clients, crashes>>

\* Mutant: the sender is not left out.
ReceiverOrSender(i) == active[i] # NoClient
Receiver(i) == active[i] # NoClient /\ active[i] # msg[1].from

\* broadcast_message: one msgsnd per slot of another client.
RelayCopy ==
  /\ spc = "relay"
  /\ \E i \in slot..MAX_CLIENTS :
       /\ Receiver(i)
       /\ \A j \in slot..(i - 1) : ~Receiver(j)
       /\ Put([msg[1] EXCEPT !.to = active[i]])
       /\ slot' = i + 1
  /\ UNCHANGED <<exists, spc, msg, table, clients, crashes>>

\* Mutant: a slot that gets no copy is not passed over.
RelayDoneAtEnd ==
  /\ spc = "relay"
  /\ slot > MAX_CLIENTS
  /\ spc' = "recv"
  /\ UNCHANGED <<queue, exists, msg, slot, table, clients, crashes>>

RelayDone ==
  /\ spc = "relay"
  /\ \A i \in slot..MAX_CLIENTS : ~Receiver(i)
  /\ spc' = "recv"
  /\ UNCHANGED <<queue, exists, msg, slot, table, clients, crashes>>

\* SIGINT: the queue is removed with everything in it.
ServerStop ==
  /\ spc # "down"
  /\ spc' = "down" /\ exists' = FALSE /\ queue' = <<>>
  /\ UNCHANGED <<msg, slot, table, clients, crashes>>

\* Any other death leaves the queue; the next server starts with an empty table.
ServerCrash ==
  /\ spc # "down" /\ crashes < MaxCrashes
  /\ crashes' = crashes + 1
  /\ spc' = "down"
  /\ active' = [i \in Slots |-> NoClient]
  /\ UNCHANGED <<queue, exists, msg, slot, connects, left, clients>>

ServerStart ==
  /\ spc = "down" /\ exists
  /\ spc' = "recv"
  /\ UNCHANGED <<queue, exists, msg, slot, table, clients, crashes>>

-----------------------------------------------------------------------------
(* A client: the writer sends "connect", forks the reader, sends lines. A   *)
(* writer asleep in msgsnd is one that has not taken the step yet.          *)

\* msgget, send_message(SERVER_ID, "connect"), fork().
Start(c) ==
  /\ cpc[c] = "off" /\ exists
  /\ typed[c] < MaxLines[c]
  /\ typed' = [typed EXCEPT ![c] = @ + 1]
  /\ Put(ForServer(c, "connect", 0))
  /\ reading' = reading \union {c}
  /\ cpc' = [cpc EXCEPT ![c] = "prompt"]
  /\ UNCHANGED <<exists, spc, msg, slot, table, crashes, received>>

\* The user types a line, which may be "connect", and it is sent.
Say(c) ==
  /\ cpc[c] = "prompt"
  /\ typed[c] < MaxLines[c]
  /\ typed' = [typed EXCEPT ![c] = @ + 1]
  /\ \/ Put(ForServer(c, "line", typed[c] + 1))
     \/ Put(ForServer(c, "connect", 0))
  /\ UNCHANGED <<exists, spc, msg, slot, table, cpc, reading, crashes, received>>

SayShutdown(c) ==
  /\ cpc[c] = "prompt"
  /\ Put(ForServer(c, "shutdown", 0))
  /\ cpc' = [cpc EXCEPT ![c] = "leave"]
  /\ UNCHANGED <<exists, spc, msg, slot, table, reading, typed, crashes, received>>

\* kill and waitpid of the reader, return from main.
Leave(c) ==
  /\ cpc[c] = "leave"
  /\ reading' = reading \ {c}
  /\ cpc' = [cpc EXCEPT ![c] = "off"]
  /\ UNCHANGED <<queue, exists, spc, msg, slot, table, typed, crashes, received>>

\* read_messages. A reader may take a message of type SERVER_ID if that is its
\* client's number; then what it prints is not counted as a chat line.
Read(c) ==
  /\ c \in reading /\ exists
  /\ \E i \in DOMAIN queue :
       /\ OldestFor(c, i)
       /\ queue' = RemoveAt(queue, i)
       /\ received' = IF queue[i].text # "line" THEN received ELSE
            [received EXCEPT ![c] = Append(@, <<queue[i].from, queue[i].num>>)]
  /\ UNCHANGED <<exists, spc, msg, slot, table, cpc, reading, typed, crashes>>

\* Ctrl-C on the client's terminal: neither process has a handler.
ClientCrash(c) ==
  /\ cpc[c] # "off" /\ crashes < MaxCrashes
  /\ crashes' = crashes + 1
  /\ cpc' = [cpc EXCEPT ![c] = "off"]
  /\ reading' = reading \ {c}
  /\ UNCHANGED <<queue, exists, spc, msg, slot, table, typed, received>>

-----------------------------------------------------------------------------
ServerWork == ServerReceive \/ RelayCopy \/ RelayDone

Next ==
  \/ ServerWork \/ ServerStop \/ ServerCrash \/ ServerStart
  \/ \E c \in Clients :
       \/ Start(c) \/ Say(c) \/ SayShutdown(c) \/ Leave(c)
       \/ Read(c) \/ ClientCrash(c)

Spec == Init /\ [][Next]_vars

\* The server and the readers run; nobody has to start a client, type, stop or
\* crash.
Fairness ==
  /\ WF_vars(ServerWork)
  /\ \A c \in Clients : WF_vars(Read(c)) /\ WF_vars(Leave(c))

FairSpec == Spec /\ Fairness

-----------------------------------------------------------------------------
(* Properties.                                                             *)

\* A client prints the lines of any one sender in the order they were typed.
SenderOrder ==
  \A c \in Clients : \A i, j \in DOMAIN received[c] :
    i < j /\ received[c][i][1] = received[c][j][1] => received[c][i][2] <= received[c][j][2]

\* Nobody is sent his own lines, not even from a slot that names him twice, and
\* nobody who has never connected is sent anything.
MailIsForOthers ==
  \A i \in DOMAIN queue :
    queue[i].to # SERVER_ID => queue[i].from # queue[i].to /\ connects[queue[i].to] > 0

\* What is sent is for others, and what is printed keeps its sender's order
\* (queue_chat_server.c:45-60).
MailInOrder == MailIsForOthers /\ SenderOrder

\* A client that connected once and whose "shutdown" was handled is sent
\* nothing any more.
MailFor(c) == {i \in DOMAIN queue : queue[i].to = c}
NoMailAfterShutdown ==
  [][\A c \in left : connects[c] <= 1 => Cardinality(MailFor(c)') <= Cardinality(MailFor(c))]_vars

\* A relay comes to its end unless the queue is full of what nobody takes: lines
\* for the server itself, which sleeps in msgsnd, or mail of a client that died.
Unreadable(m) == m.to = SERVER_ID \/ m.to \notin reading
RelayEndsOrBlocked ==
  (spc = "relay") ~> \/ spc # "relay"
                     \/ Len(queue) = Capacity /\ \A i \in DOMAIN queue : Unreadable(queue[i])

\* module3/06/README.md: the server takes the clients' messages and forwards
\* them: as long as it runs, it always comes back to receive the next one.
KeepsForwarding == []<>(spc # "relay")

=============================================================================
