--------------------------- MODULE QueueChatProofs --------------------------
(***************************************************************************)
(* module3/06: the mail in the queue is for others, and a client prints    *)
(* each sender's lines in their order, for any number of clients, lines,   *)
(* slots, places in the queue and kills.                                   *)
(*                                                                         *)
(* A line goes from its sender to the server, through msg into the mail of *)
(* the others and from there onto their screens. The invariant says that   *)
(* the lines of one sender are in order along this way: what is printed is *)
(* not younger than what is in the mail, that not younger than what is     *)
(* being relayed, that not younger than what waits for the server.         *)
(*                                                                         *)
(* After that: nothing is sent to a client that has left.                  *)
(***************************************************************************)
EXTENDS QueueChat, FiniteSetTheorems, SequenceTheorems, TLAPS

Types ==
  /\ queue \in Seq(Message) /\ msg \in Seq(Message)
  /\ spc \in {"recv", "relay", "down"} /\ slot \in Nat \ {0}
  /\ active \in [Slots -> Clients \union {NoClient}]
  /\ typed \in [Clients -> Nat] /\ connects \in [Clients -> Nat]
  /\ received \in [Clients -> Seq(Clients \X Nat)]

\* In the table are only clients that have connected, and never the server's id.
TableInv ==
  \A i \in Slots : active[i] # NoClient => active[i] # SERVER_ID /\ connects[active[i]] > 0

\* What is relayed is a chat line.
RelayInv == spc = "relay" => msg # << >> /\ msg[1].text = "line"

\* m is not younger than n if both are lines of one sender.
Before(m, n) ==
  m.text = "line" /\ n.text = "line" /\ m.from = n.from => m.num <= n.num
Precedes(i, j) == \/ i < j /\ queue[i].to = queue[j].to
                  \/ queue[i].to # SERVER_ID /\ queue[j].to = SERVER_ID
\* Entry e was printed not after n was typed.
Printed(e, n) == n.text = "line" /\ n.from = e[1] => e[2] <= n.num

QueueInv == \A i, j \in DOMAIN queue : Precedes(i, j) => Before(queue[i], queue[j])
MsgInv ==
  spc = "relay" =>
    \A i \in DOMAIN queue : IF queue[i].to = SERVER_ID THEN Before(msg[1], queue[i])
                                                       ELSE Before(queue[i], msg[1])
PrintedInv ==
  \A c \in Clients : \A k \in DOMAIN received[c] : \A j \in DOMAIN queue :
    queue[j].to \in {c, SERVER_ID} => Printed(received[c][k], queue[j])
PrintedMsgInv ==
  spc = "relay" =>
    \A c \in Clients \ {SERVER_ID} : \A k \in DOMAIN received[c] : Printed(received[c][k], msg[1])

\* Nothing is younger than the sender's last line.
Typed(m) == m.text = "line" => m.num <= typed[m.from]
TypedInv ==
  /\ \A i \in DOMAIN queue : Typed(queue[i])
  /\ spc = "relay" => Typed(msg[1])
  /\ \A c \in Clients : \A k \in DOMAIN received[c] :
       received[c][k][2] <= typed[received[c][k][1]]

OrderInv == QueueInv /\ MsgInv /\ PrintedInv /\ PrintedMsgInv /\ TypedInv /\ SenderOrder
IInv == Types /\ TableInv /\ RelayInv /\ MailIsForOthers /\ OrderInv

\* The messages of the next queue are some of this one's, in the same order.
Shrinks(f) ==
  /\ f \in [DOMAIN queue' -> DOMAIN queue]
  /\ \A k \in DOMAIN queue' : queue'[k] = queue[f[k]]
  /\ \A k, l \in DOMAIN queue' : k < l => f[k] < f[l]
NoneUntyped == \A c \in Clients : typed[c] <= typed'[c]
NoneUnknown == \A c \in Clients : connects[c] <= connects'[c]

-----------------------------------------------------------------------------
\* Nothing is in the queue at first.
LEMMA InitIInv == Init => IInv
<1> SUFFICES ASSUME Init PROVE IInv
  OBVIOUS
<1>1. Types
  BY DEF Init, Types
<1>2. TableInv /\ RelayInv /\ MailIsForOthers
  BY DEF Init, TableInv, RelayInv, MailIsForOthers
<1>3. OrderInv
  BY DEF Init, OrderInv, QueueInv, MsgInv, PrintedInv, PrintedMsgInv, TypedInv, SenderOrder
<1> QED
  BY <1>1, <1>2, <1>3 DEF IInv

\* What RemoveAt leaves.
LEMMA RemoveAtProperties ==
  ASSUME NEW S, NEW q \in Seq(S), NEW i \in 1..Len(q)
  PROVE  /\ RemoveAt(q, i) \in Seq(S)
         /\ DOMAIN RemoveAt(q, i) = 1..(Len(q) - 1)
         /\ \A k \in 1..(Len(q) - 1) : RemoveAt(q, i)[k] = q[IF k < i THEN k ELSE k + 1]
<1> DEFINE n == Len(q)
           before == SubSeq(q, 1, i - 1)
           after == SubSeq(q, i + 1, n)
           all == before \o after
<1>1. n \in Nat /\ i \in Int /\ i - 1 \in Int /\ i + 1 \in Int /\ 1 <= i /\ i <= n
      /\ \A k \in 1..n : q[k] \in S
  OBVIOUS
<1> HIDE DEF n
<1>2. /\ before \in Seq(S) /\ Len(before) = i - 1
      /\ \A k \in 1..(i - 1) : before[k] = q[k]
  <2>1. \A k \in 1..(i - 1) : q[k] \in S
    BY <1>1
  <2>2. /\ before \in Seq(S) /\ Len(before) = IF 1 <= i - 1 THEN (i - 1) - 1 + 1 ELSE 0
        /\ \A k \in 1..((i - 1) - 1 + 1) : before[k] = q[1 + k - 1]
    BY <1>1, <2>1, SubSeqProperties
  <2> HIDE DEF before
  <2>3. (i - 1) - 1 + 1 = i - 1 /\ \A k \in 1..(i - 1) : 1 + k - 1 = k
    BY <1>1
  <2>4. Len(before) = i - 1
    BY <1>1, <2>2
  <2> QED
    BY <2>2, <2>3, <2>4
<1>3. /\ after \in Seq(S) /\ Len(after) = n - i
      /\ \A k \in 1..(n - i) : after[k] = q[k + i]
  <2>1. \A k \in (i + 1)..n : q[k] \in S
    BY <1>1
  <2>2. /\ after \in Seq(S) /\ Len(after) = IF i + 1 <= n THEN n - (i + 1) + 1 ELSE 0
        /\ \A k \in 1..(n - (i + 1) + 1) : after[k] = q[(i + 1) + k - 1]
    BY <1>1, <2>1, SubSeqProperties
  <2> HIDE DEF after
  <2>3. n - (i + 1) + 1 = n - i /\ \A k \in 1..(n - i) : (i + 1) + k - 1 = k + i
    BY <1>1
  <2>4. Len(after) = n - i
    BY <1>1, <2>2
  <2> QED
    BY <2>2, <2>3, <2>4
<1> HIDE DEF before, after
<1>4. /\ all \in Seq(S) /\ Len(all) = n - 1
      /\ \A k \in 1..(n - 1) : all[k] = IF k <= i - 1 THEN before[k] ELSE after[k - (i - 1)]
  <2>1. /\ all \in Seq(S) /\ Len(all) = Len(before) + Len(after)
        /\ \A k \in 1..(Len(before) + Len(after)) :
             all[k] = IF k <= Len(before) THEN before[k] ELSE after[k - Len(before)]
    BY <1>2, <1>3, ConcatProperties
  <2> HIDE DEF all
  <2>2. Len(before) + Len(after) = n - 1
    BY <1>1, <1>2, <1>3
  <2> QED
    BY <1>2, <2>1, <2>2
<1> HIDE DEF all
<1>5. ASSUME NEW k \in 1..(n - 1)
      PROVE  all[k] = q[IF k < i THEN k ELSE k + 1]
  <2>1. CASE k < i
    <3>1. k <= i - 1 /\ k \in 1..(i - 1)
      BY <1>1, <2>1
    <3> QED
      BY <1>2, <1>4, <2>1, <3>1
  <2>2. CASE ~(k < i)
    <3>1. ~(k <= i - 1) /\ k - (i - 1) \in 1..(n - i) /\ k - (i - 1) + i = k + 1
      BY <1>1, <2>2
    <3>2. all[k] = after[k - (i - 1)] /\ after[k - (i - 1)] = q[k - (i - 1) + i]
      BY <1>3, <1>4, <3>1
    <3> QED
      BY <2>2, <3>1, <3>2
  <2> QED
    BY <2>1, <2>2
<1>6. RemoveAt(q, i) = all
  BY DEF RemoveAt, before, after, all, n
<1>7. DOMAIN all = 1..(n - 1)
  BY <1>4
<1> QED
  BY <1>4, <1>5, <1>6, <1>7 DEF n

\* A queue without its i-th message is smaller.
LEMMA TakenShrinks ==
  ASSUME Types, Types', NEW i \in DOMAIN queue, queue' = RemoveAt(queue, i)
  PROVE  \E f : Shrinks(f) /\ \A k \in DOMAIN queue' : f[k] # i
<1> DEFINE f == [k \in DOMAIN queue' |-> IF k < i THEN k ELSE k + 1]
<1>1. queue \in Seq(Message) /\ i \in 1..Len(queue) /\ DOMAIN queue = 1..Len(queue)
  BY DEF Types
<1>2. /\ DOMAIN queue' = 1..(Len(queue) - 1)
      /\ \A k \in 1..(Len(queue) - 1) : queue'[k] = queue[IF k < i THEN k ELSE k + 1]
  BY <1>1, RemoveAtProperties
<1>3. Len(queue) \in Nat
  BY <1>1
<1>4. Shrinks(f) /\ \A k \in DOMAIN queue' : f[k] # i
  BY <1>1, <1>2, <1>3 DEF Shrinks
<1> QED
  BY <1>4

\* A queue that stays, or is emptied, is no larger either.
LEMMA SameShrinks ==
  ASSUME Types, UNCHANGED queue \/ queue' = << >>
  PROVE  \E f : Shrinks(f)
<1>1. CASE UNCHANGED queue
  <2>1. Shrinks([k \in DOMAIN queue |-> k])
    BY <1>1 DEF Shrinks
  <2> QED
    BY <2>1
<1>2. CASE queue' = << >>
  <2>1. DOMAIN queue' = {}
    BY <1>2
  <2>2. Shrinks([k \in {} |-> k])
    BY <2>1 DEF Shrinks
  <2> QED
    BY <2>2
<1> QED
  BY <1>1, <1>2

-----------------------------------------------------------------------------
\* What a smaller queue keeps, whatever happens to msg and to what is printed.
LEMMA SmallerQueue ==
  ASSUME IInv, Types', NEW f, Shrinks(f), NoneUntyped, NoneUnknown
  PROVE  /\ QueueInv' /\ MailIsForOthers'
         /\ \A i \in DOMAIN queue' : Typed(queue[i])'
<1> USE DEF Shrinks
<1>1. QueueInv'
  BY DEF IInv, OrderInv, QueueInv, Precedes, Before
<1>2. MailIsForOthers'
  <2> SUFFICES ASSUME NEW i \in DOMAIN queue', queue'[i].to # SERVER_ID
               PROVE  queue'[i].from # queue'[i].to /\ connects'[queue'[i].to] > 0
    BY DEF MailIsForOthers
  <2>1. /\ f[i] \in DOMAIN queue /\ queue'[i] = queue[f[i]]
        /\ queue[f[i]] \in Message
    BY DEF IInv, Types
  <2>2. queue[f[i]].from # queue[f[i]].to /\ connects[queue[f[i]].to] > 0
    BY <2>1 DEF IInv, MailIsForOthers
  <2>3. queue[f[i]].to \in Clients
    BY <2>1 DEF Message
  <2> QED
    BY <2>1, <2>2, <2>3 DEF IInv, Types, NoneUnknown
<1>3. \A i \in DOMAIN queue' : Typed(queue[i])'
  <2> SUFFICES ASSUME NEW i \in DOMAIN queue', queue'[i].text = "line"
               PROVE  queue'[i].num <= typed'[queue'[i].from]
    BY DEF Typed
  <2>1. f[i] \in DOMAIN queue /\ queue'[i] = queue[f[i]] /\ queue[f[i]] \in Message
    BY DEF IInv, Types
  <2>2. queue[f[i]].num <= typed[queue[f[i]].from]
    BY <2>1 DEF IInv, OrderInv, TypedInv, Typed
  <2>3. queue[f[i]].from \in Clients /\ queue[f[i]].num \in Nat
    BY <2>1 DEF Message
  <2> QED
    BY <2>1, <2>2, <2>3 DEF IInv, Types, NoneUntyped
<1> QED
  BY <1>1, <1>2, <1>3

\* What is relayed is a message, and what is printed is a sender and a number.
LEMMA DataTypes ==
  ASSUME Types, RelayInv
  PROVE  /\ spc = "relay" => msg[1] \in Message
         /\ \A i \in DOMAIN queue : queue[i] \in Message
         /\ \A c \in Clients : \A k \in DOMAIN received[c] :
              received[c][k][1] \in Clients /\ received[c][k][2] \in Nat
<1>1. spc = "relay" => msg[1] \in Message
  BY DEF Types, RelayInv
<1>2. \A i \in DOMAIN queue : queue[i] \in Message
  BY DEF Types
<1>3. ASSUME NEW c \in Clients, NEW k \in DOMAIN received[c]
      PROVE  received[c][k] \in Clients \X Nat
  <2>1. received[c] \in Seq(Clients \X Nat)
    BY DEF Types
  <2> QED
    BY <2>1
<1> QED
  BY <1>1, <1>2, <1>3

\* Who has printed or relays nothing new keeps what was typed behind it.
LEMMA StillTyped ==
  ASSUME IInv, Types', NoneUntyped, UNCHANGED <<msg, received>>, spc' = "relay" => spc = "relay"
  PROVE  /\ spc' = "relay" => Typed(msg[1])'
         /\ \A c \in Clients : \A k \in DOMAIN received'[c] :
              received'[c][k][2] <= typed'[received'[c][k][1]]
<1>0. /\ spc = "relay" => msg[1] \in Message
      /\ \A c \in Clients : \A k \in DOMAIN received[c] :
           received[c][k][1] \in Clients /\ received[c][k][2] \in Nat
  BY DataTypes DEF IInv
<1>1. ASSUME spc' = "relay", msg[1].text = "line"
      PROVE  msg[1].num <= typed'[msg[1].from]
  <2>1. msg[1].num <= typed[msg[1].from]
    BY <1>1 DEF IInv, OrderInv, TypedInv, Typed
  <2>2. msg[1].num \in Nat /\ msg[1].from \in Clients
    BY <1>0, <1>1 DEF Message
  <2> QED
    BY <2>1, <2>2 DEF IInv, Types, NoneUntyped
<1>2. ASSUME NEW c \in Clients, NEW k \in DOMAIN received[c]
      PROVE  received[c][k][2] <= typed'[received[c][k][1]]
  <2>1. received[c][k][2] <= typed[received[c][k][1]]
    BY DEF IInv, OrderInv, TypedInv
  <2>2. /\ typed[received[c][k][1]] <= typed'[received[c][k][1]]
        /\ typed[received[c][k][1]] \in Nat /\ typed'[received[c][k][1]] \in Nat
    BY <1>0 DEF IInv, Types, NoneUntyped
  <2> QED
    BY <1>0, <2>1, <2>2
<1> QED
  BY <1>1, <1>2 DEF Typed

\* A step after which the queue is not larger, and nothing new is relayed or printed.
LEMMA Quiet ==
  ASSUME IInv, Types', TableInv', NEW f, Shrinks(f), NoneUntyped, NoneUnknown,
         UNCHANGED <<msg, received>>, spc' = "relay" => spc = "relay"
  PROVE  IInv'
<1>1. QueueInv' /\ MailIsForOthers' /\ \A i \in DOMAIN queue' : Typed(queue[i])'
  BY SmallerQueue
<1>2. RelayInv'
  BY DEF IInv, RelayInv
<1>3. MsgInv'
  BY DEF IInv, OrderInv, MsgInv, Shrinks, Before
<1>4. PrintedInv'
  BY DEF IInv, OrderInv, PrintedInv, Shrinks, Printed
<1>5. PrintedMsgInv' /\ SenderOrder'
  BY DEF IInv, OrderInv, PrintedMsgInv, Printed, SenderOrder
<1>6. TypedInv'
  BY <1>1, StillTyped DEF TypedInv
<1> QED
  BY <1>1, <1>2, <1>3, <1>4, <1>5, <1>6 DEF IInv, OrderInv

\* A step that only adds a message, which is younger than all that is before it on
\* its way.
LEMMA Sent ==
  ASSUME IInv, Types', NEW n \in Message, queue' = Append(queue, n), NoneUntyped,
         UNCHANGED <<msg, received, spc, active, connects>>,
         n.to # SERVER_ID => n.from # n.to /\ connects[n.to] > 0,
         \A i \in DOMAIN queue :
           /\ queue[i].to = n.to \/ n.to = SERVER_ID => Before(queue[i], n)
           /\ n.to # SERVER_ID /\ queue[i].to = SERVER_ID => Before(n, queue[i]),
         spc = "relay" => IF n.to = SERVER_ID THEN Before(msg[1], n) ELSE Before(n, msg[1]),
         \A c \in Clients : \A k \in DOMAIN received[c] :
           n.to \in {c, SERVER_ID} => Printed(received[c][k], n),
         n.text = "line" => n.num <= typed'[n.from]
  PROVE  IInv'
<1> DEFINE last == Len(queue) + 1
<1>1. /\ last \in Nat \ {0} /\ DOMAIN queue = 1..(last - 1) /\ DOMAIN queue' = 1..last
      /\ queue'[last] = n /\ \A i \in 1..(last - 1) : queue'[i] = queue[i]
  BY DEF IInv, Types
<1> HIDE DEF last
<1>2. \A i \in 1..last : i = last \/ i \in 1..(last - 1)
  BY <1>1
<1>3. QueueInv'
  <2> SUFFICES ASSUME NEW i \in 1..last, NEW j \in 1..last, Precedes(i, j)'
               PROVE  Before(queue[i], queue[j])'
    BY <1>1 DEF QueueInv
  <2>1. CASE i \in 1..(last - 1) /\ j \in 1..(last - 1)
    BY <1>1, <2>1 DEF IInv, OrderInv, QueueInv, Precedes, Before
  <2>2. CASE i \in 1..(last - 1) /\ j = last
    BY <1>1, <2>2 DEF Precedes, Before
  <2>3. CASE i = last /\ j \in 1..(last - 1)
    BY <1>1, <2>3 DEF Precedes, Before
  <2>4. CASE i = last /\ j = last
    BY <1>1, <2>4 DEF Precedes
  <2> QED
    BY <1>2, <2>1, <2>2, <2>3, <2>4
<1>4. MsgInv'
  BY <1>1, <1>2 DEF IInv, OrderInv, MsgInv, Before
<1>5. PrintedInv'
  BY <1>1, <1>2 DEF IInv, OrderInv, PrintedInv, Printed
<1>6. PrintedMsgInv' /\ SenderOrder' /\ RelayInv' /\ TableInv'
  BY DEF IInv, OrderInv, PrintedMsgInv, Printed, SenderOrder, RelayInv, TableInv
<1>7. MailIsForOthers'
  BY <1>1, <1>2 DEF IInv, MailIsForOthers
<1>8. TypedInv'
  <2> SUFFICES ASSUME NEW i \in 1..last, queue'[i].text = "line"
               PROVE  queue'[i].num <= typed'[queue'[i].from]
    BY <1>1, StillTyped DEF TypedInv, Typed
  <2>1. CASE i = last
    BY <1>1, <2>1
  <2>2. CASE i \in 1..(last - 1)
    <3>1. queue'[i] = queue[i] /\ queue[i] \in Message
      BY <1>1, <2>2 DEF IInv, Types
    <3>2. queue[i].num <= typed[queue[i].from]
      BY <1>1, <2>2, <3>1 DEF IInv, OrderInv, TypedInv, Typed
    <3>3. queue[i].from \in Clients /\ queue[i].num \in Nat
      BY <3>1 DEF Message
    <3>4. /\ typed[queue[i].from] <= typed'[queue[i].from]
          /\ typed[queue[i].from] \in Nat /\ typed'[queue[i].from] \in Nat
      BY <3>3 DEF IInv, Types, NoneUntyped
    <3> QED
      BY <3>1, <3>2, <3>3, <3>4
  <2> QED
    BY <1>2, <2>1, <2>2
<1> QED
  BY <1>3, <1>4, <1>5, <1>6, <1>7, <1>8 DEF IInv, OrderInv

-----------------------------------------------------------------------------
\* The server takes the oldest message sent to it (queue_chat_server.c:70-85).
LEMMA ServerReceiveIInv ==
  ASSUME IInv, ServerReceive
  PROVE  IInv'
<1>1. PICK i \in DOMAIN queue :
        /\ OldestFor(SERVER_ID, i) /\ queue' = RemoveAt(queue, i) /\ msg' = <<queue[i]>>
        /\ \/ UNCHANGED <<spc, slot, table>>
           \/ /\ queue[i].from # SERVER_ID /\ AddClient(queue[i].from)
              /\ connects' = [connects EXCEPT ![queue[i].from] = @ + 1]
              /\ UNCHANGED <<spc, slot>>
           \/ RemoveClient(queue[i].from) /\ UNCHANGED <<spc, slot, connects>>
           \/ queue[i].text = "line" /\ spc' = "relay" /\ slot' = 1 /\ UNCHANGED table
  BY DEF ServerReceive
<1>2. spc = "recv" /\ UNCHANGED <<typed, received>>
  BY DEF ServerReceive, clients
<1>3. queue[i] \in Message /\ queue[i].from \in Clients /\ queue[i].to = SERVER_ID
  BY <1>1, DataTypes DEF IInv, Message, OldestFor
<1>4. Types' /\ NoneUnknown
  <2>1. queue' \in Seq(Message)
    BY <1>1, RemoveAtProperties DEF IInv, Types
  <2>2. msg' \in Seq(Message)
    BY <1>1, <1>3
  <2>3. active' \in [Slots -> Clients \union {NoClient}]
    BY <1>1, <1>3 DEF IInv, Types, table, AddClient, RemoveClient
  <2>4. connects' \in [Clients -> Nat] /\ NoneUnknown
    <3>1. connects \in [Clients -> Nat]
      BY DEF IInv, Types
    <3>2. CASE UNCHANGED connects
      BY <3>1, <3>2 DEF NoneUnknown
    <3>3. CASE connects' = [connects EXCEPT ![queue[i].from] = @ + 1]
      BY <1>3, <3>1, <3>3 DEF NoneUnknown
    <3> QED
      BY <1>1, <3>2, <3>3 DEF table
  <2> QED
    BY <1>1, <1>2, <2>1, <2>2, <2>3, <2>4 DEF IInv, Types
<1>5. TableInv'
  <2> USE <1>3 DEF IInv, Types, TableInv
  <2>1. CASE UNCHANGED table
    BY <2>1 DEF table
  <2>2. CASE /\ queue[i].from # SERVER_ID /\ AddClient(queue[i].from)
             /\ connects' = [connects EXCEPT ![queue[i].from] = @ + 1]
    BY <2>2 DEF AddClient
  <2>3. CASE RemoveClient(queue[i].from) /\ UNCHANGED connects
    BY <2>3 DEF RemoveClient
  <2> QED
    BY <1>1, <2>1, <2>2, <2>3
<1>6. PICK f : Shrinks(f) /\ \A k \in DOMAIN queue' : f[k] # i
  BY <1>1, <1>4, TakenShrinks DEF IInv
<1>7. NoneUntyped
  BY <1>2 DEF IInv, Types, NoneUntyped
<1>8. QueueInv' /\ MailIsForOthers' /\ \A j \in DOMAIN queue' : Typed(queue[j])'
  BY <1>4, <1>6, <1>7, SmallerQueue
<1>9. spc' = "relay" => msg'[1] = queue[i] /\ queue[i].text = "line"
  BY <1>1, <1>2
<1>10. RelayInv'
  BY <1>1, <1>9 DEF RelayInv
<1>11. MsgInv'
  <2> SUFFICES ASSUME spc' = "relay", NEW k \in DOMAIN queue'
               PROVE  IF queue'[k].to = SERVER_ID THEN Before(queue[i], queue'[k])
                                                  ELSE Before(queue'[k], queue[i])
    BY <1>9 DEF MsgInv, Before
  <2>1. f[k] \in DOMAIN queue /\ f[k] # i /\ queue'[k] = queue[f[k]]
    BY <1>6 DEF Shrinks
  <2>2. CASE queue'[k].to = SERVER_ID
    <3>1. i < f[k]
      BY <1>1, <2>1, <2>2 DEF OldestFor, IInv, Types
    <3> QED
      BY <1>3, <2>1, <2>2, <3>1 DEF IInv, OrderInv, QueueInv, Precedes
  <2>3. CASE queue'[k].to # SERVER_ID
    BY <1>3, <2>1, <2>3 DEF IInv, OrderInv, QueueInv, Precedes
  <2> QED
    BY <2>2, <2>3
<1>12. PrintedInv'
  BY <1>2, <1>6 DEF IInv, OrderInv, PrintedInv, Shrinks, Printed
<1>13. PrintedMsgInv' /\ SenderOrder'
  BY <1>2, <1>3, <1>9 DEF IInv, OrderInv, PrintedInv, PrintedMsgInv, Printed, SenderOrder
<1>14. TypedInv'
  <2>1. spc' = "relay" => Typed(msg[1])'
    BY <1>2, <1>9 DEF IInv, OrderInv, TypedInv, Typed
  <2>2. \A c \in Clients : \A k \in DOMAIN received'[c] :
          received'[c][k][2] <= typed'[received'[c][k][1]]
    BY <1>2 DEF IInv, OrderInv, TypedInv
  <2> QED
    BY <1>8, <2>1, <2>2 DEF TypedInv
<1> QED
  BY <1>4, <1>5, <1>8, <1>10, <1>11, <1>12, <1>13, <1>14 DEF IInv, OrderInv

\* A copy is put in another's mail (queue_chat_server.c:44-59).
LEMMA RelayCopyIInv ==
  ASSUME IInv, RelayCopy
  PROVE  IInv'
<1>1. PICK i \in slot..MAX_CLIENTS :
        /\ Receiver(i) /\ Put([msg[1] EXCEPT !.to = active[i]]) /\ slot' = i + 1
  BY DEF RelayCopy
<1>2. /\ spc = "relay" /\ UNCHANGED <<spc, msg, table, typed, received>>
  BY DEF RelayCopy, clients
<1>3. i \in Slots /\ i \in Nat
  BY <1>1, ClientsAssumption DEF IInv, Types, Slots
<1>4. /\ active[i] \in Clients /\ active[i] # SERVER_ID /\ active[i] # msg[1].from
      /\ connects[active[i]] > 0
  BY <1>1, <1>3 DEF IInv, Types, TableInv, Receiver
<1>5. msg[1] \in Message /\ msg[1].text = "line" /\ msg[1].num \in Nat
  BY <1>2, DataTypes DEF IInv, RelayInv, Message
<1> DEFINE n == [msg[1] EXCEPT !.to = active[i]]
<1>6. /\ n \in Message /\ n.to = active[i] /\ n.from = msg[1].from
      /\ n.text = "line" /\ n.num = msg[1].num
  BY <1>4, <1>5 DEF Message
<1> HIDE DEF n
<1>7. NoneUntyped /\ NoneUnknown
  BY <1>2 DEF IInv, Types, NoneUntyped, NoneUnknown, table
<1>8. CASE UNCHANGED queue
  <2>1. Types' /\ TableInv'
    BY <1>1, <1>2, <1>3, <1>8 DEF IInv, Types, TableInv, table
  <2> QED
    BY <1>2, <1>7, <1>8, <2>1, SameShrinks, Quiet DEF IInv
<1>9. CASE queue' = Append(queue, n)
  <2>1. Types'
    BY <1>1, <1>2, <1>3, <1>6, <1>9 DEF IInv, Types, table
  <2>2. \A j \in DOMAIN queue :
          /\ queue[j].to = n.to \/ n.to = SERVER_ID => Before(queue[j], n)
          /\ n.to # SERVER_ID /\ queue[j].to = SERVER_ID => Before(n, queue[j])
    BY <1>2, <1>4, <1>5, <1>6 DEF IInv, OrderInv, MsgInv, Before
  <2>3. Before(n, msg[1])
    BY <1>5, <1>6 DEF Before
  <2>4. \A c \in Clients : \A k \in DOMAIN received[c] :
          n.to \in {c, SERVER_ID} => Printed(received[c][k], n)
    BY <1>2, <1>4, <1>5, <1>6 DEF IInv, OrderInv, PrintedMsgInv, Printed
  <2>5. n.num <= typed'[n.from]
    BY <1>2, <1>5, <1>6 DEF IInv, OrderInv, TypedInv, Typed
  <2>6. UNCHANGED <<msg, received, spc, active, connects>>
    BY <1>2 DEF table
  <2> QED
    BY <1>4, <1>6, <1>7, <1>9, <2>1, <2>2, <2>3, <2>4, <2>5, <2>6, Sent
<1> QED
  BY <1>1, <1>8, <1>9 DEF Put, n

\* A reader prints the oldest message for its client (queue_chat_client.c:6-20).
LEMMA ReadIInv ==
  ASSUME IInv, NEW c \in Clients, Read(c)
  PROVE  IInv'
<1>1. PICK i \in DOMAIN queue :
        /\ OldestFor(c, i) /\ queue' = RemoveAt(queue, i)
        /\ received' = IF queue[i].text # "line" THEN received ELSE
             [received EXCEPT ![c] = Append(@, <<queue[i].from, queue[i].num>>)]
  BY DEF Read
<1>2. UNCHANGED <<spc, msg, slot, active, connects, typed>>
  BY DEF Read, table
<1>3. /\ queue[i] \in Message /\ queue[i].from \in Clients /\ queue[i].num \in Nat
      /\ queue[i].to = c
  BY <1>1, DataTypes DEF IInv, Message, OldestFor
<1>4. received[c] \in Seq(Clients \X Nat) /\ received \in [Clients -> Seq(Clients \X Nat)]
  BY DEF IInv, Types
<1>5. Types'
  <2>1. queue' \in Seq(Message)
    BY <1>1, RemoveAtProperties DEF IInv, Types
  <2>2. received' \in [Clients -> Seq(Clients \X Nat)]
    BY <1>1, <1>3, <1>4
  <2> QED
    BY <1>2, <2>1, <2>2 DEF IInv, Types
<1>6. TableInv' /\ NoneUntyped /\ NoneUnknown
  BY <1>2 DEF IInv, Types, TableInv, NoneUntyped, NoneUnknown
<1>7. PICK f : Shrinks(f) /\ \A k \in DOMAIN queue' : f[k] # i
  BY <1>1, <1>5, TakenShrinks DEF IInv
<1>8. CASE queue[i].text # "line"
  BY <1>1, <1>2, <1>5, <1>6, <1>7, <1>8, Quiet
<1>9. CASE queue[i].text = "line"
  <2> DEFINE e == <<queue[i].from, queue[i].num>>
             last == Len(received[c]) + 1
  <2>1. /\ last \in Nat \ {0} /\ DOMAIN received[c] = 1..(last - 1)
        /\ DOMAIN received'[c] = 1..last /\ received'[c][last] = e
        /\ \A k \in 1..(last - 1) : received'[c][k] = received[c][k]
    BY <1>1, <1>3, <1>4, <1>9
  <2>2. \A d \in Clients \ {c} : received'[d] = received[d]
    BY <1>1, <1>4, <1>9
  <2>3. e[1] = queue[i].from /\ e[2] = queue[i].num
    OBVIOUS
  <2> HIDE DEF e, last
  <2>4. \A k \in 1..last : k = last \/ k \in 1..(last - 1)
    BY <2>1
  <2>5. QueueInv' /\ MailIsForOthers' /\ \A j \in DOMAIN queue' : Typed(queue[j])'
    BY <1>5, <1>6, <1>7, SmallerQueue
  <2>6. RelayInv'
    BY <1>2 DEF IInv, RelayInv
  <2>7. MsgInv'
    BY <1>2, <1>7 DEF IInv, OrderInv, MsgInv, Shrinks, Before
  <2>8. PrintedInv'
    <3> SUFFICES ASSUME NEW d \in Clients, NEW k \in DOMAIN received'[d],
                        NEW j \in DOMAIN queue', queue'[j].to \in {d, SERVER_ID}
                 PROVE  Printed(received'[d][k], queue'[j])
      BY DEF PrintedInv, Printed
    <3>1. f[j] \in DOMAIN queue /\ f[j] # i /\ queue'[j] = queue[f[j]]
      BY <1>7 DEF Shrinks
    <3>2. CASE d = c /\ k = last
      <4>1. Precedes(i, f[j])
        <5>1. DOMAIN queue = 1..Len(queue) /\ Len(queue) \in Nat
          BY DEF IInv, Types
        <5>2. queue[f[j]].to = c => i < f[j]
          BY <1>1, <3>1, <5>1 DEF OldestFor
        <5> QED
          BY <1>3, <3>1, <3>2, <5>2 DEF Precedes
      <4>2. Before(queue[i], queue[f[j]])
        BY <3>1, <4>1 DEF IInv, OrderInv, QueueInv
      <4> QED
        BY <1>9, <2>1, <2>3, <3>1, <3>2, <4>2 DEF Before, Printed
    <3>3. CASE received'[d][k] = received[d][k] /\ k \in DOMAIN received[d]
      BY <3>1, <3>3 DEF IInv, OrderInv, PrintedInv
    <3> QED
      BY <2>1, <2>2, <2>4, <3>2, <3>3
  <2>9. PrintedMsgInv'
    <3> SUFFICES ASSUME spc = "relay", NEW d \in Clients \ {SERVER_ID},
                        NEW k \in DOMAIN received'[d]
                 PROVE  Printed(received'[d][k], msg[1])
      BY <1>2 DEF PrintedMsgInv, Printed
    <3>1. CASE d = c /\ k = last
      <4>1. Before(queue[i], msg[1])
        BY <1>3, <3>1 DEF IInv, OrderInv, MsgInv
      <4> QED
        BY <1>9, <2>1, <2>3, <3>1, <4>1 DEF Before, Printed
    <3>2. CASE received'[d][k] = received[d][k] /\ k \in DOMAIN received[d]
      BY <3>2 DEF IInv, OrderInv, PrintedMsgInv
    <3> QED
      BY <2>1, <2>2, <2>4, <3>1, <3>2
  <2>10. TypedInv'
    <3>1. queue[i].num <= typed[queue[i].from]
      BY <1>9 DEF IInv, OrderInv, TypedInv, Typed
    <3>2. ASSUME NEW d \in Clients, NEW k \in DOMAIN received'[d]
          PROVE  received'[d][k][2] <= typed[received'[d][k][1]]
      <4>1. CASE d = c /\ k = last
        BY <2>1, <2>3, <3>1, <4>1
      <4>2. CASE received'[d][k] = received[d][k] /\ k \in DOMAIN received[d]
        BY <4>2 DEF IInv, OrderInv, TypedInv
      <4> QED
        BY <2>1, <2>2, <2>4, <4>1, <4>2
    <3>3. spc' = "relay" => Typed(msg[1])'
      BY <1>2 DEF IInv, OrderInv, TypedInv, Typed
    <3> QED
      BY <1>2, <2>5, <3>2, <3>3 DEF TypedInv
  <2>11. SenderOrder'
    <3> SUFFICES ASSUME NEW d \in Clients, NEW k \in DOMAIN received'[d],
                        NEW l \in DOMAIN received'[d], k < l,
                        received'[d][k][1] = received'[d][l][1]
                 PROVE  received'[d][k][2] <= received'[d][l][2]
      BY DEF SenderOrder
    <3>1. CASE d = c /\ l = last
      <4>1. k \in 1..(last - 1)
        BY <2>1, <2>4, <3>1
      <4>2. Printed(received[c][k], queue[i])
        BY <1>3, <2>1, <4>1 DEF IInv, OrderInv, PrintedInv
      <4> QED
        BY <1>9, <2>1, <2>3, <3>1, <4>1, <4>2 DEF Printed
    <3>2. CASE d = c /\ l \in 1..(last - 1)
      <4>1. k \in 1..(last - 1)
        BY <2>1, <3>2
      <4> QED
        BY <2>1, <3>2, <4>1 DEF IInv, OrderInv, SenderOrder
    <3>3. CASE d # c
      BY <2>2, <3>3 DEF IInv, OrderInv, SenderOrder
    <3> QED
      BY <2>1, <2>4, <3>1, <3>2, <3>3
  <2> QED
    BY <1>5, <1>6, <2>5, <2>6, <2>7, <2>8, <2>9, <2>10, <2>11 DEF IInv, OrderInv
<1> QED
  BY <1>8, <1>9

-----------------------------------------------------------------------------
\* A client sends a line that is its youngest, or no line, or the queue is gone.
LEMMA ClientSends ==
  ASSUME IInv, Types', NoneUntyped, NEW c \in Clients, NEW text \in {"connect", "shutdown", "line"},
         NEW num \in Nat, Put(ForServer(c, text, num)),
         UNCHANGED <<msg, received, spc, active, connects>>,
         text = "line" => num = typed[c] + 1 /\ num <= typed'[c]
  PROVE  IInv'
<1> DEFINE n == ForServer(c, text, num)
<1>1. /\ n \in Message /\ n.to = SERVER_ID /\ n.from = c
      /\ n.text = text /\ n.num = num
  BY DEF ForServer, Message
<1> HIDE DEF n
<1>2. typed \in [Clients -> Nat]
  BY DEF IInv, Types
<1>3. NoneUnknown /\ TableInv'
  BY DEF IInv, Types, NoneUnknown, TableInv
<1>4. CASE UNCHANGED queue
  BY <1>3, <1>4, SameShrinks, Quiet DEF IInv
<1>5. CASE queue' = Append(queue, n)
  <2>0. /\ spc = "relay" => msg[1] \in Message
        /\ \A i \in DOMAIN queue : queue[i] \in Message
        /\ \A d \in Clients : \A k \in DOMAIN received[d] :
             received[d][k][1] \in Clients /\ received[d][k][2] \in Nat
    BY DataTypes DEF IInv
  <2>1. ASSUME NEW i \in DOMAIN queue PROVE Before(queue[i], n)
    <3> SUFFICES ASSUME queue[i].text = "line", text = "line", queue[i].from = c
                 PROVE  queue[i].num <= num
      BY <1>1 DEF Before
    <3>1. queue[i].num <= typed[c]
      BY DEF IInv, OrderInv, TypedInv, Typed
    <3>2. queue[i].num \in Nat
      BY <2>0 DEF Message
    <3> QED
      BY <1>2, <3>1, <3>2
  <2>2. ASSUME spc = "relay" PROVE Before(msg[1], n)
    <3> SUFFICES ASSUME msg[1].text = "line", text = "line", msg[1].from = c
                 PROVE  msg[1].num <= num
      BY <1>1 DEF Before
    <3>1. msg[1].num <= typed[c]
      BY <2>2 DEF IInv, OrderInv, TypedInv, Typed
    <3>2. msg[1].num \in Nat
      BY <2>0, <2>2 DEF Message
    <3> QED
      BY <1>2, <3>1, <3>2
  <2>3. ASSUME NEW d \in Clients, NEW k \in DOMAIN received[d] PROVE Printed(received[d][k], n)
    <3> SUFFICES ASSUME text = "line", received[d][k][1] = c
                 PROVE  received[d][k][2] <= num
      BY <1>1 DEF Printed
    <3>1. received[d][k][2] <= typed[c]
      BY DEF IInv, OrderInv, TypedInv
    <3> QED
      BY <1>2, <2>0, <3>1
  <2> QED
    BY <1>1, <1>5, <2>1, <2>2, <2>3, Sent
<1> QED
  BY <1>4, <1>5 DEF Put, n

\* Every step keeps the invariant: one case for each action.
LEMMA NextIInv ==
  ASSUME IInv, [Next]_vars
  PROVE  IInv'
<1> USE DEF table, clients
<1>1. CASE ServerReceive
  BY <1>1, ServerReceiveIInv
<1>2. CASE RelayCopy
  BY <1>2, RelayCopyIInv
\* Nothing is sent, received or typed.
<1>3. ASSUME UNCHANGED queue \/ queue' = << >>, spc' \in {"recv", "down"} \/ UNCHANGED spc,
             UNCHANGED <<msg, slot, typed, received, connects>>,
             UNCHANGED active \/ active' = [i \in Slots |-> NoClient]
      PROVE  IInv'
  <2>1. Types'
    <3>1. queue' \in Seq(Message)
      <4>1. queue \in Seq(Message) /\ << >> \in Seq(Message)
        BY DEF IInv, Types
      <4> QED
        BY <1>3, <4>1
    <3>2. active' \in [Slots -> Clients \union {NoClient}]
      BY <1>3 DEF IInv, Types
    <3>3. spc' \in {"recv", "relay", "down"}
      BY <1>3 DEF IInv, Types
    <3> QED
      BY <1>3, <3>1, <3>2, <3>3 DEF IInv, Types
  <2>2. TableInv'
    BY <1>3 DEF IInv, TableInv
  <2>3. NoneUntyped /\ NoneUnknown
    BY <1>3 DEF IInv, Types, NoneUntyped, NoneUnknown
  <2>4. PICK f : Shrinks(f)
    BY <1>3, SameShrinks DEF IInv
  <2> QED
    BY <1>3, <2>1, <2>2, <2>3, <2>4, Quiet
<1>4. CASE RelayDone \/ ServerStop \/ ServerCrash \/ ServerStart
  BY <1>3, <1>4 DEF RelayDone, ServerStop, ServerCrash, ServerStart
<1>5. ASSUME NEW c \in Clients, Leave(c) \/ ClientCrash(c)
      PROVE  IInv'
  BY <1>3, <1>5 DEF Leave, ClientCrash
<1>6. CASE UNCHANGED vars
  BY <1>3, <1>6 DEF vars
\* Something is typed.
<1>7. ASSUME NEW c \in Clients, NEW text \in {"connect", "shutdown", "line"}, NEW num \in Nat,
             Put(ForServer(c, text, num)),
             UNCHANGED <<msg, slot, received, spc, active, connects>>,
             typed' = [typed EXCEPT ![c] = @ + 1] \/ UNCHANGED typed,
             text = "line" => num = typed[c] + 1 /\ num <= typed'[c]
      PROVE  IInv'
  <2>1. ForServer(c, text, num) \in Message
    BY DEF ForServer, Message
  <2>2. queue' \in Seq(Message)
    <3> DEFINE n == ForServer(c, text, num)
    <3>1. queue \in Seq(Message) /\ n \in Message
      BY <2>1 DEF IInv, Types
    <3>2. UNCHANGED queue \/ queue' = Append(queue, n)
      BY <1>7 DEF Put
    <3> HIDE DEF n
    <3> QED
      BY <3>1, <3>2
  <2>3. typed' \in [Clients -> Nat] /\ NoneUntyped
    <3>1. typed \in [Clients -> Nat]
      BY DEF IInv, Types
    <3>2. CASE UNCHANGED typed
      BY <3>1, <3>2 DEF NoneUntyped
    <3>3. CASE typed' = [typed EXCEPT ![c] = @ + 1]
      BY <3>1, <3>3 DEF NoneUntyped
    <3> QED
      BY <1>7, <3>2, <3>3
  <2>4. Types'
    BY <1>7, <2>2, <2>3 DEF IInv, Types
  <2> QED
    BY <1>7, <2>3, <2>4, ClientSends
<1>8. ASSUME NEW c \in Clients, Start(c)
      PROVE  IInv'
  <2>1. Put(ForServer(c, "connect", 0))
    BY <1>8 DEF Start
  <2> QED
    BY <1>7, <1>8, <2>1 DEF Start
<1>9. ASSUME NEW c \in Clients, Say(c)
      PROVE  IInv'
  <2>1. typed[c] \in Nat /\ typed' = [typed EXCEPT ![c] = @ + 1] /\ typed'[c] = typed[c] + 1
    BY <1>9 DEF Say, IInv, Types
  <2>2. CASE Put(ForServer(c, "line", typed[c] + 1))
    <3>1. typed[c] + 1 \in Nat /\ typed[c] + 1 <= typed'[c]
      BY <2>1
    <3>2. UNCHANGED <<msg, slot, received, spc, active, connects>>
      BY <1>9 DEF Say
    <3> QED
      BY <1>7, <2>1, <2>2, <3>1, <3>2
  <2>3. CASE Put(ForServer(c, "connect", 0))
    BY <1>7, <1>9, <2>1, <2>3 DEF Say
  <2> QED
    BY <1>9, <2>2, <2>3 DEF Say
<1>10. ASSUME NEW c \in Clients, SayShutdown(c)
       PROVE  IInv'
  BY <1>7, <1>10 DEF SayShutdown
<1>11. ASSUME NEW c \in Clients, Read(c)
       PROVE  IInv'
  BY <1>11, ReadIInv
<1> QED
  BY <1>1, <1>2, <1>4, <1>5, <1>6, <1>8, <1>9, <1>10, <1>11 DEF Next, ServerWork

\* What is in a client's mail is from others, and it has connected; and a client
\* prints the lines of each sender in the order they were typed (MailInOrder;
\* queue_chat_server.c:44-59, 70-85).
THEOREM Mail == Spec => []MailInOrder
<1>1. IInv => MailInOrder
  BY DEF IInv, OrderInv, MailInOrder
<1>2. IInv /\ [Next]_vars => IInv'
  BY NextIInv
<1> QED
  BY InitIInv, <1>1, <1>2, PTL DEF Spec

-----------------------------------------------------------------------------
(* No mail after "shutdown".                                               *)

\* A client has no more slots than it has connected times, up to one; so one that
\* connected once and has left has none. The server's own id never leaves.
LeftInv ==
  /\ left \subseteq Clients \ {SERVER_ID}
  /\ \A i, j \in Slots : active[i] # NoClient /\ active[i] = active[j] =>
       i = j \/ connects[active[i]] > 1
  /\ \A i \in Slots : active[i] \in left => connects[active[i]] > 1

\* Nobody has a slot at first.
LEMMA InitLeft == Init => LeftInv
  BY DEF Init, LeftInv

\* Connecting takes one slot at most, and shutdown gives the only one back.
LEMMA NextLeft ==
  ASSUME IInv, LeftInv, [Next]_vars
  PROVE  LeftInv'
<1>0. /\ Types /\ TableInv /\ NoClient \notin Clients
      /\ left \subseteq Clients \ {SERVER_ID}
      /\ active \in [Slots -> Clients \union {NoClient}] /\ connects \in [Clients -> Nat]
  BY ClientsAssumption DEF IInv, LeftInv, Types
<1>1. CASE UNCHANGED table
  BY <1>1 DEF LeftInv, table
<1>2. CASE active' = [i \in Slots |-> NoClient] /\ UNCHANGED <<connects, left>>
  BY <1>0, <1>2 DEF LeftInv
<1>3. CASE ServerReceive /\ ~UNCHANGED table
  <2>1. PICK c \in Clients :
          /\ c # SERVER_ID
          /\ \/ AddClient(c) /\ connects' = [connects EXCEPT ![c] = @ + 1] /\ left' = left \ {c}
             \/ RemoveClient(c) /\ left' = left \union {c} /\ UNCHANGED connects
    <3>1. \A i \in DOMAIN queue : queue[i].from \in Clients
      <4>1. \A i \in DOMAIN queue : queue[i] \in Message
        BY <1>0 DEF Types
      <4> QED
        BY <4>1 DEF Message
    <3> QED
      BY <1>3, <3>1 DEF ServerReceive
  <2>2. left' \subseteq Clients \ {SERVER_ID}
    BY <1>0, <2>1
  <2>3. CASE AddClient(c) /\ connects' = [connects EXCEPT ![c] = @ + 1] /\ left' = left \ {c}
    <3>1. connects'[c] = connects[c] + 1 /\ \A d \in Clients \ {c} : connects'[d] = connects[d]
      BY <1>0, <2>3
    <3>2. connects[c] = 0 => \A i \in Slots : active[i] # c
      BY <1>0 DEF TableInv
    <3>3. \/ UNCHANGED active
          \/ \E k \in Slots : active[k] = NoClient /\ active' = [active EXCEPT ![k] = c]
      BY <2>3 DEF AddClient, FirstFree
    <3>4. ASSUME NEW i \in Slots, NEW j \in Slots, active'[i] # NoClient,
                 active'[i] = active'[j], i # j
          PROVE  connects'[active'[i]] > 1
      <4>1. active'[i] \in Clients
        BY <1>0, <3>3, <3>4
      <4>2. CASE active'[i] = c
        <5>1. active[i] = c \/ active[j] = c
          BY <1>0, <3>3, <3>4, <4>2
        <5>2. connects[c] # 0 /\ connects[c] \in Nat
          BY <1>0, <3>2, <5>1
        <5> QED
          BY <3>1, <4>2, <5>2
      <4>3. CASE active'[i] # c
        <5>1. active[i] = active'[i] /\ active[j] = active'[j]
          BY <1>0, <3>3, <3>4, <4>3
        <5> QED
          BY <3>1, <3>4, <4>1, <4>3, <5>1 DEF LeftInv
      <4> QED
        BY <4>2, <4>3
    <3>5. ASSUME NEW i \in Slots, active'[i] \in left'
          PROVE  connects'[active'[i]] > 1
      <4>1. active'[i] # c /\ active[i] = active'[i] /\ active[i] \in left /\ active[i] \in Clients
        BY <1>0, <2>3, <3>3, <3>5
      <4> QED
        BY <3>1, <4>1 DEF LeftInv
    <3> QED
      BY <2>2, <3>4, <3>5 DEF LeftInv
  <2>4. CASE RemoveClient(c) /\ left' = left \union {c} /\ UNCHANGED connects
    <3>1. \/ \E k \in Slots : active[k] = c /\ active' = [active EXCEPT ![k] = NoClient]
          \/ (\A k \in Slots : active[k] # c) /\ UNCHANGED active
      BY <2>4 DEF RemoveClient, FirstOf
    <3>2. \A i \in Slots : active'[i] # NoClient => active'[i] = active[i]
      BY <1>0, <3>1
    <3>3. ASSUME NEW i \in Slots, active'[i] = c
          PROVE  connects[c] > 1
      <4>1. active[i] = c /\ c # NoClient
        BY <1>0, <3>2, <3>3
      <4>2. PICK k \in Slots : active[k] = c /\ active' = [active EXCEPT ![k] = NoClient]
        BY <3>1, <4>1
      <4>3. k # i
        BY <1>0, <3>3, <4>1, <4>2
      <4> QED
        BY <4>1, <4>2, <4>3 DEF LeftInv
    <3>4. ASSUME NEW i \in Slots, active'[i] \in left'
          PROVE  connects'[active'[i]] > 1
      BY <1>0, <2>4, <3>2, <3>3, <3>4 DEF LeftInv
    <3> QED
      BY <2>2, <2>4, <3>2, <3>4 DEF LeftInv
  <2> QED
    BY <2>1, <2>3, <2>4
<1> QED
  BY <1>1, <1>2, <1>3 DEF Next, ServerWork, RelayCopy, RelayDone, ServerStop, ServerCrash,
     ServerStart, Start, Say, SayShutdown, Leave, Read, ClientCrash, vars

\* What the mail of a client becomes.
LEMMA MailIsFinite ==
  ASSUME Types, NEW c
  PROVE  IsFiniteSet(MailFor(c)) /\ Cardinality(MailFor(c)) \in Nat
<1>1. IsFiniteSet(DOMAIN queue)
  BY FS_Interval DEF Types
<1> QED
  BY <1>1, FS_Subset, FS_CardinalityType DEF MailFor

\* A queue that shrinks has no more mail for anybody.
LEMMA ShrinkingMail ==
  ASSUME Types, Types', NEW c, NEW f, Shrinks(f)
  PROVE  Cardinality(MailFor(c)') <= Cardinality(MailFor(c))
<1>1. PICK S : S = MailFor(c)'
  OBVIOUS
<1>2. PICK T : T = MailFor(c)
  OBVIOUS
<1> DEFINE g == [k \in S |-> f[k]]
<1>3. \A k \in S : k \in DOMAIN queue' /\ f[k] \in T
  BY <1>1, <1>2 DEF MailFor, Shrinks
<1>4. \A k, l \in S : f[k] = f[l] => k = l
  <2>1. \A k \in S : k \in Nat
    BY <1>3 DEF Types
  <2>2. \A k \in S : f[k] \in Nat
    BY <1>2, <1>3 DEF Types, MailFor
  <2>3. \A k, l \in S : k < l => f[k] < f[l]
    BY <1>3 DEF Shrinks
  <2> QED
    BY <2>1, <2>2, <2>3
<1>5. g \in [S -> T] /\ \A k, l \in S : g[k] = g[l] => k = l
  BY <1>3, <1>4
<1> HIDE DEF g
<1>6. g \in Injection(S, T)
  BY <1>5 DEF Injection, IsInjective
<1>7. Cardinality(S) <= Cardinality(T)
  BY <1>2, <1>6, MailIsFinite, FS_Injection
<1> QED
  BY <1>1, <1>2, <1>7

\* A message for another leaves a client's mail alone.
LEMMA OthersMail ==
  ASSUME Types, NEW c, NEW m, m.to # c, Put(m)
  PROVE  Cardinality(MailFor(c)') <= Cardinality(MailFor(c))
<1>1. MailFor(c)' = MailFor(c)
  <2>1. CASE UNCHANGED queue
    BY <2>1 DEF MailFor
  <2>2. CASE queue' = Append(queue, m)
    BY <2>2 DEF MailFor, Types
  <2> QED
    BY <2>1, <2>2 DEF Put
<1> QED
  BY <1>1, MailIsFinite

\* No step sends anything to a client that connected once and has left.
LEMMA NextMail ==
  ASSUME IInv, LeftInv, [Next]_vars, NEW c \in left, connects[c] <= 1
  PROVE  Cardinality(MailFor(c)') <= Cardinality(MailFor(c))
<1>1. Types /\ Types' /\ RelayInv /\ c # SERVER_ID /\ \A i \in Slots : active[i] # c
  <2>1. \A i \in Slots : active[i] = c => connects[c] > 1
    BY DEF LeftInv
  <2>2. connects[c] \in Nat
    BY DEF IInv, Types, LeftInv
  <2> QED
    BY <2>1, <2>2, NextIInv DEF IInv, LeftInv
<1>2. CASE UNCHANGED queue \/ queue' = << >>
  BY <1>1, <1>2, SameShrinks, ShrinkingMail
<1>3. CASE \E i \in DOMAIN queue : queue' = RemoveAt(queue, i)
  BY <1>1, <1>3, TakenShrinks, ShrinkingMail
<1>4. CASE RelayCopy
  <2>1. PICK i \in Slots : Put([msg[1] EXCEPT !.to = active[i]])
    <3>1. slot..MAX_CLIENTS \subseteq Slots
      BY <1>1, ClientsAssumption DEF Types, Slots
    <3> QED
      BY <1>4, <3>1 DEF RelayCopy
  <2>2. msg[1] \in Message
    BY <1>1, <1>4 DEF RelayCopy, RelayInv, Types
  <2>3. [msg[1] EXCEPT !.to = active[i]].to = active[i]
    BY <2>2 DEF Message
  <2> QED
    BY <1>1, <2>1, <2>3, OthersMail
<1>5. ASSUME NEW d, NEW t, NEW n, Put(ForServer(d, t, n))
      PROVE  Cardinality(MailFor(c)') <= Cardinality(MailFor(c))
  <2>1. ForServer(d, t, n).to # c
    BY <1>1 DEF ForServer
  <2> QED
    BY <1>1, <1>5, <2>1, OthersMail
<1>6. CASE \E d \in Clients : Start(d) \/ Say(d) \/ SayShutdown(d)
  BY <1>5, <1>6 DEF Start, Say, SayShutdown
<1>7. CASE ServerReceive \/ \E d \in Clients : Read(d)
  BY <1>3, <1>7 DEF ServerReceive, Read
<1>8. CASE \/ RelayDone \/ ServerStop \/ ServerCrash \/ ServerStart \/ UNCHANGED vars
           \/ \E d \in Clients : Leave(d) \/ ClientCrash(d)
  BY <1>2, <1>8 DEF RelayDone, ServerStop, ServerCrash, ServerStart, Leave, ClientCrash, vars
<1> QED
  BY <1>4, <1>6, <1>7, <1>8 DEF Next, ServerWork

\* A client that connected once and whose "shutdown" was handled is sent nothing any
\* more, whatever is still on its way through the server (NoMailAfterShutdown;
\* queue_chat_server.c:25-60).
THEOREM ShutdownEndsMail == Spec => NoMailAfterShutdown
<1>1. IInv /\ LeftInv /\ [Next]_vars =>
        [\A c \in left : connects[c] <= 1 =>
           Cardinality(MailFor(c)') <= Cardinality(MailFor(c))]_vars
  BY NextMail
<1>2. IInv /\ LeftInv /\ [Next]_vars => IInv' /\ LeftInv'
  BY NextIInv, NextLeft
<1> QED
  BY <1>1, <1>2, InitIInv, InitLeft, PTL DEF Spec, NoMailAfterShutdown
=============================================================================
