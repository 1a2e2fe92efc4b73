--------------------------- MODULE TcpSelectProofs --------------------------
(***************************************************************************)
(* The calculator server of module3/15 for any number of connections and   *)
(* slots, any size of the buffers, any lines and losses.                   *)
(***************************************************************************)
EXTENDS TcpSelect, Integers, FiniteSetTheorems, SequenceTheorems, TLAPS

Client == [sockfd : Fds \union {0}, state : {"OP", "FIRST", "SECOND"}, op : Seq(Char),
           first_num : Seq(Char), buffer : [1..BUFFER_SIZE -> Char]]

Types ==
  /\ spc \in {"select", "accept", "scan", "killed", "stopped"}
  /\ ready \subseteq Fds /\ from \in Nat \ {0}
  /\ slots \in [Slots -> Client] /\ nclients \in Int
  /\ fds \in [Fds -> Conns \union {NoConn}]
  /\ backlog \in Seq(Conns) /\ shut \subseteq Conns /\ unwelcome \subseteq Conns
  /\ peer \in [Conns -> {"open", "fin", "broken", "reset"}]
  /\ up \in [Conns -> Seq(Char)] /\ replies \in [Conns -> Nat]
  /\ user \in [Conns -> {"off", "recv", "type", "closed"}]
  /\ typed \in [Conns -> Nat] /\ others \in [Conns -> Nat]

\* A connection is known to the server in one place: in the backlog, once, or under
\* one descriptor; and one that was reset before its prompt is known no more.
PlacesInv ==
  /\ \A k \in DOMAIN backlog : /\ user[backlog[k]] # "off"
                               /\ backlog[k] \notin unwelcome
                               /\ \A f \in Fds : fds[f] # backlog[k]
  /\ \A j, k \in DOMAIN backlog : backlog[j] = backlog[k] => j = k
  /\ \A f, g \in Fds : fds[f] # NoConn /\ fds[f] = fds[g] => f = g
  /\ \A f \in Fds : fds[f] # NoConn => user[fds[f]] # "off"
  /\ \A c \in unwelcome : user[c] # "off"

\* What select() reported is of slots in use and is true, and stays so up to the
\* slot the scan has come to.
ReadyInv ==
  /\ spc \in {"select", "accept"} => from = 1
  /\ spc = "accept" =>
       /\ backlog # << >>
       /\ \A f \in ready : fds[f] # NoConn
       /\ \A i \in Slots : Due(i) => Readable(ConnOf(i))
  /\ ReadNeverBlocks

\* Where only lines are sent, what is on its way to the server are whole lines but
\* for the beginning: of two characters that follow one another one is a newline,
\* and so is the last.
LinesInv ==
  \A c \in Conns : others[c] = 0 => \A k \in DOMAIN up[c] :
    /\ up[c][k] # NUL
    /\ up[c][k] # NL => k < Len(up[c]) /\ up[c][k + 1] = NL

IInv == Types /\ TableIsSound /\ PlacesInv /\ ReadyInv /\ LinesInv /\ NobodyWaitsInVain

-----------------------------------------------------------------------------
\* Numbers of descriptors and slots, and the two characters that are no text.
LEMMA Numbers ==
  /\ Fds \subseteq Nat /\ 0 \notin Fds
  /\ Slots \subseteq Nat \ {0}
  /\ NL \in Char /\ NUL \in Char /\ NL # NUL
  /\ \A kind \in Kinds, n \in Nat : <<kind, n>> \in Char \ {NL, NUL}
<1>1. Cardinality(Conns) \in Nat
  BY ConnsAssumption, FS_CardinalityType
<1>2. Fds \subseteq Nat /\ 0 \notin Fds
  BY <1>1 DEF Fds, ListenFd
<1>3. Slots \subseteq Nat \ {0}
  BY SizeAssumption DEF Slots
<1>4. NL \in Char /\ NUL \in Char /\ NL # NUL
  BY DEF Char, NL, NUL
<1>5. \A kind \in Kinds, n \in Nat : <<kind, n>> \in Char \ {NL, NUL}
  BY DEF Char, NL, NUL, Kinds
<1> QED
  BY <1>2, <1>3, <1>4, <1>5

\* A free slot is a slot.
LEMMA FreeSlots ==
  FreeSlot \in Client /\ FreeSlot.sockfd = 0 /\ FreeSlot.buffer[BUFFER_SIZE] = NUL
<1>1. Blank \in [1..BUFFER_SIZE -> Char] /\ Blank[BUFFER_SIZE] = NUL
  BY Numbers, SizeAssumption DEF Blank
<1>2. << >> \in Seq(Char)
  OBVIOUS
<1> QED
  BY <1>1, <1>2 DEF FreeSlot, Client

\* The slots in use can be counted.
LEMMA UsedIsFinite == IsFiniteSet(Used) /\ Cardinality(Used) \in Nat
<1>1. IsFiniteSet(Slots)
  BY FS_Interval, SizeAssumption DEF Slots
<1> QED
  BY <1>1, FS_Subset, FS_CardinalityType DEF Used

\* The invariant holds at first.
LEMMA InitIInv == Init => IInv
<1> SUFFICES ASSUME Init PROVE IInv
  OBVIOUS
<1> USE DEF Init
<1>1. Types
  <2>1. << >> \in Seq(Conns) /\ << >> \in Seq(Char)
    OBVIOUS
  <2> QED
    BY <2>1, FreeSlots DEF Types
<1>2. Used = {}
  BY FreeSlots DEF Used
<1>3. TableIsSound
  <2>1. nclients = Cardinality(Used) + Cardinality(unwelcome)
    BY <1>2, FS_EmptySet
  <2>2. SlotsOwnDescriptors
    BY <1>2 DEF SlotsOwnDescriptors
  <2>3. Terminated
    BY FreeSlots DEF Terminated
  <2> QED
    BY <2>1, <2>2, <2>3 DEF TableIsSound, OnlineCount
<1>4. PlacesInv /\ ReadyInv /\ LinesInv /\ NobodyWaitsInVain
  BY DEF PlacesInv, ReadyInv, LinesInv, NobodyWaitsInVain, ReadNeverBlocks
<1> QED
  BY <1>1, <1>3, <1>4 DEF IInv

-----------------------------------------------------------------------------
(* The scan serves one slot.                                               *)

\* What serving slot i does to the table: the slot keeps its descriptor, or is
\* closed, or the server dies; the connection is told something, or is closed.
Served(i) ==
  /\ slots' \in [Slots -> Client] /\ \A j \in Slots : slots'[j].buffer[BUFFER_SIZE] = NUL
  /\ \/ /\ spc' = spc /\ UNCHANGED <<nclients, fds, shut>>
        /\ \A j \in Slots : slots'[j].sockfd = slots[j].sockfd
     \/ spc' = spc /\ CloseClient(i)
     \/ spc' = "killed" /\ UNCHANGED <<slots, nclients, fds, shut>>
  /\ peer' \in [Conns -> {"open", "fin", "broken", "reset"}]
  /\ \A c \in Conns : peer[c] # "open" => peer'[c] # "open"
  /\ replies' \in [Conns -> Nat] /\ \A c \in Conns : replies'[c] >= replies[c]
Told(c) == replies'[c] > 0 \/ c \in shut' \/ spc' = "killed"

\* Slot i closes.
LEMMA CloseServes ==
  ASSUME Types, Terminated, NEW i \in Used, ConnOf(i) \in Conns,
         CloseClient(i), UNCHANGED <<spc, peer, replies>>
  PROVE  Served(i) /\ Told(ConnOf(i))
<1>1. slots' \in [Slots -> Client] /\ \A j \in Slots : slots'[j].buffer[BUFFER_SIZE] = NUL
  BY FreeSlots DEF Types, Terminated, CloseClient, Used
<1>2. Told(ConnOf(i))
  BY DEF CloseClient, Told
<1> QED
  BY <1>1, <1>2 DEF Served, Types

\* Replies are written for slot i, which is s then.
LEMMA AnswerServes ==
  ASSUME Types, Terminated, NEW i \in Used, ConnOf(i) \in Conns,
         NEW n \in {1, 2}, NEW s \in Client, s.sockfd = slots[i].sockfd,
         s.buffer[BUFFER_SIZE] = NUL, Answer(i, n, s)
  PROVE  Served(i) /\ Told(ConnOf(i))
<1> DEFINE c == ConnOf(i)
<1>1. i \in Slots
  BY DEF Used
<1> HIDE DEF c
<1>2. ASSUME NEW p \in {"open", "fin", "broken"}, Written(c, p),
             peer' = [peer EXCEPT ![c] = p],
             replies' = [replies EXCEPT ![c] = @ + n], slots' = [slots EXCEPT ![i] = s],
             spc' = spc, UNCHANGED <<nclients, fds, shut>>, c \in Conns
      PROVE  Served(i) /\ Told(c)
  <2>1. /\ slots' \in [Slots -> Client]
        /\ \A j \in Slots : slots'[j].buffer[BUFFER_SIZE] = NUL
        /\ \A j \in Slots : slots'[j].sockfd = slots[j].sockfd
    BY <1>1, <1>2 DEF Types, Terminated
  <2>2. /\ peer' \in [Conns -> {"open", "fin", "broken", "reset"}]
        /\ \A d \in Conns : peer[d] # "open" => peer'[d] # "open"
    BY <1>2 DEF Types, Written
  <2>3. /\ replies' \in [Conns -> Nat] /\ \A d \in Conns : replies'[d] >= replies[d]
        /\ replies'[c] > 0
    BY <1>2 DEF Types
  <2> QED
    BY <1>2, <2>1, <2>2, <2>3 DEF Served, Told
<1>3. ASSUME spc' = "killed", UNCHANGED <<slots, nclients, fds, shut, peer, replies>>
      PROVE  Served(i) /\ Told(c)
  BY <1>3 DEF Served, Told, Types, Terminated
<1> QED
  BY <1>2, <1>3, CloseServes DEF Answer, c

\* A line, and what is left when it has been handled.
LEMMA HandleServes ==
  ASSUME Types, Terminated, NEW i \in Used, ConnOf(i) \in Conns,
         NEW s \in Client, s.sockfd = slots[i].sockfd, s.buffer[BUFFER_SIZE] = NUL,
         HandleBuffer(i, s)
  PROVE  Served(i) /\ (LineEnds(s.buffer) # {} => Told(ConnOf(i)))
<1>0. i \in Slots
  BY DEF Used
<1>1. CASE /\ LineEnds(s.buffer) = {} /\ slots' = [slots EXCEPT ![i] = s]
           /\ UNCHANGED <<spc, nclients, fds, shut, peer, replies>>
  BY <1>0, <1>1 DEF Served, Types, Terminated
<1>2. ASSUME NEW k \in LineEnds(s.buffer),
             LET text == SubSeq(s.buffer, 1, k - 1)
                 cut  == [s EXCEPT !.buffer[k] = NUL]
             IN \/ s.state = "OP" /\ HandleOp(i, text, cut)
                \/ s.state = "FIRST" /\ HandleFirst(i, text, cut)
                \/ s.state = "SECOND" /\ HandleSecond(i, cut)
      PROVE  Served(i) /\ Told(ConnOf(i))
  <2> DEFINE text == SubSeq(s.buffer, 1, k - 1)
             cut  == [s EXCEPT !.buffer[k] = NUL]
  <2>1. k \in 1..BUFFER_SIZE
    BY <1>2 DEF LineEnds
  <2>2. cut \in Client /\ cut.sockfd = slots[i].sockfd /\ cut.buffer[BUFFER_SIZE] = NUL
    <3>1. [s.buffer EXCEPT ![k] = NUL] \in [1..BUFFER_SIZE -> Char]
      BY <2>1, Numbers DEF Client
    <3>2. [s.buffer EXCEPT ![k] = NUL][BUFFER_SIZE] = NUL
      BY <2>1, SizeAssumption DEF Client
    <3> QED
      BY <3>1, <3>2 DEF Client
  <2>3. text \in Seq(Char)
    <3>1. s.buffer \in Seq(Char) /\ Len(s.buffer) = BUFFER_SIZE
      BY SizeAssumption DEF Client
    <3> QED
      BY <2>1, <3>1, SizeAssumption
  <2> HIDE DEF text, cut
  <2>4. CASE HandleOp(i, text, cut)
    <3>1. [cut EXCEPT !.op = text, !.state = "FIRST"] \in Client
          /\ [cut EXCEPT !.op = text, !.state = "FIRST"].sockfd = slots[i].sockfd
          /\ [cut EXCEPT !.op = text, !.state = "FIRST"].buffer[BUFFER_SIZE] = NUL
      BY <2>2, <2>3 DEF Client
    <3> QED
      BY <2>2, <2>4, <3>1, AnswerServes, CloseServes DEF HandleOp
  <2>5. CASE HandleFirst(i, text, cut)
    <3>1. [cut EXCEPT !.first_num = text, !.state = "SECOND"] \in Client
          /\ [cut EXCEPT !.first_num = text, !.state = "SECOND"].sockfd = slots[i].sockfd
          /\ [cut EXCEPT !.first_num = text, !.state = "SECOND"].buffer[BUFFER_SIZE] = NUL
      BY <2>2, <2>3 DEF Client
    <3> QED
      BY <2>5, <3>1, AnswerServes DEF HandleFirst
  <2>6. CASE HandleSecond(i, cut)
    <3> DEFINE b == Overlay(cut.buffer, Result)
               s2 == [cut EXCEPT !.buffer = b, !.state = "OP", !.op = << >>, !.first_num = << >>]
    <3>1. b \in [1..BUFFER_SIZE -> Char] /\ b[BUFFER_SIZE] = NUL
      <4>1. Len(Result) = 3 /\ Result[1] \in Char /\ Result[2] \in Char /\ Result[3] \in Char
        BY Numbers DEF Result, Kinds
      <4>2. cut.buffer \in [1..BUFFER_SIZE -> Char]
        BY <2>2 DEF Client
      <4> HIDE DEF Result
      <4> QED
        BY <2>2, <4>1, <4>2, SizeAssumption DEF Overlay
    <3>2. << >> \in Seq(Char)
      OBVIOUS
    <3> HIDE DEF b
    <3>3. s2 \in Client /\ s2.sockfd = slots[i].sockfd /\ s2.buffer[BUFFER_SIZE] = NUL
      BY <2>2, <3>1, <3>2 DEF Client
    <3>4. Answer(i, 2, s2)
      BY <2>6 DEF HandleSecond, b
    <3> QED
      BY <3>3, <3>4, AnswerServes
  <2> QED
    BY <1>2, <2>4, <2>5, <2>6 DEF text, cut
<1> QED
  BY <1>1, <1>2 DEF HandleBuffer

Filled(i, read) == [slots[i] EXCEPT !.buffer = Overlay(@, read)]

\* A read takes a beginning of what has arrived into the buffer, whose last byte
\* stays NUL; what is taken without a rest holds a newline that ends a line.
LEMMA ReadKeepsLines ==
  ASSUME Types, Terminated, LinesInv, NEW i \in Used, NEW c \in Conns, NEW read \in Reads(c),
         up' = [up EXCEPT ![c] = SubSeq(@, Len(read) + 1, Len(@))], UNCHANGED others
  PROVE  LET s == Filled(i, read) IN
         /\ s \in Client /\ s.sockfd = slots[i].sockfd /\ s.buffer[BUFFER_SIZE] = NUL
         /\ up' \in [Conns -> Seq(Char)] /\ \A d \in Conns \ {c} : up'[d] = up[d]
         /\ LinesInv'
         /\ others[c] = 0 /\ up'[c] = << >> => LineEnds(s.buffer) # {}
<1> DEFINE s == Filled(i, read)
           u == up[c]
           n == Len(u)
<1>0. u \in Seq(Char) /\ n \in Nat /\ slots[i] \in Client
  BY DEF Types, Used
<1>1. PICK k \in 1..Min({n, BUFFER_SIZE - 1}) : read = SubSeq(u, 1, k)
  BY DEF Reads
<1>2. k \in 1..n /\ k < BUFFER_SIZE /\ k \in Nat /\ n \in Nat
  <2> DEFINE m == Min({n, BUFFER_SIZE - 1})
  <2>1. BUFFER_SIZE - 1 \in Nat
    BY SizeAssumption
  <2>2. \E x \in {n, BUFFER_SIZE - 1} : \A y \in {n, BUFFER_SIZE - 1} : x <= y
    BY <1>0, <2>1
  <2>3. m \in {n, BUFFER_SIZE - 1} /\ m <= n /\ m <= BUFFER_SIZE - 1
    BY <2>2 DEF Min
  <2> QED
    BY <1>0, <1>1, <2>1, <2>3, SizeAssumption
<1> HIDE DEF n
<1>3. read \in Seq(Char) /\ Len(read) = k /\ \A j \in 1..k : read[j] = u[j]
  BY <1>0, <1>1, <1>2 DEF n
<1>4. s \in Client /\ s.sockfd = slots[i].sockfd /\ s.buffer[BUFFER_SIZE] = NUL
      /\ \A j \in 1..k : s.buffer[j] = u[j]
  <2> DEFINE b == Overlay(slots[i].buffer, read)
  <2>1. slots[i].buffer \in [1..BUFFER_SIZE -> Char] /\ slots[i].buffer[BUFFER_SIZE] = NUL
    BY <1>0 DEF Client, Terminated, Used
  <2>2. /\ b \in [1..BUFFER_SIZE -> Char] /\ b[BUFFER_SIZE] = NUL
        /\ \A j \in 1..k : b[j] = read[j]
    BY <1>2, <1>3, <2>1, SizeAssumption DEF Overlay
  <2> HIDE DEF b
  <2>3. s = [slots[i] EXCEPT !.buffer = b]
    BY DEF b, Filled
  <2> QED
    BY <1>0, <1>3, <2>2, <2>3 DEF Client
<1> HIDE DEF s
<1>5. /\ up'[c] \in Seq(Char) /\ Len(up'[c]) = n - k
      /\ \A j \in 1..(n - k) : up'[c][j] = u[j + k]
  <2>1. up'[c] = SubSeq(u, k + 1, n)
    BY <1>3 DEF Types, n
  <2>2. k + 1 \in 1..(Len(u) + 1) /\ n \in (k + 1 - 1)..Len(u) /\ n - (k + 1) + 1 = n - k
    BY <1>0, <1>2 DEF n
  <2>3. /\ SubSeq(u, k + 1, n) \in Seq(Char) /\ Len(SubSeq(u, k + 1, n)) = n - k
        /\ \A j \in 1..(n - k) : SubSeq(u, k + 1, n)[j] = u[k + 1 + j - 1]
    <3> HIDE DEF u
    <3> QED
      BY <1>0, <2>2, SubSeqProperties
  <2>4. \A j \in 1..(n - k) : k + 1 + j - 1 = j + k
    BY <1>2
  <2> QED
    BY <2>1, <2>3, <2>4
<1>6. up' \in [Conns -> Seq(Char)] /\ \A d \in Conns \ {c} : up'[d] = up[d]
  BY <1>5 DEF Types
<1>7. others[c] = 0 => \A j \in 1..n : u[j] # NUL /\ (u[j] # NL => j < n /\ u[j + 1] = NL)
  <2>1. DOMAIN u = 1..n
    BY <1>0 DEF n
  <2> QED
    BY <2>1 DEF LinesInv, n
<1> HIDE DEF u
<1>8. LinesInv'
  <2> SUFFICES ASSUME NEW d \in Conns, others[d] = 0, NEW j \in DOMAIN up'[d]
               PROVE  /\ up'[d][j] # NUL
                      /\ up'[d][j] # NL => j < Len(up'[d]) /\ up'[d][j + 1] = NL
    BY Zenon DEF LinesInv, NUL, NL
  <2>1. CASE d # c
    BY <1>6, <2>1 DEF LinesInv
  <2>2. CASE d = c
    <3>1. j \in 1..(n - k) /\ j + k \in 1..n
      BY <1>2, <1>5, <2>2
    <3>2. up'[c][j] = u[j + k] /\ u[j + k] # NUL
          /\ (u[j + k] # NL => j + k < n /\ u[j + k + 1] = NL)
      BY <1>5, <1>7, <2>2, <3>1
    <3>3. j + k < n => j + 1 \in 1..(n - k) /\ (j + 1) + k = j + k + 1 /\ j < n - k
      BY <1>2, <3>1
    <3> QED
      BY <1>5, <2>2, <3>2, <3>3 DEF NL, NUL
  <2> QED
    BY <2>1, <2>2
<1>9. ASSUME others[c] = 0, up'[c] = << >> PROVE LineEnds(s.buffer) # {}
  <2>1. k = n
    <3>1. n - k = 0 /\ n \in Nat
      BY <1>0, <1>5, <1>9 DEF n
    <3> QED
      BY <1>2, <3>1
  <2>2. CASE u[1] = NL
    <3>1. s.buffer[1] = NL /\ 1 \in 1..BUFFER_SIZE
      BY <1>2, <1>4, <2>2, SizeAssumption
    <3> QED
      BY <3>1 DEF LineEnds
  <2>3. CASE u[1] # NL
    <3>1. n >= 2 /\ u[2] = NL /\ u[1] # NUL
      BY <1>2, <1>7, <1>9, <2>1, <2>3
    <3>2. s.buffer[2] = NL /\ s.buffer[1] = u[1] /\ 2 \in 1..BUFFER_SIZE
      BY <1>2, <1>4, <2>1, <3>1, SizeAssumption
    <3>3. \A j \in 1..(2 - 1) : s.buffer[j] \notin {NL, NUL}
      BY <2>3, <3>1, <3>2
    <3> QED
      BY <3>2, <3>3 DEF LineEnds
  <2> QED
    BY <2>2, <2>3
<1> QED
  BY <1>4, <1>6, <1>8, <1>9 DEF s

\* What process_client_data does for slot i.
LEMMA ProcessServes ==
  ASSUME Types, Terminated, LinesInv, NEW i \in Used, ConnOf(i) \in Conns,
         ProcessClientData(i), UNCHANGED others
  PROVE  /\ Served(i)
         /\ up' \in [Conns -> Seq(Char)] /\ \A d \in Conns \ {ConnOf(i)} : up'[d] = up[d]
         /\ LinesInv'
         /\ others[ConnOf(i)] = 0 /\ up'[ConnOf(i)] = << >> => Told(ConnOf(i))
<1> DEFINE c == ConnOf(i)
<1>1. ASSUME NEW read \in Reads(c),
             up' = [up EXCEPT ![c] = SubSeq(@, Len(read) + 1, Len(@))],
             HandleBuffer(i, [slots[i] EXCEPT !.buffer = Overlay(@, read)])
      PROVE  /\ Served(i)
             /\ up' \in [Conns -> Seq(Char)] /\ \A d \in Conns \ {c} : up'[d] = up[d]
             /\ LinesInv' /\ (others[c] = 0 /\ up'[c] = << >> => Told(c))
  <2> DEFINE s == Filled(i, read)
  <2>1. /\ s \in Client /\ s.sockfd = slots[i].sockfd /\ s.buffer[BUFFER_SIZE] = NUL
        /\ up' \in [Conns -> Seq(Char)] /\ \A d \in Conns \ {c} : up'[d] = up[d]
        /\ LinesInv' /\ (others[c] = 0 /\ up'[c] = << >> => LineEnds(s.buffer) # {})
    <3> HIDE DEF c
    <3>1. c \in Conns /\ up' = [up EXCEPT ![c] = SubSeq(@, Len(read) + 1, Len(@))]
      BY <1>1 DEF c
    <3> QED
      BY <3>1, ReadKeepsLines
  <2> HIDE DEF s
  <2>2. HandleBuffer(i, s)
    BY <1>1 DEF s, Filled
  <2> QED
    BY <2>1, <2>2, HandleServes
<1>2. ASSUME CloseClient(i), UNCHANGED <<spc, peer, up, replies>>
      PROVE  /\ Served(i)
             /\ up' \in [Conns -> Seq(Char)] /\ \A d \in Conns \ {c} : up'[d] = up[d]
             /\ LinesInv' /\ (others[c] = 0 /\ up'[c] = << >> => Told(c))
  <2>1. LinesInv'
    BY <1>2 DEF LinesInv
  <2> QED
    BY <1>2, <2>1, CloseServes DEF Types
<1> QED
  BY <1>1, <1>2 DEF ProcessClientData

-----------------------------------------------------------------------------
(* The steps of the server.                                                *)

\* No two slots serve the same connection.
LEMMA OwnConnections ==
  ASSUME Types, PlacesInv, SlotsOwnDescriptors, Running, NEW i \in Used
  PROVE  /\ i \in Slots /\ slots[i].sockfd \in Fds /\ ConnOf(i) \in Conns
         /\ \A j \in Used \ {i} : slots[j].sockfd # slots[i].sockfd /\ ConnOf(j) # ConnOf(i)
<1>1. \A j \in Used : j \in Slots /\ slots[j].sockfd \in Fds /\ fds[slots[j].sockfd] # NoConn
                      /\ fds[slots[j].sockfd] \in Conns
  BY DEF Used, Types, Client, SlotsOwnDescriptors
<1>2. ConnOf(i) \in Conns
  BY <1>1 DEF ConnOf
<1>3. ASSUME NEW j \in Used \ {i}
      PROVE  slots[j].sockfd # slots[i].sockfd /\ ConnOf(j) # ConnOf(i)
  <2>1. slots[j].sockfd # slots[i].sockfd
    BY <1>3 DEF SlotsOwnDescriptors
  <2> QED
    BY <1>1, <1>3, <2>1 DEF ConnOf, PlacesInv
<1> QED
  BY <1>1, <1>2, <1>3

\* A slot of the scan is served (tcp_server_new.c:177-241).
LEMMA ServeIInv ==
  ASSUME IInv, Serve
  PROVE  IInv'
<1>1. PICK i \in Slots : /\ i >= from /\ Due(i) /\ ProcessClientData(i) /\ from' = i + 1
                         /\ UNCHANGED <<ready, backlog, clientVars, unwelcome>>
  BY DEF Serve
<1>2. /\ spc = "scan" /\ Running /\ i \in Used /\ i \in Nat /\ from \in Nat /\ from <= i
      /\ Types /\ Terminated /\ LinesInv /\ PlacesInv /\ SlotsOwnDescriptors
  BY <1>1, Numbers DEF Serve, Due, IInv, TableIsSound, Types, Running
<1> DEFINE c == ConnOf(i)
           fd == slots[i].sockfd
<1>3. /\ fd \in Fds /\ c \in Conns /\ c = fds[fd]
      /\ \A j \in Used \ {i} : slots[j].sockfd # fd /\ ConnOf(j) # c
  BY <1>2, OwnConnections DEF ConnOf
<1>4. /\ Served(i)
      /\ up' \in [Conns -> Seq(Char)] /\ \A d \in Conns \ {c} : up'[d] = up[d]
      /\ LinesInv'
      /\ others[c] = 0 /\ up'[c] = << >> => Told(c)
  BY <1>1, <1>2, <1>3, ProcessServes DEF clientVars
<1>5. \/ /\ spc' = spc /\ UNCHANGED <<nclients, fds, shut>>
         /\ \A j \in Slots : slots'[j].sockfd = slots[j].sockfd
      \/ /\ spc' = spc /\ nclients' = nclients - 1 /\ shut' = shut \union {c}
         /\ fds' = [fds EXCEPT ![fd] = NoConn] /\ slots' = [slots EXCEPT ![i] = FreeSlot]
      \/ spc' = "killed" /\ UNCHANGED <<slots, nclients, fds, shut>>
  BY <1>4 DEF Served, CloseClient
<1> HIDE DEF c, fd
<1>6. Types'
  <2>1. nclients' \in Int /\ shut' \subseteq Conns
    BY <1>2, <1>3, <1>5 DEF Types
  <2>2. fds' \in [Fds -> Conns \union {NoConn}]
    BY <1>2, <1>5 DEF Types
  <2>3. spc' \in {"scan", "killed"} /\ from' \in Nat \ {0}
    BY <1>1, <1>2, <1>5
  <2> QED
    BY <1>1, <1>2, <1>4, <2>1, <2>2, <2>3 DEF Types, Served, clientVars
<1>7. PlacesInv'
  <2>1. \A f \in Fds : fds'[f] = fds[f] \/ fds'[f] = NoConn
    BY <1>2, <1>5 DEF Types
  <2>2. \A k \in DOMAIN backlog : backlog[k] \in Conns /\ backlog[k] # NoConn
    BY <1>2, ConnsAssumption DEF Types
  <2> QED
    BY <1>1, <1>2, <2>1, <2>2 DEF PlacesInv, clientVars
<1>8. Terminated'
  BY <1>4 DEF Terminated, Served
<1>9. Running' => spc' = "scan"
  BY <1>2, <1>5 DEF Running
<1>10. TableIsSound'
  <2>1. CASE \/ ~Running'
             \/ /\ UNCHANGED <<nclients, fds>>
                /\ \A j \in Slots : slots'[j].sockfd = slots[j].sockfd
    <3>1. Running' => UNCHANGED Used
      BY <2>1 DEF Used
    <3>2. SlotsOwnDescriptors'
      <4>1. CASE ~Running'
        BY <4>1 DEF SlotsOwnDescriptors
      <4>2. CASE Running'
        <5>1. /\ Used' = Used /\ fds' = fds
              /\ \A j \in Used : slots'[j].sockfd = slots[j].sockfd
          BY <2>1, <3>1, <4>2 DEF Used
        <5>2. /\ \A j \in Used : fds[slots[j].sockfd] # NoConn
              /\ \A j, k \in Used : slots[j].sockfd = slots[k].sockfd => j = k
              /\ \A f \in Fds : fds[f] # NoConn => \E j \in Used : slots[j].sockfd = f
          BY <1>2 DEF SlotsOwnDescriptors
        <5>3. /\ \A j \in Used' : fds'[slots'[j].sockfd] # NoConn
              /\ \A j, k \in Used' : slots'[j].sockfd = slots'[k].sockfd => j = k
          BY <5>1, <5>2
        <5>4. ASSUME NEW f \in Fds, fds'[f] # NoConn
              PROVE  \E j \in Used' : slots'[j].sockfd = f
          BY <5>1, <5>2, <5>4
        <5> QED
          BY <5>3, <5>4 DEF SlotsOwnDescriptors
      <4> QED
        BY <4>1, <4>2
    <3>3. OnlineCount'
      BY <1>1, <1>2, <2>1, <3>1 DEF OnlineCount, IInv, TableIsSound
    <3> QED
      BY <1>8, <3>2, <3>3 DEF TableIsSound
  <2>2. CASE /\ nclients' = nclients - 1
             /\ fds' = [fds EXCEPT ![fd] = NoConn] /\ slots' = [slots EXCEPT ![i] = FreeSlot]
    <3>1. Used' = Used \ {i}
      BY <1>2, <2>2, FreeSlots DEF Used, Types
    <3>2. \A j \in Slots \ {i} : slots'[j] = slots[j]
      BY <1>2, <2>2 DEF Types
    <3>3. \A f \in Fds : fds'[f] = IF f = fd THEN NoConn ELSE fds[f]
      BY <1>2, <2>2 DEF Types
    <3>4. SlotsOwnDescriptors'
      <4>1. \A j \in Used' : /\ j \in Used /\ j # i /\ slots'[j] = slots[j]
                             /\ slots[j].sockfd \in Fds /\ slots[j].sockfd # fd
        BY <1>2, <1>3, <3>1, <3>2 DEF Used, Types, Client
      <4>2. \A f \in Fds : fds'[f] # NoConn => \E j \in Used' : slots'[j].sockfd = f
        <5> SUFFICES ASSUME NEW f \in Fds, fds'[f] # NoConn
                     PROVE  \E j \in Used' : slots'[j].sockfd = f
          OBVIOUS
        <5>1. f # fd /\ fds[f] # NoConn
          BY <3>3
        <5>2. PICK j \in Used : slots[j].sockfd = f
          BY <1>2, <5>1 DEF SlotsOwnDescriptors
        <5>3. j # i
          BY <5>1, <5>2 DEF fd
        <5> QED
          BY <3>1, <4>1, <5>2, <5>3
      <4>3. \A j \in Used' : fds'[slots'[j].sockfd] # NoConn
        BY <1>2, <3>3, <4>1 DEF SlotsOwnDescriptors
      <4>4. \A j, k \in Used' : slots'[j].sockfd = slots'[k].sockfd => j = k
        BY <1>2, <4>1 DEF SlotsOwnDescriptors
      <4> QED
        BY <4>2, <4>3, <4>4 DEF SlotsOwnDescriptors
    <3>5. Cardinality(Used') = Cardinality(Used) - 1
      BY <1>2, <3>1, FS_RemoveElement, UsedIsFinite
    <3>6. OnlineCount'
      <4>1. nclients = Cardinality(Used) + Cardinality(unwelcome)
        BY <1>2 DEF IInv, TableIsSound, OnlineCount
      <4>2. Cardinality(unwelcome) \in Nat
        BY <1>2, ConnsAssumption, FS_Subset, FS_CardinalityType DEF Types
      <4> QED
        BY <1>1, <2>2, <3>5, <4>1, <4>2, UsedIsFinite DEF OnlineCount
    <3> QED
      BY <1>8, <3>4, <3>6 DEF TableIsSound
  <2>3. ~Running' \/ spc' = spc
    BY <1>2, <1>9
  <2> QED
    BY <1>5, <2>1, <2>2 DEF Running
<1>11. ReadyInv'
  <2>1. spc' \notin {"select", "accept"}
    BY <1>2, <1>5
  <2> SUFFICES ASSUME spc' = "scan", NEW j \in Slots, j >= i + 1, Due(j)'
               PROVE  Readable(ConnOf(j))'
    BY <1>1, <2>1 DEF ReadyInv, ReadNeverBlocks
  <2>2. j \in Nat /\ j # i /\ j >= from
    BY <1>2, Numbers
  <2>3. slots'[j].sockfd = slots[j].sockfd /\ j \in Used /\ Due(j)
    BY <1>1, <1>2, <1>5, <2>2 DEF Due, Used, Types
  <2>4. slots[j].sockfd \in Fds /\ slots[j].sockfd # fd /\ ConnOf(j) # c /\ ConnOf(j) \in Conns
    BY <1>2, <1>3, <2>2, <2>3, OwnConnections
  <2>5. fds'[slots[j].sockfd] = fds[slots[j].sockfd]
    BY <1>2, <1>5, <2>4 DEF Types
  <2>6. ConnOf(j)' = ConnOf(j)
    BY <2>3, <2>5 DEF ConnOf
  <2>7. Readable(ConnOf(j))
    BY <1>2, <2>2, <2>3 DEF IInv, ReadyInv, ReadNeverBlocks
  <2>8. up'[ConnOf(j)] = up[ConnOf(j)] /\ (peer[ConnOf(j)] # "open" => peer'[ConnOf(j)] # "open")
    BY <1>4, <2>4 DEF Served
  <2> QED
    BY <2>6, <2>7, <2>8 DEF Readable
<1>12. NobodyWaitsInVain'
  <2> SUFFICES ASSUME NEW d \in Conns, user[d] = "recv", replies'[d] = 0, others[d] = 0,
                      others' = others
               PROVE  \/ \E k \in DOMAIN backlog : backlog[k] = d
                      \/ up'[d] # << >> /\ up'[d][Len(up'[d])] = NL
                      \/ d \in shut' \/ ~Running'
    BY <1>1 DEF NobodyWaitsInVain, clientVars
  <2>1. replies[d] = 0
    BY <1>2, <1>4 DEF Served, Types
  <2>2. CASE up'[d] # << >>
    <3>1. Len(up'[d]) \in DOMAIN up'[d] /\ ~(Len(up'[d]) < Len(up'[d]))
      BY <1>4, <2>2
    <3> QED
      BY <1>4, <2>2, <3>1 DEF LinesInv
  <2>3. CASE up'[d] = << >> /\ d = c
    BY <1>4, <2>3 DEF Told, Running
  <2>4. CASE up'[d] = << >> /\ d # c
    <3>1. up[d] = << >>
      BY <1>4, <2>4
    <3>2. shut \subseteq shut' /\ Running
      BY <1>2, <1>5
    <3> QED
      BY <2>1, <3>1, <3>2 DEF IInv, NobodyWaitsInVain
  <2> QED
    BY <2>2, <2>3, <2>4
<1> QED
  BY <1>4, <1>6, <1>7, <1>10, <1>11, <1>12 DEF IInv

\* The table is sound while it, the descriptors and the counts stay.
LEMMA SameTable ==
  ASSUME TableIsSound, UNCHANGED <<slots, nclients, fds, unwelcome>>, Running' => Running
  PROVE  TableIsSound'
<1>1. UNCHANGED Used
  BY DEF Used
<1> QED
  BY <1>1 DEF TableIsSound, SlotsOwnDescriptors, OnlineCount, Terminated

\* select() returns, and the scan ends (tcp_server_new.c:151-158, 177-180).
LEMMA SelectIInv ==
  ASSUME IInv, Select \/ ScanDone
  PROVE  IInv'
<1>0. /\ Types /\ TableIsSound /\ PlacesInv /\ LinesInv /\ ReadyInv /\ NobodyWaitsInVain
      /\ UNCHANGED <<slots, nclients, fds, backlog, shut, peer, up, replies, user, typed,
                     others, unwelcome>>
      /\ spc \in {"select", "scan"} /\ spc' \in {"select", "accept", "scan"}
      /\ Running
  BY DEF IInv, Select, ScanDone, clientVars, history, Running
<1>1. TableIsSound'
  BY <1>0, SameTable
<1>2. PlacesInv' /\ LinesInv' /\ NobodyWaitsInVain'
  BY <1>0 DEF PlacesInv, LinesInv, NobodyWaitsInVain, Running
<1>3. CASE Select
  <2>1. /\ ready' = {slots[i].sockfd : i \in {j \in Used : Readable(ConnOf(j))}} /\ from' = from
        /\ spc = "select" /\ spc' = IF backlog # << >> THEN "accept" ELSE "scan"
    BY <1>3 DEF Select
  <2>2. \A j \in Used : j \in Slots /\ slots[j].sockfd \in Fds /\ fds[slots[j].sockfd] # NoConn
    <3> SUFFICES ASSUME NEW j \in Used
                 PROVE  j \in Slots /\ slots[j].sockfd \in Fds /\ fds[slots[j].sockfd] # NoConn
      OBVIOUS
    <3>1. SlotsOwnDescriptors
      BY <1>0 DEF TableIsSound
    <3>2. j \in Slots /\ slots[j].sockfd \in Fds /\ ConnOf(j) \in Conns
      BY <1>0, <3>1, OwnConnections
    <3> QED
      BY <3>2, ConnsAssumption DEF ConnOf
  <2>3. Types'
    BY <1>0, <2>1, <2>2 DEF Types
  <2>4. \A j \in Slots : Due(j)' => Readable(ConnOf(j))
    <3> SUFFICES ASSUME NEW j \in Slots, Due(j)' PROVE Readable(ConnOf(j))
      OBVIOUS
    <3>1. j \in Used /\ slots[j].sockfd \in ready'
      BY <1>0 DEF Due, Used
    <3>2. PICK i \in Used : Readable(ConnOf(i)) /\ slots[i].sockfd = slots[j].sockfd
      BY <2>1, <3>1
    <3> QED
      BY <3>2 DEF ConnOf
  <2>5. \A j \in Slots : Readable(ConnOf(j)) => Readable(ConnOf(j))'
    BY <1>0 DEF Readable, ConnOf
  <2>6. \A f \in ready' : fds'[f] # NoConn
    BY <1>0, <2>1, <2>2
  <2>7. ReadyInv'
    BY <1>0, <2>1, <2>4, <2>5, <2>6 DEF ReadyInv, ReadNeverBlocks
  <2> QED
    BY <1>1, <1>2, <2>3, <2>7 DEF IInv
<1>4. CASE ScanDone
  <2>1. spc' = "select" /\ ready' = {} /\ from' = 1
    BY <1>4 DEF ScanDone
  <2>2. Types' /\ ReadyInv'
    BY <1>0, <2>1 DEF Types, ReadyInv, ReadNeverBlocks
  <2> QED
    BY <1>1, <1>2, <2>2 DEF IInv
<1> QED
  BY <1>3, <1>4

\* A connection is accepted, prompted or refused (tcp_server_new.c:36-62, 160-176).
LEMMA AcceptIInv ==
  ASSUME IInv, Accept
  PROVE  IInv'
<1> DEFINE c == Head(backlog)
           n == Len(backlog)
<1>0. /\ Types /\ TableIsSound /\ PlacesInv /\ LinesInv /\ ReadyInv /\ NobodyWaitsInVain
      /\ spc = "accept" /\ spc' = "scan" /\ Running /\ Running'
      /\ SlotsOwnDescriptors /\ OnlineCount /\ Terminated
      /\ UNCHANGED <<ready, from, up, user, typed, others>>
  BY DEF IInv, TableIsSound, Accept, Running, clientVars
<1>1. /\ n \in Nat \ {0} /\ DOMAIN backlog = 1..n /\ DOMAIN backlog' = 1..(n - 1)
      /\ \A k \in 1..(n - 1) : k + 1 \in 1..n /\ backlog'[k] = backlog[k + 1]
      /\ \A k \in 2..n : k - 1 \in 1..(n - 1) /\ backlog'[k - 1] = backlog[k]
      /\ c = backlog[1] /\ 1 \in 1..n /\ c \in Conns
      /\ backlog' \in Seq(Conns)
  <2>1. backlog \in Seq(Conns) /\ backlog # << >> /\ backlog' = Tail(backlog)
    BY <1>0 DEF Types, ReadyInv, Accept
  <2> QED
    BY <2>1
<1> HIDE DEF c, n
<1>2. /\ c # NoConn /\ user[c] # "off" /\ c \notin unwelcome /\ \A g \in Fds : fds[g] # c
      /\ \A k \in DOMAIN backlog' : backlog'[k] # c
      /\ \A k \in DOMAIN backlog : k # 1 => k \in 2..n
  <2>1. 1 \in DOMAIN backlog /\ c = backlog[1]
    BY <1>1
  <2>2. user[c] # "off" /\ c \notin unwelcome /\ \A g \in Fds : fds[g] # c
    BY <1>0, <2>1 DEF PlacesInv
  <2>3. c # NoConn
    BY <1>1, ConnsAssumption
  <2>4. ASSUME NEW k \in DOMAIN backlog' PROVE backlog'[k] # c
    <3>1. k \in 1..(n - 1) /\ k + 1 \in DOMAIN backlog /\ backlog'[k] = backlog[k + 1]
      BY <1>1
    <3>2. k + 1 # 1
      BY <1>1, <3>1
    <3> QED
      BY <1>0, <2>1, <3>1, <3>2 DEF PlacesInv
  <2>5. \A k \in DOMAIN backlog : k # 1 => k \in 2..n
    BY <1>1
  <2> QED
    BY <2>2, <2>3, <2>4, <2>5
\* Those that stay in the backlog are there once, and nowhere else.
<1>2a. /\ \A k \in DOMAIN backlog' : /\ user[backlog'[k]] # "off" /\ backlog'[k] \notin unwelcome
                                     /\ \A g \in Fds : fds[g] # backlog'[k]
       /\ \A j, k \in DOMAIN backlog' : backlog'[j] = backlog'[k] => j = k
  <2>1. ASSUME NEW k \in DOMAIN backlog'
        PROVE  k \in Nat /\ k + 1 \in DOMAIN backlog /\ backlog'[k] = backlog[k + 1]
    BY <1>1
  <2>2. \A j, k \in DOMAIN backlog' : backlog'[j] = backlog'[k] => j = k
    <3> SUFFICES ASSUME NEW j \in DOMAIN backlog', NEW k \in DOMAIN backlog', backlog'[j] = backlog'[k]
                 PROVE  j = k
      OBVIOUS
    <3>1. j + 1 = k + 1
      BY <1>0, <2>1 DEF PlacesInv
    <3> QED
      BY <2>1, <3>1
  <2>3. \A k \in DOMAIN backlog' : /\ user[backlog'[k]] # "off" /\ backlog'[k] \notin unwelcome
                                  /\ \A g \in Fds : fds[g] # backlog'[k]
    BY <1>0, <2>1 DEF PlacesInv
  <2> QED
    BY <2>2, <2>3
<1>3. PICK f \in Fds :
        /\ FreeFd(f)
        /\ \/ \E i \in Slots : FreeAt(i) /\ InitClient(c, f, i)
           \/ Used = Slots /\ Refuse(c, f)
  BY DEF Accept, c
<1>4. fds[f] = NoConn
  BY <1>3 DEF FreeFd
<1>5. LinesInv'
  BY <1>0 DEF LinesInv
\* Whoever else waits goes on waiting in the backlog.
<1>6. ASSUME \A d \in Conns : replies'[d] >= replies[d],
             shut \subseteq shut', replies'[c] > 0 \/ c \in shut'
      PROVE  NobodyWaitsInVain'
  <2> SUFFICES ASSUME NEW d \in Conns, user[d] = "recv", replies'[d] = 0, others[d] = 0
               PROVE  \/ \E k \in DOMAIN backlog' : backlog'[k] = d
                      \/ up[d] # << >> /\ up[d][Len(up[d])] = NL
                      \/ d \in shut'
    BY <1>0 DEF NobodyWaitsInVain
  <2>1. CASE d = c
    BY <1>6, <2>1
  <2>2. ASSUME NEW k \in DOMAIN backlog, backlog[k] = d, d # c
        PROVE  \E j \in DOMAIN backlog' : backlog'[j] = d
    <3>1. k \in 2..n
      BY <1>1, <1>2, <2>2
    <3> QED
      BY <1>1, <2>2, <3>1
  <2>3. replies[d] = 0
    BY <1>0, <1>6 DEF Types
  <2> QED
    BY <1>0, <1>6, <2>1, <2>2, <2>3 DEF NobodyWaitsInVain
\* What was readable is readable.
<1>7. ASSUME \A d \in Conns : peer[d] # "open" => peer'[d] # "open",
             \A j \in Slots : Due(j)' => Due(j) /\ ConnOf(j)' = ConnOf(j)
      PROVE  ReadyInv'
  <2>1. \A j \in Slots : Due(j) => Readable(ConnOf(j)) /\ ConnOf(j) \in Conns
    BY <1>0, OwnConnections DEF ReadyInv, Due
  <2>2. \A j \in Slots : Due(j)' => Readable(ConnOf(j))'
    BY <1>0, <1>7, <2>1 DEF Readable
  <2> QED
    BY <1>0, <2>2 DEF ReadyInv, ReadNeverBlocks
<1>8. ASSUME UNCHANGED <<slots, fds, peer>>
      PROVE  ReadyInv'
  <2>1. \A j \in Slots : Due(j)' => Due(j) /\ ConnOf(j)' = ConnOf(j)
    BY <1>0, <1>8 DEF Due, Used, ConnOf
  <2> QED
    BY <1>7, <1>8, <2>1
<1>9. ASSUME NEW i \in Slots, FreeAt(i), nclients' = nclients + 1,
             NEW p \in {"open", "fin", "broken"}, Written(c, p), peer' = [peer EXCEPT ![c] = p],
             replies' = [replies EXCEPT ![c] = @ + 1],
             slots' = [slots EXCEPT ![i] = [FreeSlot EXCEPT !.sockfd = f]],
             fds' = [fds EXCEPT ![f] = c], UNCHANGED <<shut, unwelcome>>
      PROVE  IInv'
  <2>1. i \notin Used
    BY <1>9 DEF FreeAt
  <2>2. /\ [FreeSlot EXCEPT !.sockfd = f] \in Client /\ [FreeSlot EXCEPT !.sockfd = f].sockfd = f
        /\ [FreeSlot EXCEPT !.sockfd = f].buffer[BUFFER_SIZE] = NUL
    BY FreeSlots DEF Client
  <2>3. /\ slots' \in [Slots -> Client] /\ slots'[i].sockfd = f
        /\ slots'[i].buffer[BUFFER_SIZE] = NUL /\ \A j \in Slots \ {i} : slots'[j] = slots[j]
    BY <1>0, <1>9, <2>2 DEF Types
  <2>4. /\ fds' \in [Fds -> Conns \union {NoConn}]
        /\ \A g \in Fds : fds'[g] = IF g = f THEN c ELSE fds[g]
    BY <1>0, <1>1, <1>9 DEF Types
  <2>5. /\ peer' \in [Conns -> {"open", "fin", "broken", "reset"}]
        /\ \A d \in Conns : peer[d] # "open" => peer'[d] # "open"
    BY <1>0, <1>1, <1>9 DEF Types, Written
  <2>6. /\ replies' \in [Conns -> Nat] /\ \A d \in Conns : replies'[d] >= replies[d]
        /\ replies'[c] > 0
    <3>1. replies \in [Conns -> Nat] /\ c \in Conns
      BY <1>0, <1>1 DEF Types
    <3> QED
      BY <1>9, <3>1
  <2>7. Types'
    BY <1>0, <1>1, <1>9, <2>3, <2>4, <2>5, <2>6, SMTT(30) DEF Types
  <2>8. \A j \in Used : j \in Slots \ {i} /\ slots[j].sockfd \in Fds \ {f}
    BY <1>0, <1>4, <2>1, OwnConnections DEF SlotsOwnDescriptors
  <2>9. Used' = Used \union {i}
    <3>1. f # 0
      BY Numbers
    <3> QED
      BY <2>1, <2>3, <3>1 DEF Used
  <2>10. SlotsOwnDescriptors'
    <3>1. \A j \in Used' : fds'[slots'[j].sockfd] # NoConn
      BY <1>0, <1>2, <2>3, <2>4, <2>8, <2>9 DEF SlotsOwnDescriptors
    <3>2. \A j, k \in Used' : slots'[j].sockfd = slots'[k].sockfd => j = k
      BY <1>0, <2>3, <2>8, <2>9 DEF SlotsOwnDescriptors
    <3>3. \A g \in Fds : fds'[g] # NoConn => \E j \in Used' : slots'[j].sockfd = g
      BY <1>0, <2>3, <2>4, <2>8, <2>9 DEF SlotsOwnDescriptors
    <3> QED
      BY <3>1, <3>2, <3>3 DEF SlotsOwnDescriptors
  <2>11. OnlineCount'
    <3>1. Cardinality(Used') = Cardinality(Used) + 1
      BY <2>1, <2>9, UsedIsFinite, FS_AddElement
    <3>2. Cardinality(unwelcome) \in Nat
      BY <1>0, ConnsAssumption, FS_Subset, FS_CardinalityType DEF Types
    <3> QED
      BY <1>0, <1>9, <3>1, <3>2, UsedIsFinite DEF OnlineCount
  <2>12. Terminated'
    BY <1>0, <2>3 DEF Terminated
  <2>13. PlacesInv'
    <3>1. \A k \in DOMAIN backlog' : /\ user'[backlog'[k]] # "off" /\ backlog'[k] \notin unwelcome'
                                     /\ \A g \in Fds : fds'[g] # backlog'[k]
      BY <1>0, <1>2, <1>9, <1>2a, <2>4
    <3> QED
      BY <1>0, <1>2, <1>9, <1>2a, <2>4, <3>1 DEF PlacesInv
  <2>14. ReadyInv'
    <3>1. f \notin ready
      BY <1>0, <1>4 DEF ReadyInv
    <3>2. \A j \in Slots : Due(j)' => Due(j) /\ ConnOf(j)' = ConnOf(j)
      BY <1>0, <2>3, <2>4, <2>8, <2>9, <3>1 DEF Due, ConnOf
    <3> QED
      BY <1>7, <2>5, <3>2
  <2> QED
    BY <1>5, <1>6, <1>9, <2>6, <2>7, <2>10, <2>11, <2>12, <2>13, <2>14 DEF IInv, TableIsSound
\* No slot is taken: the connection is reset or refused.
<1>10. ASSUME shut' = shut \union {c}, UNCHANGED <<slots, fds, peer, replies>>,
              \/ nclients' = nclients + 1 /\ unwelcome' = unwelcome \union {c}
              \/ UNCHANGED <<nclients, unwelcome>>
       PROVE  IInv'
  <2>1. Types'
    <3>1. nclients' \in Int /\ shut' \subseteq Conns /\ unwelcome' \subseteq Conns
      BY <1>0, <1>1, <1>10 DEF Types
    <3>2. backlog' \in Seq(Conns)
      BY <1>0, <1>1
    <3> QED
      BY <1>0, <1>1, <1>10, <3>1, <3>2 DEF Types
  <2>2. UNCHANGED Used
    BY <1>10 DEF Used
  <2>3. OnlineCount'
    <3>1. IsFiniteSet(unwelcome) /\ Cardinality(unwelcome) \in Nat
      BY <1>0, ConnsAssumption, FS_Subset, FS_CardinalityType DEF Types
    <3>2. Cardinality(unwelcome \union {c}) = Cardinality(unwelcome) + 1
      BY <1>2, <3>1, FS_AddElement
    <3>3. PICK u \in Nat, m \in Nat : u = Cardinality(Used) /\ m = Cardinality(unwelcome)
      BY <3>1, UsedIsFinite
    <3>4. nclients = u + m /\ Cardinality(Used') = u
      BY <1>0, <2>2, <3>3 DEF OnlineCount
    <3>5. nclients' = u + Cardinality(unwelcome')
      <4>1. CASE nclients' = nclients + 1 /\ unwelcome' = unwelcome \union {c}
        BY <3>2, <3>3, <3>4, <4>1
      <4>2. CASE UNCHANGED <<nclients, unwelcome>>
        BY <3>3, <3>4, <4>2
      <4> QED
        BY <1>10, <4>1, <4>2
    <3> QED
      BY <3>4, <3>5 DEF OnlineCount
  <2>4. TableIsSound'
    BY <1>0, <1>10, <2>2, <2>3 DEF TableIsSound, SlotsOwnDescriptors, Terminated
  <2>5. PlacesInv'
    <3>1. \A k \in DOMAIN backlog' : /\ user'[backlog'[k]] # "off" /\ backlog'[k] \notin unwelcome'
                                     /\ \A g \in Fds : fds'[g] # backlog'[k]
      BY <1>0, <1>2, <1>10, <1>2a
    <3> QED
      BY <1>0, <1>2, <1>10, <1>2a, <3>1 DEF PlacesInv
  <2>6. NobodyWaitsInVain'
    BY <1>0, <1>6, <1>10 DEF Types
  <2> QED
    BY <1>5, <1>8, <1>10, <2>1, <2>4, <2>5, <2>6 DEF IInv
<1> QED
  BY <1>3, <1>9, <1>10 DEF InitClient, Refuse

-----------------------------------------------------------------------------
(* The clients, and SIGINT.                                                *)

\* What a client sends that is no line is text of some length.
LEMMA OthersAreText ==
  ASSUME NEW t \in {TooLong, FileSent}
  PROVE  t \in Seq(Char) /\ t # << >>
<1>1. Text \in Char /\ NL \in Char /\ NUL \in Char
  BY Numbers DEF Text, Kinds
<1> DEFINE n == BUFFER_SIZE - 2
<1>2. n \in Nat /\ n > 0
  BY SizeAssumption
<1>3. CASE t = TooLong
  <2>1. t = [k \in 1..n |-> Text]
    BY <1>3 DEF TooLong
  <2> HIDE DEF n
  <2>2. t \in Seq(Char) /\ Len(t) = n
    BY <1>1, <1>2, <2>1
  <2> QED
    BY <1>2, <2>2
<1>4. CASE t = FileSent
  <2>1. PICK x \in Char : x = Text
    BY <1>1
  <2>2. t = <<x, NL>> \o <<NL, NUL>>
    BY <1>4, <2>1 DEF FileSent, Line, Text
  <2>3. <<NL, NUL>> \in Seq(Char) /\ <<x, NL>> \in Seq(Char)
    BY <1>1
  <2>4. t \in Seq(Char) /\ Len(t) = Len(<<x, NL>>) + Len(<<NL, NUL>>)
    BY <2>2, <2>3, ConcatProperties
  <2> DEFINE m == Len(<<x, NL>>)
             n2 == Len(<<NL, NUL>>)
  <2>5. m = 2 /\ n2 \in Nat
    BY <2>3
  <2>6. Len(t) = m + n2
    BY <2>4
  <2> HIDE DEF m, n2
  <2>7. Len(t) # 0
    BY <2>5, <2>6
  <2>8. Len(<< >>) = 0
    OBVIOUS
  <2> QED
    BY <2>4, <2>7, <2>8
<1> QED
  BY <1>3, <1>4

\* One step of a client: connecting, a reply, a line, the end or a loss.
LEMMA ClientIInv ==
  ASSUME IInv, NEW c \in Conns,
         Connect(c) \/ Recv(c) \/ Type(c) \/ TypeOther(c) \/ RecvEnds(c) \/ Vanish(c)
  PROVE  IInv'
<1>0. /\ Types /\ TableIsSound /\ PlacesInv /\ LinesInv /\ ReadyInv /\ NobodyWaitsInVain
      /\ UNCHANGED <<spc, ready, from, slots, nclients, fds, shut, unwelcome>>
  BY DEF IInv, Connect, Recv, Type, TypeOther, Send, RecvEnds, Vanish, serverVars
<1>1. TableIsSound'
  BY <1>0, SameTable DEF Running
\* A step after the first prompt leaves the backlog alone.
<1>2. ASSUME Types', LinesInv', NobodyWaitsInVain', UNCHANGED backlog,
             \A d \in Conns : user[d] # "off" => user'[d] # "off",
             \A d \in Conns : Readable(d) => Readable(d)'
      PROVE  IInv'
  <2>1. PlacesInv'
    <3>1. \A k \in DOMAIN backlog : backlog[k] \in Conns
      BY <1>0 DEF Types
    <3>2. \A f \in Fds : fds[f] # NoConn => fds[f] \in Conns
      BY <1>0 DEF Types
    <3> QED
      BY <1>0, <1>2, <3>1, <3>2 DEF PlacesInv, Types
  <2>2. ReadyInv'
    <3>1. \A j \in Slots : Due(j)' => Due(j) /\ ConnOf(j)' = ConnOf(j)
      BY <1>0 DEF Due, Used, ConnOf
    <3>2. spc \in {"accept", "scan"} => \A j \in Slots : Due(j) => ConnOf(j) \in Conns
      BY <1>0, OwnConnections DEF Due, TableIsSound, Running
    <3> QED
      BY <1>0, <1>2, <3>1, <3>2 DEF ReadyInv, ReadNeverBlocks
  <2> QED
    BY <1>1, <1>2, <2>1, <2>2 DEF IInv
<1>3. CASE Connect(c)
  <2>1. /\ user[c] = "off" /\ backlog' = Append(backlog, c) /\ user' = [user EXCEPT ![c] = "recv"]
        /\ UNCHANGED <<peer, up, replies, typed, others>>
    BY <1>3 DEF Connect
  <2> DEFINE n == Len(backlog) + 1
  <2>2. /\ n \in Nat \ {0} /\ DOMAIN backlog = 1..(n - 1) /\ DOMAIN backlog' = 1..n
        /\ \A k \in 1..(n - 1) : backlog'[k] = backlog[k] /\ backlog[k] \in Conns
        /\ backlog'[n] = c /\ backlog' \in Seq(Conns) /\ n \in 1..n
        /\ 1..n = 1..(n - 1) \union {n}
    BY <1>0, <2>1 DEF Types
  <2> HIDE DEF n
  <2>3. Types'
    BY <1>0, <2>1, <2>2 DEF Types
  <2>4. user' \in [Conns -> {"off", "recv", "type", "closed"}]
        /\ \A d \in Conns : user'[d] = IF d = c THEN "recv" ELSE user[d]
    BY <1>0, <2>1 DEF Types
  <2>5. c \notin unwelcome /\ (\A f \in Fds : fds[f] # c) /\ \A k \in 1..(n - 1) : backlog[k] # c
    BY <1>0, <2>1, <2>2, ConnsAssumption DEF PlacesInv
  <2>6. PlacesInv'
    <3>1. \A k \in DOMAIN backlog' : /\ user'[backlog'[k]] # "off" /\ backlog'[k] \notin unwelcome'
                                     /\ \A g \in Fds : fds'[g] # backlog'[k]
      BY <1>0, <2>2, <2>4, <2>5 DEF PlacesInv
    <3>2. \A j, k \in DOMAIN backlog' : backlog'[j] = backlog'[k] => j = k
      BY <1>0, <2>2, <2>5 DEF PlacesInv
    <3>3. \A f \in Fds : fds[f] # NoConn => fds[f] \in Conns
      BY <1>0 DEF Types
    <3> QED
      BY <1>0, <2>4, <3>1, <3>2, <3>3 DEF PlacesInv, Types
  <2>7. LinesInv'
    BY <1>0, <2>1 DEF LinesInv
  <2>8. NobodyWaitsInVain'
    BY <1>0, <2>1, <2>2, <2>4 DEF NobodyWaitsInVain, Running
  <2>9. ReadyInv'
    <3>1. \A j \in Slots : /\ Due(j)' => Due(j)
                           /\ Readable(ConnOf(j)) => Readable(ConnOf(j))'
      BY <1>0, <2>1 DEF Due, Used, ConnOf, Readable
    <3>2. backlog' # << >>
      BY <2>2
    <3> QED
      BY <1>0, <3>1, <3>2 DEF ReadyInv, ReadNeverBlocks
  <2> QED
    BY <1>1, <2>3, <2>6, <2>7, <2>8, <2>9 DEF IInv
<1>4. CASE Recv(c)
  <2>1. PICK k \in 1..replies[c] : replies' = [replies EXCEPT ![c] = @ - k]
    BY <1>4 DEF Recv
  <2>2. UNCHANGED <<backlog, peer, up, typed, others>> /\ user' = [user EXCEPT ![c] = "type"]
        /\ user[c] = "recv"
    BY <1>4 DEF Recv
  <2>3. replies' \in [Conns -> Nat] /\ \A d \in Conns \ {c} : replies'[d] = replies[d]
    BY <1>0, <2>1 DEF Types
  <2>4. Types'
    BY <1>0, <2>2, <2>3 DEF Types
  <2>5. LinesInv' /\ NobodyWaitsInVain'
    BY <1>0, <2>2, <2>3 DEF LinesInv, NobodyWaitsInVain, Types, Running
  <2>6. /\ \A d \in Conns : user[d] # "off" => user'[d] # "off"
        /\ \A d \in Conns : Readable(d) => Readable(d)'
    BY <1>0, <2>2 DEF Types, Readable
  <2> QED
    BY <1>2, <2>2, <2>4, <2>5, <2>6
<1>5. CASE Type(c)
  <2>1. PICK kind \in Kinds : up' = [up EXCEPT ![c] = @ \o <<<<kind, typed[c] + 1>>, NL>>]
    BY <1>5 DEF Type, Send, Line
  <2>2. /\ UNCHANGED <<backlog, replies, others>> /\ user[c] = "type"
        /\ user' = [user EXCEPT ![c] = "recv"] \/ user' = [user EXCEPT ![c] = "closed"]
        /\ typed' = [typed EXCEPT ![c] = @ + 1]
    BY <1>5 DEF Type, Send, Hangup
  <2>3. peer' \in [Conns -> {"open", "fin", "broken", "reset"}]
        /\ \A d \in Conns : peer[d] # "open" => peer'[d] # "open"
    BY <1>0, <1>5 DEF Type, Hangup, Types
  <2>4. typed' \in [Conns -> Nat] /\ typed[c] + 1 \in Nat
    BY <1>0, <2>2 DEF Types
  <2> DEFINE x == <<kind, typed[c] + 1>>
             n == Len(up[c])
  <2>5. x \in Char /\ x # NUL /\ NL \in Char /\ NL # NUL
    BY <2>1, <2>4, Numbers
  <2> HIDE DEF x
  <2>6. /\ n \in Nat /\ DOMAIN up[c] = 1..n /\ up'[c] \in Seq(Char) /\ Len(up'[c]) = n + 2
        /\ DOMAIN up'[c] = 1..(n + 2) /\ up'[c][n + 1] = x /\ up'[c][n + 2] = NL
        /\ \A k \in 1..n : up'[c][k] = up[c][k]
        /\ \A d \in Conns \ {c} : up'[d] = up[d]
        /\ up' \in [Conns -> Seq(Char)]
    <3>1. up'[c] = up[c] \o <<x, NL>> /\ up[c] \in Seq(Char)
          /\ \A d \in Conns \ {c} : up'[d] = up[d]
      BY <1>0, <2>1 DEF Types, x
    <3>2. n \in Nat /\ DOMAIN up[c] = 1..n /\ up'[c] \in Seq(Char) /\ Len(up'[c]) = n + 2
          /\ DOMAIN up'[c] = 1..(n + 2) /\ up'[c][n + 1] = x /\ up'[c][n + 2] = NL
          /\ \A k \in 1..n : up'[c][k] = up[c][k]
      BY <2>5, <3>1
    <3> QED
      BY <1>0, <2>1, <3>1, <3>2 DEF Types
  <2> HIDE DEF n
  <2>7. Types'
    BY <1>0, <2>2, <2>3, <2>4, <2>6 DEF Types
  <2>8. LinesInv'
    <3> SUFFICES ASSUME NEW d \in Conns, others'[d] = 0, NEW k \in DOMAIN up'[d]
                 PROVE  /\ up'[d][k] # NUL
                        /\ up'[d][k] # NL => k < Len(up'[d]) /\ up'[d][k + 1] = NL
      BY Zenon DEF LinesInv, NUL, NL
    <3>0. others[d] = 0
      BY <2>2
    <3>1. CASE d # c
      <4>1. up'[d] = up[d] /\ k \in DOMAIN up[d]
        BY <2>6, <3>1
      <4> QED
        BY <1>0, <3>0, <4>1 DEF LinesInv
    <3>2. CASE d = c /\ k \in 1..n
      <4>1. up[c][k] # NUL /\ (up[c][k] # NL => k < n /\ up[c][k + 1] = NL)
        BY <1>0, <2>6, <3>0, <3>2 DEF LinesInv, n
      <4>2. k < n => k + 1 \in 1..n
        BY <2>6, <3>2
      <4> QED
        BY <2>6, <3>2, <4>1, <4>2
    <3>3. CASE d = c /\ k \in {n + 1, n + 2}
      BY <2>5, <2>6, <3>3
    <3>4. k \in 1..(n + 2) => k \in 1..n \/ k \in {n + 1, n + 2}
      BY <2>6
    <3> QED
      BY <2>6, <3>1, <3>2, <3>3, <3>4
  <2>9. NobodyWaitsInVain'
    <3>1. up'[c] # << >> /\ up'[c][Len(up'[c])] = NL
      BY <2>6
    <3> QED
      BY <1>0, <2>2, <2>6, <3>1 DEF NobodyWaitsInVain, Types, Running
  <2>10. /\ \A d \in Conns : user[d] # "off" => user'[d] # "off"
         /\ \A d \in Conns : Readable(d) => Readable(d)'
    <3>1. up'[c] # << >>
      BY <2>6
    <3> QED
      BY <1>0, <2>2, <2>3, <2>6, <3>1 DEF Types, Readable
  <2> QED
    BY <1>2, <2>2, <2>7, <2>8, <2>9, <2>10
<1>6. CASE RecvEnds(c) \/ Vanish(c)
  <2>1. /\ UNCHANGED <<backlog, up, replies, typed, others>> /\ user[c] # "off"
        /\ user' = [user EXCEPT ![c] = "closed"]
    BY <1>6 DEF RecvEnds, Vanish, Hangup
  <2>2. peer' \in [Conns -> {"open", "fin", "broken", "reset"}]
        /\ \A d \in Conns : peer[d] # "open" => peer'[d] # "open"
    BY <1>0, <1>6 DEF RecvEnds, Vanish, Hangup, Types
  <2>3. Types'
    BY <1>0, <2>1, <2>2 DEF Types
  <2>4. LinesInv' /\ NobodyWaitsInVain'
    BY <1>0, <2>1 DEF LinesInv, NobodyWaitsInVain, Types, Running
  <2>5. /\ \A d \in Conns : user[d] # "off" => user'[d] # "off"
        /\ \A d \in Conns : Readable(d) => Readable(d)'
    BY <1>0, <2>1, <2>2 DEF Types, Readable
  <2> QED
    BY <1>2, <2>1, <2>3, <2>4, <2>5
<1>7. CASE TypeOther(c)
  <2>1. PICK t \in Seq(Char) : t # << >> /\ Send(c, t)
    BY <1>7, OthersAreText DEF TypeOther
  <2>2. /\ UNCHANGED <<backlog, peer, replies>> /\ user[c] = "type"
        /\ user' = [user EXCEPT ![c] = "recv"] /\ typed' = [typed EXCEPT ![c] = @ + 1]
        /\ others' = [others EXCEPT ![c] = @ + 1] /\ up' = [up EXCEPT ![c] = @ \o t]
    BY <1>7, <2>1 DEF TypeOther, Send
  <2>3. /\ up' \in [Conns -> Seq(Char)] /\ up'[c] # << >>
        /\ \A d \in Conns \ {c} : up'[d] = up[d]
    <3>1. PICK u \in Seq(Char) : u = up[c]
      BY <1>0 DEF Types
    <3>2. u \o t \in Seq(Char) /\ u \o t # << >>
      <4>1. Len(t) > 0 /\ Len(u \o t) = Len(u) + Len(t) /\ Len(u) >= 0
        BY <2>1
      <4> QED
        BY <4>1
    <3> QED
      BY <1>0, <2>2, <3>1, <3>2 DEF Types
  <2>4. others' \in [Conns -> Nat] /\ others'[c] # 0
        /\ \A d \in Conns \ {c} : others'[d] = others[d] /\ user'[d] = user[d]
    BY <1>0, <2>2 DEF Types
  <2>5. Types'
    BY <1>0, <2>2, <2>3, <2>4 DEF Types
  <2>6. LinesInv'
    <3> SUFFICES ASSUME NEW d \in Conns, others'[d] = 0, NEW k \in DOMAIN up'[d]
                 PROVE  /\ up'[d][k] # NUL
                        /\ up'[d][k] # NL => k < Len(up'[d]) /\ up'[d][k + 1] = NL
      BY Zenon DEF LinesInv, NUL, NL
    <3>1. others[d] = 0 /\ up'[d] = up[d] /\ k \in DOMAIN up[d]
      BY <2>3, <2>4
    <3> QED
      BY <1>0, <3>1 DEF LinesInv
  <2>7. NobodyWaitsInVain'
    BY <1>0, <2>2, <2>3, <2>4 DEF NobodyWaitsInVain, Running
  <2>8. /\ \A d \in Conns : user[d] # "off" => user'[d] # "off"
        /\ \A d \in Conns : Readable(d) => Readable(d)'
    BY <1>0, <2>2, <2>3 DEF Types, Readable
  <2> QED
    BY <1>2, <2>2, <2>5, <2>6, <2>7, <2>8
<1> QED
  BY <1>3, <1>4, <1>5, <1>6, <1>7

\* SIGINT closes everything, and the server is gone (tcp_server_new.c:14-34).
LEMMA InterruptIInv ==
  ASSUME IInv, Interrupt
  PROVE  IInv'
<1>0. /\ Types /\ TableIsSound /\ PlacesInv
      /\ spc' = "stopped" /\ ~Running' /\ fds' = [f \in Fds |-> NoConn] /\ backlog' = << >>
      /\ up' = [c \in Conns |-> << >>]
      /\ UNCHANGED <<ready, from, slots, nclients, shut, peer, replies, user, typed, others, unwelcome>>
  BY DEF IInv, Interrupt, clientVars, history, Running
<1>1. Types'
  <2>1. << >> \in Seq(Conns) /\ << >> \in Seq(Char)
    OBVIOUS
  <2> QED
    BY <1>0, <2>1 DEF Types
<1>2. TableIsSound' /\ NobodyWaitsInVain'
  BY <1>0 DEF TableIsSound, SlotsOwnDescriptors, OnlineCount, Terminated, NobodyWaitsInVain
<1>3. PlacesInv' /\ LinesInv' /\ ReadyInv'
  BY <1>0 DEF PlacesInv, LinesInv, ReadyInv, ReadNeverBlocks
<1> QED
  BY <1>1, <1>2, <1>3 DEF IInv

-----------------------------------------------------------------------------
\* Every step keeps the invariant: one case for each action.
LEMMA NextIInv ==
  ASSUME IInv, [Next]_vars
  PROVE  IInv'
<1>1. CASE UNCHANGED vars
  <2>1. UNCHANGED Used
    BY <1>1 DEF vars, Used
  <2>2. \A i \in Slots : UNCHANGED ConnOf(i)
    BY <1>1 DEF vars, ConnOf
  <2>3. Types' /\ PlacesInv'
    BY <1>1 DEF vars, clientVars, history, IInv, Types, PlacesInv
  <2>4. TableIsSound'
    BY <1>1, <2>1 DEF vars, history, IInv, TableIsSound, SlotsOwnDescriptors, OnlineCount,
       Terminated, Running
  <2>5. ReadyInv' /\ ReadNeverBlocks'
    BY <1>1, <2>1, <2>2 DEF vars, IInv, ReadyInv, ReadNeverBlocks, Due, Readable
  <2>6. LinesInv' /\ NobodyWaitsInVain'
    BY <1>1 DEF vars, clientVars, IInv, LinesInv, NobodyWaitsInVain, Running
  <2> QED
    BY <2>3, <2>4, <2>5, <2>6 DEF IInv
<1>2. CASE Next
  BY <1>2, SelectIInv, AcceptIInv, ServeIInv, InterruptIInv, ClientIInv DEF Next, ServerStep
<1> QED
  BY <1>1, <1>2

\* The invariant holds of every state.
LEMMA Invariant == Spec => []IInv
  BY InitIInv, NextIInv, PTL DEF Spec

\* Slots in use and open descriptors correspond one to one, the count is of the
\* slots in use and the connections reset before their prompt, and every buffer
\* ends in a NUL (TableIsSound; tcp_server_new.c:36-62, 128-175).
THEOREM SoundTable == Spec => []TableIsSound
<1>1. IInv => TableIsSound
  BY DEF IInv
<1> QED
  BY Invariant, <1>1, PTL

\* The server reads only where there is something to read, although the table and
\* the descriptors change between select() and the read (ReadNeverBlocks;
\* tcp_server_new.c:151-241).
THEOREM NeverBlocks == Spec => []ReadNeverBlocks
<1>1. IInv => ReadNeverBlocks
  BY DEF IInv, ReadyInv
<1> QED
  BY Invariant, <1>1, PTL

\* A client that waits has a place in the backlog or a whole line on its way, has
\* been closed, or the server is gone, however reads cut its lines
\* (NobodyWaitsInVain; tcp_server_new.c:177-241).
THEOREM NobodyWaits == Spec => []NobodyWaitsInVain
<1>1. IInv => NobodyWaitsInVain
  BY DEF IInv
<1> QED
  BY Invariant, <1>1, PTL

-----------------------------------------------------------------------------
(* Results in step.                                                        *)

\* The lines of a connection that the server has taken.
Taken(c) == IF up[c] = << >> THEN typed[c] ELSE typed[c] - 1

\* Nothing is on its way for a connection that is not accepted yet.
NewInv ==
  /\ \A c \in Conns : user[c] = "off" => up[c] = << >> /\ replies[c] = 0
  /\ \A k \in DOMAIN backlog : LET c == backlog[k] IN
       up[c] = << >> /\ replies[c] = 0 /\ user[c] # "type"

\* A calm connection has one thing under way at a time: the last line typed, or
\* replies, and nothing when its user may type.
CalmInv == \A c \in calm :
  /\ up[c] = << >> \/ (typed[c] > 0 /\ Sent(c, typed[c]))
  /\ user[c] = "type" => up[c] = << >> /\ replies[c] = 0
  /\ user[c] = "recv" /\ replies[c] > 0 => up[c] = << >>

\* What the slot of a calm connection holds are the last lines taken from it.
Holds(i, n) ==
  /\ slots[i].state = "FIRST" => n >= 1 /\ slots[i].op = <<<<"op", n>>>>
  /\ slots[i].state = "SECOND" =>
       n >= 2 /\ slots[i].op = <<<<"op", n - 1>>>>
       /\ \E kind \in Kinds : slots[i].first_num = <<<<kind, n>>>>
SlotsInv == \A i \in Used : ConnOf(i) \in calm => Holds(i, Taken(ConnOf(i)))

StepsInv == calm \subseteq Conns /\ (Running => NewInv /\ CalmInv /\ SlotsInv)

\* What the result of a slot is made from when the third line of a calculation is taken.
InStep(i, c) ==
  c \in calm' /\ replies'[c] = replies[c] + 2 =>
    \E n \in 1..typed[c] : \E kind \in Kinds :
      /\ slots[i].op = <<<<"op", n>>>>
      /\ slots[i].first_num = <<<<kind, n + 1>>>>
      /\ Sent(c, n + 2)

\* Serving slot i concerns its connection only.
Changes(i) ==
  /\ \A d \in Conns \ {ConnOf(i)} : replies'[d] = replies[d]
  /\ \A j \in Slots \ {i} : slots'[j] = slots[j]
  /\ spc' = "killed" \/ CloseClient(i) \/ UNCHANGED fds

\* Closing the connection is such a change.
LEMMA CloseChanges ==
  ASSUME Types, NEW i \in Used, CloseClient(i), UNCHANGED replies
  PROVE  Changes(i)
  BY DEF Changes, CloseClient, Types, Used

\* And answering is: the slot becomes s, or is closed, or the server dies.
LEMMA AnswerChanges ==
  ASSUME Types, NEW i \in Used, ConnOf(i) \in Conns, NEW n \in {1, 2}, NEW s, Answer(i, n, s)
  PROVE  /\ Changes(i)
         /\ replies'[ConnOf(i)] \in {replies[ConnOf(i)], replies[ConnOf(i)] + n}
         /\ slots'[i] = s \/ CloseClient(i) \/ spc' = "killed"
<1> DEFINE c == ConnOf(i)
<1>1. i \in Slots /\ slots \in [Slots -> Client] /\ replies \in [Conns -> Nat] /\ c \in Conns
  BY DEF Used, Types
<1> HIDE DEF c
<1>2. CASE /\ replies' = [replies EXCEPT ![c] = @ + n] /\ slots' = [slots EXCEPT ![i] = s]
           /\ UNCHANGED fds
  BY <1>1, <1>2 DEF Changes, c
<1>3. CASE CloseClient(i) /\ UNCHANGED replies
  BY <1>3, CloseChanges
<1>4. CASE spc' = "killed" /\ UNCHANGED <<slots, replies>>
  BY <1>4 DEF Changes
<1> QED
  BY <1>2, <1>3, <1>4 DEF Answer, c

\* And handling what is in the buffer.
LEMMA HandleChanges ==
  ASSUME Types, NEW i \in Used, ConnOf(i) \in Conns, NEW s, HandleBuffer(i, s)
  PROVE  Changes(i)
<1>1. CASE slots' = [slots EXCEPT ![i] = s] /\ UNCHANGED <<spc, fds, replies>>
  BY <1>1 DEF Changes, Types
<1>2. ASSUME NEW t, NEW text, HandleOp(i, text, t) \/ HandleFirst(i, text, t) \/ HandleSecond(i, t)
      PROVE  Changes(i)
  BY <1>2, AnswerChanges, CloseChanges DEF HandleOp, HandleFirst, HandleSecond
<1> QED
  BY <1>1, <1>2 DEF HandleBuffer

\* A line that comes alone ends at the second character of the buffer.
LEMMA LineTaken ==
  ASSUME NEW i \in Used, slots[i] \in Client, NEW kind \in Kinds, NEW n \in Nat
  PROVE  LET s == Filled(i, <<<<kind, n>>, NL>>) IN
         /\ LineEnds(s.buffer) = {2}
         /\ SubSeq(s.buffer, 1, 2 - 1) = <<<<kind, n>>>>
         /\ s.state = slots[i].state /\ s.op = slots[i].op /\ s.first_num = slots[i].first_num
<1> DEFINE x == <<kind, n>>
           read == <<x, NL>>
           b == Overlay(slots[i].buffer, read)
<1>1. x \in Char /\ x # NL /\ x # NUL /\ NL # NUL /\ NL \in Char
  BY Numbers
<1> HIDE DEF x
<1>2. slots[i].buffer \in [1..BUFFER_SIZE -> Char] /\ BUFFER_SIZE \in Nat /\ BUFFER_SIZE >= 4
  BY SizeAssumption DEF Client
<1>3. Len(read) = 2 /\ read[1] = x /\ read[2] = NL
  OBVIOUS
<1> HIDE DEF read
<1>4. b \in [1..BUFFER_SIZE -> Char] /\ b[1] = x /\ b[2] = NL
  <2>1. 1 \in 1..BUFFER_SIZE /\ 2 \in 1..BUFFER_SIZE
    BY <1>2
  <2>2. \A k \in 1..BUFFER_SIZE : k <= 2 => k = 1 \/ k = 2
    BY <1>2
  <2> QED
    BY <1>1, <1>2, <1>3, <2>1, <2>2 DEF Overlay
<1> HIDE DEF b
<1>5. Filled(i, read) = [slots[i] EXCEPT !.buffer = b]
  BY DEF Filled, b
<1>6. LineEnds(b) = {2}
  <2>1. 2 \in LineEnds(b)
    <3>1. 2 \in 1..BUFFER_SIZE /\ \A j \in 1..(2 - 1) : j = 1
      BY <1>2
    <3> QED
      BY <1>1, <1>4, <3>1 DEF LineEnds
  <2>2. ASSUME NEW k \in LineEnds(b) PROVE k = 2
    <3>1. k \in 1..BUFFER_SIZE /\ b[k] = NL /\ \A j \in 1..(k - 1) : b[j] \notin {NL, NUL}
      BY DEF LineEnds
    <3>2. k # 1
      BY <1>1, <1>4, <3>1
    <3>3. k > 2 => 2 \in 1..(k - 1)
      BY <1>2, <3>1
    <3> QED
      BY <1>2, <1>4, <3>1, <3>2, <3>3
  <2> QED
    BY <2>1, <2>2
<1>7. SubSeq(b, 1, 1) = <<x>>
  <2>1. b \in Seq(Char) /\ Len(b) = BUFFER_SIZE
    BY <1>2, <1>4
  <2>2. /\ Len(SubSeq(b, 1, 1)) = 1 /\ SubSeq(b, 1, 1) \in Seq(Char)
        /\ SubSeq(b, 1, 1)[1] = b[1]
    BY <1>2, <2>1
  <2>3. ASSUME NEW q \in Seq(Char), Len(q) = 1 PROVE q = <<q[1]>>
    <3>1. DOMAIN q = DOMAIN <<q[1]>> /\ \A j \in 1..1 : q[j] = <<q[1]>>[j]
      BY <2>3
    <3> QED
      BY <2>3, <3>1
  <2>4. SubSeq(b, 1, 1) = <<b[1]>>
    BY <2>2, <2>3
  <2> QED
    BY <1>4, <2>4
<1>8. LET s == Filled(i, read) IN
      /\ s.buffer = b /\ s.state = slots[i].state /\ s.op = slots[i].op
      /\ s.first_num = slots[i].first_num
  BY <1>5 DEF Client
<1> QED
  BY <1>6, <1>7, <1>8 DEF read, x

\* Line n of a calm connection is handled: the slot holds the lines up to n then, and
\* two replies are sent for the last of three only.
LEMMA LineHandled ==
  ASSUME Types, NEW i \in Used, ConnOf(i) \in Conns, NEW s \in Client,
         NEW kind \in Kinds, NEW n \in Nat \ {0}, Holds(i, n - 1),
         LineEnds(s.buffer) = {2}, SubSeq(s.buffer, 1, 2 - 1) = <<<<kind, n>>>>,
         s.state = slots[i].state, s.op = slots[i].op, s.first_num = slots[i].first_num,
         HandleBuffer(i, s)
  PROVE  /\ CloseClient(i) \/ spc' = "killed" \/ Holds(i, n)'
         /\ replies'[ConnOf(i)] = replies[ConnOf(i)] + 2 => slots[i].state = "SECOND"
<1> DEFINE text == <<<<kind, n>>>>
           cut == [s EXCEPT !.buffer[2] = NUL]
<1>1. \/ cut.state = "OP" /\ HandleOp(i, text, cut)
      \/ cut.state = "FIRST" /\ HandleFirst(i, text, cut)
      \/ cut.state = "SECOND" /\ HandleSecond(i, cut)
  <2>1. LineEnds(s.buffer) # {} /\ \A k \in LineEnds(s.buffer) : k = 2
    OBVIOUS
  <2>2. cut.state = s.state
    BY DEF Client
  <2> QED
    BY <2>1, <2>2, Zenon DEF HandleBuffer
<1>2. /\ cut.state = slots[i].state /\ cut.op = slots[i].op /\ cut.first_num = slots[i].first_num
      /\ cut \in Client
  <2>1. [s.buffer EXCEPT ![2] = NUL] \in [1..BUFFER_SIZE -> Char]
    BY Numbers, SizeAssumption DEF Client
  <2> QED
    BY <2>1 DEF Client
<1>3. Len(text) = 1 /\ text[1][1] = kind
  OBVIOUS
<1>4. replies[ConnOf(i)] \in Nat
  BY DEF Types
<1> HIDE DEF cut
<1>5. CASE cut.state = "OP" /\ HandleOp(i, text, cut)
  <2>1. CASE IsWord(text, "exit") /\ CloseClient(i) /\ UNCHANGED replies
    BY <1>4, <2>1
  <2>2. CASE IsWord(text, "op") /\ Answer(i, 1, [cut EXCEPT !.op = text, !.state = "FIRST"])
    <3>1. kind = "op"
      BY <1>3, <2>2 DEF IsWord
    <3> DEFINE t == [cut EXCEPT !.op = text, !.state = "FIRST"]
    <3>2. t.state = "FIRST" /\ t.op = text
      BY <1>2 DEF Client
    <3> HIDE DEF t
    <3>3. /\ replies'[ConnOf(i)] \in {replies[ConnOf(i)], replies[ConnOf(i)] + 1}
          /\ slots'[i] = t \/ CloseClient(i) \/ spc' = "killed"
      BY <2>2, AnswerChanges DEF t
    <3>4. slots'[i] = t => Holds(i, n)'
      BY <3>1, <3>2 DEF Holds
    <3> QED
      BY <1>4, <3>3, <3>4
  <2>3. CASE Answer(i, 1, cut)
    <3>1. /\ replies'[ConnOf(i)] \in {replies[ConnOf(i)], replies[ConnOf(i)] + 1}
          /\ slots'[i] = cut \/ CloseClient(i) \/ spc' = "killed"
      BY <2>3, AnswerChanges
    <3>2. slots'[i] = cut => Holds(i, n)'
      BY <1>5 DEF Holds
    <3> QED
      BY <1>4, <3>1, <3>2
  <2> QED
    BY <1>5, <2>1, <2>2, <2>3 DEF HandleOp
<1>6. CASE cut.state = "FIRST" /\ HandleFirst(i, text, cut)
  <2> DEFINE t == [cut EXCEPT !.first_num = text, !.state = "SECOND"]
  <2>1. t.state = "SECOND" /\ t.first_num = text /\ t.op = slots[i].op
    BY <1>2 DEF Client
  <2> HIDE DEF t
  <2>2. /\ replies'[ConnOf(i)] \in {replies[ConnOf(i)], replies[ConnOf(i)] + 1}
        /\ slots'[i] = t \/ CloseClient(i) \/ spc' = "killed"
    BY <1>6, AnswerChanges DEF t, HandleFirst
  <2>3. n - 1 >= 1 /\ slots[i].op = <<<<"op", n - 1>>>>
    BY <1>2, <1>6 DEF Holds
  <2>4. slots'[i] = t => Holds(i, n)'
    BY <2>1, <2>3 DEF Holds
  <2> QED
    BY <1>4, <2>2, <2>4
<1>7. CASE cut.state = "SECOND" /\ HandleSecond(i, cut)
  <2> DEFINE b == Overlay(cut.buffer, Result)
             t == [cut EXCEPT !.buffer = b, !.state = "OP", !.op = << >>, !.first_num = << >>]
  <2>1. t.state = "OP"
    BY <1>2 DEF Client
  <2>2. Answer(i, 2, t)
    BY <1>7 DEF HandleSecond
  <2> HIDE DEF t
  <2>3. slots'[i] = t \/ CloseClient(i) \/ spc' = "killed"
    BY <2>2, AnswerChanges
  <2>4. slots'[i] = t => Holds(i, n)'
    BY <2>1 DEF Holds
  <2> QED
    BY <1>2, <1>7, <2>3, <2>4
<1> QED
  BY <1>1, <1>5, <1>6, <1>7

\* The steps are kept at first.
LEMMA InitSteps == Init => StepsInv
<1> SUFFICES ASSUME Init PROVE StepsInv
  OBVIOUS
<1>1. Used = {}
  BY FreeSlots DEF Init, Used
<1> QED
  BY <1>1 DEF Init, StepsInv, NewInv, CalmInv, SlotsInv

\* Serving a slot takes one line of a calm connection, and sends its result when it
\* is the third of a calculation.
LEMMA ServeSteps ==
  ASSUME IInv, StepsInv, Serve
  PROVE  StepsInv' /\ \A i \in Used : InStep(i, ConnOf(i))
<1>1. PICK i \in Slots : /\ Due(i) /\ ProcessClientData(i)
                         /\ UNCHANGED <<backlog, user, typed, others>>
  BY DEF Serve, clientVars
<1>2. /\ spc = "scan" /\ Running /\ i \in Used /\ slots[i] \in Client
      /\ Types /\ Terminated /\ LinesInv /\ PlacesInv /\ SlotsOwnDescriptors
      /\ calm \subseteq Conns /\ NewInv /\ CalmInv /\ SlotsInv
  BY <1>1 DEF Serve, Due, IInv, TableIsSound, Types, Running, StepsInv
<1>3. PICK c \in Conns : c = ConnOf(i)
  BY <1>2, OwnConnections
<1>4. /\ slots[i].sockfd \in Fds /\ c = fds[slots[i].sockfd]
      /\ \A j \in Used \ {i} : /\ slots[j].sockfd # slots[i].sockfd /\ slots[j].sockfd \in Fds
                               /\ ConnOf(j) # c /\ ConnOf(j) \in Conns
  BY <1>2, <1>3, OwnConnections DEF ConnOf
\* The slot and its connection.
<1>5. /\ calm' \subseteq calm /\ \A d \in calm \ {c} : d \in calm'
      /\ \A d \in Conns \ {c} : up'[d] = up[d]
      /\ Changes(i)
  <2>1. ASSUME NEW read \in Reads(c), up' = [up EXCEPT ![c] = SubSeq(@, Len(read) + 1, Len(@))],
               calm' = IF Len(read) = 2 /\ read = up[c] THEN calm ELSE calm \ {c},
               HandleBuffer(i, Filled(i, read))
        PROVE  /\ calm' \subseteq calm /\ \A d \in calm \ {c} : d \in calm'
               /\ \A d \in Conns \ {c} : up'[d] = up[d]
               /\ Changes(i)
    BY <1>2, <1>3, <2>1, HandleChanges DEF Types
  <2>2. CASE CloseClient(i) /\ UNCHANGED <<up, replies, calm>>
    BY <1>2, <2>2, CloseChanges
  <2> QED
    BY <1>1, <1>3, <2>1, <2>2 DEF ProcessClientData, Filled
<1>6. ASSUME c \in calm'
      PROVE  /\ user[c] # "type" \/ (up'[c] = up[c] /\ replies'[c] = replies[c])
             /\ up'[c] = << >> \/ (up'[c] = up[c] /\ replies'[c] = replies[c])
             /\ CloseClient(i) \/ spc' = "killed" \/ Holds(i, Taken(c))'
             /\ InStep(i, c)
  <2>1. CASE CloseClient(i) /\ UNCHANGED <<up, replies>>
    <3>1. replies[c] # replies[c] + 2
      BY <1>2 DEF Types
    <3> QED
      BY <2>1, <3>1 DEF InStep
  <2>2. ASSUME NEW read \in Reads(c), up' = [up EXCEPT ![c] = SubSeq(@, Len(read) + 1, Len(@))],
               Len(read) = 2, read = up[c], HandleBuffer(i, Filled(i, read))
        PROVE  /\ user[c] # "type" /\ up'[c] = << >>
               /\ CloseClient(i) \/ spc' = "killed" \/ Holds(i, Taken(c))'
               /\ InStep(i, c)
    <3>1. c \in calm /\ up[c] \in Seq(Char) /\ typed[c] \in Nat
      BY <1>2, <1>5, <1>6 DEF Types
    <3>2. up[c] # << >>
      BY <2>2
    <3>3. PICK n \in Nat : n = typed[c]
      BY <3>1
    <3>4. n > 0 /\ Sent(c, n) /\ user[c] # "type"
      BY <1>2, <3>1, <3>2, <3>3 DEF CalmInv
    <3>5. PICK kind \in Kinds : up[c] = <<<<kind, n>>, NL>>
      BY <3>4 DEF Sent, Line
    <3>6. up'[c] = << >>
      <4>1. up'[c] = SubSeq(up[c], Len(read) + 1, Len(up[c]))
        BY <1>2, <2>2 DEF Types
      <4>2. Len(up[c]) = 2 /\ Len(read) + 1 = 3
        BY <2>2
      <4> QED
        BY <3>1, <4>1, <4>2
    <3>7. Holds(i, n - 1)
      <4>1. Holds(i, Taken(c))
        BY <1>2, <1>3, <3>1 DEF SlotsInv
      <4>2. Taken(c) = n - 1
        BY <3>2, <3>3 DEF Taken
      <4> QED
        BY <4>1, <4>2
    <3> DEFINE s == Filled(i, read)
    <3>8. /\ LineEnds(s.buffer) = {2}
          /\ SubSeq(s.buffer, 1, 2 - 1) = <<<<kind, n>>>>
          /\ s.state = slots[i].state /\ s.op = slots[i].op /\ s.first_num = slots[i].first_num
      BY <1>2, <2>2, <3>5, LineTaken
    <3>9. s \in Client
      BY <1>1, <1>2, <2>2, ReadKeepsLines
    <3>10. HandleBuffer(i, s)
      BY <2>2
    <3> HIDE DEF s
    <3>11. n \in Nat \ {0} /\ ConnOf(i) \in Conns
      BY <1>3, <3>4
    <3>12. /\ CloseClient(i) \/ spc' = "killed" \/ Holds(i, n)'
           /\ replies'[c] = replies[c] + 2 => slots[i].state = "SECOND"
      BY <1>2, <1>3, <3>7, <3>8, <3>9, <3>10, <3>11, LineHandled
    <3>13. InStep(i, c)
      <4> SUFFICES ASSUME slots[i].state = "SECOND"
                   PROVE  \E m \in 1..typed[c] : \E k \in Kinds :
                            /\ slots[i].op = <<<<"op", m>>>>
                            /\ slots[i].first_num = <<<<k, m + 1>>>>
                            /\ Sent(c, m + 2)
        BY <3>12 DEF InStep
      <4>1. /\ n - 1 >= 2 /\ slots[i].op = <<<<"op", (n - 1) - 1>>>>
            /\ \E k \in Kinds : slots[i].first_num = <<<<k, n - 1>>>>
        BY <3>7 DEF Holds
      <4>2. PICK m \in 1..typed[c] : m = n - 2
        BY <3>3, <4>1
      <4>3. (n - 1) - 1 = m /\ n - 1 = m + 1 /\ n = m + 2
        BY <4>2
      <4> QED
        BY <3>4, <4>1, <4>3
    <3>14. Holds(i, n)' => Holds(i, Taken(c))'
      <4>1. Taken(c)' = n
        BY <1>1, <3>3, <3>6 DEF Taken
      <4> QED
        BY <4>1 DEF Holds
    <3> QED
      BY <3>4, <3>6, <3>12, <3>13, <3>14
  <2>3. CASE CloseClient(i) /\ UNCHANGED <<spc, peer, up, replies, calm>>
    BY <2>1, <2>3
  <2>4. ASSUME NEW read \in Reads(c), up' = [up EXCEPT ![c] = SubSeq(@, Len(read) + 1, Len(@))],
               calm' = IF Len(read) = 2 /\ read = up[c] THEN calm ELSE calm \ {c},
               HandleBuffer(i, Filled(i, read))
        PROVE  /\ user[c] # "type" /\ up'[c] = << >>
               /\ CloseClient(i) \/ spc' = "killed" \/ Holds(i, Taken(c))'
               /\ InStep(i, c)
    BY <1>6, <2>2, <2>4
  <2> QED
    BY <1>1, <1>3, <2>1, <2>3, <2>4 DEF ProcessClientData, Filled
<1>7. \A j \in Used : InStep(j, ConnOf(j))
  <2>1. ASSUME NEW j \in Used \ {i} PROVE InStep(j, ConnOf(j))
    <3>1. replies'[ConnOf(j)] = replies[ConnOf(j)] /\ replies[ConnOf(j)] \in Nat
      BY <1>2, <1>3, <1>4, <1>5, <2>1 DEF Changes, Types
    <3>2. replies[ConnOf(j)] # replies[ConnOf(j)] + 2
      BY <3>1
    <3> QED
      BY <3>1, <3>2 DEF InStep
  <2>2. InStep(i, ConnOf(i))
    BY <1>3, <1>6 DEF InStep
  <2> QED
    BY <2>1, <2>2
<1>8. calm' \subseteq Conns
  BY <1>2, <1>5
<1>9. NewInv'
  <2>1. user[c] # "off"
    <3>1. fds[slots[i].sockfd] # NoConn
      BY <1>2 DEF SlotsOwnDescriptors
    <3> QED
      BY <1>2, <1>4, <3>1 DEF PlacesInv
  <2>2. \A k \in DOMAIN backlog : backlog[k] \in Conns \ {c}
    BY <1>2, <1>4 DEF Types, PlacesInv
  <2>3. \A d \in Conns \ {c} : up'[d] = up[d] /\ replies'[d] = replies[d]
    BY <1>3, <1>5 DEF Changes
  <2> QED
    BY <1>1, <1>2, <2>1, <2>2, <2>3 DEF NewInv
<1>10. CalmInv'
  <2> SUFFICES ASSUME NEW d \in calm'
               PROVE  /\ up'[d] = << >> \/ (typed[d] > 0 /\ Sent(d, typed[d])')
                      /\ user[d] = "type" => up'[d] = << >> /\ replies'[d] = 0
                      /\ user[d] = "recv" /\ replies'[d] > 0 => up'[d] = << >>
    BY <1>1 DEF CalmInv
  <2>1. /\ up[d] = << >> \/ (typed[d] > 0 /\ Sent(d, typed[d]))
        /\ user[d] = "type" => up[d] = << >> /\ replies[d] = 0
        /\ user[d] = "recv" /\ replies[d] > 0 => up[d] = << >>
        /\ d \in Conns
    BY <1>2, <1>5 DEF CalmInv
  <2>2. CASE up'[d] = up[d] /\ replies'[d] = replies[d]
    BY <1>1, <2>1, <2>2 DEF Sent
  <2>3. CASE up'[d] = << >> /\ user[d] # "type"
    BY <2>3
  <2>4. d # c => up'[d] = up[d] /\ replies'[d] = replies[d]
    BY <1>3, <1>5, <2>1 DEF Changes
  <2> QED
    BY <1>6, <2>2, <2>3, <2>4
<1>11. ASSUME Running' PROVE SlotsInv'
  <2> SUFFICES ASSUME NEW j \in Used', ConnOf(j)' \in calm'
               PROVE  Holds(j, Taken(ConnOf(j)))'
    BY DEF SlotsInv
  <2>1. spc' # "killed" /\ j \in Slots
    BY <1>11 DEF Running, Used
  <2>2. CASE j # i
    <3>1. slots'[j] = slots[j] /\ j \in Used
      BY <1>5, <2>1, <2>2 DEF Changes, Used
    <3>2. fds'[slots[j].sockfd] = fds[slots[j].sockfd]
      BY <1>2, <1>4, <1>5, <2>1, <2>2, <3>1 DEF Changes, CloseClient, Types
    <3>3. PICK d \in Conns : d = ConnOf(j)
      BY <1>4, <2>2, <3>1
    <3>4. ConnOf(j)' = d
      BY <3>1, <3>2, <3>3 DEF ConnOf
    <3>5. d # c /\ d \in calm /\ up'[d] = up[d] /\ typed'[d] = typed[d]
      BY <1>1, <1>4, <1>5, <2>2, <3>1, <3>3, <3>4
    <3>6. Holds(j, Taken(d))
      BY <1>2, <3>1, <3>3, <3>5 DEF SlotsInv
    <3>7. Taken(d)' = Taken(d)
      BY <3>5 DEF Taken
    <3>8. Holds(j, Taken(d))'
      BY <3>1, <3>6, <3>7 DEF Holds
    <3> QED
      BY <3>4, <3>8
  <2>3. CASE j = i
    <3>1. ~CloseClient(i)
      BY <1>2, <2>3, FreeSlots DEF CloseClient, Used, Types
    <3>2. ConnOf(i)' = c
      <4>1. slots'[i].sockfd = slots[i].sockfd /\ fds' = fds
        BY <1>1, <1>2, <1>3, <2>1, <3>1, ProcessServes DEF Served
      <4> QED
        BY <1>3, <4>1 DEF ConnOf
    <3>3. Holds(i, Taken(c))'
      BY <1>6, <2>1, <2>3, <3>1, <3>2
    <3> QED
      BY <2>3, <3>2, <3>3 DEF Holds
  <2> QED
    BY <2>2, <2>3
<1> QED
  BY <1>7, <1>8, <1>9, <1>10, <1>11 DEF StepsInv

\* A connection is accepted before anything is typed on it.
LEMMA AcceptSteps ==
  ASSUME IInv, StepsInv, Accept
  PROVE  StepsInv' /\ \A d \in Conns : replies'[d] # replies[d] + 2
<1>1. PICK f \in Fds : /\ FreeFd(f)
                       /\ \/ \E i \in Slots : FreeAt(i) /\ InitClient(Head(backlog), f, i)
                          \/ Used = Slots /\ Refuse(Head(backlog), f)
  BY DEF Accept
<1>2. /\ Running /\ Types /\ PlacesInv /\ SlotsOwnDescriptors /\ backlog # << >>
      /\ calm \subseteq Conns /\ NewInv /\ CalmInv /\ SlotsInv
      /\ spc' = "scan" /\ backlog' = Tail(backlog) /\ UNCHANGED <<up, user, typed, calm>>
  BY DEF Accept, IInv, TableIsSound, ReadyInv, Running, StepsInv, clientVars
<1>3. PICK c \in Conns : c = Head(backlog)
  BY <1>2 DEF Types
<1>4. /\ 1 \in DOMAIN backlog /\ backlog[1] = c
      /\ \A k \in DOMAIN backlog' : /\ k + 1 \in DOMAIN backlog /\ backlog'[k] = backlog[k + 1]
                                    /\ backlog'[k] \in Conns \ {c}
  <2>1. /\ backlog \in Seq(Conns) /\ 1 \in DOMAIN backlog /\ backlog[1] = c
        /\ \A k \in DOMAIN backlog' : /\ k + 1 \in DOMAIN backlog /\ backlog'[k] = backlog[k + 1]
                                      /\ k + 1 # 1
    <3>1. backlog \in Seq(Conns) /\ backlog # << >> /\ backlog' = Tail(backlog)
      BY <1>2 DEF Types
    <3>2. 1 \in DOMAIN backlog /\ backlog[1] = c
      BY <1>3, <3>1
    <3>3. /\ DOMAIN backlog' = 1..(Len(backlog) - 1)
          /\ \A k \in 1..(Len(backlog) - 1) : backlog'[k] = backlog[k + 1]
      BY <3>1
    <3>4. \A k \in 1..(Len(backlog) - 1) : k + 1 \in DOMAIN backlog /\ k + 1 # 1
      BY <3>1
    <3> QED
      BY <3>1, <3>2, <3>3, <3>4
  <2>2. \A k \in DOMAIN backlog' : backlog[k + 1] \in Conns /\ backlog[k + 1] # c
    BY <1>2, <2>1 DEF PlacesInv
  <2> QED
    BY <2>1, <2>2
<1>5. up[c] = << >> /\ replies[c] = 0 /\ user[c] # "type" /\ user[c] # "off"
  BY <1>2, <1>4 DEF NewInv, PlacesInv
\* The replies, the slots and the descriptors after the step.
<1>6. /\ replies' \in [Conns -> Nat] /\ replies'[c] \in {0, 1}
      /\ \A d \in Conns \ {c} : replies'[d] = replies[d]
      /\ \A j \in Used' : \/ slots'[j].state = "OP"
                          \/ j \in Used /\ slots'[j] = slots[j] /\ ConnOf(j)' = ConnOf(j)
  <2>1. ASSUME NEW i \in Slots, FreeAt(i), replies' = [replies EXCEPT ![c] = @ + 1],
               slots' = [slots EXCEPT ![i] = [FreeSlot EXCEPT !.sockfd = f]],
               fds' = [fds EXCEPT ![f] = c]
        PROVE  /\ replies' \in [Conns -> Nat] /\ replies'[c] \in {0, 1}
               /\ \A d \in Conns \ {c} : replies'[d] = replies[d]
               /\ \A j \in Used' : \/ slots'[j].state = "OP"
                                   \/ j \in Used /\ slots'[j] = slots[j] /\ ConnOf(j)' = ConnOf(j)
    <3>1. [FreeSlot EXCEPT !.sockfd = f].state = "OP"
      BY DEF FreeSlot
    <3>2. ASSUME NEW j \in Used', j # i
          PROVE  j \in Used /\ slots'[j] = slots[j] /\ ConnOf(j)' = ConnOf(j)
      <4>1. slots'[j] = slots[j] /\ j \in Used
        BY <1>2, <2>1, <3>2 DEF Types, Used
      <4>2. slots[j].sockfd \in Fds /\ slots[j].sockfd # f
        BY <1>1, <1>2, <4>1, OwnConnections DEF FreeFd, SlotsOwnDescriptors
      <4>3. fds'[slots[j].sockfd] = fds[slots[j].sockfd]
        BY <1>2, <2>1, <4>2 DEF Types
      <4> QED
        BY <4>1, <4>3 DEF ConnOf
    <3>3. slots'[i].state = "OP"
      BY <1>2, <2>1, <3>1 DEF Types
    <3>4. /\ replies' \in [Conns -> Nat] /\ replies'[c] \in {0, 1}
          /\ \A d \in Conns \ {c} : replies'[d] = replies[d]
      BY <1>2, <1>5, <2>1 DEF Types
    <3> QED
      BY <3>2, <3>3, <3>4
  <2>2. CASE UNCHANGED <<slots, fds, replies>>
    BY <1>2, <1>5, <2>2 DEF Types, Used, ConnOf
  <2> QED
    BY <1>1, <1>3, <2>1, <2>2 DEF InitClient, Refuse
<1>7. NewInv'
  <2>1. \A k \in DOMAIN backlog' : up[backlog'[k]] = << >> /\ replies'[backlog'[k]] = 0
                                   /\ user[backlog'[k]] # "type"
    BY <1>2, <1>4, <1>6 DEF NewInv
  <2>2. \A d \in Conns : user[d] = "off" => up[d] = << >> /\ replies'[d] = 0
    BY <1>2, <1>5, <1>6 DEF NewInv
  <2> QED
    BY <1>2, <2>1, <2>2 DEF NewInv
<1>8. CalmInv'
  <2> SUFFICES ASSUME NEW d \in calm
               PROVE  /\ up[d] = << >> \/ (typed[d] > 0 /\ Sent(d, typed[d])')
                      /\ user[d] = "type" => up[d] = << >> /\ replies'[d] = 0
                      /\ user[d] = "recv" /\ replies'[d] > 0 => up[d] = << >>
    BY <1>2 DEF CalmInv
  <2>1. CASE d = c
    BY <1>5, <2>1
  <2>2. CASE d # c
    BY <1>2, <1>6, <2>2 DEF CalmInv, Sent
  <2> QED
    BY <2>1, <2>2
<1>9. SlotsInv'
  <2> SUFFICES ASSUME NEW j \in Used', ConnOf(j)' \in calm'
               PROVE  Holds(j, Taken(ConnOf(j)))'
    BY DEF SlotsInv
  <2>1. CASE slots'[j].state = "OP"
    BY <2>1 DEF Holds
  <2>2. CASE j \in Used /\ slots'[j] = slots[j] /\ ConnOf(j)' = ConnOf(j)
    <3>1. PICK d : d = ConnOf(j)
      OBVIOUS
    <3>2. Holds(j, Taken(d)) /\ Taken(d)' = Taken(d) /\ ConnOf(j)' = d
      BY <1>2, <2>2, <3>1 DEF SlotsInv, Taken
    <3>3. Holds(j, Taken(d))'
      BY <2>2, <3>2 DEF Holds
    <3> QED
      BY <3>2, <3>3
  <2> QED
    BY <1>6, <2>1, <2>2
<1>10. ASSUME NEW d \in Conns PROVE replies'[d] # replies[d] + 2
  <2>1. CASE d = c
    BY <1>5, <1>6, <2>1
  <2>2. CASE d # c
    <3>1. replies'[d] = replies[d] /\ replies[d] \in Nat
      BY <1>2, <1>6, <2>2 DEF Types
    <3> QED
      BY <3>1
  <2> QED
    BY <2>1, <2>2
<1> QED
  BY <1>2, <1>7, <1>8, <1>9, <1>10 DEF StepsInv

\* A client types one line to a calm connection when nothing is under way.
LEMMA ClientSteps ==
  ASSUME IInv, StepsInv, NEW c \in Conns,
         Connect(c) \/ Recv(c) \/ Type(c) \/ TypeOther(c) \/ RecvEnds(c) \/ Vanish(c)
  PROVE  StepsInv' /\ \A d \in Conns : replies'[d] # replies[d] + 2
<1>1. Types /\ calm \subseteq Conns /\ UNCHANGED <<spc, slots, fds>>
      /\ (Running => NewInv /\ CalmInv /\ SlotsInv /\ PlacesInv)
  BY DEF IInv, Connect, Recv, Type, TypeOther, Send, RecvEnds, Vanish, serverVars, StepsInv
\* A step that says for every connection what becomes of it.
<1>2. ASSUME calm' \subseteq calm, \A d \in Conns \ {c} : user'[d] = user[d] /\ up'[d] = up[d]
                                     /\ replies'[d] = replies[d] /\ typed'[d] = typed[d],
             Running => NewInv',
             Running /\ c \in calm' =>
               /\ Taken(c)' = Taken(c)
               /\ up'[c] = << >> \/ (typed'[c] > 0 /\ Sent(c, typed[c])')
               /\ user'[c] = "type" => up'[c] = << >> /\ replies'[c] = 0
               /\ user'[c] = "recv" /\ replies'[c] > 0 => up'[c] = << >>
      PROVE  StepsInv'
  <2>1. ASSUME Running PROVE CalmInv'
    <3> SUFFICES ASSUME NEW d \in calm'
                 PROVE  /\ up'[d] = << >> \/ (typed'[d] > 0 /\ Sent(d, typed[d])')
                        /\ user'[d] = "type" => up'[d] = << >> /\ replies'[d] = 0
                        /\ user'[d] = "recv" /\ replies'[d] > 0 => up'[d] = << >>
      BY DEF CalmInv
    <3>1. CASE d = c
      BY <1>2, <2>1, <3>1
    <3>2. CASE d # c
      BY <1>1, <1>2, <2>1, <3>2 DEF CalmInv, Sent
    <3> QED
      BY <3>1, <3>2
  <2>2. ASSUME Running PROVE SlotsInv'
    <3> SUFFICES ASSUME NEW j \in Used, ConnOf(j) \in calm'
                 PROVE  Holds(j, Taken(ConnOf(j)))'
      BY <1>1 DEF SlotsInv, Used, ConnOf
    <3>1. PICK d \in Conns : d = ConnOf(j) /\ d \in calm
      BY <1>1, <1>2
    <3>2. Holds(j, Taken(d)) /\ Taken(d)' = Taken(d) /\ ConnOf(j)' = d
      BY <1>1, <1>2, <2>2, <3>1 DEF SlotsInv, Taken, ConnOf
    <3>3. Holds(j, Taken(d))'
      BY <1>1, <3>2 DEF Holds
    <3> QED
      BY <3>2, <3>3
  <2> QED
    BY <1>1, <1>2, <2>1, <2>2 DEF StepsInv, Running
<1>3. CASE Connect(c)
  <2>1. /\ user[c] = "off" /\ Running /\ backlog' = Append(backlog, c)
        /\ user' = [user EXCEPT ![c] = "recv"] /\ UNCHANGED <<up, replies, typed, calm>>
    BY <1>3 DEF Connect
  <2>2. up[c] = << >> /\ replies[c] = 0
    BY <1>1, <2>1 DEF NewInv
  <2>3. user'[c] = "recv" /\ \A d \in Conns \ {c} : user'[d] = user[d]
    BY <1>1, <2>1 DEF Types
  <2>4. NewInv'
    <3>1. \A k \in DOMAIN backlog' : \/ k \in DOMAIN backlog /\ backlog'[k] = backlog[k]
                                          /\ backlog[k] \in Conns
                                     \/ backlog'[k] = c
      BY <1>1, <2>1, SMTT(30) DEF Types
    <3>2. \A k \in DOMAIN backlog' : up[backlog'[k]] = << >> /\ replies[backlog'[k]] = 0
                                     /\ user'[backlog'[k]] # "type"
      BY <1>1, <2>1, <2>2, <2>3, <3>1 DEF NewInv
    <3>3. \A d \in Conns : user'[d] = "off" => up[d] = << >> /\ replies[d] = 0
      BY <1>1, <2>1, <2>3 DEF NewInv
    <3> QED
      BY <2>1, <3>2, <3>3 DEF NewInv
  <2>5. Taken(c)' = Taken(c)
    BY <2>1 DEF Taken
  <2> QED
    BY <1>1, <1>2, <2>1, <2>2, <2>3, <2>4, <2>5 DEF Types
<1>4. CASE Recv(c)
  <2>1. PICK k \in 1..replies[c] : /\ replies' = [replies EXCEPT ![c] = @ - k]
                                   /\ calm' = IF k = replies[c] THEN calm ELSE calm \ {c}
    BY <1>4 DEF Recv
  <2>2. UNCHANGED <<backlog, up, typed>> /\ user' = [user EXCEPT ![c] = "type"]
        /\ user[c] = "recv"
    BY <1>4 DEF Recv
  <2>3. /\ replies[c] > 0 /\ replies'[c] = replies[c] - k /\ user'[c] = "type"
        /\ \A d \in Conns \ {c} : replies'[d] = replies[d] /\ user'[d] = user[d]
    BY <1>1, <2>1, <2>2 DEF Types
  <2>4. Running => NewInv'
    <3>1. Running => \A k2 \in DOMAIN backlog : backlog[k2] \in Conns \ {c}
      BY <1>1, <2>3 DEF NewInv, Types
    <3> QED
      BY <1>1, <2>2, <2>3, <3>1 DEF NewInv
  <2>5. c \in calm' => c \in calm /\ replies'[c] = 0
    BY <1>1, <2>1, <2>3
  <2>6. Taken(c)' = Taken(c)
    BY <2>2 DEF Taken
  <2>7. Running /\ c \in calm => up[c] = << >>
    BY <1>1, <2>2, <2>3 DEF CalmInv
  <2>8. \A d \in Conns : replies'[d] # replies[d] + 2
    BY <1>1, <2>1, <2>3 DEF Types
  <2> QED
    BY <1>2, <2>1, <2>2, <2>3, <2>4, <2>5, <2>6, <2>7, <2>8
<1>5. CASE Type(c)
  <2>1. PICK kind \in Kinds : up' = [up EXCEPT ![c] = @ \o <<<<kind, typed[c] + 1>>, NL>>]
    BY <1>5 DEF Type, Send, Line
  <2>2. /\ UNCHANGED <<backlog, replies, calm>> /\ user[c] = "type"
        /\ user' = [user EXCEPT ![c] = "recv"] \/ user' = [user EXCEPT ![c] = "closed"]
        /\ typed' = [typed EXCEPT ![c] = @ + 1]
    BY <1>5 DEF Type, Send, Hangup
  <2>3. /\ typed[c] \in Nat /\ typed'[c] = typed[c] + 1 /\ user'[c] \in {"recv", "closed"}
        /\ up'[c] = up[c] \o <<<<kind, typed'[c]>>, NL>>
        /\ \A d \in Conns \ {c} : user'[d] = user[d] /\ typed'[d] = typed[d] /\ up'[d] = up[d]
    BY <1>1, <2>1, <2>2 DEF Types
  <2>4. Running => NewInv'
    <3>1. Running => \A k \in DOMAIN backlog : backlog[k] \in Conns \ {c}
      BY <1>1, <2>2 DEF NewInv, Types
    <3> QED
      BY <1>1, <2>2, <2>3, <3>1 DEF NewInv
  <2>5. ASSUME Running, c \in calm
        PROVE  /\ Taken(c)' = Taken(c) /\ Sent(c, typed[c])' /\ replies[c] = 0
    <3>1. up[c] = << >> /\ replies[c] = 0
      BY <1>1, <2>2, <2>5 DEF CalmInv
    <3> DEFINE x == <<kind, typed'[c]>>
    <3>2. up'[c] = <<x, NL>>
      <4> HIDE DEF x
      <4>1. << >> \o <<x, NL>> = <<x, NL>>
        OBVIOUS
      <4> QED
        BY <2>3, <3>1, <4>1 DEF x
    <3>3. up'[c] # << >>
      BY <3>2
    <3>4. Taken(c)' = Taken(c)
      BY <2>3, <3>1, <3>3 DEF Taken
    <3>5. Sent(c, typed[c])'
      BY <3>2 DEF Sent, Line
    <3> QED
      BY <3>1, <3>4, <3>5
  <2>6. \A d \in Conns : replies'[d] # replies[d] + 2
    BY <1>1, <2>2 DEF Types
  <2> QED
    BY <1>1, <1>2, <2>2, <2>3, <2>4, <2>5, <2>6
<1>6. CASE RecvEnds(c) \/ Vanish(c)
  <2>1. /\ UNCHANGED <<backlog, up, replies, typed, calm>>
        /\ user' = [user EXCEPT ![c] = "closed"]
    BY <1>6 DEF RecvEnds, Vanish, Hangup
  <2>2. user'[c] = "closed" /\ \A d \in Conns \ {c} : user'[d] = user[d]
    BY <1>1, <2>1 DEF Types
  <2>3. Running => NewInv'
    <3>1. \A k \in DOMAIN backlog : backlog[k] \in Conns
      BY <1>1 DEF Types
    <3> QED
      BY <1>1, <2>1, <2>2, <3>1 DEF NewInv
  <2>4. Taken(c)' = Taken(c)
    BY <2>1 DEF Taken
  <2>5. Running /\ c \in calm => up[c] = << >> \/ (typed[c] > 0 /\ Sent(c, typed[c])')
    BY <1>1, <2>1 DEF CalmInv, Sent
  <2>6. \A d \in Conns : replies'[d] # replies[d] + 2
    BY <1>1, <2>1 DEF Types
  <2> QED
    BY <1>2, <2>1, <2>2, <2>3, <2>4, <2>5, <2>6
<1>7. CASE TypeOther(c)
  <2>1. PICK t \in Seq(Char) : Send(c, t)
    BY <1>7, OthersAreText DEF TypeOther
  <2>2. /\ UNCHANGED <<backlog, replies>> /\ user[c] = "type" /\ calm' = calm \ {c}
        /\ user' = [user EXCEPT ![c] = "recv"] /\ typed' = [typed EXCEPT ![c] = @ + 1]
        /\ up' = [up EXCEPT ![c] = @ \o t]
    BY <1>7, <2>1 DEF TypeOther, Send
  <2>3. /\ user'[c] = "recv"
        /\ \A d \in Conns \ {c} : user'[d] = user[d] /\ up'[d] = up[d] /\ typed'[d] = typed[d]
    BY <1>1, <2>2 DEF Types
  <2>4. Running => NewInv'
    <3>1. Running => \A k \in DOMAIN backlog : backlog[k] \in Conns \ {c}
      BY <1>1, <2>2 DEF NewInv, Types
    <3> QED
      BY <1>1, <2>2, <2>3, <3>1 DEF NewInv
  <2>5. \A d \in Conns : replies'[d] # replies[d] + 2
    BY <1>1, <2>2 DEF Types
  <2> QED
    BY <1>1, <1>2, <2>2, <2>3, <2>4, <2>5
<1> QED
  BY <1>3, <1>4, <1>5, <1>6, <1>7

\* Every step keeps the steps, and sends a result in step.
LEMMA NextSteps ==
  ASSUME IInv, StepsInv, [Next]_vars
  PROVE  StepsInv' /\ \A i \in Used : InStep(i, ConnOf(i))
<1>1. Types /\ calm \subseteq Conns
  BY DEF IInv, StepsInv
<1>2. ASSUME StepsInv', \A d \in Conns : replies'[d] # replies[d] + 2
      PROVE  \A i \in Used : InStep(i, ConnOf(i))
  BY <1>2 DEF InStep, StepsInv
<1>3. \A d \in Conns : replies[d] # replies[d] + 2
  BY <1>1 DEF Types
<1>4. CASE Select \/ ScanDone \/ UNCHANGED vars
  <2>1. UNCHANGED <<slots, fds, backlog, up, replies, user, typed, calm>>
        /\ (Running' => Running)
    BY <1>4 DEF Select, ScanDone, vars, clientVars, history, Running
  <2>2. StepsInv'
    <3>1. Used' = Used /\ \A i \in Used : ConnOf(i)' = ConnOf(i)
      BY <2>1 DEF Used, ConnOf
    <3>2. \A i \in Used : Holds(i, Taken(ConnOf(i)))' <=> Holds(i, Taken(ConnOf(i)))
      BY <2>1, <3>1 DEF Holds, Taken
    <3> QED
      BY <2>1, <3>1, <3>2 DEF StepsInv, NewInv, CalmInv, SlotsInv, Sent
  <2> QED
    BY <1>2, <1>3, <2>1, <2>2
<1>5. CASE Interrupt
  BY <1>1, <1>2, <1>3, <1>5 DEF Interrupt, history, Running, StepsInv
<1> QED
  BY <1>2, <1>4, <1>5, ServeSteps, AcceptSteps, ClientSteps DEF Next, ServerStep

\* A result is made from an operation and two numbers that were typed one after the
\* other, when the lines and the replies of the connection came one at a time, for any
\* number of calculations and of others (ResultsAreInStep; tcp_server_new.c:177-241).
THEOREM InStepAlways == Spec => ResultsAreInStep
<1>1. IInv /\ StepsInv /\ [Next]_vars => StepsInv'
  BY NextSteps
<1>2. IInv /\ StepsInv /\ [Next]_vars =>
        [\A i \in Used : LET c == ConnOf(i) IN
           c \in calm' /\ replies'[c] = replies[c] + 2 =>
             \E n \in 1..typed[c] : \E kind \in Kinds :
               /\ slots[i].op = <<<<"op", n>>>>
               /\ slots[i].first_num = <<<<kind, n + 1>>>>
               /\ Sent(c, n + 2)]_vars
  BY NextSteps DEF InStep
<1> QED
  BY <1>1, <1>2, InitSteps, Invariant, PTL DEF Spec, ResultsAreInStep
=============================================================================
