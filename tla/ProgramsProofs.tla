--------------------------- MODULE ProgramsProofs ---------------------------
(***************************************************************************)
(* What some of the smaller programs promise, for any bounds: each program *)
(* has an invariant that the steps of its own module keep, and a step of   *)
(* Programs is a step of it or leaves its variables alone.                 *)
(***************************************************************************)
EXTENDS Programs, Module2Proofs, FiniteSetTheorems, SequenceTheorems, WellFoundedInduction, TLAPS

\* A step is one of the program that runs: the others' variables stay.
LEMMA EveryStep ==
  ASSUME [Turn /\ Others /\ UNCHANGED program]_allVars
  PROVE  /\ [Echo!Next]_echoVars /\ [Ping!Next]_pingVars /\ [Sems!Next]_semVars
         /\ [Signal!Next]_sigVars /\ [Chat!Next]_chatVars /\ [Leds!Next]_ledVars
         /\ [Device!Next]_devVars /\ [Proc!Next]_procVars /\ [Rights!Next]_permVars
         /\ [Queue!Next]_queueVars /\ [Pipes!Next]_pipeVars /\ [Fixed!Next]_fixedVars
         /\ [Next]_vars /\ [TreeNext]_tree
<1>1. CASE UNCHANGED allVars
  BY <1>1 DEF allVars
<1>2. CASE Turn /\ Others
  <2> USE <1>2
  <2>1. [Echo!Next]_echoVars
    BY DEF Turn, Others, Keep
  <2>2. [Ping!Next]_pingVars
    BY DEF Turn, Others, Keep
  <2>3. [Sems!Next]_semVars
    BY DEF Turn, Others, Keep
  <2>4. [Signal!Next]_sigVars
    BY DEF Turn, Others, Keep
  <2>5. [Chat!Next]_chatVars
    BY DEF Turn, Others, Keep
  <2>6. [Leds!Next]_ledVars
    BY DEF Turn, Others, Keep
  <2>7. [Device!Next]_devVars
    BY DEF Turn, Others, Keep
  <2>8. [Proc!Next]_procVars
    BY DEF Turn, Others, Keep
  <2>9. [Rights!Next]_permVars
    BY DEF Turn, Others, Keep
  <2>10. [Queue!Next]_queueVars
    BY DEF Turn, Others, Keep
  <2>11. [Pipes!Next]_pipeVars
    BY DEF Turn, Others, Keep
  <2>12. [Fixed!Next]_fixedVars
    BY DEF Turn, Others, Keep
  <2>13. [Next]_vars
    BY DEF Turn, Others, Keep
  <2>14. [TreeNext]_tree
    BY DEF Turn, Others, Keep
  <2> QED
    BY <2>1, <2>2, <2>3, <2>4, <2>5, <2>6, <2>7, <2>8, <2>9, <2>10, <2>11, <2>12, <2>13, <2>14
<1> QED
  BY <1>1, <1>2

-----------------------------------------------------------------------------
(* The echo server of module3/c01: its table of slots.                     *)
EchoTexts == {"line", "CLOSE", "CLOSED"}
Datagrams == [port : Ports, text : EchoTexts]

EchoTypeOK ==
  /\ clients \in [Echo!Slots -> [port : Ports \union {0}, count : Int, active : BOOLEAN]]
  /\ toServer \in Seq(Datagrams)
  /\ user \in [Ports -> {"off", "prompt", "recv"}]
  /\ unheard \subseteq Ports

\* The ports whose session goes on, or has ended without a goodbye that arrived.
Excused == {p \in Ports : user[p] # "off" \/ p \in unheard}
\* The places of the goodbyes in the buffer.
Goodbyes == {k \in DOMAIN toServer : toServer[k].text = "CLOSE"}

\* A slot is taken for a port that is excused, or whose goodbye is on its way ...
SlotsInv ==
  \A i \in Echo!Slots : clients[i].active =>
    \/ clients[i].port \in Excused
    \/ \E k \in Goodbyes : toServer[k].port = clients[i].port

\* ... and so is every line, with the goodbye behind it.
LinesInv ==
  \A k \in DOMAIN toServer \ Goodbyes :
    \/ toServer[k].port \in Excused
    \/ \E j \in Goodbyes : j > k /\ toServer[j].port = toServer[k].port

UniqueInv ==
  \A i, j \in Echo!Slots :
    clients[i].active /\ clients[j].active /\ clients[i].port = clients[j].port => i = j

EchoInv == EchoTypeOK /\ SlotsInv /\ LinesInv /\ UniqueInv

\* The table is empty at first.
LEMMA EchoInit == Echo!Init => EchoInv
<1> SUFFICES ASSUME Echo!Init PROVE EchoInv
  OBVIOUS
<1> USE DEF Echo!Init, Echo!Free
<1>1. EchoTypeOK
  BY DEF EchoTypeOK
<1>2. SlotsInv /\ LinesInv /\ UniqueInv
  BY DEF SlotsInv, LinesInv, UniqueInv
<1> QED
  BY <1>1, <1>2 DEF EchoInv

\* Nothing in the table or the buffer changes, and no port loses its excuse.
LEMMA SameBuffer ==
  ASSUME EchoInv, EchoTypeOK', UNCHANGED <<clients, toServer>>, Excused \subseteq Excused'
  PROVE  EchoInv'
<1>1. Goodbyes' = Goodbyes
  BY DEF Goodbyes
<1> QED
  BY <1>1 DEF EchoInv, SlotsInv, LinesInv, UniqueInv

\* A datagram of p joins the buffer: a goodbye, or p is excused.
LEMMA OneMore ==
  ASSUME EchoInv, EchoTypeOK', UNCHANGED clients,
         NEW p \in Ports, NEW body \in EchoTexts, Echo!Delivered(p, body),
         body = "CLOSE" \/ p \in Excused', Excused \ {p} \subseteq Excused'
  PROVE  EchoInv'
<1> DEFINE n == Len(toServer) + 1
<1>1. /\ n \in Nat \ {0} /\ DOMAIN toServer = 1..(n - 1) /\ DOMAIN toServer' = 1..n
      /\ \A k \in 1..(n - 1) : toServer'[k] = toServer[k]
      /\ toServer'[n] = [port |-> p, text |-> body]
  BY DEF EchoInv, EchoTypeOK, Echo!Delivered
<1> HIDE DEF n
<1>2. Goodbyes \subseteq Goodbyes' /\ Goodbyes' \subseteq Goodbyes \union {n}
      /\ Goodbyes \subseteq 1..(n - 1)
  BY <1>1 DEF Goodbyes
<1>3. p \in Excused' \/ n \in Goodbyes'
  <2>1. n \in DOMAIN toServer' /\ toServer'[n].text = body
    BY <1>1
  <2> QED
    BY <2>1 DEF Goodbyes
<1>4. SlotsInv'
  <2> SUFFICES ASSUME NEW i \in Echo!Slots, clients[i].active
               PROVE  \/ clients[i].port \in Excused'
                      \/ \E k \in Goodbyes' : toServer'[k].port = clients[i].port
    BY DEF SlotsInv
  <2>1. CASE clients[i].port = p
    BY <1>1, <1>3, <2>1
  <2>2. CASE clients[i].port # p
    BY <1>1, <1>2, <2>2 DEF EchoInv, SlotsInv
  <2> QED
    BY <2>1, <2>2
<1>5. LinesInv'
  <2> SUFFICES ASSUME NEW k \in (1..n) \ Goodbyes'
               PROVE  \/ toServer'[k].port \in Excused'
                      \/ \E j \in Goodbyes' : j > k /\ toServer'[j].port = toServer'[k].port
    BY <1>1 DEF LinesInv
  <2>1. CASE k = n
    BY <1>1, <1>3, <2>1
  <2>2. CASE k < n
    <3>1. toServer'[k] = toServer[k] /\ k \in (1..(n - 1)) \ Goodbyes
      BY <1>1, <1>2, <2>2
    <3>2. CASE toServer[k].port = p
      BY <1>1, <1>3, <2>2, <3>1, <3>2
    <3>3. CASE toServer[k].port # p
      BY <1>1, <1>2, <3>1, <3>3 DEF EchoInv, LinesInv
    <3> QED
      BY <3>2, <3>3
  <2> QED
    BY <1>1, <2>1, <2>2
<1> QED
  BY <1>4, <1>5 DEF EchoInv, UniqueInv

\* The server's turn: the oldest datagram leaves the buffer; a goodbye takes the
\* slot of its port with it, a line takes a slot (server.c:141-177).
LEMMA ServeInv ==
  ASSUME EchoInv, Echo!Serve
  PROVE  EchoInv'
<1> DEFINE first == toServer[1]
           p == first.port
           n == Len(toServer)
           Table == [Echo!Slots -> [port : Ports \union {0}, count : Int, active : BOOLEAN]]
<1>1. /\ n \in Nat \ {0} /\ DOMAIN toServer = 1..n /\ DOMAIN toServer' = 1..(n - 1)
      /\ \A k \in 1..(n - 1) : toServer'[k] = toServer[k + 1]
      /\ Head(toServer) = first /\ p \in Ports
      /\ toServer' \in Seq(Datagrams)
      /\ UNCHANGED <<user, unheard>>
  <2>1. toServer \in Seq(Datagrams) /\ toServer # << >> /\ toServer' = Tail(toServer)
        /\ UNCHANGED <<user, unheard>>
    BY DEF EchoInv, EchoTypeOK, Echo!Serve
  <2>2. /\ n \in Nat \ {0} /\ DOMAIN toServer = 1..n /\ DOMAIN toServer' = 1..(n - 1)
        /\ \A k \in 1..(n - 1) : toServer'[k] = toServer[k + 1]
        /\ Head(toServer) = first /\ toServer' \in Seq(Datagrams)
    BY <2>1
  <2>3. first \in Datagrams
    BY <2>1, <2>2
  <2> QED
    BY <2>1, <2>2, <2>3 DEF Datagrams
<1>2. Excused' = Excused
  BY <1>1 DEF Excused
<1>3. /\ Goodbyes \subseteq 1..n
      /\ \A k \in Goodbyes : k > 1 => k - 1 \in Goodbyes' /\ toServer'[k - 1] = toServer[k]
      /\ \A k \in Goodbyes' : k + 1 \in Goodbyes
  BY <1>1 DEF Goodbyes
<1>4. clients \in Table /\ toServer' \in Seq(Datagrams) /\ user' = user /\ unheard' = unheard
  BY <1>1 DEF EchoInv, EchoTypeOK
<1>5. LinesInv'
  <2> SUFFICES ASSUME NEW k \in (1..(n - 1)) \ Goodbyes'
               PROVE  \/ toServer'[k].port \in Excused
                      \/ \E j \in Goodbyes' : j > k /\ toServer'[j].port = toServer'[k].port
    BY <1>1, <1>2 DEF LinesInv
  <2>1. toServer'[k] = toServer[k + 1] /\ k + 1 \in (1..n) \ Goodbyes
    BY <1>1 DEF Goodbyes
  <2>2. CASE toServer[k + 1].port \in Excused
    BY <2>1, <2>2
  <2>3. ASSUME NEW j \in Goodbyes, j > k + 1, toServer[j].port = toServer[k + 1].port
        PROVE  \E m \in Goodbyes' : m > k /\ toServer'[m].port = toServer'[k].port
    <3>1. j - 1 \in Goodbyes' /\ j - 1 > k /\ toServer'[j - 1] = toServer[j]
      BY <1>1, <1>3, <2>3
    <3> QED
      BY <2>1, <2>3, <3>1
  <2> QED
    BY <1>1, <2>1, <2>2, <2>3 DEF EchoInv, LinesInv
\* The slots of others have their excuse or goodbye behind the first datagram.
<1>6. ASSUME NEW i \in Echo!Slots, clients[i].active, clients[i].port # p
      PROVE  \/ clients[i].port \in Excused'
             \/ \E k \in Goodbyes' : toServer'[k].port = clients[i].port
  <2>1. ASSUME NEW k \in Goodbyes, toServer[k].port = clients[i].port
        PROVE  k - 1 \in Goodbyes' /\ toServer'[k - 1].port = clients[i].port
    <3>1. k > 1
      BY <1>1, <1>3, <1>6, <2>1
    <3> QED
      BY <1>3, <2>1, <3>1
  <2> QED
    BY <1>2, <1>6, <2>1 DEF EchoInv, SlotsInv
<1>7. CASE Echo!IsClose(first.text)
  <2>1. clients' = Echo!remove_client(p)
    BY <1>1, <1>7 DEF Echo!Serve
  <2>2. clients' \in Table
    BY <1>4, <2>1 DEF Echo!remove_client
  <2>3. \A i \in Echo!Slots : clients'[i].active =>
          clients'[i] = clients[i] /\ clients[i].active /\ clients[i].port # p
    BY <1>4, <2>1 DEF Echo!remove_client, Echo!SlotOf
  <2>4. SlotsInv'
    BY <1>6, <2>3 DEF SlotsInv
  <2>5. UniqueInv'
    BY <2>3 DEF EchoInv, UniqueInv
  <2> QED
    BY <1>4, <1>5, <2>2, <2>4, <2>5 DEF EchoInv, EchoTypeOK
<1>8. ASSUME ~Echo!IsClose(first.text), NEW i \in Echo!find_or_add_client(p),
             clients' = Echo!Counted(p, i)
      PROVE  EchoInv'
  <2>1. i \in Echo!Slots /\ (i \in Echo!SlotOf(p) \/ (Echo!SlotOf(p) = {} /\ ~clients[i].active))
    BY <1>8 DEF Echo!find_or_add_client, Echo!SlotOf
  <2>2. /\ \A j \in Echo!Slots \ {i} : clients'[j] = clients[j]
        /\ clients'[i].active /\ clients'[i].port = p
    BY <1>4, <1>8, <2>1 DEF Echo!Counted
  <2>3. clients' \in Table
    BY <1>1, <1>4, <1>8, <2>1 DEF Echo!Counted
  <2>4. \A j \in Echo!Slots \ {i} : clients[j].active => clients[j].port # p
    BY <2>1 DEF EchoInv, UniqueInv, Echo!SlotOf
  <2>5. 1 \in DOMAIN toServer \ Goodbyes
    BY <1>1, <1>8 DEF Goodbyes, Echo!IsClose
  <2>6. ASSUME NEW j \in Goodbyes, j > 1, toServer[j].port = p
        PROVE  \E k \in Goodbyes' : toServer'[k].port = p
    BY <1>3, <2>6
  <2>7. p \in Excused' \/ \E k \in Goodbyes' : toServer'[k].port = p
    BY <1>2, <2>5, <2>6 DEF EchoInv, LinesInv
  <2>8. SlotsInv'
    <3> SUFFICES ASSUME NEW j \in Echo!Slots, clients'[j].active
                 PROVE  \/ clients'[j].port \in Excused'
                        \/ \E k \in Goodbyes' : toServer'[k].port = clients'[j].port
      BY DEF SlotsInv
    <3>1. CASE j = i
      BY <2>2, <2>7, <3>1
    <3>2. CASE j # i
      BY <1>6, <2>2, <2>4, <3>2
    <3> QED
      BY <3>1, <3>2
  <2>9. UniqueInv'
    BY <2>2, <2>4 DEF EchoInv, UniqueInv
  <2> QED
    BY <1>4, <1>5, <2>3, <2>8, <2>9 DEF EchoInv, EchoTypeOK
<1>9. CASE Echo!find_or_add_client(p) = {} /\ UNCHANGED clients
  <2>1. \A i \in Echo!Slots : clients[i].active => clients[i].port # p
    <3> SUFFICES ASSUME NEW i \in Echo!Slots, clients[i].active, clients[i].port = p PROVE FALSE
      OBVIOUS
    <3>1. Echo!SlotOf(p) = {i}
      BY DEF EchoInv, UniqueInv, Echo!SlotOf
    <3>2. i \in Echo!find_or_add_client(p)
      BY <3>1 DEF Echo!find_or_add_client, Echo!Slots
    <3> QED
      BY <1>9, <3>2
  <2>2. SlotsInv'
    BY <1>6, <1>9, <2>1 DEF SlotsInv
  <2> QED
    BY <1>4, <1>5, <1>9, <2>2 DEF EchoInv, EchoTypeOK, UniqueInv
<1> QED
  BY <1>1, <1>7, <1>8, <1>9 DEF Echo!Serve

\* Every step keeps the invariant: one case for each action (server.c:34-62,
\* client.c:65-140).
LEMMA EchoNext ==
  ASSUME EchoInv, [Echo!Next]_echoVars
  PROVE  EchoInv'
<1> USE DEF EchoInv, EchoTypeOK, Excused, EchoTexts
<1>1. CASE Echo!Serve
  BY <1>1, ServeInv
<1>2. ASSUME NEW p \in Ports, Echo!Start(p)
      PROVE  EchoInv'
  BY <1>2, SameBuffer DEF Echo!Start
<1>3. ASSUME NEW p \in Ports, NEW body \in EchoTexts, Echo!Ask(p, body)
      PROVE  EchoInv'
  <2>1. CASE Echo!Delivered(p, body)
    <3>1. EchoTypeOK'
      BY <1>3, <2>1 DEF Echo!Ask, Echo!Delivered, Datagrams
    <3> QED
      BY <1>3, <2>1, <3>1, OneMore DEF Echo!Ask
  <2>2. CASE UNCHANGED toServer
    BY <1>3, <2>2, SameBuffer DEF Echo!Ask
  <2> QED
    BY <1>3, <2>1, <2>2 DEF Echo!Ask, Echo!send_message
<1>4. ASSUME NEW p \in Ports, Echo!recieve_message(p)
      PROVE  EchoInv'
  BY <1>4, SameBuffer DEF Echo!recieve_message
<1>5. ASSUME NEW p \in Ports, Echo!signal_handler(p)
      PROVE  EchoInv'
  <2>1. CASE Echo!Delivered(p, "CLOSE") /\ UNCHANGED unheard
    <3>1. EchoTypeOK'
      BY <1>5, <2>1 DEF Echo!signal_handler, Echo!Off, Echo!Delivered, Datagrams
    <3> QED
      BY <1>5, <2>1, <3>1, OneMore DEF Echo!signal_handler, Echo!Off
  <2>2. CASE unheard' = unheard \union {p} /\ UNCHANGED toServer
    BY <1>5, <2>2, SameBuffer DEF Echo!signal_handler, Echo!Off
  <2> QED
    BY <1>5, <2>1, <2>2 DEF Echo!signal_handler
<1>6. ASSUME NEW p \in Ports, Echo!EndOfInput(p)
      PROVE  EchoInv'
  BY <1>6, SameBuffer DEF Echo!EndOfInput, Echo!Off
<1>7. CASE UNCHANGED echoVars
  BY <1>7, SameBuffer DEF echoVars
<1> QED
  BY <1>1, <1>2, <1>3, <1>4, <1>5, <1>6, <1>7 DEF Echo!Next

\* A slot is taken for a live session, for one whose goodbye is on its way or for
\* one that ended without a goodbye that arrived, and for each port there is one
\* (EchoSlots; server.c:34-62).
THEOREM SlotsAreJustified == ProgramsSpec => []EchoSlots
<1>1. EchoInv => EchoSlots
  BY DEF EchoInv, SlotsInv, UniqueInv, EchoSlots, Echo!EchoSlots, Excused, Goodbyes, Echo!Pending
<1>2. Start => EchoInv
  BY EchoInit DEF Start
<1>3. EchoInv /\ [Turn /\ Others /\ UNCHANGED program]_allVars => EchoInv'
  BY EveryStep, EchoNext
<1> QED
  BY <1>1, <1>2, <1>3, PTL DEF ProgramsSpec

-----------------------------------------------------------------------------
(* Lines through POSIX semaphores, module3/09.                             *)
\* Where main() has opened, reads, and has read to the end.
Opening == {"open", "second", "fork"}
Reading == {"fopen", "wait", "lock", "read"}
AtEnd == {"reap", "unlink", "unlink2", "done"}

\* Types, and that the producer lives in a run only after its fork.
SemsTypeOK ==
  /\ names \subseteq {Sems!SEM, Sems!EMPTY}
  /\ main \in Opening \union Reading \union AtEnd \union {"off", "refused", "failed", "killed"}
  /\ prod \in {"off", "fopen", "lock", "write", "post", "done", "failed", "killed"}
  /\ empty \in Nat /\ in_file \in Nat /\ lines_read \in Nat /\ permits \in Nat
  /\ hit \in BOOLEAN /\ given_up \in BOOLEAN
  /\ main \in Opening => prod = "off"

\* As long as no run was killed or gave up, the names are those that main() has created and not removed.
NamesInv ==
  ~given_up =>
    /\ main \notin {"refused", "failed"}
    /\ main \in {"off", "open", "killed", "done"} => names = {}
    /\ main = "second" => names \subseteq {Sems!SEM}
    /\ main = "unlink2" => names \subseteq {Sems!EMPTY}

\* Permits are posted for lines in the file and once more at the end; the consumer
\* has spent one for each line it has read, and one on the line it is at.
Finished == IF prod = "done" THEN 1 ELSE 0
Spent == lines_read + (IF main \in {"lock", "read"} THEN 1 ELSE 0)
CountInv ==
  /\ main \in Opening => lines_read = 0 /\ permits = 0 /\ ~hit
  /\ main = "fork" => empty = 0 /\ in_file = 0
  /\ ~hit /\ main \in Reading =>
       /\ prod \in {"fopen", "lock", "write", "post", "done", "failed"}
       /\ prod \in {"fopen", "failed"} => permits = 0
       /\ in_file = permits + (IF prod = "post" THEN 1 ELSE 0)
       /\ empty + Spent = permits + Finished
       /\ permits <= MAX_LINES /\ lines_read <= in_file
       /\ prod = "done" => permits = MAX_LINES
       /\ prod \in {"write", "post"} => permits < MAX_LINES
  /\ hit /\ main \in Reading => prod = "killed"
  /\ ~hit /\ main \in AtEnd =>
       prod = "done" /\ lines_read = MAX_LINES /\ in_file = MAX_LINES

SemsInv == SemsTypeOK /\ NamesInv /\ CountInv

\* The invariant holds at first.
LEMMA SemsInit == Sems!Init => SemsInv
<1> SUFFICES ASSUME Sems!Init PROVE SemsInv
  OBVIOUS
<1> USE DEF Sems!Init, Opening, Reading, AtEnd
<1>1. SemsTypeOK
  BY DEF SemsTypeOK
<1>2. NamesInv
  BY DEF NamesInv
<1>3. CountInv
  BY DEF CountInv
<1> QED
  BY <1>1, <1>2, <1>3 DEF SemsInv

\* Each step keeps it: one case for each action (sem.c:3-11, 88-164).
LEMMA SemsNext ==
  ASSUME SemsInv, [Sems!Next]_semVars
  PROVE  SemsInv'
<1> USE SizesAssumption
<1> USE DEF SemsInv, SemsTypeOK, NamesInv, CountInv, Opening, Reading, AtEnd, Spent, Finished,
            Sems!SEM, Sems!EMPTY, Sems!Ended
<1>1. CASE Sems!Start
  BY <1>1 DEF Sems!Start
<1>2. CASE Sems!OpenSem
  BY <1>2 DEF Sems!OpenSem, Sems!Open
<1>3. CASE Sems!OpenEmpty
  <2> USE <1>3 DEF Sems!OpenEmpty, Sems!Open
  <2>1. SemsTypeOK'
    OBVIOUS
  <2>2. NamesInv'
    OBVIOUS
  <2>3. CountInv'
    OBVIOUS
  <2> QED
    BY <2>1, <2>2, <2>3
<1>4. CASE Sems!Fork
  <2> USE <1>4 DEF Sems!Fork
  <2>1. SemsTypeOK'
    OBVIOUS
  <2>2. NamesInv'
    OBVIOUS
  <2>3. CountInv'
    <3>1. CASE main' = "failed"
      BY <3>1
    <3>2. CASE main' = "fopen" /\ prod' = "fopen"
      <4>1. /\ lines_read' = 0 /\ permits' = 0 /\ empty' = 0 /\ in_file' = 0
            /\ ~hit /\ ~hit'
        BY <3>2
      <4> QED
        BY <3>2, <4>1
    <3> QED
      BY <3>1, <3>2
  <2> QED
    BY <2>1, <2>2, <2>3
<1>p. CASE Sems!ProducerOpen
  BY <1>p DEF Sems!ProducerOpen
<1>c. CASE Sems!ConsumerOpen
  BY <1>c DEF Sems!ConsumerOpen
<1>5. CASE Sems!ProducerLock
  BY <1>5 DEF Sems!ProducerLock
<1>6. CASE Sems!write_data_line
  BY <1>6 DEF Sems!write_data_line
<1>7. CASE Sems!PostPermit
  BY <1>7 DEF Sems!PostPermit
<1>8. CASE Sems!FinalPost
  BY <1>8 DEF Sems!FinalPost
<1>9. CASE Sems!TakePermit
  BY <1>9 DEF Sems!TakePermit
<1>10. CASE Sems!ConsumerLock
  BY <1>10 DEF Sems!ConsumerLock
<1>11. CASE Sems!read_data_line
  BY <1>11 DEF Sems!read_data_line
<1>12. CASE Sems!Reap
  BY <1>12 DEF Sems!Reap
<1>13. CASE Sems!UnlinkSem
  BY <1>13 DEF Sems!UnlinkSem, Sems!Unlink
<1>14. CASE Sems!UnlinkEmpty
  BY <1>14 DEF Sems!UnlinkEmpty, Sems!Unlink
<1>15. CASE Sems!Interrupt
  BY <1>15 DEF Sems!Interrupt, Sems!cleanup
<1>16. CASE Sems!Kill
  BY <1>16 DEF Sems!Kill
<1>17. CASE UNCHANGED semVars
  BY <1>17 DEF semVars
<1> QED
  BY <1>1, <1>2, <1>3, <1>4, <1>5, <1>6, <1>7, <1>8, <1>9, <1>10, <1>11, <1>12, <1>13, <1>14,
     <1>15, <1>16, <1>17, <1>p, <1>c DEF Sems!Next

\* A start is refused only after a run that was killed or gave up, a run that nobody
\* interrupts has read every line when it ends, and a producer that ends by itself
\* leaves no consumer asleep (RunsAreWhole; sem.c:88-104, 106-124, 130-157).
THEOREM RunsWhole == ProgramsSpec => []RunsAreWhole
<1>1. SemsInv => RunsAreWhole
  <2> SUFFICES ASSUME SemsInv  PROVE Sems!RunsAreWhole
    BY DEF RunsAreWhole
  <2> USE DEF SemsInv, SemsTypeOK
  <2>1. main = "refused" => given_up
    BY DEF NamesInv
  <2>2. ~hit /\ main \in AtEnd => prod = "done" /\ lines_read = MAX_LINES /\ in_file = MAX_LINES
    BY DEF CountInv
  <2>3. ASSUME main = "wait", empty = 0  PROVE prod # "done"
    <3>1. SUFFICES ASSUME prod = "done"  PROVE FALSE
      OBVIOUS
    <3>2. ~hit
      BY <2>3, <3>1 DEF CountInv, Reading
    <3>3. lines_read = MAX_LINES + 1 /\ in_file = MAX_LINES
      BY <2>3, <3>1, <3>2, SizesAssumption DEF CountInv, Reading, Spent, Finished
    <3> QED
      BY <2>3, <3>2, <3>3, SizesAssumption DEF CountInv, Reading
  <2> QED
    BY <2>1, <2>2, <2>3 DEF Sems!RunsAreWhole, AtEnd
<1>2. Start => SemsInv
  BY SemsInit DEF Start
<1>3. SemsInv /\ [Turn /\ Others /\ UNCHANGED program]_allVars => SemsInv'
  BY EveryStep, SemsNext
<1> QED
  BY <1>1, <1>2, <1>3, PTL DEF ProgramsSpec

-----------------------------------------------------------------------------
(* The LED module of module5/task3 and its timer.                          *)
Shown == Leds!ALL_LEDS_OFF..Leds!ALL_LEDS_ON

LedsTypeOK ==
  /\ module \in {"loaded", "attribute gone", "timer taken back", "unloaded"}
  /\ timer \in {"armed", "idle"} /\ func \in {"no", "entered", "shown"}
  /\ led \in Shown /\ _kbledstatus \in Shown /\ leds \in Shown \union {Leds!RESTORE_LEDS}
  /\ overtaken \in BOOLEAN

\* A timer that was taken back while its function was not running stays away ...
TakenBackInv ==
  module \in {"timer taken back", "unloaded"} /\ ~overtaken => timer = "idle" /\ func = "no"
\* ... so nothing is shown after the LEDs have been given back.
GivenBackInv == module = "unloaded" /\ ~overtaken => leds = Leds!RESTORE_LEDS

LedsInv == LedsTypeOK /\ TakenBackInv /\ GivenBackInv

\* The invariant holds when the module has been loaded.
LEMMA LedsInit == Leds!Init => LedsInv
<1> SUFFICES ASSUME Leds!Init PROVE LedsInv
  OBVIOUS
<1>1. 0 \in Shown
  BY DEF Shown, Leds!ALL_LEDS_OFF, Leds!ALL_LEDS_ON
<1>2. LedsTypeOK
  BY <1>1 DEF Leds!Init, LedsTypeOK
<1>3. TakenBackInv /\ GivenBackInv
  BY DEF Leds!Init, TakenBackInv, GivenBackInv
<1> QED
  BY <1>2, <1>3 DEF LedsInv

\* Each step keeps it: one case for each action (kbleds.c:50-59, 84-103, 134-141).
LEMMA LedsNext ==
  ASSUME LedsInv, [Leds!Next]_ledVars
  PROVE  LedsInv'
<1>0. Leds!ALL_LEDS_OFF \in Shown
  BY DEF Shown, Leds!ALL_LEDS_OFF, Leds!ALL_LEDS_ON
<1> USE DEF LedsInv, LedsTypeOK, TakenBackInv, GivenBackInv
<1>1. ASSUME NEW n \in Written, Leds!led_store(n)
      PROVE  LedsInv'
  <2>1. led' = IF n \in Shown THEN n ELSE led
    BY <1>1 DEF Leds!led_store, Shown
  <2> QED
    BY <1>1, <2>1 DEF Leds!led_store
<1>2. CASE Leds!Expire
  BY <1>0, <1>2 DEF Leds!Expire
<1>3. CASE Leds!Show
  BY <1>3 DEF Leds!Show
<1>4. CASE Leds!AddTimer
  BY <1>4 DEF Leds!AddTimer
<1>5. CASE Leds!sys_exit
  BY <1>5 DEF Leds!sys_exit
<1>6. CASE Leds!del_timer
  BY <1>6 DEF Leds!del_timer
<1>7. CASE Leds!Restore
  BY <1>7 DEF Leds!Restore
<1>8. CASE UNCHANGED ledVars
  BY <1>8 DEF ledVars
<1> QED
  BY <1>1, <1>2, <1>3, <1>4, <1>5, <1>6, <1>7, <1>8 DEF Leds!Next

-----------------------------------------------------------------------------
(* The character device of module5/task4 and rmmod.                        *)
Steps == {"out", "open", "claimed", "in", "released", "leaving"}
Inside == {p \in Procs : step[p] \in {"claimed", "in"}}

DeviceTypeOK ==
  /\ step \in [Procs -> Steps]
  /\ already_open \in BOOLEAN /\ overtaken_call \in BOOLEAN
  /\ module_state \in {"live", "going", "gone"}
  /\ holding \subseteq Procs

\* already_open says whether somebody is inside, and then it is one process.
ExclusiveInv ==
  /\ already_open => \E p \in Procs : Inside = {p}
  /\ ~already_open => Inside = {}

\* Who is past try_module_get in a live module holds it; so all are out when rmmod
\* finds no holder, unless somebody is in module code without being counted.
HolderInv ==
  /\ module_state = "live" => \A p \in Procs : step[p] \in {"in", "released"} => p \in holding
  /\ module_state # "live" /\ ~overtaken_call => \A p \in Procs : step[p] = "out"

DeviceInv == DeviceTypeOK /\ ExclusiveInv /\ HolderInv

\* The invariant holds when the module has been loaded.
LEMMA DeviceInit == Device!Init => DeviceInv
  BY DEF Device!Init, DeviceInv, DeviceTypeOK, ExclusiveInv, HolderInv, Inside, Steps

\* Each step keeps it: one case for each action that moves a process or the module
\* (chardev.c:57-93); reads and writes leave them alone.
LEMMA DeviceNext ==
  ASSUME DeviceInv, [Device!Next]_devVars
  PROVE  DeviceInv'
<1> USE DEF DeviceInv, DeviceTypeOK, Steps
<1>1. ASSUME NEW p \in Procs, NEW n \in Texts, Device!CallOpen(p, n)
      PROVE  DeviceInv'
  <2> USE <1>1 DEF Device!CallOpen, Device!Goes
  <2>1. DeviceTypeOK'
    OBVIOUS
  <2>2. Inside' = Inside
    BY DEF Inside
  <2>3. ExclusiveInv'
    BY <2>2 DEF ExclusiveInv
  <2>4. HolderInv'
    BY DEF HolderInv
  <2> QED
    BY <2>1, <2>3, <2>4
<1>2. ASSUME NEW p \in Procs, Device!Claim(p)
      PROVE  DeviceInv'
  <2> USE <1>2 DEF Device!Claim, Device!atomic_cmpxchg, Device!Goes
  <2>1. DeviceTypeOK'
    OBVIOUS
  <2>2. CASE already_open
    <3>1. Inside' = Inside
      BY <2>2 DEF Inside
    <3> QED
      BY <2>1, <2>2, <3>1 DEF ExclusiveInv, HolderInv
  <2>3. CASE ~already_open
    <3>1. Inside' = Inside \union {p}
      BY <2>3 DEF Inside
    <3>2. ExclusiveInv'
      BY <2>3, <3>1 DEF ExclusiveInv
    <3>3. HolderInv'
      BY <2>3 DEF HolderInv
    <3> QED
      BY <2>1, <3>2, <3>3
  <2> QED
    BY <2>2, <2>3
<1>3. ASSUME NEW p \in Procs, Device!Opened(p)
      PROVE  DeviceInv'
  <2> USE <1>3 DEF Device!Opened, Device!try_module_get, Device!Goes
  <2>1. DeviceTypeOK'
    OBVIOUS
  <2>2. Inside' = Inside
    BY DEF Inside
  <2>3. ExclusiveInv'
    BY <2>2 DEF ExclusiveInv
  <2>4. HolderInv'
    BY DEF HolderInv
  <2> QED
    BY <2>1, <2>3, <2>4
<1>4. ASSUME NEW p \in Procs, Device!Release(p)
      PROVE  DeviceInv'
  <2> USE <1>4 DEF Device!Release, Device!Goes
  <2>1. DeviceTypeOK'
    OBVIOUS
  <2>2. p \in Inside /\ Inside' = Inside \ {p}
    BY DEF Inside
  <2>3. ExclusiveInv'
    BY <2>2 DEF ExclusiveInv
  <2>4. HolderInv'
    BY DEF HolderInv
  <2> QED
    BY <2>1, <2>3, <2>4
<1>5. ASSUME NEW p \in Procs, Device!module_put(p)
      PROVE  DeviceInv'
  <2> USE <1>5 DEF Device!module_put, Device!Goes
  <2>1. DeviceTypeOK'
    OBVIOUS
  <2>2. Inside' = Inside
    BY DEF Inside
  <2>3. ExclusiveInv'
    BY <2>2 DEF ExclusiveInv
  <2>4. HolderInv'
    BY DEF HolderInv
  <2> QED
    BY <2>1, <2>3, <2>4
<1>r. ASSUME NEW p \in Procs, Device!Return(p)
      PROVE  DeviceInv'
  <2> USE <1>r DEF Device!Return, Device!Goes
  <2>1. DeviceTypeOK'
    OBVIOUS
  <2>2. Inside' = Inside
    BY DEF Inside
  <2>3. ExclusiveInv'
    BY <2>2 DEF ExclusiveInv
  <2>4. HolderInv'
    BY DEF HolderInv
  <2> QED
    BY <2>1, <2>3, <2>4
<1>6. CASE UNCHANGED <<already_open, step, holding, module_state, overtaken_call>>
  BY <1>6 DEF ExclusiveInv, HolderInv, Inside
<1>7. CASE Device!StopModule
  <2> USE <1>7 DEF Device!StopModule
  <2>1. DeviceTypeOK'
    OBVIOUS
  <2>2. Inside' = Inside
    BY DEF Inside
  <2>3. HolderInv'
    BY DEF HolderInv, Device!Uncounted
  <2> QED
    BY <2>1, <2>2, <2>3 DEF ExclusiveInv
<1>8. CASE Device!chardev_exit
  BY <1>8 DEF Device!chardev_exit, ExclusiveInv, HolderInv, Inside
<1> QED
  BY <1>1, <1>2, <1>3, <1>4, <1>5, <1>r, <1>6, <1>7, <1>8
     DEF Device!Next, Device!device_write, Device!device_read, Device!ReadsTheEnd, devVars

\* The LED module leaves no timer and no LEDs, unless its timer function ran while
\* the timer was taken back, and the device module is not removed under a process
\* that has the device or runs in it, unless rmmod overlaps a call of open() or the
\* return from a release; one process at a time is in (UnloadIsClean; kbleds.c:91-102, 134-141, chardev.c:57-93).
THEOREM CleanUnload == ProgramsSpec => []UnloadIsClean
<1>1. LedsInv => Leds!UnloadIsClean
  BY DEF LedsInv, LedsTypeOK, TakenBackInv, GivenBackInv, Leds!UnloadIsClean, Shown
<1>2. ASSUME DeviceInv PROVE Device!UnloadIsClean
  <2>1. Cardinality({}) = 0
    BY FS_EmptySet
  <2>2. \A p \in Procs : Cardinality({p}) = 1
    BY FS_Singleton
  <2>3. Device!Cardinality(Inside) = Cardinality(Inside)
    BY DEF Device!Cardinality, Cardinality
  <2>5. Cardinality(Inside) = IF already_open THEN 1 ELSE 0
    BY <1>2, <2>1, <2>2 DEF DeviceInv, ExclusiveInv
  <2>4. module_state = "gone" /\ ~overtaken_call => \A p \in Procs : step[p] = "out"
    BY <1>2 DEF DeviceInv, HolderInv
  <2> QED
    BY <2>3, <2>4, <2>5 DEF Device!UnloadIsClean, Inside
<1>3. Start => LedsInv /\ DeviceInv
  BY LedsInit, DeviceInit DEF Start
<1>4. LedsInv /\ DeviceInv /\ [Turn /\ Others /\ UNCHANGED program]_allVars
        => LedsInv' /\ DeviceInv'
  BY EveryStep, LedsNext, DeviceNext
<1>5. LedsInv /\ DeviceInv => UnloadIsClean
  BY <1>1, <1>2 DEF UnloadIsClean
<1> QED
  BY <1>3, <1>4, <1>5, PTL DEF ProgramsSpec
-----------------------------------------------------------------------------
(* The UDP chat of module3/12: an address in two halves, and no lock.      *)

\* The address is whole but while it is stored; sendto() that does not overlap a
\* recvfrom() reads the halves of one.
ChatInv ==
  /\ other_addr \in [ip : Chat!Addresses, port : Chat!Addresses]
  /\ recv_thread \in Chat!Addresses \union {"recvfrom", "cancelled"}
  /\ IF Chat!Storing THEN other_addr.ip = recv_thread ELSE other_addr = Chat!Whole(latest)
  /\ Chat!Sending /\ ~raced => /\ ~Chat!Storing /\ send_thread = seen
                              /\ other_addr = Chat!Whole(seen)
  /\ ~Chat!Sending /\ ~raced => target = Chat!Whole(seen)

\* At first everything is for the peer.
LEMMA ChatInit == Chat!Init => ChatInv
BY AddressesAssumption DEF Chat!Init, ChatInv, Chat!Addresses, Chat!Whole, Chat!Storing, Chat!Sending

\* Every step of the two threads keeps that (udp_client.c:7-39).
LEMMA ChatNext ==
  ASSUME ChatInv, [Chat!Next]_chatVars
  PROVE  ChatInv'
<1> DEFINE A == Chat!Addresses
<1>1. /\ "recvfrom" \notin A /\ "cancelled" \notin A /\ "fgets" \notin A /\ "quit" \notin A
  BY AddressesAssumption DEF Chat!Addresses
<1>2. /\ other_addr \in [ip : A, port : A] /\ recv_thread \in A \union {"recvfrom", "cancelled"}
      /\ recv_thread \in A => other_addr.ip = recv_thread
      /\ recv_thread \notin A => other_addr = [ip |-> latest, port |-> latest]
      /\ send_thread \in A /\ ~raced => /\ recv_thread \notin A /\ send_thread = seen
                                       /\ other_addr = [ip |-> seen, port |-> seen]
      /\ send_thread \notin A /\ ~raced => target = [ip |-> seen, port |-> seen]
  BY DEF ChatInv, Chat!Storing, Chat!Sending, Chat!Whole
<1> HIDE DEF A
<1> SUFFICES
      /\ other_addr' \in [ip : A, port : A] /\ recv_thread' \in A \union {"recvfrom", "cancelled"}
      /\ recv_thread' \in A => other_addr'.ip = recv_thread'
      /\ recv_thread' \notin A => other_addr' = [ip |-> latest', port |-> latest']
      /\ send_thread' \in A /\ ~raced' => /\ recv_thread' \notin A /\ send_thread' = seen'
                                         /\ other_addr' = [ip |-> seen', port |-> seen']
      /\ send_thread' \notin A /\ ~raced' => target' = [ip |-> seen', port |-> seen']
  BY DEF ChatInv, Chat!Storing, Chat!Sending, Chat!Whole, A, Chat!Addresses
<1>3. ASSUME NEW a \in A, Chat!ReceiveFrom(a)
      PROVE  /\ other_addr' \in [ip : A, port : A] /\ other_addr'.ip = a /\ recv_thread' = a
             /\ raced' = (raced \/ send_thread \in A)
             /\ UNCHANGED <<send_thread, target, seen>>
  BY <1>2, <1>3 DEF Chat!ReceiveFrom, Chat!Store, Chat!Sending, A
<1>4. CASE Chat!receive_messages
  BY <1>1, <1>2, <1>4 DEF Chat!receive_messages, Chat!Store, Chat!Storing, A
<1>5. CASE Chat!SendTo
  <2>1. /\ send_thread = "fgets" /\ send_thread' = other_addr.ip /\ seen' = latest
        /\ UNCHANGED <<other_addr, recv_thread, latest, target>>
    BY <1>5 DEF Chat!SendTo
  <2>2. raced' <=> recv_thread \in A
    BY <1>5 DEF Chat!SendTo, Chat!Storing, A
  <2>3. send_thread' \in A
    BY <1>2, <2>1
  <2>4. CASE recv_thread \in A
    BY <1>2, <2>1, <2>2, <2>3, <2>4
  <2>5. CASE recv_thread \notin A
    <3>1. send_thread' = latest
      BY <1>2, <2>1, <2>5
    <3> QED
      BY <1>2, <2>1, <2>2, <2>3, <2>5, <3>1
  <2> QED
    BY <2>4, <2>5
<1>6. CASE Chat!send_messages
  BY <1>1, <1>2, <1>6 DEF Chat!send_messages, Chat!Sending, A
<1>7. CASE Chat!Quit
  BY <1>1, <1>2, <1>7 DEF Chat!Quit
<1>8. CASE UNCHANGED chatVars
  BY <1>2, <1>8 DEF chatVars
<1> QED
  BY <1>2, <1>3, <1>4, <1>5, <1>6, <1>7, <1>8 DEF Chat!Next, A

\* What is typed goes to the whole address of whoever was heard last before
\* sendto(), unless recvfrom and sendto overlap (udp_client.c:7-8, 38-39).
THEOREM GoesToOneAddress == ProgramsSpec => []GoesToTheLatest
<1>1. ChatInv => GoesToTheLatest
  BY DEF ChatInv, GoesToTheLatest, Chat!GoesToTheLatest
<1>2. Start => ChatInv
  BY ChatInit DEF Start
<1>3. ChatInv /\ [Turn /\ Others /\ UNCHANGED program]_allVars => ChatInv'
  BY EveryStep, ChatNext
<1> QED
  BY <1>1, <1>2, <1>3, PTL DEF ProgramsSpec
-----------------------------------------------------------------------------
(* The signal counter of module3/05: handlers on top of each other.        *)
HandlerPlaces == {"count", "print", "test", "close", "SIGINT", "SIGQUIT"}
Handlers == [sig : Signal!Signals, at : HandlerPlaces]
\* The places of the handlers that run.
HandlersAt == {frames[i].at : i \in DOMAIN frames}

SignalTypes ==
  /\ file \in {"none", "open", "closed"}
  /\ frames \in Seq(Handlers) /\ counter \in Nat /\ closings \in Nat /\ nested \in BOOLEAN
  /\ disposition \in [Signal!Signals -> {"handler", "SIG_DFL"}]

\* Whoever writes or closes has seen a file; it is closed by fclose alone, after the
\* third SIGINT; what is written to a closed file is undefined.
FileInv ==
  /\ begun = "loop" => file # "none"
  /\ HandlersAt \intersect {"test", "close", "SIGINT", "SIGQUIT"} # {} => file # "none"
  /\ file = "closed" \/ process = "crashed" => closings > 0
  /\ "close" \in HandlersAt \/ closings > 0 => counter > 2
  /\ HandlersAt \intersect {"SIGINT", "SIGQUIT"} # {} => closings > 0

\* When the file was closed each signal has its default action, or a handler that
\* runs will give it.
RestoreInv == closings > 0 =>
  /\ disposition["SIGINT"] = "SIG_DFL" \/ "SIGINT" \in HandlersAt
  /\ disposition["SIGQUIT"] = "SIG_DFL" \/ HandlersAt \intersect {"SIGINT", "SIGQUIT"} # {}

\* While no handler has interrupted the other, the third SIGINT is the last that is
\* counted.
AloneInv == ~nested =>
  /\ Len(frames) <= 1 /\ closings <= 1 /\ counter <= 3
  /\ frames = << >> /\ closings = 0 => counter <= 2
  /\ "count" \in HandlersAt => counter <= 2
  /\ HandlersAt \intersect {"count", "print", "test", "close"} # {} => closings = 0

SignalInv == SignalTypes /\ FileInv /\ RestoreInv /\ AloneInv

\* Nothing has come yet.
LEMMA SignalInit == Signal!Init => SignalInv
<1> SUFFICES ASSUME Signal!Init PROVE SignalInv
  OBVIOUS
<1>1. /\ frames = << >> /\ counter = 0 /\ begun = "test" /\ file = "none"
      /\ disposition = [s \in Signal!Signals |-> "handler"]
      /\ process = "alive" /\ closings = 0 /\ nested = FALSE
  BY DEF Signal!Init
<1>2. HandlersAt = {} /\ << >> \in Seq(Handlers)
  BY <1>1 DEF HandlersAt
<1> QED
  <2>1. SignalTypes
    <3>1. disposition \in [Signal!Signals -> {"handler", "SIG_DFL"}]
      BY <1>1
    <3>2. nested \in BOOLEAN
      BY <1>1
    <3> QED
      BY <1>1, <1>2, <3>1, <3>2 DEF SignalTypes
  <2>2. FileInv
    BY <1>1, <1>2 DEF FileInv
  <2>3. RestoreInv
    BY <1>1 DEF RestoreInv
  <2>4. AloneInv
    <3>1. Len(frames) = 0
      BY <1>1
    <3> QED
      BY <1>1, <1>2, <3>1 DEF AloneInv
  <2> QED
    BY <2>1, <2>2, <2>3, <2>4 DEF SignalInv

\* A handler begins.
LEMMA Pushed ==
  ASSUME frames \in Seq(Handlers), NEW s \in Signal!Signals,
         frames' = <<[sig |-> s, at |-> "count"]>> \o frames
  PROVE  /\ frames' \in Seq(Handlers) /\ frames' # << >> /\ Len(frames') = Len(frames) + 1
         /\ HandlersAt' = HandlersAt \union {"count"}
<1> DEFINE h == [sig |-> s, at |-> "count"]
<1>1. h \in Handlers /\ h.at = "count"
  BY DEF Handlers, HandlerPlaces
<1> HIDE DEF h
<1>2. <<h>> \in Seq(Handlers) /\ Len(<<h>>) = 1 /\ <<h>>[1] = h /\ frames' = <<h>> \o frames
  BY <1>1 DEF h
<1>3. /\ frames' \in Seq(Handlers) /\ Len(frames) \in Nat /\ Len(frames') = 1 + Len(frames)
      /\ DOMAIN frames' = 1..(1 + Len(frames)) /\ DOMAIN frames = 1..Len(frames)
  BY <1>2
<1>4. /\ frames'[1] = h
      /\ \A i \in 1..Len(frames) : frames'[1 + i] = frames[i]
  BY <1>2
<1>5. \A k \in DOMAIN frames' : k = 1 \/ (k - 1 \in DOMAIN frames /\ 1 + (k - 1) = k)
  BY <1>3
<1>6. \A k \in DOMAIN frames' : k = 1 \/ frames'[k] = frames[k - 1]
  BY <1>3, <1>4, <1>5
<1>7. HandlersAt' \subseteq HandlersAt \union {"count"}
  BY <1>1, <1>4, <1>5, <1>6 DEF HandlersAt
<1>8. 1 \in DOMAIN frames' /\ \A i \in DOMAIN frames : 1 + i \in DOMAIN frames'
  BY <1>3
<1>9. HandlersAt \union {"count"} \subseteq HandlersAt'
  <2>1. "count" \in HandlersAt'
    BY <1>1, <1>4, <1>8 DEF HandlersAt
  <2>2. ASSUME NEW i \in DOMAIN frames PROVE frames[i].at \in HandlersAt'
    <3>1. 1 + i \in DOMAIN frames' /\ frames'[1 + i] = frames[i]
      BY <1>3, <1>4, <1>8
    <3> QED
      BY <3>1 DEF HandlersAt
  <2> QED
    BY <2>1, <2>2 DEF HandlersAt
<1> QED
  BY <1>3, <1>7, <1>9

\* The innermost handler goes on.
LEMMA Moved ==
  ASSUME frames \in Seq(Handlers), NEW old, NEW place \in HandlerPlaces,
         Signal!At(old), Signal!GoTo(place)
  PROVE  /\ frames' \in Seq(Handlers) /\ frames' # << >> /\ Len(frames') = Len(frames)
         /\ old \in HandlersAt /\ place \in HandlersAt'
         /\ HandlersAt' \subseteq HandlersAt \union {place} /\ HandlersAt \ {old} \subseteq HandlersAt'
         /\ Len(frames) <= 1 => HandlersAt = {old} /\ HandlersAt' = {place}
<1>1. frames # << >> /\ frames[1].at = old /\ frames' = [frames EXCEPT ![1].at = place]
  BY DEF Signal!At, Signal!GoTo
<1>2. /\ Len(frames) \in Nat \ {0} /\ DOMAIN frames = 1..Len(frames) /\ 1 \in DOMAIN frames
      /\ \A k \in DOMAIN frames : frames[k] \in Handlers
  BY <1>1
<1> DEFINE h == [frames[1] EXCEPT !.at = place]
<1>3. h \in Handlers /\ h.at = place
  BY <1>2 DEF Handlers
<1>4. frames' = [frames EXCEPT ![1] = h]
  BY <1>1
<1> HIDE DEF h
<1>5. /\ frames' \in Seq(Handlers) /\ Len(frames') = Len(frames) /\ DOMAIN frames' = DOMAIN frames
      /\ frames'[1] = h /\ \A k \in DOMAIN frames \ {1} : frames'[k] = frames[k]
  BY <1>2, <1>3, <1>4
<1>6. Len(frames) <= 1 => DOMAIN frames = {1}
  BY <1>2
<1> QED
  BY <1>1, <1>2, <1>3, <1>5, <1>6 DEF HandlersAt

\* The innermost handler returns.
LEMMA Popped ==
  ASSUME frames \in Seq(Handlers), NEW old, Signal!At(old), frames' = Tail(frames)
  PROVE  /\ frames' \in Seq(Handlers) /\ Len(frames') = Len(frames) - 1 /\ Len(frames') \in Nat
         /\ old \in HandlersAt
         /\ HandlersAt' \subseteq HandlersAt /\ HandlersAt \ {old} \subseteq HandlersAt'
         /\ Len(frames) <= 1 => HandlersAt = {old} /\ HandlersAt' = {} /\ frames' = << >>
<1>1. frames # << >> /\ frames[1].at = old
  BY DEF Signal!At
<1>2. /\ Len(frames) \in Nat \ {0} /\ DOMAIN frames = 1..Len(frames) /\ 1 \in DOMAIN frames
      /\ frames' \in Seq(Handlers) /\ Len(frames') = Len(frames) - 1
      /\ DOMAIN frames' = 1..(Len(frames) - 1)
      /\ \A k \in 1..(Len(frames) - 1) : frames'[k] = frames[k + 1]
  BY <1>1
<1>3. \A k \in DOMAIN frames' : k + 1 \in DOMAIN frames /\ frames'[k] = frames[k + 1]
  BY <1>2
<1>4. \A k \in DOMAIN frames : k = 1 \/ (k - 1 \in DOMAIN frames' /\ (k - 1) + 1 = k)
  BY <1>2
<1>5. HandlersAt' \subseteq HandlersAt
  BY <1>3 DEF HandlersAt
<1>6. HandlersAt \ {old} \subseteq HandlersAt'
  <2> SUFFICES ASSUME NEW k \in DOMAIN frames, frames[k].at # old PROVE frames[k].at \in HandlersAt'
    BY DEF HandlersAt
  <2>1. k - 1 \in DOMAIN frames' /\ (k - 1) + 1 = k
    BY <1>1, <1>4
  <2>2. frames'[k - 1] = frames[k]
    BY <1>3, <2>1
  <2> QED
    BY <2>1, <2>2 DEF HandlersAt
<1>7. Len(frames) <= 1 => DOMAIN frames = {1} /\ frames' = << >> /\ DOMAIN frames' = {}
  BY <1>2
<1> QED
  <2>1. old \in HandlersAt
    BY <1>1, <1>2 DEF HandlersAt
  <2>2. Len(frames) <= 1 => HandlersAt = {old} /\ HandlersAt' = {}
    BY <1>1, <1>7 DEF HandlersAt
  <2> QED
    BY <1>2, <1>5, <1>6, <1>7, <2>1, <2>2

\* Every step keeps the invariant (signal.c:11-60).
LEMMA SignalNext ==
  ASSUME SignalInv, [Signal!Next]_sigVars
  PROVE  SignalInv'
<1>0. SignalTypes /\ FileInv /\ RestoreInv /\ AloneInv
  BY DEF SignalInv
<1>1. /\ frames \in Seq(Handlers) /\ counter \in Nat /\ closings \in Nat /\ nested \in BOOLEAN
      /\ disposition \in [Signal!Signals -> {"handler", "SIG_DFL"}] /\ Len(frames) \in Nat
      /\ file \in {"none", "open", "closed"}
  BY <1>0 DEF SignalTypes
\* Nothing but the place of main(), the file when it was none, and the process change.
<1>2. ASSUME UNCHANGED <<frames, counter, disposition, closings, nested>>,
             begun' = "loop" => file' # "none", file # "none" => file' # "none",
             file' = "closed" => file = "closed", file' \in {"none", "open", "closed"},
             process' = "crashed" => process = "crashed" \/ file = "closed"
      PROVE  SignalInv'
  <2>1. HandlersAt' = HandlersAt
    BY <1>2 DEF HandlersAt
  <2>2. FileInv'
    BY <1>0, <1>2, <2>1 DEF FileInv
  <2>3. SignalTypes'
    BY <1>0, <1>2 DEF SignalTypes
  <2> QED
    BY <1>0, <1>2, <2>1, <2>2, <2>3 DEF SignalInv, RestoreInv, AloneInv
<1>3. ASSUME NEW s \in Signal!Signals, Signal!Deliver(s) PROVE SignalInv'
  <2>1. process = "alive" /\ UNCHANGED <<counter, begun, file, disposition, closings>>
    BY <1>3 DEF Signal!Deliver
  <2>2. CASE process' = "killed" /\ UNCHANGED <<frames, nested>>
    BY <1>0, <1>2, <1>1, <2>1, <2>2 DEF FileInv
  <2>3. CASE /\ disposition[s] # "SIG_DFL"
             /\ frames' = <<[sig |-> s, at |-> "count"]>> \o frames
             /\ nested' = (nested \/ frames # << >>) /\ process' = process
    <3>1. /\ frames' \in Seq(Handlers) /\ frames' # << >> /\ Len(frames') = Len(frames) + 1
          /\ HandlersAt' = HandlersAt \union {"count"}
      BY <1>1, <2>3, Pushed
    <3>2. nested' \in BOOLEAN /\ (~nested' => ~nested /\ frames = << >>)
      BY <1>1, <2>3
    <3>3. SignalTypes' /\ FileInv' /\ RestoreInv'
      BY <1>0, <1>1, <2>1, <2>3, <3>1, <3>2 DEF SignalTypes, FileInv, RestoreInv
    <3>4. AloneInv'
      <4>1. frames = << >> => HandlersAt = {} /\ Len(frames) = 0
        BY DEF HandlersAt
      <4>2. frames = << >> => closings = 0
        <5>1. s = "SIGINT" \/ s = "SIGQUIT"
          BY DEF Signal!Signals
        <5> QED
          BY <1>0, <1>1, <2>3, <4>1, <5>1 DEF RestoreInv
      <4> QED
        BY <1>0, <1>1, <2>1, <3>1, <3>2, <4>1, <4>2 DEF AloneInv
    <3> QED
      BY <3>3, <3>4 DEF SignalInv
  <2> QED
    BY <1>3, <2>2, <2>3 DEF Signal!Deliver
<1>4. CASE Signal!TestFile
  BY <1>0, <1>2, <1>1, <1>4 DEF Signal!TestFile, FileInv
<1>5. CASE Signal!OpenFile
  BY <1>0, <1>2, <1>1, <1>5 DEF Signal!OpenFile
<1>6. CASE Signal!PrintNumber
  <2>1. /\ begun = "loop" /\ UNCHANGED <<frames, counter, begun, file, disposition, closings, nested>>
        /\ process' \in (IF file = "open" THEN {"alive"} ELSE {"alive", "crashed"})
    BY <1>6 DEF Signal!PrintNumber, Signal!Undefined
  <2>2. file # "none" /\ (process' = "crashed" => closings > 0)
    BY <1>0, <1>1, <2>1 DEF FileInv
  <2>3. HandlersAt' = HandlersAt
    BY <2>1 DEF HandlersAt
  <2>4. FileInv'
    BY <1>0, <2>1, <2>2, <2>3 DEF FileInv
  <2> QED
    BY <1>0, <2>1, <2>3, <2>4 DEF SignalInv, SignalTypes, RestoreInv, AloneInv
<1>7. CASE Signal!Count
  <2>1. /\ Signal!At("count") /\ Signal!GoTo("print")
        /\ counter' = (IF frames[1].sig = "SIGINT" THEN counter + 1 ELSE counter)
        /\ UNCHANGED <<begun, file, disposition, process, closings, nested>>
    BY <1>7 DEF Signal!Count
  <2>2. counter' \in {counter, counter + 1}
    BY <2>1
  <2>3. /\ frames' \in Seq(Handlers) /\ frames' # << >> /\ Len(frames') = Len(frames)
        /\ "count" \in HandlersAt /\ "print" \in HandlersAt'
        /\ HandlersAt' \subseteq HandlersAt \union {"print"} /\ HandlersAt \ {"count"} \subseteq HandlersAt'
        /\ Len(frames) <= 1 => HandlersAt = {"count"} /\ HandlersAt' = {"print"}
    BY <1>1, <2>1, Moved DEF HandlerPlaces
  <2>4. SignalTypes' /\ RestoreInv'
    BY <1>0, <1>1, <2>1, <2>2, <2>3 DEF SignalTypes, RestoreInv
  <2>5. FileInv'
    BY <1>0, <1>1, <2>1, <2>2, <2>3 DEF FileInv
  <2>6. AloneInv'
    BY <1>0, <1>1, <2>1, <2>2, <2>3 DEF AloneInv
  <2> QED
    BY <2>4, <2>5, <2>6 DEF SignalInv
<1>8. CASE Signal!OpenInHandler
  BY <1>0, <1>2, <1>1, <1>8 DEF Signal!OpenInHandler
<1>9. CASE Signal!PrintSignal
  <2>1. /\ Signal!At("print") /\ Signal!GoTo("test") /\ file # "none"
        /\ process' \in (IF file = "open" THEN {"alive"} ELSE {"alive", "crashed"})
        /\ UNCHANGED <<counter, begun, file, disposition, closings, nested>>
    BY <1>9 DEF Signal!PrintSignal, Signal!Undefined
  <2>2. /\ frames' \in Seq(Handlers) /\ frames' # << >> /\ Len(frames') = Len(frames)
        /\ "print" \in HandlersAt /\ "test" \in HandlersAt'
        /\ HandlersAt' \subseteq HandlersAt \union {"test"} /\ HandlersAt \ {"print"} \subseteq HandlersAt'
        /\ Len(frames) <= 1 => HandlersAt = {"print"} /\ HandlersAt' = {"test"}
    BY <1>1, <2>1, Moved DEF HandlerPlaces
  <2>3. file' \in {"none", "open", "closed"} /\ file' = file
    BY <1>0, <2>1 DEF SignalTypes
  <2>4. process' = "crashed" => closings > 0
    BY <1>0, <2>1, <2>3 DEF FileInv
  <2>5. FileInv'
    BY <1>0, <1>1, <2>1, <2>2, <2>4 DEF FileInv
  <2>6. SignalTypes' /\ RestoreInv'
    BY <1>0, <1>1, <2>1, <2>2 DEF SignalTypes, RestoreInv
  <2>7. AloneInv'
    BY <1>0, <1>1, <2>1, <2>2 DEF AloneInv
  <2> QED
    BY <2>5, <2>6, <2>7 DEF SignalInv
<1>10. CASE Signal!Test
  <2>1. /\ Signal!At("test") /\ UNCHANGED <<counter, begun, file, disposition, process, closings, nested>>
    BY <1>10 DEF Signal!Test
  <2>2. CASE counter > 2 /\ Signal!GoTo("close")
    <3>1. /\ frames' \in Seq(Handlers) /\ frames' # << >> /\ Len(frames') = Len(frames)
          /\ "test" \in HandlersAt /\ "close" \in HandlersAt'
          /\ HandlersAt' \subseteq HandlersAt \union {"close"} /\ HandlersAt \ {"test"} \subseteq HandlersAt'
          /\ Len(frames) <= 1 => HandlersAt = {"test"} /\ HandlersAt' = {"close"}
      BY <1>1, <2>1, <2>2, Moved DEF HandlerPlaces
    <3>2. FileInv'
      BY <1>0, <1>1, <2>1, <2>2, <3>1 DEF FileInv
    <3>3. SignalTypes' /\ RestoreInv'
      BY <1>0, <1>1, <2>1, <3>1 DEF SignalTypes, RestoreInv
    <3>4. AloneInv'
      BY <1>0, <1>1, <2>1, <3>1 DEF AloneInv
    <3> QED
      BY <3>2, <3>3, <3>4 DEF SignalInv
  <2>3. CASE ~(counter > 2) /\ frames' = Tail(frames)
    <3>1. /\ frames' \in Seq(Handlers) /\ Len(frames') = Len(frames) - 1 /\ Len(frames') \in Nat
          /\ "test" \in HandlersAt
          /\ HandlersAt' \subseteq HandlersAt /\ HandlersAt \ {"test"} \subseteq HandlersAt'
          /\ Len(frames) <= 1 => HandlersAt = {"test"} /\ HandlersAt' = {} /\ frames' = << >>
      BY <1>1, <2>1, <2>3, Popped
    <3>2. FileInv'
      BY <1>0, <1>1, <2>1, <3>1 DEF FileInv
    <3>3. SignalTypes' /\ RestoreInv'
      BY <1>0, <1>1, <2>1, <3>1 DEF SignalTypes, RestoreInv
    <3>4. AloneInv'
      BY <1>0, <1>1, <2>1, <2>3, <3>1 DEF AloneInv
    <3> QED
      BY <3>2, <3>3, <3>4 DEF SignalInv
  <2> QED
    BY <1>10, <2>2, <2>3 DEF Signal!Test
<1>11. CASE Signal!Close
  <2>1. /\ Signal!At("close") /\ Signal!GoTo("SIGINT") /\ file' = "closed" /\ closings' = closings + 1
        /\ UNCHANGED <<counter, begun, disposition, nested>>
    BY <1>11 DEF Signal!Close
  <2>2. /\ frames' \in Seq(Handlers) /\ frames' # << >> /\ Len(frames') = Len(frames)
        /\ "close" \in HandlersAt /\ "SIGINT" \in HandlersAt'
        /\ HandlersAt' \subseteq HandlersAt \union {"SIGINT"} /\ HandlersAt \ {"close"} \subseteq HandlersAt'
        /\ Len(frames) <= 1 => HandlersAt = {"close"} /\ HandlersAt' = {"SIGINT"}
    BY <1>1, <2>1, Moved DEF HandlerPlaces
  <2>3. closings' > 0 /\ closings' \in Nat
    BY <1>1, <2>1
  <2>4. FileInv'
    BY <1>0, <2>1, <2>2, <2>3 DEF FileInv
  <2>5. SignalTypes' /\ RestoreInv'
    BY <1>0, <1>1, <2>1, <2>2, <2>3 DEF SignalTypes, RestoreInv
  <2>6. AloneInv'
    BY <1>0, <1>1, <2>1, <2>2 DEF AloneInv
  <2> QED
    BY <2>4, <2>5, <2>6 DEF SignalInv
<1>12. ASSUME NEW s \in Signal!Signals, Signal!RestoreDefault(s) PROVE SignalInv'
  <2>1. /\ Signal!At(s) /\ disposition' = [disposition EXCEPT ![s] = "SIG_DFL"]
        /\ s = "SIGINT" \/ s = "SIGQUIT"
        /\ UNCHANGED <<counter, begun, file, process, closings, nested>>
    BY <1>12 DEF Signal!RestoreDefault, Signal!Restore, Signal!Signals
  <2>2. /\ disposition' \in [Signal!Signals -> {"handler", "SIG_DFL"}] /\ disposition'[s] = "SIG_DFL"
        /\ \A t \in Signal!Signals : disposition[t] = "SIG_DFL" => disposition'[t] = "SIG_DFL"
        /\ "SIGINT" \in Signal!Signals /\ "SIGQUIT" \in Signal!Signals
    BY <1>1, <2>1 DEF Signal!Signals
  <2>3. CASE s = "SIGINT"
    <3>0. Signal!GoTo("SIGQUIT")
      BY <1>12, <2>3 DEF Signal!RestoreDefault
    <3>1. /\ frames' \in Seq(Handlers) /\ frames' # << >> /\ Len(frames') = Len(frames)
          /\ "SIGINT" \in HandlersAt /\ "SIGQUIT" \in HandlersAt'
          /\ HandlersAt' \subseteq HandlersAt \union {"SIGQUIT"}
          /\ HandlersAt \ {"SIGINT"} \subseteq HandlersAt'
          /\ Len(frames) <= 1 => HandlersAt = {"SIGINT"} /\ HandlersAt' = {"SIGQUIT"}
      BY <1>1, <2>1, <2>3, <3>0, Moved DEF HandlerPlaces
    <3>2. FileInv'
      BY <1>0, <1>1, <2>1, <3>1 DEF FileInv
    <3>3. SignalTypes' /\ RestoreInv'
      BY <1>0, <1>1, <2>1, <2>2, <2>3, <3>1 DEF SignalTypes, RestoreInv
    <3>4. AloneInv'
      BY <1>0, <1>1, <2>1, <3>1 DEF AloneInv
    <3> QED
      BY <3>2, <3>3, <3>4 DEF SignalInv
  <2>4. CASE s = "SIGQUIT"
    <3>0. frames' = Tail(frames)
      BY <1>12, <2>4 DEF Signal!RestoreDefault
    <3>1. /\ frames' \in Seq(Handlers) /\ Len(frames') = Len(frames) - 1 /\ Len(frames') \in Nat
          /\ "SIGQUIT" \in HandlersAt
          /\ HandlersAt' \subseteq HandlersAt /\ HandlersAt \ {"SIGQUIT"} \subseteq HandlersAt'
          /\ Len(frames) <= 1 => HandlersAt = {"SIGQUIT"} /\ HandlersAt' = {} /\ frames' = << >>
      BY <1>1, <2>1, <2>4, <3>0, Popped
    <3>2. FileInv'
      BY <1>0, <1>1, <2>1, <3>1 DEF FileInv
    <3>3. SignalTypes' /\ RestoreInv'
      BY <1>0, <1>1, <2>1, <2>2, <2>4, <3>1 DEF SignalTypes, RestoreInv
    <3>4. closings > 0
      BY <1>0, <3>1 DEF FileInv
    <3>5. AloneInv'
      BY <1>0, <1>1, <2>1, <3>1, <3>4 DEF AloneInv
    <3> QED
      BY <3>2, <3>3, <3>5 DEF SignalInv
  <2> QED
    BY <2>1, <2>3, <2>4
<1>13. CASE UNCHANGED sigVars
  BY <1>0, <1>2, <1>1, <1>13 DEF sigVars, FileInv
<1> QED
  BY <1>3, <1>4, <1>5, <1>6, <1>7, <1>8, <1>9, <1>10, <1>11, <1>12, <1>13 DEF Signal!Next

\* The third SIGINT closes the file, once, unless a handler interrupted the other,
\* and the signals that come after the handler have their default action
\* (ClosedAtTheThird; signal.c:11-37), however many signals come.
THEOREM ThirdCloses == ProgramsSpec => []ClosedAtTheThird
<1>1. SignalInv => ClosedAtTheThird
  <2> SUFFICES ASSUME SignalInv PROVE Signal!ClosedAtTheThird
    BY DEF ClosedAtTheThird
  <2>1. counter \in Nat /\ closings \in Nat /\ (frames = << >> => HandlersAt = {})
    BY DEF SignalInv, SignalTypes, HandlersAt
  <2>2. closings > 0 => counter >= 3
    BY <2>1 DEF SignalInv, FileInv
  <2>3. closings > 1 \/ counter > 3 => nested
    BY <2>1 DEF SignalInv, AloneInv
  <2>4. process = "crashed" => closings > 0
    BY DEF SignalInv, FileInv
  <2>5. closings > 0 /\ frames = << >> => \A s \in Signal!Signals : disposition[s] = "SIG_DFL"
    BY <2>1 DEF SignalInv, RestoreInv, Signal!Signals
  <2> QED
    BY <2>2, <2>3, <2>4, <2>5 DEF Signal!ClosedAtTheThird
<1>2. Start => SignalInv
  BY SignalInit DEF Start
<1>3. SignalInv /\ [Turn /\ Others /\ UNCHANGED program]_allVars => SignalInv'
  BY EveryStep, SignalNext
<1> QED
  BY <1>1, <1>2, <1>3, PTL DEF ProgramsSpec
-----------------------------------------------------------------------------
(* Ping-pong over one POSIX queue, module3/07.                             *)
Notes == [from : Ping!Both, text : {"line", "exit"}]
Wheres == [Ping!Both -> {"send", "recv", "asleep", "ended"}]
PingTypes == where \in Wheres /\ mq \in Seq(Notes) /\ handed \in [Ping!Both -> Seq(Notes)]

Unhanded == \A P \in Ping!Both : handed[P] = << >>
NobodyTypes == \A P \in Ping!Both : where[P] # "send"

\* One message is sent and not yet taken; whoever has sent "exit" has gone.
OneNote == \E note \in Notes :
  /\ note.text = "exit" => where[note.from] = "ended"
  /\ \/ mq = <<note>> /\ Unhanded
     \/ /\ mq = << >>
        /\ \E P \in Ping!Both : /\ handed[P] = <<note>>
                               /\ \A X \in Ping!Both \ {P} : handed[X] = << >>

\* There is one turn, of a process or under way, until an input ends or a process
\* is killed.
TurnsInv == began_empty =>
  \/ /\ NobodyTypes /\ mq = << >> /\ Unhanded
     /\ (\A P \in Ping!Both : where[P] = "ended") \/ silent # {} \/ killed
  \/ /\ mq = << >> /\ Unhanded
     /\ \E P \in Ping!Both : where[P] = "send" /\ \A X \in Ping!Both \ {P} : where[X] # "send"
  \/ NobodyTypes /\ OneNote

PingInv == PingTypes /\ TurnsInv

\* The queue does not exist yet.
LEMMA PingInit == Ping!Init => PingInv
<1> SUFFICES ASSUME Ping!Init PROVE PingInv
  OBVIOUS
<1>1. << >> \in Seq(Notes)
  OBVIOUS
<1>2. PingTypes
  BY <1>1 DEF Ping!Init, PingTypes, Wheres
<1>3. TurnsInv
  BY DEF Ping!Init, TurnsInv
<1> QED
  BY <1>2, <1>3 DEF PingInv

\* P takes the message m, the only one there is.
LEMMA TakenInv ==
  ASSUME PingTypes, NEW P \in Ping!Both, NEW m \in Notes, Ping!Take(P, m),
         where[P] \in {"recv", "asleep"}, mq' \in Seq(Notes), handed' \in [Ping!Both -> Seq(Notes)],
         began_empty => /\ NobodyTypes /\ (m.text = "exit" => where[m.from] = "ended")
                        /\ mq' = << >> /\ Unhanded',
         UNCHANGED <<began_empty, silent, killed>>
  PROVE  PingInv'
<1>1. where' = [where EXCEPT ![P] = IF m.text = "exit" THEN "ended" ELSE "send"]
  BY DEF Ping!Take
<1>2. /\ where' \in Wheres /\ where'[P] = (IF m.text = "exit" THEN "ended" ELSE "send")
      /\ \A X \in Ping!Both \ {P} : where'[X] = where[X]
  BY <1>1 DEF PingTypes, Wheres
<1>3. TurnsInv'
  <2> SUFFICES ASSUME began_empty
               PROVE  \/ NobodyTypes' /\ \A X \in Ping!Both : where'[X] = "ended"
                      \/ where'[P] = "send" /\ \A X \in Ping!Both \ {P} : where'[X] # "send"
    BY DEF TurnsInv
  <2>1. CASE m.text = "exit"
    <3>1. where[m.from] = "ended" /\ m.from \in Ping!Both \ {P}
      BY <2>1 DEF Notes
    <3>2. Ping!Both = {P, m.from}
      BY <3>1 DEF Ping!Both
    <3> QED
      BY <1>2, <2>1, <3>1, <3>2 DEF NobodyTypes
  <2>2. CASE m.text # "exit"
    BY <1>2, <2>2 DEF NobodyTypes
  <2> QED
    BY <2>1, <2>2
<1> QED
  BY <1>2, <1>3 DEF PingInv, PingTypes

\* Nothing is sent or taken, and nobody who has gone comes back or gets a turn.
LEMMA NothingSent ==
  ASSUME PingInv, where' \in Wheres, UNCHANGED <<mq, handed, began_empty>>,
         \A P \in Ping!Both : /\ where[P] = "ended" => where'[P] = "ended"
                              /\ where'[P] = "send" => where[P] = "send",
         \/ \A P \in Ping!Both : where'[P] = "ended"
         \/ silent' # {} \/ killed'
         \/ (\A P \in Ping!Both : where'[P] # "send" => where[P] # "send")
              /\ UNCHANGED <<silent, killed>>
  PROVE  PingInv'
<1>1. PingTypes'
  BY DEF PingInv, PingTypes
<1>2. TurnsInv'
  <2> SUFFICES ASSUME began_empty PROVE TurnsInv'
    BY DEF TurnsInv
  <2>1. Unhanded' = Unhanded
    BY DEF Unhanded
  <2>2. NobodyTypes => NobodyTypes'
    BY DEF NobodyTypes
  <2>3. CASE /\ NobodyTypes /\ mq = << >> /\ Unhanded
             /\ (\A P \in Ping!Both : where[P] = "ended") \/ silent # {} \/ killed
    BY <2>1, <2>2, <2>3 DEF TurnsInv
  <2>4. ASSUME mq = << >>, Unhanded,
               NEW P \in Ping!Both, where[P] = "send", \A X \in Ping!Both \ {P} : where[X] # "send"
        PROVE  TurnsInv'
    <3>1. \A X \in Ping!Both \ {P} : where'[X] # "send"
      BY <2>4
    <3>2. CASE where'[P] = "send"
      BY <2>1, <2>4, <3>1, <3>2 DEF TurnsInv
    <3>3. CASE where'[P] # "send"
      <4>1. NobodyTypes'
        BY <3>1, <3>3 DEF NobodyTypes
      <4> QED
        BY <2>1, <2>4, <3>3, <4>1 DEF TurnsInv
    <3> QED
      BY <3>2, <3>3
  <2>5. CASE NobodyTypes /\ OneNote
    <3>1. OneNote'
      BY <2>1, <2>5 DEF OneNote, Notes
    <3> QED
      BY <2>2, <2>5, <3>1 DEF TurnsInv
  <2> QED
    BY <2>3, <2>4, <2>5 DEF PingInv, TurnsInv
<1> QED
  BY <1>1, <1>2 DEF PingInv

\* Every step keeps the invariant (posix_queue_chat.c:22-101).
LEMMA PingNext ==
  ASSUME PingInv, [Ping!Next]_pingVars
  PROVE  PingInv'
<1>0. /\ where \in Wheres /\ mq \in Seq(Notes) /\ handed \in [Ping!Both -> Seq(Notes)] /\ TurnsInv
      /\ PingTypes
  BY DEF PingInv, PingTypes
<1>1. << >> \in Seq(Notes)
  OBVIOUS
<1>2. CASE Ping!Start
  <2>1. /\ where' = [Ping |-> "send", Pong |-> "recv"] /\ mq' = (IF named THEN mq ELSE << >>)
        /\ handed' = [P \in Ping!Both |-> << >>]
    BY <1>2 DEF Ping!Start
  <2>2. began_empty' => mq' = << >>
    BY <1>2 DEF Ping!Start
  <2>3. /\ where' \in Wheres /\ where'["Ping"] = "send" /\ where'["Pong"] # "send"
    BY <2>1 DEF Wheres, Ping!Both
  <2>4. mq' \in Seq(Notes) /\ handed' \in [Ping!Both -> Seq(Notes)] /\ Unhanded'
    BY <1>0, <1>1, <2>1 DEF Unhanded
  <2>5. \E P \in Ping!Both : where'[P] = "send" /\ \A X \in Ping!Both \ {P} : where'[X] # "send"
    BY <2>3 DEF Ping!Both
  <2> QED
    BY <2>2, <2>3, <2>4, <2>5 DEF PingInv, PingTypes, TurnsInv
<1>3. ASSUME NEW P \in Ping!Both, NEW line \in {"line", "exit"}, Ping!send_message(P, line)
      PROVE  PingInv'
  <2> DEFINE Q == Ping!Other(P)
             m == [from |-> P, text |-> line]
  <2>1. /\ where[P] = "send" /\ where' = [where EXCEPT ![P] = IF line = "exit" THEN "ended" ELSE "recv"]
        /\ UNCHANGED began_empty
        /\ \/ handed' = [handed EXCEPT ![Q] = <<m>>] /\ mq' = mq
           \/ mq' = Append(mq, m) /\ handed' = handed
    BY <1>3 DEF Ping!send_message
  <2>2. m \in Notes /\ m.from = P /\ m.text = line /\ Q \in Ping!Both
    BY DEF Notes, Ping!Both, Ping!Other
  <2> HIDE DEF m, Q
  <2>3. <<m>> \in Seq(Notes) /\ Append(<< >>, m) = <<m>>
    BY <2>2
  <2>4. /\ where' \in Wheres /\ where'[P] = (IF line = "exit" THEN "ended" ELSE "recv")
        /\ \A X \in Ping!Both \ {P} : where'[X] = where[X]
    BY <1>0, <2>1 DEF Wheres
  <2>5. mq' \in Seq(Notes) /\ handed' \in [Ping!Both -> Seq(Notes)]
    <3>1. <<m>> \in Seq(Notes) /\ Append(mq, m) \in Seq(Notes)
      BY <1>0, <2>2
    <3>2. [handed EXCEPT ![Q] = <<m>>] \in [Ping!Both -> Seq(Notes)]
      BY <1>0, <2>2, <3>1
    <3> QED
      BY <1>0, <2>1, <3>1, <3>2
  <2>6. ASSUME began_empty
        PROVE  mq = << >> /\ Unhanded /\ \A X \in Ping!Both \ {P} : where[X] # "send"
    BY <1>0, <2>1, <2>6 DEF TurnsInv, NobodyTypes
  <2>7. ASSUME began_empty
        PROVE  \/ mq' = <<m>> /\ Unhanded'
               \/ /\ mq' = << >> /\ handed'[Q] = <<m>>
                  /\ \A X \in Ping!Both \ {Q} : handed'[X] = << >>
    <3>1. CASE handed' = [handed EXCEPT ![Q] = <<m>>] /\ mq' = mq
      BY <1>0, <2>2, <2>6, <2>7, <3>1 DEF Unhanded
    <3>2. CASE mq' = Append(mq, m) /\ handed' = handed
      BY <2>3, <2>6, <2>7, <3>2 DEF Unhanded
    <3> QED
      BY <2>1, <3>1, <3>2
  <2>8. ASSUME began_empty PROVE NobodyTypes'
    BY <2>4, <2>6, <2>8 DEF NobodyTypes
  <2>9. m.text = "exit" => where'[m.from] = "ended"
    BY <2>2, <2>4
  <2>10. ASSUME began_empty PROVE OneNote'
    BY <2>2, <2>7, <2>9, <2>10 DEF OneNote
  <2> QED
    BY <2>1, <2>4, <2>5, <2>8, <2>10 DEF PingInv, PingTypes, TurnsInv
<1>4. ASSUME NEW P \in Ping!Both, Ping!SendNothing(P) PROVE PingInv'
  <2>1. /\ where[P] = "send" /\ where' = [where EXCEPT ![P] = "recv"] /\ silent' = silent \union {P}
        /\ UNCHANGED <<mq, handed, began_empty>>
    BY <1>4 DEF Ping!SendNothing
  <2>2. /\ where' \in Wheres /\ where'[P] = "recv"
        /\ \A X \in Ping!Both \ {P} : where'[X] = where[X]
    BY <1>0, <2>1 DEF Wheres
  <2>3. silent' # {}
    BY <2>1
  <2>4. \A X \in Ping!Both : /\ where[X] = "ended" => where'[X] = "ended"
                             /\ where'[X] = "send" => where[X] = "send"
    BY <2>1, <2>2
  <2> QED
    BY <2>1, <2>2, <2>3, <2>4, NothingSent
<1>5. ASSUME NEW P \in Ping!Both, Ping!Kill(P) PROVE PingInv'
  <2>1. /\ where' = [where EXCEPT ![P] = "ended"] /\ killed' = TRUE
        /\ UNCHANGED <<mq, handed, began_empty>>
    BY <1>5 DEF Ping!Kill
  <2>2. /\ where' \in Wheres /\ where'[P] = "ended"
        /\ \A X \in Ping!Both \ {P} : where'[X] = where[X]
    BY <1>0, <2>1 DEF Wheres
  <2>3. \A X \in Ping!Both : /\ where[X] = "ended" => where'[X] = "ended"
                             /\ where'[X] = "send" => where[X] = "send"
    BY <2>2
  <2> QED
    BY <2>1, <2>2, <2>3, NothingSent
<1>6. CASE Ping!sigint_handler
  <2>1. where' = [P \in Ping!Both |-> "ended"] /\ UNCHANGED <<mq, handed, began_empty>>
    BY <1>6 DEF Ping!sigint_handler
  <2>2. where' \in Wheres /\ \A P \in Ping!Both : where'[P] = "ended"
    BY <2>1 DEF Wheres
  <2>3. \A X \in Ping!Both : /\ where[X] = "ended" => where'[X] = "ended"
                             /\ where'[X] = "send" => where[X] = "send"
    BY <2>2
  <2> QED
    BY <2>1, <2>2, <2>3, NothingSent
<1>7. ASSUME NEW P \in Ping!Both, Ping!recieve_message(P) PROVE PingInv'
  <2>1. where[P] = "recv" /\ UNCHANGED <<handed, began_empty, silent, killed>>
    BY <1>7 DEF Ping!recieve_message
  <2>2. CASE where' = [where EXCEPT ![P] = "asleep"] /\ mq' = mq
    <3>1. /\ where' \in Wheres /\ where'[P] = "asleep"
          /\ \A X \in Ping!Both \ {P} : where'[X] = where[X]
      BY <1>0, <2>2 DEF Wheres
    <3>2. \A X \in Ping!Both : /\ where[X] = "ended" => where'[X] = "ended"
                               /\ where'[X] = "send" <=> where[X] = "send"
      BY <2>1, <3>1
    <3> QED
      BY <2>1, <2>2, <3>1, <3>2, NothingSent
  <2>3. CASE mq # << >> /\ Ping!Take(P, Head(mq)) /\ mq' = Tail(mq)
    <3>1. Head(mq) \in Notes /\ mq' \in Seq(Notes)
      BY <1>0, <2>3
    <3>2. ASSUME began_empty
          PROVE  /\ NobodyTypes /\ (Head(mq).text = "exit" => where[Head(mq).from] = "ended")
                 /\ mq' = << >> /\ Unhanded'
      <4>1. NobodyTypes /\ OneNote
        BY <1>0, <2>3, <3>2 DEF TurnsInv
      <4>2. PICK note \in Notes : /\ note.text = "exit" => where[note.from] = "ended"
                                  /\ mq = <<note>> /\ Unhanded
        BY <2>3, <4>1 DEF OneNote
      <4>3. Head(mq) = note /\ mq' = << >>
        BY <2>3, <4>2
      <4> QED
        BY <2>1, <4>1, <4>2, <4>3 DEF Unhanded
    <3> QED
      BY <1>0, <2>1, <2>3, <3>1, <3>2, TakenInv
  <2> QED
    BY <1>7, <2>2, <2>3 DEF Ping!recieve_message
<1>8. ASSUME NEW P \in Ping!Both, Ping!Wake(P) PROVE PingInv'
  <2>1. /\ where[P] = "asleep" /\ handed[P] # << >> /\ Ping!Take(P, Head(handed[P]))
        /\ handed' = [handed EXCEPT ![P] = << >>] /\ UNCHANGED <<mq, began_empty, silent, killed>>
    BY <1>8 DEF Ping!Wake
  <2>2. /\ handed' \in [Ping!Both -> Seq(Notes)] /\ handed'[P] = << >>
        /\ \A X \in Ping!Both \ {P} : handed'[X] = handed[X]
    BY <1>0, <1>1, <2>1
  <2>3. Head(handed[P]) \in Notes
    <3>1. handed[P] \in Seq(Notes)
      BY <1>0
    <3> QED
      BY <2>1, <3>1
  <2>4. ASSUME began_empty
        PROVE  /\ NobodyTypes
               /\ Head(handed[P]).text = "exit" => where[Head(handed[P]).from] = "ended"
               /\ mq' = << >> /\ Unhanded'
    <3>1. NobodyTypes /\ OneNote
      BY <1>0, <2>1, <2>4 DEF TurnsInv, Unhanded
    <3>2. PICK note \in Notes :
            /\ note.text = "exit" => where[note.from] = "ended"
            /\ mq = << >>
            /\ \E X \in Ping!Both : /\ handed[X] = <<note>>
                                   /\ \A Y \in Ping!Both \ {X} : handed[Y] = << >>
      BY <2>1, <3>1 DEF OneNote, Unhanded
    <3>3. handed[P] = <<note>> /\ \A Y \in Ping!Both \ {P} : handed[Y] = << >>
      BY <2>1, <3>2
    <3>4. Head(handed[P]) = note
      BY <3>3
    <3> QED
      BY <2>1, <2>2, <3>1, <3>2, <3>3, <3>4 DEF Unhanded
  <2> QED
    BY <1>0, <2>1, <2>2, <2>3, <2>4, TakenInv
<1>9. CASE UNCHANGED pingVars
  <2>1. UNCHANGED <<where, mq, handed, began_empty, silent, killed>>
    BY <1>9 DEF pingVars
  <2> QED
    BY <1>0, <2>1 DEF PingInv, PingTypes, TurnsInv, OneNote, Unhanded, NobodyTypes
<1> QED
  BY <1>2, <1>3, <1>4, <1>5, <1>6, <1>7, <1>8, <1>9 DEF Ping!Next, Ping!Moves

\* Of four numbers of which at most one is 1 and the others are 0.
LEMMA OneOfFour ==
  ASSUME NEW a, NEW b, NEW c, NEW d
  PROVE  /\ a = 0 /\ b = 0 /\ c = 0 /\ d = 0 => a + b + c + d = 0
         /\ a = 1 /\ b = 0 /\ c = 0 /\ d = 0 => a + b + c + d = 1
         /\ a = 0 /\ b = 1 /\ c = 0 /\ d = 0 => a + b + c + d = 1
         /\ a = 0 /\ b = 0 /\ c = 1 /\ d = 0 => a + b + c + d = 1
         /\ a = 0 /\ b = 0 /\ c = 0 /\ d = 1 => a + b + c + d = 1
  OBVIOUS

\* In a run that began with an empty queue there is one turn, somebody's or under
\* way, also when a process takes its own message and types again, and none only after
\* the end of an input or a kill (OneTurn; posix_queue_chat.c:22-61, 92-101), for any
\* number of runs.
THEOREM OneTurnAtATime == ProgramsSpec => []OneTurn
<1>1. PingInv => OneTurn
  <2> SUFFICES ASSUME PingInv, began_empty, \E P \in Ping!Both : where[P] # "ended"
               PROVE  LET turns == Cardinality({P \in Ping!Both : where[P] = "send"}) + Len(mq)
                                     + Len(handed["Ping"]) + Len(handed["Pong"])
                      IN turns <= 1 /\ (turns = 0 => silent # {} \/ killed)
    <3>1. \A S : Ping!Cardinality(S) = Cardinality(S)
      BY DEF Ping!Cardinality, Cardinality
    <3> QED
      BY <3>1 DEF OneTurn, Ping!OneTurn
  <2> DEFINE S == {P \in Ping!Both : where[P] = "send"}
  <2>0. /\ Len(<< >>) = 0 /\ (\A note : Len(<<note>>) = 1) /\ Cardinality({}) = 0
        /\ \A P : Cardinality({P}) = 1
    BY FS_EmptySet, FS_Singleton
  <2> HIDE DEF S
  <2>1. CASE /\ NobodyTypes /\ mq = << >> /\ Unhanded
             /\ (\A P \in Ping!Both : where[P] = "ended") \/ silent # {} \/ killed
    <3>1. S = {} /\ handed["Ping"] = << >> /\ handed["Pong"] = << >> /\ mq = << >>
      BY <2>1 DEF S, NobodyTypes, Unhanded, Ping!Both
    <3>2. /\ Cardinality(S) = 0 /\ Len(mq) = 0 /\ Len(handed["Ping"]) = 0
          /\ Len(handed["Pong"]) = 0
      BY <2>0, <3>1, Zenon
    <3>3. Cardinality(S) + Len(mq) + Len(handed["Ping"]) + Len(handed["Pong"]) = 0
      BY <3>2, OneOfFour
    <3>4. \E P \in Ping!Both : where[P] # "ended"
      OBVIOUS
    <3>5. silent # {} \/ killed
      BY <2>1, <3>4
    <3> QED
      BY <3>3, <3>5 DEF S
  <2>2. ASSUME mq = << >>, Unhanded, NEW P \in Ping!Both, where[P] = "send",
               \A X \in Ping!Both \ {P} : where[X] # "send"
        PROVE  Cardinality(S) + Len(mq) + Len(handed["Ping"]) + Len(handed["Pong"]) = 1
    <3>1. S = {P} /\ handed["Ping"] = << >> /\ handed["Pong"] = << >>
      BY <2>2 DEF S, Unhanded, Ping!Both
    <3>2. /\ Cardinality(S) = 1 /\ Len(mq) = 0 /\ Len(handed["Ping"]) = 0
          /\ Len(handed["Pong"]) = 0
      BY <2>0, <2>2, <3>1, Zenon
    <3> QED
      BY <3>2, OneOfFour
  <2>3. CASE NobodyTypes /\ OneNote
    <3>1. S = {}
      BY <2>3 DEF S, NobodyTypes
    <3>2. PICK note \in Notes :
            \/ mq = <<note>> /\ handed["Ping"] = << >> /\ handed["Pong"] = << >>
            \/ mq = << >> /\ handed["Ping"] = <<note>> /\ handed["Pong"] = << >>
            \/ mq = << >> /\ handed["Ping"] = << >> /\ handed["Pong"] = <<note>>
      BY <2>3 DEF OneNote, Unhanded, Ping!Both
    <3>3. /\ Cardinality(S) = 0
          /\ \/ Len(mq) = 1 /\ Len(handed["Ping"]) = 0 /\ Len(handed["Pong"]) = 0
             \/ Len(mq) = 0 /\ Len(handed["Ping"]) = 1 /\ Len(handed["Pong"]) = 0
             \/ Len(mq) = 0 /\ Len(handed["Ping"]) = 0 /\ Len(handed["Pong"]) = 1
      <4>1. Cardinality(S) = 0
        BY <2>0, <3>1, Zenon
      <4>2. CASE mq = <<note>> /\ handed["Ping"] = << >> /\ handed["Pong"] = << >>
        BY <2>0, <4>1, <4>2, Zenon
      <4>3. CASE mq = << >> /\ handed["Ping"] = <<note>> /\ handed["Pong"] = << >>
        BY <2>0, <4>1, <4>3, Zenon
      <4>4. CASE mq = << >> /\ handed["Ping"] = << >> /\ handed["Pong"] = <<note>>
        BY <2>0, <4>1, <4>4, Zenon
      <4> QED
        BY <3>2, <4>2, <4>3, <4>4
    <3>4. Cardinality(S) + Len(mq) + Len(handed["Ping"]) + Len(handed["Pong"]) = 1
      <4>1. CASE Len(mq) = 1 /\ Len(handed["Ping"]) = 0 /\ Len(handed["Pong"]) = 0
        BY <3>3, <4>1, OneOfFour
      <4>2. CASE Len(mq) = 0 /\ Len(handed["Ping"]) = 1 /\ Len(handed["Pong"]) = 0
        BY <3>3, <4>2, OneOfFour
      <4>3. CASE Len(mq) = 0 /\ Len(handed["Ping"]) = 0 /\ Len(handed["Pong"]) = 1
        BY <3>3, <4>3, OneOfFour
      <4> QED
        BY <3>3, <4>1, <4>2, <4>3
    <3> QED
      BY <3>4 DEF S
  <2> QED
    BY <2>1, <2>2, <2>3 DEF S, PingInv, TurnsInv
<1>2. Start => PingInv
  BY PingInit DEF Start
<1>3. PingInv /\ [Turn /\ Others /\ UNCHANGED program]_allVars => PingInv'
  BY EveryStep, PingNext
<1> QED
  BY <1>1, <1>2, <1>3, PTL DEF ProgramsSpec
-----------------------------------------------------------------------------
(* Messages of the proc file of module5/task2.                             *)
ProcTypes ==
  /\ len \in Nat /\ len < PROCFS_MAX_SIZE /\ temp \in Int /\ given \in Nat
  /\ parts \in Nat /\ reached \in Nat
  /\ call \in [Callers -> {"none", "read", "taken", "write", "stored"}]
  /\ count \in [Callers -> Nat] /\ loaded \in [Callers -> Int]
  /\ overlapped \in BOOLEAN /\ beyond \in BOOLEAN
  /\ \A c \in Callers : call[c] = "write" => count[c] < PROCFS_MAX_SIZE

\* While no calls overlap, what is given and what is left are the message together,
\* from one rewind to the next, and a reader is about to take what is there.
ReadersInv == ~overlapped =>
  /\ temp >= 0 /\ ~beyond
  /\ \A c, d \in Callers : call[c] # "none" /\ call[d] # "none" => c = d
  /\ (\A c \in Callers : call[c] # "stored") => given + temp = len
  /\ \A c \in Callers : /\ call[c] = "read" => loaded[c] = temp /\ count[c] <= temp
                        /\ call[c] = "taken" => count[c] <= given

\* As long as no calls overlap, the longest of several parts is shorter than they are
\* together, and one part by itself is all that was given.
Summed(g) == /\ parts = 0 => g = 0 /\ reached = 0
             /\ parts = 1 => g = reached
             /\ parts > 0 => 0 < reached /\ reached <= g
             /\ parts > 1 => reached < g
PartsInv == ~overlapped =>
  /\ (\A c \in Callers : call[c] # "taken") => Summed(given)
  /\ \A c \in Callers : call[c] = "taken" => Summed(given - count[c])

ProcInv == ProcTypes /\ ReadersInv /\ PartsInv

\* The invariant holds when the module has been loaded.
LEMMA ProcInit == Proc!Init => ProcInv
<1> SUFFICES ASSUME Proc!Init PROVE ProcInv
  OBVIOUS
<1>1. ProcTypes
  <2>1. /\ len = 0 /\ temp = 0 /\ given = 0 /\ parts = 0 /\ reached = 0
        /\ call = [c \in Callers |-> "none"]
        /\ overlapped = FALSE /\ beyond = FALSE
    BY DEF Proc!Init
  <2>2. count \in [Callers -> Nat] /\ loaded \in [Callers -> Int]
    BY DEF Proc!Init
  <2>3. /\ call \in [Callers -> {"none", "read", "taken", "write", "stored"}]
        /\ \A c \in Callers : call[c] = "none"
    BY <2>1
  <2>4. len \in Nat /\ len < PROCFS_MAX_SIZE /\ temp \in Int /\ given \in Nat /\ parts \in Nat
        /\ reached \in Nat
    BY <2>1, BuffersAssumption
  <2>5. overlapped \in BOOLEAN /\ beyond \in BOOLEAN
    BY <2>1
  <2> QED
    BY <2>2, <2>3, <2>4, <2>5 DEF ProcTypes
<1>2. ReadersInv
  BY DEF Proc!Init, ReadersInv
<1>3. PartsInv
  BY DEF Proc!Init, PartsInv, Summed
<1> QED
  BY <1>1, <1>2, <1>3 DEF ProcInv

\* Each step keeps it (proc.c:14-35).
LEMMA ProcNext ==
  ASSUME ProcInv, [Proc!Next]_procVars
  PROVE  ProcInv'
<1>0. ProcTypes /\ ReadersInv /\ PartsInv
  BY DEF ProcInv
<1>1. ASSUME NEW c \in Callers, NEW n \in Counts, Proc!read_proc(c, n) PROVE ProcInv'
  <2>1. /\ call[c] = "none" /\ call' = [call EXCEPT ![c] = "read"]
        /\ count' = [count EXCEPT ![c] = Proc!limited(n)]
        /\ overlapped' = (overlapped \/ \E d \in Callers : call[d] # "none")
        /\ loaded' = [loaded EXCEPT ![c] = temp]
        /\ UNCHANGED <<len, temp, given, parts, reached, beyond>>
    BY <1>1 DEF Proc!read_proc, Proc!Begin
  <2>2. Proc!limited(n) \in Nat /\ (temp >= 0 => Proc!limited(n) <= temp)
    BY <1>0, BuffersAssumption DEF Proc!limited, ProcTypes
  <2>3. ProcTypes'
    BY <1>0, <2>1, <2>2 DEF ProcTypes
  <2>4. ReadersInv'
    BY <1>0, <2>1, <2>2 DEF ProcTypes, ReadersInv
  <2>5. PartsInv'
    BY <1>0, <2>1 DEF ProcTypes, ReadersInv, PartsInv, Summed
  <2> QED
    BY <2>3, <2>4, <2>5 DEF ProcInv
<1>2. ASSUME NEW c \in Callers, NEW n \in Counts, Proc!write_proc(c, n) PROVE ProcInv'
  <2> DEFINE m == IF n < PROCFS_MAX_SIZE - 1 THEN n ELSE PROCFS_MAX_SIZE - 1
  <2>1. /\ call[c] = "none" /\ call' = [call EXCEPT ![c] = "write"]
        /\ count' = [count EXCEPT ![c] = m]
        /\ overlapped' = (overlapped \/ \E d \in Callers : call[d] # "none")
        /\ UNCHANGED <<len, temp, loaded, given, parts, reached, beyond>>
    BY <1>2 DEF Proc!write_proc, Proc!Begin
  <2>2. m \in Nat /\ m < PROCFS_MAX_SIZE
    BY BuffersAssumption
  <2> HIDE DEF m
  <2>3. ProcTypes'
    BY <1>0, <2>1, <2>2 DEF ProcTypes
  <2>4. ReadersInv'
    BY <1>0, <2>1, <2>2 DEF ProcTypes, ReadersInv
  <2>5. PartsInv'
    BY <1>0, <2>1 DEF ProcTypes, ReadersInv, PartsInv, Summed
  <2> QED
    BY <2>3, <2>4, <2>5 DEF ProcInv
<1>3. ASSUME NEW c \in Callers, Proc!Take(c) PROVE ProcInv'
  <2>1. /\ call[c] = "read" /\ call' = [call EXCEPT ![c] = "taken"]
        /\ temp' = loaded[c] - count[c] \/ temp' = temp - count[c]
        /\ given' = given + count[c]
        /\ UNCHANGED <<len, count, loaded, parts, reached, beyond, overlapped>>
    BY <1>3 DEF Proc!Take, Proc!Goes
  <2>3. ProcTypes'
    BY <1>0, <2>1 DEF ProcTypes
  <2>4. ReadersInv'
    BY <1>0, <2>1 DEF ProcTypes, ReadersInv
  <2>5. PartsInv'
    BY <1>0, <2>1 DEF ProcTypes, ReadersInv, PartsInv, Summed
  <2> QED
    BY <2>3, <2>4, <2>5 DEF ProcInv
<1>4. ASSUME NEW c \in Callers, Proc!Copy(c) PROVE ProcInv'
  <2>1. /\ call[c] = "taken" /\ call' = [call EXCEPT ![c] = "none"]
        /\ beyond' = (beyond \/ count[c] > len)
        /\ IF count[c] = 0 THEN temp' = len /\ given' = 0 /\ parts' = 0 /\ reached' = 0
           ELSE /\ parts' = parts + 1
                /\ reached' = (IF reached < count[c] THEN count[c] ELSE reached)
                /\ UNCHANGED <<temp, given>>
        /\ UNCHANGED <<len, count, loaded, overlapped>>
    BY <1>4 DEF Proc!Copy, Proc!Goes, Proc!Rewound
  <2>3. ProcTypes'
    BY <1>0, <2>1 DEF ProcTypes
  <2>4. ReadersInv'
    BY <1>0, <2>1 DEF ProcTypes, ReadersInv
  <2>5. PartsInv'
    BY <1>0, <2>1 DEF ProcTypes, ReadersInv, PartsInv, Summed
  <2> QED
    BY <2>3, <2>4, <2>5 DEF ProcInv
<1>5. ASSUME NEW c \in Callers, Proc!SetLen(c) PROVE ProcInv'
  <2>1. /\ call[c] = "write" /\ call' = [call EXCEPT ![c] = "stored"] /\ len' = count[c]
        /\ UNCHANGED <<temp, count, loaded, given, parts, reached, beyond, overlapped>>
    BY <1>5 DEF Proc!SetLen, Proc!Goes
  <2>3. ProcTypes'
    BY <1>0, <2>1 DEF ProcTypes
  <2>4. ReadersInv'
    BY <1>0, <2>1 DEF ProcTypes, ReadersInv
  <2>5. PartsInv'
    BY <1>0, <2>1 DEF ProcTypes, ReadersInv, PartsInv, Summed
  <2> QED
    BY <2>3, <2>4, <2>5 DEF ProcInv
<1>6. ASSUME NEW c \in Callers, Proc!SetTemp(c) PROVE ProcInv'
  <2>1. /\ call[c] = "stored" /\ call' = [call EXCEPT ![c] = "none"]
        /\ temp' = len /\ given' = 0 /\ parts' = 0 /\ reached' = 0
        /\ UNCHANGED <<len, count, loaded, beyond, overlapped>>
    BY <1>6 DEF Proc!SetTemp, Proc!Goes, Proc!temp_rewound, Proc!Rewound
  <2>3. ProcTypes'
    BY <1>0, <2>1 DEF ProcTypes
  <2>4. ReadersInv'
    BY <1>0, <2>1 DEF ProcTypes, ReadersInv
  <2>5. PartsInv'
    BY <1>0, <2>1 DEF ProcTypes, ReadersInv, PartsInv, Summed
  <2> QED
    BY <2>3, <2>4, <2>5 DEF ProcInv
<1>7. CASE UNCHANGED procVars
  <2>1. UNCHANGED <<len, temp, call, count, loaded, given, parts, reached, beyond, overlapped>>
    BY <1>7 DEF procVars
  <2>2. ProcTypes' /\ ReadersInv'
    BY <1>0, <2>1 DEF ProcTypes, ReadersInv
  <2>3. PartsInv'
    BY <1>0, <2>1 DEF PartsInv, Summed
  <2> QED
    BY <2>2, <2>3 DEF ProcInv
<1> QED
  BY <1>1, <1>2, <1>3, <1>4, <1>5, <1>6, <1>7 DEF Proc!Next

-----------------------------------------------------------------------------
(* Messages of the character device.                                       *)
Room == BUF_LEN - 1
Pieces == [from : Nat, to : Nat]

\* How many times the buffer was full before the last piece of a text.
LEMMA Fills ==
  ASSUME NEW B \in Nat, B > 0, NEW m \in Nat, NEW n \in Nat, m * B <= n, n < m * B + B
  PROVE  n \div B = m
  OBVIOUS
PieceTypes ==
  /\ msg \in Pieces /\ offset \in Nat
  /\ text \in [Procs -> Nat] /\ accepted \in [Procs -> Nat] /\ heard \in [Procs -> Pieces]

\* The message is nothing, or has a character and room for the terminator.
RoomInv == msg = Device!Nothing \/ (msg.from < msg.to /\ msg.to <= msg.from + Room)

\* Who opens the device has written and read nothing ...
FreshInv == \A p \in Procs : step[p] \in {"open", "claimed"} =>
  accepted[p] = 0 /\ heard[p] = Device!Nothing

\* ... then writes the buffer full again and again ...
WritingInv == \A p \in Procs : step[p] = "in" =>
  /\ accepted[p] <= text[p]
  /\ accepted[p] < text[p] => /\ offset = 0 /\ heard[p] = Device!Nothing
                              /\ \E m \in Nat : accepted[p] = m * Room

\* ... and then reads what is left of it.
ReadingInv == \A p \in Procs : step[p] = "in" /\ accepted[p] = text[p] =>
  /\ text[p] > 0 => msg = Device!TailOf(text[p])
  /\ msg = Device!Nothing => heard[p] = Device!Nothing
  /\ offset > 0 => heard[p] = Device!Piece(msg.from, msg.from + offset)

PieceInv == PieceTypes /\ RoomInv /\ FreshInv /\ WritingInv /\ ReadingInv

\* The invariant holds when the module has been loaded.
LEMMA PieceInit == Device!Init => PieceInv
<1> SUFFICES ASSUME Device!Init PROVE PieceInv
  OBVIOUS
<1>0. Device!Nothing \in Pieces
  BY DEF Device!Nothing, Device!Piece, Pieces
<1>1. PieceTypes
  BY <1>0 DEF Device!Init, PieceTypes
<1> QED
  BY <1>1 DEF Device!Init, PieceInv, RoomInv, FreshInv, WritingInv, ReadingInv

\* Only one process at a time is in.
LEMMA AloneIn ==
  ASSUME DeviceInv, NEW p \in Procs, NEW q \in Procs,
         step[p] \in {"claimed", "in"}, step[q] \in {"claimed", "in"}
  PROVE  p = q
<1>1. p \in Inside /\ q \in Inside
  BY DEF Inside
<1> QED
  BY <1>1 DEF DeviceInv, ExclusiveInv

\* A step that moves a process but not into the file.
LEMMA MovesOnly ==
  ASSUME PieceInv, step \in [Procs -> Steps], NEW p \in Procs, NEW to \in Steps \ {"in", "open"},
         step' = [step EXCEPT ![p] = to], to = "claimed" => step[p] = "open",
         UNCHANGED <<msg, offset, text, accepted, heard>>
  PROVE  PieceInv'
<1>0. PieceTypes /\ RoomInv /\ FreshInv /\ WritingInv /\ ReadingInv
  BY DEF PieceInv
<1>1. \A q \in Procs : /\ step'[q] = "in" => step[q] = "in"
                       /\ step'[q] \in {"open", "claimed"} => step[q] \in {"open", "claimed"}
  OBVIOUS
<1>2. PieceTypes' /\ RoomInv' /\ FreshInv'
  BY <1>0, <1>1 DEF PieceTypes, RoomInv, FreshInv
<1>3. WritingInv'
  BY <1>0, <1>1 DEF WritingInv
<1>4. ReadingInv'
  BY <1>0, <1>1 DEF ReadingInv
<1> QED
  BY <1>2, <1>3, <1>4 DEF PieceInv

\* The next piece of a text begins where the buffer was full for the m-th time.
LEMMA NextPiece ==
  ASSUME NEW m \in Nat, NEW n \in Nat, m * Room < n
  PROVE  LET k == m * Room + Device!bytes_written(n - m * Room)
         IN /\ k \in Nat /\ m * Room < k /\ k <= n /\ k <= m * Room + Room
            /\ k < n => k = (m + 1) * Room
            /\ k = n => Device!Piece(m * Room, k) = Device!TailOf(n)
<1>0. Room \in Nat /\ Room > 0 /\ m * Room \in Nat
  BY BuffersAssumption DEF Room
<1> DEFINE s == m * Room
           k == s + Device!bytes_written(n - s)
<1>1. s \in Nat /\ s < n /\ (m + 1) * Room = s + Room
  BY <1>0
<1> HIDE DEF s
<1>2. k = (IF n - s > Room THEN s + Room ELSE n)
  BY <1>0, <1>1 DEF Device!bytes_written, Room
<1>3. ASSUME k = n PROVE Device!Piece(s, k) = Device!TailOf(n)
  <2>1. n - 1 \in Nat /\ s <= n - 1 /\ n - 1 < s + Room
    BY <1>0, <1>1, <1>2, <1>3
  <2>2. (n - 1) \div Room = m
    BY <1>0, <2>1, Fills DEF s
  <2> QED
    BY <1>3, <2>2 DEF Device!TailOf, Device!Piece, s, Room
<1>4. k \in Nat /\ s < k /\ k <= n /\ k <= s + Room /\ (k < n => k = (m + 1) * Room)
  BY <1>0, <1>1, <1>2
<1> QED
  BY <1>3, <1>4 DEF s

\* Each step keeps it (chardev.c:57-93, 105-150): the file is one process's alone.
LEMMA PieceNext ==
  ASSUME DeviceInv, PieceInv, [Device!Next]_devVars
  PROVE  PieceInv'
<1>0. PieceTypes /\ RoomInv /\ FreshInv /\ WritingInv /\ ReadingInv /\ step \in [Procs -> Steps]
  BY DEF PieceInv, DeviceInv, DeviceTypeOK
<1>1. ASSUME NEW p \in Procs, NEW n \in Texts, Device!CallOpen(p, n) PROVE PieceInv'
  <2>1. /\ step' = [step EXCEPT ![p] = "open"] /\ text' = [text EXCEPT ![p] = n]
        /\ accepted' = [accepted EXCEPT ![p] = 0]
        /\ heard' = [heard EXCEPT ![p] = Device!Nothing] /\ UNCHANGED <<msg, offset>>
    BY <1>1 DEF Device!CallOpen, Device!Goes
  <2>2. Device!Nothing \in Pieces /\ n \in Nat
    BY BuffersAssumption DEF Device!Nothing, Device!Piece, Pieces
  <2>3. PieceTypes' /\ RoomInv'
    BY <1>0, <2>1, <2>2 DEF PieceTypes, RoomInv
  <2>4. \A q \in Procs \ {p} : /\ step'[q] = step[q] /\ text'[q] = text[q]
                               /\ accepted'[q] = accepted[q] /\ heard'[q] = heard[q]
    BY <1>0, <2>1 DEF PieceTypes
  <2>5. step'[p] = "open" /\ accepted'[p] = 0 /\ heard'[p] = Device!Nothing
    BY <1>0, <2>1 DEF PieceTypes
  <2>6. FreshInv'
    BY <1>0, <2>4, <2>5 DEF FreshInv
  <2>7. WritingInv'
    BY <1>0, <2>1, <2>4, <2>5 DEF WritingInv
  <2>8. ReadingInv'
    BY <1>0, <2>1, <2>4, <2>5 DEF ReadingInv
  <2> QED
    BY <2>3, <2>6, <2>7, <2>8 DEF PieceInv
<1>2. ASSUME NEW p \in Procs, Device!Claim(p) PROVE PieceInv'
  <2>1. \E to \in {"leaving", "claimed"} : step[p] = "open" /\ step' = [step EXCEPT ![p] = to]
    BY <1>2 DEF Device!Claim, Device!atomic_cmpxchg, Device!Goes
  <2> QED
    BY <1>0, <1>2, <2>1, MovesOnly DEF Device!Claim, Steps
<1>3. ASSUME NEW p \in Procs, Device!Opened(p) PROVE PieceInv'
  <2>1. /\ step[p] = "claimed" /\ step' = [step EXCEPT ![p] = "in"] /\ offset' = 0
        /\ UNCHANGED <<msg, text, accepted, heard>>
    BY <1>3 DEF Device!Opened, Device!Goes
  <2>2. step'[p] = "in" /\ \A q \in Procs \ {p} : step'[q] = step[q] /\ step[q] # "in"
    BY <1>0, <2>1, AloneIn
  <2>3. accepted[p] = 0 /\ heard[p] = Device!Nothing /\ text[p] \in Nat /\ 0 = 0 * Room
    BY <1>0, <2>1, BuffersAssumption DEF FreshInv, PieceTypes, Room
  <2>4. PieceTypes' /\ RoomInv' /\ FreshInv'
    BY <1>0, <2>1, <2>2 DEF PieceTypes, RoomInv, FreshInv
  <2>5. WritingInv'
    BY <2>1, <2>2, <2>3 DEF WritingInv
  <2>6. ReadingInv'
    BY <2>1, <2>2, <2>3 DEF ReadingInv
  <2> QED
    BY <2>4, <2>5, <2>6 DEF PieceInv
<1>4. ASSUME NEW p \in Procs, Device!Release(p) PROVE PieceInv'
  BY <1>0, <1>4, MovesOnly DEF Device!Release, Device!Goes, Steps
<1>5. ASSUME NEW p \in Procs, Device!module_put(p) PROVE PieceInv'
  BY <1>0, <1>5, MovesOnly DEF Device!module_put, Device!Goes, Steps
<1>r. ASSUME NEW p \in Procs, Device!Return(p) PROVE PieceInv'
  BY <1>0, <1>r, MovesOnly DEF Device!Return, Device!Goes, Steps
<1>6. ASSUME NEW p \in Procs, Device!device_write(p) PROVE PieceInv'
  <2>1. /\ step[p] = "in" /\ accepted[p] < text[p]
        /\ accepted' = [accepted EXCEPT ![p] = @ + Device!bytes_written(text[p] - @)]
        /\ msg' = Device!Piece(accepted[p], accepted'[p]) /\ UNCHANGED <<step, offset, text, heard>>
    BY <1>6 DEF Device!device_write
  <2>2. \A q \in Procs \ {p} : step'[q] = step[q] /\ accepted'[q] = accepted[q] /\ step[q] # "in"
    BY <1>0, <2>1, AloneIn DEF PieceTypes
  <2>3. PICK m \in Nat : accepted[p] = m * Room
    BY <1>0, <2>1 DEF WritingInv
  <2>4. offset = 0 /\ heard[p] = Device!Nothing /\ text[p] \in Nat /\ accepted[p] \in Nat
    BY <1>0, <2>1 DEF WritingInv, PieceTypes
  <2> DEFINE k == m * Room + Device!bytes_written(text[p] - m * Room)
  <2>5. /\ k \in Nat /\ m * Room < k /\ k <= text[p] /\ k <= m * Room + Room
        /\ k < text[p] => k = (m + 1) * Room
        /\ k = text[p] => Device!Piece(m * Room, k) = Device!TailOf(text[p])
    BY <2>1, <2>3, <2>4, NextPiece
  <2>6. accepted'[p] = k
    BY <1>0, <2>1, <2>3 DEF PieceTypes
  <2> HIDE DEF k
  <2>7. msg' = Device!Piece(accepted[p], k) /\ msg'.from = accepted[p] /\ msg'.to = k
    BY <2>1, <2>6 DEF Device!Piece
  <2>8. accepted' = [accepted EXCEPT ![p] = k]
    BY <1>0, <2>1, <2>6 DEF PieceTypes
  <2>9. PieceTypes'
    BY <1>0, <2>1, <2>4, <2>5, <2>7, <2>8 DEF PieceTypes, Pieces, Device!Piece
  <2>10. RoomInv'
    BY <2>3, <2>5, <2>7 DEF RoomInv
  <2>11. FreshInv'
    BY <1>0, <2>1, <2>2 DEF FreshInv
  <2>12. WritingInv'
    <3>1. m + 1 \in Nat
      OBVIOUS
    <3> QED
      BY <2>1, <2>2, <2>4, <2>5, <2>6, <3>1 DEF WritingInv
  <2>13. ReadingInv'
    BY <2>1, <2>2, <2>3, <2>4, <2>5, <2>6, <2>7 DEF ReadingInv
  <2> QED
    BY <2>9, <2>10, <2>11, <2>12, <2>13 DEF PieceInv
<1>7. ASSUME NEW p \in Procs, NEW n \in 1..BUF_LEN, Device!device_read(p, n) PROVE PieceInv'
  <2> DEFINE end == IF offset + n < Device!Length(msg) THEN offset + n ELSE Device!Length(msg)
             piece == Device!Piece(IF offset = 0 THEN msg.from ELSE heard[p].from, msg.from + end)
  <2>1. /\ step[p] = "in" /\ accepted[p] = text[p] /\ offset < Device!Length(msg)
        /\ heard' = [heard EXCEPT ![p] = piece] /\ offset' = end
        /\ UNCHANGED <<step, msg, text, accepted>>
    BY <1>7 DEF Device!device_read
  <2>2. \A q \in Procs \ {p} : heard'[q] = heard[q] /\ step[q] # "in"
    BY <1>0, <2>1, AloneIn DEF PieceTypes
  <2>3. n \in Nat /\ n > 0 /\ offset \in Nat /\ msg.from \in Nat /\ msg.to \in Nat
    BY <1>0, BuffersAssumption DEF PieceTypes, Pieces
  <2>4. end \in Nat /\ end > 0
    BY <2>1, <2>3 DEF Device!Length
  <2>5. msg # Device!Nothing
    BY <2>1, <2>3 DEF Device!Nothing, Device!Length, Device!Piece
  <2> HIDE DEF end
  <2>6. piece = Device!Piece(msg.from, msg.from + end)
    <3>1. ASSUME offset # 0 PROVE heard[p].from = msg.from
      BY <1>0, <2>1, <2>3, <3>1 DEF ReadingInv, Device!Piece
    <3> QED
      BY <3>1
  <2> HIDE DEF piece
  <2>7. piece \in Pieces
    BY <2>3, <2>4, <2>6 DEF Device!Piece, Pieces
  <2>8. PieceTypes' /\ heard'[p] = piece
    BY <1>0, <2>1, <2>4, <2>7 DEF PieceTypes
  <2>9. RoomInv'
    BY <1>0, <2>1 DEF RoomInv
  <2>10. FreshInv'
    BY <1>0, <2>1, <2>2 DEF FreshInv
  <2>11. WritingInv'
    BY <1>0, <2>1, <2>2 DEF WritingInv, PieceTypes
  <2>12. ReadingInv'
    BY <1>0, <2>1, <2>2, <2>5, <2>6, <2>8 DEF ReadingInv
  <2> QED
    BY <2>8, <2>9, <2>10, <2>11, <2>12 DEF PieceInv
<1>8. ASSUME NEW p \in Procs, Device!ReadsTheEnd(p) PROVE PieceInv'
  <2>1. /\ step[p] = "in" /\ accepted[p] = text[p] /\ offset' = 0
        /\ UNCHANGED <<step, msg, text, accepted, heard>>
    BY <1>8 DEF Device!ReadsTheEnd
  <2>2. \A q \in Procs \ {p} : step[q] # "in"
    BY <1>0, <2>1, AloneIn
  <2>3. PieceTypes' /\ RoomInv' /\ FreshInv'
    BY <1>0, <2>1 DEF PieceTypes, RoomInv, FreshInv
  <2>4. WritingInv'
    BY <1>0, <2>1, <2>2 DEF WritingInv, PieceTypes
  <2>5. ReadingInv'
    BY <1>0, <2>1, <2>2 DEF ReadingInv
  <2> QED
    BY <2>3, <2>4, <2>5 DEF PieceInv
<1>9. CASE UNCHANGED <<step, msg, offset, text, accepted, heard>>
  <2>1. PieceTypes' /\ RoomInv' /\ FreshInv'
    BY <1>0, <1>9 DEF PieceTypes, RoomInv, FreshInv
  <2>2. WritingInv'
    BY <1>0, <1>9 DEF WritingInv
  <2>3. ReadingInv'
    BY <1>0, <1>9 DEF ReadingInv
  <2> QED
    BY <2>1, <2>2, <2>3 DEF PieceInv
<1> QED
  BY <1>1, <1>2, <1>3, <1>4, <1>5, <1>r, <1>6, <1>7, <1>8, <1>9
     DEF Device!Next, Device!StopModule, Device!chardev_exit, devVars

\* Whoever reads the device to the end has the last piece of a text that was longer
\* than the buffer, whole and with room for the terminator; the readers of the proc
\* file are given the length of its message once between two rewinds, but the whole
\* of it only in one read, and nothing behind it, unless calls overlap (ReadersGet;
\* chardev.c:105-150, proc.c:14-35).
THEOREM WhatIsRead == ProgramsSpec => []ReadersGet
<1>1. ASSUME ProcInv PROVE Proc!WholeOnlyAtOnce
  <2>1. ASSUME ~overlapped, \A c \in Callers : call[c] \in {"none", "read"}
        PROVE  given + temp = len /\ (temp = 0 => (reached = len <=> parts <= 1))
    <3>1. given + temp = len /\ Summed(given)
      BY <1>1, <2>1 DEF ProcInv, ReadersInv, PartsInv
    <3> QED
      BY <1>1, <3>1 DEF ProcInv, ProcTypes, Summed
  <2> QED
    BY <1>1, <2>1 DEF ProcInv, ProcTypes, ReadersInv, Proc!WholeOnlyAtOnce
<1>2. ASSUME PieceInv PROVE Device!MessagesComeWhole
  <2>0. PieceTypes /\ RoomInv /\ ReadingInv
    BY <1>2 DEF PieceInv
  <2>1. Room = BUF_LEN - 1 /\ BUF_LEN \in Nat /\ BUF_LEN > 1
    BY BuffersAssumption DEF Room
  <2>2. msg.from \in Nat /\ msg.to \in Nat /\ msg = [from |-> msg.from, to |-> msg.to]
    BY <2>0 DEF PieceTypes, Pieces
  <2>3. Device!Length(msg) < BUF_LEN
    BY <2>0, <2>1, <2>2 DEF RoomInv, Device!Length, Device!Nothing, Device!Piece
  <2>4. ASSUME NEW p \in Procs, step[p] = "in", accepted[p] = text[p], offset = Device!Length(msg)
        PROVE  heard[p] = msg
    <3>1. CASE offset > 0
      <4>1. heard[p] = Device!Piece(msg.from, msg.from + offset)
        BY <2>0, <2>4, <3>1 DEF ReadingInv
      <4>2. msg.from + offset = msg.to
        BY <2>2, <2>4 DEF Device!Length
      <4> QED
        BY <2>2, <4>1, <4>2 DEF Device!Piece
    <3>2. CASE offset = 0
      <4>1. msg = Device!Nothing
        BY <2>0, <2>2, <2>4, <3>2 DEF RoomInv, Device!Length
      <4> QED
        BY <2>0, <2>4, <4>1 DEF ReadingInv
    <3> QED
      BY <2>0, <3>1, <3>2 DEF PieceTypes
  <2> QED
    BY <2>0, <2>3, <2>4 DEF ReadingInv, Device!MessagesComeWhole
<1>3. ProcInv /\ PieceInv => ReadersGet
  BY <1>1, <1>2 DEF ReadersGet
<1>4. Start => ProcInv /\ DeviceInv /\ PieceInv
  BY ProcInit, DeviceInit, PieceInit DEF Start
<1>5. ProcInv /\ DeviceInv /\ PieceInv /\ [Turn /\ Others /\ UNCHANGED program]_allVars
        => ProcInv' /\ DeviceInv' /\ PieceInv'
  BY EveryStep, ProcNext, DeviceNext, PieceNext
<1> QED
  BY <1>3, <1>4, <1>5, PTL DEF ProgramsSpec
-----------------------------------------------------------------------------
(* The numbers of the echo server of module3/c01.                          *)
NumberTypes ==
  /\ typed \in [Ports -> Nat] /\ toClient \in [Ports -> Seq(Int)] /\ fresh \subseteq Ports
  /\ \A p \in Ports : user[p] = "off" => toClient[p] = << >>

NoneOf(p) == \A j \in DOMAIN toServer : toServer[j].port # p
\* One line of p and nothing else of it is on its way.
OneOf(p) == \E k \in DOMAIN toServer :
  /\ toServer[k].port = p /\ toServer[k].text # "CLOSE"
  /\ \A j \in DOMAIN toServer \ {k} : toServer[j].port # p
\* The server has counted n lines of p.
Known(p, n) == IF n = 0 THEN Echo!SlotOf(p) = {} ELSE \E i \in Echo!SlotOf(p) : clients[i].count = n

\* What is typed is counted, but for the line that is on its way.
Talk(p) ==
  \/ user[p] = "prompt" /\ NoneOf(p) /\ toClient[p] = << >> /\ Known(p, typed[p])
  \/ user[p] = "recv" /\ typed[p] > 0 /\ OneOf(p) /\ toClient[p] = << >> /\ Known(p, typed[p] - 1)
  \/ user[p] = "recv" /\ typed[p] > 0 /\ NoneOf(p) /\ toClient[p] = <<typed[p]>>
       /\ Known(p, typed[p])
TalkInv == serving => \A p \in fresh \ (lost \union closing) : user[p] # "off" => Talk(p)

NumberInv == NumberTypes /\ TalkInv

\* Nobody talks at first.
LEMMA NumberInit == Echo!Init => NumberInv
<1> SUFFICES ASSUME Echo!Init PROVE NumberInv
  OBVIOUS
<1>1. << >> \in Seq(Int)
  OBVIOUS
<1>2. NumberTypes
  BY <1>1 DEF Echo!Init, NumberTypes
<1> QED
  BY <1>2 DEF Echo!Init, NumberInv, TalkInv

\* A datagram of q joins the buffer.
LEMMA Joins ==
  ASSUME EchoTypeOK, NEW q \in Ports, NEW body \in EchoTexts, Echo!Delivered(q, body)
  PROVE  /\ \A p \in Ports \ {q} : (NoneOf(p) => NoneOf(p)') /\ (OneOf(p) => OneOf(p)')
         /\ body # "CLOSE" /\ NoneOf(q) => OneOf(q)'
<1> DEFINE n == Len(toServer) + 1
<1>1. /\ n \in Nat \ {0} /\ DOMAIN toServer = 1..(n - 1) /\ DOMAIN toServer' = 1..n
      /\ \A k \in 1..(n - 1) : toServer'[k] = toServer[k]
      /\ toServer'[n] = [port |-> q, text |-> body]
  BY DEF EchoTypeOK, Echo!Delivered
<1> HIDE DEF n
<1>2. toServer'[n].port = q /\ toServer'[n].text = body
  BY <1>1
<1>3. ASSUME NEW p \in Ports \ {q}, NoneOf(p) PROVE NoneOf(p)'
  BY <1>1, <1>2, <1>3 DEF NoneOf
<1>4. ASSUME NEW p \in Ports \ {q}, OneOf(p) PROVE OneOf(p)'
  <2>1. PICK k \in 1..(n - 1) : /\ toServer[k].port = p /\ toServer[k].text # "CLOSE"
                                /\ \A j \in 1..(n - 1) \ {k} : toServer[j].port # p
    BY <1>1, <1>4 DEF OneOf
  <2>2. k \in DOMAIN toServer' /\ toServer'[k].port = p /\ toServer'[k].text # "CLOSE"
    BY <1>1, <2>1
  <2>3. \A j \in DOMAIN toServer' \ {k} : toServer'[j].port # p
    BY <1>1, <1>2, <1>4, <2>1
  <2> QED
    BY <2>2, <2>3 DEF OneOf
<1>5. ASSUME body # "CLOSE", NoneOf(q) PROVE OneOf(q)'
  <2>1. \A j \in 1..(n - 1) : toServer'[j].port # q
    BY <1>1, <1>5 DEF NoneOf
  <2>2. n \in DOMAIN toServer' /\ \A j \in DOMAIN toServer' \ {n} : j \in 1..(n - 1)
    BY <1>1
  <2> QED
    BY <1>2, <1>5, <2>1, <2>2 DEF OneOf
<1> QED
  BY <1>3, <1>4, <1>5

\* The oldest datagram leaves the buffer.
LEMMA Leaves ==
  ASSUME EchoTypeOK, toServer # << >>, toServer' = Tail(toServer)
  PROVE  /\ Head(toServer) \in Datagrams
         /\ \A p \in Ports : NoneOf(p) => NoneOf(p)' /\ Head(toServer).port # p
         /\ \A p \in Ports : OneOf(p) =>
              IF Head(toServer).port = p THEN Head(toServer).text # "CLOSE" /\ NoneOf(p)'
                                         ELSE OneOf(p)'
<1> DEFINE n == Len(toServer)
<1>1. /\ n \in Nat \ {0} /\ DOMAIN toServer = 1..n /\ DOMAIN toServer' = 1..(n - 1)
      /\ \A k \in 1..(n - 1) : toServer'[k] = toServer[k + 1]
      /\ Head(toServer) = toServer[1] /\ Head(toServer) \in Datagrams
  BY DEF EchoTypeOK
<1> HIDE DEF n
<1>2. 1 \in 1..n
  BY <1>1
<1>3. ASSUME NEW p \in Ports, NoneOf(p) PROVE NoneOf(p)' /\ Head(toServer).port # p
  BY <1>1, <1>2, <1>3 DEF NoneOf
<1>4. ASSUME NEW p \in Ports, OneOf(p)
      PROVE  IF Head(toServer).port = p THEN Head(toServer).text # "CLOSE" /\ NoneOf(p)' ELSE OneOf(p)'
  <2>1. PICK k \in 1..n : /\ toServer[k].port = p /\ toServer[k].text # "CLOSE"
                          /\ \A j \in 1..n \ {k} : toServer[j].port # p
    BY <1>1, <1>4 DEF OneOf
  <2>2. CASE k = 1
    BY <1>1, <2>1, <2>2 DEF NoneOf
  <2>3. CASE k # 1
    <3>1. k - 1 \in 1..(n - 1) /\ toServer'[k - 1] = toServer[k] /\ Head(toServer).port # p
      BY <1>1, <1>2, <2>1, <2>3
    <3>2. \A j \in 1..(n - 1) \ {k - 1} : toServer'[j].port # p
      BY <1>1, <2>1, <2>3
    <3> QED
      BY ZenonT(60), <1>1, <2>1, <3>1, <3>2 DEF OneOf
  <2> QED
    BY <2>2, <2>3
<1> QED
  BY <1>1, <1>3, <1>4

\* What is known of a port stays when the table does.
LEMMA StillKnown ==
  ASSUME UNCHANGED clients, NEW p, NEW n
  PROVE  Known(p, n)' <=> Known(p, n)
BY DEF Known, Echo!SlotOf

\* The server's turn counts the line of one port (server.c:141-177).
LEMMA ServeNumbers ==
  ASSUME EchoInv, NumberInv, Echo!Serve
  PROVE  NumberInv'
<1>0. /\ EchoTypeOK /\ UniqueInv /\ NumberTypes /\ TalkInv
      /\ toServer # << >> /\ toServer' = Tail(toServer) /\ serving
      /\ UNCHANGED <<user, typed, closing, fresh>>
  BY DEF EchoInv, NumberInv, Echo!Serve
<1>1. PICK q \in Ports : q = Head(toServer).port
  BY <1>0, Leaves DEF Datagrams
<1>2. CASE serving' = FALSE /\ UNCHANGED toClient
  BY <1>0, <1>2 DEF NumberInv, NumberTypes, TalkInv
<1>3. ASSUME Echo!IsClose(Head(toServer).text), clients' = Echo!remove_client(q),
             UNCHANGED <<serving, toClient, lost>>
      PROVE  NumberInv'
  <2>1. \A p \in Ports \ {q} : Echo!SlotOf(p)' = Echo!SlotOf(p)
                              /\ \A i \in Echo!SlotOf(p) : clients'[i] = clients[i]
    BY <1>0, <1>3 DEF Echo!remove_client, Echo!SlotOf, EchoTypeOK
  <2>2. ASSUME NEW p \in fresh \ (lost \union closing), user[p] # "off" PROVE Talk(p)'
    <3>1. p \in Ports /\ Talk(p)
      BY <1>0, <2>2 DEF TalkInv, NumberTypes
    <3>2. p # q
      BY <1>0, <1>1, <1>3, <3>1, Leaves DEF Talk, Echo!IsClose
    <3>3. \A m : Known(p, m) => Known(p, m)'
      BY <2>1, <3>1, <3>2 DEF Known
    <3>4. (NoneOf(p) => NoneOf(p)') /\ (OneOf(p) => OneOf(p)')
      BY <1>0, <1>1, <3>1, <3>2, Leaves
    <3> QED
      BY <1>0, <1>3, <3>1, <3>3, <3>4 DEF Talk
  <2>3. NumberTypes'
    BY <1>0, <1>3 DEF NumberTypes
  <2> QED
    BY <1>0, <1>3, <2>2, <2>3 DEF NumberInv, TalkInv
<1>4. ASSUME ~Echo!IsClose(Head(toServer).text), NEW i \in Echo!find_or_add_client(q),
             clients' = Echo!Counted(q, i), Echo!send_response(q, clients'[i].count),
             UNCHANGED serving
      PROVE  NumberInv'
  <2> DEFINE c == clients'[i].count
  <2>1. i \in Echo!Slots /\ (i \in Echo!SlotOf(q) \/ (Echo!SlotOf(q) = {} /\ ~clients[i].active))
    BY <1>4 DEF Echo!find_or_add_client, Echo!SlotOf
  <2>2. /\ \A j \in Echo!Slots \ {i} : clients'[j] = clients[j]
        /\ clients'[i].active /\ clients'[i].port = q
        /\ c = IF clients[i].active THEN clients[i].count + 1 ELSE 1
        /\ clients[i].count \in Int
    BY <1>0, <1>4, <2>1 DEF Echo!Counted, EchoTypeOK
  <2>3. \A p \in Ports \ {q} : Echo!SlotOf(p)' = Echo!SlotOf(p)
                              /\ \A j \in Echo!SlotOf(p) : clients'[j] = clients[j]
    <3>1. \A p \in Ports \ {q} : i \notin Echo!SlotOf(p) /\ i \notin Echo!SlotOf(p)'
      BY <2>1, <2>2 DEF Echo!SlotOf
    <3> SUFFICES ASSUME NEW p \in Ports \ {q}
                 PROVE  Echo!SlotOf(p)' = Echo!SlotOf(p)
                          /\ \A j \in Echo!SlotOf(p) : clients'[j] = clients[j]
      OBVIOUS
    <3>2. ASSUME NEW j \in Echo!Slots \ {i}
          PROVE  j \in Echo!SlotOf(p)' <=> j \in Echo!SlotOf(p)
      <4>1. clients'[j] = clients[j]
        BY <2>2
      <4> QED
        BY <4>1, Zenon DEF Echo!SlotOf
    <3>3. Echo!SlotOf(p) \subseteq Echo!Slots /\ Echo!SlotOf(p)' \subseteq Echo!Slots
      BY DEF Echo!SlotOf
    <3>4. Echo!SlotOf(p)' = Echo!SlotOf(p)
      BY <3>1, <3>2, <3>3
    <3>5. \A j \in Echo!SlotOf(p) : clients'[j] = clients[j]
      BY <2>2, <3>1, <3>3
    <3> QED
      BY <3>4, <3>5
  <2>4. ASSUME NEW m \in Nat, Known(q, m) PROVE c = m + 1 /\ Known(q, m + 1)'
    <3>1. i \in Echo!SlotOf(q)'
      BY <2>1, <2>2 DEF Echo!SlotOf
    <3>2. CASE m = 0
      BY <2>1, <2>2, <2>4, <3>1, <3>2 DEF Known
    <3>3. CASE m # 0
      <4>1. PICK j \in Echo!SlotOf(q) : clients[j].count = m
        BY <2>4, <3>3 DEF Known
      <4>2. i = j
        BY <1>0, <2>1, <4>1 DEF UniqueInv, Echo!SlotOf
      <4>3. c = m + 1
        BY <2>2, <4>1, <4>2 DEF Echo!SlotOf
      <4> QED
        BY <3>1, <4>3 DEF Known
    <3> QED
      BY <3>2, <3>3
  <2> HIDE DEF c
  <2>5. /\ \/ toClient' = IF user[q] = "off" THEN toClient
                          ELSE [toClient EXCEPT ![q] = Append(@, c)]
           \/ UNCHANGED toClient /\ q \in lost'
        /\ lost \subseteq lost'
    BY <1>4 DEF Echo!send_response, Echo!Dropped, c
  <2>6. c \in Int
    BY <2>2
  <2>7. NumberTypes'
    <3>1. toClient[q] \in Seq(Int)
      BY <1>0, <1>1 DEF NumberTypes
    <3>2. Append(toClient[q], c) \in Seq(Int)
      BY <2>6, <3>1
    <3> QED
      BY <1>0, <1>1, <2>5, <3>2 DEF NumberTypes
  <2>8. \A p \in Ports \ {q} : toClient'[p] = toClient[p]
    BY <1>0, <2>5 DEF NumberTypes
  <2>9. ASSUME NEW p \in fresh \ (lost' \union closing), user[p] # "off" PROVE Talk(p)'
    <3>1. p \in Ports /\ Talk(p)
      BY <1>0, <2>5, <2>9 DEF TalkInv, NumberTypes
    <3>2. CASE p # q
      <4>1. \A m : Known(p, m) => Known(p, m)'
        BY <2>3, <3>1, <3>2 DEF Known
      <4>2. (NoneOf(p) => NoneOf(p)') /\ (OneOf(p) => OneOf(p)')
        BY <1>0, <1>1, <3>1, <3>2, Leaves
      <4> QED
        BY <1>0, <2>8, <3>1, <3>2, <4>1, <4>2 DEF Talk
    <3>3. CASE p = q
      <4>1. ~NoneOf(p)
        BY <1>0, <1>1, <3>1, <3>3, Leaves
      <4>2. /\ user[p] = "recv" /\ typed[p] > 0 /\ OneOf(p) /\ toClient[p] = << >>
            /\ Known(p, typed[p] - 1)
        BY <3>1, <4>1 DEF Talk
      <4>3. NoneOf(p)'
        BY <1>0, <1>1, <3>1, <3>3, <4>2, Leaves
      <4>4. typed[p] \in Nat
        BY <1>0, <3>1 DEF NumberTypes
      <4>5. c = typed[p] /\ Known(p, typed[p])'
        <5>1. PICK m \in Nat : m = typed[p] - 1
          BY <4>2, <4>4
        <5>2. c = m + 1 /\ Known(q, m + 1)'
          BY <2>4, <3>3, <4>2, <5>1
        <5>3. typed'[p] = m + 1 /\ typed[p] = m + 1
          BY <1>0, <4>4, <5>1
        <5> QED
          BY <3>3, <5>2, <5>3
      <4>6. toClient'[p] = Append(toClient[p], c)
        BY <1>0, <2>5, <2>9, <3>1, <3>3, <4>2 DEF NumberTypes
      <4>7. toClient'[p] = <<typed[p]>>
        BY <4>2, <4>5, <4>6
      <4> QED
        BY <1>0, <4>2, <4>3, <4>5, <4>7 DEF Talk
    <3> QED
      BY <3>2, <3>3
  <2> QED
    BY <1>0, <2>7, <2>9 DEF NumberInv, TalkInv
<1> QED
  BY <1>0, <1>1, <1>2, <1>3, <1>4 DEF Echo!Serve

\* Another client's step: what concerns p stays, but for the place of its line.
LEMMA OthersTalk ==
  ASSUME NEW p, Talk(p), UNCHANGED clients,
         user'[p] = user[p], toClient'[p] = toClient[p], typed'[p] = typed[p],
         NoneOf(p) => NoneOf(p)', OneOf(p) => OneOf(p)'
  PROVE  Talk(p)'
<1>1. \A m : Known(p, m) => Known(p, m)'
  BY StillKnown
<1> QED
  BY <1>1 DEF Talk

\* The clients' steps (client.c:65-140).
LEMMA NumberNext ==
  ASSUME EchoInv, NumberInv, [Echo!Next]_echoVars
  PROVE  NumberInv'
<1>0. /\ EchoTypeOK /\ NumberTypes /\ TalkInv
      /\ user \in [Ports -> {"off", "prompt", "recv"}] /\ typed \in [Ports -> Nat]
      /\ toClient \in [Ports -> Seq(Int)] /\ fresh \subseteq Ports
  BY DEF EchoInv, EchoTypeOK, NumberInv, NumberTypes
<1>1. CASE Echo!Serve
  BY <1>1, ServeNumbers
<1>2. ASSUME NEW p \in Ports, Echo!Start(p) PROVE NumberInv'
  <2>1. /\ user[p] = "off" /\ user' = [user EXCEPT ![p] = "prompt"]
        /\ typed' = [typed EXCEPT ![p] = 0] /\ closing' = closing \ {p} /\ lost' = lost \ {p}
        /\ fresh' = IF Echo!SlotOf(p) = {} /\ Echo!Pending(p) = {} THEN fresh \union {p}
                                                                  ELSE fresh \ {p}
        /\ UNCHANGED <<clients, serving, toServer, toClient>>
    BY <1>2 DEF Echo!Start
  <2>2. NumberTypes'
    BY <1>0, <2>1 DEF NumberTypes
  <2>3. user'[p] = "prompt" /\ typed'[p] = 0 /\ toClient'[p] = << >>
    BY <1>0, <2>1 DEF NumberTypes
  <2>4. ASSUME p \in fresh' PROVE Talk(p)'
    <3>1. Echo!SlotOf(p) = {} /\ Echo!Pending(p) = {}
      BY <2>1, <2>4
    <3>2. Echo!SlotOf(p)' = {}
      BY <2>1, <3>1 DEF Echo!SlotOf
    <3>3. NoneOf(p)'
      BY <2>1, <3>1 DEF NoneOf, Echo!Pending
    <3> QED
      BY <2>3, <3>2, <3>3 DEF Talk, Known
  <2>5. ASSUME NEW q \in fresh' \ (lost' \union closing'), q # p, serving, user'[q] # "off"
        PROVE  Talk(q)'
    <3>1. user'[q] = user[q] /\ typed'[q] = typed[q] /\ q \in fresh \ (lost \union closing)
      BY <1>0, <2>1, <2>5
    <3>2. Talk(q)
      BY <1>0, <2>5, <3>1 DEF TalkInv
    <3>3. (NoneOf(q) => NoneOf(q)') /\ (OneOf(q) => OneOf(q)')
      BY <2>1 DEF NoneOf, OneOf
    <3> QED
      BY <2>1, <3>1, <3>2, <3>3, OthersTalk
  <2> QED
    BY <2>1, <2>2, <2>4, <2>5 DEF NumberInv, TalkInv
<1>3. ASSUME NEW p \in Ports, NEW body \in EchoTexts, Echo!Ask(p, body) PROVE NumberInv'
  <2>1. /\ user[p] = "prompt" /\ user' = [user EXCEPT ![p] = "recv"]
        /\ typed' = [typed EXCEPT ![p] = @ + 1]
        /\ closing' = IF body = "CLOSE" THEN closing \union {p} ELSE closing
        /\ UNCHANGED <<clients, serving, toClient, fresh>>
        /\ \/ Echo!Delivered(p, body) /\ UNCHANGED lost
           \/ p \in lost' /\ lost \subseteq lost' /\ UNCHANGED toServer
    BY <1>3 DEF Echo!Ask, Echo!send_message, Echo!Dropped, Echo!Delivered
  <2>2. /\ user'[p] = "recv" /\ typed'[p] = typed[p] + 1 /\ toClient'[p] = toClient[p]
        /\ typed[p] \in Nat /\ \A q \in Ports \ {p} : user'[q] = user[q] /\ typed'[q] = typed[q]
    BY <1>0, <2>1
  <2>3. NumberTypes'
    BY <1>0, <2>1 DEF NumberTypes
  <2>4. ASSUME p \in fresh \ (lost' \union closing'), serving PROVE Talk(p)'
    <3>1. Talk(p) /\ body # "CLOSE" /\ Echo!Delivered(p, body)
      BY <1>0, <2>1, <2>4 DEF TalkInv
    <3>2. NoneOf(p) /\ toClient[p] = << >> /\ Known(p, typed[p])
      BY <2>1, <3>1 DEF Talk
    <3>3. OneOf(p)'
      BY <1>0, <3>1, <3>2, Joins
    <3>4. typed'[p] > 0 /\ typed'[p] - 1 = typed[p]
      BY <2>2
    <3>5. Known(p, typed[p] - 1)'
      <4>1. PICK m : m = typed[p]
        OBVIOUS
      <4>2. Known(p, m)'
        BY <2>1, <3>2, <4>1, StillKnown
      <4> QED
        BY <3>4, <4>1, <4>2
    <3> QED
      BY <2>2, <3>2, <3>3, <3>4, <3>5 DEF Talk
  <2>5. ASSUME NEW q \in fresh \ (lost' \union closing'), q # p, serving, user'[q] # "off"
        PROVE  Talk(q)'
    <3>1. q \in Ports /\ q \notin lost /\ q \notin closing /\ user[q] # "off"
      BY <1>0, <2>1, <2>2, <2>5
    <3>2. Talk(q)
      BY <1>0, <2>5, <3>1 DEF TalkInv
    <3>3. (NoneOf(q) => NoneOf(q)') /\ (OneOf(q) => OneOf(q)')
      <4>1. CASE UNCHANGED toServer
        BY <4>1 DEF NoneOf, OneOf
      <4>2. CASE Echo!Delivered(p, body)
        BY <1>0, <2>5, <3>1, <4>2, Joins
      <4> QED
        BY <2>1, <4>1, <4>2
    <3> QED
      BY <2>1, <2>2, <2>5, <3>1, <3>2, <3>3, OthersTalk
  <2> QED
    BY <2>1, <2>3, <2>4, <2>5 DEF NumberInv, TalkInv
<1>4. ASSUME NEW p \in Ports, Echo!recieve_message(p) PROVE NumberInv'
  <2>1. /\ user[p] = "recv" /\ user' = [user EXCEPT ![p] = "prompt"] /\ toClient[p] # << >>
        /\ toClient' = [toClient EXCEPT ![p] = Tail(@)]
        /\ UNCHANGED <<clients, serving, toServer, typed, closing, lost, fresh>>
    BY <1>4 DEF Echo!recieve_message
  <2>2. toClient[p] \in Seq(Int) /\ Tail(toClient[p]) \in Seq(Int)
    BY <1>0, <2>1
  <2>3. /\ user'[p] = "prompt" /\ toClient'[p] = Tail(toClient[p])
        /\ \A q \in Ports \ {p} : user'[q] = user[q] /\ toClient'[q] = toClient[q]
    BY <1>0, <2>1
  <2>4. NumberTypes'
    BY <1>0, <2>1, <2>2, <2>3 DEF NumberTypes
  <2>5. ASSUME NEW q \in fresh \ (lost \union closing), serving, user'[q] # "off" PROVE Talk(q)'
    <3>1. q \in Ports /\ user[q] # "off"
      BY <1>0, <2>1, <2>3, <2>5
    <3>2. Talk(q)
      BY <1>0, <2>5, <3>1 DEF TalkInv
    <3>3. CASE q = p
      <4>1. NoneOf(p) /\ toClient[p] = <<typed[p]>> /\ Known(p, typed[p])
        BY <2>1, <3>2, <3>3 DEF Talk
      <4>2. toClient'[p] = << >>
        BY <2>3, <4>1
      <4>3. NoneOf(p)' /\ Known(p, typed[p])'
        BY <2>1, <4>1, StillKnown DEF NoneOf
      <4> QED
        BY <2>1, <2>3, <3>3, <4>2, <4>3 DEF Talk
    <3>4. CASE q # p
      <4>1. (NoneOf(q) => NoneOf(q)') /\ (OneOf(q) => OneOf(q)')
        BY <2>1 DEF NoneOf, OneOf
      <4> QED
        BY <2>1, <2>3, <3>1, <3>2, <3>4, <4>1, OthersTalk
    <3> QED
      BY <3>3, <3>4
  <2> QED
    BY <2>1, <2>4, <2>5 DEF NumberInv, TalkInv
<1>5. ASSUME NEW p \in Ports, Echo!signal_handler(p) \/ Echo!EndOfInput(p) PROVE NumberInv'
  <2>1. /\ user' = [user EXCEPT ![p] = "off"] /\ toClient' = [toClient EXCEPT ![p] = << >>]
        /\ UNCHANGED <<clients, serving, typed, closing, fresh>>
        /\ lost \subseteq lost' /\ (UNCHANGED toServer \/ Echo!Delivered(p, "CLOSE"))
    BY <1>5 DEF Echo!signal_handler, Echo!EndOfInput, Echo!Off, Echo!Dropped, Echo!Delivered
  <2>2. /\ user'[p] = "off" /\ toClient'[p] = << >>
        /\ \A q \in Ports \ {p} : user'[q] = user[q] /\ toClient'[q] = toClient[q]
    BY <1>0, <2>1
  <2>3. << >> \in Seq(Int)
    OBVIOUS
  <2>4. NumberTypes'
    BY <1>0, <2>1, <2>2, <2>3 DEF NumberTypes
  <2>5. ASSUME NEW q \in fresh \ (lost' \union closing), serving, user'[q] # "off" PROVE Talk(q)'
    <3>1. q \in Ports \ {p} /\ user[q] # "off" /\ q \notin lost
      BY <1>0, <2>1, <2>2, <2>5
    <3>2. Talk(q)
      BY <1>0, <2>5, <3>1 DEF TalkInv
    <3>3. (NoneOf(q) => NoneOf(q)') /\ (OneOf(q) => OneOf(q)')
      <4>1. CASE UNCHANGED toServer
        BY <4>1 DEF NoneOf, OneOf
      <4>2. CASE Echo!Delivered(p, "CLOSE")
        BY <1>0, <3>1, <4>2, Joins DEF EchoTexts
      <4> QED
        BY <2>1, <4>1, <4>2
    <3> QED
      BY <2>1, <2>2, <3>1, <3>2, <3>3, OthersTalk
  <2> QED
    BY <2>1, <2>4, <2>5 DEF NumberInv, TalkInv
<1>6. CASE UNCHANGED echoVars
  <2>1. UNCHANGED <<clients, serving, toServer, user, toClient, typed, closing, lost, fresh>>
    BY <1>6 DEF echoVars
  <2>2. \A q : Talk(q) => Talk(q)'
    <3>1. \A q : (NoneOf(q) => NoneOf(q)') /\ (OneOf(q) => OneOf(q)')
      BY <2>1 DEF NoneOf, OneOf
    <3> QED
      BY <2>1, <3>1, OthersTalk
  <2> QED
    BY <1>0, <2>1, <2>2 DEF NumberInv, NumberTypes, TalkInv
<1> QED
  BY <1>1, <1>2, <1>3, <1>4, <1>5, <1>6 DEF Echo!Next, EchoTexts

\* In a session the server met as a new one, of which nothing was dropped and in
\* which no "CLOSE" was typed, an unanswered line is on its way, or its answer is,
\* with its number in the session (EchoNumbers; server.c:141-177).
THEOREM LinesAreNumbered == ProgramsSpec => []EchoNumbers
<1>1. ASSUME EchoInv, NumberInv PROVE EchoNumbers
  <2> SUFFICES ASSUME serving, NEW p \in fresh \ (lost \union closing), user[p] = "recv"
               PROVE  Echo!Answered(p)
    BY DEF EchoNumbers, Echo!EchoNumbers
  <2>1. Talk(p)
    BY <1>1 DEF NumberInv, TalkInv
  <2>2. (OneOf(p) => Echo!Pending(p) # {}) /\ (NoneOf(p) => Echo!Pending(p) = {})
    BY DEF OneOf, NoneOf, Echo!Pending
  <2> QED
    BY <2>1, <2>2 DEF Talk, Echo!Answered
<1>2. Start => EchoInv /\ NumberInv
  BY EchoInit, NumberInit DEF Start
<1>3. EchoInv /\ NumberInv /\ [Turn /\ Others /\ UNCHANGED program]_allVars => EchoInv' /\ NumberInv'
  BY EveryStep, EchoNext, NumberNext
<1> QED
  BY <1>1, <1>2, <1>3, PTL DEF ProgramsSpec
-----------------------------------------------------------------------------
(* The pipelines of module3/04.                                            *)
Line == 1..num_commands
\* The ends of pipes that command k keeps.
Own(k) == Pipes!Created(num_commands) \intersect {Pipes!Read(k - 1), Pipes!Write(k)}

PipeTypes ==
  /\ num_commands \in 0..MaxStages /\ lines_typed \in Nat
  /\ shell \in {"prompt", "fork", "close", "wait", "ended"}
  /\ stage \in [Pipes!Stages -> {"none", "set-up", "run", "dead"}]
  /\ ends \in [Pipes!Pipes -> SUBSET (Nat \X {"read", "write"})]
  /\ std \in [Pipes!Stages -> SUBSET Pipes!Std]
  /\ holds \in [Pipes!Stages -> BOOLEAN] /\ hurt \in BOOLEAN
  /\ pipe \in [Pipes!Pipes -> Nat] /\ input \in Nat /\ output \in Nat

\* The commands are started in their order, and all have ended at the prompt.
OrderInv ==
  /\ \A k \in Pipes!Stages : stage[k] # "none" =>
       k <= num_commands /\ \A j \in 1..(k - 1) : stage[j] # "none"
  /\ shell \in {"close", "wait"} => \A k \in Line : stage[k] # "none"
  /\ shell = "prompt" => \A k \in Line : stage[k] = "dead"
  /\ num_commands = 0 => shell \in {"prompt", "ended"} /\ lines_typed = 0

\* The interpreter has every end until all commands have theirs, and each keeps
\* its own while it runs.
EndsInv ==
  /\ shell \in {"fork", "close"} => ends[0] = Pipes!Created(num_commands)
  /\ ~hurt => \A k \in Line : stage[k] \in {"set-up", "run"} => Own(k) \subseteq ends[k]
  /\ ~hurt => \A k \in Line : stage[k] \in {"none", "set-up", "run"} => std[k] = Pipes!Std

\* What command k has still to read before it, and what it holds.
Before(k) == IF k = 1 THEN input ELSE pipe[k - 1]
Held(k) == IF holds[k] THEN 1 ELSE 0

\* There is a number w[k] of items that have come out of each command k.
Flow(w) ==
  /\ w \in [Pipes!Pipes -> Nat] /\ \A k \in Pipes!Pipes : w[k] <= Items
  /\ w[0] = Items /\ w[num_commands] = output
  /\ \A k \in Line : w[k - 1] = Before(k) + Held(k) + w[k]
  /\ \A k \in Line : stage[k] = "dead" => w[k] = Items
FlowInv == num_commands > 0 /\ ~hurt /\ shell # "ended" => \E w : Flow(w)

PipelineInv == PipeTypes /\ OrderInv /\ EndsInv /\ FlowInv

\* The places in a line.
LEMMA InLine ==
  ASSUME PipeTypes
  PROVE  /\ Line \subseteq Pipes!Stages /\ Pipes!Stages \subseteq Pipes!Pipes /\ 0 \in Pipes!Pipes
         /\ num_commands \in Pipes!Pipes /\ num_commands \in Nat
         /\ \A k \in Line : k - 1 \in Pipes!Pipes /\ k \in Nat /\ k >= 1 /\ k <= num_commands
         /\ \A k \in Line : k > 1 => k - 1 \in Line
         /\ \A k \in Line : k < num_commands => k + 1 \in Line
BY PipelineAssumption DEF PipeTypes, Line, Pipes!Stages, Pipes!Pipes

\* Before the first line of input nothing has been put into a pipe.
LEMMA PipelineInit == Pipes!Init => PipelineInv
<1> SUFFICES ASSUME Pipes!Init PROVE PipelineInv
  OBVIOUS
<1>1. PipeTypes
  <2>1. /\ num_commands \in 0..MaxStages /\ lines_typed \in Nat /\ input \in Nat /\ output \in Nat
        /\ shell = "prompt"
    BY PipelineAssumption DEF Pipes!Init
  <2>5. hurt \in BOOLEAN
    BY DEF Pipes!Init
  <2>2. /\ stage \in [Pipes!Stages -> {"none", "set-up", "run", "dead"}]
        /\ std \in [Pipes!Stages -> SUBSET Pipes!Std]
    BY DEF Pipes!Init
  <2>3. holds \in [Pipes!Stages -> BOOLEAN] /\ pipe \in [Pipes!Pipes -> Nat]
    BY DEF Pipes!Init
  <2>4. ends \in [Pipes!Pipes -> SUBSET (Nat \X {"read", "write"})]
    BY DEF Pipes!Init
  <2> QED
    BY <2>1, <2>2, <2>3, <2>4, <2>5 DEF PipeTypes
<1>2. Line = {}
  BY DEF Pipes!Init, Line
<1> QED
  BY <1>1, <1>2 DEF Pipes!Init, PipelineInv, OrderInv, EndsInv, FlowInv

\* Command k moves on and nothing flows.
LEMMA FlowStays ==
  ASSUME NEW w, Flow(w), UNCHANGED <<num_commands, holds, pipe, input, output>>,
         \A k \in Line : stage'[k] = "dead" => stage[k] = "dead"
  PROVE  Flow(w)'
BY DEF Flow, Line, Before, Held

\* The ends that are there.
LEMMA OwnEnds ==
  ASSUME PipeTypes, NEW k \in Line
  PROVE  /\ k > 1 => Pipes!Read(k - 1) \in Own(k) /\ Pipes!Write(k - 1) \in Own(k - 1)
         /\ k < num_commands => Pipes!Read(k) \in Own(k + 1) /\ Pipes!Write(k) \in Own(k)
BY InLine DEF Own, Line, Pipes!Created, Pipes!Read, Pipes!Write
\* A line is typed: everything is new.
LEMMA TypedInv ==
  ASSUME PipelineInv, NEW n \in Pipes!Stages, NEW rubbish \in SUBSET Pipes!Std, NEW bad,
         Pipes!execute_pipeline(n, bad, rubbish)
  PROVE  PipelineInv'
<1> DEFINE w == [k \in Pipes!Pipes |-> IF k = 0 THEN Items ELSE 0]
<1>0. /\ num_commands' = n /\ lines_typed' = lines_typed + 1 /\ shell' = "fork"
      /\ ends' = [ends EXCEPT ![0] = Pipes!Created(n)]
      /\ stage' = [k \in Pipes!Stages |-> "none"] /\ std' = [k \in Pipes!Stages |-> Pipes!Std]
      /\ holds' = [k \in Pipes!Stages |-> FALSE] /\ pipe' = [k \in Pipes!Pipes |-> 0]
      /\ input' = Items /\ output' = 0 /\ hurt' = FALSE
  BY DEF Pipes!execute_pipeline, Pipes!Interpreter
<1>1. /\ n \in Nat /\ n > 0 /\ n <= MaxStages /\ MaxStages \in Nat /\ Items \in Nat
      /\ 0 \in Pipes!Pipes /\ n \in Pipes!Pipes
  BY PipelineAssumption DEF Pipes!Stages, Pipes!Pipes
<1>2. /\ lines_typed \in Nat /\ ends \in [Pipes!Pipes -> SUBSET (Nat \X {"read", "write"})]
  BY DEF PipelineInv, PipeTypes
<1>3. PipeTypes'
  <2>1. Pipes!Created(n) \in SUBSET (Nat \X {"read", "write"})
    BY <1>1 DEF Pipes!Created, Pipes!Read, Pipes!Write
  <2>2. ends' \in [Pipes!Pipes -> SUBSET (Nat \X {"read", "write"})]
    BY <1>0, <1>1, <1>2, <2>1
  <2>3. /\ num_commands' \in 0..MaxStages /\ lines_typed' \in Nat /\ input' \in Nat
        /\ output' \in Nat
    BY <1>0, <1>1, <1>2
  <2>6. hurt' \in BOOLEAN
    BY <1>0
  <2>4. /\ stage' \in [Pipes!Stages -> {"none", "set-up", "run", "dead"}]
        /\ std' \in [Pipes!Stages -> SUBSET Pipes!Std]
    BY <1>0
  <2>5. holds' \in [Pipes!Stages -> BOOLEAN] /\ pipe' \in [Pipes!Pipes -> Nat]
    BY <1>0
  <2> QED
    BY <1>0, <2>2, <2>3, <2>4, <2>5, <2>6 DEF PipeTypes
<1>4. \A k \in Line' : k \in Pipes!Stages /\ k - 1 \in Pipes!Pipes /\ k \in Nat /\ k >= 1
                       /\ k \in Pipes!Pipes
  BY <1>0, <1>1 DEF Line, Pipes!Stages, Pipes!Pipes
<1>5. OrderInv'
  BY <1>0, <1>1, <1>4 DEF OrderInv
<1>6. EndsInv'
  BY <1>0, <1>1, <1>2, <1>4 DEF EndsInv
<1>7. Flow(w)'
  <2>1. w \in [Pipes!Pipes -> Nat] /\ \A k \in Pipes!Pipes : w[k] <= Items
    BY <1>1
  <2>2. w[0] = Items /\ w[num_commands'] = output'
    BY <1>0, <1>1
  <2>3. \A k \in Line' : stage'[k] # "dead" /\ ~holds'[k]
    BY <1>0, <1>4
  <2>4. ASSUME NEW k \in Line' PROVE w[k - 1] = Before(k)' + Held(k)' + w[k]
    <3>1. w[k] = 0
      BY <1>4
    <3>2. Held(k)' = 0
      BY <2>3 DEF Held
    <3>3. CASE k = 1
      BY <1>0, <1>1, <3>1, <3>2, <3>3 DEF Before
    <3>4. CASE k # 1
      <4>1. w[k - 1] = 0 /\ pipe'[k - 1] = 0
        BY <1>0, <1>4, <3>4
      <4> QED
        BY <3>1, <3>2, <3>4, <4>1 DEF Before
    <3> QED
      BY <3>3, <3>4
  <2> HIDE DEF w
  <2> QED
    BY <2>1, <2>2, <2>3, <2>4 DEF Flow
<1>8. FlowInv'
  BY <1>7 DEF FlowInv
<1> QED
  BY <1>3, <1>5, <1>6, <1>8 DEF PipelineInv

\* The interpreter's other steps (interpreter.c:63-119).
LEMMA ShellInv ==
  ASSUME PipelineInv,
         \/ Pipes!InterpreterStep \/ Pipes!ForkFails \/ Pipes!Exit
  PROVE  PipelineInv'
<1>0. /\ PipeTypes /\ OrderInv /\ EndsInv /\ FlowInv
      /\ stage \in [Pipes!Stages -> {"none", "set-up", "run", "dead"}]
      /\ ends \in [Pipes!Pipes -> SUBSET (Nat \X {"read", "write"})]
  BY DEF PipelineInv, PipeTypes
<1>1. ASSUME NEW k \in Pipes!Stages, Pipes!Fork(k) PROVE PipelineInv'
  <2>1. /\ shell = "fork" /\ k <= num_commands /\ stage[k] = "none"
        /\ \A j \in 1..(k - 1) : stage[j] # "none"
        /\ stage' = [stage EXCEPT ![k] = "set-up"]
        /\ ends' = [ends EXCEPT ![k] = ends[0]]
        /\ shell' = IF k = num_commands THEN "close" ELSE "fork"
        /\ UNCHANGED <<num_commands, std, holds, pipe, input, output, hurt, lines_typed>>
    BY <1>1 DEF Pipes!Fork, Pipes!Interpreter
  <2>2. k \in Line /\ k \in Nat /\ k >= 1 /\ k \in Pipes!Pipes /\ 0 \in Pipes!Pipes
        /\ num_commands \in Nat
    BY <1>0, <2>1, InLine DEF Line, Pipes!Stages
  <2>3. PipeTypes'
    BY <1>0, <2>1, <2>2 DEF PipeTypes
  <2>4. stage'[k] = "set-up" /\ \A j \in Pipes!Stages \ {k} : stage'[j] = stage[j]
    BY <1>0, <2>1
  <2>5. ends'[0] = ends[0] /\ ends'[k] = ends[0] /\ \A j \in Pipes!Stages \ {k} : ends'[j] = ends[j]
    BY <1>0, <2>1, <2>2, InLine
  <2>6. OrderInv'
    <3>1. \A j \in 1..(k - 1) : j \in Pipes!Stages \ {k}
      BY <2>2, InLine, <1>0 DEF Line, Pipes!Stages
    <3>2. \A j \in Pipes!Stages : stage[j] # "none" => stage'[j] # "none"
      BY <2>1, <2>4
    <3>3. \A j \in Pipes!Stages : stage'[j] # "none" =>
            j <= num_commands /\ \A i \in 1..(j - 1) : stage'[i] # "none"
      <4>1. ASSUME NEW j \in Pipes!Stages, NEW i \in 1..(j - 1) PROVE i \in Pipes!Stages
        BY <1>0, PipelineAssumption DEF Pipes!Stages
      <4> QED
        BY <1>0, <2>1, <2>4, <3>1, <3>2, <4>1 DEF OrderInv
    <3>4. k = num_commands => \A j \in Line : stage'[j] # "none"
      <4>1. k = num_commands => \A j \in Line : j = k \/ j \in 1..(k - 1)
        BY <2>2 DEF Line
      <4> QED
        BY <2>1, <2>4, <3>1, <4>1
    <3>5. Line' = Line /\ num_commands # 0
      BY <2>1, <2>2 DEF Line
    <3> QED
      BY <2>1, <3>3, <3>4, <3>5 DEF OrderInv
  <2>7. EndsInv'
    <3>1. Line' = Line /\ \A j : Own(j)' = Own(j)
      BY <2>1 DEF Line, Own
    <3>2. ends[0] = Pipes!Created(num_commands) /\ Own(k) \subseteq ends'[k]
      BY <1>0, <2>1, <2>5 DEF EndsInv, Own
    <3>3. \A j \in Line \ {k} : ends'[j] = ends[j] /\ stage'[j] = stage[j]
      BY <1>0, <2>4, <2>5, InLine
    <3> QED
      BY <1>0, <2>1, <2>2, <2>4, <2>5, <3>1, <3>2, <3>3 DEF EndsInv
  <2>8. FlowInv'
    <3>1. \A j \in Line : stage'[j] = "dead" => stage[j] = "dead"
      BY <1>0, <2>4, InLine
    <3> QED
      BY <1>0, <2>1, <3>1, FlowStays DEF FlowInv
  <2> QED
    BY <2>3, <2>6, <2>7, <2>8 DEF PipelineInv
<1>2. ASSUME shell' \in {"wait", "prompt", "ended"},
             shell' = "wait" => shell = "close",
             shell' = "prompt" => shell = "wait" /\ \A k \in Line : stage[k] = "dead",
             \/ UNCHANGED ends
             \/ ends' = [ends EXCEPT ![0] = {}],
             UNCHANGED <<num_commands, stage, std, holds, pipe, input, output, hurt, lines_typed>>
      PROVE  PipelineInv'
  <2>1. Line' = Line /\ \A j : Own(j)' = Own(j)
    BY <1>2 DEF Line, Own
  <2>2. PipeTypes'
    BY <1>0, <1>2 DEF PipeTypes
  <2>3. OrderInv'
    BY <1>0, <1>2, <2>1 DEF OrderInv
  <2>4. \A k \in Line : ends'[k] = ends[k]
    BY <1>0, <1>2, InLine
  <2>5. EndsInv'
    BY <1>0, <1>2, <2>1, <2>4 DEF EndsInv
  <2>6. FlowInv'
    <3>1. shell' # "ended" => shell # "ended"
      BY <1>2
    <3> QED
      BY <1>0, <1>2, <2>1, <3>1, FlowStays DEF FlowInv
  <2> QED
    BY <2>2, <2>3, <2>5, <2>6 DEF PipelineInv
<1> QED
  BY <1>1, <1>2
     DEF Pipes!InterpreterStep, Pipes!ClosePipes, Pipes!WaitAll, Pipes!ForkFails, Pipes!Exit,
         Pipes!Interpreter, Line

\* A command that is set up or runs is in the line, after others that were started.
LEMMA Started ==
  ASSUME PipelineInv, NEW k \in Pipes!Stages, stage[k] \in {"set-up", "run"}
  PROVE  /\ k \in Line /\ num_commands > 0 /\ shell # "prompt"
         /\ k > 1 => k - 1 \in Line /\ stage[k - 1] # "none"
<1>1. k <= num_commands /\ \A j \in 1..(k - 1) : stage[j] # "none"
  BY DEF PipelineInv, OrderInv
<1>2. k \in Nat /\ k >= 1 /\ num_commands \in Nat
  BY PipelineAssumption DEF PipelineInv, PipeTypes, Pipes!Stages
<1>3. k \in Line /\ num_commands > 0
  BY <1>1, <1>2 DEF Line
<1>4. shell # "prompt"
  BY <1>3 DEF PipelineInv, OrderInv
<1>5. k > 1 => k - 1 \in Line /\ k - 1 \in 1..(k - 1)
  BY <1>1, <1>2 DEF Line
<1> QED
  BY <1>1, <1>3, <1>4, <1>5

\* Command k moves or dies; the order of the others stays.
LEMMA OrderStays ==
  ASSUME PipelineInv, NEW k \in Pipes!Stages, stage[k] \in {"set-up", "run"},
         NEW to \in {"run", "dead"}, stage' = [stage EXCEPT ![k] = to],
         UNCHANGED <<num_commands, shell, lines_typed>>
  PROVE  OrderInv'
<1>1. \A j \in Pipes!Stages : (stage'[j] = "none" <=> stage[j] = "none")
                              /\ (stage[j] = "dead" => stage'[j] = "dead")
  BY DEF PipelineInv, PipeTypes
<1>2. Line' = Line /\ Line \subseteq Pipes!Stages
  BY InLine DEF Line, PipelineInv
<1>3. \A j \in Pipes!Stages : \A i \in 1..(j - 1) : i \in Pipes!Stages
  BY PipelineAssumption DEF Pipes!Stages
<1> QED
  BY <1>1, <1>2, <1>3 DEF PipelineInv, OrderInv

\* Somebody has open what a command needs.
LEMMA HeldBy ==
  ASSUME PipelineInv, ~hurt, NEW k \in Line, stage[k] \in {"set-up", "run"}, NEW e \in Own(k)
  PROVE  Pipes!HeldOpen(e)
BY InLine DEF PipelineInv, EndsInv, Pipes!HeldOpen

\* A command becomes what it is to be, or does not start.
LEMMA SetUpInv ==
  ASSUME PipelineInv, NEW k \in Pipes!Stages, Pipes!SetUp(k)
  PROVE  PipelineInv'
<1>0. /\ PipeTypes /\ OrderInv /\ EndsInv /\ FlowInv
      /\ stage \in [Pipes!Stages -> {"none", "set-up", "run", "dead"}]
      /\ ends \in [Pipes!Pipes -> SUBSET (Nat \X {"read", "write"})]
      /\ std \in [Pipes!Stages -> SUBSET Pipes!Std] /\ hurt \in BOOLEAN
  BY DEF PipelineInv, PipeTypes
<1>1. /\ stage[k] = "set-up"
      /\ UNCHANGED <<shell, num_commands, holds, pipe, input, output, lines_typed>>
  BY DEF Pipes!SetUp
<1>2. k \in Line /\ num_commands > 0
  BY <1>1, Started
<1>3. Line' = Line /\ (\A j : Own(j)' = Own(j)) /\ k \in Pipes!Pipes
  BY <1>0, <1>1, <1>2, InLine DEF Line, Own
<1>4. CASE k \in broken
  <2>1. /\ stage' = [stage EXCEPT ![k] = "dead"] /\ ends' = [ends EXCEPT ![k] = {}]
        /\ hurt' = TRUE /\ UNCHANGED std
    BY <1>4 DEF Pipes!SetUp, Pipes!Dies
  <2>2. PipeTypes'
    BY <1>0, <1>1, <2>1 DEF PipeTypes
  <2>3. OrderInv'
    BY <1>1, <2>1, OrderStays
  <2>4. ends'[0] = ends[0]
    BY <1>0, <1>2, <2>1, InLine
  <2>5. EndsInv' /\ FlowInv'
    BY <1>0, <1>1, <2>1, <2>4 DEF EndsInv, FlowInv
  <2> QED
    BY <2>2, <2>3, <2>5 DEF PipelineInv
<1>5. CASE k \notin broken
  <2> DEFINE kept == Pipes!KeptEnds(k) \
                       ((IF "in" \in garbage THEN {Pipes!Read(k - 1)} ELSE {}) \union
                        (IF "out" \in garbage THEN {Pipes!Write(k)} ELSE {}))
  <2>1. /\ stage' = [stage EXCEPT ![k] = "run"] /\ ends' = [ends EXCEPT ![k] = kept]
        /\ std' = [std EXCEPT ![k] = @ \ garbage] /\ hurt' = (hurt \/ garbage # {})
    BY <1>5 DEF Pipes!SetUp
  <2>2. kept \subseteq ends[k] /\ (garbage = {} => kept = ends[k] \intersect
                                    {Pipes!Read(k - 1), Pipes!Write(k)})
    BY DEF Pipes!KeptEnds
  <2> HIDE DEF kept
  <2>3. kept \in SUBSET (Nat \X {"read", "write"}) /\ std[k] \ garbage \in SUBSET Pipes!Std
    BY <1>0, <1>3, <2>2
  <2>4. hurt' \in BOOLEAN
    BY <1>0, <2>1
  <2>5. PipeTypes'
    BY <1>0, <1>1, <2>1, <2>3, <2>4 DEF PipeTypes
  <2>6. OrderInv'
    BY <1>1, <2>1, OrderStays
  <2>7. /\ ends'[0] = ends[0] /\ ends'[k] = kept /\ stage'[k] = "run" /\ std'[k] = std[k] \ garbage
        /\ \A j \in Line \ {k} : ends'[j] = ends[j] /\ stage'[j] = stage[j] /\ std'[j] = std[j]
    BY <1>0, <1>2, <1>3, <2>1, InLine
  <2>8. ASSUME ~hurt' PROVE Own(k) \subseteq kept /\ std'[k] = Pipes!Std /\ ~hurt
    <3>1. ~hurt /\ garbage = {}
      BY <2>1, <2>8
    <3>2. Own(k) \subseteq ends[k] /\ std[k] = Pipes!Std
      BY <1>0, <1>1, <1>2, <3>1 DEF EndsInv
    <3> QED
      BY <2>2, <2>7, <3>1, <3>2 DEF Own
  <2>9. EndsInv'
    BY <1>0, <1>1, <1>3, <2>7, <2>8 DEF EndsInv
  <2>10. FlowInv'
    <3>1. \A j \in Line : stage'[j] = "dead" => stage[j] = "dead"
      BY <2>7
    <3>2. ~hurt' => ~hurt
      BY <2>8
    <3> QED
      BY <1>0, <1>1, <3>1, <3>2, FlowStays DEF FlowInv
  <2> QED
    BY <2>5, <2>6, <2>9, <2>10 DEF PipelineInv
<1> QED
  BY <1>4, <1>5

\* A command ends: in a line that is not hurt, all its items have gone on.
LEMMA DiesInv ==
  ASSUME PipelineInv, NEW k \in Pipes!Stages, stage[k] = "run", Pipes!Dies(k),
         UNCHANGED <<shell, num_commands, std, holds, pipe, input, output, lines_typed>>,
         hurt' = TRUE \/ /\ UNCHANGED hurt
                         /\ ~hurt /\ shell # "ended" => \A w : Flow(w) => w[k] = Items
  PROVE  PipelineInv'
<1>0. /\ PipeTypes /\ OrderInv /\ EndsInv /\ FlowInv
      /\ stage \in [Pipes!Stages -> {"none", "set-up", "run", "dead"}]
      /\ ends \in [Pipes!Pipes -> SUBSET (Nat \X {"read", "write"})] /\ hurt \in BOOLEAN
  BY DEF PipelineInv, PipeTypes
<1>1. k \in Line /\ num_commands > 0
  BY Started
<1>2. Line' = Line /\ (\A j : Own(j)' = Own(j)) /\ k \in Pipes!Pipes
  BY <1>0, <1>1, InLine DEF Line, Own
<1>3. stage' = [stage EXCEPT ![k] = "dead"] /\ ends' = [ends EXCEPT ![k] = {}]
  BY DEF Pipes!Dies
<1>4. hurt' \in BOOLEAN /\ (~hurt' => ~hurt /\ UNCHANGED hurt)
  BY <1>0
<1>5. PipeTypes'
  BY <1>0, <1>3, <1>4 DEF PipeTypes
<1>6. OrderInv'
  BY <1>3, OrderStays
<1>7. /\ ends'[0] = ends[0] /\ stage'[k] = "dead"
      /\ \A j \in Line \ {k} : ends'[j] = ends[j] /\ stage'[j] = stage[j]
  BY <1>0, <1>1, <1>2, <1>3, InLine
<1>8. EndsInv'
  BY <1>0, <1>2, <1>4, <1>7 DEF EndsInv
<1>9. FlowInv'
  <2> SUFFICES ASSUME ~hurt', shell # "ended" PROVE \E w : Flow(w)'
    BY DEF FlowInv
  <2>1. PICK w : Flow(w)
    BY <1>0, <1>1, <1>4 DEF FlowInv
  <2>2. w[k] = Items
    BY <1>4, <2>1
  <2>3. \A j \in Line : stage'[j] = "dead" => w[j] = Items
    BY <1>7, <2>1, <2>2 DEF Flow
  <2>4. Flow(w)'
    BY <1>2, <2>1, <2>3 DEF Flow, Before, Held
  <2> QED
    BY <2>4
<1> QED
  BY <1>5, <1>6, <1>8, <1>9 DEF PipelineInv

\* The interpreter's and the others' places stay when only items move.
LEMMA OnlyItems ==
  ASSUME PipelineInv,
         UNCHANGED <<shell, num_commands, stage, ends, std, hurt, lines_typed>>,
         holds' \in [Pipes!Stages -> BOOLEAN], pipe' \in [Pipes!Pipes -> Nat],
         input' \in Nat, output' \in Nat, FlowInv'
  PROVE  PipelineInv'
<1>1. Line' = Line /\ \A j : Own(j)' = Own(j)
  BY DEF Line, Own
<1>2. PipeTypes'
  BY DEF PipelineInv, PipeTypes
<1>3. OrderInv'
  BY <1>1 DEF PipelineInv, OrderInv
<1>4. EndsInv'
  BY <1>1 DEF PipelineInv, EndsInv
<1> QED
  BY <1>2, <1>3, <1>4 DEF PipelineInv

\* An item is taken.
LEMMA ReadInv ==
  ASSUME PipelineInv, NEW k \in Pipes!Stages, Pipes!ReadItem(k)
  PROVE  PipelineInv'
<1>0. PipeTypes /\ holds \in [Pipes!Stages -> BOOLEAN] /\ pipe \in [Pipes!Pipes -> Nat]
      /\ input \in Nat /\ output \in Nat /\ FlowInv
  BY DEF PipelineInv, PipeTypes
<1>1. /\ stage[k] = "run" /\ ~holds[k] /\ holds' = [holds EXCEPT ![k] = TRUE]
      /\ \/ k = 1 /\ input > 0 /\ input' = input - 1 /\ UNCHANGED pipe
         \/ k > 1 /\ pipe[k - 1] > 0 /\ pipe' = [pipe EXCEPT ![k - 1] = @ - 1] /\ UNCHANGED input
      /\ UNCHANGED <<shell, num_commands, stage, ends, std, output, hurt, lines_typed>>
  BY DEF Pipes!ReadItem
<1>2. k \in Line /\ k - 1 \in Pipes!Pipes /\ k \in Nat /\ Line' = Line
  BY <1>0, <1>1, Started, InLine DEF Line
<1>3. /\ holds' \in [Pipes!Stages -> BOOLEAN]
      /\ pipe' \in [Pipes!Pipes -> Nat] /\ input' \in Nat /\ output' \in Nat
  <2>1. holds' \in [Pipes!Stages -> BOOLEAN]
    BY <1>0, <1>1
  <2>2. pipe' \in [Pipes!Pipes -> Nat] /\ input' \in Nat /\ output' \in Nat
    BY <1>0, <1>1, <1>2
  <2> QED
    BY <2>1, <2>2
<1>4. Held(k) = 0 /\ Held(k)' = 1 /\ \A j \in Line \ {k} : Held(j)' = Held(j)
  BY <1>0, <1>1, InLine DEF Held
<1>5. Before(k)' = Before(k) - 1 /\ Before(k) \in Nat
  BY <1>0, <1>1, <1>2 DEF Before
<1>6. ASSUME NEW j \in Line \ {k} PROVE Before(j)' = Before(j)
  <2>1. j - 1 \in Pipes!Pipes /\ j - 1 # k - 1
    BY <1>0, <1>2, InLine
  <2> QED
    BY <1>0, <1>1, <1>2, <2>1 DEF Before
<1>7. ASSUME NEW w, Flow(w) PROVE Flow(w)'
  <2>1. ASSUME NEW j \in Line PROVE w[j - 1] = Before(j)' + Held(j)' + w[j]
    <3>1. w[j - 1] = Before(j) + Held(j) + w[j] /\ w[j] \in Nat
      BY <1>0, <1>7, InLine DEF Flow
    <3>2. CASE j = k
      BY <1>4, <1>5, <3>1, <3>2
    <3>3. CASE j # k
      BY <1>4, <1>6, <3>1, <3>3
    <3> QED
      BY <3>2, <3>3
  <2> QED
    BY <1>1, <1>2, <1>7, <2>1 DEF Flow
<1>8. FlowInv'
  BY <1>0, <1>1, <1>7 DEF FlowInv
<1> QED
  BY <1>1, <1>3, <1>8, OnlyItems

\* At the end of the input, the command before has ended with nothing left behind.
LEMMA EofInv ==
  ASSUME PipelineInv, NEW k \in Pipes!Stages, Pipes!EndsAtEof(k)
  PROVE  PipelineInv'
<1>0. /\ stage[k] = "run" /\ ~holds[k] /\ Pipes!Dies(k)
      /\ \/ "in" \notin std[k]
         \/ k = 1 /\ input = 0
         \/ k > 1 /\ pipe[k - 1] = 0 /\ ~Pipes!HeldOpen(Pipes!Write(k - 1))
      /\ UNCHANGED <<shell, num_commands, std, holds, pipe, input, output, hurt, lines_typed>>
  BY DEF Pipes!EndsAtEof
<1>1. PipeTypes /\ EndsInv /\ k \in Line
  BY <1>0, Started DEF PipelineInv
<1>2. ASSUME ~hurt, NEW w, Flow(w) PROVE w[k] = Items
  <2>1. w[k - 1] = Before(k) + Held(k) + w[k] /\ w[k] \in Nat
    BY <1>1, <1>2, InLine DEF Flow
  <2>2. Held(k) = 0
    BY <1>0 DEF Held
  <2>3. std[k] = Pipes!Std
    BY <1>0, <1>1, <1>2 DEF EndsInv
  <2>4. CASE k = 1 /\ input = 0
    BY <1>2, <2>1, <2>2, <2>4 DEF Before, Flow
  <2>5. CASE k > 1 /\ pipe[k - 1] = 0 /\ ~Pipes!HeldOpen(Pipes!Write(k - 1))
    <3>1. k - 1 \in Line /\ stage[k - 1] # "none"
      BY <1>0, <2>5, Started
    <3>2. Pipes!Write(k - 1) \in Own(k - 1)
      BY <1>1, <2>5, OwnEnds
    <3>3. stage[k - 1] = "dead"
      <4>1. stage[k - 1] \in {"none", "set-up", "run", "dead"}
        BY <1>1, <3>1, InLine DEF PipeTypes
      <4> QED
        BY <1>2, <2>5, <3>1, <3>2, <4>1, HeldBy
    <3>4. w[k - 1] = Items
      BY <1>2, <3>1, <3>3 DEF Flow
    <3>5. Before(k) = 0
      BY <1>1, <2>5, InLine DEF Before
    <3> QED
      BY <2>1, <2>2, <3>4, <3>5
  <2> QED
    BY <1>0, <2>3, <2>4, <2>5 DEF Pipes!Std
<1> QED
  BY <1>0, <1>2, DiesInv

\* An item goes on. Nobody is without a reader in a line that is not hurt: the next
\* command has not ended, for this one still holds an item.
LEMMA WriteInv ==
  ASSUME PipelineInv, NEW k \in Pipes!Stages, Pipes!WriteItem(k)
  PROVE  PipelineInv'
<1>0. PipeTypes /\ holds \in [Pipes!Stages -> BOOLEAN] /\ pipe \in [Pipes!Pipes -> Nat]
      /\ input \in Nat /\ output \in Nat /\ FlowInv /\ OrderInv /\ EndsInv
  BY DEF PipelineInv, PipeTypes
<1>1. /\ stage[k] = "run" /\ holds[k]
      /\ \/ /\ "out" \notin std[k] \/ (k < num_commands /\ ~Pipes!HeldOpen(Pipes!Read(k)))
            /\ Pipes!Dies(k) /\ UNCHANGED <<holds, pipe, output>>
         \/ /\ \/ k = num_commands /\ output' = output + 1 /\ UNCHANGED pipe
               \/ k < num_commands /\ pipe' = [pipe EXCEPT ![k] = @ + 1] /\ UNCHANGED output
            /\ holds' = [holds EXCEPT ![k] = FALSE] /\ UNCHANGED <<stage, ends>>
      /\ UNCHANGED <<shell, num_commands, std, input, hurt, lines_typed>>
  BY DEF Pipes!WriteItem
<1>2. /\ k \in Line /\ k - 1 \in Pipes!Pipes /\ k \in Pipes!Pipes /\ k \in Nat /\ k >= 1
      /\ shell # "prompt" /\ Line' = Line /\ num_commands \in Pipes!Pipes
  BY <1>0, <1>1, Started, InLine DEF Line
<1>3. Held(k) = 1
  BY <1>1 DEF Held
<1>4. CASE /\ "out" \notin std[k] \/ (k < num_commands /\ ~Pipes!HeldOpen(Pipes!Read(k)))
           /\ Pipes!Dies(k) /\ UNCHANGED <<holds, pipe, output>>
  <2>1. ASSUME ~hurt, shell # "ended", NEW w, Flow(w) PROVE FALSE
    <3>1. std[k] = Pipes!Std
      BY <1>0, <1>1, <1>2, <2>1 DEF EndsInv
    <3>2. k < num_commands /\ ~Pipes!HeldOpen(Pipes!Read(k))
      BY <1>4, <3>1 DEF Pipes!Std
    <3>3. k + 1 \in Line /\ Pipes!Read(k) \in Own(k + 1)
      BY <1>0, <1>2, <3>2, InLine, OwnEnds
    <3>4. stage[k + 1] \in {"none", "set-up", "run", "dead"}
      BY <1>0, <3>3, InLine DEF PipeTypes
    <3>5. CASE stage[k + 1] \in {"set-up", "run"}
      BY <2>1, <3>2, <3>3, <3>5, HeldBy
    <3>6. CASE stage[k + 1] = "none"
      <4>1. shell = "fork"
        BY <1>0, <1>2, <2>1, <3>3, <3>6 DEF OrderInv, PipeTypes
      <4>2. Pipes!Read(k) \in ends[0]
        BY <1>0, <3>3, <4>1 DEF EndsInv, Own
      <4> QED
        BY <1>0, <3>2, <4>2, InLine DEF Pipes!HeldOpen
    <3>7. CASE stage[k + 1] = "dead"
      <4>1. /\ w[k - 1] = Before(k) + 1 + w[k] /\ w[k] = Before(k + 1) + Held(k + 1) + w[k + 1]
            /\ w[k + 1] = Items /\ w[k - 1] <= Items
        <5>1. /\ w[k - 1] = Before(k) + Held(k) + w[k]
              /\ w[(k + 1) - 1] = Before(k + 1) + Held(k + 1) + w[k + 1]
              /\ w[k + 1] = Items /\ w[k - 1] <= Items
          BY <1>2, <2>1, <3>3, <3>7 DEF Flow
        <5>2. (k + 1) - 1 = k
          BY <1>2
        <5> QED
          BY <1>3, <5>1, <5>2
      <4>2. Before(k) \in Nat /\ Before(k + 1) \in Nat /\ Held(k + 1) \in Nat /\ Items \in Nat
        BY <1>0, <1>2, PipelineAssumption DEF Before, Held
      <4> QED
        BY <4>1, <4>2
    <3> QED
      BY <3>4, <3>5, <3>6, <3>7
  <2> QED
    BY <1>1, <1>4, <2>1, DiesInv
<1>5. CASE /\ \/ k = num_commands /\ output' = output + 1 /\ UNCHANGED pipe
              \/ k < num_commands /\ pipe' = [pipe EXCEPT ![k] = @ + 1] /\ UNCHANGED output
           /\ holds' = [holds EXCEPT ![k] = FALSE] /\ UNCHANGED <<stage, ends>>
  <2>1. holds' \in [Pipes!Stages -> BOOLEAN]
    BY <1>0, <1>5
  <2>2. pipe' \in [Pipes!Pipes -> Nat] /\ input' \in Nat /\ output' \in Nat
    BY <1>0, <1>1, <1>2, <1>5
  <2>3. Held(k)' = 0 /\ \A j \in Line \ {k} : Held(j)' = Held(j)
    BY <1>0, <1>5, InLine DEF Held
  <2>4. \A j \in Line : j # k + 1 => Before(j)' = Before(j)
    <3> SUFFICES ASSUME NEW j \in Line, j # k + 1 PROVE Before(j)' = Before(j)
      OBVIOUS
    <3>1. j - 1 \in Pipes!Pipes /\ j - 1 # k
      BY <1>0, <1>2, InLine
    <3> QED
      BY <1>0, <1>1, <1>5, <3>1 DEF Before
  <2>5. k < num_commands => Before(k + 1)' = Before(k + 1) + 1 /\ Before(k + 1) \in Nat
    <3>1. (k + 1) - 1 = k /\ k + 1 # 1
      BY <1>2
    <3> QED
      BY <1>0, <1>2, <1>5, <3>1 DEF Before
  <2>6. ASSUME NEW w, Flow(w) PROVE \E u : Flow(u)'
    <3> DEFINE u == [w EXCEPT ![k] = w[k] + 1]
    <3>0. w \in [Pipes!Pipes -> Nat] /\ Items \in Nat /\ \A j \in Pipes!Pipes : w[j] <= Items
      BY <2>6, PipelineAssumption DEF Flow
    <3>1. u[k] = w[k] + 1 /\ \A j \in Pipes!Pipes \ {k} : u[j] = w[j]
      BY <1>2, <3>0
    <3>2. w[k - 1] = Before(k) + 1 + w[k] /\ Before(k) \in Nat /\ w[k - 1] <= Items /\ w[k] \in Nat
      BY <1>0, <1>2, <1>3, <2>6, <3>0 DEF Flow, Before
    <3>3. u \in [Pipes!Pipes -> Nat] /\ \A j \in Pipes!Pipes : u[j] <= Items
      BY <1>2, <3>0, <3>1, <3>2
    <3> HIDE DEF u
    <3>4. u[0] = Items /\ u[num_commands] = output'
      BY <1>0, <1>2, <1>5, <2>6, <3>1, InLine DEF Flow
    <3>5. ASSUME NEW j \in Line PROVE u[j - 1] = Before(j)' + Held(j)' + u[j]
      <4>1. /\ w[j - 1] = Before(j) + Held(j) + w[j] /\ j \in Pipes!Pipes /\ j - 1 \in Pipes!Pipes
            /\ w[j] \in Nat /\ Held(j) \in Nat /\ Before(j) \in Nat /\ j \in Nat /\ j <= num_commands
            /\ num_commands \in Nat
        BY <1>0, <2>6, <3>0, InLine DEF Flow, Held, Before
      <4>2. CASE j = k
        <5>1. u[j - 1] = w[j - 1]
          BY <1>2, <3>1, <4>1, <4>2
        <5>2. Before(j)' = Before(j)
          BY <1>2, <2>4, <4>2
        <5> QED
          BY <2>3, <3>1, <3>2, <4>2, <5>1, <5>2
      <4>3. CASE j = k + 1
        <5>1. k < num_commands /\ j - 1 = k /\ j # k
          BY <1>2, <4>1, <4>3
        <5>2. Before(j)' = Before(j) + 1 /\ Held(j)' = Held(j) /\ u[j] = w[j]
          BY <2>3, <2>5, <3>1, <4>1, <4>3, <5>1
        <5> QED
          BY <3>1, <4>1, <5>1, <5>2
      <4>4. CASE j # k /\ j # k + 1
        <5>1. j - 1 # k
          BY <1>2, <4>1, <4>4
        <5> QED
          BY <2>3, <2>4, <3>1, <4>1, <4>4, <5>1
      <4> QED
        BY <4>2, <4>3, <4>4
    <3>6. \A j \in Line : stage'[j] = "dead" => u[j] = Items
      BY <1>0, <1>1, <1>5, <2>6, <3>1, InLine DEF Flow
    <3>7. Flow(u)'
      BY <1>1, <1>2, <3>3, <3>4, <3>5, <3>6 DEF Flow
    <3> QED
      BY <3>7
  <2>7. FlowInv'
    BY <1>0, <1>1, <2>6 DEF FlowInv
  <2> QED
    BY <1>1, <1>5, <2>1, <2>2, <2>7, OnlyItems
<1> QED
  BY <1>1, <1>4, <1>5

\* Every step keeps the invariant.
LEMMA PipelineNext ==
  ASSUME PipelineInv, [Pipes!Next]_pipeVars
  PROVE  PipelineInv'
<1>1. ASSUME NEW k \in Pipes!Stages, Pipes!EndsEarly(k) PROVE PipelineInv'
  BY <1>1, DiesInv DEF Pipes!EndsEarly
<1>2. CASE UNCHANGED pipeVars
  <2>1. UNCHANGED <<shell, num_commands, stage, ends, std, holds, pipe, input, output, hurt,
                    lines_typed>>
    BY <1>2 DEF pipeVars
  <2>2. FlowInv'
    <3>1. \A w : Flow(w) => Flow(w)'
      BY <2>1, FlowStays
    <3> QED
      BY <2>1, <3>1 DEF PipelineInv, FlowInv
  <2> QED
    BY <2>1, <2>2, OnlyItems DEF PipelineInv, PipeTypes
<1> QED
  BY <1>1, <1>2, TypedInv, ShellInv, SetUpInv, ReadInv, EofInv, WriteInv
     DEF Pipes!Next, Pipes!StageStep

\* At the prompt after a line, all the input has come out of a pipeline of which no
\* command failed to start, ended early or lost a standard stream
\* (WhatGoesInComesOut; interpreter.c:63-119).
THEOREM AllComesOut == ProgramsSpec => []WhatGoesInComesOut
<1>1. PipelineInv => WhatGoesInComesOut
  <2> SUFFICES ASSUME PipelineInv, shell = "prompt", lines_typed > 0, ~hurt PROVE output = Items
    BY DEF WhatGoesInComesOut, Pipes!WhatGoesInComesOut
  <2>1. num_commands \in Nat /\ num_commands # 0
    BY InLine DEF PipelineInv, OrderInv
  <2>2. num_commands \in Line /\ stage[num_commands] = "dead"
    BY <2>1 DEF PipelineInv, OrderInv, Line
  <2>3. PICK w : Flow(w)
    BY <2>1 DEF PipelineInv, FlowInv
  <2> QED
    BY <2>2, <2>3 DEF Flow
<1>2. Start => PipelineInv
  BY PipelineInit DEF Start
<1>3. PipelineInv /\ [Turn /\ Others /\ UNCHANGED program]_allVars => PipelineInv'
  BY EveryStep, PipelineNext
<1> QED
  BY <1>1, <1>2, <1>3, PTL DEF ProgramsSpec

-----------------------------------------------------------------------------
(* The programs of module2, whose invariants Module2Proofs has.             *)

\* However the rights were entered, read and changed, the nine bits are the rights
\* the user means, and what is printed, in letters or in digits, is the same rights
\* when it is entered again (RightsAreMeant; permissions.c:3-116).
THEOREM BitsAreMeant == ProgramsSpec => []RightsAreMeant
<1>1. Start => RightsInv
  BY RightsInit DEF Start, Module2Init
<1>2. RightsInv /\ [Turn /\ Others /\ UNCHANGED program]_allVars => RightsInv'
  BY EveryStep, RightsNext
<1> QED
  BY <1>1, <1>2, MeantShown, PTL DEF ProgramsSpec

\* In any order of calls the queue is one chain, the same in both directions, whose
\* head is the most urgent element (pqueue.c:27-129).
THEOREM OneChainInOrder == ProgramsSpec => []QueueInOrder
<1>1. Start => ElementsInv
  BY QueueInit DEF Start, Module2Init
<1>2. ElementsInv /\ [Turn /\ Others /\ UNCHANGED program]_allVars => ElementsInv'
  BY EveryStep, QueueSteps
<1> QED
  BY <1>1, <1>2, ChainIsOrder, PTL DEF ProgramsSpec

-----------------------------------------------------------------------------
(* The contact books of module2.                                           *)
\* The console starts with an empty book.
LEMMA ConsoleStart == Start => ConsoleInv /\ Promise!BookInit
BY ConsoleInit DEF Start, Module2Init, Promise!BookInit

\* A turn of the console is one of the promise, and fails only as it may.
LEMMA ConsoleTurn ==
  ASSUME ConsoleInv, [Turn /\ Others /\ UNCHANGED program]_allVars
  PROVE  /\ ConsoleInv'
         /\ [Promise!BookNext]_(Promise!bookVars)
         /\ [RefusedOnlyAfterDeletion /\ LostByOldestOrByte /\ PhonesNeverEmptied]_vars
<1>1. [Next]_vars
  BY EveryStep
<1>2. ConsoleInv' /\ (GoodStep \/ UNCHANGED vars)
  BY <1>1, ConsoleStep
<1>3. CASE UNCHANGED vars
  <2>1. UNCHANGED Promise!bookVars
    BY <1>3 DEF vars, Promise!bookVars, Contents
  <2> QED
    BY <1>2, <1>3, <2>1
<1>4. CASE GoodStep
  <2>1. Outcome /\ RefusedOnlyAfterDeletion /\ LostByOldestOrByte
    BY <1>4 DEF GoodStep
  <2>2. (Promise!BookNext \/ UNCHANGED Promise!bookVars) /\ PhonesNeverEmptied
    BY <1>2, <2>1, KeepsPromise
  <2> QED
    BY <1>2, <2>1, <2>2
<1> QED
  BY <1>2, <1>3, <1>4

\* Whichever structure is below it, a command stores, changes or removes at most one
\* contact, and an id is never used twice (contacts.c of module2/task1/2.1, task3/4.1
\* and 4.3).
THEOREM ContactsAreKept == ProgramsSpec => KeepsItsContacts
<1>1. Start => ConsoleInv /\ Promise!BookInit
  BY ConsoleStart
<1>2. ConsoleInv /\ [Turn /\ Others /\ UNCHANGED program]_allVars
      => ConsoleInv' /\ [Promise!BookNext]_(Promise!bookVars)
  BY ConsoleTurn
<1> QED
  BY <1>1, <1>2, PTL DEF ProgramsSpec, KeepsItsContacts, Promise!BookSpec

\* Commands fail for three reasons only: an id that is no index of the array, the
\* oldest of several contacts deleted from the tree or one too many added to it, and
\* an emptied list of phone numbers (contacts.c:61, 4.3/contacts.c:26, avltree.c:46).
THEOREM FailuresAreKnown == ProgramsSpec => CommandsFailOnlyThen
<1>1. Start => ConsoleInv
  BY ConsoleStart
<1>2. ConsoleInv /\ [Turn /\ Others /\ UNCHANGED program]_allVars
      => /\ ConsoleInv'
         /\ [RefusedOnlyAfterDeletion /\ LostByOldestOrByte /\ PhonesNeverEmptied]_vars
  BY ConsoleTurn
<1> QED
  BY <1>1, <1>2, PTL DEF ProgramsSpec, CommandsFailOnlyThen

\* A contact is found by its own names, but for those a tree of ids hides behind an
\* older contact (avltree.c:107-125).
THEOREM NamesFind == ProgramsSpec => []StoredIsFound
<1>1. Start => ConsoleInv
  BY ConsoleStart
<1>2. ConsoleInv /\ [Turn /\ Others /\ UNCHANGED program]_allVars => ConsoleInv'
  BY ConsoleTurn
<1> QED
  BY <1>1, <1>2, FoundByItsName, PTL DEF ProgramsSpec

-----------------------------------------------------------------------------
(* The contacts of module3/03 and their file.                              *)
Stored == [name : People, work : Workplaces \union {"none"}]

\* While a run that lost nothing lasts, its list is what the user asked for; and what
\* is written of a list stands in the file.
FixedInv ==
  /\ list \in Seq(Stored) /\ bin \in Seq(Stored)
  /\ Len(list) <= MAX_CONTACT_SIZE /\ Len(bin) <= MAX_CONTACT_SIZE
  /\ doing \in {"calls", "full", "write"} /\ ~damaged => list = truth
  /\ doing = "calls" => written = 0
  /\ doing = "write" => written \in 0..Len(list) /\ bin = SubSeq(list, 1, written)
  /\ doing = "off" /\ ~damaged => bin = truth

\* The empty list and file of the first run.
LEMMA FixedInit == Fixed!Init => FixedInv
<1> SUFFICES ASSUME Fixed!Init PROVE FixedInv
  OBVIOUS
<1>1. /\ bin = << >> /\ list = << >> /\ doing = "off" /\ truth = << >> /\ damaged = FALSE
  BY DEF Fixed!Init
<1>2. << >> \in Seq(Stored) /\ Len(<< >>) = 0 /\ MAX_CONTACT_SIZE \in Nat
  BY SizesAssumption
<1> QED
  BY <1>1, <1>2 DEF FixedInv

\* The contact that is changed or deleted is one of the list.
LEMMA FirstNamed ==
  ASSUME NEW c \in Seq(Stored), NEW name, Fixed!Named(c, name) # {}
  PROVE  Fixed!FirstOf(c, name) \in 1..Len(c)
<1>1. Fixed!Named(c, name) \in SUBSET Nat /\ Fixed!Named(c, name) \subseteq 1..Len(c)
  BY DEF Fixed!Named
<1>2. \E m \in Fixed!Named(c, name) : \A j \in Fixed!Named(c, name) : m <= j
  BY <1>1, LeastOf
<1>3. Fixed!FirstOf(c, name) \in Fixed!Named(c, name)
  BY <1>2 DEF Fixed!FirstOf
<1> QED
  BY <1>1, <1>3

\* The contacts that are moved down are those that the deleted one leaves.
LEMMA MovedDown ==
  ASSUME NEW c \in Seq(Stored), NEW k \in 1..Len(c)
  PROVE  /\ Fixed!moved_down(c, k) = Fixed!RemoveAt(c, k)
         /\ Fixed!moved_down(c, k) \in Seq(Stored) /\ Len(Fixed!moved_down(c, k)) = Len(c) - 1
<1>1. PICK r : r = RemoveAt(c, k)
  OBVIOUS
<1>2. /\ r \in Seq(Stored) /\ Len(r) = Len(c) - 1
      /\ \A i \in 1..(Len(c) - 1) : r[i] = IF i < k THEN c[i] ELSE c[i + 1]
  BY <1>1, RemovesOne
<1>3. r = [j \in 1..(Len(c) - 1) |-> IF j < k THEN c[j] ELSE c[j + 1]]
  <2>1. r = [j \in 1..(Len(c) - 1) |-> r[j]]
    BY <1>2
  <2> QED
    BY <1>2, <2>1
<1>4. Fixed!moved_down(c, k) = r
  BY <1>3 DEF Fixed!moved_down
<1>5. Fixed!RemoveAt(c, k) = r
  BY <1>1 DEF Fixed!RemoveAt, RemoveAt
<1> QED
  BY <1>2, <1>4, <1>5

\* The calls keep the list what the user asked for.
LEMMA FixedCalls ==
  ASSUME FixedInv, NEW name \in People, NEW work,
         \/ Fixed!add_contact(name) \/ Fixed!delete_contact(name)
         \/ work \in Workplaces /\ Fixed!update_contact_list(name, work)
  PROVE  FixedInv'
<1>0. MAX_CONTACT_SIZE \in Nat
  BY SizesAssumption
<1>1. doing = "calls" /\ bin' = bin /\ written' = written /\ damaged' = damaged
  BY DEF Fixed!add_contact, Fixed!delete_contact, Fixed!update_contact_list, Fixed!Call
<1>2. /\ list \in Seq(Stored) /\ bin \in Seq(Stored) /\ written = 0
      /\ damaged \/ list = truth
      /\ Len(list) <= MAX_CONTACT_SIZE /\ Len(bin) <= MAX_CONTACT_SIZE
  BY <1>1 DEF FixedInv
<1>3. /\ list' \in Seq(Stored) /\ (list = truth => list' = truth')
      /\ Len(list') <= MAX_CONTACT_SIZE /\ doing' \in {"calls", "full"}
  <2>1. CASE Fixed!add_contact(name)
    <3>1. PICK c \in Stored : c = [name |-> name, work |-> "none"]
      BY DEF Stored
    <3>2. CASE UNCHANGED <<list, truth>>
      BY <1>1, <1>2, <2>1, <3>2 DEF Fixed!add_contact
    <3>3. CASE ~ UNCHANGED <<list, truth>>
      <4>1. /\ Len(list) # MAX_CONTACT_SIZE /\ doing' = doing
            /\ list' = Append(list, c) /\ truth' = Append(truth, c)
        BY <2>1, <3>1, <3>3 DEF Fixed!add_contact
      <4> QED
        BY <1>0, <1>1, <1>2, <4>1
    <3> QED
      BY <3>2, <3>3
  <2>2. CASE Fixed!delete_contact(name)
    <3>1. CASE Fixed!Named(list, name) = {}
      BY <1>1, <1>2, <2>2, <3>1 DEF Fixed!delete_contact
    <3>2. CASE Fixed!Named(list, name) # {}
      <4>1. PICK k \in 1..Len(list) : k = Fixed!FirstOf(list, name)
        BY <1>2, <3>2, FirstNamed
      <4>2. /\ list' = Fixed!moved_down(list, k) /\ doing' = doing
            /\ list = truth => truth' = Fixed!RemoveAt(list, k)
        BY <1>2, <2>2, <3>2, <4>1 DEF Fixed!delete_contact
      <4>3. /\ Fixed!moved_down(list, k) = Fixed!RemoveAt(list, k)
            /\ Fixed!moved_down(list, k) \in Seq(Stored)
            /\ Len(Fixed!moved_down(list, k)) = Len(list) - 1
        BY <1>2, MovedDown
      <4> QED
        BY <1>0, <1>1, <1>2, <4>2, <4>3
    <3> QED
      BY <3>1, <3>2
  <2>3. CASE work \in Workplaces /\ Fixed!update_contact_list(name, work)
    <3>1. CASE Fixed!Named(list, name) = {}
      BY <1>1, <1>2, <2>3, <3>1 DEF Fixed!update_contact_list
    <3>2. CASE Fixed!Named(list, name) # {}
      <4>1. PICK k \in 1..Len(list) : k = Fixed!FirstOf(list, name)
        BY <1>2, <3>2, FirstNamed
      <4>2. /\ list' = [list EXCEPT ![k].work = work] /\ doing' = doing
            /\ list = truth => truth' = [list EXCEPT ![k].work = work]
        BY <1>2, <2>3, <3>2, <4>1 DEF Fixed!update_contact_list
      <4>3. [list[k] EXCEPT !.work = work] \in Stored
        <5>1. PICK x \in Stored : x = list[k]
          BY <1>2
        <5>2. [x EXCEPT !.work = work] \in Stored
          BY <2>3 DEF Stored
        <5> QED
          BY <5>1, <5>2
      <4>4. list' = [list EXCEPT ![k] = [list[k] EXCEPT !.work = work]]
        BY <1>2, <4>2
      <4>5. list' \in Seq(Stored) /\ Len(list') = Len(list)
        BY <1>2, <4>3, <4>4
      <4> QED
        BY <1>1, <1>2, <4>2, <4>5
    <3> QED
      BY <3>1, <3>2
  <2> QED
    BY <2>1, <2>2, <2>3
<1> QED
  BY <1>1, <1>2, <1>3 DEF FixedInv

\* Reading, the calls, writing one by one, failing and being killed keep it.
LEMMA FixedNext ==
  ASSUME FixedInv, [Fixed!Next]_fixedVars
  PROVE  FixedInv'
<1>0. MAX_CONTACT_SIZE \in Nat
  BY SizesAssumption
<1>1. /\ list \in Seq(Stored) /\ bin \in Seq(Stored)
      /\ Len(list) <= MAX_CONTACT_SIZE /\ Len(bin) <= MAX_CONTACT_SIZE
      /\ Len(list) \in Nat /\ Len(bin) \in Nat
  BY DEF FixedInv
<1>2. CASE UNCHANGED fixedVars
  BY <1>2 DEF fixedVars, FixedInv
<1>3. CASE Fixed!read_from_file \/ Fixed!ReadFails
  <2>1. PICK n \in 0..Len(bin) : Fixed!RunFrom(SubSeq(bin, 1, n))
    <3>1. SubSeq(bin, 1, Len(bin)) = bin
      BY <1>1, SubSeqFull
    <3>2. Len(bin) \in 0..Len(bin) /\ 0..(Len(bin) - 1) \subseteq 0..Len(bin)
      BY <1>1
    <3>3. CASE Fixed!read_from_file
      BY <3>1, <3>2, <3>3 DEF Fixed!read_from_file
    <3>4. CASE Fixed!ReadFails
      BY <3>2, <3>4 DEF Fixed!ReadFails
    <3> QED
      BY <1>3, <3>3, <3>4
  <2>2. PICK c \in Seq(Stored) : c = SubSeq(bin, 1, n) /\ Len(c) = n
    <3>1. n \in Int /\ 1 \in Int /\ \A k \in 1..n : bin[k] \in Stored
      BY <1>1
    <3>2. SubSeq(bin, 1, n) \in Seq(Stored) /\ Len(SubSeq(bin, 1, n)) = IF 1 <= n THEN n - 1 + 1 ELSE 0
      BY <3>1, SubSeqProperties
    <3>3. Len(SubSeq(bin, 1, n)) = n
      BY <3>2
    <3> QED
      BY <3>2, <3>3
  <2>3. Fixed!RunFrom(c)
    BY <2>1, <2>2
  <2>4. Len(c) <= MAX_CONTACT_SIZE
    BY <1>0, <1>1, <2>2
  <2> QED
    BY <1>1, <2>3, <2>4 DEF Fixed!RunFrom, FixedInv
<1>4. CASE Fixed!OpenForWriting
  <2>1. /\ doing = "calls" /\ doing' = "write" /\ bin' = << >> /\ list' = list
        /\ written' = written /\ truth' = truth
    BY <1>4 DEF Fixed!OpenForWriting
  <2>2. (damaged \/ list = truth) /\ written = 0 /\ damaged' = damaged
    BY <1>4, <2>1 DEF Fixed!OpenForWriting, FixedInv
  <2>3. << >> \in Seq(Stored) /\ Len(<< >>) = 0 /\ SubSeq(list, 1, 0) = << >>
    BY <1>1
  <2> QED
    BY <1>0, <1>1, <2>1, <2>2, <2>3 DEF FixedInv
<1>5. CASE Fixed!WriteContact
  <2>1. doing = "write" /\ list' = list /\ truth' = truth /\ damaged' = damaged
    BY <1>5 DEF Fixed!WriteContact
  <2>2. PICK w \in 0..Len(list) : w = written /\ bin = SubSeq(list, 1, w)
    BY <2>1 DEF FixedInv
  <2>3. damaged \/ list = truth
    BY <2>1 DEF FixedInv
  <2>4. CASE w < Len(list)
    <3>1. bin' = Append(bin, list[w + 1]) /\ written' = w + 1 /\ doing' = "write"
      BY <1>5, <2>1, <2>2, <2>4 DEF Fixed!WriteContact
    <3>2. bin' = SubSeq(list, 1, w + 1)
      <4>1. w + 1 \in 1..Len(list) /\ Len(bin) = w
        BY <1>1, <2>2, <2>4
      <4>2. \A i \in 1..w : bin[i] = list[i]
        BY <1>1, <2>2
      <4>3. list[w + 1] \in Stored
        BY <1>1, <4>1
      <4> QED
        BY <1>1, <2>2, <3>1, <4>1, <4>2, <4>3
    <3>3. w + 1 \in 0..Len(list)
      BY <1>1, <2>4
    <3>4. bin' \in Seq(Stored) /\ Len(bin') = w + 1
      BY <1>1, <3>2, <3>3
    <3> QED
      BY <1>0, <1>1, <2>1, <2>3, <3>1, <3>2, <3>3, <3>4 DEF FixedInv
  <2>5. CASE ~ (w < Len(list))
    <3>1. bin' = bin /\ written' = written /\ doing' = "off"
      BY <1>5, <2>2, <2>5 DEF Fixed!WriteContact
    <3>2. w = Len(list)
      BY <1>1, <2>5
    <3>3. bin = list
      BY <1>1, <2>2, <3>2
    <3> QED
      BY <1>1, <2>1, <2>3, <3>1, <3>3 DEF FixedInv
  <2> QED
    BY <2>4, <2>5
<1>6. CASE Fixed!WriteFails \/ Fixed!OpenFails
  BY <1>6 DEF Fixed!WriteFails, Fixed!OpenFails, FixedInv
<1>7. CASE Fixed!Kill
  BY <1>7 DEF Fixed!Kill, FixedInv
<1>8. ASSUME NEW name \in People, NEW work,
             \/ Fixed!add_contact(name) \/ Fixed!delete_contact(name)
             \/ work \in Workplaces /\ Fixed!update_contact_list(name, work)
      PROVE  FixedInv'
  BY <1>8, FixedCalls
<1> QED
  BY <1>2, <1>3, <1>4, <1>5, <1>6, <1>7, <1>8 DEF Fixed!Next

\* The file keeps the contacts from one run to the next.
LEMMA FixedSound == FixedInv => Fixed!FileKeepsContacts
BY DEF FixedInv, Fixed!FileKeepsContacts

\* The books of module2 stay sound under any commands (ContactConsole), the bare tree
\* stays a search tree under keys in any order (Module2), and the file of module3/03
\* holds what its calls have made of it (FixedBook).
THEOREM OrderIsKept == ProgramsSpec => []BooksKeepOrder
<1>1. Start => ConsoleInv /\ FixedInv /\ TreeInv
  BY ConsoleStart, FixedInit, TreeInit DEF Start, Module2Init
<1>2. ConsoleInv /\ FixedInv /\ TreeInv /\ [Turn /\ Others /\ UNCHANGED program]_allVars
      => ConsoleInv' /\ FixedInv' /\ TreeInv'
  BY ConsoleTurn, EveryStep, FixedNext, TreeNextKeeps
<1>3. ConsoleInv /\ FixedInv /\ TreeInv => BooksKeepOrder
  BY SoundStructures, FixedSound, TreeSound DEF BooksKeepOrder
<1> QED
  BY <1>1, <1>2, <1>3, PTL DEF ProgramsSpec
=============================================================================
