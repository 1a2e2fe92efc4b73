------------------------------ MODULE TaxiProofs -----------------------------
(***************************************************************************)
(* The taxi dispatcher of module3/c02 for any number of drivers, commands  *)
(* and signals.                                                            *)
(***************************************************************************)
EXTENDS Taxi, Integers, SequenceTheorems, TLAPS

Places == {"none", "start", "openD", "openS", "select", "read", "reopen", "dead"}
Exchanging == spc \in {"open", "write", "closeD", "openS", "wait", "closeS"}

Types ==
  /\ TypeOK
  /\ Exchanging => cmd \in Command
  /\ spc = "forked" => driver_count < MaxDrivers /\ dpc[driver_count + 1] # "none"

\* A driver past the making of its FIFOs has their names; a command is unread only
\* while an end of driver_fifo is open; a number not given out yet has nothing.
NamesInv ==
  /\ \A d \in Drivers :
       /\ dpc[d] \in {"openD", "openS", "select", "read", "reopen"} => d \in named
       /\ cmds[d] # << >> => CommandReader(d) \/ CommandWriter(d) \/ spc \in {"killed", "bye"}
       /\ d > driver_count + 1 => dpc[d] = "none" /\ d \notin named
       /\ d = driver_count + 1 /\ spc \notin {"forked", "bye"} => dpc[d] = "none"
  /\ QuitLeavesNobody

\* Until a notice nobody asked for: what is unread, of commands and of replies, is
\* of the command the server is about, first the command and then its answer.
CurrentInv == ~unasked =>
  /\ \A d \in Drivers : cmds[d] # << >> =>
       /\ Len(cmds[d]) = 1 /\ cmds[d][1].num = cmd.num /\ cmd.to = d
       /\ msgs[d] = << >> /\ spc \in {"closeD", "openS", "wait", "bye"}
  /\ \A d \in Drivers : msgs[d] # << >> =>
       Len(msgs[d]) = 1 /\ msgs[d][1].num = cmd.num /\ cmd.to = d /\ spc \in {"wait", "bye"}
  /\ hup /\ spc \in {"wait", "closeS"} => cmds[cmd.to] = << >>
  /\ AnswerIsCurrent

\* Until a signal: a driver answers its first command only when the server waits for
\* the answer, for it opens server_fifo in between.
FirstInv == kills = 0 /\ spc # "bye" =>
  /\ spc # "killed" /\ ~hup
  /\ \A d \in Drivers :
       /\ dpc[d] # "dead"
       /\ CommandWriter(d) => CommandReader(d)
       /\ Len(cmds[d]) <= sent[d]
       /\ sent[d] = 0 => /\ busy[d] = "no" /\ msgs[d] = << >>
                         /\ dpc[d] \in {"none", "start", "openD", "openS"}
                         /\ ~(spc \in {"closeD", "openS", "wait", "closeS"} /\ cmd.to = d)
       /\ sent[d] = 1 /\ cmds[d] # << >> =>
            /\ cmd.to = d /\ busy[d] = "no" /\ msgs[d] = << >>
            /\ \/ spc \in {"closeD", "openS"} /\ dpc[d] \in {"openD", "openS"}
               \/ spc = "wait"
  /\ \A d \in lost : sent[d] >= 2

-----------------------------------------------------------------------------
(* What the operators the steps are made of do.                            *)

\* Drivers are numbered, and a command that is on its way is for one of them.
LEMMA Numbers ==
  /\ Drivers \subseteq Nat \ {0}
  /\ \A c \in Command : c.to \in Drivers /\ c.num \in Nat \ {0} /\ c.num \in 0..MaxCommands
<1>1. Drivers \subseteq Nat \ {0}
  BY BoundsAssumption DEF Drivers
<1> QED
  BY <1>1, BoundsAssumption DEF Command

\* Drivers in the table have numbers.
LEMMA Recorded ==
  ASSUME TypeOK
  PROVE  /\ driver_count \in Nat /\ driver_count <= MaxDrivers /\ MaxDrivers \in Nat
         /\ \A d \in 1..driver_count : d \in Drivers
BY BoundsAssumption DEF TypeOK, Drivers

\* Something is put at the end of a sequence.
LEMMA OneMore ==
  ASSUME NEW S, NEW s \in Seq(S), NEW x \in S
  PROVE  /\ s \o <<x>> \in Seq(S) /\ Len(s \o <<x>>) = Len(s) + 1 /\ s \o <<x>> # << >>
         /\ s = << >> => Len(s \o <<x>>) = 1 /\ (s \o <<x>>)[1] = x
<1>1. s \o <<x>> \in Seq(S) /\ Len(s \o <<x>>) = Len(s) + 1
  OBVIOUS
<1>2. s \o <<x>> # << >>
  BY <1>1
<1>3. s = << >> => Len(s \o <<x>>) = 1 /\ (s \o <<x>>)[1] = x
  OBVIOUS
<1> QED
  BY <1>1, <1>2, <1>3

\* One word of a driver goes into its server_fifo, or is lost.
LEMMA Telling ==
  ASSUME TypeOK, NEW d \in Drivers, NEW num \in 0..MaxCommands,
         NEW kind \in {"busy", "available", "error"}, NEW skipped \in BOOLEAN,
         Tell(d, num, <<kind>>, skipped)
  PROVE  /\ msgs' \in [Drivers -> Seq(Reply)]
         /\ \A e \in Drivers : msgs'[e] # msgs[e] => e = d /\ ReplyReader(d)
         /\ ReplyReader(d) => msgs'[d] # << >>
         /\ ReplyReader(d) /\ msgs[d] = << >> => Len(msgs'[d]) = 1 /\ msgs'[d][1].num = num
         /\ lost' \subseteq Drivers /\ sent' = sent
         /\ \A e \in lost' : e \in lost \/ (e = d /\ (skipped = TRUE \/ ~ReplyReader(d)))
         /\ num = 0 /\ skipped = FALSE => lost' = lost
         /\ unasked' \in BOOLEAN /\ (unasked = TRUE => unasked' = TRUE)
         /\ unasked' = FALSE => num # 0 \/ ~ReplyReader(d)
<1> DEFINE r == [num |-> num, kind |-> kind]
           more == [k \in DOMAIN <<kind>> |-> [num |-> num, kind |-> <<kind>>[k]]]
<1>1. more = <<r>>
  OBVIOUS
<1>2. r \in Reply /\ r.num = num
  BY DEF Reply
<1>3. msgs' = IF ReplyReader(d) THEN [msgs EXCEPT ![d] = @ \o more] ELSE msgs
  BY DEF Tell
<1>4. msgs[d] \in Seq(Reply)
  BY DEF TypeOK
<1> HIDE DEF more, r
<1>5. /\ msgs[d] \o more \in Seq(Reply) /\ msgs[d] \o more # << >>
      /\ msgs[d] = << >> => Len(msgs[d] \o more) = 1 /\ (msgs[d] \o more)[1] = r
  BY <1>1, <1>2, <1>4, OneMore
<1>6. /\ msgs' \in [Drivers -> Seq(Reply)]
      /\ \A e \in Drivers : msgs'[e] # msgs[e] => e = d /\ ReplyReader(d)
      /\ ReplyReader(d) => msgs'[d] = msgs[d] \o more
  BY <1>3, <1>5 DEF TypeOK
<1>7. lost' \subseteq Drivers /\ sent' = sent
  BY DEF TypeOK, Tell
<1>8. \A e \in lost' : e \in lost \/ (e = d /\ (skipped = TRUE \/ ~ReplyReader(d)))
  BY DEF TypeOK, Tell
<1>9. num = 0 /\ skipped = FALSE => lost' = lost
  BY DEF TypeOK, Tell
<1>10. unasked' \in BOOLEAN /\ (unasked = TRUE => unasked' = TRUE)
  BY DEF TypeOK, Tell
<1>11. unasked' = FALSE => num # 0 \/ ~ReplyReader(d)
  BY DEF TypeOK, Tell
<1> QED
  BY <1>2, <1>5, <1>6, <1>7, <1>8, <1>9, <1>10, <1>11

\* The drivers in K die, and FIFOs that nobody has open are emptied.
LEMMA Dying ==
  ASSUME TypeOK, NEW K \in SUBSET Drivers, Die(K)
  PROVE  /\ dpc' \in [Drivers -> Places]
         /\ cmds' \in [Drivers -> Seq(Command)] /\ msgs' \in [Drivers -> Seq(Reply)]
         /\ hup' \in BOOLEAN /\ lost' \subseteq Drivers
         /\ \A d \in Drivers : /\ dpc'[d] = IF d \in K THEN "dead" ELSE dpc[d]
                               /\ cmds'[d] \in {cmds[d], << >>} /\ msgs'[d] \in {msgs[d], << >>}
                               /\ d \in K /\ ~CommandWriter(d) => cmds'[d] = << >>
         /\ hup' => hup \/ \E d \in K : ReplyReader(d)
<1>1. << >> \in Seq(Command) /\ << >> \in Seq(Reply)
  OBVIOUS
<1>2. cmds' \in [Drivers -> Seq(Command)] /\ msgs' \in [Drivers -> Seq(Reply)]
  BY <1>1 DEF TypeOK, Die
<1>3. hup' \in BOOLEAN /\ (hup' => hup \/ \E d \in K : ReplyReader(d))
  BY DEF TypeOK, Die
<1> QED
  BY <1>2, <1>3 DEF TypeOK, Die, Places

\* AnswerTo says one word.
LEMMA OneWord ==
  \A d \in Drivers, kind \in {"TASK", "STATUS"} :
    \E word \in {"busy", "available", "error"} : AnswerTo(d, kind) = <<word>>
BY DEF AnswerTo

-----------------------------------------------------------------------------
\* Every step keeps the types.
LEMMA NextTypes ==
  ASSUME Types, Next
  PROVE  Types'
<1> USE DEF Types, Exchanging, Places
<1>0. spc = "forked" => driver_count + 1 \in Drivers
  BY Recorded DEF Drivers
<1>1. CASE Fork
  <2>1. /\ spc' = "forked" /\ driver_count < MaxDrivers /\ dpc' = [dpc EXCEPT ![driver_count + 1] = "start"]
        /\ UNCHANGED <<driver_count, rest, cmd, shown, hup, named, seen, nonblock, busy,
                       cmds, msgs, kills, history>>
    BY <1>1 DEF Fork
  <2>2. driver_count + 1 \in Drivers
    BY <2>1, Recorded DEF Drivers
  <2>3. /\ dpc' \in [Drivers -> Places]
        /\ dpc'[driver_count + 1] = "start"
        /\ \A d \in 1..driver_count : dpc'[d] # "none"
    BY <2>1, <2>2, Recorded DEF TypeOK
  <2> QED
    BY <2>1, <2>3 DEF history, TypeOK
<1>2. CASE Record
  <2>1. /\ driver_count + 1 \in 0..MaxDrivers
        /\ 1..(driver_count + 1) = 1..driver_count \union {driver_count + 1}
    BY <1>2, Recorded DEF Record
  <2> QED
    BY <1>2, <2>1 DEF Record, others, driverVars, history, TypeOK
<1>3. CASE SendTask \/ GetStatus \/ NextStatus \/ OpenFails
  <2>0. /\ UNCHANGED <<driver_count, shown, hup, others>>
        /\ spc' \in {"open", "prompt"}
    BY <1>3 DEF SendTask, NextCommand, GetStatus, NextStatus, OpenFails, Prompt
  <2>1. \A d \in 1..driver_count : d \in Drivers
    BY Recorded
  <2>2. ASSUME NEW d \in Drivers, NEW kind \in {"TASK", "STATUS"}, NextCommand(d, kind)
        PROVE  cmd' \in Command
    <3>1. cmd.num \in Nat /\ cmd.num + 1 \in 1..MaxCommands
      BY <2>2, Numbers, BoundsAssumption DEF NextCommand, TypeOK, NoCommand
    <3> QED
      BY <2>2, <3>1 DEF NextCommand, Command
  <2>3. rest' \in Seq(Drivers)
    <3>1. CASE GetStatus
      <4>1. \A d \in Drivers : <<d>> \in Seq(Drivers)
        OBVIOUS
      <4>2. [i \in 1..driver_count |-> i] \in Seq(Drivers)
        BY <2>1 DEF TypeOK
      <4> QED
        BY <2>1, <3>1, <4>1, <4>2 DEF GetStatus
    <3>2. CASE NextStatus
      BY <3>2 DEF NextStatus, TypeOK
    <3>3. CASE SendTask \/ OpenFails
      BY <3>3 DEF SendTask, OpenFails, TypeOK
    <3> QED
      BY <1>3, <3>1, <3>2, <3>3
  <2>4. cmd' \in Command \union {NoCommand} /\ (spc' = "open" => cmd' \in Command)
    <3>1. CASE SendTask
      BY <2>1, <2>2, <3>1 DEF SendTask
    <3>2. CASE NextStatus
      <4>1. Head(rest) \in Drivers
        BY <3>2 DEF NextStatus, TypeOK
      <4> QED
        BY <2>2, <3>2, <4>1 DEF NextStatus
    <3>3. CASE GetStatus \/ OpenFails
      BY <3>3 DEF GetStatus, OpenFails, Prompt, TypeOK
    <3> QED
      BY <1>3, <3>1, <3>2, <3>3
  <2> QED
    BY <2>0, <2>3, <2>4 DEF others, driverVars, history, TypeOK
<1>4. CASE OpenCommand
  BY <1>4 DEF OpenCommand, history, TypeOK
<1>5. CASE Write
  <2>1. /\ cmd \in Command /\ cmd.to \in Drivers
        /\ cmds[cmd.to] \in Seq(Command) /\ sent[cmd.to] + 1 \in Nat
    <3>1. cmd \in Command /\ cmd.to \in Drivers
      BY <1>5, Numbers DEF Write
    <3> QED
      BY <3>1 DEF TypeOK
  <2>2. /\ cmds \in [Drivers -> Seq(Command)] /\ sent \in [Drivers -> Nat] /\ lost \subseteq Drivers
        /\ cmds' = cmds \/ cmds' = [cmds EXCEPT ![cmd.to] = Append(@, cmd)]
        /\ sent' = [sent EXCEPT ![cmd.to] = @ + 1] /\ lost' \in {lost, lost \union {cmd.to}}
        /\ spc' \in {"closeD", "killed"}
        /\ UNCHANGED <<driver_count, rest, cmd, shown, hup, driverVars, msgs, kills, unasked>>
    BY <1>5 DEF Write, TypeOK
  <2>3. Append(cmds[cmd.to], cmd) \in Seq(Command)
    BY <2>1
  <2>4. cmds' \in [Drivers -> Seq(Command)]
    BY <2>1, <2>2, <2>3
  <2>5. sent' \in [Drivers -> Nat] /\ lost' \subseteq Drivers
    BY <2>1, <2>2
  <2> QED
    BY <2>1, <2>2, <2>4, <2>5 DEF driverVars, TypeOK
<1>6. CASE CloseCommand
  <2>1. cmd \in Command /\ cmd.to \in Drivers
    BY <1>6, Numbers DEF CloseCommand
  <2>2. << >> \in Seq(Command)
    OBVIOUS
  <2>3. cmds' \in [Drivers -> Seq(Command)] /\ lost' \subseteq Drivers
    BY <1>6, <2>1, <2>2 DEF CloseCommand, TypeOK
  <2> QED
    BY <1>6, <2>1, <2>3 DEF CloseCommand, driverVars, TypeOK
<1>7. CASE OpenReply
  BY <1>7 DEF OpenReply, others, driverVars, history, TypeOK
<1>8. CASE AwaitReply
  <2>1. msgs' \in [Drivers -> Seq(Reply)]
    <3>1. cmd.to \in Drivers /\ << >> \in Seq(Reply)
      BY <1>8, Numbers DEF AwaitReply
    <3> QED
      BY <1>8, <3>1 DEF AwaitReply, TypeOK
  <2> QED
    BY <1>8, <2>1 DEF AwaitReply, driverVars, history, TypeOK
<1>9. CASE CloseReply
  <2>1. msgs' \in [Drivers -> Seq(Reply)]
    <3>1. cmd.to \in Drivers /\ << >> \in Seq(Reply)
      BY <1>9, Numbers DEF CloseReply
    <3> QED
      BY <1>9, <3>1 DEF CloseReply, TypeOK
  <2> QED
    BY <1>9, <2>1 DEF CloseReply, driverVars, history, TypeOK
<1>10. ASSUME NEW K \in SUBSET Drivers, Die(K), kills' \in 0..MaxKills,
              spc' = spc \/ spc' = "bye", named' \subseteq named,
              UNCHANGED <<driver_count, rest, cmd, shown, seen, nonblock, busy, unasked, sent>>
       PROVE  Types'
  <2>1. /\ dpc' \in [Drivers -> Places]
        /\ cmds' \in [Drivers -> Seq(Command)] /\ msgs' \in [Drivers -> Seq(Reply)]
        /\ hup' \in BOOLEAN /\ lost' \subseteq Drivers
        /\ \A d \in Drivers : dpc'[d] = IF d \in K THEN "dead" ELSE dpc[d]
    BY <1>10, Dying
  <2>2. \A d \in 1..driver_count : dpc'[d] # "none"
    BY <2>1, Recorded DEF TypeOK
  <2>3. spc' = "forked" => dpc'[driver_count + 1] # "none"
    BY <1>10, <2>1, Recorded DEF Drivers
  <2> QED
    BY <1>10, <2>1, <2>2, <2>3 DEF TypeOK
<1>11. CASE Quit
  <2>1. AllRecorded \in SUBSET Drivers
    BY Recorded DEF AllRecorded
  <2> QED
    BY <1>10, <1>11, <2>1 DEF Quit, Victims, TypeOK
<1>12. ASSUME NEW d \in Drivers, KillDriver(d) \/ TermDriver(d)
       PROVE  Types'
  <2>1. {d} \in SUBSET Drivers /\ 1..d \in SUBSET Drivers
    BY BoundsAssumption DEF Drivers
  <2>2. kills' \in 0..MaxKills
    <3>1. kills \in Nat /\ kills < MaxKills /\ kills' = kills + 1
      BY <1>12 DEF KillDriver, TermDriver, TypeOK
    <3> QED
      BY <3>1, BoundsAssumption
  <2> QED
    BY <1>10, <1>12, <2>1, <2>2 DEF KillDriver, TermDriver
<1>13. ASSUME NEW d \in Drivers,
              \/ MakeFifos(d) \/ DriverOpenD(d) \/ DriverOpenS(d) \/ DriverReadsNothing(d)
              \/ DriverReopens(d) \/ TimeRunsOut(d)
       PROVE  Types'
  <2>1. /\ UNCHANGED <<spc, driver_count, rest, cmd, shown, hup, kills, cmds, msgs, history>>
        /\ dpc' = dpc \/ \E place \in {"openD", "openS", "select", "reopen"} :
                           dpc' = [dpc EXCEPT ![d] = place]
    BY <1>13 DEF MakeFifos, DriverOpenD, DriverOpenS, DriverReadsNothing, DriverReopens,
       TimeRunsOut, serverVars
  <2>2. /\ named' \subseteq Drivers /\ busy' \in [Drivers -> {"no", "running", "over"}]
        /\ seen' \in [Drivers -> BOOLEAN] /\ nonblock' \in [Drivers -> BOOLEAN]
    BY <1>13 DEF MakeFifos, DriverOpenD, DriverOpenS, DriverReadsNothing, DriverReopens,
       TimeRunsOut, CommandWriter, TypeOK
  <2>3. /\ dpc' \in [Drivers -> Places]
        /\ \A e \in Drivers : dpc[e] # "none" => dpc'[e] # "none"
    BY <2>1, Recorded DEF TypeOK
  <2> QED
    BY <2>1, <2>2, <2>3, <1>0, Recorded DEF history, TypeOK
<1>14. ASSUME NEW d \in Drivers, DriverWakes(d)
       PROVE  Types'
  <2>1. /\ msgs' \in [Drivers -> Seq(Reply)] /\ lost' \subseteq Drivers
        /\ unasked' \in BOOLEAN /\ sent' = sent
    <3>1. CASE Tell(d, 0, <<"available">>, FALSE)
      <4>1. 0 \in 0..MaxCommands /\ FALSE \in BOOLEAN
        BY BoundsAssumption
      <4> QED
        BY <3>1, <4>1, Telling
    <3>2. CASE UNCHANGED <<busy, msgs, history>>
      BY <3>2 DEF history, TypeOK
    <3> QED
      BY <1>14, <3>1, <3>2 DEF DriverWakes
  <2>2. /\ dpc' = [dpc EXCEPT ![d] = "read"] /\ dpc[d] = "select"
        /\ busy' \in [Drivers -> {"no", "running", "over"}]
        /\ UNCHANGED <<serverVars, named, seen, nonblock, cmds>>
    BY <1>14 DEF DriverWakes, TypeOK
  <2>3. /\ dpc' \in [Drivers -> Places]
        /\ \A e \in Drivers : dpc[e] # "none" => dpc'[e] # "none"
    BY <2>2, Recorded DEF TypeOK
  <2> QED
    BY <2>1, <2>2, <2>3, <1>0, Recorded DEF serverVars, TypeOK
<1>15. ASSUME NEW d \in Drivers, DriverReads(d)
       PROVE  Types'
  <2>1. Head(cmds[d]) \in Command
    BY <1>15 DEF DriverReads, TypeOK
  <2>2. PICK word \in {"busy", "available", "error"} : AnswerTo(d, Head(cmds[d]).kind) = <<word>>
    BY <2>1, OneWord DEF Command
  <2>3. Tell(d, Head(cmds[d]).num, <<word>>, Len(cmds[d]) > 1)
    BY <1>15, <2>2 DEF DriverReads
  <2>4. (Len(cmds[d]) > 1) \in BOOLEAN
    OBVIOUS
  <2>5. /\ msgs' \in [Drivers -> Seq(Reply)] /\ lost' \subseteq Drivers
        /\ unasked' \in BOOLEAN /\ sent' = sent
    BY <2>1, <2>3, <2>4, Numbers, Telling
  <2>6. cmds' \in [Drivers -> Seq(Command)] /\ busy' \in [Drivers -> {"no", "running", "over"}]
    BY <1>15 DEF DriverReads, TypeOK
  <2>7. dpc' = [dpc EXCEPT ![d] = "select"] /\ UNCHANGED <<serverVars, named, seen, nonblock>>
    BY <1>15 DEF DriverReads
  <2>8. /\ dpc' \in [Drivers -> Places]
        /\ \A e \in Drivers : dpc[e] # "none" => dpc'[e] # "none"
    BY <2>7, Recorded DEF TypeOK
  <2> QED
    BY <2>5, <2>6, <2>7, <2>8, <1>0, Recorded DEF serverVars, TypeOK
<1> QED
  BY <1>1, <1>2, <1>3, <1>4, <1>5, <1>6, <1>7, <1>8, <1>9, <1>11, <1>12, <1>13, <1>14, <1>15
     DEF Next, Exchange, DriverStep

-----------------------------------------------------------------------------
\* Every step keeps the names of the FIFOs and what is in them in order.
LEMMA NextNames ==
  ASSUME Types, NamesInv, Next
  PROVE  NamesInv'
<1>0. /\ TypeOK /\ driver_count \in Nat /\ Drivers \subseteq Nat \ {0}
      /\ \A d \in 1..driver_count : d \in Drivers
      /\ spc \in {"write", "closeD"} => cmd.to \in Drivers
      /\ spc = "forked" => driver_count + 1 \in Drivers
  BY Recorded, Numbers DEF Types, Exchanging, Drivers
<1>1. \A d \in Drivers :
        /\ dpc[d] \in {"openD", "openS", "select", "read", "reopen"} => d \in named
        /\ cmds[d] # << >> => CommandReader(d) \/ CommandWriter(d) \/ spc \in {"killed", "bye"}
        /\ d > driver_count + 1 => dpc[d] = "none" /\ d \notin named
        /\ d = driver_count + 1 /\ spc \notin {"forked", "bye"} => dpc[d] = "none"
        /\ spc = "bye" /\ (Alive(d) \/ d \in named) => d = driver_count + 1
  BY DEF NamesInv, QuitLeavesNobody
\* The same, driver by driver, of the next state.
<1>2. ASSUME \A d \in Drivers :
               /\ dpc'[d] \in {"openD", "openS", "select", "read", "reopen"} => d \in named'
               /\ cmds'[d] # << >> => CommandReader(d)' \/ CommandWriter(d)' \/ spc' \in {"killed", "bye"}
               /\ d > driver_count' + 1 => dpc'[d] = "none" /\ d \notin named'
               /\ d = driver_count' + 1 /\ spc' \notin {"forked", "bye"} => dpc'[d] = "none"
               /\ spc' = "bye" /\ (Alive(d)' \/ d \in named') => d = driver_count' + 1
      PROVE  NamesInv'
  BY <1>2 DEF NamesInv, QuitLeavesNobody
<1>3. CASE Fork
  <2>1. /\ spc = "prompt" /\ spc' = "forked" /\ UNCHANGED <<driver_count, named, cmds>>
        /\ \A d \in Drivers : dpc'[d] = dpc[d] \/ (d = driver_count + 1 /\ dpc'[d] = "start")
    BY <1>0, <1>3 DEF Fork, Prompt, TypeOK
  <2> QED
    BY <1>0, <1>1, <1>2, <2>1 DEF CommandReader, CommandWriter
<1>4. CASE Record
  <2>1. /\ spc = "forked" /\ spc' = "prompt" /\ driver_count' = driver_count + 1
        /\ UNCHANGED <<dpc, named, cmds>>
    BY <1>4 DEF Record, others, driverVars
  <2> QED
    BY <1>0, <1>1, <1>2, <2>1 DEF CommandReader, CommandWriter
<1>5. CASE \/ SendTask \/ GetStatus \/ NextStatus \/ OpenFails \/ OpenCommand
           \/ OpenReply \/ AwaitReply \/ CloseReply
  <2>1. /\ UNCHANGED <<driver_count, dpc, named, cmds>> /\ spc' # "bye"
        /\ spc \notin {"forked", "write", "closeD", "killed", "bye"}
    BY <1>5 DEF SendTask, GetStatus, NextStatus, NextCommand, OpenFails, OpenCommand, OpenReply,
       AwaitReply, CloseReply, Prompt, others, driverVars
  <2> QED
    BY <1>0, <1>1, <1>2, <2>1 DEF CommandReader, CommandWriter
<1>6. CASE Write
  <2>1. /\ UNCHANGED <<driver_count, dpc, named, cmd>> /\ spc = "write" /\ spc' \in {"closeD", "killed"}
        /\ cmds' = cmds \/ cmds' = [cmds EXCEPT ![cmd.to] = Append(@, cmd)]
    BY <1>6 DEF Write, driverVars
  <2>2. \A d \in Drivers : d # cmd.to => cmds'[d] = cmds[d]
    BY <1>0, <2>1 DEF TypeOK
  <2> QED
    BY <1>0, <1>1, <1>2, <2>1, <2>2 DEF CommandReader, CommandWriter
<1>7. CASE CloseCommand
  <2>1. /\ UNCHANGED <<driver_count, dpc, named, cmd>> /\ spc = "closeD" /\ spc' = "openS"
        /\ \A d \in Drivers : /\ d # cmd.to => cmds'[d] = cmds[d]
                              /\ d = cmd.to => CommandReader(d) \/ cmds'[d] = << >>
        /\ \A d \in Drivers : cmds'[d] \in {cmds[d], << >>}
    BY <1>0, <1>7 DEF CloseCommand, driverVars, TypeOK
  <2> QED
    BY <1>0, <1>1, <1>2, <2>1 DEF CommandReader, CommandWriter
<1>8. CASE Quit
  <2>1. AllRecorded \in SUBSET Drivers
    BY <1>0 DEF AllRecorded
  <2>2. /\ spc' = "bye" /\ driver_count' = driver_count /\ named' = named \ AllRecorded
        /\ \A d \in Drivers : dpc'[d] = IF d \in AllRecorded THEN "dead" ELSE dpc[d]
    BY <1>0, <1>8, <2>1, Dying DEF Quit, Victims
  <2>3. \A d \in Drivers : \/ /\ d \in AllRecorded /\ d <= driver_count
                              /\ dpc'[d] = "dead" /\ d \notin named'
                           \/ d \notin AllRecorded /\ d > driver_count /\ dpc'[d] = dpc[d]
                              /\ (d \in named' <=> d \in named)
    BY <1>0, <2>2 DEF AllRecorded
  <2>4. \A d \in Drivers : d <= driver_count => d \in AllRecorded
    BY <1>0 DEF AllRecorded
  <2>5. ASSUME NEW d \in Drivers
        PROVE  /\ dpc'[d] \in {"openD", "openS", "select", "read", "reopen"} => d \in named'
               /\ d > driver_count' + 1 => dpc'[d] = "none" /\ d \notin named'
               /\ Alive(d)' \/ d \in named' => d = driver_count' + 1
    <3>1. d \in Nat /\ driver_count' = driver_count
      BY <1>0, <2>2
    <3>2. CASE d <= driver_count
      BY <1>0, <2>3, <2>4, <3>1, <3>2 DEF Alive
    <3>3. CASE d > driver_count
      <4>1. dpc'[d] = dpc[d] /\ (d \in named' <=> d \in named)
        BY <1>0, <2>3, <3>1, <3>3
      <4>2. d = driver_count + 1 \/ d > driver_count + 1
        BY <1>0, <3>1, <3>3
      <4> QED
        BY <1>0, <1>1, <3>1, <4>1, <4>2 DEF Alive
    <3> QED
      BY <1>0, <3>1, <3>2, <3>3
  <2> QED
    BY <1>2, <2>2, <2>5
<1>9. ASSUME NEW d \in Drivers, KillDriver(d) \/ TermDriver(d)
      PROVE  NamesInv'
  <2>1. PICK K \in SUBSET Drivers :
          /\ Die(K) /\ d \in K
          /\ \A e \in K : e <= d
          /\ named' \subseteq named /\ named \ named' \subseteq K
    <3>1. {d} \in SUBSET Drivers /\ 1..d \in SUBSET Drivers /\ d \in 1..d /\ d \in Nat
      BY BoundsAssumption DEF Drivers
    <3>2. CASE KillDriver(d)
      BY <3>1, <3>2 DEF KillDriver
    <3>3. CASE TermDriver(d)
      BY <3>1, <3>3 DEF TermDriver
    <3> QED
      BY <1>9, <3>2, <3>3
  <2>2. /\ UNCHANGED <<spc, driver_count, cmd>> /\ d <= driver_count + 1
        /\ d = driver_count + 1 => spc \in {"forked", "bye"}
    BY <1>0, <1>1, <1>9 DEF KillDriver, TermDriver, Alive
  <2>3. \A e \in Drivers : /\ dpc'[e] = IF e \in K THEN "dead" ELSE dpc[e]
                           /\ cmds'[e] \in {cmds[e], << >>}
                           /\ e \in K /\ ~CommandWriter(e) => cmds'[e] = << >>
    BY <1>0, <2>1, Dying
  <2> QED
    BY <1>0, <1>1, <1>2, <2>1, <2>2, <2>3 DEF CommandReader, CommandWriter, Alive
<1>10. ASSUME NEW d \in Drivers, DriverStep(d) \/ TimeRunsOut(d)
       PROVE  NamesInv'
  <2>1. UNCHANGED <<spc, driver_count, cmd>>
    BY <1>10 DEF DriverStep, MakeFifos, DriverOpenD, DriverOpenS, DriverWakes, DriverReads,
       DriverReadsNothing, DriverReopens, TimeRunsOut, serverVars
  <2>2. \/ /\ dpc[d] = "start" /\ dpc' = [dpc EXCEPT ![d] = "openD"]
           /\ named' = named \union {d} /\ cmds' = cmds
        \/ /\ dpc[d] \in {"openD", "openS", "select", "read", "reopen"} /\ named' = named
           /\ \E place \in {"openS", "select", "read"} : dpc' = [dpc EXCEPT ![d] = place]
           /\ cmds' = cmds \/ cmds' = [cmds EXCEPT ![d] = << >>]
        \/ /\ dpc[d] = "read" /\ dpc' = [dpc EXCEPT ![d] = "reopen"] /\ named' = named
           /\ cmds' = cmds /\ cmds[d] = << >>
        \/ UNCHANGED <<dpc, named, cmds>>
    BY <1>10 DEF DriverStep, MakeFifos, DriverOpenD, DriverOpenS, DriverWakes, DriverReads,
       DriverReadsNothing, DriverReopens, TimeRunsOut
  <2>3. /\ Alive(d) => d <= driver_count + 1
        /\ Alive(d) /\ spc = "bye" => d = driver_count + 1
    BY <1>0, <1>1 DEF Alive
  <2> QED
    BY <1>0, <1>1, <1>2, <2>1, <2>2, <2>3 DEF CommandReader, CommandWriter, Alive, TypeOK
<1> QED
  BY <1>3, <1>4, <1>5, <1>6, <1>7, <1>8, <1>9, <1>10 DEF Next, Exchange

-----------------------------------------------------------------------------
\* What a signal or the end does to the drivers and what is unread.
LEMMA Signals ==
  ASSUME Types, \/ Quit \/ \E d \in Drivers : KillDriver(d) \/ TermDriver(d)
  PROVE  /\ UNCHANGED <<cmd, shown, busy, unasked, sent>>
         /\ (Quit /\ spc' = "bye") \/ (spc' = spc /\ kills' = kills + 1)
         /\ \A d \in Drivers : cmds'[d] \in {cmds[d], << >>} /\ msgs'[d] \in {msgs[d], << >>}
         /\ hup' => hup \/ (spc \in {"wait", "closeS"} /\ cmds'[cmd.to] = << >>)
<1>0. TypeOK
  BY DEF Types
<1>1. PICK K \in SUBSET Drivers : Die(K)
  <2>1. AllRecorded \in SUBSET Drivers
    BY <1>0, Recorded DEF AllRecorded
  <2>2. \A d \in Drivers : {d} \in SUBSET Drivers /\ 1..d \in SUBSET Drivers
    BY BoundsAssumption DEF Drivers
  <2> QED
    BY <2>1, <2>2 DEF Quit, Victims, KillDriver, TermDriver
<1>2. /\ UNCHANGED <<cmd, shown, busy, unasked, sent>>
      /\ (Quit /\ spc' = "bye") \/ (spc' = spc /\ kills' = kills + 1)
  BY DEF Quit, KillDriver, TermDriver
<1>3. \A d \in Drivers : cmds'[d] \in {cmds[d], << >>} /\ msgs'[d] \in {msgs[d], << >>}
  BY <1>0, <1>1, Dying
<1>4. hup' => hup \/ (spc \in {"wait", "closeS"} /\ cmds'[cmd.to] = << >>)
  <2>1. ASSUME NEW d \in K, ReplyReader(d)
        PROVE  spc \in {"wait", "closeS"} /\ cmds'[cmd.to] = << >>
    <3>1. spc \in {"wait", "closeS"} /\ cmd.to = d /\ ~CommandWriter(d)
      BY <2>1 DEF ReplyReader, CommandWriter
    <3> QED
      BY <1>0, <1>1, <3>1, Dying
  <2>2. hup' => hup \/ \E d \in K : ReplyReader(d)
    BY <1>0, <1>1, Dying
  <2> QED
    BY <2>1, <2>2
<1> QED
  BY <1>2, <1>3, <1>4

\* A driver takes the commands that are there and answers the first.
LEMMA Reading ==
  ASSUME Types, NEW d \in Drivers, DriverReads(d)
  PROVE  /\ cmds[d] # << >> /\ cmds[d][1] \in Command
         /\ dpc[d] = "read" /\ dpc' = [dpc EXCEPT ![d] = "select"]
         /\ cmds' = [cmds EXCEPT ![d] = << >>] /\ UNCHANGED <<serverVars, sent>>
         /\ \A e \in Drivers : msgs'[e] # msgs[e] => e = d /\ ReplyReader(d)
         /\ ReplyReader(d) /\ msgs[d] = << >> => Len(msgs'[d]) = 1 /\ msgs'[d][1].num = cmds[d][1].num
         /\ \A e \in lost' : e \in lost \/ (e = d /\ (Len(cmds[d]) > 1 \/ ~ReplyReader(d)))
         /\ unasked' = FALSE => unasked = FALSE
         /\ \A e \in Drivers : e # d => busy'[e] = busy[e]
<1>0. TypeOK
  BY DEF Types
<1>1. cmds[d] \in Seq(Command) /\ cmds[d] # << >>
  BY <1>0 DEF DriverReads, TypeOK
<1>2. Head(cmds[d]) \in Command /\ Head(cmds[d]) = cmds[d][1]
  BY <1>1
<1>3. PICK word \in {"busy", "available", "error"} : AnswerTo(d, Head(cmds[d]).kind) = <<word>>
  BY <1>2, OneWord DEF Command
<1>4. Head(cmds[d]).num \in 0..MaxCommands /\ TRUE \in BOOLEAN /\ FALSE \in BOOLEAN
  BY <1>2, Numbers
<1>5. \/ Len(cmds[d]) > 1 /\ Tell(d, Head(cmds[d]).num, <<word>>, TRUE)
      \/ ~(Len(cmds[d]) > 1) /\ Tell(d, Head(cmds[d]).num, <<word>>, FALSE)
  BY <1>3 DEF DriverReads, Tell
<1>6. /\ \A e \in Drivers : msgs'[e] # msgs[e] => e = d /\ ReplyReader(d)
      /\ ReplyReader(d) /\ msgs[d] = << >> => Len(msgs'[d]) = 1 /\ msgs'[d][1].num = Head(cmds[d]).num
      /\ \A e \in lost' : e \in lost \/ (e = d /\ (Len(cmds[d]) > 1 \/ ~ReplyReader(d)))
      /\ sent' = sent /\ (unasked = TRUE => unasked' = TRUE)
  <2>1. CASE Len(cmds[d]) > 1 /\ Tell(d, Head(cmds[d]).num, <<word>>, TRUE)
    BY <1>0, <1>4, <2>1, Telling
  <2>2. CASE ~(Len(cmds[d]) > 1) /\ Tell(d, Head(cmds[d]).num, <<word>>, FALSE)
    BY <1>0, <1>4, <2>2, Telling
  <2> QED
    BY <1>5, <2>1, <2>2
<1>7. /\ dpc[d] = "read" /\ dpc' = [dpc EXCEPT ![d] = "select"]
      /\ cmds' = [cmds EXCEPT ![d] = << >>] /\ UNCHANGED serverVars
      /\ \A e \in Drivers : e # d => busy'[e] = busy[e]
  BY <1>0 DEF DriverReads, TypeOK
<1>8. unasked' = FALSE => unasked = FALSE
  BY <1>0, <1>6 DEF TypeOK
<1> QED
  BY <1>1, <1>2, <1>6, <1>7, <1>8

\* A driver wakes up, and announces the end of a task if somebody listens.
LEMMA Waking ==
  ASSUME Types, NEW d \in Drivers, DriverWakes(d)
  PROVE  /\ dpc[d] = "select" /\ dpc' = [dpc EXCEPT ![d] = "read"]
         /\ UNCHANGED <<serverVars, cmds, sent, lost>>
         /\ \A e \in Drivers : msgs'[e] # msgs[e] => busy[d] = "over" /\ e = d
         /\ unasked' = FALSE => unasked = FALSE /\ \A e \in Drivers : msgs'[e] = msgs[e]
         /\ busy[d] # "over" => busy' = busy
         /\ \A e \in Drivers : busy'[e] \in {busy[e], "no"}
<1>0. TypeOK
  BY DEF Types
<1>1. /\ dpc[d] = "select" /\ dpc' = [dpc EXCEPT ![d] = "read"] /\ UNCHANGED <<serverVars, cmds>>
      /\ busy[d] # "over" => busy' = busy
      /\ \A e \in Drivers : busy'[e] \in {busy[e], "no"}
  BY <1>0 DEF DriverWakes, TypeOK
<1>2. /\ UNCHANGED <<sent, lost>>
      /\ \A e \in Drivers : msgs'[e] # msgs[e] => busy[d] = "over" /\ e = d
      /\ unasked' = FALSE => unasked = FALSE /\ \A e \in Drivers : msgs'[e] = msgs[e]
  <2>1. CASE busy[d] = "over" /\ Tell(d, 0, <<"available">>, FALSE)
    <3>1. 0 \in 0..MaxCommands /\ FALSE \in BOOLEAN
      BY BoundsAssumption
    <3>2. /\ UNCHANGED <<sent, lost>> /\ (unasked = TRUE => unasked' = TRUE)
          /\ \A e \in Drivers : msgs'[e] # msgs[e] => e = d /\ ReplyReader(d)
          /\ unasked' = FALSE => ~ReplyReader(d)
      BY <1>0, <2>1, <3>1, Telling
    <3> QED
      BY <1>0, <2>1, <3>2 DEF TypeOK
  <2>2. CASE UNCHANGED <<busy, msgs, history>>
    BY <2>2 DEF history
  <2> QED
    BY <2>1, <2>2 DEF DriverWakes
<1> QED
  BY <1>1, <1>2

\* The other steps of a driver move it on.
LEMMA Moving ==
  ASSUME NEW d \in Drivers,
         \/ MakeFifos(d) \/ DriverOpenD(d) \/ DriverOpenS(d) \/ DriverReadsNothing(d)
         \/ DriverReopens(d) \/ TimeRunsOut(d)
  PROVE  UNCHANGED <<serverVars, cmds, msgs, history>>
BY DEF MakeFifos, DriverOpenD, DriverOpenS, DriverReadsNothing, DriverReopens, TimeRunsOut

-----------------------------------------------------------------------------
\* Every step keeps what is unread to the command the server is about.
LEMMA NextCurrent ==
  ASSUME Types, NamesInv, CurrentInv, Next
  PROVE  CurrentInv'
<1>0. TypeOK /\ (Exchanging => cmd.to \in Drivers)
  BY Numbers DEF Types
<1>1. unasked' = FALSE => unasked = FALSE
  <2>1. ASSUME NEW d \in Drivers, DriverStep(d) \/ TimeRunsOut(d)
        PROVE  unasked' = FALSE => unasked = FALSE
    BY <2>1, Waking, Reading, Moving DEF DriverStep, history
  <2>2. CASE Quit \/ \E d \in Drivers : KillDriver(d) \/ TermDriver(d)
    BY <2>2, Signals
  <2>3. CASE Fork \/ SendTask \/ GetStatus \/ Exchange
    BY <2>3 DEF Fork, SendTask, GetStatus, Exchange, Record, NextStatus, OpenFails, OpenCommand,
       Write, CloseCommand, OpenReply, AwaitReply, CloseReply, others, history
  <2> QED
    BY <2>1, <2>2, <2>3 DEF Next
<1> SUFFICES ASSUME unasked' = FALSE
             PROVE  /\ \A d \in Drivers : cmds'[d] # << >> =>
                         /\ Len(cmds'[d]) = 1 /\ cmds'[d][1].num = cmd'.num /\ cmd'.to = d
                         /\ msgs'[d] = << >> /\ spc' \in {"closeD", "openS", "wait", "bye"}
                    /\ \A d \in Drivers : msgs'[d] # << >> =>
                         /\ Len(msgs'[d]) = 1 /\ msgs'[d][1].num = cmd'.num /\ cmd'.to = d
                         /\ spc' \in {"wait", "bye"}
                    /\ hup' /\ spc' \in {"wait", "closeS"} => cmds'[cmd'.to] = << >>
                    /\ spc' = "closeS" =>
                         shown' = << >> \/ (Len(shown') = 1 /\ shown'[1].num = cmd'.num)
  <2>1. unasked' \in BOOLEAN
    BY NextTypes DEF Types, TypeOK
  <2> QED
    BY <2>1 DEF CurrentInv, AnswerIsCurrent
<1>2. /\ \A d \in Drivers : cmds[d] # << >> =>
           /\ Len(cmds[d]) = 1 /\ cmds[d][1].num = cmd.num /\ cmd.to = d
           /\ msgs[d] = << >> /\ spc \in {"closeD", "openS", "wait", "bye"}
      /\ \A d \in Drivers : msgs[d] # << >> =>
           Len(msgs[d]) = 1 /\ msgs[d][1].num = cmd.num /\ cmd.to = d /\ spc \in {"wait", "bye"}
      /\ hup /\ spc \in {"wait", "closeS"} => cmds[cmd.to] = << >>
      /\ spc = "closeS" => shown = << >> \/ (Len(shown) = 1 /\ shown[1].num = cmd.num)
  BY <1>1 DEF CurrentInv, AnswerIsCurrent
<1>3. CASE Fork \/ Record \/ SendTask \/ GetStatus \/ NextStatus \/ OpenFails \/ OpenCommand
  <2>1. /\ UNCHANGED <<cmds, msgs>> /\ spc \in {"prompt", "forked", "open"}
        /\ spc' \in {"prompt", "forked", "open", "write"}
    BY <1>3 DEF Fork, Record, SendTask, GetStatus, NextStatus, NextCommand, OpenFails, OpenCommand,
       Prompt, others
  <2>2. \A d \in Drivers : cmds[d] = << >> /\ msgs[d] = << >>
    BY <1>2, <2>1
  <2> QED
    BY <2>1, <2>2
<1>4. CASE Write
  <2>1. \A d \in Drivers : cmds[d] = << >> /\ msgs[d] = << >>
    BY <1>2, <1>4 DEF Write
  <2>2. /\ UNCHANGED <<msgs, cmd>> /\ spc' \in {"closeD", "killed"} /\ cmd.to \in Drivers
        /\ spc' = "killed" => cmds' = cmds
        /\ cmds' = cmds \/ cmds' = [cmds EXCEPT ![cmd.to] = Append(@, cmd)]
    BY <1>0, <1>4 DEF Write, Exchanging
  <2>3. Len(Append(<< >>, cmd)) = 1 /\ Append(<< >>, cmd)[1] = cmd
    OBVIOUS
  <2>4. \A d \in Drivers : cmds'[d] # << >> =>
          d = cmd.to /\ Len(cmds'[d]) = 1 /\ cmds'[d][1] = cmd /\ spc' = "closeD"
    BY <1>0, <2>1, <2>2, <2>3 DEF TypeOK
  <2> QED
    BY <2>1, <2>2, <2>4
<1>5. CASE CloseCommand
  <2>1. /\ UNCHANGED <<msgs, cmd>> /\ spc = "closeD" /\ spc' = "openS"
        /\ \A d \in Drivers : cmds'[d] \in {cmds[d], << >>}
    BY <1>0, <1>5 DEF CloseCommand, TypeOK
  <2> QED
    BY <1>2, <2>1
<1>6. CASE OpenReply
  <2>1. /\ UNCHANGED <<cmds, msgs, cmd>> /\ spc = "openS" /\ hup' = FALSE
        /\ spc' = IF cmd.to \in named THEN "wait" ELSE "prompt"
    BY <1>6 DEF OpenReply, others
  <2>2. \A d \in Drivers : cmds[d] # << >> => d \in named
    BY <2>1 DEF NamesInv, CommandReader, CommandWriter
  <2> QED
    BY <1>2, <2>1, <2>2
<1>7. CASE AwaitReply
  <2>1. /\ spc = "wait" /\ spc' = "closeS" /\ UNCHANGED <<cmd, hup, cmds>> /\ cmd.to \in Drivers
        /\ msgs[cmd.to] # << >> \/ hup
        /\ shown' = msgs[cmd.to] /\ msgs' = [msgs EXCEPT ![cmd.to] = << >>]
    BY <1>0, <1>7 DEF AwaitReply, Exchanging
  <2>2. \A d \in Drivers : cmds[d] = << >>
    BY <1>2, <2>1
  <2>3. \A d \in Drivers : msgs'[d] = << >>
    BY <1>0, <1>2, <2>1 DEF TypeOK
  <2> QED
    BY <1>2, <2>1, <2>2, <2>3
<1>8. CASE CloseReply
  <2>1. /\ spc = "closeS" /\ spc' = "prompt" /\ UNCHANGED <<cmd, hup, cmds>>
        /\ \A d \in Drivers : msgs'[d] \in {msgs[d], << >>}
    BY <1>0, <1>8 DEF CloseReply, TypeOK
  <2> QED
    BY <1>2, <2>1
<1>9. CASE Quit \/ \E d \in Drivers : KillDriver(d) \/ TermDriver(d)
  <2>1. /\ UNCHANGED <<cmd, shown>> /\ (spc' = "bye" \/ spc' = spc)
        /\ \A d \in Drivers : cmds'[d] \in {cmds[d], << >>} /\ msgs'[d] \in {msgs[d], << >>}
        /\ hup' => hup \/ (spc \in {"wait", "closeS"} /\ cmds'[cmd.to] = << >>)
    BY <1>9, Signals
  <2>2. spc \in {"wait", "closeS"} => cmd.to \in Drivers
    BY <1>0 DEF Exchanging
  <2> QED
    BY <1>2, <2>1, <2>2
<1>10. ASSUME NEW d \in Drivers, DriverReads(d)
       PROVE  CurrentInv'
  <2>1. /\ cmds[d] # << >> /\ cmds' = [cmds EXCEPT ![d] = << >>]
        /\ UNCHANGED <<spc, cmd, shown, hup>>
        /\ \A e \in Drivers : msgs'[e] # msgs[e] => e = d /\ ReplyReader(d)
        /\ ReplyReader(d) /\ msgs[d] = << >> => Len(msgs'[d]) = 1 /\ msgs'[d][1].num = cmds[d][1].num
    BY <1>10, Reading DEF serverVars
  <2>2. /\ cmds[d][1].num = cmd.num /\ cmd.to = d /\ msgs[d] = << >>
        /\ spc \in {"closeD", "openS", "wait", "bye"}
    BY <1>2, <2>1
  <2>3. \A e \in Drivers : cmds'[e] = << >>
    BY <1>0, <1>2, <2>1, <2>2 DEF TypeOK
  <2>4. \A e \in Drivers : msgs'[e] # << >> =>
          Len(msgs'[e]) = 1 /\ msgs'[e][1].num = cmd.num /\ cmd.to = e /\ spc \in {"wait", "bye"}
    BY <1>2, <2>1, <2>2 DEF ReplyReader
  <2> QED
    BY <1>2, <2>1, <2>2, <2>3, <2>4 DEF CurrentInv, AnswerIsCurrent
<1>11. ASSUME NEW d \in Drivers, (DriverStep(d) /\ ~DriverReads(d)) \/ TimeRunsOut(d)
       PROVE  CurrentInv'
  <2>1. /\ UNCHANGED <<spc, cmd, shown, hup, cmds>>
        /\ \A e \in Drivers : msgs'[e] = msgs[e]
    BY <1>11, Waking, Moving DEF DriverStep, serverVars
  <2> QED
    BY <1>2, <2>1 DEF CurrentInv, AnswerIsCurrent
<1> QED
  <2>1. CASE \E d \in Drivers : DriverStep(d) \/ TimeRunsOut(d)
    BY <1>10, <1>11, <2>1 DEF CurrentInv, AnswerIsCurrent
  <2> QED
    BY <1>3, <1>4, <1>5, <1>6, <1>7, <1>8, <1>9, <2>1 DEF Next, Exchange

-----------------------------------------------------------------------------
\* Every step but a signal keeps the first commands safe.
LEMMA NextFirst ==
  ASSUME Types, NamesInv, FirstInv, Next
  PROVE  FirstInv'
<1> SUFFICES ASSUME kills' = 0, spc' # "bye"
             PROVE  /\ spc' # "killed" /\ ~hup'
                    /\ \A d \in Drivers :
                         /\ dpc'[d] # "dead"
                         /\ CommandWriter(d)' => CommandReader(d)'
                         /\ Len(cmds'[d]) <= sent'[d]
                         /\ sent'[d] = 0 =>
                              /\ busy'[d] = "no" /\ msgs'[d] = << >>
                              /\ dpc'[d] \in {"none", "start", "openD", "openS"}
                              /\ ~(spc' \in {"closeD", "openS", "wait", "closeS"} /\ cmd'.to = d)
                         /\ sent'[d] = 1 /\ cmds'[d] # << >> =>
                              /\ cmd'.to = d /\ busy'[d] = "no" /\ msgs'[d] = << >>
                              /\ \/ spc' \in {"closeD", "openS"} /\ dpc'[d] \in {"openD", "openS"}
                                 \/ spc' = "wait"
                    /\ \A d \in lost' : sent'[d] >= 2
  BY DEF FirstInv
<1>0. /\ TypeOK /\ (Exchanging => cmd.to \in Drivers) /\ kills \in Nat
      /\ \A d \in Drivers : sent[d] \in Nat /\ Len(cmds[d]) \in Nat
  BY Numbers DEF Types, TypeOK
<1>1. CASE Quit \/ \E d \in Drivers : KillDriver(d) \/ TermDriver(d)
  BY <1>0, <1>1, Signals
<1>2. CASE ~(Quit \/ \E d \in Drivers : KillDriver(d) \/ TermDriver(d))
  <2>1. kills = 0 /\ spc # "bye"
    <3>1. CASE \E d \in Drivers : DriverStep(d) \/ TimeRunsOut(d)
      BY <3>1, Waking, Reading, Moving DEF DriverStep, serverVars
    <3>2. CASE Fork \/ SendTask \/ GetStatus \/ Exchange
      BY <3>2 DEF Fork, SendTask, GetStatus, Exchange, Record, NextStatus, OpenFails, OpenCommand,
         Write, CloseCommand, OpenReply, AwaitReply, CloseReply, others, Prompt
    <3> QED
      BY <1>2, <3>1, <3>2 DEF Next
  <2>2. /\ spc # "killed" /\ ~hup
        /\ \A d \in Drivers :
             /\ dpc[d] # "dead"
             /\ CommandWriter(d) => CommandReader(d)
             /\ Len(cmds[d]) <= sent[d]
             /\ sent[d] = 0 => /\ busy[d] = "no" /\ msgs[d] = << >>
                               /\ dpc[d] \in {"none", "start", "openD", "openS"}
                               /\ ~(spc \in {"closeD", "openS", "wait", "closeS"} /\ cmd.to = d)
             /\ sent[d] = 1 /\ cmds[d] # << >> =>
                  /\ cmd.to = d /\ busy[d] = "no" /\ msgs[d] = << >>
                  /\ \/ spc \in {"closeD", "openS"} /\ dpc[d] \in {"openD", "openS"}
                     \/ spc = "wait"
        /\ \A d \in lost : sent[d] >= 2
    BY <2>1 DEF FirstInv
  <2>3. CASE \/ Fork \/ Record \/ SendTask \/ GetStatus \/ NextStatus \/ OpenFails \/ OpenCommand
    <3>1. /\ UNCHANGED <<hup, busy, cmds, msgs, lost, sent>> /\ spc \in {"prompt", "forked", "open"}
          /\ spc' \in {"prompt", "forked", "open", "write"}
      BY <2>3 DEF Fork, Record, SendTask, GetStatus, NextStatus, NextCommand, OpenFails,
         OpenCommand, Prompt, others, driverVars, history
    <3>2. \A d \in Drivers : dpc'[d] = dpc[d] \/ dpc'[d] = "start"
      BY <1>0, <2>3 DEF Fork, Record, SendTask, GetStatus, NextStatus, OpenFails, OpenCommand,
         others, driverVars, TypeOK
    <3>3. spc' = "write" => cmd' = cmd /\ dpc' = dpc /\ CommandReader(cmd.to)
      BY <2>3 DEF Fork, Record, SendTask, GetStatus, NextStatus, NextCommand, OpenFails,
         OpenCommand, Prompt
    <3> QED
      BY <1>0, <2>2, <3>1, <3>2, <3>3 DEF CommandReader, CommandWriter
  <2>4. CASE Write
    <3>1. /\ spc = "write" /\ cmd.to \in Drivers /\ CommandWriter(cmd.to) /\ CommandReader(cmd.to)
      BY <1>0, <2>2, <2>4 DEF Write, Exchanging, CommandWriter
    <3>2. /\ spc' = "closeD" /\ UNCHANGED <<cmd, hup, dpc, busy, msgs, lost>>
          /\ cmds' = [cmds EXCEPT ![cmd.to] = Append(@, cmd)]
          /\ sent' = [sent EXCEPT ![cmd.to] = @ + 1]
      BY <2>4, <3>1 DEF Write, driverVars
    <3>3. \A d \in Drivers : /\ d # cmd.to => cmds'[d] = cmds[d] /\ sent'[d] = sent[d]
                             /\ d = cmd.to => Len(cmds'[d]) = Len(cmds[d]) + 1 /\ sent'[d] = sent[d] + 1
      BY <1>0, <3>1, <3>2 DEF TypeOK
    <3>4. \A d \in lost' : d \in Drivers /\ sent'[d] >= 2
      BY <1>0, <2>2, <3>2, <3>3 DEF TypeOK
    <3>5. CommandReader(cmd.to)' /\ \A d \in Drivers : CommandWriter(d)' => d = cmd.to
      BY <3>1, <3>2 DEF CommandReader, CommandWriter
    <3> QED
      BY <1>0, <2>2, <3>1, <3>2, <3>3, <3>4, <3>5 DEF CommandReader
  <2>5. CASE CloseCommand
    <3>1. /\ spc = "closeD" /\ spc' = "openS" /\ CommandReader(cmd.to)
      BY <1>0, <2>2, <2>5 DEF CloseCommand, Exchanging, CommandWriter
    <3>2. UNCHANGED <<cmd, hup, dpc, busy, msgs, lost, cmds, sent>>
      BY <2>5, <3>1 DEF CloseCommand, driverVars
    <3> QED
      BY <2>2, <3>1, <3>2 DEF CommandWriter
  <2>6. CASE OpenReply
    <3>1. /\ UNCHANGED <<cmd, dpc, busy, msgs, lost, cmds, sent>> /\ spc = "openS" /\ hup' = FALSE
          /\ spc' = IF cmd.to \in named THEN "wait" ELSE "prompt"
      BY <2>6 DEF OpenReply, others, driverVars, history
    <3>2. \A d \in Drivers : cmds[d] # << >> => d \in named
      BY <3>1 DEF NamesInv, CommandReader, CommandWriter
    <3> QED
      BY <2>2, <3>1, <3>2 DEF CommandWriter
  <2>7. CASE AwaitReply \/ CloseReply
    <3>1. /\ UNCHANGED <<cmd, hup, dpc, busy, lost, cmds, sent>> /\ spc \in {"wait", "closeS"}
          /\ spc = "wait" => msgs[cmd.to] # << >> \/ hup
          /\ spc' = IF spc = "wait" THEN "closeS" ELSE "prompt"
          /\ \A d \in Drivers : msgs'[d] \in {msgs[d], << >>}
      BY <1>0, <2>7 DEF AwaitReply, CloseReply, driverVars, history, TypeOK
    <3> QED
      BY <2>2, <3>1 DEF CommandWriter
  <2>8. ASSUME NEW d \in Drivers, DriverReads(d)
        PROVE  FirstInv'
    <3>1. /\ cmds[d] # << >> /\ dpc[d] = "read" /\ UNCHANGED <<spc, cmd, hup, sent>>
          /\ \A e \in Drivers : /\ dpc'[e] = IF e = d THEN "select" ELSE dpc[e]
                                /\ cmds'[e] = IF e = d THEN << >> ELSE cmds[e]
                                /\ e # d => busy'[e] = busy[e] /\ msgs'[e] = msgs[e]
          /\ \A e \in lost' : e \in lost \/ (e = d /\ (Len(cmds[d]) > 1 \/ ~ReplyReader(d)))
      <4>1. /\ cmds[d] # << >> /\ dpc[d] = "read" /\ UNCHANGED <<serverVars, sent>>
            /\ dpc' = [dpc EXCEPT ![d] = "select"] /\ cmds' = [cmds EXCEPT ![d] = << >>]
            /\ \A e \in Drivers : e # d => busy'[e] = busy[e] /\ msgs'[e] = msgs[e]
            /\ \A e \in lost' : e \in lost \/ (e = d /\ (Len(cmds[d]) > 1 \/ ~ReplyReader(d)))
        BY <2>8, Reading
      <4> QED
        BY <1>0, <4>1 DEF serverVars, TypeOK
    <3>2. sent[d] # 0 /\ (sent[d] = 1 => spc = "wait" /\ cmd.to = d)
      BY <2>2, <3>1
    <3>3. \A e \in lost' : sent'[e] >= 2
      BY <1>0, <2>2, <3>1, <3>2 DEF ReplyReader
    <3>4. \A e \in Drivers : (CommandReader(e) => CommandReader(e)') /\ (CommandWriter(e)' <=> CommandWriter(e))
      BY <3>1 DEF CommandReader, CommandWriter
    <3>5. Len(<< >>) = 0
      OBVIOUS
    <3> QED
      BY <1>0, <2>2, <3>1, <3>2, <3>3, <3>4, <3>5 DEF FirstInv
  <2>9. ASSUME NEW d \in Drivers, DriverWakes(d)
        PROVE  FirstInv'
    <3>1. /\ dpc[d] = "select" /\ UNCHANGED <<spc, cmd, hup, cmds, sent, lost>>
          /\ \A e \in Drivers : /\ dpc'[e] = IF e = d THEN "read" ELSE dpc[e]
                                /\ busy'[e] \in {busy[e], "no"}
                                /\ msgs'[e] # msgs[e] => busy[d] = "over" /\ e = d
      <4>1. /\ dpc[d] = "select" /\ UNCHANGED <<serverVars, cmds, sent, lost>>
            /\ dpc' = [dpc EXCEPT ![d] = "read"]
            /\ \A e \in Drivers : busy'[e] \in {busy[e], "no"}
            /\ \A e \in Drivers : msgs'[e] # msgs[e] => busy[d] = "over" /\ e = d
        BY <2>9, Waking
      <4> QED
        BY <1>0, <4>1 DEF serverVars, TypeOK
    <3>2. \A e \in Drivers : (CommandReader(e) => CommandReader(e)') /\ (CommandWriter(e)' <=> CommandWriter(e))
      BY <3>1 DEF CommandReader, CommandWriter
    <3> QED
      BY <2>2, <3>1, <3>2 DEF FirstInv
  <2>10. ASSUME NEW d \in Drivers,
                \/ MakeFifos(d) \/ DriverOpenD(d) \/ DriverOpenS(d) \/ DriverReadsNothing(d)
                \/ DriverReopens(d) \/ TimeRunsOut(d)
         PROVE  FirstInv'
    <3>1. UNCHANGED <<spc, cmd, hup, cmds, msgs, sent, lost>>
      BY <2>10, Moving DEF serverVars, history
    <3>2. /\ \A e \in Drivers : e # d => dpc'[e] = dpc[e] /\ busy'[e] = busy[e]
          /\ busy'[d] = busy[d] \/ busy[d] = "running"
          /\ \/ dpc'[d] = dpc[d]
             \/ dpc[d] = "start" /\ dpc'[d] = "openD"
             \/ dpc[d] = "openD" /\ dpc'[d] = "openS"
             \/ dpc[d] = "openS" /\ dpc'[d] = "select" /\ spc \in {"wait", "closeS"} /\ cmd.to = d
             \/ dpc[d] = "read" /\ dpc'[d] = "reopen" /\ ~CommandWriter(d)
             \/ dpc[d] \in {"read", "reopen"} /\ dpc'[d] = "select"
      BY <1>0, <2>10 DEF MakeFifos, DriverOpenD, DriverOpenS, DriverReadsNothing, DriverReopens,
         TimeRunsOut, ReplyReader, CommandEnd, TypeOK
    <3>3. \A e \in Drivers : CommandWriter(e)' => CommandReader(e)'
      BY <2>2, <3>1, <3>2 DEF CommandReader, CommandWriter
    <3> QED
      BY <2>2, <3>1, <3>2, <3>3 DEF FirstInv
  <2> QED
    <3>1. CASE \E d \in Drivers : DriverStep(d) \/ TimeRunsOut(d)
      BY <2>8, <2>9, <2>10, <3>1 DEF DriverStep, FirstInv
    <3> QED
      BY <1>2, <2>3, <2>4, <2>5, <2>6, <2>7, <3>1 DEF Next, Exchange
<1> QED
  BY <1>1, <1>2

-----------------------------------------------------------------------------
(* The invariant and what it says of the dispatcher.                       *)

IInv == Types /\ NamesInv /\ CurrentInv /\ FirstInv

\* The invariant holds at first.
LEMMA InitIInv == Init => IInv
<1> SUFFICES ASSUME Init PROVE IInv
  OBVIOUS
<1>1. Types
  <2>1. << >> \in Seq(Drivers) /\ << >> \in Seq(Reply) /\ << >> \in Seq(Command)
    OBVIOUS
  <2>2. 0 \in 0..MaxDrivers /\ 0 \in 0..MaxKills /\ 0 \in Nat /\ \A d \in 1..0 : FALSE
    BY BoundsAssumption
  <2>3. TypeOK
    BY <2>1, <2>2 DEF Init, TypeOK
  <2> QED
    BY <2>3 DEF Init, Types, Exchanging
<1>2. NamesInv
  BY DEF Init, NamesInv, QuitLeavesNobody
<1>3. CurrentInv
  BY DEF Init, CurrentInv, AnswerIsCurrent
<1>4. FirstInv
  <2>1. Len(<< >>) = 0
    OBVIOUS
  <2> QED
    BY <2>1 DEF Init, FirstInv, CommandWriter
<1> QED
  BY <1>1, <1>2, <1>3, <1>4 DEF IInv

\* Every step keeps the invariant.
LEMMA NextIInv ==
  ASSUME IInv, [Next]_vars
  PROVE  IInv'
<1>1. CASE Next
  BY <1>1, NextTypes, NextNames, NextCurrent, NextFirst DEF IInv
<1>2. CASE UNCHANGED vars
  <2>0. UNCHANGED <<spc, driver_count, rest, cmd, shown, hup, dpc, named, seen, nonblock, busy,
                    cmds, msgs, kills, lost, unasked, sent>>
    BY <1>2 DEF vars, driverVars, history
  <2>1. Types'
    BY <2>0 DEF IInv, Types, TypeOK, Exchanging
  <2>2. NamesInv'
    BY <2>0 DEF IInv, NamesInv, QuitLeavesNobody, CommandReader, CommandWriter, Alive
  <2>3. CurrentInv'
    BY <2>0 DEF IInv, CurrentInv, AnswerIsCurrent
  <2>4. FirstInv'
    BY <2>0 DEF IInv, FirstInv, CommandReader, CommandWriter
  <2> QED
    BY <2>1, <2>2, <2>3, <2>4 DEF IInv
<1> QED
  BY <1>1, <1>2

\* The invariant holds of every state.
LEMMA Invariant == Spec => []IInv
  BY InitIInv, NextIInv, PTL DEF Spec

\* The server and the drivers keep to their types (TypeOK; server.c:27-341).
THEOREM TypeCorrect == Spec => []TypeOK
<1>1. IInv => TypeOK
  BY DEF IInv, Types
<1> QED
  BY Invariant, <1>1, PTL

\* After cleanup no driver runs and no FIFO is left, but for one that a signal
\* caught between fork() and its entry in the table (QuitLeavesNobody;
\* server.c:143-199).
THEOREM NobodyIsLeft == Spec => []QuitLeavesNobody
<1>1. IInv => QuitLeavesNobody
  BY DEF IInv, NamesInv
<1> QED
  BY Invariant, <1>1, PTL

\* Until a notice the server shows the answer to its command; until a signal the
\* first command to a driver and its answer arrive (AnswersMeetCommands;
\* server.c:75-138, 206-287).
THEOREM AnswersMeet == Spec => []AnswersMeetCommands
<1>1. IInv => AnswerIsCurrent
  <2>1. CASE unasked = FALSE
    BY <2>1 DEF IInv, CurrentInv
  <2>2. CASE unasked = TRUE
    BY <2>2 DEF AnswerIsCurrent
  <2> QED
    BY <2>1, <2>2 DEF IInv, Types, TypeOK
<1>2. IInv => FirstCommandArrives
  BY DEF IInv, FirstInv, FirstCommandArrives
<1>3. IInv => AnswersMeetCommands
  BY <1>1, <1>2 DEF AnswersMeetCommands
<1> QED
  BY Invariant, <1>3, PTL
=============================================================================
