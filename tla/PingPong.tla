------------------------------ MODULE PingPong ------------------------------
(***************************************************************************)
(* module3/07: parent Ping and child Pong are to talk in turns, but send   *)
(* both through one POSIX queue, so that either can take its own message.  *)
(* The queue has a name and outlives the processes that do not unlink it.  *)
(*                                                                         *)
(* A process that sleeps in mq_receive is handed what is sent next; it     *)
(* never goes through the queue (external: Linux). A text is "line" or     *)
(* "exit".                                                                 *)
(***************************************************************************)
EXTENDS Integers, FiniteSets, Sequences

CONSTANTS MAX_QUEUE_SIZE,
          MaxGames,     \* bound: starts of the program
          MaxTexts      \* bound: messages sent in a run

VARIABLES
  where,     \* where[P]: "send", "recv", "asleep" or "ended"
  mq,        \* the queue: senders and texts
  handed,    \* handed[P]: what the sleeper P was handed, as a sequence
  named,     \* the queue has its name
  began_empty, \* the run began with an empty queue
  silent,    \* processes whose input has ended in this run
  killed,    \* a process was killed in this run
  texts,     \* messages sent in this run
  games      \* starts of the program so far

pingVars == <<where, mq, handed, named, began_empty, silent, killed, texts, games>>

Both == {"Ping", "Pong"}
Other(P) == IF P = "Ping" THEN "Pong" ELSE "Ping"

Init ==
  /\ where = [P \in Both |-> "ended"]
  /\ mq = << >> /\ handed = [P \in Both |-> << >>]
  /\ named = FALSE /\ began_empty = FALSE /\ silent = {} /\ killed = FALSE
  /\ texts = 0 /\ games = 0

\* mq_open without O_EXCL takes the queue it finds, and what is in it.
Start ==
  /\ \A P \in Both : where[P] = "ended"
  /\ games < MaxGames /\ games' = games + 1
  /\ where' = [Ping |-> "send", Pong |-> "recv"]
  /\ mq' = IF named THEN mq ELSE << >>
  /\ named' = TRUE /\ began_empty' = (mq' = << >>)
  /\ handed' = [P \in Both |-> << >>]
  /\ silent' = {} /\ killed' = FALSE /\ texts' = 0

-----------------------------------------------------------------------------
send_message(P, text) ==
  /\ where[P] = "send" /\ P \notin silent /\ texts < MaxTexts
  /\ LET m == [from |-> P, text |-> text]
     IN IF where[Other(P)] = "asleep" /\ handed[Other(P)] = << >>
        THEN handed' = [handed EXCEPT ![Other(P)] = <<m>>] /\ UNCHANGED mq
        ELSE Len(mq) < MAX_QUEUE_SIZE /\ mq' = Append(mq, m) /\ UNCHANGED handed
  /\ where' = [where EXCEPT ![P] = IF text = "exit" THEN "ended" ELSE "recv"]
  /\ texts' = texts + 1
  /\ UNCHANGED <<named, began_empty, silent, killed, games>>

\* At the end of the input nothing is sent, and the loop goes on to receive.
SendNothing(P) ==
  /\ where[P] = "send"
  /\ silent' = silent \union {P}
  /\ where' = [where EXCEPT ![P] = "recv"]
  /\ UNCHANGED <<mq, handed, named, began_empty, killed, texts, games>>

Take(P, m) ==
  /\ where' = [where EXCEPT ![P] = IF m.text = "exit" THEN "ended" ELSE "send"]
  /\ named' = (named /\ m.text # "exit")

\* Mutant: the queue is opened with O_NONBLOCK and the result ignored.
recieve_at_once(P) ==
  /\ where[P] = "recv"
  /\ IF mq = << >> THEN where' = [where EXCEPT ![P] = "send"] /\ UNCHANGED <<mq, named>>
     ELSE Take(P, Head(mq)) /\ mq' = Tail(mq)
  /\ UNCHANGED <<handed, began_empty, silent, killed, texts, games>>
recieve_message(P) ==
  /\ where[P] = "recv"
  /\ IF mq = << >> THEN where' = [where EXCEPT ![P] = "asleep"] /\ UNCHANGED <<mq, named>>
     ELSE Take(P, Head(mq)) /\ mq' = Tail(mq)
  /\ UNCHANGED <<handed, began_empty, silent, killed, texts, games>>

\* Mutant: who receives "exit" leaves without unlinking.
WakeAndLeave(P) ==
  /\ where[P] = "asleep" /\ handed[P] # << >>
  /\ where' = [where EXCEPT ![P] = IF Head(handed[P]).text = "exit" THEN "ended" ELSE "send"]
  /\ handed' = [handed EXCEPT ![P] = << >>]
  /\ UNCHANGED <<mq, named, began_empty, silent, killed, texts, games>>
Wake(P) ==
  /\ where[P] = "asleep" /\ handed[P] # << >>
  /\ Take(P, Head(handed[P]))
  /\ handed' = [handed EXCEPT ![P] = << >>]
  /\ UNCHANGED <<mq, began_empty, silent, killed, texts, games>>

-----------------------------------------------------------------------------
\* Ctrl-C reaches both: Ping's handler unlinks, Pong has none and dies.
sigint_handler ==
  /\ where["Ping"] # "ended"
  /\ where' = [P \in Both |-> "ended"]
  /\ named' = FALSE
  /\ UNCHANGED <<mq, handed, began_empty, silent, killed, texts, games>>

Kill(P) ==
  /\ where[P] # "ended"
  /\ where' = [where EXCEPT ![P] = "ended"] /\ killed' = TRUE
  /\ UNCHANGED <<mq, handed, named, began_empty, silent, texts, games>>

Moves(P) == recieve_message(P) \/ Wake(P)
Next ==
  \/ Start \/ sigint_handler
  \/ \E P \in Both : Moves(P) \/ SendNothing(P) \/ Kill(P)
  \/ \E P \in Both, text \in {"line", "exit"} : send_message(P, text)

Fairness == \A P \in Both : WF_pingVars(Moves(P))

Spec == Init /\ [][Next]_pingVars /\ Fairness

-----------------------------------------------------------------------------
\* One message is under way at a time, or one process is to type, although a process
\* may take its own message and type again: in a run that began with an empty queue
\* there is never more than one turn. Both wait for each other only after an end of
\* input or a kill. A run begins with a used queue only after a kill
\* (posix_queue_chat.c:22-61, 92-101).
OneTurn ==
  LET turns == Cardinality({P \in Both : where[P] = "send"}) + Len(mq)
                 + Len(handed["Ping"]) + Len(handed["Pong"])
  IN began_empty /\ (\E P \in Both : where[P] # "ended") =>
       /\ turns <= 1
       /\ turns = 0 => silent # {} \/ killed

\* README.md:2-4 has two queues and messages sent in turns, as in ping-pong: a process
\* sends again only when it has received a message of the other one.
SentInTurns ==
  [][\A P \in Both :
       where[P] = "recv" /\ where'[P] = "send" => Head(mq).from = Other(P)]_pingVars

\* Whoever sends "exit", the other takes it, ends too and removes the queue,
\* unless one of them was killed or a killed run has left its messages.
ExitEndsBoth ==
  (began_empty /\ ~killed /\ \E P \in Both : where[P] = "ended") ~>
     killed \/ (~named /\ \A P \in Both : where[P] = "ended")
=============================================================================
