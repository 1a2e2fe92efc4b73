------------------------------- MODULE UdpEcho ------------------------------
(***************************************************************************)
(* module3/c01: an echo server on a raw socket numbers the lines of every  *)
(* client; clients are known by their port (all have the address           *)
(* 127.0.0.20). Client and server are on one host: datagrams stay in order *)
(* and are not doubled, but a full receive buffer drops them. A client     *)
(* takes whatever UDP packet comes to its port as the answer, and only     *)
(* packets that come while its socket is open.                             *)
(*                                                                         *)
(* A datagram to the server is the sender's port and what its text is to   *)
(* the server: "line", "CLOSE", or "CLOSED", which begins in the same way. *)
(* A datagram to a client is the number in it.                             *)
(***************************************************************************)
EXTENDS Integers, FiniteSets, Sequences

CONSTANTS Ports,         \* the clients' ports, one session at a time on each
          MAX_CLIENTS,
          MaxSessions,   \* bound: sessions of each port
          MaxTyped,      \* bound: lines typed in a session
          MaxLost        \* bound: datagrams dropped

VARIABLES
  clients,    \* the server's table: what is known of each slot
  serving,    \* FALSE when it has followed the NULL
  toServer,   \* its receive buffer
  user,       \* user[p]: "off", "prompt" or "recv"
  toClient,   \* toClient[p]: the receive buffer of the open socket
  typed,      \* typed[p]: lines typed in the session
  closing,    \* ports in whose session "CLOSE" was typed
  sessions,   \* sessions[p]: how many there were
  lost,       \* ports a datagram of which was dropped
  unheard,    \* ports whose last session ended without a CLOSE that arrived
  fresh       \* ports whose session began unknown to the server

echoVars == <<clients, serving, toServer, user, toClient, typed, closing, sessions, lost, unheard, fresh>>

Slots == 1..MAX_CLIENTS
Free == [port |-> 0, count |-> 0, active |-> FALSE]
SlotOf(p) == {i \in Slots : clients[i].active /\ clients[i].port = p}
Pending(p) == {i \in DOMAIN toServer : toServer[i].port = p}

Init ==
  /\ clients = [i \in Slots |-> Free] /\ serving = TRUE
  /\ toServer = << >>
  /\ user = [p \in Ports |-> "off"]
  /\ toClient = [p \in Ports |-> << >>]
  /\ typed = [p \in Ports |-> 0] /\ closing = {}
  /\ sessions = [p \in Ports |-> 0]
  /\ lost = {} /\ unheard = {} /\ fresh = {}

-----------------------------------------------------------------------------
\* sendto a raw socket: the datagram is in the other's buffer, or dropped.
Delivered(p, text) ==
  /\ toServer' = Append(toServer, [port |-> p, text |-> text]) /\ UNCHANGED lost
Dropped(p) ==
  /\ Cardinality(lost) < MaxLost /\ lost' = lost \union {p}

send_message(p, text) ==
  \/ Delivered(p, text)
  \/ Dropped(p) /\ UNCHANGED toServer

Start(p) ==
  /\ user[p] = "off" /\ sessions[p] < MaxSessions[p]
  /\ user' = [user EXCEPT ![p] = "prompt"]
  /\ sessions' = [sessions EXCEPT ![p] = @ + 1]
  /\ typed' = [typed EXCEPT ![p] = 0] /\ closing' = closing \ {p}
  /\ lost' = lost \ {p} /\ unheard' = unheard \ {p}
  /\ fresh' = IF SlotOf(p) = {} /\ Pending(p) = {} THEN fresh \union {p} ELSE fresh \ {p}
  /\ UNCHANGED <<clients, serving, toServer, toClient>>

\* A line is typed; the client then sleeps in recv(), for ever if need be.
Ask(p, text) ==
  /\ user[p] = "prompt" /\ typed[p] < MaxTyped
  /\ send_message(p, text)
  /\ typed' = [typed EXCEPT ![p] = @ + 1]
  /\ closing' = IF text = "CLOSE" THEN closing \union {p} ELSE closing
  /\ user' = [user EXCEPT ![p] = "recv"]
  /\ UNCHANGED <<clients, serving, toClient, sessions, unheard, fresh>>

recieve_message(p) ==
  /\ user[p] = "recv" /\ toClient[p] # << >>
  /\ toClient' = [toClient EXCEPT ![p] = Tail(@)]
  /\ user' = [user EXCEPT ![p] = "prompt"]
  /\ UNCHANGED <<clients, serving, toServer, typed, closing, sessions, lost, unheard, fresh>>

Off(p) == /\ user' = [user EXCEPT ![p] = "off"]
          /\ toClient' = [toClient EXCEPT ![p] = << >>]
          /\ UNCHANGED <<clients, serving, typed, closing, sessions, fresh>>

\* SIGINT, wherever the client is, sends a CLOSE.
signal_handler(p) ==
  /\ user[p] # "off"
  /\ \/ Delivered(p, "CLOSE") /\ UNCHANGED unheard
     \/ Dropped(p) /\ unheard' = unheard \union {p} /\ UNCHANGED toServer
  /\ Off(p)

\* The end of the input sends none.
EndOfInput(p) ==
  /\ user[p] = "prompt"
  /\ unheard' = unheard \union {p}
  /\ UNCHANGED <<toServer, lost>>
  /\ Off(p)

-----------------------------------------------------------------------------
\* Mutant: the count of the slot's last owner goes on.
SlotKept(p, i) == [clients EXCEPT ![i] = [@ EXCEPT !.port = p, !.count = @ + 1, !.active = TRUE]]
\* Slot i counts one more line of p.
Counted(p, i) ==
  [clients EXCEPT ![i] = [port   |-> p,
                          count  |-> IF @.active THEN @.count + 1 ELSE 1,
                          active |-> TRUE]]

\* Where p is found, or would be added: none when all slots are taken.
find_or_add_client(p) ==
  LET candidates == IF SlotOf(p) # {} THEN SlotOf(p) ELSE {i \in Slots : ~clients[i].active}
  IN {i \in candidates : \A j \in candidates : i <= j}

\* Mutant: the entry stays.
keep_client(p) == clients
remove_client(p) ==
  [i \in Slots |-> IF i \in SlotOf(p) THEN [clients[i] EXCEPT !.active = FALSE] ELSE clients[i]]

\* The number goes to whoever has the port open by now.
send_response(p, count) ==
  \/ /\ toClient' = IF user[p] = "off" THEN toClient ELSE [toClient EXCEPT ![p] = Append(@, count)]
     /\ UNCHANGED lost
  \/ Dropped(p) /\ UNCHANGED toClient

\* Mutant: data_len is not compared.
IsCloseByPrefix(text) == text # "line"
IsClose(text) == text = "CLOSE"

\* One turn of the server's loop.
Serve ==
  /\ serving /\ toServer # << >>
  /\ toServer' = Tail(toServer)
  /\ LET p == Head(toServer).port
     IN IF IsClose(Head(toServer).text)
        THEN clients' = remove_client(p) /\ UNCHANGED <<serving, toClient, lost>>
        ELSE \/ \E i \in find_or_add_client(p) :
                  /\ clients' = Counted(p, i)
                  /\ send_response(p, clients'[i].count)
                  /\ UNCHANGED serving
             \/ find_or_add_client(p) = {} /\ serving' = FALSE
                  /\ UNCHANGED <<clients, toClient, lost>>
  /\ UNCHANGED <<user, typed, closing, sessions, unheard, fresh>>

Next ==
  \/ Serve
  \/ \E p \in Ports :
       \/ Start(p) \/ recieve_message(p) \/ signal_handler(p) \/ EndOfInput(p)
       \/ \E text \in {"line", "CLOSE", "CLOSED"} : Ask(p, text)

Spec == Init /\ [][Next]_echoVars

-----------------------------------------------------------------------------
\* In a session that the server met as a new one, of which no datagram was
\* dropped and in which "CLOSE" was not typed, a line that is not yet answered
\* is on its way, or its answer is, with the number the line has in the session;
\* so no client waits in vain, unless the server has crashed.
Answered(p) ==
  \/ Pending(p) # {} /\ toClient[p] = << >>
  \/ Pending(p) = {} /\ toClient[p] = <<typed[p]>>
EchoNumbers ==
  serving => \A p \in fresh \ (lost \union closing) : user[p] = "recv" => Answered(p)

\* A slot is taken for a session that
\* goes on, for one whose CLOSE is in the buffer, or for one that ended without
\* a CLOSE that arrived: by an end of input or by a loss.
EchoSlots ==
  /\ \A i \in Slots : clients[i].active =>
       LET p == clients[i].port
       IN user[p] # "off" \/ p \in unheard \/ \E k \in Pending(p) : toServer[k].text = "CLOSE"
  /\ \A i, j \in Slots : clients[i].active /\ clients[j].active /\ clients[i].port = clients[j].port
       => i = j
=============================================================================
