------------------------------ MODULE UdpChat ------------------------------
(***************************************************************************)
(* module3/12: one end of a UDP chat. A thread receives, and recvfrom      *)
(* stores the sender's address in other_addr; main sends to other_addr.    *)
(* There is no lock: an address is two halves, ip and port, and the kernel *)
(* copies one after the other (a data race in the code). Whoever sends a   *)
(* datagram to the port is heard: the peer, or a stranger.                 *)
(***************************************************************************)
EXTENDS Integers

CONSTANTS Peer,        \* the address given on the command line
          Strangers,   \* others that may write
          MaxMails     \* bound: datagrams received, and sent

VARIABLES
  other_addr,   \* its halves
  recv_thread,  \* the sender whose address is half stored, "recvfrom" or "cancelled"
  send_thread,  \* "fgets", the ip already read by sendto, or "quit"
  latest,       \* whose datagram was received last
  target,       \* where the last sendto() went
  seen,         \* who was the latest when it began
  raced,        \* recvfrom and sendto have overlapped
  mails         \* datagrams received and sent

chatVars == <<other_addr, recv_thread, send_thread, latest, target, seen, raced, mails>>

Addresses == {Peer} \union Strangers
Whole(a) == [ip |-> a, port |-> a]
Storing == recv_thread \in Addresses
Sending == send_thread \in Addresses

Init ==
  /\ other_addr = Whole(Peer)
  /\ recv_thread = "recvfrom" /\ send_thread = "fgets"
  /\ latest = Peer /\ target = Whole(Peer) /\ seen = Peer
  /\ raced = FALSE /\ mails = [received |-> 0, sent |-> 0]

-----------------------------------------------------------------------------
\* Mutant: recvfrom is given no address to store the port in.
StoreNothing(half, a) == UNCHANGED other_addr
Store(half, a) == other_addr' = [other_addr EXCEPT ![half] = a]

ReceiveFrom(a) ==
  /\ recv_thread = "recvfrom" /\ mails.received < MaxMails
  /\ Store("ip", a) /\ recv_thread' = a
  /\ raced' = (raced \/ Sending)
  /\ mails' = [mails EXCEPT !.received = @ + 1]
  /\ UNCHANGED <<send_thread, latest, target, seen>>

receive_messages ==
  /\ Storing
  /\ Store("port", recv_thread)
  /\ latest' = recv_thread /\ recv_thread' = "recvfrom"
  /\ UNCHANGED <<send_thread, target, seen, raced, mails>>

SendTo ==
  /\ send_thread = "fgets" /\ mails.sent < MaxMails
  /\ send_thread' = other_addr.ip /\ seen' = latest
  /\ raced' = Storing
  /\ mails' = [mails EXCEPT !.sent = @ + 1]
  /\ UNCHANGED <<other_addr, recv_thread, latest, target>>

send_messages ==
  /\ Sending
  /\ target' = [ip |-> send_thread, port |-> other_addr.port]
  /\ send_thread' = "fgets"
  /\ UNCHANGED <<other_addr, recv_thread, latest, seen, raced, mails>>

\* "quit": the receiving thread is cancelled, where it sleeps, and joined.
Quit ==
  /\ send_thread = "fgets" /\ recv_thread = "recvfrom"
  /\ send_thread' = "quit" /\ recv_thread' = "cancelled"
  /\ UNCHANGED <<other_addr, latest, target, seen, raced, mails>>

Next ==
  \/ \E a \in Addresses : ReceiveFrom(a)
  \/ receive_messages \/ SendTo \/ send_messages \/ Quit

\* What is typed goes to whoever's message came last before sendto(), which need
\* not be the peer nor the one the user has just read; and it goes to him, not to
\* the ip of one and the port of another, unless recvfrom and sendto overlap
\* (udp_client.c:7-8, 38-39).
GoesToTheLatest == ~Sending /\ ~raced => target = Whole(seen)
=============================================================================
