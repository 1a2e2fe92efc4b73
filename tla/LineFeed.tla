------------------------------ MODULE LineFeed ------------------------------
(***************************************************************************)
(* What the producer/consumer programs of module3/08 and module3/09        *)
(* promise, without semaphores: one writer appends whole lines to a file   *)
(* and every consumer walks the file from its beginning with a cursor of   *)
(* its own, one line at a time, stopping only where the file ends (or when *)
(* the run is interrupted).                                                *)
(***************************************************************************)
EXTENDS Naturals

CONSTANTS Consumers,  \* the consumer processes
          MaxLines    \* how many lines the writer appends at most

VARIABLES written,    \* number of whole lines in the file
          cursor,     \* cursor[c]: lines consumer c has read
          stopped,    \* consumers that have ended
          broken      \* the run was interrupted

feedVars == <<written, cursor, stopped, broken>>

FeedInit ==
  /\ written = 0
  /\ cursor = [c \in Consumers |-> 0]
  /\ stopped = {}
  /\ broken = FALSE

AppendLine ==
  /\ written < MaxLines
  /\ written' = written + 1
  /\ UNCHANGED <<cursor, stopped, broken>>

ReadLine(c) ==
  /\ c \notin stopped
  /\ cursor[c] < written
  /\ cursor' = [cursor EXCEPT ![c] = @ + 1]
  /\ UNCHANGED <<written, stopped, broken>>

\* A consumer that stops of its own accord was at the end of the file.
StopAtEnd(c) ==
  /\ c \notin stopped
  /\ cursor[c] = written
  /\ stopped' = stopped \union {c}
  /\ UNCHANGED <<written, cursor, broken>>

\* An interruption may stop any consumer wherever it is, and flush a last line.
Break ==
  /\ broken' = TRUE
  /\ \E S \in SUBSET Consumers : stopped' = stopped \union S
  /\ written' \in {written, written + 1}
  /\ written' <= MaxLines
  /\ UNCHANGED cursor

FeedNext ==
  \/ AppendLine
  \/ Break
  \/ \E c \in Consumers : ReadLine(c) \/ StopAtEnd(c)

FeedSpec == FeedInit /\ [][FeedNext]_feedVars
=============================================================================
