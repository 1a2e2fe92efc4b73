------------------------------ MODULE PosixSem ------------------------------
(***************************************************************************)
(* module3/09: the program of module3/08 with POSIX semaphores and a       *)
(* single consumer, which is the parent. "sem" guards the file, "empty"    *)
(* counts permits to try a read; both have names in the kernel and are     *)
(* created with O_EXCL. A next run starts when no process of the last one  *)
(* is left. main() can empty the file whenever its producer can open it.   *)
(***************************************************************************)
EXTENDS Integers

CONSTANTS MAX_LINES,
          MaxStarts    \* bound: starts of the program

VARIABLES
  names,      \* which of the two names exist
  main,       \* where main() is, then consumer()
  prod,       \* where producer() is
  sem, empty, \* values of this run's semaphores
  in_file,    \* lines in the file
  lines_read,
  permits,    \* lines the producer has finished with
  hit,        \* this run was interrupted or killed
  given_up,   \* some run was killed, could not fork, or could not open the file to read
  starts

semVars == <<names, main, prod, sem, empty, in_file, lines_read, permits, hit, given_up, starts>>

SEM == "SEM_NAME"
EMPTY == "EMPTY_SEM"
Ended == {"off", "refused", "failed", "done", "killed"}

Init ==
  /\ names = {} /\ main = "off" /\ prod = "off"
  /\ sem = 0 /\ empty = 0 /\ in_file = 0 /\ lines_read = 0 /\ permits = 0
  /\ hit = FALSE /\ given_up = FALSE /\ starts = 0

-----------------------------------------------------------------------------
(* main()                                                                  *)

Start ==
  /\ main \in Ended /\ prod \in Ended /\ starts < MaxStarts
  /\ starts' = starts + 1 /\ main' = "open" /\ prod' = "off"
  /\ lines_read' = 0 /\ permits' = 0 /\ hit' = FALSE
  /\ UNCHANGED <<names, sem, empty, in_file, given_up>>

\* sem_open(O_CREAT | O_EXCL) of the name n. A refused start exits as it is: the
\* first name stays when the second is refused.
Open(n, from, to) ==
  /\ main = from
  /\ IF n \in names THEN main' = "refused" /\ UNCHANGED names
     ELSE main' = to /\ names' = names \union {n}
  /\ UNCHANGED <<prod, lines_read, permits, hit, given_up, starts>>

OpenSem == Open(SEM, "open", "second") /\ sem' = 1 /\ UNCHANGED <<empty, in_file>>
OpenEmpty == /\ Open(EMPTY, "second", "fork") /\ empty' = 0
             /\ in_file' = IF main' = "fork" THEN 0 ELSE in_file
             /\ UNCHANGED sem

Fork ==
  /\ main = "fork"
  /\ \/ main' = "fopen" /\ prod' = "fopen" /\ UNCHANGED given_up
     \/ main' = "failed" /\ given_up' = TRUE /\ UNCHANGED prod
  /\ UNCHANGED <<names, sem, empty, in_file, lines_read, permits, hit, starts>>

-----------------------------------------------------------------------------
(* producer() and write_data_line()                                        *)

\* A producer that cannot open the file ends and has posted nothing.
ProducerOpen ==
  /\ prod = "fopen" /\ prod' \in {"lock", "failed"}
  /\ UNCHANGED <<names, main, sem, empty, in_file, lines_read, permits, hit, given_up, starts>>

ProducerLock ==
  /\ prod = "lock" /\ permits < MAX_LINES /\ sem > 0
  /\ sem' = sem - 1 /\ prod' = "write"
  /\ UNCHANGED <<names, main, empty, in_file, lines_read, permits, hit, given_up, starts>>

\* Mutant: the line stays in the buffer of the FILE.
write_unflushed ==
  /\ prod = "write"
  /\ sem' = sem + 1 /\ prod' = "post"
  /\ UNCHANGED <<names, main, empty, in_file, lines_read, permits, hit, given_up, starts>>
\* fflush and sem_post
write_data_line ==
  /\ prod = "write"
  /\ in_file' = in_file + 1 /\ sem' = sem + 1 /\ prod' = "post"
  /\ UNCHANGED <<names, main, empty, lines_read, permits, hit, given_up, starts>>

PostPermit ==
  /\ prod = "post"
  /\ empty' = empty + 1 /\ permits' = permits + 1 /\ prod' = "lock"
  /\ UNCHANGED <<names, main, sem, in_file, lines_read, hit, given_up, starts>>

\* The permit that shows the consumer the end of the file.
FinalPost ==
  /\ prod = "lock" /\ permits = MAX_LINES
  /\ empty' = empty + 1 /\ prod' = "done"
  /\ UNCHANGED <<names, main, sem, in_file, lines_read, permits, hit, given_up, starts>>

-----------------------------------------------------------------------------
(* consumer() and read_data_line()                                         *)

\* A consumer that cannot open the file exits main() as it is: both names stay.
ConsumerOpen ==
  /\ main = "fopen"
  /\ \/ main' = "wait" /\ UNCHANGED given_up
     \/ main' = "failed" /\ given_up' = TRUE
  /\ UNCHANGED <<names, prod, sem, empty, in_file, lines_read, permits, hit, starts>>

TakePermit ==
  /\ main = "wait" /\ empty > 0
  /\ empty' = empty - 1 /\ main' = "lock"
  /\ UNCHANGED <<names, prod, sem, in_file, lines_read, permits, hit, given_up, starts>>

ConsumerLock ==
  /\ main = "lock" /\ sem > 0
  /\ sem' = sem - 1 /\ main' = "read"
  /\ UNCHANGED <<names, prod, empty, in_file, lines_read, permits, hit, given_up, starts>>

read_data_line ==
  /\ main = "read"
  /\ sem' = sem + 1
  /\ IF lines_read < in_file THEN lines_read' = lines_read + 1 /\ main' = "wait"
     ELSE main' = "reap" /\ UNCHANGED lines_read
  /\ UNCHANGED <<names, prod, empty, in_file, permits, hit, given_up, starts>>

\* wait(NULL), then the two names go, one after the other.
Reap ==
  /\ main = "reap" /\ prod \in Ended /\ main' = "unlink"
  /\ UNCHANGED <<names, prod, sem, empty, in_file, lines_read, permits, hit, given_up, starts>>

Unlink(from, n, to) ==
  /\ main = from /\ names' = names \ {n} /\ main' = to
  /\ UNCHANGED <<prod, sem, empty, in_file, lines_read, permits, hit, given_up, starts>>
UnlinkSem == Unlink("unlink", SEM, "unlink2")
UnlinkEmpty == Unlink("unlink2", EMPTY, "done")

-----------------------------------------------------------------------------
\* Mutant: the handler removes one name only.
cleanup_half == names' = names \ {SEM}
cleanup == names' = {}

\* SIGINT to either process; exit() flushes a line that is half way.
Interrupt ==
  /\ \/ main \notin Ended /\ main' = "killed" /\ UNCHANGED <<prod, in_file>>
     \/ prod \notin Ended /\ prod' = "killed" /\ UNCHANGED main
          /\ in_file' \in {in_file, in_file + (IF prod = "write" THEN 1 ELSE 0)}
  /\ cleanup /\ hit' = TRUE
  /\ UNCHANGED <<sem, empty, lines_read, permits, given_up, starts>>

Kill ==
  /\ \/ main \notin Ended /\ main' = "killed" /\ UNCHANGED prod
     \/ prod \notin Ended /\ prod' = "killed" /\ UNCHANGED main
  /\ hit' = TRUE /\ given_up' = TRUE
  /\ UNCHANGED <<names, sem, empty, in_file, lines_read, permits, starts>>

Next ==
  \/ Start \/ OpenSem \/ OpenEmpty \/ Fork
  \/ ProducerOpen \/ ProducerLock \/ write_data_line \/ PostPermit \/ FinalPost
  \/ ConsumerOpen \/ TakePermit \/ ConsumerLock \/ read_data_line \/ Reap \/ UnlinkSem \/ UnlinkEmpty
  \/ Interrupt \/ Kill

Spec == Init /\ [][Next]_semVars

-----------------------------------------------------------------------------
\* A start is refused only when an earlier run was killed, could not fork, or could
\* not open the file to read; it then leaves names of its own and refuses all the
\* next ones. A run that nobody interrupts has read every line when it ends, and
\* none before it was written: the end of the file is met with the last permit. The
\* consumer is left without a permit only by a producer that was killed or
\* interrupted or could not open the file (sem.c:88-104, 106-124, 130-157).
RunsAreWhole ==
  /\ main = "refused" => given_up
  /\ ~hit /\ main \in {"reap", "unlink", "unlink2", "done"} =>
       prod = "done" /\ lines_read = MAX_LINES /\ in_file = MAX_LINES
  /\ main = "wait" /\ empty = 0 => prod # "done"
=============================================================================
