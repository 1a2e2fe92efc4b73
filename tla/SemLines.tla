------------------------------ MODULE SemLines ------------------------------
(***************************************************************************)
(* module3/08: one producer appends lines to shared_data.txt, pids_number  *)
(* forked consumers read it, synchronised by two System V semaphores:      *)
(* "mutex" guards the file, "empty" counts permits to try a read.          *)
(*                                                                         *)
(* Data: only whether a line exists matters to the protocol, so the file   *)
(* is the number of its lines and a consumer's FILE* is the number of      *)
(* lines it has read.  It starts empty: main truncates it (an append-only  *)
(* file with lines of an earlier run is left out).  The two                *)
(* semctl(IPC_RMID) of an exit path are one step.                          *)
(***************************************************************************)
EXTENDS Integers, FiniteSets

CONSTANTS Consumers,  \* the consumers main() forks; pids_number of them
          MaxLines    \* MAX_LINES

ASSUME ConsumersAssumption == IsFiniteSet(Consumers)
ASSUME MaxLinesAssumption == MaxLines \in Nat

VARIABLES
  ppc,      \* where the parent (main, then producer) is
  cpc,      \* cpc[c]: where consumer c is
  mutex,    \* value of semaphore mutex
  empty,    \* value of semaphore empty
  sems,     \* whether the two semaphores still exist
  i,        \* loop variable of producer()
  lines,    \* lines flushed to the file
  pos       \* pos[c]: lines consumer c's FILE* has returned

vars == <<ppc, cpc, mutex, empty, sems, i, lines, pos>>

PidsNumber == Cardinality(Consumers)

ProducerStates == {"fork", "gen", "write", "flushed", "post", "final",
                   "reap", "done", "failed", "killed"}
ConsumerStates == {"unborn", "open", "wait", "lock", "crit", "line", "eof",
                   "process", "leave", "done", "failed", "killed"}

TypeOK ==
  /\ ppc \in ProducerStates
  /\ cpc \in [Consumers -> ConsumerStates]
  /\ mutex \in {0, 1}
  /\ empty \in Nat
  /\ sems \in {"exist", "removed"}
  /\ i \in 0..MaxLines
  /\ lines \in 0..MaxLines
  /\ pos \in [Consumers -> 0..MaxLines]

Init ==
  /\ ppc = "fork"
  /\ cpc = [c \in Consumers |-> "unborn"]
  /\ mutex = 1
  /\ empty = 0
  /\ sems = "exist"
  /\ i = 0
  /\ lines = 0
  /\ pos = [c \in Consumers |-> 0]

-----------------------------------------------------------------------------
(* The semaphore operations. A semop on a removed set fails at once and no  *)
(* caller looks at its result. "unlock" is the pair {wait for 0, add 1}.    *)

Removed == sems = "removed"

\* Mutant: the lock is tried with IPC_NOWAIT and its result ignored.
SemLockNoWait == mutex' = IF ~Removed /\ mutex > 0 THEN mutex - 1 ELSE mutex

SemLock ==
  \/ Removed /\ UNCHANGED mutex
  \/ ~Removed /\ mutex > 0 /\ mutex' = mutex - 1

SemUnlock ==
  \/ Removed /\ UNCHANGED mutex
  \/ ~Removed /\ mutex = 0 /\ mutex' = mutex + 1

TakePermit ==
  \/ Removed /\ UNCHANGED empty
  \/ ~Removed /\ empty > 0 /\ empty' = empty - 1

\* Mutant: unlock_empty keeps the sem_op it is initialised with.
PostPermitsOne == empty' = IF Removed THEN empty ELSE empty + 1

PostPermits == empty' = IF Removed THEN empty ELSE empty + PidsNumber

-----------------------------------------------------------------------------
(* The parent: main() forks the consumers, becomes the producer, reaps.     *)

ForkConsumer(c) ==
  /\ ppc = "fork"
  /\ cpc[c] = "unborn"
  /\ cpc' = [cpc EXCEPT ![c] = "open"]
  /\ UNCHANGED <<ppc, mutex, empty, sems, i, lines, pos>>

\* fork() fails: main exits at once and leaves the consumers it has forked.
ForkFails ==
  /\ ppc = "fork"
  /\ \E c \in Consumers : cpc[c] = "unborn"
  /\ ppc' = "failed"
  /\ UNCHANGED <<cpc, mutex, empty, sems, i, lines, pos>>

AllForked == ppc = "fork" /\ \A c \in Consumers : cpc[c] # "unborn"

StartProducing ==
  /\ AllForked
  /\ ppc' = "gen"
  /\ UNCHANGED <<cpc, mutex, empty, sems, i, lines, pos>>

\* producer() cannot open the file and exits main: nobody will ever post.
ProducerOpenFails ==
  /\ AllForked
  /\ ppc' = "failed"
  /\ UNCHANGED <<cpc, mutex, empty, sems, i, lines, pos>>

ProducerLock ==
  /\ ppc = "gen"
  /\ i < MaxLines
  /\ SemLock
  /\ ppc' = "write"
  /\ UNCHANGED <<cpc, empty, sems, i, lines, pos>>

ProducerFlush ==
  /\ ppc = "write"
  /\ lines' = lines + 1
  /\ ppc' = "flushed"
  /\ UNCHANGED <<cpc, mutex, empty, sems, i, pos>>

ProducerUnlock ==
  /\ ppc = "flushed"
  /\ SemUnlock
  /\ ppc' = "post"
  /\ UNCHANGED <<cpc, empty, sems, i, lines, pos>>

ProducerPost ==
  /\ ppc = "post"
  /\ PostPermits
  /\ i' = i + 1
  /\ ppc' = "gen"
  /\ UNCHANGED <<cpc, mutex, sems, lines, pos>>

LinesDone ==
  /\ ppc = "gen"
  /\ i = MaxLines
  /\ ppc' = "final"
  /\ UNCHANGED <<cpc, mutex, empty, sems, i, lines, pos>>

\* Mutant: producer() does not post again after its loop.
ProducerNoFinalPost ==
  /\ ppc = "final"
  /\ ppc' = "reap"
  /\ UNCHANGED <<cpc, mutex, empty, sems, i, lines, pos>>

ProducerFinalPost ==
  /\ ppc = "final"
  /\ PostPermits
  /\ ppc' = "reap"
  /\ UNCHANGED <<cpc, mutex, sems, i, lines, pos>>

Ended(c) == cpc[c] \in {"done", "failed", "killed"}

\* waitpid() for every consumer, then the semaphores are removed.
Reap ==
  /\ ppc = "reap"
  /\ \A c \in Consumers : Ended(c)
  /\ sems' = "removed"
  /\ ppc' = "done"
  /\ UNCHANGED <<cpc, mutex, empty, i, lines, pos>>

-----------------------------------------------------------------------------
(* A consumer.                                                             *)

ConsumerOpen(c) ==
  /\ cpc[c] = "open"
  /\ cpc' = [cpc EXCEPT ![c] = "wait"]
  /\ UNCHANGED <<ppc, mutex, empty, sems, i, lines, pos>>

\* A consumer that cannot open the file ends before its first attempt.
ConsumerOpenFails(c) ==
  /\ cpc[c] = "open"
  /\ cpc' = [cpc EXCEPT ![c] = "failed"]
  /\ UNCHANGED <<ppc, mutex, empty, sems, i, lines, pos>>

ConsumerWait(c) ==
  /\ cpc[c] = "wait"
  /\ TakePermit
  /\ cpc' = [cpc EXCEPT ![c] = "lock"]
  /\ UNCHANGED <<ppc, mutex, sems, i, lines, pos>>

ConsumerLock(c) ==
  /\ cpc[c] = "lock"
  /\ SemLock
  /\ cpc' = [cpc EXCEPT ![c] = "crit"]
  /\ UNCHANGED <<ppc, empty, sems, i, lines, pos>>

\* Mutant: a consumer may give up before the end of the file.
ConsumerReadGivesUp(c) ==
  /\ cpc[c] = "crit"
  /\ \/ /\ pos[c] < lines
        /\ pos' = [pos EXCEPT ![c] = @ + 1]
        /\ cpc' = [cpc EXCEPT ![c] = "line"]
     \/ /\ cpc' = [cpc EXCEPT ![c] = "eof"]
        /\ UNCHANGED pos
  /\ UNCHANGED <<ppc, mutex, empty, sems, i, lines>>

\* feof/fgets: a line if there is one more, end of file otherwise.
ConsumerRead(c) ==
  /\ cpc[c] = "crit"
  /\ \/ /\ pos[c] < lines
        /\ pos' = [pos EXCEPT ![c] = @ + 1]
        /\ cpc' = [cpc EXCEPT ![c] = "line"]
     \/ /\ pos[c] = lines
        /\ cpc' = [cpc EXCEPT ![c] = "eof"]
        /\ UNCHANGED pos
  /\ UNCHANGED <<ppc, mutex, empty, sems, i, lines>>

ConsumerUnlock(c) ==
  /\ cpc[c] \in {"line", "eof"}
  /\ SemUnlock
  /\ cpc' = [cpc EXCEPT ![c] = IF @ = "line" THEN "process" ELSE "leave"]
  /\ UNCHANGED <<ppc, empty, sems, i, lines, pos>>

ConsumerProcess(c) ==
  /\ cpc[c] = "process"
  /\ cpc' = [cpc EXCEPT ![c] = "wait"]
  /\ UNCHANGED <<ppc, mutex, empty, sems, i, lines, pos>>

ConsumerExit(c) ==
  /\ cpc[c] = "leave"
  /\ cpc' = [cpc EXCEPT ![c] = "done"]
  /\ UNCHANGED <<ppc, mutex, empty, sems, i, lines, pos>>

-----------------------------------------------------------------------------
(* SIGINT: every process has the handler cleanup(), which removes the       *)
(* semaphores and exits; exit() flushes what the producer has printed.      *)

InterruptConsumer(c) ==
  /\ cpc[c] # "unborn" /\ ~Ended(c)
  /\ cpc' = [cpc EXCEPT ![c] = "killed"]
  /\ sems' = "removed"
  /\ UNCHANGED <<ppc, mutex, empty, i, lines, pos>>

InterruptProducer ==
  /\ ppc \notin {"done", "failed", "killed"}
  /\ ppc' = "killed"
  /\ sems' = "removed"
  /\ lines' \in IF ppc = "write" THEN {lines, lines + 1} ELSE {lines}
  /\ UNCHANGED <<cpc, mutex, empty, i, pos>>

-----------------------------------------------------------------------------
ProducerStep ==
  \/ \E c \in Consumers : ForkConsumer(c)
  \/ StartProducing
  \/ ProducerLock \/ ProducerFlush \/ ProducerUnlock \/ ProducerPost
  \/ LinesDone \/ ProducerFinalPost \/ Reap

ConsumerStep(c) ==
  \/ ConsumerOpen(c) \/ ConsumerWait(c) \/ ConsumerLock(c) \/ ConsumerRead(c)
  \/ ConsumerUnlock(c) \/ ConsumerProcess(c) \/ ConsumerExit(c)

Interrupt == InterruptProducer \/ \E c \in Consumers : InterruptConsumer(c)

Failure == ForkFails \/ ProducerOpenFails \/ \E c \in Consumers : ConsumerOpenFails(c)

Next ==
  \/ ProducerStep
  \/ Failure
  \/ \E c \in Consumers : ConsumerStep(c)
  \/ Interrupt

Spec == Init /\ [][Next]_vars

\* Every process that can run is scheduled; nothing makes signals or failures
\* happen.
Fairness ==
  /\ WF_vars(ProducerStep)
  /\ \A c \in Consumers : WF_vars(ConsumerStep(c))

FairSpec == Spec /\ Fairness

-----------------------------------------------------------------------------
(* Properties.                                                             *)

ProducerInFile == ppc \in {"write", "flushed"}
ConsumerInFile(c) == cpc[c] \in {"crit", "line", "eof"}

\* While the semaphores exist, at most one process is between semop(lock) and
\* semop(unlock) of write_data_line / read_data_line.
MutualExclusion ==
  ~Removed =>
    /\ \A c \in Consumers : ~(ConsumerInFile(c) /\ ProducerInFile)
    /\ \A c, d \in Consumers : ConsumerInFile(c) /\ ConsumerInFile(d) => c = d

\* Permits are neither lost nor invented: each semop(empty, +pids_number) of
\* the producer is either still in the semaphore or was used for one attempt
\* to read, and an attempt either returned a line or is in progress or ended
\* the consumer.
HoldsAttempt(c) == cpc[c] \in {"lock", "crit", "eof", "leave", "done"}
Taken == {ck \in Consumers \X (1..(MaxLines + 1)) :
            ck[2] <= pos[ck[1]] + (IF HoldsAttempt(ck[1]) THEN 1 ELSE 0)}
Posts == i + (IF ppc \in {"reap", "done"} THEN 1 ELSE 0)
PermitConservation ==
  ~Removed => empty + Cardinality(Taken) = PidsNumber * Posts

\* Permits are not reserved for a consumer: one that is faster can take
\* another's. Even so the final post leaves a permit for every consumer that
\* still waits, so none of them blocks for ever.
NobodyStarves ==
  ~Removed /\ ppc = "reap" =>
    \A c \in Consumers : cpc[c] = "wait" => empty > 0

\* The semaphores disappear under a live consumer only because of a SIGINT:
\* the parent removes them after it has reaped every consumer.
RemovedAfterReaping ==
  Removed => \/ ppc = "killed"
             \/ \E c \in Consumers : cpc[c] = "killed"
             \/ \A c \in Consumers : Ended(c)

\* Every process ends, also when a SIGINT hits one of them inside the
\* critical section or a consumer cannot open the file, unless main gave up
\* half way through its forks or could not open the file as the producer: it
\* then leaves consumers behind that sleep in semop(empty) for ever.
ParentEnded == ppc \in {"done", "killed", "failed"}
Termination ==
  <>(ParentEnded /\ (ppc = "failed" \/ \A c \in Consumers :
                                          cpc[c] = "unborn" \/ Ended(c)))

\* module3/08/README.md: a consumer analyses the lines as long as the file
\* has unprocessed ones, so an undisturbed run leaves no line unread by all.
EveryLineAnalysed ==
  ppc = "done" /\ (\A c \in Consumers : cpc[c] = "done") /\ Consumers # {} =>
    \A n \in 1..lines : \E c \in Consumers : pos[c] >= n

\* The protocol implements the abstract feed: no line is skipped, and a
\* consumer that leaves its loop of its own accord was at the end of the file
\* (one that could not open the file never takes part).
Feed == INSTANCE LineFeed WITH
  written <- lines,
  cursor  <- pos,
  stopped <- {c \in Consumers : cpc[c] \in {"eof", "leave", "done", "killed"}},
  broken  <- ppc = "killed" \/ \E c \in Consumers : cpc[c] = "killed"
ImplementsFeed == Feed!FeedSpec
=============================================================================
