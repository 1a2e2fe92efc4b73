------------------------------ MODULE ShmSysV -------------------------------
(***************************************************************************)
(* module3/10: a parent fills a System V shared segment with a data set, a *)
(* forked child replaces it by its extremes, the parent prints them; a     *)
(* System V semaphore guards the segment and SIGINT ends the exchange.     *)
(*                                                                         *)
(* Data: a data set is its number, count only matters as zero or not, and  *)
(* max/min are the number of the set they were computed from (0: from a    *)
(* mixture). generate_data and process_data take two steps each, so that   *)
(* a process that is inside without the lock can be seen half way.         *)
(***************************************************************************)
EXTENDS Naturals

CONSTANT MaxSets     \* bound: data sets the parent generates
CONSTANT MaxSignals  \* bound: SIGINTs each process receives

VARIABLES
  ppc, cpc,   \* where parent and child are
  sem,        \* value of the semaphore
  running,    \* the parent's is_running
  signals,    \* SIGINTs delivered to each process
  numbers,    \* data->numbers: the set it holds
  count,      \* data->count: 0, or 1 for any other value
  result,     \* data->max, data->min: the set they belong to
  done,       \* data->done
  scanned,    \* the child's local max and min
  generated,  \* sets handed to the child
  shown,      \* the set whose extremes were printed last
  processed   \* processed_nums

data == <<numbers, count, result, done>>
progress == <<generated, shown, processed>>
vars == <<ppc, cpc, sem, running, signals, data, scanned, progress>>

Processes == {"parent", "child"}

\* Places in front of mutex_lock and in front of mutex_unlock.
ParentLocks   == {"lockgen", "lockans", "lockdone"}
ParentUnlocks == {"unlockgen", "retry", "answered", "unlockdone"}
ParentInside  == {"gen", "publish", "ans", "setdone"} \union ParentUnlocks
ChildLocks    == {"lock", "again"}
ChildUnlocks  == {"unlock", "leave"}
ChildInside   == {"check", "scan", "store", "detached"} \union ChildUnlocks

TypeOK ==
  /\ ppc \in {"top", "wait", "exited"} \union ParentLocks \union ParentInside
  /\ cpc \in {"dead"} \union ChildLocks \union ChildInside
  /\ sem \in {0, 1}
  /\ running \in {0, 1}
  /\ signals \in [Processes -> 0..MaxSignals]
  /\ numbers \in 0..MaxSets /\ result \in 0..MaxSets /\ scanned \in 0..MaxSets
  /\ count \in {0, 1} /\ done \in {0, 1}
  /\ generated \in 0..MaxSets /\ shown \in 0..MaxSets /\ processed \in 0..MaxSets

Init ==
  /\ ppc = "top" /\ cpc = "lock"
  /\ sem = 1
  /\ running = 1
  /\ signals = [p \in Processes |-> 0]
  /\ numbers = 0 /\ count = 0 /\ result = 0 /\ done = 0 /\ scanned = 0
  /\ generated = 0 /\ shown = 0 /\ processed = 0

-----------------------------------------------------------------------------
(* semop(lock) takes 1; semop(unlock) waits for 0 and adds 1, atomically.   *)
(* A semop that sleeps when a signal handler runs returns EINTR, which no   *)
(* caller looks at; SA_RESTART does not apply to semop.                     *)

\* Mutant: lock does not wait.
LockAtOnce == sem' = 0
Lock == sem > 0 /\ sem' = sem - 1

Unlock == sem = 0 /\ sem' = sem + 1

AfterParentLock ==
  ppc' = CASE ppc = "lockgen"  -> "gen"
           [] ppc = "lockans"  -> "ans"
           [] ppc = "lockdone" -> "setdone"

AfterParentUnlock ==
  /\ ppc' = CASE ppc = "unlockgen"  -> "lockans"
              [] ppc = "retry"      -> "lockans"
              [] ppc = "answered"   -> "top"
              [] ppc = "unlockdone" -> "wait"
  /\ processed' = IF ppc = "answered" THEN processed + 1 ELSE processed
  /\ UNCHANGED <<generated, shown>>

AfterChildLock   == cpc' = IF cpc = "lock" THEN "check" ELSE "detached"
AfterChildUnlock == cpc' = IF cpc = "unlock" THEN "lock" ELSE "again"

-----------------------------------------------------------------------------
(* The parent: produce(), then the end of main().                           *)

ParentLock ==
  /\ ppc \in ParentLocks
  /\ Lock
  /\ AfterParentLock
  /\ UNCHANGED <<cpc, running, signals, data, scanned, progress>>

ParentUnlock ==
  /\ ppc \in ParentUnlocks
  /\ Unlock
  /\ AfterParentUnlock
  /\ UNCHANGED <<cpc, running, signals, data, scanned>>

\* while (is_running)
TestRunning ==
  /\ ppc = "top"
  /\ \/ running = 1 /\ generated < MaxSets /\ ppc' = "lockgen"
     \/ running = 0 /\ ppc' = "lockdone"
  /\ UNCHANGED <<cpc, sem, running, signals, data, scanned, progress>>

\* generate_data: the numbers, then the count that announces them.
GenerateNumbers ==
  /\ ppc = "gen"
  /\ numbers' = generated + 1
  /\ ppc' = "publish"
  /\ UNCHANGED <<cpc, sem, running, signals, count, result, done, scanned, progress>>

PublishCount ==
  /\ ppc = "publish"
  /\ count' = 1
  /\ generated' = generated + 1
  /\ ppc' = "unlockgen"
  /\ UNCHANGED <<cpc, sem, running, signals, numbers, result, done, scanned, shown, processed>>

\* Mutant: the parent does not look at count.
TakeAnyAnswer ==
  /\ ppc = "ans"
  /\ shown' = result /\ ppc' = "answered"
  /\ UNCHANGED <<cpc, sem, running, signals, data, scanned, generated, processed>>

TakeAnswer ==
  /\ ppc = "ans"
  /\ \/ count = 0 /\ shown' = result /\ ppc' = "answered"
     \/ count # 0 /\ ppc' = "retry" /\ UNCHANGED shown
  /\ UNCHANGED <<cpc, sem, running, signals, data, scanned, generated, processed>>

SetDone ==
  /\ ppc = "setdone"
  /\ done' = 1
  /\ ppc' = "unlockdone"
  /\ UNCHANGED <<cpc, sem, running, signals, numbers, count, result, scanned, progress>>

\* wait(), the total, and the removal of the segment and the semaphore.
WaitAndRemove ==
  /\ ppc = "wait"
  /\ cpc = "dead"
  /\ ppc' = "exited"
  /\ UNCHANGED <<cpc, sem, running, signals, data, scanned, progress>>

-----------------------------------------------------------------------------
(* The child: consume(). When it returns, main() goes on into produce() or  *)
(* data->done = 1 on the detached segment: both take the lock first and     *)
(* both die of SIGSEGV.                                                     *)

ChildLock ==
  /\ cpc \in ChildLocks
  /\ Lock
  /\ AfterChildLock
  /\ UNCHANGED <<ppc, running, signals, data, scanned, progress>>

ChildUnlock ==
  /\ cpc \in ChildUnlocks
  /\ Unlock
  /\ AfterChildUnlock
  /\ UNCHANGED <<ppc, running, signals, data, scanned, progress>>

\* done, then count.
CheckSegment ==
  /\ cpc = "check"
  /\ cpc' = IF done = 1 THEN "leave" ELSE IF count = 0 THEN "unlock" ELSE "scan"
  /\ UNCHANGED <<ppc, sem, running, signals, data, scanned, progress>>

ScanNumbers ==
  /\ cpc = "scan"
  /\ scanned' = numbers
  /\ cpc' = "store"
  /\ UNCHANGED <<ppc, sem, running, signals, data, progress>>

\* The extremes are those of one set only if it did not change under the scan.
StoreExtremes ==
  /\ cpc = "store"
  /\ result' = IF numbers = scanned THEN scanned ELSE 0
  /\ count' = 0
  /\ cpc' = "unlock"
  /\ UNCHANGED <<ppc, sem, running, signals, numbers, done, scanned, progress>>

Segfault ==
  /\ cpc = "detached"
  /\ cpc' = "dead"
  /\ UNCHANGED <<ppc, sem, running, signals, data, scanned, progress>>

-----------------------------------------------------------------------------
(* SIGINT: is_running = 0, and a semop that sleeps is over without effect.  *)

SigintParent ==
  /\ ppc # "exited"
  /\ signals["parent"] < MaxSignals
  /\ signals' = [signals EXCEPT !["parent"] = @ + 1]
  /\ running' = 0
  /\ \/ UNCHANGED <<ppc, progress>>
     \/ ppc \in ParentLocks /\ sem = 0 /\ AfterParentLock /\ UNCHANGED progress
     \/ ppc \in ParentUnlocks /\ sem = 1 /\ AfterParentUnlock
  /\ UNCHANGED <<cpc, sem, data, scanned>>

\* The child's own is_running decides nothing (see above).
SigintChild ==
  /\ cpc # "dead"
  /\ signals["child"] < MaxSignals
  /\ signals' = [signals EXCEPT !["child"] = @ + 1]
  /\ \/ UNCHANGED cpc
     \/ cpc \in ChildLocks /\ sem = 0 /\ AfterChildLock
     \/ cpc \in ChildUnlocks /\ sem = 1 /\ AfterChildUnlock
  /\ UNCHANGED <<ppc, sem, running, data, scanned, progress>>

-----------------------------------------------------------------------------
ParentWork == TestRunning \/ GenerateNumbers \/ PublishCount \/ TakeAnswer \/ SetDone
              \/ WaitAndRemove
ChildWork  == CheckSegment \/ ScanNumbers \/ StoreExtremes \/ Segfault

Next ==
  \/ ParentWork \/ ParentLock \/ ParentUnlock
  \/ ChildWork \/ ChildLock \/ ChildUnlock
  \/ SigintParent \/ SigintChild

Spec == Init /\ [][Next]_vars

\* Both processes are scheduled. The kernel wakes the sleeper of a semaphore
\* that changes while the other side sleeps a millisecond outside it, hence
\* strong fairness of the semops.
Fairness ==
  /\ WF_vars(ParentWork) /\ WF_vars(ChildWork)
  /\ SF_vars(ParentLock) /\ SF_vars(ParentUnlock)
  /\ SF_vars(ChildLock) /\ SF_vars(ChildUnlock)

FairSpec == Spec /\ Fairness

-----------------------------------------------------------------------------
(* Properties.                                                             *)

\* As long as no SIGINT has arrived the lock works: parent and child are never
\* both between mutex_lock and mutex_unlock.
ExclusiveUntilSignal ==
  (\A p \in Processes : signals[p] = 0) =>
    ~(ppc \in ParentInside /\ cpc \in ChildInside)

\* When the parent removes the segment the child is gone, and the total it
\* prints counts every set it has generated.
CleanExit == ppc = "exited" => cpc = "dead" /\ processed = generated

\* module3/10/README.md: the exchange repeats until SIGINT, after which the
\* number of processed sets is printed.
SigintPrintsTotal == (running = 0) ~> (ppc = "exited")
=============================================================================
