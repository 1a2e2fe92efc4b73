------------------------------ MODULE ShmPosix ------------------------------
(***************************************************************************)
(* module3/11: the exchange of module3/10 with a POSIX semaphore and a     *)
(* POSIX shared memory object. sem_wait is restarted after a signal, so    *)
(* the lock holds; but both objects have names that outlive the processes, *)
(* and the SIGINT handler restores the default action, so that a second    *)
(* SIGINT kills. The program may be started again after any kind of end.   *)
(*                                                                         *)
(* Data as in ShmSysV; here the lock makes generate_data and process_data  *)
(* atomic for the other side, so each is one step (but a kill may come     *)
(* anywhere between the steps).                                            *)
(***************************************************************************)
EXTENDS Naturals

CONSTANT MaxSets     \* bound: data sets the parent generates in a run

VARIABLES
  ppc, cpc,   \* where parent and child are
  names,      \* names in the system: SEM_NAME, SHM_NAME
  sem,        \* value of the semaphore
  running,    \* the parent's is_running
  handler,    \* disposition of SIGINT in each process
  numbers,    \* data->numbers: the set it holds
  count,      \* data->count: 0, or 1 for any other value
  result,     \* data->max, data->min: the set they belong to
  done,       \* data->done
  generated,  \* sets handed to the child in this run
  shown,      \* the set whose extremes were printed last
  processed   \* processed_nums

segment == <<numbers, count, result, done>>
progress == <<generated, shown, processed>>
vars == <<ppc, cpc, names, sem, running, handler, segment, progress>>

Processes == {"parent", "child"}
SEM_NAME == "/my_mutex"
SHM_NAME == "/shared_mem"

ParentLocks   == {"lockgen", "lockans", "lockdone"}
ParentUnlocks == {"unlockgen", "retry", "answered", "unlockdone"}
ParentInside  == {"gen", "ans", "setdone"} \union ParentUnlocks
ParentEnds    == {"exited", "failed", "killed"}
ChildLocks    == {"lock", "again"}
ChildUnlocks  == {"unlock", "leave"}
ChildInside   == {"check", "process", "unmapped"} \union ChildUnlocks
ChildEnds     == {"none", "dead", "killed"}

TypeOK ==
  /\ ppc \in {"start", "opened", "mapped", "top", "wait", "unlinked"}
             \union ParentLocks \union ParentInside \union ParentEnds
  /\ cpc \in ChildLocks \union ChildInside \union ChildEnds
  /\ names \subseteq {SEM_NAME, SHM_NAME}
  /\ sem \in {0, 1}
  /\ running \in {0, 1}
  /\ handler \in [Processes -> {"default", "handle_signal"}]
  /\ numbers \in 0..MaxSets /\ result \in 0..MaxSets
  /\ count \in {0, 1} /\ done \in {0, 1}
  /\ generated \in 0..MaxSets /\ shown \in 0..MaxSets /\ processed \in 0..MaxSets

Init ==
  /\ ppc = "start" /\ cpc = "none"
  /\ names = {}
  /\ sem = 1
  /\ running = 1
  /\ handler = [p \in Processes |-> "default"]
  /\ numbers = 0 /\ count = 0 /\ result = 0 /\ done = 0
  /\ generated = 0 /\ shown = 0 /\ processed = 0

-----------------------------------------------------------------------------
(* main() up to fork().                                                    *)

\* Mutant: sem_open without O_EXCL takes over what an earlier run has left.
OpenSemShared ==
  /\ ppc = "start"
  /\ names' = names \union {SEM_NAME}
  /\ sem' = IF SEM_NAME \in names THEN sem ELSE 1
  /\ ppc' = "opened"
  /\ UNCHANGED <<cpc, running, handler, segment, progress>>

InitialValue == 1

\* sem_open(O_CREAT | O_EXCL): only if nobody has left the name.
OpenSem ==
  /\ ppc = "start"
  /\ \/ /\ SEM_NAME \notin names
        /\ names' = names \union {SEM_NAME}
        /\ sem' = InitialValue
        /\ ppc' = "opened"
        /\ cpc' = IF cpc \in ChildEnds THEN "none" ELSE cpc
     \/ /\ SEM_NAME \in names
        /\ ppc' = "failed"
        /\ UNCHANGED <<cpc, names, sem>>
  /\ UNCHANGED <<running, handler, segment, progress>>

\* shm_open (without O_EXCL), ftruncate, signal, mmap, data->done = 0.
\* A new object is zeroed, an existing one keeps its contents. The counts of
\* this run start here.
MapSegment ==
  /\ ppc = "opened"
  /\ \/ /\ ppc' = "mapped"
        /\ names' = names \union {SHM_NAME}
        /\ done' = 0
        /\ handler' = [handler EXCEPT !["parent"] = "handle_signal"]
        /\ generated' = 0 /\ shown' = 0 /\ processed' = 0
        /\ IF SHM_NAME \in names
             THEN UNCHANGED <<numbers, count, result>>
             ELSE numbers' = 0 /\ count' = 0 /\ result' = 0
     \/ /\ ppc' = "failed"
        /\ names' \in {names, names \union {SHM_NAME}}
        /\ UNCHANGED <<handler, segment, progress>>
  /\ UNCHANGED <<cpc, sem, running>>

Fork ==
  /\ ppc = "mapped"
  /\ \/ /\ ppc' = "top" /\ cpc' = "lock"
        /\ handler' = [handler EXCEPT !["child"] = handler["parent"]]
     \/ ppc' = "failed" /\ UNCHANGED <<cpc, handler>>
  /\ UNCHANGED <<names, sem, running, segment, progress>>

-----------------------------------------------------------------------------
(* The parent: produce(), then the end of main().                           *)

\* Mutant: the lock is tried and its result ignored.
SemTryWait == sem' = 0
SemWait == sem > 0 /\ sem' = sem - 1
SemPost == sem' = sem + 1

ParentLock ==
  /\ ppc \in ParentLocks
  /\ SemWait
  /\ ppc' = CASE ppc = "lockgen"  -> "gen"
              [] ppc = "lockans"  -> "ans"
              [] ppc = "lockdone" -> "setdone"
  /\ UNCHANGED <<cpc, names, running, handler, segment, progress>>

ParentUnlock ==
  /\ ppc \in ParentUnlocks
  /\ SemPost
  /\ ppc' = CASE ppc = "unlockgen"  -> "lockans"
              [] ppc = "retry"      -> "lockans"
              [] ppc = "answered"   -> "top"
              [] ppc = "unlockdone" -> "wait"
  /\ processed' = IF ppc = "answered" THEN processed + 1 ELSE processed
  /\ UNCHANGED <<cpc, names, running, handler, segment, generated, shown>>

\* while (is_running)
TestRunning ==
  /\ ppc = "top"
  /\ \/ running = 1 /\ generated < MaxSets /\ ppc' = "lockgen"
     \/ running = 0 /\ ppc' = "lockdone"
  /\ UNCHANGED <<cpc, names, sem, running, handler, segment, progress>>

GenerateData ==
  /\ ppc = "gen"
  /\ numbers' = generated + 1
  /\ count' = 1
  /\ generated' = generated + 1
  /\ ppc' = "unlockgen"
  /\ UNCHANGED <<cpc, names, sem, running, handler, result, done, shown, processed>>

\* Mutant: the parent does not look at count.
TakeAnyAnswer ==
  /\ ppc = "ans"
  /\ shown' = result /\ ppc' = "answered"
  /\ UNCHANGED <<cpc, names, sem, running, handler, segment, generated, processed>>

TakeAnswer ==
  /\ ppc = "ans"
  /\ \/ count = 0 /\ shown' = result /\ ppc' = "answered"
     \/ count # 0 /\ ppc' = "retry" /\ UNCHANGED shown
  /\ UNCHANGED <<cpc, names, sem, running, handler, segment, generated, processed>>

\* Mutant: data->done is not set.
SkipDone ==
  /\ ppc = "setdone"
  /\ ppc' = "unlockdone"
  /\ UNCHANGED <<cpc, names, sem, running, handler, segment, progress>>

SetDone ==
  /\ ppc = "setdone"
  /\ done' = 1
  /\ ppc' = "unlockdone"
  /\ UNCHANGED <<cpc, names, sem, running, handler, numbers, count, result, progress>>

\* wait(), the total, munmap, shm_unlink.
WaitAndUnlink ==
  /\ ppc = "wait"
  /\ cpc \in {"dead", "killed"}
  /\ names' = names \ {SHM_NAME}
  /\ ppc' = "unlinked"
  /\ UNCHANGED <<cpc, sem, running, handler, segment, progress>>

\* Mutant: main returns without sem_unlink.
ExitOnly ==
  /\ ppc = "unlinked"
  /\ ppc' = "exited"
  /\ UNCHANGED <<cpc, names, sem, running, handler, segment, progress>>

\* sem_close, sem_unlink, return.
SemUnlink ==
  /\ ppc = "unlinked"
  /\ names' = names \ {SEM_NAME}
  /\ ppc' = "exited"
  /\ UNCHANGED <<cpc, sem, running, handler, segment, progress>>

-----------------------------------------------------------------------------
(* The child: consume(), and the SIGSEGV that follows it as in ShmSysV.     *)

ChildLock ==
  /\ cpc \in ChildLocks
  /\ SemWait
  /\ cpc' = IF cpc = "lock" THEN "check" ELSE "unmapped"
  /\ UNCHANGED <<ppc, names, running, handler, segment, progress>>

ChildUnlock ==
  /\ cpc \in ChildUnlocks
  /\ SemPost
  /\ cpc' = IF cpc = "unlock" THEN "lock" ELSE "again"
  /\ UNCHANGED <<ppc, names, running, handler, segment, progress>>

CheckSegment ==
  /\ cpc = "check"
  /\ cpc' = IF done = 1 THEN "leave" ELSE IF count = 0 THEN "unlock" ELSE "process"
  /\ UNCHANGED <<ppc, names, sem, running, handler, segment, progress>>

ProcessData ==
  /\ cpc = "process"
  /\ result' = numbers
  /\ count' = 0
  /\ cpc' = "unlock"
  /\ UNCHANGED <<ppc, names, sem, running, handler, numbers, done, progress>>

Segfault ==
  /\ cpc = "unmapped"
  /\ cpc' = "dead"
  /\ UNCHANGED <<ppc, names, sem, running, handler, segment, progress>>

-----------------------------------------------------------------------------
(* SIGINT, and starting the program again.                                  *)

SigintParent ==
  /\ ppc \notin ParentEnds
  /\ IF handler["parent"] = "handle_signal"
       THEN running' = 0 /\ UNCHANGED ppc
       ELSE ppc' = "killed" /\ UNCHANGED running
  /\ handler' = [handler EXCEPT !["parent"] = "default"]
  /\ UNCHANGED <<cpc, names, sem, segment, progress>>

\* The child's own is_running decides nothing.
SigintChild ==
  /\ cpc \notin ChildEnds
  /\ cpc' = IF handler["child"] = "handle_signal" THEN cpc ELSE "killed"
  /\ handler' = [handler EXCEPT !["child"] = "default"]
  /\ UNCHANGED <<ppc, names, sem, running, segment, progress>>

StartAgain ==
  /\ ppc \in ParentEnds
  /\ ppc' = "start"
  /\ running' = 1
  /\ handler' = [handler EXCEPT !["parent"] = "default"]
  /\ UNCHANGED <<cpc, names, sem, segment, progress>>

-----------------------------------------------------------------------------
ParentWork ==
  \/ OpenSem \/ MapSegment \/ Fork
  \/ TestRunning \/ GenerateData \/ TakeAnswer \/ SetDone \/ WaitAndUnlink \/ SemUnlink
ChildWork == CheckSegment \/ ProcessData \/ Segfault

Next ==
  \/ ParentWork \/ ParentLock \/ ParentUnlock
  \/ ChildWork \/ ChildLock \/ ChildUnlock
  \/ SigintParent \/ SigintChild \/ StartAgain

Spec == Init /\ [][Next]_vars

\* Both processes are scheduled; each sleeps a millisecond outside the lock
\* between two turns, so a waiter of sem_wait is woken: strong fairness.
Fairness ==
  /\ WF_vars(ParentWork) /\ WF_vars(ParentUnlock) /\ SF_vars(ParentLock)
  /\ WF_vars(ChildWork) /\ WF_vars(ChildUnlock) /\ SF_vars(ChildLock)

FairSpec == Spec /\ Fairness

-----------------------------------------------------------------------------
(* Properties.                                                             *)

\* sem_wait and sem_post keep parent and child apart whatever signals arrive,
\* also in a run that follows a killed one.
MutualExclusion == ~(ppc \in ParentInside /\ cpc \in ChildInside)

\* A run that gets past sem_open is alone with a fresh segment: no process of
\* an earlier run is alive, and no contents are inherited.
FreshStart ==
  ppc = "opened" => cpc = "none" /\ SHM_NAME \notin names

\* A run that reaches its end leaves no name behind, so it can be repeated.
CleanExit == ppc = "exited" => names = {}

\* Runs do not meet: each starts alone with a fresh segment, and one that ends
\* leaves nothing for the next (shared_mem_posix.c:67-78, 119-123).
RunsAreSeparate == FreshStart /\ CleanExit

\* After one SIGINT the parent prints the total and exits, unless a second one
\* kills a process.
SigintEndsRun ==
  (running = 0) ~> (ppc \in ParentEnds \/ cpc = "killed")
=============================================================================
