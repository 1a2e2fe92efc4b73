------------------------ MODULE SharedMemoryProofs --------------------------
(***************************************************************************)
(* What the programs of module3/10 and module3/11 promise, for any number  *)
(* of data sets and of signals, and any history of runs, kills and failed  *)
(* starts.                                                                 *)
(*                                                                         *)
(* The refinement does not rest on the lock, which EINTR breaks in the     *)
(* first program. HandOver and Owned say what count alone guarantees:      *)
(* while it is 0 the parent owns the segment, while it is 1 the child does.*)
(***************************************************************************)
EXTENDS SharedMemory, TLAPS

-----------------------------------------------------------------------------
(* The System V program.                                                    *)

\* The parent has submitted a set and has not taken its answer.
Unanswered == ppc \in {"unlockgen", "lockans", "ans", "retry"}

HandOver ==
  /\ Unanswered \/ count = 0
  /\ Unanswered => /\ generated > 0 /\ shown = generated - 1 /\ numbers = generated
                   /\ processed = shown
                   /\ result = (IF count = 1 THEN shown ELSE generated)
  /\ ~Unanswered => /\ shown = generated /\ result = generated
                    /\ processed = (IF ppc = "answered" THEN generated - 1 ELSE generated)
                    /\ ppc = "answered" => generated > 0
  /\ ppc \in {"lockgen", "gen", "publish"} => generated < MaxSets
  /\ ppc = "publish" => numbers = generated + 1
  /\ cpc \in {"scan", "store"} => count = 1
  /\ cpc = "store" => scanned = numbers
  /\ ppc = "exited" => cpc = "dead"

\* Without a signal the semaphore is 0 exactly while someone is inside.
SemCounts ==
  (\A p \in SysV!Processes : signals[p] = 0) =>
    /\ sem = 1 => ppc \notin SysV!ParentInside /\ cpc \notin SysV!ChildInside
    /\ ~(ppc \in SysV!ParentInside /\ cpc \in SysV!ChildInside)

-----------------------------------------------------------------------------
\* At the start.
LEMMA SysVInit == SysV!Init => SysV!TypeOK /\ HandOver
<1> USE BoundsAssumption DEF SysV!Init
<1>1. SysV!Init => SysV!TypeOK
    BY DEF SysV!TypeOK, SysV!ParentLocks, SysV!ParentInside, SysV!ParentUnlocks,
           SysV!ChildLocks, SysV!ChildInside, SysV!ChildUnlocks, SysV!Processes
<1>2. SysV!Init => HandOver
    BY DEF HandOver, Unanswered
<1> QED
    BY <1>1, <1>2

\* One step keeps the types and who owns the segment, signals included.
LEMMA SysVNext == SysV!TypeOK /\ HandOver /\ [SysV!Next]_SysV!vars => SysV!TypeOK' /\ HandOver'
<1> SUFFICES ASSUME SysV!TypeOK, HandOver, [SysV!Next]_SysV!vars
             PROVE  SysV!TypeOK' /\ HandOver'
    OBVIOUS
<1> USE BoundsAssumption
    DEF SysV!TypeOK, HandOver, Unanswered, SysV!ParentLocks, SysV!ParentUnlocks,
        SysV!ParentInside, SysV!ChildLocks, SysV!ChildUnlocks, SysV!ChildInside, SysV!data,
        SysV!progress
<1>1. CASE SysV!ParentLock
    BY <1>1 DEF SysV!ParentLock, SysV!Lock, SysV!AfterParentLock
<1>2. CASE SysV!ParentUnlock
    BY <1>2 DEF SysV!ParentUnlock, SysV!Unlock, SysV!AfterParentUnlock
<1>3. CASE SysV!TestRunning
    BY <1>3 DEF SysV!TestRunning
<1>4. CASE SysV!GenerateNumbers
    BY <1>4 DEF SysV!GenerateNumbers
<1>5. CASE SysV!PublishCount
    BY <1>5 DEF SysV!PublishCount
<1>6. CASE SysV!TakeAnswer
    BY <1>6 DEF SysV!TakeAnswer
<1>7. CASE SysV!SetDone
    BY <1>7 DEF SysV!SetDone
<1>8. CASE SysV!WaitAndRemove
    BY <1>8 DEF SysV!WaitAndRemove
<1>9. CASE SysV!ChildLock
    BY <1>9 DEF SysV!ChildLock, SysV!Lock, SysV!AfterChildLock
<1>10. CASE SysV!ChildUnlock
    BY <1>10 DEF SysV!ChildUnlock, SysV!Unlock, SysV!AfterChildUnlock
<1>11. CASE SysV!CheckSegment
    BY <1>11 DEF SysV!CheckSegment
<1>12. CASE SysV!ScanNumbers
    BY <1>12 DEF SysV!ScanNumbers
<1>13. CASE SysV!StoreExtremes
    BY <1>13 DEF SysV!StoreExtremes
<1>14. CASE SysV!Segfault
    BY <1>14 DEF SysV!Segfault
<1>15. CASE SysV!SigintParent
  <2>1. signals' \in [SysV!Processes -> 0..MaxSignals]
      BY <1>15 DEF SysV!SigintParent, SysV!Processes
  <2> QED
      BY <1>15, <2>1 DEF SysV!SigintParent, SysV!AfterParentLock, SysV!AfterParentUnlock
<1>16. CASE SysV!SigintChild
  <2>1. signals' \in [SysV!Processes -> 0..MaxSignals]
      BY <1>16 DEF SysV!SigintChild, SysV!Processes
  <2> QED
      BY <1>16, <2>1 DEF SysV!SigintChild, SysV!AfterChildLock, SysV!AfterChildUnlock
<1>17. CASE UNCHANGED SysV!vars
    BY <1>17 DEF SysV!vars
<1> QED
    BY <1>1, <1>2, <1>3, <1>4, <1>5, <1>6, <1>7, <1>8, <1>9, <1>10, <1>11, <1>12, <1>13,
       <1>14, <1>15, <1>16, <1>17
    DEF SysV!Next, SysV!ParentWork, SysV!ChildWork

-----------------------------------------------------------------------------

\* So does one step keep the semaphore in step with who is inside.
LEMMA SemNext == SysV!TypeOK /\ SemCounts /\ [SysV!Next]_SysV!vars => SemCounts'
<1> SUFFICES ASSUME SysV!TypeOK, SemCounts, [SysV!Next]_SysV!vars
             PROVE  SemCounts'
    OBVIOUS
<1> USE DEF SemCounts, SysV!ParentLocks, SysV!ParentUnlocks, SysV!ParentInside,
            SysV!ChildLocks, SysV!ChildUnlocks, SysV!ChildInside
<1> USE DEF SysV!TypeOK
<1>1. CASE SysV!ParentLock \/ SysV!ParentUnlock
    BY <1>1 DEF SysV!ParentLock, SysV!ParentUnlock, SysV!Lock, SysV!Unlock,
                SysV!AfterParentLock, SysV!AfterParentUnlock
<1>2. CASE SysV!ChildLock \/ SysV!ChildUnlock
    BY <1>2 DEF SysV!ChildLock, SysV!ChildUnlock, SysV!Lock, SysV!Unlock,
                SysV!AfterChildLock, SysV!AfterChildUnlock
<1>3. CASE SysV!ParentWork
    BY <1>3 DEF SysV!ParentWork, SysV!TestRunning, SysV!GenerateNumbers, SysV!PublishCount,
                SysV!TakeAnswer, SysV!SetDone, SysV!WaitAndRemove
<1>4. CASE SysV!ChildWork
    BY <1>4 DEF SysV!ChildWork, SysV!CheckSegment, SysV!ScanNumbers, SysV!StoreExtremes,
                SysV!Segfault
<1>5. CASE SysV!SigintParent
  <2>1. signals'["parent"] # 0
      BY <1>5 DEF SysV!SigintParent, SysV!Processes
  <2> QED
      BY <2>1 DEF SysV!Processes
<1>6. CASE SysV!SigintChild
  <2>1. signals'["child"] # 0
      BY <1>6 DEF SysV!SigintChild, SysV!Processes
  <2> QED
      BY <2>1 DEF SysV!Processes
<1>7. CASE UNCHANGED SysV!vars
    BY <1>7 DEF SysV!vars
<1> QED
    BY <1>1, <1>2, <1>3, <1>4, <1>5, <1>6, <1>7 DEF SysV!Next

\* What a step is to the exchange.
LEMMA SysVSteps ==
  SysV!TypeOK /\ HandOver /\ [SysV!Next]_SysV!vars => [Order!ExchangeNext]_Order!exchangeVars
<1> USE BoundsAssumption DEF Order!exchangeVars
<1> SUFFICES ASSUME SysV!TypeOK, HandOver, [SysV!Next]_SysV!vars
             PROVE  [Order!ExchangeNext]_Order!exchangeVars
    OBVIOUS
<1> USE DEF SysV!data, SysV!progress
<1>1. CASE SysV!PublishCount
  <2>1. Order!Submit
      BY <1>1 DEF SysV!PublishCount, HandOver, Unanswered, SysV!TypeOK, Order!Submit
  <2> QED
      BY <2>1 DEF Order!ExchangeNext
<1>2. CASE SysV!StoreExtremes
  <2>1. Order!Answer
      BY <1>2 DEF SysV!StoreExtremes, HandOver, Unanswered, SysV!TypeOK, Order!Answer
  <2> QED
      BY <2>1 DEF Order!ExchangeNext
<1>3. CASE SysV!TakeAnswer
  <2>1. CASE count = 0
    <3>1. Order!Show
        BY <1>3, <2>1 DEF SysV!TakeAnswer, HandOver, Unanswered, SysV!TypeOK, Order!Show
    <3> QED
        BY <3>1 DEF Order!ExchangeNext
  <2>2. CASE count # 0
      BY <1>3, <2>2 DEF SysV!TakeAnswer
  <2> QED
      BY <2>1, <2>2
<1>4. ASSUME \/ SysV!ParentLock \/ SysV!ParentUnlock \/ SysV!TestRunning
             \/ SysV!GenerateNumbers \/ SysV!SetDone
             \/ SysV!WaitAndRemove \/ SysV!ChildLock \/ SysV!ChildUnlock
             \/ SysV!CheckSegment \/ SysV!ScanNumbers
             \/ SysV!Segfault \/ SysV!SigintParent \/ SysV!SigintChild
             \/ UNCHANGED SysV!vars
      PROVE  UNCHANGED Order!exchangeVars
    BY <1>4
    DEF SysV!ParentLock, SysV!ParentUnlock, SysV!AfterParentUnlock, SysV!TestRunning,
        SysV!GenerateNumbers, SysV!SetDone, SysV!WaitAndRemove, SysV!ChildLock,
        SysV!ChildUnlock, SysV!CheckSegment, SysV!ScanNumbers, SysV!Segfault,
        SysV!SigintParent, SysV!SigintChild, SysV!vars
<1> QED
    BY <1>1, <1>2, <1>3, <1>4 DEF SysV!Next, SysV!ParentWork, SysV!ChildWork

\* What always holds of the System V program.
SysVInv == SysV!TypeOK /\ HandOver /\ SemCounts

-----------------------------------------------------------------------------
(* The POSIX program.                                                       *)

\* The places of a parent that has created the semaphore and not removed it.
ParentOwns == {"opened", "mapped", "top", "wait", "unlinked"} \union Posix!ParentLocks
              \union Posix!ParentInside
Waiting == {"unlockgen", "lockans", "ans", "retry"}
Settled == {"mapped", "top", "lockgen", "gen", "answered", "lockdone", "setdone",
            "unlockdone", "wait", "unlinked", "exited"}

\* The names tell who may be alive: without SEM_NAME there is neither a child
\* nor an object an earlier run has left.
NamesInv ==
  /\ ppc \in ParentOwns => Posix!SEM_NAME \in names
  /\ cpc \notin Posix!ChildEnds => Posix!SEM_NAME \in names
  /\ Posix!SHM_NAME \in names => Posix!SEM_NAME \in names
  /\ ppc = "opened" => Posix!SHM_NAME \notin names
  /\ ppc \in {"opened", "mapped"} => cpc = "none"
  /\ ppc \in {"unlinked", "exited"} => Posix!SHM_NAME \notin names /\ cpc \in Posix!ChildEnds
  /\ ppc = "exited" => Posix!SEM_NAME \notin names

\* Whoever is inside holds the semaphore, and nobody else does.
LockInv ==
  /\ ppc \in Posix!ParentInside \/ cpc \in Posix!ChildInside => sem = 0
  /\ Posix!MutualExclusion

\* Who owns the segment, and what the counts of the run say.
Owned ==
  /\ count = 1 => numbers = generated /\ result # generated
  /\ cpc = "process" => count = 1
  /\ ppc \in Waiting => shown # generated /\ (count = 0 => result = generated)
  /\ ppc \in Settled => shown = generated /\ result = generated
  /\ ppc \in Waiting \union {"answered"} => generated = processed + 1
  /\ ppc \in Settled \ {"answered"} => generated = processed
  /\ ppc \in {"lockgen", "gen"} => generated < MaxSets

PosixInv == Posix!TypeOK /\ NamesInv /\ LockInv /\ Owned

\* At the start.
LEMMA PosixInit == Posix!Init => PosixInv
<1> USE BoundsAssumption DEF Posix!Init
<1>1. Posix!Init => Posix!TypeOK
    BY DEF Posix!TypeOK, Posix!ChildEnds, Posix!Processes
<1>2. Posix!Init => NamesInv /\ LockInv
    BY DEF NamesInv, LockInv, Posix!MutualExclusion, ParentOwns, Posix!ParentLocks,
           Posix!ParentInside, Posix!ParentUnlocks, Posix!ChildEnds, Posix!ChildInside,
           Posix!ChildUnlocks
<1>3. Posix!Init => Owned
    BY DEF Owned, Waiting, Settled
<1> QED
    BY <1>1, <1>2, <1>3 DEF PosixInv

\* A step of main() before fork().
LEMMA StartupInvariant ==
  ASSUME PosixInv, Posix!OpenSem \/ Posix!MapSegment \/ Posix!Fork
  PROVE  PosixInv'
<1> USE BoundsAssumption
    DEF PosixInv, Posix!TypeOK, NamesInv, LockInv, Owned, Posix!MutualExclusion, ParentOwns,
        Waiting, Settled, Posix!ParentLocks, Posix!ParentUnlocks, Posix!ParentInside,
        Posix!ParentEnds, Posix!ChildLocks, Posix!ChildUnlocks, Posix!ChildInside,
        Posix!ChildEnds, Posix!segment, Posix!progress, Posix!SEM_NAME, Posix!SHM_NAME
<1>1. CASE Posix!OpenSem
    BY <1>1 DEF Posix!OpenSem, Posix!InitialValue
<1>2. CASE Posix!MapSegment
  <2>1. handler' \in [Posix!Processes -> {"default", "handle_signal"}]
      BY <1>2 DEF Posix!MapSegment, Posix!Processes
  <2>2. CASE ppc' = "mapped"
    <3>1. numbers' = 0 /\ count' = 0 /\ result' = 0 /\ names' = names \cup {Posix!SHM_NAME}
        BY <1>2, <2>2 DEF Posix!MapSegment
    <3> QED
        BY <1>2, <2>1, <2>2, <3>1 DEF Posix!MapSegment
  <2>3. CASE ppc' = "failed"
      BY <1>2, <2>1, <2>3 DEF Posix!MapSegment
  <2> QED
      BY <1>2, <2>2, <2>3 DEF Posix!MapSegment
<1>3. CASE Posix!Fork
  <2>1. handler' \in [Posix!Processes -> {"default", "handle_signal"}]
      BY <1>3 DEF Posix!Fork, Posix!Processes
  <2> QED
      BY <1>3, <2>1 DEF Posix!Fork
<1> QED
    BY <1>1, <1>2, <1>3

\* A step of the parent after fork().
LEMMA ParentInvariant ==
  ASSUME PosixInv, \/ Posix!ParentLock \/ Posix!ParentUnlock \/ Posix!TestRunning
                   \/ Posix!GenerateData \/ Posix!TakeAnswer \/ Posix!SetDone
                   \/ Posix!WaitAndUnlink \/ Posix!SemUnlink
  PROVE  PosixInv'
<1> USE BoundsAssumption
    DEF PosixInv, Posix!TypeOK, NamesInv, LockInv, Owned, Posix!MutualExclusion, ParentOwns,
        Waiting, Settled, Posix!ParentLocks, Posix!ParentUnlocks, Posix!ParentInside,
        Posix!ParentEnds, Posix!ChildLocks, Posix!ChildUnlocks, Posix!ChildInside,
        Posix!ChildEnds, Posix!segment, Posix!progress, Posix!SEM_NAME, Posix!SHM_NAME
<1>1. CASE Posix!ParentLock
    BY <1>1 DEF Posix!ParentLock, Posix!SemWait
<1>2. CASE Posix!ParentUnlock
    BY <1>2 DEF Posix!ParentUnlock, Posix!SemPost
<1>3. CASE Posix!TestRunning
    BY <1>3 DEF Posix!TestRunning
<1>4. CASE Posix!GenerateData
    BY <1>4 DEF Posix!GenerateData
<1>5. CASE Posix!TakeAnswer
    BY <1>5 DEF Posix!TakeAnswer
<1>6. CASE Posix!SetDone
    BY <1>6 DEF Posix!SetDone
<1>7. CASE Posix!WaitAndUnlink
    BY <1>7 DEF Posix!WaitAndUnlink
<1>8. CASE Posix!SemUnlink
    BY <1>8 DEF Posix!SemUnlink
<1> QED
    BY <1>1, <1>2, <1>3, <1>4, <1>5, <1>6, <1>7, <1>8

\* A step of the child, a signal, or another start.
LEMMA OtherInvariant ==
  ASSUME PosixInv, \/ Posix!ChildLock \/ Posix!ChildUnlock \/ Posix!ChildWork
                   \/ Posix!SigintParent \/ Posix!SigintChild \/ Posix!StartAgain
  PROVE  PosixInv'
<1> USE BoundsAssumption
    DEF PosixInv, Posix!TypeOK, NamesInv, LockInv, Owned, Posix!MutualExclusion, ParentOwns,
        Waiting, Settled, Posix!ParentLocks, Posix!ParentUnlocks, Posix!ParentInside,
        Posix!ParentEnds, Posix!ChildLocks, Posix!ChildUnlocks, Posix!ChildInside,
        Posix!ChildEnds, Posix!segment, Posix!progress, Posix!SEM_NAME, Posix!SHM_NAME
<1>1. CASE Posix!ChildLock
    BY <1>1 DEF Posix!ChildLock, Posix!SemWait
<1>2. CASE Posix!ChildUnlock
    BY <1>2 DEF Posix!ChildUnlock, Posix!SemPost
<1>3. CASE Posix!CheckSegment
    BY <1>3 DEF Posix!CheckSegment
<1>4. CASE Posix!ProcessData
    BY <1>4 DEF Posix!ProcessData
<1>5. CASE Posix!Segfault
    BY <1>5 DEF Posix!Segfault
<1>6. CASE Posix!SigintParent
  <2>1. handler' \in [Posix!Processes -> {"default", "handle_signal"}]
      BY <1>6 DEF Posix!SigintParent, Posix!Processes
  <2> QED
      BY <1>6, <2>1 DEF Posix!SigintParent
<1>7. CASE Posix!SigintChild
  <2>1. handler' \in [Posix!Processes -> {"default", "handle_signal"}]
      BY <1>7 DEF Posix!SigintChild, Posix!Processes
  <2> QED
      BY <1>7, <2>1 DEF Posix!SigintChild
<1>8. CASE Posix!StartAgain
  <2>1. handler' \in [Posix!Processes -> {"default", "handle_signal"}]
      BY <1>8 DEF Posix!StartAgain, Posix!Processes
  <2> QED
      BY <1>8, <2>1 DEF Posix!StartAgain
<1> QED
    BY <1>1, <1>2, <1>3, <1>4, <1>5, <1>6, <1>7, <1>8 DEF Posix!ChildWork

\* Nothing happens.
LEMMA StutterInvariant == PosixInv /\ UNCHANGED Posix!vars => PosixInv'
  BY DEF PosixInv, Posix!TypeOK, NamesInv, LockInv, Owned, Posix!MutualExclusion,
         Posix!vars, Posix!segment, Posix!progress

\* What a step is to the exchange; to map the segment is to start a new one.
LEMMA PosixSteps ==
  PosixInv /\ [Posix!Next]_Posix!vars
    => [Order!ExchangeNext \/ Order!NewRun]_Order!exchangeVars
<1> USE BoundsAssumption DEF Order!exchangeVars, Posix!segment, Posix!progress
<1> SUFFICES ASSUME PosixInv, [Posix!Next]_Posix!vars
             PROVE  [Order!ExchangeNext \/ Order!NewRun]_Order!exchangeVars
    OBVIOUS
<1> USE DEF PosixInv
<1>1. CASE Posix!GenerateData
  <2>1. Order!Submit
      BY <1>1 DEF Posix!GenerateData, Owned, Settled, Posix!TypeOK, Order!Submit
  <2> QED
      BY <2>1 DEF Order!ExchangeNext
<1>2. CASE Posix!ProcessData
  <2>1. Order!Answer
      BY <1>2 DEF Posix!ProcessData, Owned, Posix!TypeOK, Order!Answer
  <2> QED
      BY <2>1 DEF Order!ExchangeNext
<1>3. CASE Posix!TakeAnswer
  <2>1. CASE count = 0
    <3>1. Order!Show
        BY <1>3, <2>1 DEF Posix!TakeAnswer, Owned, Waiting, Posix!TypeOK, Order!Show
    <3> QED
        BY <3>1 DEF Order!ExchangeNext
  <2>2. CASE count # 0
      BY <1>3, <2>2 DEF Posix!TakeAnswer
  <2> QED
      BY <2>1, <2>2
<1>4. CASE Posix!MapSegment
    BY <1>4 DEF Posix!MapSegment, NamesInv, Order!NewRun
<1>5. ASSUME \/ Posix!OpenSem \/ Posix!Fork \/ Posix!ParentLock
             \/ Posix!ParentUnlock \/ Posix!TestRunning \/ Posix!SetDone
             \/ Posix!WaitAndUnlink \/ Posix!SemUnlink \/ Posix!ChildLock
             \/ Posix!ChildUnlock \/ Posix!CheckSegment
             \/ Posix!Segfault \/ Posix!SigintParent \/ Posix!SigintChild
             \/ Posix!StartAgain \/ UNCHANGED Posix!vars
      PROVE  UNCHANGED Order!exchangeVars
    BY <1>5
    DEF Posix!OpenSem, Posix!Fork, Posix!ParentLock, Posix!ParentUnlock, Posix!TestRunning,
        Posix!SetDone, Posix!WaitAndUnlink, Posix!SemUnlink, Posix!ChildLock,
        Posix!ChildUnlock, Posix!CheckSegment, Posix!Segfault, Posix!SigintParent,
        Posix!SigintChild, Posix!StartAgain, Posix!vars
<1> QED
    BY <1>1, <1>2, <1>3, <1>4, <1>5 DEF Posix!Next, Posix!ParentWork, Posix!ChildWork

\* Any step of the program.
LEMMA PosixNext == PosixInv /\ [Posix!Next]_Posix!vars => PosixInv'
BY StartupInvariant, ParentInvariant, OtherInvariant, StutterInvariant
   DEF Posix!Next, Posix!ParentWork

-----------------------------------------------------------------------------
(* Whichever runs.                                                          *)

MemoryInv ==
  /\ program \in {"sysv", "posix"}
  /\ program = "sysv" => SysVInv
  /\ program = "posix" => PosixInv

\* A step is one of the program that runs.
LEMMA EveryStep ==
  [Turn]_allVars => /\ program' = program
                    /\ program = "sysv" => [SysV!Next]_SysV!vars
                    /\ program = "posix" => [Posix!Next]_Posix!vars
BY DEF Turn, allVars

\* Types, names, lock and hand-over hold in every state of every run.
THEOREM Invariant == MemorySpec => []MemoryInv
<1>1. Start => MemoryInv
  <2>1. SysV!Init => SemCounts
    BY DEF SysV!Init, SemCounts, SysV!ParentLocks, SysV!ParentUnlocks, SysV!ParentInside,
           SysV!ChildLocks, SysV!ChildUnlocks, SysV!ChildInside
  <2> QED
    BY <2>1, SysVInit, PosixInit DEF Start, MemoryInv, SysVInv
<1>2. MemoryInv /\ [Turn]_allVars => MemoryInv'
  BY EveryStep, SysVNext, SemNext, PosixNext DEF MemoryInv, SysVInv
<1> QED
  BY <1>1, <1>2, PTL DEF MemorySpec

\* The exchange is carried out in order whatever the signals do to the lock, and
\* in every run of the POSIX program (shared_mem_sysv.c:10-63,
\* shared_mem_posix.c:11-65).
THEOREM Refinement == MemorySpec => ImplementsExchange
<1>1. Start => Order!ExchangeInit
  BY DEF Start, SysV!Init, Posix!Init, Order!ExchangeInit
<1>2. MemoryInv /\ [Turn]_allVars
        => [Order!ExchangeNext \/ (program = "posix" /\ Order!NewRun)]_Order!exchangeVars
  BY EveryStep, SysVSteps, PosixSteps DEF MemoryInv, SysVInv
<1> QED
  BY <1>1, <1>2, Invariant, PTL DEF MemorySpec, ImplementsExchange

\* Until the first SIGINT the System V semaphore keeps parent and child apart
\* (shared_mem_sysv.c:3-8).
THEOREM ExclusiveFirst == MemorySpec => []ExclusiveUntilSignal
<1>1. MemoryInv => ExclusiveUntilSignal
  BY DEF MemoryInv, SysVInv, SemCounts, ExclusiveUntilSignal, SysV!ExclusiveUntilSignal
<1> QED
  BY <1>1, Invariant, PTL

\* When the parent of the System V program exits the child is gone and every set
\* was counted (shared_mem_sysv.c:104-112).
THEOREM ExitIsClean == MemorySpec => [](program = "sysv" => SysV!CleanExit)
<1>1. MemoryInv => (program = "sysv" => SysV!CleanExit)
  BY DEF MemoryInv, SysVInv, SysV!TypeOK, HandOver, Unanswered, SysV!CleanExit
<1> QED
  BY <1>1, Invariant, PTL

\* sem_wait/sem_post keep parent and child apart in every run
\* (shared_mem_posix.c:35-37, 54-63).
THEOREM Exclusive == MemorySpec => []MutualExclusion
<1>1. MemoryInv => MutualExclusion
  BY DEF MemoryInv, PosixInv, LockInv, MutualExclusion
<1> QED
  BY <1>1, Invariant, PTL

\* Runs do not meet, whatever was killed before (shared_mem_posix.c:67-78, 119-123).
THEOREM RunsApart == MemorySpec => []RunsAreSeparate
<1>1. PosixInv => Posix!FreshStart
  BY DEF PosixInv, NamesInv, Posix!FreshStart
<1>2. PosixInv => Posix!CleanExit
  BY DEF PosixInv, NamesInv, Posix!CleanExit, Posix!TypeOK
<1>3. MemoryInv => RunsAreSeparate
  BY <1>1, <1>2 DEF MemoryInv, RunsAreSeparate, Posix!RunsAreSeparate
<1> QED
  BY <1>3, Invariant, PTL
=============================================================================
