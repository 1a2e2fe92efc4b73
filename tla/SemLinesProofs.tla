--------------------------- MODULE SemLinesProofs ---------------------------
(***************************************************************************)
(* Machine-checked proofs about SemLines (module3/08), for any finite set  *)
(* of consumers and any number of lines.                                   *)
(*                                                                         *)
(* The inductive invariant IInv adds to the type invariant where the       *)
(* producer's loop stands (LoopInv), that the semaphore is 0 while someone *)
(* is in the file (LockInv), and the accounting of permits.                *)
(***************************************************************************)
EXTENDS SemLines, FiniteSetTheorems, TLAPS

\* What each place of producer() knows about i and the file; a consumer never
\* gets ahead of the file.
LoopInv ==
  /\ ppc \in {"fork", "gen", "write"} => lines = i
  /\ ppc \in {"write", "flushed", "post"} => i < MaxLines
  /\ ppc \in {"flushed", "post"} => lines = i + 1
  /\ ppc \in {"final", "reap", "done"} => i = MaxLines
  /\ \A c \in Consumers : pos[c] <= lines

LockInv ==
  ~Removed /\ (ProducerInFile \/ \E c \in Consumers : ConsumerInFile(c)) => mutex = 0

-----------------------------------------------------------------------------
\* Every variable stays in its type: no line beyond MAX_LINES, a binary mutex,
\* no negative count of permits.
LEMMA InitTyped == Init => TypeOK /\ LoopInv
  <1>1. Init => TypeOK
      BY MaxLinesAssumption DEF Init, TypeOK, ProducerStates, ConsumerStates
  <1>2. Init => LoopInv
      BY MaxLinesAssumption DEF Init, LoopInv
  <1> QED
      BY <1>1, <1>2

\* One step keeps the types and the place of the loop.
LEMMA NextTyped == TypeOK /\ LoopInv /\ [Next]_vars => TypeOK' /\ LoopInv'
  <1> SUFFICES ASSUME TypeOK, LoopInv, [Next]_vars
               PROVE  TypeOK' /\ LoopInv'
      OBVIOUS
  <1> USE MaxLinesAssumption DEF TypeOK, LoopInv, ProducerStates, ConsumerStates
  <1>0. PidsNumber \in Nat
      BY ConsumersAssumption, FS_CardinalityType DEF PidsNumber
  <1>1. ASSUME NEW c \in Consumers, ForkConsumer(c)  PROVE TypeOK' /\ LoopInv'
      BY <1>1 DEF ForkConsumer
  <1>2. CASE ForkFails \/ ProducerOpenFails
      BY <1>2 DEF ForkFails, ProducerOpenFails, AllForked
  <1>3. CASE StartProducing
      BY <1>3 DEF StartProducing, AllForked
  <1>4. CASE ProducerLock
      BY <1>4 DEF ProducerLock, SemLock
  <1>5. CASE ProducerFlush
      BY <1>5 DEF ProducerFlush
  <1>6. CASE ProducerUnlock
      BY <1>6 DEF ProducerUnlock, SemUnlock
  <1>7. CASE ProducerPost
      BY <1>0, <1>7 DEF ProducerPost, PostPermits
  <1>8. CASE LinesDone
      BY <1>8 DEF LinesDone
  <1>9. CASE ProducerFinalPost
      BY <1>0, <1>9 DEF ProducerFinalPost, PostPermits
  <1>10. CASE Reap
      BY <1>10 DEF Reap
  <1>o. ASSUME NEW c \in Consumers, ConsumerOpen(c) \/ ConsumerOpenFails(c)
        PROVE  TypeOK' /\ LoopInv'
      BY <1>o DEF ConsumerOpen, ConsumerOpenFails
  <1>11. ASSUME NEW c \in Consumers, ConsumerWait(c)  PROVE TypeOK' /\ LoopInv'
      BY <1>11 DEF ConsumerWait, TakePermit
  <1>12. ASSUME NEW c \in Consumers, ConsumerLock(c)  PROVE TypeOK' /\ LoopInv'
      BY <1>12 DEF ConsumerLock, SemLock
  <1>13. ASSUME NEW c \in Consumers, ConsumerRead(c)  PROVE TypeOK' /\ LoopInv'
      BY <1>13 DEF ConsumerRead
  <1>14. ASSUME NEW c \in Consumers, ConsumerUnlock(c)  PROVE TypeOK' /\ LoopInv'
      BY <1>14 DEF ConsumerUnlock, SemUnlock
  <1>15. ASSUME NEW c \in Consumers, ConsumerProcess(c)  PROVE TypeOK' /\ LoopInv'
      BY <1>15 DEF ConsumerProcess
  <1>16. ASSUME NEW c \in Consumers, ConsumerExit(c)  PROVE TypeOK' /\ LoopInv'
      BY <1>16 DEF ConsumerExit
  <1>17. ASSUME NEW c \in Consumers, InterruptConsumer(c)  PROVE TypeOK' /\ LoopInv'
      BY <1>17 DEF InterruptConsumer
  <1>18. CASE InterruptProducer
      BY <1>18 DEF InterruptProducer
  <1>19. CASE UNCHANGED vars
      BY <1>19 DEF vars
  <1> QED
      BY <1>1, <1>2, <1>3, <1>4, <1>5, <1>6, <1>7, <1>8, <1>9, <1>10, <1>11, <1>12,
         <1>13, <1>14, <1>15, <1>16, <1>17, <1>18, <1>19, <1>o
      DEF Next, ProducerStep, ConsumerStep, Failure, Interrupt

\* The types, and what LoopInv says, hold in every state (sem.c).
THEOREM TypeCorrect == Spec => [](TypeOK /\ LoopInv)
  BY InitTyped, NextTyped, PTL DEF Spec
-----------------------------------------------------------------------------
\* One step keeps the file to one process at a time: the mutex is 0 as long as
\* someone is inside, so nobody else gets past semop(lock).
LEMMA NextExclusive ==
  TypeOK /\ LockInv /\ MutualExclusion /\ [Next]_vars => LockInv' /\ MutualExclusion'
  <1> SUFFICES ASSUME TypeOK, LockInv, MutualExclusion, [Next]_vars
               PROVE  LockInv' /\ MutualExclusion'
      OBVIOUS
  <1> USE DEF TypeOK, ConsumerStates, ProducerStates, LockInv, MutualExclusion, Removed,
              ProducerInFile, ConsumerInFile
  <1>1. ASSUME NEW c \in Consumers, ForkConsumer(c)
        PROVE  LockInv' /\ MutualExclusion'
      BY <1>1 DEF ForkConsumer
  <1>2. CASE \/ ForkFails \/ ProducerOpenFails \/ StartProducing \/ LinesDone
             \/ ProducerPost \/ ProducerFinalPost
      BY <1>2 DEF ForkFails, ProducerOpenFails, StartProducing, AllForked, LinesDone,
                  ProducerPost, ProducerFinalPost
  <1>3. CASE ProducerLock
      BY <1>3 DEF ProducerLock, SemLock
  <1>4. CASE ProducerFlush
      BY <1>4 DEF ProducerFlush
  <1>5. CASE ProducerUnlock
      BY <1>5 DEF ProducerUnlock, SemUnlock
  <1>6. CASE Reap \/ InterruptProducer
      BY <1>6 DEF Reap, InterruptProducer
  <1>7. ASSUME NEW c \in Consumers,
               \/ ConsumerOpen(c) \/ ConsumerOpenFails(c)
               \/ ConsumerWait(c) \/ ConsumerProcess(c) \/ ConsumerExit(c)
        PROVE  LockInv' /\ MutualExclusion'
      BY <1>7 DEF ConsumerOpen, ConsumerOpenFails, ConsumerWait, ConsumerProcess, ConsumerExit
  <1>8. ASSUME NEW c \in Consumers, ConsumerLock(c)
        PROVE  LockInv' /\ MutualExclusion'
      BY <1>8 DEF ConsumerLock, SemLock
  <1>9. ASSUME NEW c \in Consumers, ConsumerRead(c)
        PROVE  LockInv' /\ MutualExclusion'
      BY <1>9 DEF ConsumerRead
  <1>10. ASSUME NEW c \in Consumers, ConsumerUnlock(c)
        PROVE  LockInv' /\ MutualExclusion'
      BY <1>10 DEF ConsumerUnlock, SemUnlock
  <1>11. ASSUME NEW c \in Consumers, InterruptConsumer(c)
        PROVE  LockInv' /\ MutualExclusion'
      BY <1>11 DEF InterruptConsumer
  <1>12. CASE UNCHANGED vars
      BY <1>12 DEF vars
  <1> QED
      BY <1>1, <1>2, <1>3, <1>4, <1>5, <1>6, <1>7, <1>8, <1>9, <1>10, <1>11, <1>12
      DEF Next, ProducerStep, ConsumerStep, Failure, Interrupt

\* While the semaphores exist, one process at most is between semop(lock) and
\* semop(unlock), for any number of consumers and lines.
THEOREM Exclusive == Spec => []MutualExclusion
  <1>1. Init => LockInv /\ MutualExclusion
      BY DEF Init, LockInv, MutualExclusion, ProducerInFile, ConsumerInFile
  <1> QED
      BY <1>1, NextExclusive, TypeCorrect, PTL DEF Spec

-----------------------------------------------------------------------------
\* The semaphores are removed only by a SIGINT or after every consumer ended.
THEOREM RemovalJustified == Spec => []RemovedAfterReaping
  <1>1. Init => RemovedAfterReaping
      BY DEF Init, RemovedAfterReaping, Removed
  <1>2. TypeOK /\ RemovedAfterReaping /\ [Next]_vars => RemovedAfterReaping'
    <2> SUFFICES ASSUME TypeOK, RemovedAfterReaping, [Next]_vars
                 PROVE  RemovedAfterReaping'
        OBVIOUS
    <2> USE DEF TypeOK, ConsumerStates, RemovedAfterReaping, Removed, Ended
    <2>1. ASSUME NEW c \in Consumers, ForkConsumer(c)  PROVE RemovedAfterReaping'
        BY <2>1 DEF ForkConsumer
    <2>2. CASE ForkFails \/ ProducerOpenFails \/ StartProducing \/ ProducerLock
                \/ ProducerFlush \/ ProducerUnlock \/ ProducerPost \/ LinesDone
                \/ ProducerFinalPost
        BY <2>2 DEF ForkFails, ProducerOpenFails, StartProducing, AllForked, ProducerLock, ProducerFlush, ProducerUnlock,
                    ProducerPost, LinesDone, ProducerFinalPost
    <2>3. CASE Reap \/ InterruptProducer
        BY <2>3 DEF Reap, InterruptProducer
    <2>4. ASSUME NEW c \in Consumers, ConsumerStep(c) \/ ConsumerOpenFails(c)
          PROVE  RemovedAfterReaping'
        BY <2>4 DEF ConsumerStep, ConsumerOpen, ConsumerOpenFails, ConsumerWait, ConsumerLock, ConsumerRead, ConsumerUnlock,
                    ConsumerProcess, ConsumerExit
    <2>5. ASSUME NEW c \in Consumers, InterruptConsumer(c)  PROVE RemovedAfterReaping'
        BY <2>5 DEF InterruptConsumer
    <2>6. CASE UNCHANGED vars
        BY <2>6 DEF vars
    <2> QED
        BY <2>1, <2>2, <2>3, <2>4, <2>5, <2>6 DEF Next, ProducerStep, Failure, Interrupt
  <1> QED
      BY <1>1, <1>2, TypeCorrect, PTL DEF Spec
-----------------------------------------------------------------------------
\* The attempts taken so far are among pids_number * (MAX_LINES + 1) possible
\* ones.
AllAttempts == Consumers \X (1..(MaxLines + 1))

\* They are finitely many, and so are those taken.
LEMMA AttemptsFinite ==
  /\ IsFiniteSet(AllAttempts)
  /\ Cardinality(AllAttempts) = PidsNumber * (MaxLines + 1)
  /\ IsFiniteSet(Taken) /\ Taken \in SUBSET AllAttempts
  <1>1. IsFiniteSet(1..(MaxLines + 1)) /\ Cardinality(1..(MaxLines + 1)) = MaxLines + 1
      BY MaxLinesAssumption, FS_Interval
  <1>2. /\ IsFiniteSet(AllAttempts)
        /\ Cardinality(AllAttempts) = PidsNumber * (MaxLines + 1)
      BY <1>1, ConsumersAssumption, FS_Product DEF AllAttempts, PidsNumber
  <1>3. Taken \in SUBSET AllAttempts
      BY DEF Taken, AllAttempts
  <1> QED
      BY <1>2, <1>3, FS_Subset

\* A step that changes neither the places nor the cursors of the consumers
\* takes no attempt.
LEMMA SameTaken ==
  ASSUME UNCHANGED <<cpc, pos>>
  PROVE  Taken' = Taken
  BY DEF Taken, HoldsAttempt

\* One step of any process keeps the account of permits balanced.
LEMMA NextConserves ==
  TypeOK /\ LoopInv /\ PermitConservation /\ [Next]_vars => PermitConservation'
  <1> SUFFICES ASSUME TypeOK, LoopInv, PermitConservation, [Next]_vars
               PROVE  PermitConservation'
      OBVIOUS
  <1> USE DEF PermitConservation, Removed
  <1>n. PidsNumber \in Nat /\ PidsNumber' = PidsNumber
      BY ConsumersAssumption, FS_CardinalityType DEF PidsNumber
  <1>t. Cardinality(Taken) \in Nat
      BY AttemptsFinite, FS_CardinalityType
  <1>1. ASSUME NEW c \in Consumers, ForkConsumer(c)  PROVE PermitConservation'
    <2>1. Taken' = Taken
        BY <1>1 DEF ForkConsumer, Taken, HoldsAttempt, TypeOK
    <2> QED
        BY <1>1, <1>n, <2>1 DEF ForkConsumer, Posts
  <1>2. CASE ForkFails \/ ProducerOpenFails \/ StartProducing \/ ProducerLock
              \/ ProducerFlush \/ ProducerUnlock \/ LinesDone
    <2>1. Taken' = Taken
        BY <1>2, SameTaken DEF ForkFails, ProducerOpenFails, StartProducing, AllForked, ProducerLock, ProducerFlush,
                               ProducerUnlock, LinesDone
    <2>2. Posts' = Posts /\ UNCHANGED <<empty, sems>>
        BY <1>2 DEF ForkFails, ProducerOpenFails, StartProducing, AllForked, ProducerLock,
                    ProducerFlush, ProducerUnlock, LinesDone, Posts
    <2> QED
        BY <1>n, <2>1, <2>2
  <1>3. CASE ProducerPost \/ ProducerFinalPost
    <2>1. Taken' = Taken
        BY <1>3, SameTaken DEF ProducerPost, ProducerFinalPost
    <2>2. Posts \in Nat /\ Posts' = Posts + 1
        BY <1>3 DEF ProducerPost, ProducerFinalPost, Posts, TypeOK
    <2>3. PidsNumber * (Posts + 1) = PidsNumber * Posts + PidsNumber
        BY <1>n, <2>2
    <2> QED
        BY <1>3, <1>n, <1>t, <2>1, <2>2, <2>3
        DEF ProducerPost, ProducerFinalPost, PostPermits, TypeOK
  <1>4. CASE Reap \/ Interrupt
      BY <1>4 DEF Reap, Interrupt, InterruptProducer, InterruptConsumer
  <1>o. ASSUME NEW c \in Consumers, ConsumerOpen(c) \/ ConsumerOpenFails(c)
        PROVE  PermitConservation'
    <2>1. Taken' = Taken
        BY <1>o DEF ConsumerOpen, ConsumerOpenFails, Taken, HoldsAttempt, TypeOK
    <2> QED
        BY <1>o, <1>n, <2>1 DEF ConsumerOpen, ConsumerOpenFails, Posts
  <1>5. ASSUME NEW c \in Consumers, ConsumerWait(c)  PROVE PermitConservation'
    <2>1. cpc[c] = "wait" /\ pos' = pos /\ cpc' = [cpc EXCEPT ![c] = "lock"]
        BY <1>5 DEF ConsumerWait
    <2>2. pos[c] + 1 \in 1..(MaxLines + 1)
        BY MaxLinesAssumption DEF TypeOK
    <2>3. <<c, pos[c] + 1>> \notin Taken
        BY <2>1 DEF Taken, HoldsAttempt, TypeOK
    <2>4. Taken' = Taken \cup {<<c, pos[c] + 1>>}
        BY <2>1, <2>2 DEF Taken, HoldsAttempt, TypeOK
    <2>5. Cardinality(Taken') = Cardinality(Taken) + 1
        BY <2>3, <2>4, AttemptsFinite, FS_AddElement
    <2>6. UNCHANGED <<sems, Posts>> /\ (~Removed => empty > 0 /\ empty' = empty - 1)
        BY <1>5 DEF ConsumerWait, TakePermit, Posts
    <2> QED
        BY <1>n, <1>t, <2>5, <2>6 DEF TypeOK
  <1>6. ASSUME NEW c \in Consumers, ConsumerRead(c)  PROVE PermitConservation'
    <2>1. Taken' = Taken
        BY <1>6 DEF ConsumerRead, Taken, HoldsAttempt, TypeOK
    <2> QED
        BY <1>6, <1>n, <2>1 DEF ConsumerRead, Posts
  <1>7. ASSUME NEW c \in Consumers,
               ConsumerLock(c) \/ ConsumerUnlock(c) \/ ConsumerProcess(c) \/ ConsumerExit(c)
        PROVE  PermitConservation'
    <2>1. Taken' = Taken
        BY <1>7 DEF ConsumerLock, ConsumerUnlock, ConsumerProcess, ConsumerExit, Taken,
                    HoldsAttempt, TypeOK
    <2> QED
        BY <1>7, <1>n, <2>1 DEF ConsumerLock, ConsumerUnlock, ConsumerProcess, ConsumerExit, Posts
  <1>8. CASE UNCHANGED vars
    <2>1. Taken' = Taken /\ UNCHANGED <<empty, sems, Posts>>
        BY <1>8, SameTaken DEF vars, Posts
    <2> QED
        BY <1>n, <2>1
  <1> QED
      BY <1>1, <1>2, <1>3, <1>4, <1>5, <1>6, <1>7, <1>8, <1>o
      DEF Next, ProducerStep, ConsumerStep, Failure

\* Every permit the producer posted is in the semaphore or was used for one
\* attempt to read.
THEOREM Conservation == Spec => []PermitConservation
  <1>1. Init => PermitConservation
    <2> SUFFICES ASSUME Init  PROVE PermitConservation
        OBVIOUS
    <2>1. Taken = {}
        BY DEF Init, Taken, HoldsAttempt
    <2>2. Cardinality(Taken) = 0
        BY <2>1, FS_EmptySet
    <2>3. PidsNumber * 0 = 0
        BY ConsumersAssumption, FS_CardinalityType DEF PidsNumber
    <2>4. Posts = 0 /\ empty = 0
        BY DEF Init, Posts
    <2> QED
        BY <2>2, <2>3, <2>4 DEF PermitConservation
  <1> QED
      BY <1>1, NextConserves, TypeCorrect, PTL DEF Spec

\* After the final post a consumer that still waits has not used its last
\* attempt, so the attempts taken are fewer than the permits posted and one is
\* left.
THEOREM NoStarvation == Spec => []NobodyStarves
  <1>1. TypeOK /\ LoopInv /\ PermitConservation => NobodyStarves
    <2> SUFFICES ASSUME TypeOK, LoopInv, PermitConservation, ~Removed, ppc = "reap",
                        NEW c \in Consumers, cpc[c] = "wait"
                 PROVE  empty > 0
        BY DEF NobodyStarves
    <2>1. Posts = MaxLines + 1
        BY DEF LoopInv, Posts
    <2>2. <<c, MaxLines + 1>> \in AllAttempts \ Taken
        BY MaxLinesAssumption DEF TypeOK, AllAttempts, Taken, HoldsAttempt
    <2>3. Cardinality(Taken) # Cardinality(AllAttempts)
        BY <2>2, AttemptsFinite, FS_Subset
    <2>4. Cardinality(Taken) <= Cardinality(AllAttempts)
        BY AttemptsFinite, FS_Subset
    <2>5. Cardinality(Taken) \in Nat /\ Cardinality(AllAttempts) \in Nat
        BY AttemptsFinite, FS_CardinalityType
    <2> QED
        BY <2>1, <2>3, <2>4, <2>5, AttemptsFinite DEF PermitConservation, TypeOK
  <1> QED
      BY <1>1, Conservation, TypeCorrect, PTL
-----------------------------------------------------------------------------
\* The protocol implements LineFeed: consumers read the lines in order, skip
\* none, and one that leaves undisturbed was at the end of the file.
Stopped == {c \in Consumers : cpc[c] \in {"eof", "leave", "done", "killed"}}
Broken  == ppc = "killed" \/ \E c \in Consumers : cpc[c] = "killed"

\* Every step is one of LineFeed or leaves its variables alone.
LEMMA FeedStep == TypeOK /\ LoopInv /\ [Next]_vars => [Feed!FeedNext]_Feed!feedVars
  <1> SUFFICES ASSUME TypeOK, LoopInv, [Next]_vars
               PROVE  [Feed!FeedNext]_Feed!feedVars
      OBVIOUS
  <1> USE DEF TypeOK, ConsumerStates, ProducerStates, Feed!feedVars
  <1>1. ASSUME NEW c \in Consumers,
               \/ ConsumerOpen(c) \/ ConsumerOpenFails(c)
               \/ ForkConsumer(c) \/ ConsumerWait(c) \/ ConsumerLock(c) \/ ConsumerUnlock(c)
               \/ ConsumerProcess(c) \/ ConsumerExit(c)
        PROVE  UNCHANGED Feed!feedVars
      BY <1>1 DEF ConsumerOpen, ConsumerOpenFails, ForkConsumer, ConsumerWait, ConsumerLock, ConsumerUnlock, ConsumerProcess,
                  ConsumerExit
  <1>2. ASSUME \/ ForkFails \/ ProducerOpenFails \/ StartProducing \/ ProducerLock \/ ProducerUnlock
               \/ ProducerPost \/ LinesDone \/ ProducerFinalPost \/ Reap
        PROVE  UNCHANGED Feed!feedVars
      BY <1>2 DEF ForkFails, ProducerOpenFails, StartProducing, AllForked, ProducerLock, ProducerUnlock, ProducerPost,
                  LinesDone, ProducerFinalPost, Reap
  <1>3. CASE ProducerFlush
    <2>1. Feed!AppendLine
        BY <1>3, MaxLinesAssumption DEF ProducerFlush, LoopInv, Feed!AppendLine
    <2> QED
        BY <2>1 DEF Feed!FeedNext
  <1>4. ASSUME NEW c \in Consumers, ConsumerRead(c)
        PROVE  Feed!FeedNext
    <2>1. CASE pos[c] < lines
      <3>1. Feed!ReadLine(c)
          BY <1>4, <2>1 DEF ConsumerRead, Feed!ReadLine
      <3> QED
          BY <3>1 DEF Feed!FeedNext
    <2>2. CASE pos[c] = lines
      <3>1. Feed!StopAtEnd(c)
          BY <1>4, <2>2 DEF ConsumerRead, Feed!StopAtEnd
      <3> QED
          BY <3>1 DEF Feed!FeedNext
    <2> QED
        BY <1>4, <2>1, <2>2 DEF ConsumerRead
  <1>5. CASE InterruptProducer
    <2>1. Broken' = TRUE /\ Stopped' = Stopped \cup {}
        BY <1>5 DEF InterruptProducer, Broken, Stopped
    <2>2. lines' \in {lines, lines + 1} /\ lines' <= MaxLines /\ pos' = pos
        BY <1>5, MaxLinesAssumption DEF InterruptProducer, LoopInv
    <2>3. Feed!Break
        BY <2>1, <2>2 DEF Feed!Break, Stopped, Broken
    <2> QED
        BY <2>3 DEF Feed!FeedNext
  <1>6. ASSUME NEW c \in Consumers, InterruptConsumer(c)
        PROVE  Feed!FeedNext
    <2>1. Broken' = TRUE /\ Stopped' = Stopped \cup {c}
        BY <1>6 DEF InterruptConsumer, Broken, Stopped
    <2>2. lines' \in {lines, lines + 1} /\ lines' <= MaxLines /\ pos' = pos
        BY <1>6, MaxLinesAssumption DEF InterruptConsumer
    <2>3. Feed!Break
        BY <2>1, <2>2 DEF Feed!Break, Stopped, Broken
    <2> QED
        BY <2>3 DEF Feed!FeedNext
  <1>7. CASE UNCHANGED vars
      BY <1>7 DEF vars
  <1> QED
      BY <1>1, <1>2, <1>3, <1>4, <1>5, <1>6, <1>7
      DEF Next, ProducerStep, ConsumerStep, Failure, Interrupt

\* The file and its two semaphores implement LineFeed (sem.c).
THEOREM Refinement == Spec => ImplementsFeed
  <1>1. Init => Feed!FeedInit
      BY DEF Init, Feed!FeedInit
  <1> QED
      BY <1>1, FeedStep, TypeCorrect, PTL DEF Spec, ImplementsFeed, Feed!FeedSpec
=============================================================================
