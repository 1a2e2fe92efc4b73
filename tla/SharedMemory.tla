---------------------------- MODULE SharedMemory ----------------------------
(***************************************************************************)
(* The two programs that exchange data sets through shared memory: that of *)
(* module3/10 with System V objects and that of module3/11 with POSIX ones.*)
(* One of them runs; what the other one alone has keeps its initial value. *)
(***************************************************************************)
EXTENDS Naturals

CONSTANT MaxSets     \* bound: data sets the parent generates, in a run
CONSTANT MaxSignals  \* bound: SIGINTs each process of module3/10 receives

ASSUME BoundsAssumption == MaxSets \in Nat /\ MaxSignals \in Nat

VARIABLES
  program,                              \* which of the two runs
  ppc, cpc, sem, running,               \* what both have
  numbers, count, result, done, generated, shown, processed,
  signals, scanned,                     \* what only the first has
  names, handler                        \* what only the second has

SysV  == INSTANCE ShmSysV
Posix == INSTANCE ShmPosix

sysvVars  == <<signals, scanned>>
posixVars == <<names, handler>>
allVars   == <<program, SysV!vars, Posix!vars>>

Start ==
  \/ /\ program = "sysv" /\ SysV!Init
     /\ names = {} /\ handler = [p \in Posix!Processes |-> "default"]
  \/ /\ program = "posix" /\ Posix!Init
     /\ signals = [p \in SysV!Processes |-> 0] /\ scanned = 0

Turn ==
  \/ program = "sysv" /\ SysV!Next /\ UNCHANGED <<program, posixVars>>
  \/ program = "posix" /\ Posix!Next /\ UNCHANGED <<program, sysvVars>>

\* What the kernel owes the POSIX program, see ShmPosix.
Fairness == program = "posix" => Posix!Fairness

MemorySpec == Start /\ [][Turn]_allVars /\ Fairness

-----------------------------------------------------------------------------
(* What each program promises, as its module states it.                    *)

\* The System V semaphore works until a signal arrives (shared_mem_sysv.c:3-8).
ExclusiveUntilSignal == program = "sysv" => SysV!ExclusiveUntilSignal

\* The POSIX semaphore works in every run (shared_mem_posix.c:35-37, 54-63).
MutualExclusion == program = "posix" => Posix!MutualExclusion

\* Runs do not meet: each starts alone with a fresh segment, and one that ends
\* leaves nothing for the next (shared_mem_posix.c:67-78, 119-123).
RunsAreSeparate == program = "posix" => Posix!RunsAreSeparate

\* One SIGINT ends a run, unless a second one kills (shared_mem_posix.c:6-9).
SigintEndsRun == program = "posix" => Posix!SigintEndsRun

\* Exchange, seen in the segment and on the screen.
Order == INSTANCE Exchange WITH submitted <- generated, answer <- result, shown <- shown

\* Both hand the segment to and fro by count: what a parent prints are the extremes
\* of the set it submitted last, each set is answered and printed once, and none is
\* overwritten before, also when EINTR has let both processes into the section
\* (shared_mem_sysv.c:10-63, shared_mem_posix.c:11-65). Only the POSIX program can
\* be started again.
ImplementsExchange ==
  /\ Order!ExchangeInit
  /\ [][Order!ExchangeNext \/ (program = "posix" /\ Order!NewRun)]_Order!exchangeVars
=============================================================================
