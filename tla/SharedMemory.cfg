\* Three data sets a run; two SIGINTs to each process at any point, and for the
\* POSIX program any number of runs, SIGINTs and failed starts.
SPECIFICATION MemorySpec
CONSTANTS
  MaxSets = 3
  MaxSignals = 2
INVARIANT ExclusiveUntilSignal
INVARIANT MutualExclusion
INVARIANT RunsAreSeparate
PROPERTY ImplementsExchange
PROPERTY SigintEndsRun
CHECK_DEADLOCK FALSE
