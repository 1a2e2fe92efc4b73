------------------------------ MODULE Exchange ------------------------------
(***************************************************************************)
(* What the shared-memory programs of module3/10 and module3/11 promise,   *)
(* without the segment and its lock: the parent submits one data set at a  *)
(* time, the child finds its extremes, the parent shows them, and only     *)
(* then comes the next set. Sets are numbered from 1.                      *)
(***************************************************************************)
EXTENDS Naturals

CONSTANT MaxSets      \* bound: data sets submitted

VARIABLES submitted,  \* the last set submitted
          answer,     \* the set whose extremes the child found last
          shown       \* the set whose extremes were shown last

exchangeVars == <<submitted, answer, shown>>

ExchangeInit == submitted = 0 /\ answer = 0 /\ shown = 0

Submit ==
  /\ shown = submitted
  /\ submitted < MaxSets
  /\ submitted' = submitted + 1
  /\ UNCHANGED <<answer, shown>>

Answer ==
  /\ answer # submitted
  /\ answer' = submitted
  /\ UNCHANGED <<submitted, shown>>

Show ==
  /\ answer = submitted
  /\ shown # submitted
  /\ shown' = answer
  /\ UNCHANGED <<submitted, answer>>

ExchangeNext == Submit \/ Answer \/ Show

\* The program is started again.
NewRun == submitted' = 0 /\ answer' = 0 /\ shown' = 0
=============================================================================
