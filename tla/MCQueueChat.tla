---------------------------- MODULE MCQueueChat -----------------------------
(* An instance of QueueChat for TLC: who talks and who only connects.      *)
EXTENDS QueueChat

CONSTANTS Talkers, Listeners

AllClients == Talkers \union Listeners

\* Talkers have two lines more than they need to connect, listeners one.
TwoLinesEach == [c \in AllClients |-> IF c \in Talkers THEN 3 ELSE 2]
=============================================================================
