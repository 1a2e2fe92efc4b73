---------------------------- MODULE MCTcpSelect -----------------------------
(* Instances of TcpSelect for TLC: one client that talks, others that come  *)
(* and go.                                                                 *)
EXTENDS TcpSelect, TLC

CONSTANTS Talker, Visitors, TalkerLines, VisitorLines

AllConns == {Talker} \union Visitors
LinesTyped == [c \in AllConns |-> IF c = Talker THEN TalkerLines ELSE VisitorLines]
Alike == Permutations(Visitors)
=============================================================================
