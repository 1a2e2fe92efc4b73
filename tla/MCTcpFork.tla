----------------------------- MODULE MCTcpFork ------------------------------
EXTENDS TcpFork

\* One that talks, and one that only comes and goes.
Connections == {"talker", "visitor"}
LineBound == [talker |-> 3, visitor |-> 0]
=============================================================================
