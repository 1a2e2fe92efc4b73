------------------------------- MODULE Links --------------------------------
(* The pointers of a doubly linked list: functions from nodes to nodes.     *)
EXTENDS Integers, Sequences

NULL == -1

\* The links f after the assignments g; one assignment.
Set(f, g) == [p \in DOMAIN f \union DOMAIN g |-> IF p \in DOMAIN g THEN g[p] ELSE f[p]]
To(p, q) == [x \in {p} |-> q]

\* The first node from p on that is in S, or NULL.
FirstIn(links, p, S) ==
  LET from[q \in DOMAIN links \union {NULL}] ==
        IF q = NULL \/ q \in S THEN q ELSE from[links[q]]
  IN from[p]

\* The nodes met from p on along the links.
Walk(links, p) ==
  LET from[q \in DOMAIN links \union {NULL}] ==
        IF q = NULL THEN << >> ELSE <<q>> \o from[links[q]]
  IN from[p]
=============================================================================
