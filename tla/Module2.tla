------------------------------ MODULE Module2 -------------------------------
(***************************************************************************)
(* The sequential programs of module2: a contact book at its console, the  *)
(* priority queue under any calls, the tree by itself, and the access      *)
(* rights. Each keeps variables of its own; Programs runs one at a time.   *)
(***************************************************************************)
EXTENDS ContactConsole

CONSTANTS MaxPriority, MaxElements

CONSTANT Keys        \* the keys inserted into a tree by itself
CONSTANTS Digits, Letters, Files  \* what is typed as rights and found at files

VARIABLES head, tail, next, prev, priority, taken, crashed,
          tree,      \* an AvlTree
          mode, file_loaded, exited, meant

Queue == INSTANCE PQueue
queueVars == <<head, tail, next, prev, priority, taken, crashed>>

\* avltree.c by itself: keys come and go in any order, and the caller keeps the
\* root that is returned.
Tree == INSTANCE AvlTree WITH BYTE <- 256

TreeNext ==
  \/ \E k \in Keys \ DOMAIN tree.nodes : tree' = Tree!insert_node(tree, k)
  \/ \E k \in Keys : tree' = Tree!delete_node(tree, k)

Rights == INSTANCE Permissions
permVars == <<mode, file_loaded, exited, meant>>

ASSUME RightsAssumption ==
  /\ \A d \in Digits : \A i \in 1..3 : d[i] \in 0..7
  /\ Files \subseteq SUBSET (0..8)
ASSUME PriorityAssumption == MaxPriority \in Nat
\* As many keys as a byte counts, less 2: with one more, inserted in ascending order,
\* the heights of NULL and of a left child differ by what looks like 2.
ASSUME KeysAssumption ==
  Keys \subseteq Nat /\ IsFiniteSet(Keys) /\ Cardinality(Keys) < 255

Module2Init == Init /\ Queue!Init /\ tree = Tree!Empty /\ Rights!Init

-----------------------------------------------------------------------------
\* The priority queue under any calls (pqueue.c:27-129), see PQueue.
QueueInOrder == Queue!QueueInOrder

\* Keys inserted and deleted in any order are found where search_node looks for
\* them, although the balancing only ever turns to the left and only looks at
\* one of the two cases (avltree.c:77-104, 136-160).
TreeKeepsOrder == tree # Tree!Crashed /\ Tree!IsSearchTree(tree)

\* The nine bits are the rights the user means, see Permissions.
RightsAreMeant == Rights!RightsAreMeant
=============================================================================
