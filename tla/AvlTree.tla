------------------------------ MODULE AvlTree -------------------------------
(***************************************************************************)
(* module2/task3/4.3, avltree.c: a binary tree of keys whose nodes keep    *)
(* their height in an unsigned char; larger keys go to the left. A tree is *)
(* its root and its nodes; a node is named by its key. A rotation through  *)
(* a NULL child ends the program: the tree is then Crashed.                *)
(*                                                                         *)
(* The differences of heights are unsigned too, so none of them is ever    *)
(* below 0 or equal to -2: rightRotation is never called.                  *)
(***************************************************************************)
EXTENDS Integers, Functions

CONSTANT BYTE       \* number of values of an unsigned char: 256

NULL == -1

Empty   == [root |-> NULL, nodes |-> << >>]
Crashed == [root |-> -2, nodes |-> << >>]

Node == [left |-> NULL, right |-> NULL, height |-> 1]

height(nodes, p) == IF p = NULL THEN 0 ELSE nodes[p].height

\* Mutant: a signed difference.
signed_balance(nodes, p) == height(nodes, nodes[p].right) - height(nodes, nodes[p].left)
balance_check(nodes, p) ==
  (height(nodes, nodes[p].right) - height(nodes, nodes[p].left)) % BYTE

fix_height(nodes, p) ==
  LET l == height(nodes, nodes[p].left)
      r == height(nodes, nodes[p].right)
  IN [nodes EXCEPT ![p].height = ((IF r > l THEN r ELSE l) + 1) % BYTE]

\* Mutant: the right child's left subtree is dropped.
leftRotationLoses(nodes, p) ==
  LET r == nodes[p].right
      turned == [nodes EXCEPT ![p].right = NULL, ![r].left = p]
  IN [root |-> r, nodes |-> fix_height(fix_height(turned, p), r)]
leftRotation(nodes, p) ==
  LET r == nodes[p].right
      turned == [nodes EXCEPT ![p].right = nodes[r].left, ![r].left = p]
  IN [root |-> r, nodes |-> fix_height(fix_height(turned, p), r)]

make_balance(unfixed, p) ==
  LET nodes == fix_height(unfixed, p)
  IN IF balance_check(nodes, p) # 2 THEN [root |-> p, nodes |-> nodes]
     ELSE IF nodes[p].right = NULL THEN Crashed
     ELSE leftRotation(nodes, p)

\* The subtree t becomes the child of p, which is balanced.
Hang(t, p, side) ==
  IF t = Crashed THEN Crashed ELSE make_balance([t.nodes EXCEPT ![p][side] = t.root], p)

insert_node(t, key) ==
  LET at[p \in DOMAIN t.nodes \union {NULL}] ==
        IF p = NULL
        THEN [root  |-> key,
              nodes |-> [x \in DOMAIN t.nodes \union {key} |-> IF x = key THEN Node ELSE t.nodes[x]]]
        ELSE IF key > p THEN Hang(at[t.nodes[p].left], p, "left")
        ELSE Hang(at[t.nodes[p].right], p, "right")
  IN at[t.root]

\* The subtree of p without its leftmost node, whose node is left to the caller.
remove_min(nodes, p) ==
  LET at[q \in DOMAIN nodes] ==
        IF nodes[q].left = NULL THEN [root |-> nodes[q].right, nodes |-> nodes]
        ELSE Hang(at[nodes[q].left], q, "left")
  IN at[p]

Leftmost(nodes, p) ==
  LET at[q \in DOMAIN nodes] == IF nodes[q].left = NULL THEN q ELSE at[nodes[q].left]
  IN at[p]

\* What takes the place of node p when it is freed.
Replacement(nodes, p) ==
  LET left == nodes[p].left
      right == nodes[p].right
      min == Leftmost(nodes, right)
      rest == remove_min(nodes, right)
      Others(some) == Restrict(some, DOMAIN some \ {p})
  IN IF right = NULL THEN [root |-> left, nodes |-> Others(nodes)]
     ELSE IF rest = Crashed THEN Crashed
     ELSE make_balance([Others(rest.nodes) EXCEPT ![min].right = rest.root, ![min].left = left], min)

delete_node(t, key) ==
  LET at[p \in DOMAIN t.nodes \union {NULL}] ==
        IF p = NULL THEN [root |-> NULL, nodes |-> t.nodes]
        ELSE IF p < key THEN Hang(at[t.nodes[p].left], p, "left")
        ELSE IF p > key THEN Hang(at[t.nodes[p].right], p, "right")
        ELSE Replacement(t.nodes, p)
  IN at[t.root]

\* From p on: left where Smaller, right otherwise, until a node in Equal.
search_node(nodes, p, Equal, Smaller) ==
  LET at[q \in DOMAIN nodes \union {NULL}] ==
        IF q = NULL \/ q \in Equal THEN q
        ELSE IF q \in Smaller THEN at[nodes[q].left] ELSE at[nodes[q].right]
  IN at[p]

\* The root, else what search_node finds below its left child, else its right one.
dfs(t, Equal, Smaller) ==
  IF t.root = NULL \/ t.root \in Equal THEN t.root
  ELSE LET l == search_node(t.nodes, t.nodes[t.root].left, Equal, Smaller)
       IN IF l # NULL THEN l ELSE search_node(t.nodes, t.nodes[t.root].right, Equal, Smaller)

-----------------------------------------------------------------------------
\* The keys below p, and whether every node is between its children's keys.
Below(nodes, p) ==
  LET at[q \in DOMAIN nodes \union {NULL}] ==
        IF q = NULL THEN {} ELSE {q} \union at[nodes[q].left] \union at[nodes[q].right]
  IN at[p]

IsSearchTree(t) ==
  /\ Below(t.nodes, t.root) = DOMAIN t.nodes
  /\ \A p \in DOMAIN t.nodes :
       /\ \A q \in Below(t.nodes, t.nodes[p].left) : q > p
       /\ \A q \in Below(t.nodes, t.nodes[p].right) : q < p
=============================================================================
