------------------------------ MODULE AvlBook -------------------------------
(***************************************************************************)
(* module2/task3/4.3, contacts.c: the contact book kept in a tree of ids.  *)
(* The book is Lost once the program has followed a pointer to nowhere, or *)
(* list->contacts points to the freed root: nothing is known of what it    *)
(* does from then on.                                                      *)
(***************************************************************************)
EXTENDS Integers, Functions, AvlTree

NotFound == -1

\* contacts is not initialised; the block is the program's first and holds 0s.
create_list == [tree |-> Empty, entry |-> << >>, size |-> 0, next_id |-> 0]

Lost(list) == list.tree = Crashed

add_contact(list, e) ==
  [tree    |-> insert_node(list.tree, list.next_id),
   entry   |-> [p \in DOMAIN list.entry \union {list.next_id} |->
                  IF p = list.next_id THEN e ELSE list.entry[p]],
   size    |-> list.size + 1,
   next_id |-> list.next_id + 1]

\* A search by first name in a tree of ids; the last name is ignored.
find_contact_by_name(list, first) ==
  dfs(list.tree, {p \in DOMAIN list.entry : list.entry[p].first = first},
                 {p \in DOMAIN list.entry : list.entry[p].first < first})

Found(list, id) ==
  search_node(list.tree.nodes, list.tree.root, {id}, {p \in DOMAIN list.entry : p < id})

update_contact(list, id, e) == [list EXCEPT !.entry[Found(list, id)] = e]

\* Mutant: an empty book keeps the pointer to the freed root.
TreeAfterLast(list, id) ==
  LET t == delete_node(list.tree, id)
  IN IF list.tree.root \in DOMAIN t.nodes THEN [root |-> list.tree.root, nodes |-> t.nodes] ELSE Crashed
\* What list->contacts points to afterwards: delete_node's result is dropped.
TreeAfter(list, id) ==
  LET t == delete_node(list.tree, id)
  IN CASE list.size = 1 -> Empty
       [] list.size # 1 /\ list.tree.root \in DOMAIN t.nodes ->
            [root |-> list.tree.root, nodes |-> t.nodes]
       [] OTHER -> Crashed

delete_contact(list, id) ==
  [list EXCEPT !.tree = TreeAfter(list, id), !.size = @ - 1,
               !.entry = Restrict(@, DOMAIN @ \ {id})]

Contents(list) == [p \in Below(list.tree.nodes, list.tree.root) |-> list.entry[p]]
=============================================================================
