------------------------------ MODULE ListBook ------------------------------
(***************************************************************************)
(* module2/task3/4.1: the contact book kept in a doubly linked list that   *)
(* is filled in the order of the first names. A node is named by the id of *)
(* its contact; a pointer is such a name or NULL.                          *)
(***************************************************************************)
EXTENDS Integers, Sequences, Functions, Links

NotFound == -1

create_list ==
  [head |-> NULL, tail |-> NULL, next |-> << >>, prev |-> << >>, entry |-> << >>,
   size |-> 0, next_id |-> 0]

-----------------------------------------------------------------------------
(* The linked list.                                                         *)

find_node(list, S) == FirstIn(list.next, list.head, S)

Alone(list, n) ==
  [list EXCEPT !.head = n, !.tail = n, !.next = To(n, NULL), !.prev = To(n, NULL)]

InFront(list, n) ==
  [list EXCEPT !.head = n, !.next = Set(@, To(n, list.head)),
               !.prev = Set(Set(@, To(n, NULL)), To(list.head, n))]

Behind(list, n) ==
  [list EXCEPT !.tail = n, !.next = Set(Set(@, To(n, NULL)), To(list.tail, n)),
               !.prev = Set(@, To(n, list.tail))]

\* Mutant: the node behind does not learn of the new one.
HalfBetween(list, tmp, n) ==
  [list EXCEPT !.next = Set(Set(@, To(n, list.next[tmp])), To(tmp, n)),
               !.prev = Set(@, To(n, tmp))]
Between(list, tmp, n) ==
  [list EXCEPT !.next = Set(Set(@, To(n, list.next[tmp])), To(tmp, n)),
               !.prev = Set(Set(@, To(n, tmp)), To(list.next[tmp], n))]

\* Mutant: the walk stops at the node in front of the tail.
LastButTail(list, first) ==
  LET stop[p \in DOMAIN list.next] ==
        IF list.next[p] # NULL /\ list.next[p] # list.tail THEN stop[list.next[p]] ELSE p
  IN stop[list.head]
\* Where the walk stops: the node after it must follow the new one.
StopsAt(list, first) ==
  LET stop[p \in DOMAIN list.next] ==
        IF list.next[p] # NULL /\ list.entry[list.next[p]].first <= first
        THEN stop[list.next[p]] ELSE p
  IN stop[list.head]

insert_to_linked_list(list, n, first) ==
  CASE list.head = NULL -> Alone(list, n)
    [] list.head # NULL /\ list.entry[list.head].first >= first -> InFront(list, n)
    [] list.head # NULL /\ list.entry[list.head].first < first
       /\ list.entry[list.tail].first <= first -> Behind(list, n)
    [] OTHER -> Between(list, StopsAt(list, first), n)

\* Unlink the node p, in the middle, at an end or alone, and free it.
Unlink(list, p) ==
  LET before == list.prev[p]
      after  == list.next[p]
      rest   == DOMAIN list.next \ {p}
  IN [list EXCEPT !.head = IF before = NULL THEN after ELSE @,
                  !.tail = IF after = NULL THEN before ELSE @,
                  !.next = Restrict(Set(@, To(before, after)), rest),
                  !.prev = Restrict(Set(@, To(after, before)), rest)]

-----------------------------------------------------------------------------
(* The book.                                                                *)

add_contact(list, e) ==
  LET n == list.next_id
      l == insert_to_linked_list(list, n, e.first)
  IN [l EXCEPT !.entry = Set(@, To(n, e)), !.size = @ + 1, !.next_id = @ + 1]

\* Only the first name is compared.
find_contact_by_name(list, first) ==
  find_node(list, {p \in DOMAIN list.entry : list.entry[p].first = first})

\* In place: the node does not move.
update_contact(list, id, e) == [list EXCEPT !.entry[find_node(list, {id})] = e]

delete_contact(list, id) ==
  LET p == find_node(list, {id})
      l == Unlink(list, p)
  IN [l EXCEPT !.entry = Restrict(@, DOMAIN @ \ {p}), !.size = @ - 1]

-----------------------------------------------------------------------------
Forward(list) == Walk(list.next, list.head)
Backward(list) == Walk(list.prev, list.tail)

Contents(list) ==
  [p \in {Forward(list)[i] : i \in DOMAIN Forward(list)} |-> list.entry[p]]
=============================================================================
