----------------------------- MODULE ArrayBook ------------------------------
(***************************************************************************)
(* module2/task1/2.1: the contact book kept in an array that doubles. The  *)
(* source calls the allocated places size and the used ones capacity.      *)
(* A contact is its id, its entry (the names and the phones) stands for    *)
(* the rest.                                                               *)
(***************************************************************************)
EXTENDS Naturals, Sequences, SequencesExt

STARTLISTSIZE == 1

\* The find's answer when there is no such contact.
NotFound == -1

create_list == [contacts |-> << >>, size |-> STARTLISTSIZE, next_id |-> 0]

capacity(list) == Len(list.contacts)

\* Mutant: the array grows when it has overflowed.
GrownLate(list) == IF capacity(list) > list.size THEN 2 * list.size ELSE list.size
Grown(list) == IF capacity(list) >= list.size THEN 2 * list.size ELSE list.size

add_contact(list, entry) ==
  [contacts |-> Append(list.contacts, [id |-> list.next_id, entry |-> entry]),
   size     |-> Grown(list),
   next_id  |-> list.next_id + 1]

\* Mutant: the last contact is not looked at.
find_in_front(list, first, last) ==
  LET hits == {i \in 1..(capacity(list) - 1) :
                 list.contacts[i].entry.first = first /\ list.contacts[i].entry.last = last}
  IN IF hits = {} THEN NotFound ELSE list.contacts[Max(hits)].id
\* The last contact of that name; both names must agree.
find_contact_by_name(list, first, last) ==
  LET hits == {i \in DOMAIN list.contacts :
                 list.contacts[i].entry.first = first /\ list.contacts[i].entry.last = last}
  IN IF hits = {} THEN NotFound ELSE list.contacts[Max(hits)].id

PlaceOf(list, id) == {i \in DOMAIN list.contacts : list.contacts[i].id = id}

\* Mutant: one id less.
RefusesLast(list, id) == id + 1 >= capacity(list)
\* The id is compared with the number of contacts, as if it were an index.
Refuses(list, id) == id >= capacity(list)

update_contact(list, id, entry) ==
  LET place == Min(PlaceOf(list, id))
  IN [list EXCEPT !.contacts[place].entry = entry]

\* Mutant: memmove moves one contact less.
delete_short(list, id) ==
  LET place == Min(PlaceOf(list, id))
      count == capacity(list)
  IN [list EXCEPT !.contacts = [i \in 1..(count - 1) |->
                                  IF i < place \/ i = count - 1 THEN @[i] ELSE @[i + 1]]]
\* memmove closes the gap.
delete_contact(list, id) ==
  [list EXCEPT !.contacts = RemoveAt(@, Min(PlaceOf(list, id)))]

EntryOf(list, id) == list.contacts[Min(PlaceOf(list, id))].entry

Contents(list) ==
  [id \in {list.contacts[i].id : i \in DOMAIN list.contacts} |-> EntryOf(list, id)]
=============================================================================
