---------------------------- MODULE ContactBook -----------------------------
(***************************************************************************)
(* What every contact book of module2 promises, whether it keeps its       *)
(* contacts in an array, a linked list or a tree: a contact is stored      *)
(* under an id no other ever had, an update or a deletion touches the one  *)
(* contact it names and an update never changes an id. A command may also  *)
(* be refused: then nothing changes.                                       *)
(***************************************************************************)
EXTENDS Naturals

CONSTANT Entries     \* what a contact holds besides its id

VARIABLES stored,    \* id -> entry
          next_id    \* the id of the next contact

bookVars == <<stored, next_id>>

BookInit == stored = << >> /\ next_id = 0

Store ==
  /\ next_id \in DOMAIN stored' /\ stored'[next_id] \in Entries
  /\ stored' = [i \in DOMAIN stored \union {next_id} |-> IF i = next_id THEN stored'[i] ELSE stored[i]]
  /\ next_id' = next_id + 1

Change ==
  /\ \E i \in DOMAIN stored :
       i \in DOMAIN stored' /\ stored'[i] \in Entries /\ stored' = [stored EXCEPT ![i] = stored'[i]]
  /\ UNCHANGED next_id

Remove ==
  /\ \E i \in DOMAIN stored : stored' = [j \in DOMAIN stored \ {i} |-> stored[j]]
  /\ UNCHANGED next_id

BookNext == Store \/ Change \/ Remove

BookSpec == BookInit /\ [][BookNext]_bookVars
=============================================================================
