-------------------------- MODULE ContactConsole ----------------------------
(***************************************************************************)
(* The contact book programs of module2: one user at the menu of main(),   *)
(* the dialogues of console_input.c, and underneath one of the three books *)
(* (module2/task1/2.1, module2/task3/4.1 and 4.3). The dialogues are the   *)
(* same in all three; the lines named are those of 4.3, whose main never   *)
(* frees the list.                                                         *)
(*                                                                         *)
(* An entry is a first name, a last name and the phone numbers; company,   *)
(* e-mails and links are left out. A name is a number, ordered as strcmp   *)
(* orders names.                                                           *)
(***************************************************************************)
EXTENDS Integers, FiniteSets, Sequences, SequencesExt

CONSTANTS Names,         \* the <<first, last>> names typed in each program
          Number,        \* the phone numbers typed
          BYTE,          \* number of values of an unsigned char
          MaxPhones,     \* bound: phone numbers of a contact, for each program
          MaxContacts    \* bound: contacts ever added, for each program

VARIABLES kind,       \* which of the three programs runs
          book,       \* its *list
          at,         \* "menu", "edit" (an update), "delete", "left" or "lost"
          id,         \* what console_find_by_name returned to the open dialogue
          phones,     \* the list update_phones edits
          refused,    \* the last command was an update that failed
          renamed     \* a first name was changed since the start

vars == <<kind, book, at, id, phones, refused, renamed>>

Array == INSTANCE ArrayBook
List  == INSTANCE ListBook
Avl   == INSTANCE AvlBook

NotFound == -1

\* A first name is a number, and so is a last name; the code's BYTE is 256.
ASSUME BooksAssumption ==
  /\ Names \in [{"array", "list", "avl"} -> SUBSET (Int \X Int)]
  /\ \A k \in {"array", "list", "avl"} : MaxPhones[k] \in Nat
  /\ BYTE \in Nat /\ BYTE > 2

PhoneLists(bound) == UNION {[1..n -> Number] : n \in 0..bound}
EntriesOf(k) ==
  {[first |-> n[1], last |-> n[2], phones |-> p] : n \in Names[k], p \in PhoneLists(MaxPhones[k])}

-----------------------------------------------------------------------------
(* What the dialogues call is the program's own contacts.c.                 *)

find_contact_by_name(first, last) ==
  CASE kind = "array" -> Array!find_contact_by_name(book, first, last)
    [] kind = "list"  -> List!find_contact_by_name(book, first)
    [] kind = "avl"   -> Avl!find_contact_by_name(book, first)

EntryOf(i) == IF kind = "array" THEN Array!EntryOf(book, i) ELSE book.entry[i]

\* The contacts of the book, by id.
Contents ==
  CASE kind = "array" -> Array!Contents(book)
    [] kind = "list"  -> List!Contents(book)
    [] kind = "avl"   -> Avl!Contents(book)

Init ==
  /\ kind \in {"array", "list", "avl"}
  /\ book = CASE kind = "array" -> Array!create_list
              [] kind = "list"  -> List!create_list
              [] kind = "avl"   -> Avl!create_list
  /\ at = "menu"
  /\ id = NotFound
  /\ phones = << >>
  /\ refused = FALSE
  /\ renamed = FALSE

\* The book that a call left behind; a lost one stays what it was.
Becomes(b) ==
  IF kind = "avl" /\ Avl!Lost(b) THEN book' = book /\ at' = "lost"
  ELSE book' = b /\ at' = "menu"

console_add_contact ==
  /\ at = "menu" /\ book.next_id < MaxContacts[kind]
  /\ \E e \in EntriesOf(kind) :
       Becomes(CASE kind = "array" -> Array!add_contact(book, e)
                 [] kind = "list"  -> List!add_contact(book, e)
                 [] kind = "avl"   -> Avl!add_contact(book, e))
  /\ refused' = FALSE
  /\ UNCHANGED <<kind, id, phones, renamed>>

\* console_find_by_name; a dialogue that finds no contact is over.
Ask(dialogue) ==
  /\ at = "menu"
  /\ \E n \in Names[kind] : id' = find_contact_by_name(n[1], n[2])
  /\ id' # NotFound
  /\ at' = dialogue
  /\ refused' = FALSE
  /\ UNCHANGED <<kind, book, renamed>>

\* console_update_contact up to the question about the phones. A copy of no
\* phones is NULL, and so is what realloc(.., 0) leaves of an emptied list: the
\* edited list is NULL exactly when it is empty.
AskUpdate == Ask("edit") /\ phones' = EntryOf(id').phones

AddPhone ==
  /\ at = "edit" /\ Len(phones) < MaxPhones[kind]
  /\ \E n \in Number : phones' = Append(phones, n)
  /\ UNCHANGED <<kind, book, at, id, refused, renamed>>

ChangePhone ==
  /\ at = "edit"
  /\ \E index \in DOMAIN phones, n \in Number : phones' = [phones EXCEPT ![index] = n]
  /\ UNCHANGED <<kind, book, at, id, refused, renamed>>

\* The numbers behind the deleted one move up.
DeletePhone ==
  /\ at = "edit"
  /\ \E index \in DOMAIN phones : phones' = RemoveAt(phones, index)
  /\ UNCHANGED <<kind, book, at, id, refused, renamed>>

\* Mutant: an emptied list is stored.
PhonesEdited(old) == phones
\* A NULL list means that the phones do not change.
PhonesStored(old) == IF phones = << >> THEN old ELSE phones

\* update_contact: an empty name means that it does not change.
FinishUpdate ==
  /\ at = "edit" /\ at' = "menu"
  /\ \E n \in Names[kind] :
       LET old == EntryOf(id)
           e   == [first |-> n[1], last |-> n[2], phones |-> PhonesStored(old.phones)]
       IN /\ refused' = (kind = "array" /\ Array!Refuses(book, id))
          /\ book' = CASE refused'         -> book
                       [] ~refused' /\ kind = "array" -> Array!update_contact(book, id, e)
                       [] kind = "list"  -> List!update_contact(book, id, e)
                       [] kind = "avl"   -> Avl!update_contact(book, id, e)
          /\ renamed' = (renamed \/ (~refused' /\ n[1] # old.first))
  /\ id' = NotFound /\ phones' = << >>
  /\ UNCHANGED kind

\* A search that fails yields (size_t)-1, which is no contact's id.
AskDelete == Ask("delete") /\ UNCHANGED phones

console_delete_contact ==
  /\ at = "delete"
  /\ Becomes(CASE kind = "array" -> Array!delete_contact(book, id)
               [] kind = "list"  -> List!delete_contact(book, id)
               [] kind = "avl"   -> Avl!delete_contact(book, id))
  /\ id' = NotFound
  /\ UNCHANGED <<kind, phones, refused, renamed>>

Leave ==
  /\ at = "menu" /\ at' = "left"
  /\ UNCHANGED <<kind, book, id, phones, refused, renamed>>

Next ==
  \/ console_add_contact
  \/ AskUpdate
  \/ AddPhone
  \/ ChangePhone
  \/ DeletePhone
  \/ FinishUpdate
  \/ AskDelete
  \/ console_delete_contact
  \/ Leave

Spec == Init /\ [][Next]_vars
-----------------------------------------------------------------------------
(* Properties *)

\* Through the array, the links or the tree, one command stores, changes or
\* removes at most one contact, and an id is never used twice: no contact is
\* dropped or doubled by a deletion or an insertion elsewhere.
Promise == INSTANCE ContactBook WITH Entries <- UNION {EntriesOf(k) : k \in DOMAIN Names},
                                    stored <- Contents, next_id <- book.next_id
KeepsItsContacts == Promise!BookSpec

\* Array: no contact is written behind the allocated ones (contacts.c:31-52).
NoOverrun == kind = "array" => Len(book.contacts) <= book.size

\* List: the links forwards and backwards are one chain of all nodes, and size
\* is their number.
ListIsLinked ==
  kind = "list" =>
    /\ List!Backward(book) = Reverse(List!Forward(book))
    /\ ToSet(List!Forward(book)) = DOMAIN book.next
    /\ DOMAIN book.prev = DOMAIN book.next /\ DOMAIN book.entry = DOMAIN book.next
    /\ Len(List!Forward(book)) = book.size

\* List: the contacts are in the order of their first names, until an update
\* changes a first name in place (list.c:51-86, contacts.c:74-78).
SortedUntilRenamed ==
  kind = "list" /\ ~renamed =>
    LET chain == List!Forward(book)
    IN \A i, j \in DOMAIN chain :
         i < j => book.entry[chain[i]].first <= book.entry[chain[j]].first

\* Tree: since ids grow, the balanced tree is a list of left children, the
\* oldest contact first; it is never rotated, and is lost before its height
\* stops fitting an unsigned char (avltree.c:77-104).
SpineUntilLost ==
  kind = "avl" =>
    /\ Avl!IsSearchTree(book.tree)
    /\ \A p \in DOMAIN book.tree.nodes :
         /\ book.tree.nodes[p].right = NotFound
         /\ book.tree.nodes[p].height = Cardinality(Avl!Below(book.tree.nodes, p))
    /\ book.size = Cardinality(DOMAIN book.tree.nodes)
    /\ book.size < BYTE - 1

\* Each book's data structure is what its functions take it for: within the
\* allocated array, one ordered chain, a search tree of the known shape.
BooksAreSound == NoOverrun /\ ListIsLinked /\ SortedUntilRenamed /\ SpineUntilLost

\* Commands fail in three ways only. The array refuses to update a contact that
\* was found if some contact was deleted before (contacts.c:61 compares an id with
\* the number of contacts). The tree loses the program when the oldest of several
\* contacts is deleted (contacts.c:26 drops the new root), or when as many contacts
\* are stored as make a difference of heights look like 2 (avltree.c:46, 81) and
\* one is added. And a contact that has a phone number keeps at least one for
\* ever: an emptied list is NULL, which update_contact takes for "unchanged".
RefusedOnlyAfterDeletion ==
  at = "edit" /\ at' = "menu" /\ refused' => kind = "array" /\ Len(book.contacts) < book.next_id
LostByOldestOrByte ==
  at # "lost" /\ at' = "lost" =>
    /\ kind = "avl"
    /\ \/ at = "menu" /\ book.size = BYTE - 2
       \/ at = "delete" /\ book.size > 1 /\ \A i \in DOMAIN Contents : id <= i
PhonesNeverEmptied ==
  \A i \in DOMAIN Contents \intersect DOMAIN Contents' :
    Contents[i].phones # << >> => Contents'[i].phones # << >>
CommandsFailOnlyThen ==
  [][RefusedOnlyAfterDeletion /\ LostByOldestOrByte /\ PhonesNeverEmptied]_vars

\* A contact's own name finds a contact. The tree misses one only behind an
\* older contact, not the oldest, whose first name comes after (avltree.c:107-125).
StoredIsFound ==
  \A i \in DOMAIN Contents :
    find_contact_by_name(Contents[i].first, Contents[i].last) = NotFound =>
      /\ kind = "avl"
      /\ \E j \in DOMAIN Contents : /\ book.tree.root < j /\ j < i
                                    /\ Contents[j].first > Contents[i].first
=============================================================================
