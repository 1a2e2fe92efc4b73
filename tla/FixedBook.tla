----------------------------- MODULE FixedBook -----------------------------
(***************************************************************************)
(* module3/03: contacts in an array of MAX_CONTACT_SIZE, read from         *)
(* list.bin at the start and written back at the end of a run. main() adds *)
(* one contact a run; update and delete are there to be called. A contact  *)
(* is its name and what an update changes; behind the array lies its size. *)
(***************************************************************************)
EXTENDS Integers, Sequences, SequencesExt

CONSTANTS MAX_CONTACT_SIZE,
          People,       \* names that are added
          Workplaces,   \* what an update stores
          MaxRuns, MaxCalls   \* bounds: runs, and calls of contacts.c in a run

VARIABLES
  bin,        \* list.bin
  list,       \* the contacts in memory
  doing,      \* "off", "calls", "write", "full" (size was overwritten) or "killed"
  written,    \* contacts written so far
  truth,      \* what the calls have asked for, as the user understands them
  damaged,    \* contacts were lost to a failure or a kill since the file was whole
  runs, calls

fixedVars == <<bin, list, doing, written, truth, damaged, runs, calls>>

Init ==
  /\ bin = << >> /\ list = << >> /\ doing = "off" /\ written = 0
  /\ truth = << >> /\ damaged = FALSE /\ runs = 0 /\ calls = 0

Named(contacts, name) == {i \in DOMAIN contacts : contacts[i].name = name}
FirstOf(contacts, name) == CHOOSE i \in Named(contacts, name) :
                             \A j \in Named(contacts, name) : i <= j

-----------------------------------------------------------------------------
\* The next run starts; and what the user expects is what the file holds when the
\* last one crashed, was killed or lost something.
RunFrom(contacts) ==
  /\ doing \in {"off", "full", "killed"} /\ runs < MaxRuns
  /\ doing' = "calls" /\ list' = contacts /\ damaged' = (contacts # bin)
  /\ truth' = IF doing = "off" /\ ~damaged THEN truth ELSE bin
  /\ written' = 0 /\ calls' = 0 /\ runs' = runs + 1
  /\ UNCHANGED bin

\* Where the file cannot be opened, or a read fails, the list stays as short as it
\* is then; main() does not look at the result and goes on with it.
read_from_file == RunFrom(bin)
ReadFails == \E n \in 0..(Len(bin) - 1) : RunFrom(SubSeq(bin, 1, n))

Call ==
  /\ doing = "calls" /\ calls < MaxCalls /\ calls' = calls + 1
  /\ UNCHANGED <<bin, written, damaged, runs>>

\* The list is full when it has more contacts than the array.
IsFull(contacts) == Len(contacts) > MAX_CONTACT_SIZE

\* One contact too many is written over size (the copy follows the increment), and
\* the printing that comes next runs out of memory: the run is over.
add_contact(name) ==
  /\ Call
  /\ LET c == [name |-> name, work |-> "none"]
     IN IF IsFull(list) THEN UNCHANGED <<list, doing, truth>>
        ELSE IF Len(list) = MAX_CONTACT_SIZE
        THEN doing' = "full" /\ UNCHANGED <<list, truth>>
        ELSE /\ list' = Append(list, c) /\ UNCHANGED doing
             /\ truth' = Append(truth, c)

\* Mutant: the loop that memmove replaced, as it stands in the comment.
copied_down(contacts, i) == [j \in 1..(Len(contacts) - 1) |->
                               IF j < i THEN contacts[j] ELSE contacts[i]]
moved_down(contacts, i) == [j \in 1..(Len(contacts) - 1) |->
                              IF j < i THEN contacts[j] ELSE contacts[j + 1]]

\* The first of that name goes; without one nothing is changed.
delete_contact(name) ==
  /\ Call /\ UNCHANGED doing
  /\ IF Named(list, name) = {} THEN UNCHANGED <<list, truth>>
     ELSE /\ list' = moved_down(list, FirstOf(list, name))
          /\ truth' = RemoveAt(truth, FirstOf(truth, name))

update_contact_list(name, work) ==
  /\ Call /\ UNCHANGED doing
  /\ IF Named(list, name) = {} THEN UNCHANGED <<list, truth>>
     ELSE /\ list' = [list EXCEPT ![FirstOf(list, name)].work = work]
          /\ truth' = [truth EXCEPT ![FirstOf(truth, name)].work = work]

-----------------------------------------------------------------------------
\* The file is emptied when it is opened, then written contact by contact.
OpenForWriting ==
  /\ doing = "calls" /\ doing' = "write" /\ bin' = << >>
  /\ UNCHANGED <<list, written, truth, damaged, runs, calls>>

\* A file that cannot be opened stays as it was: what the run did is lost.
OpenFails ==
  /\ doing = "calls" /\ doing' = "off"
  /\ damaged' = (damaged \/ list # bin)
  /\ UNCHANGED <<bin, list, written, truth, runs, calls>>

\* Mutant: the last contact is not written.
WriteAllButOne ==
  /\ doing = "write"
  /\ IF written + 1 < Len(list)
     THEN bin' = Append(bin, list[written + 1]) /\ written' = written + 1 /\ UNCHANGED doing
     ELSE doing' = "off" /\ UNCHANGED <<bin, written>>
  /\ UNCHANGED <<list, truth, damaged, runs, calls>>
WriteContact ==
  /\ doing = "write"
  /\ IF written < Len(list)
     THEN bin' = Append(bin, list[written + 1]) /\ written' = written + 1 /\ UNCHANGED doing
     ELSE doing' = "off" /\ UNCHANGED <<bin, written>>
  /\ UNCHANGED <<list, truth, damaged, runs, calls>>

\* A failing write ends the loop; a kill ends the run anywhere.
WriteFails ==
  /\ doing = "write" /\ written < Len(list)
  /\ doing' = "off" /\ damaged' = TRUE
  /\ UNCHANGED <<bin, list, written, truth, runs, calls>>
Kill ==
  /\ doing \in {"calls", "write"}
  /\ doing' = "killed" /\ damaged' = (damaged \/ doing = "write")
  /\ UNCHANGED <<bin, list, written, truth, runs, calls>>

Next ==
  \/ read_from_file \/ ReadFails
  \/ OpenForWriting \/ OpenFails \/ WriteContact \/ WriteFails \/ Kill
  \/ \E name \in People : \/ add_contact(name) \/ delete_contact(name)
                          \/ \E work \in Workplaces : update_contact_list(name, work)

-----------------------------------------------------------------------------
\* The file never holds more than the array, and the contact that does not fit
\* ends the run before the file is opened: what it held stays. Between runs the
\* file holds what the calls have made of it, unless a kill or a failing write
\* caught it half written, a run with something to write could not open it, or a
\* run that could open or read none or a part of it went on and wrote what it had
\* over the rest (contacts.c:32-37, 102-116, 141-180, 192).
FileKeepsContacts ==
  /\ Len(list) <= MAX_CONTACT_SIZE /\ Len(bin) <= MAX_CONTACT_SIZE
  /\ doing = "off" /\ ~damaged => bin = truth
  /\ doing \in {"calls", "full"} /\ ~damaged => list = truth
=============================================================================
