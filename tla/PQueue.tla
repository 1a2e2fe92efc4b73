------------------------------- MODULE PQueue -------------------------------
(***************************************************************************)
(* module2/task3/4.2: a priority queue kept in a doubly linked list in the *)
(* order of priorities, the lowest number first. An element is named by    *)
(* the call of enqueue that made it. What dequeue returns is the caller's. *)
(***************************************************************************)
EXTENDS Integers, FiniteSets, Sequences, SequencesExt, Links

CONSTANT MaxPriority,   \* the largest priority: 255
         MaxElements    \* bound: elements ever made

VARIABLES head, tail,
          next, prev,   \* the links of the elements in the queue
          priority,     \* of every element ever made
          taken,        \* what the last call returned: an element or NULL
          crashed       \* a NULL pointer was followed

queue == <<head, tail, next, prev>>
qvars == <<head, tail, next, prev, priority, taken, crashed>>

Priorities == 0..MaxPriority
Made == DOMAIN priority

Init ==
  /\ head = NULL /\ tail = NULL
  /\ next = << >> /\ prev = << >>
  /\ priority = << >>
  /\ taken = NULL
  /\ crashed = FALSE

-----------------------------------------------------------------------------
\* Mutant: the order is turned round.
Predecessors(p) == {e \in DOMAIN next : priority[e] < p}
\* The elements that stay behind a new one of priority p.
Followers(p) == {e \in DOMAIN next : priority[e] > p}

\* The new element e goes in front of curr, or behind the tail.
Place(e, curr) ==
  LET before == IF curr = NULL THEN tail ELSE prev[curr]
  IN /\ head' = IF before = NULL THEN e ELSE head
     /\ tail' = IF curr = NULL THEN e ELSE tail
     /\ next' = Set(Set(next, To(e, curr)), IF before = NULL THEN << >> ELSE To(before, e))
     /\ prev' = Set(Set(prev, To(e, before)), IF curr = NULL THEN << >> ELSE To(curr, e))

enqueue(p) ==
  /\ ~crashed /\ Cardinality(Made) < MaxElements
  /\ LET e == Cardinality(Made) + 1
     IN IF p <= MaxPriority
        THEN /\ Place(e, FirstIn(next, head, Followers(p)))
             /\ priority' = Append(priority, p)
        ELSE UNCHANGED <<queue, priority>>
  /\ taken' = NULL
  /\ UNCHANGED crashed

-----------------------------------------------------------------------------
RemoveLink(links, e) == [x \in DOMAIN links \ {e} |-> links[x]]

\* The elements left know nothing of e any more.
Unlinked(e) ==
  /\ next' = RemoveLink(IF prev[e] = NULL THEN next ELSE [next EXCEPT ![prev[e]] = next[e]], e)
  /\ prev' = RemoveLink(IF next[e] = NULL THEN prev ELSE [prev EXCEPT ![next[e]] = prev[e]], e)
  /\ head' = IF prev[e] = NULL THEN next[e] ELSE head

\* Mutant: the tail keeps pointing to the last element taken.
TailStays(e) == tail
TailWithout(e) == IF next[e] = NULL THEN prev[e] ELSE tail

Take(e) ==
  /\ taken' = e
  /\ Unlinked(e) /\ tail' = TailWithout(e)
  /\ UNCHANGED <<priority, crashed>>

TakeNothing ==
  /\ taken' = NULL
  /\ UNCHANGED <<queue, priority, crashed>>

dequeue ==
  /\ ~crashed
  /\ IF head = NULL THEN TakeNothing ELSE Take(head)

\* Both searches go from the head; neither expects to take the last element:
\* queue->head->prev is written when the head is taken.
Search(S) ==
  /\ ~crashed
  /\ LET current == FirstIn(next, head, S)
     IN CASE current = NULL -> TakeNothing
          [] current # NULL /\ current = head /\ next[current] = NULL ->
               crashed' = TRUE /\ UNCHANGED <<queue, priority, taken>>
          [] OTHER -> Take(current)

dequeueWithPriority(p) == Search({e \in DOMAIN next : priority[e] = p})

dequeueWithMinPriority(p) == Search({e \in DOMAIN next : priority[e] >= p})

Next ==
  \/ \E p \in 0..(MaxPriority + 1) : enqueue(p)
  \/ dequeue
  \/ \E p \in Priorities : dequeueWithPriority(p)
  \/ \E p \in Priorities : dequeueWithMinPriority(p)

Spec == Init /\ [][Next]_qvars

-----------------------------------------------------------------------------
(* Properties *)

\* The queue is one chain, the same in both directions, of elements that have
\* been made, and an element that was returned is in it no more.
OneChain ==
  /\ Walk(prev, tail) = Reverse(Walk(next, head))
  /\ ToSet(Walk(next, head)) = DOMAIN next /\ DOMAIN prev = DOMAIN next
  /\ DOMAIN next \subseteq Made \ {taken}
  /\ priority \in Seq(Priorities)

\* Whatever was taken out of the middle, the head is the most urgent element.
HeadIsMostUrgent == \A e \in DOMAIN next : priority[head] <= priority[e]

\* What enqueue, dequeue and the two searches need of each other: one chain in
\* both directions whose head is the most urgent element (pqueue.c:27-129).
QueueInOrder == OneChain /\ HeadIsMostUrgent
=============================================================================
