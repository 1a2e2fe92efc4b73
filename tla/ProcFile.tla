------------------------------ MODULE ProcFile ------------------------------
(***************************************************************************)
(* module5/task2: a kernel module with a file /proc/hellokernel. The       *)
(* position in the message is one variable for all readers, temp, counted  *)
(* downwards, and a read always copies the beginning of the message. No    *)
(* lock: calls of read_proc and write_proc overlap (a data race). A        *)
(* message is its length, what is read of it a length too.                 *)
(***************************************************************************)
EXTENDS Integers

CONSTANTS Callers,            \* processes that read or write
          PROCFS_MAX_SIZE,
          Counts,             \* sizes that are read and written
          MaxProcCalls        \* bound: calls

VARIABLES
  len, temp,
  call,        \* call[c]: "none", "read", "taken" (temp is reduced), "write" or "stored"
  count,       \* count[c]: how much the open call reads or writes
  loaded,      \* loaded[c]: temp when read_proc compared it
  given,       \* characters given out since the last write or rewind
  parts,       \* in how many reads
  reached,     \* and how far into the message the longest of them came
  beyond,      \* some read has copied what is behind the message
  overlapped,  \* two calls have overlapped
  proc_calls

procVars == <<len, temp, call, count, loaded, given, parts, reached, beyond,
              overlapped, proc_calls>>

Init ==
  /\ len = 0 /\ temp = 0
  /\ call = [c \in Callers |-> "none"] /\ count = [c \in Callers |-> 0]
  /\ loaded = [c \in Callers |-> 0]
  /\ given = 0 /\ parts = 0 /\ reached = 0
  /\ beyond = FALSE /\ overlapped = FALSE /\ proc_calls = 0

Begin(c, what, n) ==
  /\ call[c] = "none" /\ proc_calls < MaxProcCalls /\ proc_calls' = proc_calls + 1
  /\ call' = [call EXCEPT ![c] = what] /\ count' = [count EXCEPT ![c] = n]
  /\ overlapped' = (overlapped \/ \E d \in Callers : call[d] # "none")
Goes(c, from, to) == call[c] = from /\ call' = [call EXCEPT ![c] = to]

-----------------------------------------------------------------------------
\* Mutant: what is left is not looked at.
unlimited(n) == n
\* count > temp compares them as unsigned numbers: below zero temp is huge.
limited(n) == IF temp >= 0 /\ n > temp THEN temp ELSE n

read_proc(c, n) ==
  /\ Begin(c, "read", limited(n))
  /\ loaded' = [loaded EXCEPT ![c] = temp]
  /\ UNCHANGED <<len, temp, given, parts, reached, beyond>>

\* temp = temp - count, from the temp of the comparison or a new one.
Take(c) ==
  /\ Goes(c, "read", "taken")
  /\ \E t \in {loaded[c], temp} : temp' = t - count[c]
  /\ given' = given + count[c]
  /\ UNCHANGED <<len, count, loaded, parts, reached, beyond, overlapped, proc_calls>>

Rewound == given' = 0 /\ parts' = 0 /\ reached' = 0

\* copy_to_user, always from the first character of msg, and the rewind when there
\* was nothing left.
Copy(c) ==
  /\ Goes(c, "taken", "none")
  /\ beyond' = (beyond \/ count[c] > len)
  /\ IF count[c] = 0 THEN temp' = len /\ Rewound
     ELSE /\ parts' = parts + 1
          /\ reached' = IF reached < count[c] THEN count[c] ELSE reached
          /\ UNCHANGED <<temp, given>>
  /\ UNCHANGED <<len, count, loaded, overlapped, proc_calls>>

-----------------------------------------------------------------------------
\* Mutant: the readers go on where they were.
temp_stays == UNCHANGED temp
temp_rewound == temp' = len

\* write_proc, up to copy_from_user ...
write_proc(c, n) ==
  /\ Begin(c, "write", IF n < PROCFS_MAX_SIZE - 1 THEN n ELSE PROCFS_MAX_SIZE - 1)
  /\ UNCHANGED <<len, temp, loaded, given, parts, reached, beyond>>

\* ... and the two assignments.
SetLen(c) ==
  /\ Goes(c, "write", "stored") /\ len' = count[c]
  /\ UNCHANGED <<temp, count, loaded, given, parts, reached, beyond, overlapped, proc_calls>>
SetTemp(c) ==
  /\ Goes(c, "stored", "none") /\ temp_rewound /\ Rewound
  /\ UNCHANGED <<len, count, loaded, beyond, overlapped, proc_calls>>

Next ==
  \E c \in Callers :
    \/ \E n \in Counts : read_proc(c, n) \/ write_proc(c, n)
    \/ Take(c) \/ Copy(c) \/ SetLen(c) \/ SetTemp(c)

-----------------------------------------------------------------------------
\* Unless calls have overlapped, the lengths that all readers together are given
\* between two rewinds add up to the length of the message, and nothing behind it is
\* copied. That is not the message: every read copies its beginning. When nothing is
\* left of it, it has come whole if one read took all of it, and its end has come to
\* nobody if it was read in parts (proc.c:14-25). The message leaves room in the buffer.
WholeOnlyAtOnce ==
  /\ len < PROCFS_MAX_SIZE
  /\ ~overlapped => /\ temp >= 0 /\ ~beyond
                    /\ (\A c \in Callers : call[c] \in {"none", "read"}) =>
                         /\ given + temp = len
                         /\ temp = 0 => (reached = len <=> parts <= 1)
=============================================================================
