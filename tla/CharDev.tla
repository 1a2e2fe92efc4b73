------------------------------- MODULE CharDev ------------------------------
(***************************************************************************)
(* module5/task4: the kernel module of a character device that one process *)
(* at a time may open, write a message to and read it from. open() and     *)
(* close() are many steps, rmmod is another process. The file operations   *)
(* name no owner: only the module's own try_module_get keeps it loaded.    *)
(*                                                                         *)
(* A text is its number of characters, a piece of it the characters it     *)
(* begins and ends with. A process writes until its whole text is taken    *)
(* (as echo does) and reads until the end of file (as cat does).           *)
(***************************************************************************)
EXTENDS Integers, FiniteSets

CONSTANTS Procs,       \* the processes
          BUF_LEN,
          Texts,       \* lengths of the texts that are written
          MaxOpens     \* bound: calls of open()

VARIABLES
  already_open,
  step,       \* step[p]: "out", "open", "claimed", "in", "released" or "leaving"
  holding,    \* processes whose try_module_get has succeeded
  module_state,  \* "live", "going" (rmmod has found no reference) or "gone"
  msg,        \* the piece in the buffer
  offset,     \* position of the one open file
  text,       \* text[p]: the length of what p writes
  accepted,      \* accepted[p]: how much of it was taken
  heard,      \* heard[p]: what p has read, as a piece; unset before
  overtaken_call,  \* rmmod and code that holds no reference have overlapped
  opens

devVars == <<already_open, step, holding, module_state, msg, offset, text, accepted, heard,
             overtaken_call, opens>>

Piece(a, b) == [from |-> a, to |-> b]
Length(piece) == piece.to - piece.from
Nothing == Piece(0, 0)

Init ==
  /\ already_open = FALSE /\ step = [p \in Procs |-> "out"]
  /\ holding = {} /\ module_state = "live"
  /\ msg = Nothing /\ offset = 0
  /\ text = [p \in Procs |-> 0] /\ accepted = [p \in Procs |-> 0]
  /\ heard = [p \in Procs |-> Nothing]
  /\ overtaken_call = FALSE /\ opens = 0

Goes(p, from, to) == step[p] = from /\ step' = [step EXCEPT ![p] = to]
\* p is in module code and not counted: before open() has taken its reference,
\* behind a refusal, or after release has given the reference back.
Uncounted(p) == step[p] \in {"open", "claimed", "leaving"}

-----------------------------------------------------------------------------
\* The kernel calls device_open (external: it looks the device up, which it
\* finds until chardev_exit has unregistered it).
CallOpen(p, n) ==
  /\ module_state # "gone" /\ opens < MaxOpens /\ opens' = opens + 1
  /\ Goes(p, "out", "open")
  /\ text' = [text EXCEPT ![p] = n] /\ accepted' = [accepted EXCEPT ![p] = 0]
  /\ heard' = [heard EXCEPT ![p] = Nothing]
  /\ overtaken_call' = (overtaken_call \/ module_state = "going")
  /\ UNCHANGED <<already_open, holding, module_state, msg, offset>>

\* Mutant: the device is taken without looking.
claim_anyway(p) ==
  /\ already_open' = TRUE /\ Goes(p, "open", "claimed")
atomic_cmpxchg(p) ==
  IF already_open THEN Goes(p, "open", "leaving") /\ UNCHANGED already_open
  ELSE already_open' = TRUE /\ Goes(p, "open", "claimed")

Claim(p) ==
  /\ module_state # "gone" /\ atomic_cmpxchg(p)
  /\ UNCHANGED <<holding, module_state, msg, offset, text, accepted, heard, overtaken_call, opens>>

\* Mutant: the module's use is not counted.
no_module_get(p) == UNCHANGED holding
\* It fails when rmmod has begun; device_open does not look.
try_module_get(p) == holding' = IF module_state = "live" THEN holding \union {p} ELSE holding

Opened(p) ==
  /\ module_state # "gone" /\ Goes(p, "claimed", "in")
  /\ try_module_get(p) /\ offset' = 0
  /\ UNCHANGED <<already_open, module_state, msg, text, accepted, heard, overtaken_call, opens>>

\* device_release up to module_put, and module_put; its return is a step of its own.
Release(p) ==
  /\ module_state # "gone" /\ Goes(p, "in", "released") /\ accepted[p] = text[p]
  /\ already_open' = FALSE
  /\ UNCHANGED <<holding, module_state, msg, offset, text, accepted, heard, overtaken_call, opens>>
module_put(p) ==
  /\ module_state # "gone" /\ Goes(p, "released", "leaving")
  /\ holding' = holding \ {p}
  /\ UNCHANGED <<already_open, module_state, msg, offset, text, accepted, heard, overtaken_call, opens>>

\* The way out of device_release, or of device_open with EBUSY.
Return(p) ==
  /\ module_state # "gone" /\ Goes(p, "leaving", "out")
  /\ UNCHANGED <<already_open, holding, module_state, msg, offset, text, accepted, heard,
                 overtaken_call, opens>>

-----------------------------------------------------------------------------
\* What one write takes of n characters: the rest of them is for the next.
\* Mutant: the last byte of the buffer is no terminator.
taken_to_the_brim(n) == IF n > BUF_LEN THEN BUF_LEN ELSE n
bytes_written(n) == IF n > BUF_LEN - 1 THEN BUF_LEN - 1 ELSE n

device_write(p) ==
  /\ module_state # "gone" /\ step[p] = "in" /\ accepted[p] < text[p]
  /\ accepted' = [accepted EXCEPT ![p] = @ + bytes_written(text[p] - @)]
  /\ msg' = Piece(accepted[p], accepted'[p])
  /\ UNCHANGED <<already_open, step, holding, module_state, offset, text, heard, overtaken_call,
                 opens>>

\* A read of up to n characters; at the end of the message the position is reset.
device_read(p, n) ==
  /\ module_state # "gone" /\ step[p] = "in" /\ accepted[p] = text[p]
  /\ offset < Length(msg)
  /\ LET end == IF offset + n < Length(msg) THEN offset + n ELSE Length(msg)
     IN /\ heard' = [heard EXCEPT ![p] = Piece(IF offset = 0 THEN msg.from ELSE @.from,
                                               msg.from + end)]
        /\ offset' = end
  /\ UNCHANGED <<already_open, step, holding, module_state, msg, text, accepted, overtaken_call, opens>>
ReadsTheEnd(p) ==
  /\ module_state # "gone" /\ step[p] = "in" /\ accepted[p] = text[p]
  /\ offset > 0 /\ offset = Length(msg) /\ offset' = 0
  /\ UNCHANGED <<already_open, step, holding, module_state, msg, text, accepted, heard,
                 overtaken_call, opens>>

-----------------------------------------------------------------------------
\* rmmod: the kernel refuses while there are references (external) ...
StopModule ==
  /\ module_state = "live" /\ holding = {} /\ module_state' = "going"
  /\ overtaken_call' = (overtaken_call \/ \E p \in Procs : Uncounted(p))
  /\ UNCHANGED <<already_open, step, holding, msg, offset, text, accepted, heard, opens>>

\* ... then the device is destroyed and the module's memory freed.
chardev_exit ==
  /\ module_state = "going" /\ module_state' = "gone"
  /\ UNCHANGED <<already_open, step, holding, msg, offset, text, accepted, heard, overtaken_call,
                 opens>>

Next ==
  \/ \E p \in Procs :
       \/ \E n \in Texts : CallOpen(p, n)
       \/ Claim(p) \/ Opened(p) \/ Release(p) \/ module_put(p) \/ Return(p)
       \/ device_write(p) \/ (\E n \in 1..BUF_LEN : device_read(p, n)) \/ ReadsTheEnd(p)
  \/ StopModule \/ chardev_exit

Spec == Init /\ [][Next]_devVars

-----------------------------------------------------------------------------
\* The module is not taken away while a process has the device open or is in its
\* code, unless rmmod overlaps a call of open() that has not yet counted itself or
\* was refused (chardev.c:74-80), or the end of a release that has given its
\* reference back (91-93): then the process is left in memory that is freed. One
\* process at a time is in, and a process that has left lets the next one in.
UnloadIsClean ==
  /\ module_state = "gone" /\ ~overtaken_call => \A p \in Procs : step[p] = "out"
  /\ Cardinality({p \in Procs : step[p] \in {"claimed", "in"}}) = IF already_open THEN 1 ELSE 0

\* What a text that is longer than the buffer leaves is its last piece, for the
\* writer goes on with what was not taken; the message always ends before the
\* last byte of the buffer, and a process that reads to the end has it whole
\* (chardev.c:105-125, 135-150).
TailOf(n) == Piece(((n - 1) \div (BUF_LEN - 1)) * (BUF_LEN - 1), n)
MessagesComeWhole ==
  /\ Length(msg) < BUF_LEN
  /\ \A p \in Procs : step[p] = "in" /\ accepted[p] = text[p] =>
       /\ text[p] > 0 => msg = TailOf(text[p])
       /\ offset = Length(msg) => heard[p] = msg
=============================================================================
