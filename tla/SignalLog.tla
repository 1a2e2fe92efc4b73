----------------------------- MODULE SignalLog -----------------------------
(***************************************************************************)
(* module3/05: a main loop writes numbers to output.txt, the handler of    *)
(* SIGINT and SIGQUIT writes to the same FILE, counts the SIGINTs and at   *)
(* the third closes it. Whoever comes first opens it. A handler is         *)
(* interrupted by the other signal, not by its own. Writing to or closing  *)
(* a closed FILE is undefined: the process dies or goes on.                *)
(***************************************************************************)
EXTENDS Integers, Sequences

CONSTANT MaxSignals     \* bound: signals delivered

VARIABLES
  frames,      \* the handlers that run, the innermost first: signal and place
  counter,
  begun,       \* main(): "test" (whether the file is open), "open" or "loop"
  file,        \* "none", "open" or "closed"
  disposition, \* of the signals: "handler" or "SIG_DFL"
  process,     \* "alive", "killed" by a signal or "crashed"
  closings,    \* calls of fclose
  nested,      \* a handler has interrupted the other
  signals      \* signals delivered

sigVars == <<frames, counter, begun, file, disposition, process, closings, nested, signals>>

Signals == {"SIGINT", "SIGQUIT"}

Init ==
  /\ frames = << >> /\ counter = 0 /\ begun = "test" /\ file = "none"
  /\ disposition = [s \in Signals |-> "handler"]
  /\ process = "alive" /\ closings = 0 /\ nested = FALSE /\ signals = 0

Running == {frames[i].sig : i \in DOMAIN frames}
At(place) == frames # << >> /\ frames[1].at = place
GoTo(place) == frames' = [frames EXCEPT ![1].at = place]
Undefined == process' \in IF file = "open" THEN {"alive"} ELSE {"alive", "crashed"}

Masked(s) == s \in Running

Deliver(s) ==
  /\ process = "alive" /\ ~Masked(s) /\ signals < MaxSignals
  /\ signals' = signals + 1
  /\ IF disposition[s] = "SIG_DFL"
     THEN process' = "killed" /\ UNCHANGED <<frames, nested>>
     ELSE /\ frames' = <<[sig |-> s, at |-> "count"]>> \o frames
          /\ nested' = (nested \/ frames # << >>)
          /\ UNCHANGED process
  /\ UNCHANGED <<counter, begun, file, disposition, closings>>

\* main() opens the file unless a handler has; one that comes between the two
\* steps has its FILE replaced.
TestFile ==
  /\ process = "alive" /\ frames = << >> /\ begun = "test"
  /\ begun' = IF file = "none" THEN "open" ELSE "loop"
  /\ UNCHANGED <<frames, counter, file, disposition, process, closings, nested, signals>>
OpenFile ==
  /\ process = "alive" /\ frames = << >> /\ begun = "open"
  /\ begun' = "loop" /\ file' = "open"
  /\ UNCHANGED <<frames, counter, disposition, process, closings, nested, signals>>

\* fprintf(file, ...) of main() between two handlers.
PrintNumber ==
  /\ process = "alive" /\ frames = << >> /\ begun = "loop" /\ Undefined
  /\ UNCHANGED <<frames, counter, begun, file, disposition, closings, nested, signals>>

\* handle_signal, step by step.
Count ==
  /\ process = "alive" /\ At("count")
  /\ counter' = IF frames[1].sig = "SIGINT" THEN counter + 1 ELSE counter
  /\ GoTo("print")
  /\ UNCHANGED <<begun, file, disposition, process, closings, nested, signals>>

OpenInHandler ==
  /\ process = "alive" /\ At("print") /\ file = "none" /\ file' = "open"
  /\ UNCHANGED <<frames, counter, begun, disposition, process, closings, nested, signals>>

PrintSignal ==
  /\ process = "alive" /\ At("print") /\ file # "none" /\ Undefined /\ GoTo("test")
  /\ UNCHANGED <<counter, begun, file, disposition, closings, nested, signals>>

\* Mutant: the second SIGINT closes the file.
TestTwo ==
  /\ process = "alive" /\ At("test")
  /\ IF counter >= 2 THEN GoTo("close") ELSE frames' = Tail(frames)
  /\ UNCHANGED <<counter, begun, file, disposition, process, closings, nested, signals>>
Test ==
  /\ process = "alive" /\ At("test")
  /\ IF counter > 2 THEN GoTo("close") ELSE frames' = Tail(frames)
  /\ UNCHANGED <<counter, begun, file, disposition, process, closings, nested, signals>>

Close ==
  /\ process = "alive" /\ At("close") /\ Undefined
  /\ file' = "closed" /\ closings' = closings + 1
  /\ GoTo("SIGINT")
  /\ UNCHANGED <<counter, begun, disposition, nested, signals>>

\* Mutant: the dispositions stay as they are.
NoRestore(s) == UNCHANGED disposition
Restore(s) == disposition' = [disposition EXCEPT ![s] = "SIG_DFL"]

RestoreDefault(s) ==
  /\ process = "alive" /\ At(s) /\ Restore(s)
  /\ IF s = "SIGINT" THEN GoTo("SIGQUIT") ELSE frames' = Tail(frames)
  /\ UNCHANGED <<counter, begun, file, process, closings, nested, signals>>

Next ==
  \/ \E s \in Signals : Deliver(s) \/ RestoreDefault(s)
  \/ TestFile \/ OpenFile \/ PrintNumber \/ OpenInHandler
  \/ Count \/ PrintSignal \/ Test \/ Close

\* README.md has the program end at the third SIGINT. It goes on: the file is
\* closed by the third SIGINT and not before, once, unless a handler interrupted
\* the other; from then on every write of the main loop is undefined, and the
\* next SIGINT or SIGQUIT does end it, once the handler has returned
\* (signal.c:11-37, 51-55).
ClosedAtTheThird ==
  /\ closings > 0 => counter >= 3
  /\ closings > 1 \/ counter > 3 => nested
  /\ process = "crashed" => closings > 0
  /\ closings > 0 /\ frames = << >> => \A s \in Signals : disposition[s] = "SIG_DFL"
=============================================================================
