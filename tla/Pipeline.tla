------------------------------ MODULE Pipeline ------------------------------
(***************************************************************************)
(* module3/04: an interpreter that runs command | command | ... with the   *)
(* input of the first and the output of the last redirected on demand.     *)
(*                                                                         *)
(* Of a command line only the number of commands matters, and which of     *)
(* them cannot be started: a redirection that cannot be opened, or execvp  *)
(* failing. Pipe k leads from command k to command k + 1. A command is a   *)
(* filter (external): it takes an item, hands it on, and ends at the end   *)
(* of its input; the first one has Items items to read.                    *)
(***************************************************************************)
EXTENDS Integers, FiniteSets

CONSTANTS MaxStages,   \* bound: commands in a line, at most MAX_COMMANDS
          Items,       \* bound: items in the input of the first command
          PipeSize,    \* capacity of a pipe
          MaxLines     \* bound: command lines typed

VARIABLES
  shell,      \* the interpreter: "prompt", "fork", "close", "wait" or "ended"
  num_commands,
  broken,     \* the commands that cannot be started
  garbage,    \* what pipes[num_commands - 1] names, which nobody has filled
  stage,      \* stage[k]: "none", "set-up", "run" or "dead"
  ends,       \* ends[P]: the ends of pipes P has open (0 is the interpreter)
  std,        \* std[k]: which of "in" and "out" command k has
  holds,      \* holds[k]: it has an item to hand on
  pipe,       \* pipe[k]: items in pipe k
  input,      \* items the first command has not read
  output,     \* items the last command has written
  hurt,       \* a command did not start, lost a standard stream or ended early
  lines_typed \* command lines typed

pipeVars == <<shell, num_commands, broken, garbage, stage, ends, std, holds, pipe, input, output,
              hurt, lines_typed>>

Stages == 1..MaxStages
Pipes  == 0..MaxStages          \* number 0 leads to the first command, of no pipe
Interpreter == 0
Read(k)  == <<k, "read">>
Write(k) == <<k, "write">>
Std == {"in", "out"}

Init ==
  /\ shell = "prompt" /\ num_commands = 0 /\ broken = {} /\ garbage = {}
  /\ stage = [k \in Stages |-> "none"]
  /\ ends = [P \in Pipes |-> {}]
  /\ std = [k \in Stages |-> Std]
  /\ holds = [k \in Stages |-> FALSE]
  /\ pipe = [k \in Pipes |-> 0]
  /\ input = 0 /\ output = 0
  /\ hurt = FALSE /\ lines_typed = 0

Created(n) == {Read(k) : k \in 1..(n - 1)} \union {Write(k) : k \in 1..(n - 1)}

-----------------------------------------------------------------------------
\* A command line: parse_commands, and pipe() for all but the last command.
execute_pipeline(n, bad, names) ==
  /\ shell = "prompt" /\ lines_typed < MaxLines /\ lines_typed' = lines_typed + 1
  /\ num_commands' = n /\ broken' = bad /\ garbage' = names
  /\ ends' = [ends EXCEPT ![Interpreter] = Created(n)]
  /\ stage' = [k \in Stages |-> "none"] /\ std' = [k \in Stages |-> Std]
  /\ holds' = [k \in Stages |-> FALSE] /\ pipe' = [k \in Pipes |-> 0]
  /\ input' = Items /\ output' = 0 /\ hurt' = FALSE
  /\ shell' = "fork"

\* fork() copies all descriptors; the last one is followed by the closing.
Fork(k) ==
  /\ shell = "fork" /\ k <= num_commands /\ stage[k] = "none"
  /\ \A j \in 1..(k - 1) : stage[j] # "none"
  /\ stage' = [stage EXCEPT ![k] = "set-up"]
  /\ ends' = [ends EXCEPT ![k] = ends[Interpreter]]
  /\ shell' = IF k = num_commands THEN "close" ELSE "fork"
  /\ UNCHANGED <<num_commands, broken, garbage, std, holds, pipe, input, output, hurt, lines_typed>>

\* fork() fails, or pipe() before the first: the interpreter exits, and the
\* commands it has started go on.
ForkFails ==
  /\ shell = "fork"
  /\ shell' = "ended"
  /\ ends' = [ends EXCEPT ![Interpreter] = {}]
  /\ UNCHANGED <<num_commands, broken, garbage, stage, std, holds, pipe, input, output, hurt,
                 lines_typed>>

\* Mutant: the parent keeps its ends.
KeepPipes ==
  /\ shell = "close" /\ shell' = "wait"
  /\ UNCHANGED <<num_commands, broken, garbage, stage, ends, std, holds, pipe, input, output,
                 hurt, lines_typed>>
ClosePipes ==
  /\ shell = "close" /\ shell' = "wait"
  /\ ends' = [ends EXCEPT ![Interpreter] = {}]
  /\ UNCHANGED <<num_commands, broken, garbage, stage, std, holds, pipe, input, output, hurt,
                 lines_typed>>

\* Mutant: as many commands are waited for as there are pipes.
WaitOneLess ==
  /\ shell = "wait"
  /\ Cardinality({k \in 1..num_commands : stage[k] = "dead"}) >= num_commands - 1
  /\ shell' = "prompt"
  /\ UNCHANGED <<num_commands, broken, garbage, stage, ends, std, holds, pipe, input, output,
                 hurt, lines_typed>>
WaitAll ==
  /\ shell = "wait" /\ \A k \in 1..num_commands : stage[k] = "dead"
  /\ shell' = "prompt"
  /\ UNCHANGED <<num_commands, broken, garbage, stage, ends, std, holds, pipe, input, output,
                 hurt, lines_typed>>

\* "exit" at the prompt.
Exit ==
  /\ shell = "prompt" /\ shell' = "ended"
  /\ UNCHANGED <<num_commands, broken, garbage, stage, ends, std, holds, pipe, input, output,
                 hurt, lines_typed>>

-----------------------------------------------------------------------------
Dies(k) == /\ stage' = [stage EXCEPT ![k] = "dead"]
           /\ ends' = [ends EXCEPT ![k] = {}]

\* Mutant: the ends of the neighbouring pipes only are closed.
KeptOthers(k) == ends[k] \ {Write(k - 1), Read(k)}
\* What dup2() leaves of the pipes: one end as standard input, one as output.
KeptEnds(k) == ends[k] \intersect {Read(k - 1), Write(k)}

\* The child redirects, closes pipes[0..num_commands - 1], of which the last is
\* garbage and may name its standard streams, and becomes the command.
SetUp(k) ==
  /\ stage[k] = "set-up"
  /\ IF k \in broken
     THEN Dies(k) /\ hurt' = TRUE /\ UNCHANGED std
     ELSE /\ stage' = [stage EXCEPT ![k] = "run"]
          /\ std' = [std EXCEPT ![k] = @ \ garbage]
          /\ ends' = [ends EXCEPT ![k] =
               KeptEnds(k) \ ((IF "in" \in garbage THEN {Read(k - 1)} ELSE {}) \union
                              (IF "out" \in garbage THEN {Write(k)} ELSE {}))]
          /\ hurt' = (hurt \/ garbage # {})
  /\ UNCHANGED <<shell, num_commands, broken, garbage, holds, pipe, input, output, lines_typed>>

-----------------------------------------------------------------------------
(* The commands and the pipes of the kernel (external).                     *)

HeldOpen(e) == \E P \in Pipes : e \in ends[P]

\* read() of command k: an item, or the end of the input, or an error.
ReadItem(k) ==
  /\ stage[k] = "run" /\ ~holds[k] /\ "in" \in std[k]
  /\ holds' = [holds EXCEPT ![k] = TRUE]
  /\ \/ k = 1 /\ input > 0 /\ input' = input - 1 /\ UNCHANGED pipe
     \/ k > 1 /\ pipe[k - 1] > 0 /\ pipe' = [pipe EXCEPT ![k - 1] = @ - 1] /\ UNCHANGED input
  /\ UNCHANGED <<shell, num_commands, broken, garbage, stage, ends, std, output, hurt, lines_typed>>

EndsAtEof(k) ==
  /\ stage[k] = "run" /\ ~holds[k]
  /\ \/ "in" \notin std[k]
     \/ k = 1 /\ input = 0
     \/ k > 1 /\ pipe[k - 1] = 0 /\ ~HeldOpen(Write(k - 1))
  /\ Dies(k)
  /\ UNCHANGED <<shell, num_commands, broken, garbage, std, holds, pipe, input, output, hurt,
                 lines_typed>>

\* write() of command k: into the pipe, or SIGPIPE, or an error.
WriteItem(k) ==
  /\ stage[k] = "run" /\ holds[k]
  /\ \/ /\ "out" \notin std[k] \/ (k < num_commands /\ ~HeldOpen(Read(k)))
        /\ Dies(k) /\ UNCHANGED <<holds, pipe, output>>
     \/ /\ "out" \in std[k]
        /\ \/ k = num_commands /\ output' = output + 1 /\ UNCHANGED pipe
           \/ k < num_commands /\ HeldOpen(Read(k)) /\ pipe[k] < PipeSize
                /\ pipe' = [pipe EXCEPT ![k] = @ + 1] /\ UNCHANGED output
        /\ holds' = [holds EXCEPT ![k] = FALSE] /\ UNCHANGED <<stage, ends>>
  /\ UNCHANGED <<shell, num_commands, broken, garbage, std, input, hurt, lines_typed>>

\* A command may end before its input does.
EndsEarly(k) ==
  /\ stage[k] = "run" /\ Dies(k) /\ hurt' = TRUE
  /\ UNCHANGED <<shell, num_commands, broken, garbage, std, holds, pipe, input, output,
                 lines_typed>>

StageStep(k) == SetUp(k) \/ ReadItem(k) \/ EndsAtEof(k) \/ WriteItem(k)
InterpreterStep == (\E k \in Stages : Fork(k)) \/ ClosePipes \/ WaitAll

Next ==
  \/ InterpreterStep \/ ForkFails \/ Exit
  \/ \E n \in Stages, names \in SUBSET Std : \E bad \in SUBSET (1..n) :
       execute_pipeline(n, bad, names)
  \/ \E k \in Stages : StageStep(k) \/ EndsEarly(k)

\* The interpreter and the commands are scheduled.
Fairness ==
  /\ WF_pipeVars(InterpreterStep)
  /\ \A k \in Stages : WF_pipeVars(StageStep(k))

-----------------------------------------------------------------------------
\* The interpreter comes back to its prompt, whatever fails and whatever the
\* garbage names: every command meets the end of its input or a broken pipe,
\* since no process keeps an end that is not its own (interpreter.c:121-135).
PromptsAgain == (shell = "fork") ~> (shell \in {"prompt", "ended"})

\* All the input comes out at the other end of the pipeline, unless a command
\* did not start, ended early or had a standard stream closed as garbage.
WhatGoesInComesOut == shell = "prompt" /\ lines_typed > 0 /\ ~hurt => output = Items
=============================================================================
