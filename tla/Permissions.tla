----------------------------- MODULE Permissions ----------------------------
(***************************************************************************)
(* module2/task2/3.1: access rights entered in digits or letters, read     *)
(* from a file, and changed with commands like "u+rw". A mode_t is the set *)
(* of the numbers of its bits: 0 to 8 are the rights of others, group and  *)
(* user, FileType stands for all above them.                               *)
(*                                                                         *)
(* A command is who, an operator and the letters that follow, whose order  *)
(* and repetition change nothing. Input that is too long for its buffer is *)
(* left out, and so is a choice that is not a number.                      *)
(***************************************************************************)
EXTENDS Integers, Sequences

CONSTANTS Digits,     \* three octal digits that are typed
          Letters,    \* nine letters that are typed
          Files       \* rights of the files there are: sets of bit numbers

VARIABLES
  mode, file_loaded,
  exited,     \* the program has left: "no", "menu" or "format"
  meant       \* the rights, as the user understands what was typed or read

permVars == <<mode, file_loaded, exited, meant>>

FileType == 12
\* The letters of a permission string, and the bit each of them is.
Letter(i) == <<"r", "w", "x", "r", "w", "x", "r", "w", "x">>[i]
S_I(who, perm) == (CASE who = "u" -> 6 [] who = "g" -> 3 [] who = "o" -> 0) +
                  (CASE perm = "r" -> 2 [] perm = "w" -> 1 [] perm = "x" -> 0)
Users == {"u", "g", "o"}
Perms == {"r", "w", "x"}
\* S_IRWXU, S_IRWXG and S_IRWXO
S_IRWX(who) == {S_I(who, perm) : perm \in Perms}

Init == mode = {} /\ file_loaded = FALSE /\ exited = "no" /\ meant = {}

-----------------------------------------------------------------------------
BitsOf(digit) == {b \in 0..2 : (digit \div 2^b) % 2 = 1}
Shifted(bits, n) == {b + n : b \in bits}

\* Mutant: the mode is shifted once too often.
parse_shifted_on(d) ==
  Shifted(Shifted(Shifted(BitsOf(d[1]), 3) \union BitsOf(d[2]), 3) \union BitsOf(d[3]), 3)
parse_numeric_permissions(d) ==
  Shifted(Shifted(BitsOf(d[1]), 3) \union BitsOf(d[2]), 3) \union BitsOf(d[3])

\* A letter counts where it belongs and is passed over elsewhere.
parse_symbolic_permissions(l) == {9 - i : i \in {j \in 1..9 : l[j] = Letter(j)}}

Entered(bits, rights) ==
  /\ exited = "no"
  /\ mode' = bits /\ meant' = rights /\ file_loaded' = TRUE
  /\ UNCHANGED exited

EnterNumeric(d) ==
  Entered(parse_numeric_permissions(d),
          {r \in Users \X Perms :
             LET digit == d[CASE r[1] = "u" -> 1 [] r[1] = "g" -> 2 [] r[1] = "o" -> 3]
             IN CASE r[2] = "r" -> digit >= 4
                  [] r[2] = "w" -> digit % 4 >= 2
                  [] r[2] = "x" -> digit % 2 = 1})

EnterSymbolic(l) ==
  Entered(parse_symbolic_permissions(l),
          {r \in Users \X Perms :
             LET group == CASE r[1] = "u" -> 0 [] r[1] = "g" -> 3 [] r[1] = "o" -> 6
             IN \E i \in 1..3 : l[group + i] = r[2] /\ Letter(i) = r[2]})

\* Neither three octal digits nor nine letters: both parsers exit.
EnterWrong ==
  /\ exited = "no" /\ exited' = "format"
  /\ UNCHANGED <<mode, file_loaded, meant>>

-----------------------------------------------------------------------------
get_file_permissions(bits) ==
  Entered(bits \union {FileType},
          {r \in Users \X Perms : S_I(r[1], r[2]) \in bits})

\* stat() fails: the mode stays, but counts as loaded.
NoSuchFile ==
  /\ exited = "no" /\ file_loaded' = TRUE
  /\ UNCHANGED <<mode, exited, meant>>

-----------------------------------------------------------------------------
\* Mutant: the bits of the others are not masked away.
bit_unmasked(who, perms) == {S_I(u, perm) : u \in Users, perm \in perms}
bit(who, perms) ==
  {S_I(u, perm) : u \in Users, perm \in perms} \intersect
    (IF who = "a" THEN UNION {S_IRWX(u) : u \in Users} ELSE S_IRWX(who))

\* Mutant: '=' adds.
cleared_nothing(who) == {}
cleared(who) == IF who = "a" THEN mode ELSE S_IRWX(who)

Whom(who) == IF who = "a" THEN Users ELSE {who}

\* An unknown letter, user or operator leaves the mode alone.
modify_permissions(who, op, perms) ==
  /\ exited = "no" /\ file_loaded
  /\ IF ~(perms \subseteq Perms) \/ who \notin {"a", "u", "g", "o"} \/ op \notin {"+", "-", "="}
     THEN UNCHANGED <<mode, meant>>
     ELSE LET rights == Whom(who) \X perms
          IN /\ mode' = CASE op = "+" -> mode \union bit(who, perms)
                          [] op = "-" -> mode \ bit(who, perms)
                          [] op = "=" -> (mode \ cleared(who)) \union bit(who, perms)
             /\ meant' = CASE op = "+" -> meant \union rights
                           [] op = "-" -> meant \ rights
                           [] op = "=" -> (meant \ (Whom(who) \X Perms)) \union rights
  /\ UNCHANGED <<file_loaded, exited>>

\* Every command there is, and one with a wrong user, operator or letter each.
Commands == {"a", "u", "g", "o"} \X {"+", "-", "="} \X SUBSET Perms
              \union {<<"z", "+", {"r"}>>, <<"u", "*", {"r"}>>, <<"u", "+", {"r", "s"}>>}

Exit ==
  /\ exited = "no" /\ exited' = "menu"
  /\ UNCHANGED <<mode, file_loaded, meant>>

Next ==
  \/ \E d \in Digits : EnterNumeric(d)
  \/ \E l \in Letters : EnterSymbolic(l)
  \/ \E bits \in Files : get_file_permissions(bits)
  \/ EnterWrong \/ NoSuchFile \/ Exit
  \/ \E c \in Commands : modify_permissions(c[1], c[2], c[3])

-----------------------------------------------------------------------------
\* print_permissions: the letters, and the digits of mode & 0777.
LettersShown == [i \in 1..9 |-> IF 9 - i \in mode THEN Letter(i) ELSE "-"]
DigitShown(who) == LET at(perm) == IF S_I(who, perm) \in mode THEN 1 ELSE 0
                   IN 4 * at("r") + 2 * at("w") + at("x")

\* However the rights were entered, read and changed, the nine bits are the
\* rights that chmod would have made of the same commands, and what is printed,
\* entered again in letters or in digits, is the same rights; the bits above
\* them come only from a file (permissions.c:3-23, 25-61, 63-116).
RightsAreMeant ==
  /\ \A who \in Users, perm \in Perms : S_I(who, perm) \in mode <=> <<who, perm>> \in meant
  /\ mode \subseteq 0..8 \union {FileType}
  /\ parse_symbolic_permissions(LettersShown) = mode \ {FileType}
  /\ parse_numeric_permissions(<<DigitShown("u"), DigitShown("g"), DigitShown("o")>>)
       = mode \ {FileType}
=============================================================================
