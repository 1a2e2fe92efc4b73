--------------------------- MODULE Module2Proofs ----------------------------
(***************************************************************************)
(* The invariants of the programs of module2, for any bounds: each program *)
(* has one that its own steps keep. ProgramsProofs makes theorems of the   *)
(* specification of them.                                                  *)
(***************************************************************************)
EXTENDS Module2, FiniteSetTheorems, SequenceTheorems, WellFoundedInduction, TLAPS

-----------------------------------------------------------------------------
(* Access rights of module2/task2/3.1.                                     *)

\* The three powers of two that make a digit's bits.
LEMMA Powers == 2^0 = 1 /\ 2^1 = 2 /\ 2^2 = 4
  OBVIOUS

\* The nine bits.
LEMMA BitNumbers ==
  /\ Rights!S_I("u", "r") = 8 /\ Rights!S_I("u", "w") = 7 /\ Rights!S_I("u", "x") = 6
  /\ Rights!S_I("g", "r") = 5 /\ Rights!S_I("g", "w") = 4 /\ Rights!S_I("g", "x") = 3
  /\ Rights!S_I("o", "r") = 2 /\ Rights!S_I("o", "w") = 1 /\ Rights!S_I("o", "x") = 0
BY DEF Rights!S_I

\* The nine bits of a mode_t are nine numbers: no right shares a bit with another.
LEMMA BitsDiffer ==
  ASSUME NEW who \in Rights!Users, NEW perm \in Rights!Perms,
         NEW u \in Rights!Users, NEW p \in Rights!Perms
  PROVE  /\ Rights!S_I(who, perm) \in 0..8
         /\ Rights!S_I(who, perm) = Rights!S_I(u, p) => who = u /\ perm = p
BY BitNumbers DEF Rights!Users, Rights!Perms

\* The letters of "rwxrwxrwx", by position.
LEMMA Letter9 ==
  /\ Rights!Letter(1) = "r" /\ Rights!Letter(2) = "w" /\ Rights!Letter(3) = "x"
  /\ Rights!Letter(4) = "r" /\ Rights!Letter(5) = "w" /\ Rights!Letter(6) = "x"
  /\ Rights!Letter(7) = "r" /\ Rights!Letter(8) = "w" /\ Rights!Letter(9) = "x"
BY DEF Rights!Letter

\* What an octal digit's three bits say of its size.
LEMMA DigitBits ==
  ASSUME NEW d \in 0..7
  PROVE  /\ Rights!BitsOf(d) \subseteq 0..2
         /\ 2 \in Rights!BitsOf(d) <=> d >= 4
         /\ 1 \in Rights!BitsOf(d) <=> d % 4 >= 2
         /\ 0 \in Rights!BitsOf(d) <=> d % 2 = 1
BY Powers DEF Rights!BitsOf
\* The bits a mode can have, and the mode that means some rights.
AllBits == 0..8 \union {Rights!FileType}
Means(bits, rights) ==
  \A who \in Rights!Users, perm \in Rights!Perms :
    Rights!S_I(who, perm) \in bits <=> <<who, perm>> \in rights
\* The mode is that of the rights that were given.
RightsInv == mode \subseteq AllBits /\ Means(mode, meant)

\* Three digits are the rights whose bits they have.
LEMMA NumericMeans ==
  ASSUME NEW d, \A i \in 1..3 : d[i] \in 0..7
  PROVE  LET bits == Rights!parse_numeric_permissions(d)
         IN /\ bits \subseteq 0..8
            /\ \A b \in 0..2 : /\ b + 6 \in bits <=> b \in Rights!BitsOf(d[1])
                               /\ b + 3 \in bits <=> b \in Rights!BitsOf(d[2])
                               /\ b \in bits <=> b \in Rights!BitsOf(d[3])
<1> DEFINE bits == Rights!parse_numeric_permissions(d)
           one == Rights!BitsOf(d[1])
           two == Rights!BitsOf(d[2])
           three == Rights!BitsOf(d[3])
<1>1. one \subseteq 0..2 /\ two \subseteq 0..2 /\ three \subseteq 0..2
  BY DigitBits
<1>2. bits = {b + 3 : b \in {b + 3 : b \in one} \union two} \union three
  BY DEF Rights!parse_numeric_permissions, Rights!Shifted
<1> HIDE DEF one, two, three, bits
<1>3. \A c : c \in bits <=> \/ \E b \in one : c = b + 6
                            \/ \E b \in two : c = b + 3
                            \/ c \in three
  <2>1. \A c : c \in {b + 3 : b \in {b + 3 : b \in one} \union two}
                 <=> \E b \in {b + 3 : b \in one} \union two : c = b + 3
    OBVIOUS
  <2>2. \A b : b \in {e + 3 : e \in one} <=> \E e \in one : b = e + 3
    OBVIOUS
  <2>3. \A e \in one : (e + 3) + 3 = e + 6
    BY <1>1
  <2> QED
    BY <1>2, <2>1, <2>2, <2>3
<1>4. bits \subseteq 0..8
  <2>1. \A b \in 0..2 : b + 6 \in 0..8 /\ b + 3 \in 0..8 /\ b \in 0..8
    OBVIOUS
  <2>2. /\ \A b \in one : b + 6 \in 0..8
        /\ \A b \in two : b + 3 \in 0..8
        /\ \A b \in three : b \in 0..8
    BY <1>1, <2>1
  <2> QED
    BY <1>3, <2>2
<1>5. ASSUME NEW b \in 0..2
      PROVE  /\ b + 6 \in bits <=> b \in one
             /\ b + 3 \in bits <=> b \in two
             /\ b \in bits <=> b \in three
  <2>1. b + 6 \in bits <=> b \in one
    BY <1>1, <1>3
  <2>2. b + 3 \in bits <=> b \in two
    BY <1>1, <1>3
  <2>3. b \in bits <=> b \in three
    BY <1>1, <1>3
  <2> QED
    BY <2>1, <2>2, <2>3
<1> QED
  BY <1>4, <1>5 DEF bits, one, two, three

\* The bits of nine letters.
LEMMA SymbolicMeans ==
  ASSUME NEW l
  PROVE  LET bits == Rights!parse_symbolic_permissions(l)
         IN /\ bits \subseteq 0..8
            /\ \A b \in 0..8 : b \in bits <=> l[9 - b] = Rights!Letter(9 - b)
<1> DEFINE bits == Rights!parse_symbolic_permissions(l)
<1>1. \A c : c \in bits <=> \E i \in 1..9 : l[i] = Rights!Letter(i) /\ c = 9 - i
  BY DEF Rights!parse_symbolic_permissions
<1> HIDE DEF bits
<1>2. \A i \in 1..9 : 9 - i \in 0..8
  OBVIOUS
<1>3. ASSUME NEW b \in 0..8 PROVE b \in bits <=> l[9 - b] = Rights!Letter(9 - b)
  <2>1. 9 - b \in 1..9 /\ b = 9 - (9 - b) /\ \A i \in 1..9 : b = 9 - i => i = 9 - b
    OBVIOUS
  <2>2. b \in bits => l[9 - b] = Rights!Letter(9 - b)
    BY <1>1, <2>1
  <2>3. l[9 - b] = Rights!Letter(9 - b) => b \in bits
    BY <1>1, <2>1
  <2> QED
    BY <2>2, <2>3
<1> QED
  BY <1>1, <1>2, <1>3 DEF bits

\* At the start no right is set and none is meant.
LEMMA RightsInit == Rights!Init => RightsInv
BY DEF Rights!Init, RightsInv, Means

\* Rights typed as three digits are what the digits mean.
LEMMA NumericInv ==
  ASSUME NEW d \in Digits, Rights!EnterNumeric(d)
  PROVE  RightsInv'
<1> DEFINE bits == Rights!parse_numeric_permissions(d)
<1>1. /\ mode' = bits
      /\ meant' = {r \in Rights!Users \X Rights!Perms :
             LET digit == d[CASE r[1] = "u" -> 1 [] r[1] = "g" -> 2 [] r[1] = "o" -> 3]
             IN CASE r[2] = "r" -> digit >= 4
                  [] r[2] = "w" -> digit % 4 >= 2
                  [] r[2] = "x" -> digit % 2 = 1}
  BY DEF Rights!EnterNumeric, Rights!Entered
<1>2. \A i \in 1..3 : d[i] \in 0..7
  BY RightsAssumption
<1>3. /\ bits \subseteq 0..8
      /\ \A b \in 0..2 : /\ b + 6 \in bits <=> b \in Rights!BitsOf(d[1])
                         /\ b + 3 \in bits <=> b \in Rights!BitsOf(d[2])
                         /\ b \in bits <=> b \in Rights!BitsOf(d[3])
  BY <1>2, NumericMeans
<1> HIDE DEF bits
<1>4. ASSUME NEW k \in 0..7
      PROVE  /\ 2 \in Rights!BitsOf(k) <=> k >= 4
             /\ 1 \in Rights!BitsOf(k) <=> k % 4 >= 2
             /\ 0 \in Rights!BitsOf(k) <=> k % 2 = 1
  BY DigitBits
<1>5. /\ 8 \in bits <=> d[1] >= 4
      /\ 7 \in bits <=> d[1] % 4 >= 2
      /\ 6 \in bits <=> d[1] % 2 = 1
  <2>1. /\ 2 + 6 \in bits <=> 2 \in Rights!BitsOf(d[1])
        /\ 1 + 6 \in bits <=> 1 \in Rights!BitsOf(d[1])
        /\ 0 + 6 \in bits <=> 0 \in Rights!BitsOf(d[1])
    BY <1>3
  <2> QED
    BY <1>2, <1>4, <2>1
<1>6. /\ 5 \in bits <=> d[2] >= 4
      /\ 4 \in bits <=> d[2] % 4 >= 2
      /\ 3 \in bits <=> d[2] % 2 = 1
  <2>1. /\ 2 + 3 \in bits <=> 2 \in Rights!BitsOf(d[2])
        /\ 1 + 3 \in bits <=> 1 \in Rights!BitsOf(d[2])
        /\ 0 + 3 \in bits <=> 0 \in Rights!BitsOf(d[2])
    BY <1>3
  <2> QED
    BY <1>2, <1>4, <2>1
<1>7. /\ 2 \in bits <=> d[3] >= 4
      /\ 1 \in bits <=> d[3] % 4 >= 2
      /\ 0 \in bits <=> d[3] % 2 = 1
  BY <1>2, <1>3, <1>4
<1>8. /\ <<"u", "r">> \in meant' <=> d[1] >= 4
      /\ <<"u", "w">> \in meant' <=> d[1] % 4 >= 2
      /\ <<"u", "x">> \in meant' <=> d[1] % 2 = 1
  BY <1>1 DEF Rights!Users, Rights!Perms
<1>9. /\ <<"g", "r">> \in meant' <=> d[2] >= 4
      /\ <<"g", "w">> \in meant' <=> d[2] % 4 >= 2
      /\ <<"g", "x">> \in meant' <=> d[2] % 2 = 1
  BY <1>1 DEF Rights!Users, Rights!Perms
<1>10. /\ <<"o", "r">> \in meant' <=> d[3] >= 4
       /\ <<"o", "w">> \in meant' <=> d[3] % 4 >= 2
       /\ <<"o", "x">> \in meant' <=> d[3] % 2 = 1
  BY <1>1 DEF Rights!Users, Rights!Perms
<1>11. ASSUME NEW who \in Rights!Users, NEW perm \in Rights!Perms
       PROVE  Rights!S_I(who, perm) \in mode' <=> <<who, perm>> \in meant'
  <2>1. CASE who = "u"
    <3>1. /\ Rights!S_I("u", "r") \in mode' <=> <<"u", "r">> \in meant'
          /\ Rights!S_I("u", "w") \in mode' <=> <<"u", "w">> \in meant'
          /\ Rights!S_I("u", "x") \in mode' <=> <<"u", "x">> \in meant'
      BY <1>1, <1>5, <1>8, BitNumbers
    <3> QED
      BY <2>1, <3>1, Zenon DEF Rights!Perms
  <2>2. CASE who = "g"
    <3>1. /\ Rights!S_I("g", "r") \in mode' <=> <<"g", "r">> \in meant'
          /\ Rights!S_I("g", "w") \in mode' <=> <<"g", "w">> \in meant'
          /\ Rights!S_I("g", "x") \in mode' <=> <<"g", "x">> \in meant'
      BY <1>1, <1>6, <1>9, BitNumbers
    <3> QED
      BY <2>2, <3>1, Zenon DEF Rights!Perms
  <2>3. CASE who = "o"
    <3>1. /\ Rights!S_I("o", "r") \in mode' <=> <<"o", "r">> \in meant'
          /\ Rights!S_I("o", "w") \in mode' <=> <<"o", "w">> \in meant'
          /\ Rights!S_I("o", "x") \in mode' <=> <<"o", "x">> \in meant'
      BY <1>1, <1>7, <1>10, BitNumbers
    <3> QED
      BY <2>3, <3>1, Zenon DEF Rights!Perms
  <2> QED
    BY <2>1, <2>2, <2>3 DEF Rights!Users
<1> QED
  BY <1>1, <1>3, <1>11 DEF RightsInv, Means, AllBits

\* Rights typed as letters are what the letters mean.
LEMMA SymbolicInv ==
  ASSUME NEW l \in Letters, Rights!EnterSymbolic(l)
  PROVE  RightsInv'
<1> DEFINE bits == Rights!parse_symbolic_permissions(l)
<1>1. /\ mode' = bits
      /\ meant' = {r \in Rights!Users \X Rights!Perms :
             LET group == CASE r[1] = "u" -> 0 [] r[1] = "g" -> 3 [] r[1] = "o" -> 6
             IN \E i \in 1..3 : l[group + i] = r[2] /\ Rights!Letter(i) = r[2]}
  BY DEF Rights!EnterSymbolic, Rights!Entered
<1>2. bits \subseteq 0..8 /\ \A b \in 0..8 : b \in bits <=> l[9 - b] = Rights!Letter(9 - b)
  BY SymbolicMeans
<1> HIDE DEF bits
<1>3. /\ 8 \in bits <=> l[1] = "r"
      /\ 7 \in bits <=> l[2] = "w"
      /\ 6 \in bits <=> l[3] = "x"
      /\ 5 \in bits <=> l[4] = "r"
      /\ 4 \in bits <=> l[5] = "w"
      /\ 3 \in bits <=> l[6] = "x"
      /\ 2 \in bits <=> l[7] = "r"
      /\ 1 \in bits <=> l[8] = "w"
      /\ 0 \in bits <=> l[9] = "x"
  <2>1. /\ 8 \in 0..8 /\ 9 - 8 = 1 /\ 7 \in 0..8 /\ 9 - 7 = 2 /\ 6 \in 0..8 /\ 9 - 6 = 3
        /\ 5 \in 0..8 /\ 9 - 5 = 4 /\ 4 \in 0..8 /\ 9 - 4 = 5 /\ 3 \in 0..8 /\ 9 - 3 = 6
        /\ 2 \in 0..8 /\ 9 - 2 = 7 /\ 1 \in 0..8 /\ 9 - 1 = 8 /\ 0 \in 0..8 /\ 9 - 0 = 9
    OBVIOUS
  <2> QED
    BY ZenonT(60), <1>2, <2>1, Letter9
<1>4. ASSUME NEW who \in Rights!Users, NEW perm \in Rights!Perms, NEW g \in {0, 3, 6},
             g = CASE who = "u" -> 0 [] who = "g" -> 3 [] who = "o" -> 6
      PROVE  <<who, perm>> \in meant' <=> \E i \in 1..3 : l[g + i] = perm /\ Rights!Letter(i) = perm
  BY <1>1, <1>4
<1>5. ASSUME NEW who \in Rights!Users, NEW g \in {0, 3, 6},
             g = CASE who = "u" -> 0 [] who = "g" -> 3 [] who = "o" -> 6
      PROVE  /\ <<who, "r">> \in meant' <=> l[g + 1] = "r"
             /\ <<who, "w">> \in meant' <=> l[g + 2] = "w"
             /\ <<who, "x">> \in meant' <=> l[g + 3] = "x"
  <2>1. /\ 1 \in 1..3 /\ 2 \in 1..3 /\ 3 \in 1..3
        /\ \A i \in 1..3 : i = 1 \/ i = 2 \/ i = 3
    OBVIOUS
  <2>2. \A perm \in Rights!Perms :
          <<who, perm>> \in meant' <=> \E i \in 1..3 : l[g + i] = perm /\ Rights!Letter(i) = perm
    BY <1>4, <1>5
  <2> QED
    BY <2>1, <2>2, Letter9 DEF Rights!Perms
<1>6. /\ <<"u", "r">> \in meant' <=> l[1] = "r"
      /\ <<"u", "w">> \in meant' <=> l[2] = "w"
      /\ <<"u", "x">> \in meant' <=> l[3] = "x"
  BY <1>5 DEF Rights!Users
<1>7. /\ <<"g", "r">> \in meant' <=> l[4] = "r"
      /\ <<"g", "w">> \in meant' <=> l[5] = "w"
      /\ <<"g", "x">> \in meant' <=> l[6] = "x"
  BY <1>5 DEF Rights!Users
<1>8. /\ <<"o", "r">> \in meant' <=> l[7] = "r"
      /\ <<"o", "w">> \in meant' <=> l[8] = "w"
      /\ <<"o", "x">> \in meant' <=> l[9] = "x"
  BY <1>5 DEF Rights!Users
<1>9. ASSUME NEW who \in Rights!Users, NEW perm \in Rights!Perms
      PROVE  Rights!S_I(who, perm) \in mode' <=> <<who, perm>> \in meant'
  <2>1. CASE who = "u"
    <3>1. \A p \in Rights!Perms : Rights!S_I("u", p) \in mode' <=> <<"u", p>> \in meant'
      BY <1>1, <1>3, <1>6, BitNumbers DEF Rights!Perms
    <3> QED
      BY <2>1, <3>1
  <2>2. CASE who = "g"
    <3>1. \A p \in Rights!Perms : Rights!S_I("g", p) \in mode' <=> <<"g", p>> \in meant'
      BY <1>1, <1>3, <1>7, BitNumbers DEF Rights!Perms
    <3> QED
      BY <2>2, <3>1
  <2>3. CASE who = "o"
    <3>1. \A p \in Rights!Perms : Rights!S_I("o", p) \in mode' <=> <<"o", p>> \in meant'
      BY <1>1, <1>3, <1>8, BitNumbers DEF Rights!Perms
    <3> QED
      BY <2>3, <3>1
  <2> QED
    BY <2>1, <2>2, <2>3 DEF Rights!Users
<1> QED
  BY <1>1, <1>2, <1>9 DEF RightsInv, Means, AllBits

\* The bits a command names are the rights the user names.
LEMMA BitMeans ==
  ASSUME NEW who \in {"a", "u", "g", "o"}, NEW perms \in SUBSET Rights!Perms,
         NEW u \in Rights!Users, NEW p \in Rights!Perms
  PROVE  /\ Rights!bit(who, perms) \subseteq 0..8
         /\ Rights!S_I(u, p) \in Rights!bit(who, perms) <=> u \in Rights!Whom(who) /\ p \in perms
<1> DEFINE chosen == {Rights!S_I(v, q) : v \in Rights!Users, q \in perms}
           mask == IF who = "a" THEN UNION {Rights!S_IRWX(v) : v \in Rights!Users}
                                ELSE Rights!S_IRWX(who)
<1>1. Rights!bit(who, perms) = chosen \intersect mask
  BY DEF Rights!bit
<1>2. chosen \subseteq 0..8
  BY BitsDiffer
<1>3. Rights!S_I(u, p) \in chosen <=> p \in perms
  BY BitsDiffer
<1>4. \A v \in Rights!Users : Rights!S_I(u, p) \in Rights!S_IRWX(v) <=> v = u
  BY BitsDiffer DEF Rights!S_IRWX
<1>5. Rights!S_I(u, p) \in mask <=> u \in Rights!Whom(who)
  <2>1. CASE who = "a"
    BY <1>4, <2>1 DEF Rights!Whom
  <2>2. CASE who # "a"
    BY <1>4, <2>2 DEF Rights!Whom, Rights!Users
  <2> QED
    BY <2>1, <2>2
<1> HIDE DEF chosen, mask
<1> QED
  BY <1>1, <1>2, <1>3, <1>5

\* A command changes the bits as it changes the rights (permissions.c:63-116).
LEMMA ModifyInv ==
  ASSUME RightsInv, NEW who, NEW op, NEW perms, Rights!modify_permissions(who, op, perms)
  PROVE  RightsInv'
<1> DEFINE bits == Rights!bit(who, perms)
           rights == Rights!Whom(who) \X perms
<1>1. CASE UNCHANGED <<mode, meant>>
  BY <1>1 DEF RightsInv, Means
<1>2. ASSUME perms \in SUBSET Rights!Perms, who \in {"a", "u", "g", "o"}, op \in {"+", "-", "="},
             mode' = CASE op = "+" -> mode \union bits
                       [] op = "-" -> mode \ bits
                       [] op = "=" -> (mode \ Rights!cleared(who)) \union bits,
             meant' = CASE op = "+" -> meant \union rights
                        [] op = "-" -> meant \ rights
                        [] op = "=" -> (meant \ (Rights!Whom(who) \X Rights!Perms)) \union rights
      PROVE  RightsInv'
  <2>1. bits \subseteq 0..8
    BY <1>2, BitMeans DEF Rights!Users, Rights!Perms
  <2>2. ASSUME NEW u \in Rights!Users, NEW p \in Rights!Perms
        PROVE  /\ Rights!S_I(u, p) \in bits <=> u \in Rights!Whom(who) /\ p \in perms
               /\ <<u, p>> \in rights <=> u \in Rights!Whom(who) /\ p \in perms
               /\ Rights!S_I(u, p) \in mode <=> <<u, p>> \in meant
               /\ <<u, p>> \in Rights!Whom(who) \X Rights!Perms <=> u \in Rights!Whom(who)
               /\ Rights!S_I(u, p) \in mode =>
                    (Rights!S_I(u, p) \in Rights!cleared(who) <=> u \in Rights!Whom(who))
    <3>1. Rights!S_I(u, p) \in bits <=> u \in Rights!Whom(who) /\ p \in perms
      BY <1>2, BitMeans
    <3>2. CASE who = "a"
      BY <3>1, <3>2 DEF Rights!cleared, Rights!Whom, RightsInv, Means
    <3>3. CASE who # "a"
      <4>1. who \in Rights!Users /\ Rights!Whom(who) = {who}
        BY <1>2, <3>3 DEF Rights!Users, Rights!Whom
      <4>2. Rights!S_I(u, p) \in Rights!S_IRWX(who) <=> u = who
        BY <4>1, BitsDiffer DEF Rights!S_IRWX
      <4> QED
        BY <3>1, <3>3, <4>1, <4>2 DEF Rights!cleared, RightsInv, Means
    <3> QED
      BY <3>2, <3>3
  <2> HIDE DEF bits, rights
  <2>3. mode' \subseteq AllBits
    BY <1>2, <2>1 DEF RightsInv, AllBits
  <2>4. ASSUME NEW u \in Rights!Users, NEW p \in Rights!Perms
        PROVE  Rights!S_I(u, p) \in mode' <=> <<u, p>> \in meant'
    <3>1. CASE op = "+"
      BY <1>2, <2>2, <3>1
    <3>2. CASE op = "-"
      BY <1>2, <2>2, <3>2
    <3>3. CASE op = "="
      BY <1>2, <2>2, <3>3
    <3> QED
      BY <1>2, <3>1, <3>2, <3>3
  <2> QED
    BY <2>3, <2>4 DEF RightsInv, Means
<1> QED
  BY <1>1, <1>2 DEF Rights!modify_permissions

\* Every step keeps the invariant.
LEMMA RightsNext ==
  ASSUME RightsInv, [Rights!Next]_permVars
  PROVE  RightsInv'
<1>1. ASSUME NEW bits \in Files, Rights!get_file_permissions(bits) PROVE RightsInv'
  <2>1. /\ mode' = bits \union {Rights!FileType}
        /\ meant' = {r \in Rights!Users \X Rights!Perms : Rights!S_I(r[1], r[2]) \in bits}
    BY <1>1 DEF Rights!get_file_permissions, Rights!Entered
  <2>2. bits \subseteq 0..8
    BY RightsAssumption
  <2>3. ASSUME NEW who \in Rights!Users, NEW perm \in Rights!Perms
        PROVE  Rights!S_I(who, perm) \in mode' <=> <<who, perm>> \in meant'
    <3>1. Rights!S_I(who, perm) # Rights!FileType
      BY BitsDiffer DEF Rights!FileType
    <3> QED
      BY <2>1, <3>1
  <2> QED
    BY <2>1, <2>2, <2>3 DEF RightsInv, Means, AllBits
<1>2. CASE UNCHANGED <<mode, meant>>
  BY <1>2 DEF RightsInv, Means
<1> QED
  BY <1>1, <1>2, NumericInv, SymbolicInv, ModifyInv
     DEF Rights!Next, Rights!EnterWrong, Rights!NoSuchFile, Rights!Exit, permVars

\* The nine bits are the rights the user means, and what is printed, in letters or
\* in digits, is the same rights when it is entered again.
LEMMA MeantShown ==
  ASSUME RightsInv
  PROVE  RightsAreMeant
<1>1. \A who \in Rights!Users, perm \in Rights!Perms :
        Rights!S_I(who, perm) \in mode <=> <<who, perm>> \in meant
  BY DEF RightsInv, Means
<1>2. mode \subseteq 0..8 \union {Rights!FileType}
  BY DEF RightsInv, AllBits
<1>3. Rights!parse_symbolic_permissions(Rights!LettersShown) = mode \ {Rights!FileType}
  <2> DEFINE bits == Rights!parse_symbolic_permissions(Rights!LettersShown)
  <2>1. /\ bits \subseteq 0..8
        /\ \A b \in 0..8 : b \in bits <=> Rights!LettersShown[9 - b] = Rights!Letter(9 - b)
    BY SymbolicMeans
  <2> HIDE DEF bits
  <2>2. ASSUME NEW b \in 0..8 PROVE b \in bits <=> b \in mode
    <3>1. 9 - b \in 1..9 /\ 9 - (9 - b) = b
      OBVIOUS
    <3>2. Rights!LettersShown[9 - b] = IF b \in mode THEN Rights!Letter(9 - b) ELSE "-"
      BY <3>1 DEF Rights!LettersShown
    <3>3. \A i \in 1..9 : Rights!Letter(i) # "-"
      <4>1. \A i \in 1..9 : \/ i = 1 \/ i = 2 \/ i = 3 \/ i = 4 \/ i = 5
                            \/ i = 6 \/ i = 7 \/ i = 8 \/ i = 9
        OBVIOUS
      <4> QED
        BY <4>1, Letter9
    <3> QED
      BY <2>1, <3>1, <3>2, <3>3
  <2>3. Rights!FileType \notin 0..8
    BY DEF Rights!FileType
  <2> QED
    BY <1>2, <2>1, <2>2, <2>3 DEF bits
<1>4. Rights!parse_numeric_permissions(
        <<Rights!DigitShown("u"), Rights!DigitShown("g"), Rights!DigitShown("o")>>)
          = mode \ {Rights!FileType}
  <2> DEFINE d == <<Rights!DigitShown("u"), Rights!DigitShown("g"), Rights!DigitShown("o")>>
             bits == Rights!parse_numeric_permissions(d)
  <2>1. ASSUME NEW who \in Rights!Users
        PROVE  LET k == Rights!DigitShown(who)
               IN /\ k \in 0..7
                  /\ 2 \in Rights!BitsOf(k) <=> Rights!S_I(who, "r") \in mode
                  /\ 1 \in Rights!BitsOf(k) <=> Rights!S_I(who, "w") \in mode
                  /\ 0 \in Rights!BitsOf(k) <=> Rights!S_I(who, "x") \in mode
    <3> DEFINE r == IF Rights!S_I(who, "r") \in mode THEN 1 ELSE 0
               w == IF Rights!S_I(who, "w") \in mode THEN 1 ELSE 0
               x == IF Rights!S_I(who, "x") \in mode THEN 1 ELSE 0
    <3>1. Rights!DigitShown(who) = 4 * r + 2 * w + x
      BY DEF Rights!DigitShown
    <3>2. r \in {0, 1} /\ w \in {0, 1} /\ x \in {0, 1}
      OBVIOUS
    <3>3. /\ r = 1 <=> Rights!S_I(who, "r") \in mode
          /\ w = 1 <=> Rights!S_I(who, "w") \in mode
          /\ x = 1 <=> Rights!S_I(who, "x") \in mode
      OBVIOUS
    <3> HIDE DEF r, w, x
    <3>4. LET k == 4 * r + 2 * w + x
          IN /\ k \in 0..7 /\ (k >= 4 <=> r = 1) /\ (k % 4 >= 2 <=> w = 1) /\ (k % 2 = 1 <=> x = 1)
      BY <3>2
    <3> QED
      BY <3>1, <3>3, <3>4, DigitBits
  <2>2. d[1] = Rights!DigitShown("u") /\ d[2] = Rights!DigitShown("g")
        /\ d[3] = Rights!DigitShown("o")
    OBVIOUS
  <2>3. \A i \in 1..3 : d[i] \in 0..7
    BY <2>1, <2>2 DEF Rights!Users
  <2> HIDE DEF d
  <2>4. /\ bits \subseteq 0..8
        /\ \A b \in 0..2 : /\ b + 6 \in bits <=> b \in Rights!BitsOf(d[1])
                           /\ b + 3 \in bits <=> b \in Rights!BitsOf(d[2])
                           /\ b \in bits <=> b \in Rights!BitsOf(d[3])
    BY <2>3, NumericMeans
  <2> HIDE DEF bits
  <2>5. /\ 2 \in Rights!BitsOf(d[1]) <=> 8 \in mode
        /\ 1 \in Rights!BitsOf(d[1]) <=> 7 \in mode
        /\ 0 \in Rights!BitsOf(d[1]) <=> 6 \in mode
    BY <2>1, <2>2, BitNumbers, Zenon DEF Rights!Users
  <2>6. /\ 2 \in Rights!BitsOf(d[2]) <=> 5 \in mode
        /\ 1 \in Rights!BitsOf(d[2]) <=> 4 \in mode
        /\ 0 \in Rights!BitsOf(d[2]) <=> 3 \in mode
    BY <2>1, <2>2, BitNumbers, Zenon DEF Rights!Users
  <2>7. /\ 2 \in Rights!BitsOf(d[3]) <=> 2 \in mode
        /\ 1 \in Rights!BitsOf(d[3]) <=> 1 \in mode
        /\ 0 \in Rights!BitsOf(d[3]) <=> 0 \in mode
    BY <2>1, <2>2, BitNumbers, Zenon DEF Rights!Users
  <2>8. /\ 2 + 6 = 8 /\ 1 + 6 = 7 /\ 0 + 6 = 6 /\ 2 + 3 = 5 /\ 1 + 3 = 4 /\ 0 + 3 = 3
        /\ 0 \in 0..2 /\ 1 \in 0..2 /\ 2 \in 0..2
    OBVIOUS
  <2>9. /\ (8 \in bits <=> 8 \in mode) /\ (7 \in bits <=> 7 \in mode)
        /\ (6 \in bits <=> 6 \in mode) /\ (5 \in bits <=> 5 \in mode)
        /\ (4 \in bits <=> 4 \in mode) /\ (3 \in bits <=> 3 \in mode)
        /\ (2 \in bits <=> 2 \in mode) /\ (1 \in bits <=> 1 \in mode)
        /\ (0 \in bits <=> 0 \in mode)
    BY <2>4, <2>5, <2>6, <2>7, <2>8, Zenon
  <2>10. \A b \in 0..8 : b \in bits <=> b \in mode
    BY <2>9
  <2>11. Rights!FileType \notin 0..8
    BY DEF Rights!FileType
  <2>12. bits = mode \ {Rights!FileType}
    BY <1>2, <2>4, <2>10, <2>11
  <2> QED
    BY <2>12 DEF bits, d
<1> QED
  BY <1>1, <1>2, <1>3, <1>4 DEF RightsAreMeant, Rights!RightsAreMeant

-----------------------------------------------------------------------------
(* The priority queue of module2/task3/4.2: one chain in the order of      *)
(* priorities, whatever was taken out of it.                               *)

\* A set of numbers that is not empty has a least one.
LEMMA LeastOf ==
  ASSUME NEW T \in SUBSET Nat, T # {}
  PROVE  \E m \in T : \A k \in T : m <= k
<1> DEFINE R == OpToRel(<, Nat)
<1>1. \E m \in T : \A k \in T : ~ (<<k, m>> \in R)
  BY NatLessThanWellFounded, WFMin
<1>2. \A k, m \in Nat : k < m => <<k, m>> \in R
  BY DEF OpToRel
<1> HIDE DEF R
<1>3. PICK m \in T : \A k \in T : ~ (<<k, m>> \in R)
  BY <1>1
<1>4. ASSUME NEW k \in T PROVE m <= k
  <2>1. k \in Nat /\ m \in Nat /\ ~ (<<k, m>> \in R)
    BY <1>3
  <2>2. ~ (k < m)
    BY <1>2, <2>1, Zenon
  <2> QED
    BY <2>1, <2>2
<1> QED
  BY <1>4

\* The place i of a chain, or of the NULL behind its end.
At(c, i) == IF i \in 1..Len(c) THEN c[i] ELSE Queue!NULL

\* The nodes of c, each once, are those of the links, which lead from one to the
\* next and from the last to NULL.
Chained(links, c) ==
  /\ c \in Seq(Nat)
  /\ \A i, j \in 1..Len(c) : c[i] = c[j] => i = j
  /\ DOMAIN links = {c[i] : i \in 1..Len(c)}
  /\ \A i \in 1..Len(c) : links[c[i]] = At(c, i + 1)

\* What Walk looks up is a solution of its equation, when there is one.
LEMMA WalkDef ==
  ASSUME NEW links, NEW p,
         \E g : g = [q \in DOMAIN links \union {Queue!NULL} |->
                       IF q = Queue!NULL THEN << >> ELSE <<q>> \o g[links[q]]]
  PROVE  \E g : /\ g = [q \in DOMAIN links \union {Queue!NULL} |->
                          IF q = Queue!NULL THEN << >> ELSE <<q>> \o g[links[q]]]
                /\ Queue!Walk(links, p) = g[p]
<1> DEFINE g == CHOOSE g : g = [q \in DOMAIN links \union {Queue!NULL} |->
                                  IF q = Queue!NULL THEN << >> ELSE <<q>> \o g[links[q]]]
<1>1. g = [q \in DOMAIN links \union {Queue!NULL} |->
             IF q = Queue!NULL THEN << >> ELSE <<q>> \o g[links[q]]]
  BY Zenon
<1>2. Queue!Walk(links, p) = g[p]
  BY Zenon DEF Queue!Walk
<1> HIDE DEF g
<1> QED
  BY <1>1, <1>2, Zenon

\* The same of FirstIn.
Finds(g, links, S) ==
  g = [q \in DOMAIN links \union {Queue!NULL} |->
         IF q = Queue!NULL \/ q \in S THEN q ELSE g[links[q]]]

\* FirstIn is the value of the function its definition picks, once there is one.
LEMMA FirstInDef ==
  ASSUME NEW links, NEW p, NEW S, \E g : Finds(g, links, S)
  PROVE  \E g : Finds(g, links, S) /\ Queue!FirstIn(links, p, S) = g[p]
<1> DEFINE g == CHOOSE g : Finds(g, links, S)
<1>1. Finds(g, links, S)
  BY Zenon
<1>2. Queue!FirstIn(links, p, S) = g[p]
  BY Zenon DEF Queue!FirstIn, Finds
<1> HIDE DEF g
<1> QED
  BY <1>1, <1>2, Zenon

\* Along a chain, Walk meets it all.
LEMMA WalksTheChain ==
  ASSUME NEW links, NEW c, Chained(links, c)
  PROVE  Queue!Walk(links, At(c, 1)) = c
<1> DEFINE NULL == Queue!NULL
           n == Len(c)
           Nodes == {c[i] : i \in 1..n}
           F == [q \in Nodes \union {NULL} |->
                   IF q = NULL THEN << >> ELSE SubSeq(c, CHOOSE i \in 1..n : c[i] = q, n)]
<1>1. /\ c \in Seq(Nat) /\ n \in Nat /\ DOMAIN links = Nodes
      /\ \A i, j \in 1..n : c[i] = c[j] => i = j
      /\ \A i \in 1..n : links[c[i]] = At(c, i + 1)
  BY DEF Chained
<1>2. NULL \notin Nodes
  BY <1>1 DEF Queue!NULL
<1>3. \A i \in 1..n : F[c[i]] = SubSeq(c, i, n)
  <2> TAKE i \in 1..n
  <2>1. (CHOOSE j \in 1..n : c[j] = c[i]) = i
    BY <1>1
  <2>2. c[i] \in Nodes /\ c[i] # NULL
    BY <1>2
  <2> QED
    BY <2>1, <2>2
<1>4. \A i \in 1..n : SubSeq(c, i, n) = <<c[i]>> \o (IF i = n THEN << >> ELSE SubSeq(c, i + 1, n))
  <2> TAKE i \in 1..n
  <2>0. i \in 1..Len(c) /\ n \in i..Len(c) /\ c \in Seq(Nat)
    BY <1>1
  <2>1. SubSeq(c, i, n) = <<c[i]>> \o SubSeq(c, i + 1, n)
    BY <2>0, SubSeqRecursiveFirst, Zenon
  <2>2. i = n => SubSeq(c, i + 1, n) = << >>
    BY <1>1, SubSeqEmpty
  <2> QED
    BY <2>1, <2>2
<1>5. F[NULL] = << >>
  OBVIOUS
<1>6. \A i \in 1..n : F[c[i]] = <<c[i]>> \o F[links[c[i]]]
  <2> TAKE i \in 1..n
  <2> HIDE DEF F
  <2>1. CASE i = n
    <3>1. links[c[i]] = NULL
      BY <1>1, <2>1 DEF At
    <3> QED
      BY <1>3, <1>4, <1>5, <2>1, <3>1
  <2>2. CASE i # n
    <3>1. links[c[i]] = c[i + 1] /\ i + 1 \in 1..n
      BY <1>1, <2>2 DEF At
    <3> QED
      BY <1>3, <1>4, <2>2, <3>1
  <2> QED
    BY <2>1, <2>2
<1>7. F = [q \in DOMAIN links \union {NULL} |-> IF q = NULL THEN << >> ELSE <<q>> \o F[links[q]]]
  <2> HIDE DEF F
  <2>1. \A q \in Nodes \union {NULL} : F[q] = IF q = NULL THEN << >> ELSE <<q>> \o F[links[q]]
    BY <1>2, <1>5, <1>6
  <2>2. F = [q \in Nodes \union {NULL} |-> F[q]]
    BY DEF F
  <2> QED
    BY <1>1, <2>1, <2>2
<1> HIDE DEF F
<1>8. PICK g : /\ g = [q \in DOMAIN links \union {NULL} |->
                         IF q = NULL THEN << >> ELSE <<q>> \o g[links[q]]]
               /\ Queue!Walk(links, At(c, 1)) = g[At(c, 1)]
  <2>1. \E h : h = [q \in DOMAIN links \union {NULL} |->
                      IF q = NULL THEN << >> ELSE <<q>> \o h[links[q]]]
    BY <1>7, Zenon
  <2> QED
    BY <2>1, WalkDef, Zenon
<1>9. /\ g[NULL] = << >>
      /\ \A i \in 1..n : g[c[i]] = <<c[i]>> \o g[links[c[i]]]
  BY ZenonT(60), <1>1, <1>2, <1>8
<1>10. \A i \in 1..n : g[c[i]] = SubSeq(c, i, n)
  <2> DEFINE bad == {i \in 1..n : g[c[i]] # SubSeq(c, i, n)}
             T == {n - i : i \in bad}
  <2>1. /\ bad \subseteq 1..n
        /\ \A i \in 1..n : i \notin bad => g[c[i]] = SubSeq(c, i, n)
        /\ \A i \in bad : g[c[i]] # SubSeq(c, i, n)
    OBVIOUS
  <2> HIDE DEF bad
  <2> SUFFICES ASSUME bad # {} PROVE FALSE
    BY <2>1
  <2>2. T \in SUBSET Nat /\ T # {}
    <3>1. \A i \in 1..n : n - i \in Nat
      BY <1>1
    <3> QED
      BY <2>1, <3>1
  <2>3. PICK m \in T : \A k \in T : m <= k
    BY <2>2, LeastOf
  <2>4. PICK i \in bad : m = n - i
    BY <2>3
  <2>5. i \in 1..n
    BY <2>1
  <2>6. CASE i = n
    <3>1. links[c[i]] = NULL
      BY <1>1, <2>5, <2>6 DEF At
    <3> QED
      BY <1>4, <1>9, <2>1, <2>5, <2>6, <3>1
  <2>7. CASE i # n
    <3>1. links[c[i]] = c[i + 1] /\ i + 1 \in 1..n
      BY <1>1, <2>5, <2>7 DEF At
    <3>2. i + 1 \notin bad
      <4>1. i + 1 \in bad => n - (i + 1) \in T
        OBVIOUS
      <4> HIDE DEF T
      <4> QED
        BY <1>1, <2>3, <2>4, <2>5, <4>1
    <3>3. g[c[i + 1]] = SubSeq(c, i + 1, n)
      BY <2>1, <3>1, <3>2
    <3> QED
      BY ZenonT(60), <1>4, <1>9, <2>1, <2>5, <2>7, <3>1, <3>3
  <2> QED
    BY <2>6, <2>7
<1>11. CASE n = 0
  <2>1. c = << >> /\ At(c, 1) = NULL
    BY <1>1, <1>11 DEF At
  <2> QED
    BY <1>8, <1>9, <2>1
<1>12. CASE n # 0
  <2>1. At(c, 1) = c[1] /\ 1 \in 1..n
    BY <1>1, <1>12 DEF At
  <2>2. SubSeq(c, 1, n) = c
    BY <1>1
  <2> QED
    BY <1>8, <1>10, <2>1, <2>2
<1> QED
  BY <1>11, <1>12

\* FirstIn finds the first place of a chain that is in S, or the NULL behind it.
LEMMA FindsAlong ==
  ASSUME NEW links, NEW c, NEW S, Chained(links, c)
  PROVE  /\ \E g : Finds(g, links, S)
         /\ \A g : Finds(g, links, S) =>
              \E k \in 1..(Len(c) + 1) :
                /\ g[At(c, 1)] = At(c, k)
                /\ k <= Len(c) => c[k] \in S
                /\ \A i \in 1..(k - 1) : c[i] \notin S
<1> DEFINE NULL == Queue!NULL
           n == Len(c)
           Nodes == {c[i] : i \in 1..n}
           Stops(i) == {j \in i..(n + 1) : j = n + 1 \/ c[j] \in S}
           First(i, k) == k \in Stops(i) /\ \A j \in Stops(i) : k <= j
           f == [i \in 1..(n + 1) |-> CHOOSE k : First(i, k)]
           F == [q \in Nodes \union {NULL} |->
                   IF q = NULL THEN NULL ELSE At(c, f[CHOOSE i \in 1..n : c[i] = q])]
<1>1. /\ c \in Seq(Nat) /\ n \in Nat /\ DOMAIN links = Nodes
      /\ \A i, j \in 1..n : c[i] = c[j] => i = j
      /\ \A i \in 1..n : links[c[i]] = At(c, i + 1)
  BY DEF Chained
<1>2. NULL \notin Nodes
  BY <1>1 DEF Queue!NULL
<1>3. \A i \in 1..(n + 1) : First(i, f[i])
  <2> TAKE i \in 1..(n + 1)
  <2>1. Stops(i) \in SUBSET Nat /\ n + 1 \in Stops(i)
    BY <1>1
  <2> HIDE DEF Stops
  <2>2. \E k : First(i, k)
    BY <2>1, LeastOf
  <2>3. f[i] = CHOOSE k : First(i, k)
    OBVIOUS
  <2> HIDE DEF First, f
  <2> QED
    BY <2>2, <2>3, Zenon
<1>4. \A i \in 1..(n + 1) : /\ f[i] \in i..(n + 1)
                            /\ f[i] <= n => c[f[i]] \in S
                            /\ \A j \in i..(f[i] - 1) : c[j] \notin S
  <2> TAKE i \in 1..(n + 1)
  <2>0. First(i, f[i])
    BY <1>3
  <2> HIDE DEF f
  <2>1. f[i] \in i..(n + 1) /\ (f[i] = n + 1 \/ c[f[i]] \in S)
    BY <2>0
  <2>2. ASSUME NEW j \in i..(f[i] - 1), c[j] \in S PROVE FALSE
    <3>1. j \in i..(n + 1) /\ j < f[i]
      BY <1>1, <2>1
    <3>2. j \in Stops(i)
      BY <2>2, <3>1
    <3>3. f[i] <= j
      BY <2>0, <3>2
    <3> QED
      BY <1>1, <2>1, <3>1, <3>3
  <2> QED
    BY <1>1, <2>1, <2>2
<1>5. f[n + 1] = n + 1
  <2> HIDE DEF f
  <2> QED
    BY <1>1, <1>4
<1>6. \A i \in 1..n : f[i] = IF c[i] \in S THEN i ELSE f[i + 1]
  <2> TAKE i \in 1..n
  <2>1. /\ i \in 1..(n + 1) /\ i + 1 \in 1..(n + 1)
    BY <1>1
  <2>2. /\ f[i] \in i..(n + 1)
        /\ f[i] <= n => c[f[i]] \in S
        /\ \A j \in i..(f[i] - 1) : c[j] \notin S
    BY <1>4, <2>1
  <2>3. /\ f[i + 1] \in (i + 1)..(n + 1)
        /\ f[i + 1] <= n => c[f[i + 1]] \in S
        /\ \A j \in (i + 1)..(f[i + 1] - 1) : c[j] \notin S
    BY <1>4, <2>1
  <2> HIDE DEF f
  <2>4. CASE c[i] \in S
    BY <1>1, <2>2, <2>4
  <2>5. CASE c[i] \notin S
    <3>1. f[i] \in (i + 1)..(n + 1)
      BY <1>1, <2>2, <2>5
    <3>2. ~ (f[i] < f[i + 1])
      BY <1>1, <2>2, <2>3, <3>1
    <3>3. ~ (f[i + 1] < f[i])
      BY SMTT(40), <1>1, <2>2, <2>3, <3>1
    <3> QED
      BY <1>1, <2>3, <2>5, <3>1, <3>2, <3>3
  <2> QED
    BY <2>4, <2>5
<1> HIDE DEF f
<1>7. /\ At(c, n + 1) = NULL
      /\ \A i \in 1..n : At(c, i) = c[i]
  BY <1>1 DEF At
<1>8. \A i \in 1..(n + 1) : F[At(c, i)] = At(c, f[i])
  <2> TAKE i \in 1..(n + 1)
  <2>1. CASE i = n + 1
    BY <1>5, <1>7, <2>1
  <2>2. CASE i \in 1..n
    <3>1. (CHOOSE j \in 1..n : c[j] = c[i]) = i
      BY <1>1, <2>2
    <3>2. c[i] \in Nodes /\ c[i] # NULL /\ At(c, i) = c[i]
      BY <1>2, <1>7, <2>2
    <3> QED
      BY <3>1, <3>2
  <2> QED
    BY <1>1, <2>1, <2>2
<1>9. F = [q \in DOMAIN links \union {NULL} |-> IF q = NULL \/ q \in S THEN q ELSE F[links[q]]]
  <2>1. F[NULL] = NULL
    OBVIOUS
  <2>2. F = [q \in Nodes \union {NULL} |-> F[q]]
    OBVIOUS
  <2> HIDE DEF F
  <2>3. ASSUME NEW i \in 1..n
        PROVE  F[c[i]] = IF c[i] = NULL \/ c[i] \in S THEN c[i] ELSE F[links[c[i]]]
    <3>1. i \in 1..(n + 1) /\ i + 1 \in 1..(n + 1) /\ c[i] # NULL
      BY <1>1, <1>2
    <3>2. F[c[i]] = At(c, f[i]) /\ F[links[c[i]]] = At(c, f[i + 1])
      BY <1>1, <1>7, <1>8, <3>1
    <3> QED
      BY <1>6, <1>7, <3>1, <3>2
  <2>4. \A q \in Nodes \union {NULL} :
          F[q] = IF q = NULL \/ q \in S THEN q ELSE F[links[q]]
    BY <2>1, <2>3
  <2> QED
    BY <1>1, <2>2, <2>4
<1> HIDE DEF F
<1>10. \E g : Finds(g, links, S)
  BY <1>9, Zenon DEF Finds
<1> SUFFICES ASSUME NEW g, Finds(g, links, S)
             PROVE  \E k \in 1..(n + 1) :
                      /\ g[At(c, 1)] = At(c, k)
                      /\ k <= n => c[k] \in S
                      /\ \A i \in 1..(k - 1) : c[i] \notin S
  BY <1>10
<1>11. /\ g[NULL] = NULL
       /\ \A i \in 1..n : g[c[i]] = IF c[i] \in S THEN c[i] ELSE g[At(c, i + 1)]
  <2>1. \A q \in DOMAIN links \union {NULL} : g[q] = IF q = NULL \/ q \in S THEN q ELSE g[links[q]]
    BY Zenon DEF Finds
  <2>2. \A i \in 1..n : c[i] \in DOMAIN links /\ c[i] # NULL
    BY <1>1, <1>2
  <2> QED
    BY <1>1, <2>1, <2>2
<1>12. \A i \in 1..(n + 1) : g[At(c, i)] = At(c, f[i])
  <2> DEFINE bad == {i \in 1..(n + 1) : g[At(c, i)] # At(c, f[i])}
             T == {n + 1 - i : i \in bad}
  <2>1. /\ bad \subseteq 1..(n + 1)
        /\ \A i \in 1..(n + 1) : i \notin bad => g[At(c, i)] = At(c, f[i])
        /\ \A i \in bad : g[At(c, i)] # At(c, f[i])
    OBVIOUS
  <2> HIDE DEF bad
  <2> SUFFICES ASSUME bad # {} PROVE FALSE
    BY <2>1
  <2>2. T \in SUBSET Nat /\ T # {}
    <3>1. \A i \in 1..(n + 1) : n + 1 - i \in Nat
      BY <1>1
    <3> QED
      BY <2>1, <3>1
  <2>3. PICK m \in T : \A k \in T : m <= k
    BY <2>2, LeastOf
  <2>4. PICK i \in bad : m = n + 1 - i
    BY <2>3
  <2>5. i \in 1..(n + 1)
    BY <2>1
  <2>6. CASE i = n + 1
    BY <1>5, <1>7, <1>11, <2>1, <2>6
  <2>7. CASE i # n + 1
    <3>1. i \in 1..n /\ i + 1 \in 1..(n + 1)
      BY <1>1, <2>5, <2>7
    <3>2. i + 1 \notin bad
      <4>1. i + 1 \in bad => n + 1 - (i + 1) \in T
        OBVIOUS
      <4> HIDE DEF T
      <4> QED
        BY <1>1, <2>3, <2>4, <2>5, <4>1
    <3>3. g[At(c, i + 1)] = At(c, f[i + 1])
      BY <2>1, <3>1, <3>2
    <3> QED
      BY <1>6, <1>7, <1>11, <2>1, <3>1, <3>3
  <2> QED
    BY <2>6, <2>7
<1>13. 1 \in 1..(n + 1)
  BY <1>1
<1>14. f[1] \in 1..(n + 1) /\ (f[1] <= n => c[f[1]] \in S) /\ \A i \in 1..(f[1] - 1) : c[i] \notin S
  BY <1>4, <1>13
<1> QED
  BY <1>12, <1>13, <1>14

\* FirstIn finds the first node of S, or NULL behind the end.
LEMMA FindsTheFirst ==
  ASSUME NEW links, NEW c, NEW S, Chained(links, c)
  PROVE  \E k \in 1..(Len(c) + 1) :
           /\ Queue!FirstIn(links, At(c, 1), S) = At(c, k)
           /\ k <= Len(c) => c[k] \in S
           /\ \A i \in 1..(k - 1) : c[i] \notin S
<1>1. \E g : Finds(g, links, S)
  BY FindsAlong
<1>2. PICK g : Finds(g, links, S) /\ Queue!FirstIn(links, At(c, 1), S) = g[At(c, 1)]
  BY <1>1, FirstInDef
<1> QED
  BY SMTT(40), <1>2, FindsAlong

\* What enqueue writes into the links of one direction: from e to what comes
\* after it, a, and from b, if there is one, to e.
Linked(h, f, e, a, b) ==
  /\ DOMAIN h = DOMAIN f \union {e} \union (IF b = Queue!NULL THEN {} ELSE {b})
  /\ \A x \in DOMAIN h : h[x] = IF b # Queue!NULL /\ x = b THEN e
                               ELSE IF x = e THEN a ELSE f[x]

\* Two assignments, and no more.
LEMMA SetLinks ==
  ASSUME NEW f, NEW e, NEW a, NEW b, NEW h,
         h = Queue!Set(Queue!Set(f, Queue!To(e, a)),
                       IF b = Queue!NULL THEN << >> ELSE Queue!To(b, e))
  PROVE  Linked(h, f, e, a, b)
<1> DEFINE h1 == Queue!Set(f, Queue!To(e, a))
           g == IF b = Queue!NULL THEN << >> ELSE Queue!To(b, e)
<1>1. /\ DOMAIN h1 = DOMAIN f \union {e}
      /\ \A x \in DOMAIN h1 : h1[x] = IF x = e THEN a ELSE f[x]
  BY DEF Queue!Set, Queue!To
<1>2. /\ DOMAIN g = IF b = Queue!NULL THEN {} ELSE {b}
      /\ b # Queue!NULL => g[b] = e
  BY DEF Queue!To
<1>3. h = Queue!Set(h1, g)
  OBVIOUS
<1> HIDE DEF h1, g
<1>4. /\ DOMAIN h = DOMAIN h1 \union DOMAIN g
      /\ \A x \in DOMAIN h : h[x] = IF x \in DOMAIN g THEN g[x] ELSE h1[x]
  BY <1>3 DEF Queue!Set
<1> QED
  BY <1>1, <1>2, <1>4 DEF Linked

\* The chain c with e at place k, the rest moved on.
With(c, k, e) ==
  [i \in 1..(Len(c) + 1) |-> IF i < k THEN c[i] ELSE IF i = k THEN e ELSE c[i - 1]]

\* It has the nodes of c and e, each once.
IsWith(d, c, n, k, e) ==
  /\ d \in Seq(Nat) /\ Len(d) = n + 1
  /\ \A i \in 1..(k - 1) : d[i] = c[i]
  /\ d[k] = e
  /\ \A i \in (k + 1)..(n + 1) : d[i] = c[i - 1]
  /\ \A i \in 1..(n + 1) : d[i] = e <=> i = k
  /\ \A i, j \in 1..(n + 1) : d[i] = d[j] => i = j
  /\ {d[i] : i \in 1..(n + 1)} = {c[i] : i \in 1..n} \union {e}

\* What With makes is such a chain.
LEMMA WithAll ==
  ASSUME NEW c \in Seq(Nat), NEW n \in Nat, n = Len(c), NEW e \in Nat, NEW k \in 1..(n + 1),
         NEW d, d = With(c, k, e),
         \A i, j \in 1..n : c[i] = c[j] => i = j,
         \A i \in 1..n : c[i] # e
  PROVE  IsWith(d, c, n, k, e)
<1>1. \A i \in 1..n : c[i] \in Nat
  OBVIOUS
<1>2. d = [i \in 1..(n + 1) |-> IF i < k THEN c[i] ELSE IF i = k THEN e ELSE c[i - 1]]
  BY DEF With
<1>3. \A i \in 1..(n + 1) : (IF i < k THEN c[i] ELSE IF i = k THEN e ELSE c[i - 1]) \in Nat
  BY <1>1
<1>4. d \in [1..(n + 1) -> Nat]
  BY <1>2, <1>3
<1>5. d \in Seq(Nat) /\ Len(d) = n + 1
  BY <1>4
<1>6. \A i \in 1..(k - 1) : i \in 1..n /\ d[i] = c[i]
  BY <1>2
<1>7. d[k] = e
  BY <1>2
<1>8. \A i \in (k + 1)..(n + 1) : i - 1 \in 1..n /\ d[i] = c[i - 1]
  BY <1>2
<1>9. \A i \in 1..(n + 1) : i = k \/ i \in 1..(k - 1) \/ i \in (k + 1)..(n + 1)
  OBVIOUS
<1>10. \A i \in 1..(n + 1) : d[i] = e <=> i = k
  BY <1>6, <1>7, <1>8, <1>9
<1>11. ASSUME NEW i \in 1..(n + 1), NEW j \in 1..(n + 1), d[i] = d[j]
       PROVE  i = j
  <2>1. CASE i = k \/ j = k
    BY <1>10, <1>11, <2>1
  <2>2. CASE i \in 1..(k - 1) /\ j \in 1..(k - 1)
    BY <1>6, <1>11, <2>2
  <2>3. CASE i \in 1..(k - 1) /\ j \in (k + 1)..(n + 1)
    <3>1. c[i] = c[j - 1] /\ i \in 1..n /\ j - 1 \in 1..n
      BY <1>6, <1>8, <1>11, <2>3
    <3>2. i = j - 1
      BY <3>1
    <3> QED
      BY <2>3, <3>2
  <2>4. CASE i \in (k + 1)..(n + 1) /\ j \in 1..(k - 1)
    <3>1. c[i - 1] = c[j] /\ j \in 1..n /\ i - 1 \in 1..n
      BY <1>6, <1>8, <1>11, <2>4
    <3>2. i - 1 = j
      BY <3>1
    <3> QED
      BY <2>4, <3>2
  <2>5. CASE i \in (k + 1)..(n + 1) /\ j \in (k + 1)..(n + 1)
    <3>1. c[i - 1] = c[j - 1] /\ i - 1 \in 1..n /\ j - 1 \in 1..n
      BY <1>8, <1>11, <2>5
    <3>2. i - 1 = j - 1
      BY <3>1
    <3> QED
      BY <3>2
  <2> QED
    BY <1>9, <2>1, <2>2, <2>3, <2>4, <2>5
<1>12. {d[i] : i \in 1..(n + 1)} = {c[i] : i \in 1..n} \union {e}
  <2>1. ASSUME NEW i \in 1..n
        PROVE  c[i] \in {d[j] : j \in 1..(n + 1)}
    <3>1. CASE i < k
      <4>1. d[i] = c[i] /\ i \in 1..(n + 1)
        BY <1>6, <3>1
      <4> QED
        BY <4>1
    <3>2. CASE ~ (i < k)
      <4>1. i + 1 \in (k + 1)..(n + 1) /\ i + 1 \in 1..(n + 1) /\ i + 1 - 1 = i
        BY <3>2
      <4>2. d[i + 1] = c[i]
        BY <1>8, <4>1
      <4> QED
        BY <4>1, <4>2
    <3> QED
      BY <3>1, <3>2
  <2>2. ASSUME NEW i \in 1..(n + 1)
        PROVE  d[i] \in {c[j] : j \in 1..n} \union {e}
    BY <1>6, <1>7, <1>8, <1>9
  <2>3. e \in {d[i] : i \in 1..(n + 1)}
    BY <1>7
  <2> DEFINE D == {d[i] : i \in 1..(n + 1)}
             C == {c[i] : i \in 1..n}
  <2>4. \A x \in C : x \in D
    BY <2>1
  <2>5. \A x \in D : x \in C \union {e}
    BY <2>2
  <2> HIDE DEF C, D
  <2>6. D = C \union {e}
    BY <2>3, <2>4, <2>5 DEF D
  <2> QED
    BY <2>6 DEF C, D
<1> QED
  BY <1>5, <1>6, <1>7, <1>8, <1>10, <1>11, <1>12 DEF IsWith

\* The links that lead along c lead along it with e at place k, when e leads to
\* what was there and what was before it leads to e.
LEMMA LinksWith ==
  ASSUME NEW links, NEW c \in Seq(Nat), NEW n \in Nat, n = Len(c),
         NEW e \in Nat, NEW k \in 1..(n + 1), NEW d, d = With(c, k, e),
         Chained(links, c), \A i \in 1..n : c[i] # e,
         NEW a, a = At(c, k), NEW b, b = At(c, k - 1),
         NEW h, Linked(h, links, e, a, b)
  PROVE  Chained(h, d)
<1>1. /\ \A i, j \in 1..n : c[i] = c[j] => i = j
      /\ DOMAIN links = {c[i] : i \in 1..n}
  BY DEF Chained
<1>2. \A i \in 1..n : links[c[i]] = At(c, i + 1)
  BY DEF Chained
<1>0. IsWith(d, c, n, k, e)
  BY <1>1, WithAll
<1>3. /\ d \in Seq(Nat) /\ Len(d) = n + 1
      /\ \A i \in 1..(k - 1) : d[i] = c[i]
      /\ d[k] = e
      /\ \A i \in (k + 1)..(n + 1) : d[i] = c[i - 1]
  BY <1>0 DEF IsWith
<1>10. \A i \in k..n : d[i + 1] = c[i]
  <2> TAKE i \in k..n
  <2>1. \A j \in (k + 1)..(n + 1) : d[j] = c[j - 1]
    BY <1>0 DEF IsWith
  <2>2. i + 1 \in (k + 1)..(n + 1) /\ i + 1 - 1 = i
    OBVIOUS
  <2> QED
    BY <2>1, <2>2
<1>4. /\ \A i \in 1..(n + 1) : d[i] = e <=> i = k
      /\ \A i, j \in 1..(n + 1) : d[i] = d[j] => i = j
  BY <1>0 DEF IsWith
<1>5. /\ k - 1 \in 1..n => b = d[k - 1] /\ b \in DOMAIN links /\ b # Queue!NULL
      /\ k = 1 => b = Queue!NULL
  <2>1. k = 1 => b = Queue!NULL
    BY DEF At
  <2>2. ASSUME k - 1 \in 1..n
        PROVE  b = d[k - 1] /\ b \in DOMAIN links /\ b # Queue!NULL
    <3>1. k - 1 \in 1..(k - 1) /\ b = c[k - 1]
      BY <2>2 DEF At
    <3>2. c[k - 1] # Queue!NULL
      BY <2>2 DEF Queue!NULL
    <3> QED
      BY <1>1, <1>3, <2>2, <3>1, <3>2
  <2> QED
    BY <2>1, <2>2
<1>6. DOMAIN h = {d[i] : i \in 1..(n + 1)}
  <2>1. b = Queue!NULL \/ b \in DOMAIN links
    BY <1>5
  <2>2. DOMAIN h = DOMAIN links \union {e}
    BY <2>1 DEF Linked
  <2> QED
    BY <1>0, <1>1, <2>2 DEF IsWith
<1>7. ASSUME NEW i \in 1..(n + 1)
      PROVE  h[d[i]] = At(d, i + 1)
  <2>1. h[d[i]] = IF b # Queue!NULL /\ d[i] = b THEN e ELSE IF d[i] = e THEN a ELSE links[d[i]]
    BY <1>6 DEF Linked
  <2>2. (b # Queue!NULL /\ d[i] = b) <=> i = k - 1
    <3>1. CASE k = 1
      BY <1>5, <3>1
    <3>2. CASE k # 1
      <4>1. k - 1 \in 1..n /\ k - 1 \in 1..(n + 1)
        BY <3>2
      <4>2. b # Queue!NULL /\ b = d[k - 1]
        BY <1>5, <4>1
      <4> QED
        BY <1>4, <4>1, <4>2
    <3> QED
      BY <3>1, <3>2
  <2>3. CASE i = k - 1
    BY <1>3, <2>1, <2>2, <2>3 DEF At
  <2>4. CASE i = k
    <3>1. h[d[i]] = a
      BY <1>4, <2>1, <2>2, <2>4
    <3>2. At(d, k + 1) = At(c, k)
      <4>1. CASE k = n + 1
        BY <1>3, <4>1 DEF At
      <4>2. CASE k # n + 1
        <5>1. k + 1 \in (k + 1)..(n + 1) /\ k + 1 \in 1..(n + 1) /\ k \in 1..n /\ k + 1 - 1 = k
          BY <4>2
        <5>2. d[k + 1] = c[k]
          BY <1>10, <5>1
        <5> QED
          BY <1>3, <5>1, <5>2 DEF At
      <4> QED
        BY <4>1, <4>2
    <3> QED
      BY <2>4, <3>1, <3>2
  <2>5. CASE i < k - 1
    <3>1. h[d[i]] = links[d[i]]
      BY <1>4, <2>1, <2>2, <2>5
    <3>2. d[i] = c[i] /\ i \in 1..n /\ i + 1 \in 1..n /\ d[i + 1] = c[i + 1]
      BY SMTT(40), <1>3, <2>5
    <3>3. At(d, i + 1) = At(c, i + 1)
      BY <1>3, <3>2 DEF At
    <3> QED
      BY <1>2, <3>1, <3>2, <3>3
  <2>6. CASE i > k
    <3>1. h[d[i]] = links[d[i]]
      BY <1>4, <2>1, <2>2, <2>6
    <3>2. d[i] = c[i - 1] /\ i - 1 \in 1..n
      BY <1>3, <2>6
    <3>3. At(d, i + 1) = At(c, i)
      <4>1. CASE i = n + 1
        BY <1>3, <4>1 DEF At
      <4>2. CASE i # n + 1
        <5>1. i + 1 \in (k + 1)..(n + 1) /\ i + 1 \in 1..(n + 1) /\ i \in 1..n /\ i + 1 - 1 = i
          BY <2>6, <4>2
        <5>2. d[i + 1] = c[i]
          BY <1>10, <5>1
        <5> QED
          BY <1>3, <5>1, <5>2 DEF At
      <4> QED
        BY <4>1, <4>2
    <3>4. links[c[i - 1]] = At(c, i)
      <4>1. PICK j \in 1..n : j = i - 1
        BY <3>2
      <4>2. links[c[j]] = At(c, j + 1) /\ j + 1 = i
        BY SMTT(40), <1>2, <4>1
      <4> QED
        BY <4>1, <4>2
    <3> QED
      BY <3>1, <3>2, <3>3, <3>4
  <2> QED
    BY <2>3, <2>4, <2>5, <2>6
<1> QED
  BY <1>3, <1>4, <1>6, <1>7 DEF Chained

\* The chain c without place k.
Without(c, k) == [i \in 1..(Len(c) - 1) |-> IF i < k THEN c[i] ELSE c[i + 1]]

\* It has the other nodes of c, each once.
IsWithout(d, c, n, k) ==
  /\ d \in Seq(Nat) /\ Len(d) = n - 1
  /\ \A i \in 1..(k - 1) : d[i] = c[i]
  /\ \A i \in k..(n - 1) : d[i] = c[i + 1]
  /\ \A i, j \in 1..(n - 1) : d[i] = d[j] => i = j
  /\ {d[i] : i \in 1..(n - 1)} = {c[i] : i \in 1..n} \ {c[k]}

\* What Without leaves is such a chain.
LEMMA WithoutOne ==
  ASSUME NEW c \in Seq(Nat), NEW n \in Nat, n = Len(c), NEW k \in 1..n,
         NEW d, d = Without(c, k),
         \A i, j \in 1..n : c[i] = c[j] => i = j
  PROVE  IsWithout(d, c, n, k)
<1>1. \A i \in 1..n : c[i] \in Nat
  OBVIOUS
<1>2. d = [i \in 1..(n - 1) |-> IF i < k THEN c[i] ELSE c[i + 1]]
  BY DEF Without
<1>3. \A i \in 1..(n - 1) : (IF i < k THEN c[i] ELSE c[i + 1]) \in Nat
  BY <1>1
<1>4. d \in [1..(n - 1) -> Nat]
  BY <1>2, <1>3
<1>5. d \in Seq(Nat) /\ Len(d) = n - 1
  BY SMTT(40), <1>4
<1>6. \A i \in 1..(k - 1) : i \in 1..n /\ d[i] = c[i]
  BY <1>2
<1>7. \A i \in k..(n - 1) : i + 1 \in 1..n /\ d[i] = c[i + 1]
  BY <1>2
<1>8. \A i \in 1..(n - 1) : i \in 1..(k - 1) \/ i \in k..(n - 1)
  OBVIOUS
<1>9. ASSUME NEW i \in 1..(n - 1), NEW j \in 1..(n - 1), d[i] = d[j]
      PROVE  i = j
  <2>1. CASE i \in 1..(k - 1) /\ j \in 1..(k - 1)
    BY <1>6, <1>9, <2>1
  <2>2. CASE i \in 1..(k - 1) /\ j \in k..(n - 1)
    <3>1. c[i] = c[j + 1] /\ i \in 1..n /\ j + 1 \in 1..n
      BY <1>6, <1>7, <1>9, <2>2
    <3>2. i = j + 1
      BY <3>1
    <3> QED
      BY <2>2, <3>2
  <2>3. CASE i \in k..(n - 1) /\ j \in 1..(k - 1)
    <3>1. c[i + 1] = c[j] /\ j \in 1..n /\ i + 1 \in 1..n
      BY <1>6, <1>7, <1>9, <2>3
    <3>2. i + 1 = j
      BY <3>1
    <3> QED
      BY <2>3, <3>2
  <2>4. CASE i \in k..(n - 1) /\ j \in k..(n - 1)
    <3>1. c[i + 1] = c[j + 1] /\ i + 1 \in 1..n /\ j + 1 \in 1..n
      BY <1>7, <1>9, <2>4
    <3>2. i + 1 = j + 1
      BY <3>1
    <3> QED
      BY <3>2
  <2> QED
    BY <1>8, <2>1, <2>2, <2>3, <2>4
<1>10. {d[i] : i \in 1..(n - 1)} = {c[i] : i \in 1..n} \ {c[k]}
  <2> DEFINE D == {d[i] : i \in 1..(n - 1)}
             C == {c[i] : i \in 1..n}
  <2>1. ASSUME NEW i \in 1..n, i # k
        PROVE  c[i] \in D
    <3>1. CASE i < k
      <4>1. d[i] = c[i] /\ i \in 1..(n - 1)
        BY <1>6, <3>1
      <4> QED
        BY <4>1
    <3>2. CASE ~ (i < k)
      <4>1. i - 1 \in k..(n - 1) /\ i - 1 \in 1..(n - 1) /\ i - 1 + 1 = i
        BY <2>1, <3>2
      <4>2. d[i - 1] = c[i]
        BY <1>7, <4>1
      <4> QED
        BY <4>1, <4>2
    <3> QED
      BY <3>1, <3>2
  <2>2. ASSUME NEW i \in 1..(n - 1)
        PROVE  d[i] \in C /\ d[i] # c[k]
    <3>1. CASE i \in 1..(k - 1)
      BY <1>6, <3>1
    <3>2. CASE i \in k..(n - 1)
      <4>1. PICK j \in 1..n : j = i + 1
        BY <1>7, <3>2
      <4>2. d[i] = c[j] /\ j # k
        BY <1>7, <3>2, <4>1
      <4> QED
        BY <4>2
    <3> QED
      BY <1>8, <3>1, <3>2
  <2>3. \A x \in C \ {c[k]} : x \in D
    BY <2>1
  <2>4. \A x \in D : x \in C /\ x # c[k]
    BY <2>2
  <2> HIDE DEF C, D
  <2>5. D = C \ {c[k]}
    BY <2>3, <2>4
  <2> QED
    BY <2>5 DEF C, D
<1> QED
  BY <1>5, <1>6, <1>7, <1>9, <1>10 DEF IsWithout

\* What is left of the links f without e, when b, if there is one, leads to a.
Skipping(h, f, e, a, b) ==
  /\ DOMAIN h = DOMAIN f \ {e}
  /\ \A x \in DOMAIN h : h[x] = IF b # Queue!NULL /\ x = b THEN a ELSE f[x]

\* The links that lead along c lead along it without place k, when what was before
\* it leads to what was behind it.
LEMMA LinksWithout ==
  ASSUME NEW links, NEW c \in Seq(Nat), NEW n \in Nat, n = Len(c),
         NEW k \in 1..n, NEW d, d = Without(c, k), Chained(links, c),
         NEW a, a = At(c, k + 1), NEW b, b = At(c, k - 1),
         NEW h, Skipping(h, links, c[k], a, b)
  PROVE  Chained(h, d)
<1>1. /\ \A i, j \in 1..n : c[i] = c[j] => i = j
      /\ DOMAIN links = {c[i] : i \in 1..n}
  BY DEF Chained
<1>2. \A i \in 1..n : links[c[i]] = At(c, i + 1)
  BY DEF Chained
<1>3. IsWithout(d, c, n, k)
  BY <1>1, WithoutOne
<1>4. /\ d \in Seq(Nat) /\ Len(d) = n - 1
      /\ \A i \in 1..(k - 1) : d[i] = c[i]
      /\ \A i \in k..(n - 1) : d[i] = c[i + 1]
  BY <1>3 DEF IsWithout
<1>5. \A i, j \in 1..(n - 1) : d[i] = d[j] => i = j
  BY <1>3 DEF IsWithout
<1>6. DOMAIN h = {d[i] : i \in 1..(n - 1)}
  BY <1>1, <1>3 DEF IsWithout, Skipping
<1>7. /\ k - 1 \in 1..n => b = c[k - 1] /\ b # Queue!NULL
      /\ k = 1 => b = Queue!NULL
  BY DEF At, Queue!NULL
<1>8. ASSUME NEW i \in 1..(n - 1)
      PROVE  h[d[i]] = At(d, i + 1)
  <2>1. h[d[i]] = IF b # Queue!NULL /\ d[i] = b THEN a ELSE links[d[i]]
    BY <1>6 DEF Skipping
  <2>2. CASE i < k - 1
    <3>0. i \in 1..(k - 1) /\ k - 1 \in 1..n /\ i \in 1..n /\ i + 1 \in 1..(k - 1)
      BY <2>2
    <3>1. k - 1 \in 1..n /\ i \in 1..n /\ i + 1 \in 1..(k - 1) /\ d[i] = c[i] /\ i # k - 1
      <4>1. d[i] = c[i]
        BY <1>4, <3>0
      <4>2. i # k - 1
        BY <2>2
      <4> QED
        BY <3>0, <4>1, <4>2
    <3>2. d[i] # b
      BY <1>1, <1>7, <3>1
    <3>3. d[i + 1] = c[i + 1]
      BY <1>4, <3>1
    <3>4. At(d, i + 1) = At(c, i + 1)
      BY <1>4, <3>1, <3>3 DEF At
    <3> QED
      BY <1>2, <2>1, <3>1, <3>2, <3>4
  <2>3. CASE i = k - 1
    <3>1. b = d[i] /\ b # Queue!NULL
      BY <1>4, <1>7, <2>3
    <3>2. (k \in k..(n - 1) /\ d[k] = c[k + 1]) \/ k = n
      <4>1. k \in k..(n - 1) \/ k = n
        OBVIOUS
      <4> QED
        BY <1>4, <4>1
    <3>3. At(d, k) = At(c, k + 1)
      BY <1>4, <3>2 DEF At
    <3> QED
      BY <2>1, <2>3, <3>1, <3>3
  <2>4. CASE i >= k
    <3>1. PICK j \in 1..n : j = i + 1
      OBVIOUS
    <3>2. d[i] = c[j] /\ j # k - 1
      <4>1. i \in k..(n - 1)
        BY <2>4
      <4> QED
        BY SMTT(40), <1>4, <2>4, <3>1, <4>1
    <3>3. ~ (b # Queue!NULL /\ d[i] = b)
      <4>1. CASE k = 1
        BY <1>7, <4>1
      <4>2. CASE k # 1
        <5>1. k - 1 \in 1..n
          BY <4>2
        <5> QED
          BY <1>1, <1>7, <3>2, <5>1
      <4> QED
        BY <4>1, <4>2
    <3>4. (j \in k..(n - 1) /\ d[j] = c[j + 1]) \/ j = n
      <4>1. j \in k..(n - 1) \/ j = n
        BY <2>4, <3>1
      <4> QED
        BY <1>4, <4>1
    <3>5. At(d, j) = At(c, j + 1)
      BY <1>4, <2>4, <3>1, <3>4 DEF At
    <3> QED
      BY <1>2, <2>1, <3>1, <3>2, <3>3, <3>5
  <2> QED
    BY <2>2, <2>3, <2>4
<1> QED
  BY <1>4, <1>5, <1>6, <1>8 DEF Chained

\* The chain the other way.
LEMMA Backwards ==
  ASSUME NEW c \in Seq(Nat), NEW n \in Nat, n = Len(c)
  PROVE  /\ Queue!Reverse(c) \in Seq(Nat) /\ Len(Queue!Reverse(c)) = n
         /\ \A i \in 1..n : Queue!Reverse(c)[i] = c[n - i + 1]
         /\ \A i \in 0..(n + 1) : At(Queue!Reverse(c), i) = At(c, n - i + 1)
<1> DEFINE r == Queue!Reverse(c)
<1>1. r = [i \in 1..n |-> c[n - i + 1]]
  BY DEF Queue!Reverse
<1>2. \A i \in 1..n : n - i + 1 \in 1..n /\ c[n - i + 1] \in Nat
  OBVIOUS
<1> HIDE DEF r
<1>3. r \in [1..n -> Nat] /\ \A i \in 1..n : r[i] = c[n - i + 1]
  BY <1>1, <1>2
<1>4. r \in Seq(Nat) /\ Len(r) = n
  BY <1>3
<1>5. \A i \in 0..(n + 1) : At(r, i) = At(c, n - i + 1)
  BY <1>3, <1>4 DEF At
<1> QED
  BY <1>3, <1>4, <1>5 DEF r

\* Backwards, the new node counts from the other end.
LEMMA BackwardsWith ==
  ASSUME NEW c \in Seq(Nat), NEW n \in Nat, n = Len(c), NEW e \in Nat, NEW k \in 1..(n + 1)
  PROVE  Queue!Reverse(With(c, k, e)) = With(Queue!Reverse(c), n - k + 2, e)
<1> DEFINE d == With(c, k, e)
           r == Queue!Reverse(c)
<1>1. d = [i \in 1..(n + 1) |-> IF i < k THEN c[i] ELSE IF i = k THEN e ELSE c[i - 1]]
  BY DEF With
<1>2. /\ r \in Seq(Nat) /\ Len(r) = n
      /\ \A i \in 1..n : r[i] = c[n - i + 1]
  BY Backwards
<1> HIDE DEF d, r
<1>3. \A i \in 1..(n + 1) : d[i] \in Nat
  BY <1>1
<1>4. d \in [1..(n + 1) -> Nat]
  BY <1>1, <1>3
<1>5. d \in Seq(Nat) /\ Len(d) = n + 1
  BY <1>4
<1>6. Queue!Reverse(d) = [i \in 1..(n + 1) |-> d[n + 1 - i + 1]]
  BY <1>5 DEF Queue!Reverse
<1>7. With(r, n - k + 2, e) =
        [i \in 1..(n + 1) |-> IF i < n - k + 2 THEN r[i] ELSE IF i = n - k + 2 THEN e ELSE r[i - 1]]
  BY <1>2 DEF With
<1>8. ASSUME NEW i \in 1..(n + 1)
      PROVE  d[n + 1 - i + 1] = IF i < n - k + 2 THEN r[i] ELSE IF i = n - k + 2 THEN e ELSE r[i - 1]
  <2>1. PICK j \in 1..(n + 1) : j = n + 1 - i + 1
    <3>1. n + 1 - i + 1 \in 1..(n + 1)
      OBVIOUS
    <3> QED
      BY <3>1
  <2>2. d[j] = IF j < k THEN c[j] ELSE IF j = k THEN e ELSE c[j - 1]
    BY <1>1
  <2>3. CASE j < k
    <3>1. i > n - k + 2 /\ i - 1 \in 1..n /\ n - (i - 1) + 1 = j
      BY <2>1, <2>3
    <3>2. r[i - 1] = c[j]
      BY <1>2, <3>1
    <3> QED
      BY <2>1, <2>2, <2>3, <3>1, <3>2
  <2>4. CASE j = k
    <3>1. i = n - k + 2
      BY <2>1, <2>4
    <3> QED
      BY <2>1, <2>2, <2>4, <3>1
  <2>5. CASE j > k
    <3>1. i < n - k + 2 /\ i \in 1..n /\ n - i + 1 = j - 1
      BY <2>1, <2>5
    <3>2. r[i] = c[j - 1]
      BY <1>2, <3>1
    <3> QED
      BY <2>1, <2>2, <2>5, <3>1, <3>2
  <2> QED
    BY <2>3, <2>4, <2>5
<1> QED
  BY <1>6, <1>7, <1>8 DEF d, r

\* So does the one that is gone.
LEMMA BackwardsWithout ==
  ASSUME NEW c \in Seq(Nat), NEW n \in Nat, n = Len(c), NEW k \in 1..n
  PROVE  Queue!Reverse(Without(c, k)) = Without(Queue!Reverse(c), n - k + 1)
<1> DEFINE d == Without(c, k)
           r == Queue!Reverse(c)
<1>1. d = [i \in 1..(n - 1) |-> IF i < k THEN c[i] ELSE c[i + 1]]
  BY DEF Without
<1>2. /\ r \in Seq(Nat) /\ Len(r) = n
      /\ \A i \in 1..n : r[i] = c[n - i + 1]
  BY Backwards
<1> HIDE DEF d, r
<1>3. \A i \in 1..(n - 1) : d[i] \in Nat
  BY <1>1
<1>4. d \in [1..(n - 1) -> Nat]
  BY <1>1, <1>3
<1>5. d \in Seq(Nat) /\ Len(d) = n - 1
  BY <1>4
<1>6. Queue!Reverse(d) = [i \in 1..(n - 1) |-> d[n - 1 - i + 1]]
  BY <1>5 DEF Queue!Reverse
<1>7. Without(r, n - k + 1) = [i \in 1..(n - 1) |-> IF i < n - k + 1 THEN r[i] ELSE r[i + 1]]
  BY <1>2 DEF Without
<1>8. ASSUME NEW i \in 1..(n - 1)
      PROVE  d[n - 1 - i + 1] = IF i < n - k + 1 THEN r[i] ELSE r[i + 1]
  <2>1. PICK j \in 1..(n - 1) : j = n - 1 - i + 1
    <3>1. n - 1 - i + 1 \in 1..(n - 1)
      OBVIOUS
    <3> QED
      BY <3>1
  <2>2. d[j] = IF j < k THEN c[j] ELSE c[j + 1]
    BY <1>1
  <2>3. CASE j < k
    <3>1. ~ (i < n - k + 1) /\ i + 1 \in 1..n /\ n - (i + 1) + 1 = j
      BY <2>1, <2>3
    <3>2. r[i + 1] = c[j]
      BY <1>2, <3>1
    <3> QED
      BY <2>1, <2>2, <2>3, <3>1, <3>2
  <2>4. CASE ~ (j < k)
    <3>1. i < n - k + 1 /\ i \in 1..n /\ n - i + 1 = j + 1
      BY <2>1, <2>4
    <3>2. r[i] = c[j + 1]
      BY <1>2, <3>1
    <3> QED
      BY <2>1, <2>2, <2>4, <3>1, <3>2
  <2> QED
    BY <2>3, <2>4
<1> QED
  BY ZenonT(60), <1>6, <1>7, <1>8 DEF d, r

\* A doubly linked chain: its links in both directions and its two ends.
DoublyLinked(h, t, f, g, c) ==
  /\ Chained(f, c) /\ Chained(g, Queue!Reverse(c))
  /\ h = At(c, 1) /\ t = At(c, Len(c))

\* A node e that is linked in at place k is in the chain there.
LEMMA JoinsTheChain ==
  ASSUME NEW h, NEW t, NEW f, NEW g, NEW c \in Seq(Nat), NEW n \in Nat, n = Len(c),
         DoublyLinked(h, t, f, g, c),
         NEW e \in Nat, NEW k \in 1..(n + 1), \A i \in 1..n : c[i] # e,
         NEW d, d = With(c, k, e), IsWith(d, c, n, k, e),
         NEW a, a = At(c, k), NEW b, b = At(c, k - 1),
         NEW f2, Linked(f2, f, e, a, b), NEW g2, Linked(g2, g, e, b, a),
         NEW h2, h2 = IF b = Queue!NULL THEN e ELSE h,
         NEW t2, t2 = IF a = Queue!NULL THEN e ELSE t
  PROVE  DoublyLinked(h2, t2, f2, g2, d)
<1>1. /\ Chained(f, c) /\ Chained(g, Queue!Reverse(c))
      /\ h = At(c, 1) /\ t = At(c, n)
  BY DEF DoublyLinked
<1>2. /\ d \in Seq(Nat) /\ Len(d) = n + 1
      /\ \A i \in 1..(k - 1) : d[i] = c[i]
      /\ d[k] = e
      /\ \A i \in (k + 1)..(n + 1) : d[i] = c[i - 1]
  BY DEF IsWith
<1>3. Chained(f2, d)
  BY <1>1, LinksWith
<1>4. Chained(g2, Queue!Reverse(d))
  <2>1. PICK r \in Seq(Nat) : r = Queue!Reverse(c)
    BY Backwards
  <2>2. PICK m \in 1..(n + 1) : m = n - k + 2
    <3>1. n - k + 2 \in 1..(n + 1)
      OBVIOUS
    <3> QED
      BY <3>1
  <2>3. /\ Len(r) = n
        /\ \A i \in 1..n : r[i] = c[n - i + 1]
        /\ \A i \in 0..(n + 1) : At(r, i) = At(c, n - i + 1)
    BY <2>1, Backwards
  <2>4. a = At(r, m - 1) /\ b = At(r, m)
    <3>1. m - 1 \in 0..(n + 1) /\ m \in 0..(n + 1) /\ n - (m - 1) + 1 = k /\ n - m + 1 = k - 1
      BY <2>2
    <3> QED
      BY <2>3, <3>1
  <2>5. \A i \in 1..n : r[i] # e
    <3>1. \A i \in 1..n : n - i + 1 \in 1..n
      OBVIOUS
    <3> QED
      BY <2>3, <3>1
  <2>6. Queue!Reverse(d) = With(r, m, e)
    BY <2>1, <2>2, BackwardsWith
  <2>7. PICK s : s = Queue!Reverse(d)
    OBVIOUS
  <2>8. n = Len(r) /\ s = With(r, m, e)
    BY <2>3, <2>6, <2>7
  <2>9. Chained(g2, s)
    BY <1>1, <2>1, <2>4, <2>5, <2>8, LinksWith
  <2> QED
    BY <2>7, <2>9
<1>5. h2 = At(d, 1)
  <2>1. CASE k = 1
    <3>1. b = Queue!NULL
      BY <2>1 DEF At
    <3> QED
      BY <1>2, <2>1, <3>1 DEF At
  <2>2. CASE k # 1
    <3>1. 1 \in 1..(k - 1) /\ k - 1 \in 1..n /\ 1 \in 1..n /\ 1 \in 1..(n + 1)
      BY <2>2
    <3>2. b # Queue!NULL
      BY <3>1 DEF At, Queue!NULL
    <3>3. d[1] = c[1]
      BY <1>2, <3>1
    <3> QED
      BY <1>1, <1>2, <3>1, <3>2, <3>3 DEF At
  <2> QED
    BY <2>1, <2>2
<1>6. t2 = At(d, n + 1)
  <2>1. CASE k = n + 1
    <3>1. a = Queue!NULL
      BY <2>1 DEF At
    <3> QED
      BY <1>2, <2>1, <3>1 DEF At
  <2>2. CASE k # n + 1
    <3>1. n + 1 \in (k + 1)..(n + 1) /\ n + 1 - 1 = n /\ k \in 1..n /\ n \in 1..n
      BY <2>2
    <3>2. a # Queue!NULL
      BY <3>1 DEF At, Queue!NULL
    <3>3. d[n + 1] = c[n]
      BY SMTT(40), <1>2, <3>1
    <3> QED
      BY <1>1, <1>2, <3>1, <3>2, <3>3 DEF At
  <2> QED
    BY <2>1, <2>2
<1> QED
  BY <1>2, <1>3, <1>4, <1>5, <1>6 DEF DoublyLinked

\* A node that the links skip has left the chain.
LEMMA LeavesTheChain ==
  ASSUME NEW h, NEW t, NEW f, NEW g, NEW c \in Seq(Nat), NEW n \in Nat, n = Len(c),
         DoublyLinked(h, t, f, g, c),
         NEW k \in 1..n, NEW e, e = At(c, k), NEW d, d = Without(c, k), IsWithout(d, c, n, k),
         NEW a, a = At(c, k + 1), NEW b, b = At(c, k - 1),
         NEW f2, Skipping(f2, f, e, a, b), NEW g2, Skipping(g2, g, e, b, a),
         NEW h2, h2 = IF b = Queue!NULL THEN a ELSE h,
         NEW t2, t2 = IF a = Queue!NULL THEN b ELSE t
  PROVE  DoublyLinked(h2, t2, f2, g2, d)
<1>1. /\ Chained(f, c) /\ Chained(g, Queue!Reverse(c))
      /\ h = At(c, 1) /\ t = At(c, n)
  BY DEF DoublyLinked
<1>0. e = c[k]
  BY DEF At
<1>2. /\ d \in Seq(Nat) /\ Len(d) = n - 1
      /\ \A i \in 1..(k - 1) : d[i] = c[i]
      /\ \A i \in k..(n - 1) : d[i] = c[i + 1]
  BY DEF IsWithout
<1>3. Chained(f2, d)
  <2>1. Skipping(f2, f, c[k], a, b)
    BY <1>0
  <2> QED
    BY <1>1, <2>1, LinksWithout
<1>4. Chained(g2, Queue!Reverse(d))
  <2>1. PICK r \in Seq(Nat) : r = Queue!Reverse(c)
    BY Backwards
  <2>2. PICK m \in 1..n : m = n - k + 1
    <3>1. n - k + 1 \in 1..n
      OBVIOUS
    <3> QED
      BY <3>1
  <2>3. /\ Len(r) = n
        /\ \A i \in 1..n : r[i] = c[n - i + 1]
        /\ \A i \in 0..(n + 1) : At(r, i) = At(c, n - i + 1)
    BY <2>1, Backwards
  <2>4. r[m] = e
    <3>1. n - m + 1 = k
      BY <2>2
    <3> QED
      BY <1>0, <2>3, <3>1
  <2>5. b = At(r, m + 1) /\ a = At(r, m - 1)
    <3>1. /\ m - 1 \in 0..(n + 1) /\ m + 1 \in 0..(n + 1)
          /\ n - (m - 1) + 1 = k + 1 /\ n - (m + 1) + 1 = k - 1
      BY <2>2
    <3> QED
      BY <2>3, <3>1
  <2>6. Queue!Reverse(d) = Without(r, m)
    BY <2>1, <2>2, BackwardsWithout
  <2>7. PICK s : s = Queue!Reverse(d)
    OBVIOUS
  <2>8. Skipping(g2, g, r[m], b, a)
    BY <2>4
  <2>9. n = Len(r) /\ s = Without(r, m) /\ Chained(g, r)
    BY <1>1, <2>1, <2>3, <2>6, <2>7
  <2>10. Chained(g2, s)
    BY <2>5, <2>8, <2>9, LinksWithout
  <2> QED
    BY <2>10, <2>7
<1>5. h2 = At(d, 1)
  <2>1. CASE k = 1
    <3>1. b = Queue!NULL
      BY <2>1 DEF At
    <3>2. CASE n = 1
      BY <1>2, <2>1, <3>1, <3>2 DEF At
    <3>3. CASE n # 1
      <4>1. 1 \in k..(n - 1) /\ 1 \in 1..(n - 1) /\ 2 \in 1..n /\ 1 + 1 = 2 /\ k + 1 = 2
        BY <2>1, <3>3
      <4>2. d[1] = c[2]
        BY <1>2, <4>1
      <4> QED
        BY <1>2, <3>1, <4>1, <4>2 DEF At
    <3> QED
      BY <3>2, <3>3
  <2>2. CASE k # 1
    <3>1. 1 \in 1..(k - 1) /\ 1 \in 1..(n - 1) /\ 1 \in 1..n /\ k - 1 \in 1..n
      BY <2>2
    <3>2. b # Queue!NULL
      BY <3>1 DEF At, Queue!NULL
    <3>3. d[1] = c[1]
      BY <1>2, <3>1
    <3> QED
      BY <1>1, <1>2, <3>1, <3>2, <3>3 DEF At
  <2> QED
    BY <2>1, <2>2
<1>6. t2 = At(d, n - 1)
  <2>1. CASE k = n
    <3>1. a = Queue!NULL
      BY <2>1 DEF At
    <3>2. CASE n = 1
      BY <1>2, <2>1, <3>1, <3>2 DEF At
    <3>3. CASE n # 1
      <4>1. n - 1 \in 1..(k - 1) /\ n - 1 \in 1..(n - 1) /\ n - 1 \in 1..n
        BY <2>1, <3>3
      <4>2. d[n - 1] = c[n - 1]
        BY <1>2, <4>1
      <4> QED
        BY <1>2, <2>1, <3>1, <4>1, <4>2 DEF At
    <3> QED
      BY <3>2, <3>3
  <2>2. CASE k # n
    <3>1. n - 1 \in k..(n - 1) /\ n - 1 \in 1..(n - 1) /\ n - 1 + 1 = n /\ n \in 1..n /\ k + 1 \in 1..n
      BY <2>2
    <3>2. a # Queue!NULL
      BY <3>1 DEF At, Queue!NULL
    <3>3. d[n - 1] = c[n]
      BY <1>2, <3>1
    <3> QED
      BY <1>1, <1>2, <3>1, <3>2, <3>3 DEF At
  <2> QED
    BY <2>1, <2>2
<1> QED
  BY <1>2, <1>3, <1>4, <1>5, <1>6 DEF DoublyLinked

\* The values v of the nodes of c do not fall.
Ascending(v, c) == \A i, j \in 1..Len(c) : i <= j => v[c[i]] <= v[c[j]]

\* Place k of c is one for e when the values are w, as v for the others.
FitsAt(v, w, c, k, e) ==
  /\ w[e] \in Int
  /\ \A i \in 1..Len(c) : v[c[i]] \in Int /\ w[c[i]] = v[c[i]]
  /\ \A i \in 1..(k - 1) : v[c[i]] <= w[e]
  /\ k <= Len(c) => w[e] <= v[c[k]]

\* What is put into a chain of ordered values where it belongs keeps the order.
LEMMA OrderedWith ==
  ASSUME NEW c \in Seq(Nat), NEW n \in Nat, n = Len(c), NEW e \in Nat, NEW k \in 1..(n + 1),
         NEW d, IsWith(d, c, n, k, e), NEW v, NEW w, Ascending(v, c), FitsAt(v, w, c, k, e)
  PROVE  Ascending(w, d)
<1>0. PICK p \in Int : p = w[e]
  BY DEF FitsAt
<1>10. /\ \A i \in 1..n : v[c[i]] \in Int /\ w[c[i]] = v[c[i]]
       /\ \A i, j \in 1..n : i <= j => v[c[i]] <= v[c[j]]
       /\ \A i \in 1..(k - 1) : v[c[i]] <= p
       /\ k <= n => p <= v[c[k]]
  BY <1>0 DEF FitsAt, Ascending
<1>1. /\ \A i \in 1..(k - 1) : d[i] = c[i]
      /\ d[k] = e
      /\ \A i \in (k + 1)..(n + 1) : d[i] = c[i - 1]
  BY DEF IsWith
<1>2. \A i \in k..n : p <= v[c[i]]
  <2> TAKE i \in k..n
  <2>1. i \in 1..n /\ k \in 1..n
    OBVIOUS
  <2>2. p <= v[c[k]] /\ v[c[k]] <= v[c[i]]
    BY <1>10, <2>1
  <2> QED
    BY <1>10, <2>1, <2>2
<1>3. ASSUME NEW i \in 1..(n + 1), NEW j \in 1..(n + 1), i <= j
      PROVE  w[d[i]] <= w[d[j]]
  <2>1. CASE j \in 1..(k - 1)
    <3>1. i \in 1..(k - 1) /\ i \in 1..n /\ j \in 1..n
      BY <1>3, <2>1
    <3> QED
      BY <1>0, <1>1, <1>10, <1>3, <2>1, <3>1
  <2>2. CASE j = k
    <3>1. CASE i = k
      BY <1>0, <1>1, <1>10, <2>2, <3>1
    <3>2. CASE i # k
      <4>1. i \in 1..(k - 1) /\ i \in 1..n
        BY <1>3, <2>2, <3>2
      <4> QED
        BY <1>0, <1>1, <1>10, <2>2, <4>1
    <3> QED
      BY <3>1, <3>2
  <2>3. CASE j \in (k + 1)..(n + 1)
    <3>1. PICK l \in k..n : l = j - 1 /\ d[j] = c[l]
      <4>1. j - 1 \in k..n
        BY <2>3
      <4> QED
        BY <1>0, <1>1, <1>10, <2>3, <4>1
    <3>2. l \in 1..n
      OBVIOUS
    <3>3. CASE i \in 1..(k - 1)
      <4>1. i \in 1..n /\ d[i] = c[i] /\ i <= l
        BY <1>0, <1>1, <1>10, <3>3
      <4> QED
        BY <1>10, <3>1, <3>2, <4>1
    <3>4. CASE i = k
      BY <1>0, <1>1, <1>10, <1>2, <3>1, <3>2, <3>4
    <3>5. CASE i \in (k + 1)..(n + 1)
      <4>1. PICK m \in 1..n : m = i - 1
        <5>1. i - 1 \in 1..n
          BY <3>5
        <5> QED
          BY <5>1
      <4>2. d[i] = c[m] /\ m <= l
        BY <1>0, <1>1, <1>10, <1>3, <3>1, <3>5, <4>1
      <4> QED
        BY <1>10, <3>1, <3>2, <4>2
    <3> QED
      BY <3>3, <3>4, <3>5
  <2> QED
    BY <2>1, <2>2, <2>3
<1> QED
  BY <1>3 DEF IsWith, Ascending

\* What is left of a chain of ordered values keeps the order.
LEMMA OrderedWithout ==
  ASSUME NEW c \in Seq(Nat), NEW n \in Nat, n = Len(c), NEW k \in 1..n,
         NEW d, IsWithout(d, c, n, k), NEW v, Ascending(v, c)
  PROVE  Ascending(v, d)
<1>1. ASSUME NEW i \in 1..(n - 1)
      PROVE  \E m \in 1..n : d[i] = c[m] /\ m = (IF i < k THEN i ELSE i + 1)
  <2>1. CASE i < k
    <3>1. i \in 1..(k - 1) /\ i \in 1..n
      BY <2>1
    <3> QED
      BY <2>1, <3>1 DEF IsWithout
  <2>2. CASE ~ (i < k)
    <3>1. i \in k..(n - 1) /\ i + 1 \in 1..n
      BY <2>2
    <3> QED
      BY <2>2, <3>1 DEF IsWithout
  <2> QED
    BY <2>1, <2>2
<1>2. ASSUME NEW i \in 1..(n - 1), NEW j \in 1..(n - 1), i <= j
      PROVE  v[d[i]] <= v[d[j]]
  <2>1. PICK m \in 1..n : d[i] = c[m] /\ m = (IF i < k THEN i ELSE i + 1)
    BY <1>1
  <2>2. PICK l \in 1..n : d[j] = c[l] /\ l = (IF j < k THEN j ELSE j + 1)
    BY <1>1
  <2>3. m <= l
    BY <1>2, <2>1, <2>2
  <2> QED
    BY <2>1, <2>2, <2>3 DEF Ascending
<1> QED
  BY <1>2 DEF IsWithout, Ascending

\* The queue is the chain c, in both directions, in the order of priorities.
InOrder(c) ==
  /\ DoublyLinked(head, tail, next, prev, c)
  /\ \A i \in 1..Len(c) : c[i] \in Queue!Made /\ c[i] # taken
  /\ Ascending(priority, c)

\* The elements of the queue are some such chain.
ElementsInv ==
  /\ priority \in Seq(Queue!Priorities)
  /\ \E c \in Seq(Nat) : InOrder(c)

\* In such a chain, by place.
LEMMA ByPlace ==
  ASSUME NEW c \in Seq(Nat), NEW n \in Nat, n = Len(c), InOrder(c)
  PROVE  /\ \A i, j \in 1..n : c[i] = c[j] => i = j
         /\ DOMAIN next = {c[i] : i \in 1..n} /\ DOMAIN prev = DOMAIN next
         /\ \A i \in 1..n : next[c[i]] = At(c, i + 1)
         /\ \A i \in 1..n : prev[c[i]] = At(c, i - 1)
<1>1. /\ \A i, j \in 1..n : c[i] = c[j] => i = j
      /\ DOMAIN next = {c[i] : i \in 1..n}
      /\ \A i \in 1..n : next[c[i]] = At(c, i + 1)
  BY DEF InOrder, DoublyLinked, Ascending, Chained
<1> DEFINE r == Queue!Reverse(c)
<1>2. /\ \A i \in 1..n : r[i] = c[n - i + 1]
      /\ \A i \in 0..(n + 1) : At(r, i) = At(c, n - i + 1)
      /\ Len(r) = n
  BY Backwards
<1>3. /\ DOMAIN prev = {r[i] : i \in 1..n}
      /\ \A i \in 1..n : prev[r[i]] = At(r, i + 1)
  BY <1>2 DEF InOrder, DoublyLinked, Ascending, Chained
<1> HIDE DEF r
<1>4. ASSUME NEW i \in 1..n
      PROVE  prev[c[i]] = At(c, i - 1) /\ c[i] \in DOMAIN prev
  <2>1. PICK j \in 1..n : j = n - i + 1
    <3>1. n - i + 1 \in 1..n
      OBVIOUS
    <3> QED
      BY <3>1
  <2>2. n - j + 1 = i /\ j + 1 \in 0..(n + 1) /\ n - (j + 1) + 1 = i - 1
    BY <2>1
  <2>3. r[j] = c[i] /\ At(r, j + 1) = At(c, i - 1)
    BY <1>2, <2>2
  <2> QED
    BY <1>3, <2>3
<1>5. ASSUME NEW x \in DOMAIN prev
      PROVE  x \in DOMAIN next
  <2>1. PICK i \in 1..n : x = r[i]
    BY <1>3
  <2>2. n - i + 1 \in 1..n /\ x = c[n - i + 1]
    BY <1>2, <2>1
  <2> QED
    BY <1>1, <2>2
<1>6. DOMAIN prev = DOMAIN next
  <2>1. \A x \in DOMAIN next : x \in DOMAIN prev
    BY <1>1, <1>4
  <2> QED
    BY <1>5, <2>1
<1> QED
  BY <1>1, <1>4, <1>6

\* A new element takes its place in the middle of the chain or at either end.
LEMMA EnqueueInv ==
  ASSUME ElementsInv, NEW p \in 0..(MaxPriority + 1), Queue!enqueue(p)
  PROVE  ElementsInv'
<1>1. PICK c \in Seq(Nat) : InOrder(c)
  BY DEF ElementsInv
<1>2. PICK n \in Nat : n = Len(c)
  OBVIOUS
<1>3. priority \in Seq(0..MaxPriority)
  BY DEF ElementsInv, Queue!Priorities
<1>4. CASE p > MaxPriority
  <2>1. UNCHANGED <<head, tail, next, prev, priority>> /\ taken' = Queue!NULL
    BY <1>4, PriorityAssumption DEF Queue!enqueue, Queue!queue
  <2>2. \A i \in 1..Len(c) : c[i] # Queue!NULL
    BY DEF Queue!NULL
  <2>3. InOrder(c)'
    BY <1>1, <2>1, <2>2 DEF InOrder, DoublyLinked, Ascending, Queue!Made
  <2> QED
    BY <2>1, <2>3 DEF ElementsInv
<1>5. CASE p <= MaxPriority
  <2>1. PICK e \in Nat : e = Len(priority) + 1
    BY <1>3
  <2>2. Queue!Cardinality(Queue!Made) + 1 = e
    <3>1. Queue!Made = 1..Len(priority) /\ Len(priority) \in Nat /\ Len(priority) \in Int /\ 1 \in Int
      BY <1>3 DEF Queue!Made
    <3>2. Cardinality(1..Len(priority)) = IF 1 > Len(priority) THEN 0 ELSE Len(priority) - 1 + 1
      BY <3>1, FS_Interval, Zenon
    <3>3. Queue!Cardinality(Queue!Made) = Cardinality(Queue!Made)
      BY DEF Queue!Cardinality, Cardinality
    <3> QED
      BY <2>1, <3>1, <3>2, <3>3
  <2>3. PICK k \in 1..(n + 1) :
           /\ Queue!FirstIn(next, head, Queue!Followers(p)) = At(c, k)
           /\ k <= n => c[k] \in Queue!Followers(p)
           /\ \A i \in 1..(k - 1) : c[i] \notin Queue!Followers(p)
    BY <1>1, <1>2, FindsTheFirst DEF InOrder, DoublyLinked, Ascending
  <2>4. /\ Queue!Place(e, At(c, k)) /\ priority' = Append(priority, p) /\ taken' = Queue!NULL
    <3>1. /\ Queue!Place(Queue!Cardinality(Queue!Made) + 1,
                         Queue!FirstIn(next, head, Queue!Followers(p)))
          /\ priority' = Append(priority, p) /\ taken' = Queue!NULL
      BY <1>5 DEF Queue!enqueue
    <3> QED
      BY <2>2, <2>3, <3>1
  <2>5. /\ \A i, j \in 1..n : c[i] = c[j] => i = j
        /\ DOMAIN next = {c[i] : i \in 1..n} /\ DOMAIN prev = DOMAIN next
        /\ \A i \in 1..n : prev[c[i]] = At(c, i - 1)
    BY <1>1, <1>2, ByPlace
  <2>6. /\ \A i \in 1..n : c[i] \in 1..Len(priority)
        /\ \A i, j \in 1..n : i <= j => priority[c[i]] <= priority[c[j]]
        /\ head = At(c, 1) /\ tail = At(c, n)
    BY <1>1, <1>2, <1>3 DEF InOrder, DoublyLinked, Ascending, Queue!Made
  <2>7. \A i \in 1..n : c[i] # e
    BY <1>3, <2>1, <2>6
  <2>8. PICK d : d = With(c, k, e)
    OBVIOUS
  <2>9. IsWith(d, c, n, k, e)
    BY <1>2, <2>5, <2>7, <2>8, WithAll
  <2>10. /\ d \in Seq(Nat) /\ Len(d) = n + 1
         /\ \A i \in 1..(k - 1) : d[i] = c[i]
         /\ d[k] = e
         /\ \A i \in (k + 1)..(n + 1) : d[i] = c[i - 1]
    BY <2>9 DEF IsWith
  <2>11. PICK b : b = At(c, k - 1)
    OBVIOUS
  <2>12. PICK a : a = At(c, k)
    OBVIOUS
  <2>13. b = IF a = Queue!NULL THEN tail ELSE prev[a]
    <3>1. CASE k = n + 1
      BY <1>2, <2>6, <2>11, <2>12, <3>1 DEF At
    <3>2. CASE k \in 1..n
      <4>1. a = c[k] /\ a # Queue!NULL
        BY <1>2, <2>12, <3>2 DEF At, Queue!NULL
      <4> QED
        BY <2>5, <2>11, <3>2, <4>1
    <3> QED
      BY <3>1, <3>2
  <2>14. /\ head' = IF b = Queue!NULL THEN e ELSE head
         /\ tail' = IF a = Queue!NULL THEN e ELSE tail
         /\ next' = Queue!Set(Queue!Set(next, Queue!To(e, a)),
                              IF b = Queue!NULL THEN << >> ELSE Queue!To(b, e))
         /\ prev' = Queue!Set(Queue!Set(prev, Queue!To(e, b)),
                              IF a = Queue!NULL THEN << >> ELSE Queue!To(a, e))
    BY <2>4, <2>12, <2>13, Zenon DEF Queue!Place
  <2>15. DoublyLinked(head', tail', next', prev', d)
    <3>1. PICK h, t, f, g : h = head /\ t = tail /\ f = next /\ g = prev
      OBVIOUS
    <3>2. PICK h2, t2, f2, g2 : h2 = head' /\ t2 = tail' /\ f2 = next' /\ g2 = prev'
      OBVIOUS
    <3>3. Linked(f2, f, e, a, b) /\ Linked(g2, g, e, b, a)
      <4>1. /\ f2 = Queue!Set(Queue!Set(f, Queue!To(e, a)),
                              IF b = Queue!NULL THEN << >> ELSE Queue!To(b, e))
            /\ g2 = Queue!Set(Queue!Set(g, Queue!To(e, b)),
                              IF a = Queue!NULL THEN << >> ELSE Queue!To(a, e))
        BY <2>14, <3>1, <3>2
      <4> QED
        BY <4>1, SetLinks
    <3>4. DoublyLinked(h, t, f, g, c)
      BY <1>1, <3>1 DEF InOrder, DoublyLinked, Ascending
    <3>5. /\ h2 = IF b = Queue!NULL THEN e ELSE h
          /\ t2 = IF a = Queue!NULL THEN e ELSE t
      BY <2>14, <3>1, <3>2
    <3>6. DoublyLinked(h2, t2, f2, g2, d)
      BY SMTT(40), <1>2, <2>7, <2>8, <2>9, <2>11, <2>12, <3>3, <3>4, <3>5, JoinsTheChain
    <3> QED
      BY <3>2, <3>6
  <2>18. priority' \in Seq(0..MaxPriority) /\ Len(priority') = e
    <3>1. p \in 0..MaxPriority
      BY <1>5, PriorityAssumption
    <3> QED
      BY <1>3, <2>1, <2>4, <3>1
  <2>19. /\ \A i \in 1..n : priority'[c[i]] = priority[c[i]]
         /\ priority'[e] = p
    BY <1>3, <2>1, <2>4, <2>6
  <2>20. \A i \in 1..n : priority[c[i]] \in Int
    BY <1>3, <2>6, PriorityAssumption
  <2>21. /\ \A i \in 1..(k - 1) : priority[c[i]] <= p
         /\ k <= n => p <= priority[c[k]]
    <3>1. \A i \in 1..n : c[i] \in Queue!Followers(p) <=> priority[c[i]] > p
      BY <2>5 DEF Queue!Followers
    <3>2. \A i \in 1..(k - 1) : i \in 1..n
      OBVIOUS
    <3>3. p \in Int
      BY PriorityAssumption
    <3> QED
      BY <2>3, <2>20, <3>1, <3>2, <3>3
  <2>23. Ascending(priority', d)
    <3>1. PICK v, w : v = priority /\ w = priority'
      OBVIOUS
    <3>2. Ascending(v, c)
      BY <1>1, <3>1 DEF InOrder
    <3>3. FitsAt(v, w, c, k, e)
      <4>1. /\ w[e] \in Int
            /\ \A i \in 1..n : v[c[i]] \in Int /\ w[c[i]] = v[c[i]]
        BY <2>19, <2>20, <3>1
      <4>2. /\ \A i \in 1..(k - 1) : v[c[i]] <= w[e]
            /\ k <= n => w[e] <= v[c[k]]
        BY <2>19, <2>21, <3>1
      <4> QED
        BY <1>2, <4>1, <4>2 DEF FitsAt
    <3>4. Ascending(w, d)
      BY <1>2, <2>9, <3>2, <3>3, OrderedWith
    <3> QED
      BY <3>1, <3>4
  <2>24. \A i \in 1..(n + 1) : d[i] \in 1..e
    <3>1. {d[i] : i \in 1..(n + 1)} = {c[i] : i \in 1..n} \union {e}
      BY <2>9 DEF IsWith
    <3>2. \A x \in {c[i] : i \in 1..n} \union {e} : x \in 1..e
      BY <1>3, <2>1, <2>6
    <3> QED
      BY <3>1, <3>2
  <2>25. InOrder(d)'
    <3>1. \A i \in 1..(n + 1) : d[i] \in Queue!Made' /\ d[i] # taken'
      BY <2>4, <2>18, <2>24 DEF Queue!Made, Queue!NULL
    <3> QED
      BY <2>10, <2>15, <2>23, <3>1 DEF InOrder, DoublyLinked, Ascending
  <2> QED
    BY <2>10, <2>18, <2>25 DEF ElementsInv, Queue!Priorities
<1> QED
  BY <1>4, <1>5, PriorityAssumption

\* An element leaves the chain from any place.
LEMMA TakeInv ==
  ASSUME ElementsInv, NEW e \in DOMAIN next, Queue!Take(e)
  PROVE  ElementsInv'
<1>1. PICK c \in Seq(Nat) : InOrder(c)
  BY DEF ElementsInv
<1>2. PICK n \in Nat : n = Len(c)
  OBVIOUS
<1>3. /\ \A i, j \in 1..n : c[i] = c[j] => i = j
      /\ DOMAIN next = {c[i] : i \in 1..n} /\ DOMAIN prev = DOMAIN next
      /\ \A i \in 1..n : next[c[i]] = At(c, i + 1)
      /\ \A i \in 1..n : prev[c[i]] = At(c, i - 1)
  BY <1>1, <1>2, ByPlace
<1>4. /\ \A i \in 1..n : c[i] \in Queue!Made
      /\ \A i, j \in 1..n : i <= j => priority[c[i]] <= priority[c[j]]
      /\ head = At(c, 1) /\ tail = At(c, n)
  BY <1>1, <1>2 DEF InOrder, DoublyLinked, Ascending
<1>5. PICK k \in 1..n : e = c[k]
  BY <1>3
<1>6. PICK a : a = At(c, k + 1)
  OBVIOUS
<1>7. PICK b : b = At(c, k - 1)
  OBVIOUS
<1>8. next[e] = a /\ prev[e] = b
  BY <1>3, <1>5, <1>6, <1>7
<1>9. /\ next' = Queue!RemoveLink(IF b = Queue!NULL THEN next ELSE [next EXCEPT ![b] = a], e)
      /\ prev' = Queue!RemoveLink(IF a = Queue!NULL THEN prev ELSE [prev EXCEPT ![a] = b], e)
      /\ head' = IF b = Queue!NULL THEN a ELSE head
      /\ tail' = IF a = Queue!NULL THEN b ELSE tail
      /\ taken' = e /\ priority' = priority
  BY <1>8 DEF Queue!Take, Queue!Unlinked, Queue!TailWithout
<1>10. PICK d : d = Without(c, k)
  OBVIOUS
<1>11. IsWithout(d, c, n, k)
  BY <1>2, <1>3, <1>10, WithoutOne
<1>12. /\ d \in Seq(Nat) /\ Len(d) = n - 1
       /\ \A i \in 1..(k - 1) : d[i] = c[i]
       /\ \A i \in k..(n - 1) : d[i] = c[i + 1]
  BY <1>11 DEF IsWithout
<1>13. DoublyLinked(head', tail', next', prev', d)
  <2>1. PICK h, t, f, g : h = head /\ t = tail /\ f = next /\ g = prev
    OBVIOUS
  <2>2. PICK h2, t2, f2, g2 : h2 = head' /\ t2 = tail' /\ f2 = next' /\ g2 = prev'
    OBVIOUS
  <2>3. f2 = [x \in DOMAIN f \ {e} |-> (IF b = Queue!NULL THEN f ELSE [f EXCEPT ![b] = a])[x]]
    <3>1. DOMAIN (IF b = Queue!NULL THEN f ELSE [f EXCEPT ![b] = a]) = DOMAIN f
      OBVIOUS
    <3> QED
      BY <1>9, <2>1, <2>2, <3>1 DEF Queue!RemoveLink
  <2>4. g2 = [x \in DOMAIN g \ {e} |-> (IF a = Queue!NULL THEN g ELSE [g EXCEPT ![a] = b])[x]]
    <3>1. DOMAIN (IF a = Queue!NULL THEN g ELSE [g EXCEPT ![a] = b]) = DOMAIN g
      OBVIOUS
    <3> QED
      BY <1>9, <2>1, <2>2, <3>1 DEF Queue!RemoveLink
  <2>5. Skipping(f2, f, e, a, b)
    BY <2>3 DEF Skipping
  <2>6. Skipping(g2, g, e, b, a)
    BY <2>4 DEF Skipping
  <2>7. DoublyLinked(h, t, f, g, c)
    BY <1>1, <2>1 DEF InOrder, DoublyLinked, Ascending
  <2>8. /\ h2 = IF b = Queue!NULL THEN a ELSE h
        /\ t2 = IF a = Queue!NULL THEN b ELSE t
    BY <1>9, <2>1, <2>2
  <2>9. DoublyLinked(h2, t2, f2, g2, d)
    <3>1. n = Len(c) /\ DoublyLinked(h, t, f, g, c)
      BY <1>2, <2>7
    <3>2. e = At(c, k) /\ d = Without(c, k) /\ IsWithout(d, c, n, k)
      BY <1>2, <1>5, <1>10, <1>11 DEF At
    <3>3. a = At(c, k + 1) /\ b = At(c, k - 1)
      BY <1>6, <1>7
    <3>4. Skipping(f2, f, e, a, b) /\ Skipping(g2, g, e, b, a)
      BY <2>5, <2>6
    <3> QED
      BY <3>1, <3>2, <3>3, <3>4, <2>8, LeavesTheChain
  <2> QED
    BY <2>2, <2>9
<1>16. ASSUME NEW i \in 1..(n - 1)
       PROVE  \E m \in 1..n : d[i] = c[m] /\ m = (IF i < k THEN i ELSE i + 1)
  <2>1. CASE i < k
    <3>1. i \in 1..(k - 1) /\ i \in 1..n
      BY <2>1
    <3> QED
      BY <1>12, <2>1, <3>1
  <2>2. CASE ~ (i < k)
    <3>1. i \in k..(n - 1) /\ i + 1 \in 1..n
      BY <2>2
    <3> QED
      BY <1>12, <2>2, <3>1
  <2> QED
    BY <2>1, <2>2
<1>17. Ascending(priority', d)
  <2>1. PICK v : v = priority
    OBVIOUS
  <2>2. Ascending(v, c)
    BY <1>1, <2>1 DEF InOrder
  <2>3. Ascending(v, d)
    BY <1>2, <1>11, <2>2, OrderedWithout
  <2> QED
    BY <1>9, <2>1, <2>3
<1>18. ASSUME NEW i \in 1..(n - 1)
       PROVE  d[i] \in Queue!Made' /\ d[i] # taken'
  <2>1. PICK m \in 1..n : d[i] = c[m] /\ m = (IF i < k THEN i ELSE i + 1)
    BY <1>16
  <2>2. m # k
    BY <2>1
  <2> QED
    BY <1>3, <1>4, <1>5, <1>9, <2>1, <2>2 DEF Queue!Made
<1>19. InOrder(d)'
  BY <1>12, <1>13, <1>17, <1>18 DEF InOrder, DoublyLinked, Ascending
<1> QED
  BY <1>9, <1>12, <1>19 DEF ElementsInv

\* Whatever is found is in the chain, and the calls keep it one.
LEMMA QueueSteps ==
  ASSUME ElementsInv, [Queue!Next]_queueVars
  PROVE  ElementsInv'
<1>1. PICK c \in Seq(Nat) : InOrder(c)
  BY DEF ElementsInv
<1>2. PICK n \in Nat : n = Len(c)
  OBVIOUS
<1>3. DOMAIN next = {c[i] : i \in 1..n} /\ head = At(c, 1)
  BY <1>1, <1>2 DEF InOrder, DoublyLinked, Ascending, Chained
<1>4. ASSUME UNCHANGED <<head, tail, next, prev, priority>>,
             taken' = taken \/ taken' = Queue!NULL
      PROVE  ElementsInv'
  <2>1. \A i \in 1..Len(c) : c[i] # Queue!NULL
    BY DEF Queue!NULL
  <2>2. InOrder(c)'
    BY <1>1, <1>4, <2>1 DEF InOrder, DoublyLinked, Ascending, Queue!Made
  <2> QED
    BY <1>4, <2>2 DEF ElementsInv
<1>5. CASE UNCHANGED queueVars
  BY <1>4, <1>5 DEF queueVars
<1>6. CASE \E p \in 0..(MaxPriority + 1) : Queue!enqueue(p)
  BY <1>6, EnqueueInv
<1>7. CASE Queue!TakeNothing
  BY <1>4, <1>7 DEF Queue!TakeNothing, Queue!queue
<1>8. CASE Queue!dequeue
  <2>1. CASE head = Queue!NULL
    BY <1>7, <1>8, <2>1 DEF Queue!dequeue
  <2>2. CASE head # Queue!NULL
    <3>1. PICK e : e = head
      OBVIOUS
    <3>2. e \in DOMAIN next
      BY <1>2, <1>3, <2>2, <3>1 DEF At
    <3>3. Queue!Take(e)
      BY <1>8, <2>2, <3>1 DEF Queue!dequeue
    <3> QED
      BY <3>2, <3>3, TakeInv
  <2> QED
    BY <2>1, <2>2
<1>9. ASSUME NEW S, Queue!Search(S)
      PROVE  ElementsInv'
  <2>1. PICK k \in 1..(n + 1) : Queue!FirstIn(next, head, S) = At(c, k)
    BY <1>1, <1>2, FindsTheFirst DEF InOrder, DoublyLinked, Ascending
  <2>2. PICK e : e = At(c, k)
    OBVIOUS
  <2>3. \/ e = Queue!NULL /\ Queue!TakeNothing
        \/ crashed' = TRUE /\ UNCHANGED <<Queue!queue, priority, taken>>
        \/ e # Queue!NULL /\ Queue!Take(e)
    BY <1>9, <2>1, <2>2 DEF Queue!Search
  <2>4. e # Queue!NULL => e \in DOMAIN next
    BY <1>2, <1>3, <2>2 DEF At
  <2>5. CASE UNCHANGED <<Queue!queue, priority, taken>>
    BY <1>4, <2>5 DEF Queue!queue
  <2> QED
    BY <1>7, <2>3, <2>4, <2>5, TakeInv
<1> QED
  BY <1>5, <1>6, <1>8, <1>9 DEF Queue!Next, Queue!dequeueWithPriority, Queue!dequeueWithMinPriority

\* The empty queue is a chain.
LEMMA QueueInit ==
  ASSUME Queue!Init
  PROVE  ElementsInv
<1> DEFINE c == << >>
<1>1. c \in Seq(Nat) /\ Len(c) = 0 /\ DOMAIN next = {} /\ DOMAIN prev = {}
  BY DEF Queue!Init
<1>2. Queue!Reverse(c) \in Seq(Nat) /\ Len(Queue!Reverse(c)) = 0
  BY <1>1, Backwards
<1> HIDE DEF c
<1>3. Chained(next, c) /\ Chained(prev, Queue!Reverse(c))
  BY <1>1, <1>2 DEF Chained
<1>4. InOrder(c)
  BY <1>1, <1>3 DEF InOrder, DoublyLinked, Ascending, At, Queue!Init
<1>5. priority \in Seq(Queue!Priorities)
  BY DEF Queue!Init
<1> QED
  BY <1>1, <1>4, <1>5 DEF ElementsInv

\* One chain in both directions, and at its head the most urgent element.
LEMMA ChainIsOrder ==
  ASSUME ElementsInv
  PROVE  QueueInOrder
<1>1. PICK c \in Seq(Nat) : InOrder(c)
  BY DEF ElementsInv
<1>2. PICK n \in Nat : n = Len(c)
  OBVIOUS
<1>3. Queue!Walk(next, head) = c
  BY <1>1, WalksTheChain DEF InOrder, DoublyLinked, Ascending
<1>4. Queue!Walk(prev, tail) = Queue!Reverse(c)
  <2>1. tail = At(Queue!Reverse(c), 1)
    <3>1. At(Queue!Reverse(c), 1) = At(c, n - 1 + 1) /\ n - 1 + 1 = n
      BY <1>2, Backwards
    <3> QED
      BY <1>1, <1>2, <3>1 DEF InOrder, DoublyLinked, Ascending
  <2> QED
    BY <1>1, <2>1, WalksTheChain DEF InOrder, DoublyLinked, Ascending
<1>5. /\ DOMAIN next = {c[i] : i \in 1..n} /\ DOMAIN prev = DOMAIN next
  BY <1>1, <1>2, ByPlace
<1>6. Queue!ToSet(c) = DOMAIN next
  BY <1>2, <1>5 DEF Queue!ToSet
<1>7. /\ \A i \in 1..n : c[i] \in Queue!Made /\ c[i] # taken
      /\ \A i, j \in 1..n : i <= j => priority[c[i]] <= priority[c[j]]
      /\ head = At(c, 1)
  BY <1>1, <1>2 DEF InOrder, DoublyLinked, Ascending
<1>8. Queue!OneChain
  <2>1. DOMAIN next \subseteq Queue!Made \ {taken}
    BY <1>5, <1>7
  <2> QED
    BY <1>3, <1>4, <1>5, <1>6, <2>1 DEF Queue!OneChain, ElementsInv
<1>9. Queue!HeadIsMostUrgent
  <2>1. ASSUME NEW e \in DOMAIN next PROVE priority[head] <= priority[e]
    <3>1. PICK i \in 1..n : e = c[i]
      BY <1>5
    <3>2. 1 \in 1..n /\ head = c[1] /\ 1 <= i
      BY <1>2, <1>7 DEF At
    <3> QED
      BY <1>7, <3>1, <3>2
  <2> QED
    BY <2>1 DEF Queue!HeadIsMostUrgent
<1> QED
  BY <1>8, <1>9 DEF QueueInOrder, Queue!QueueInOrder

-----------------------------------------------------------------------------
(* What the three contact books of module2 do to the contacts they hold.   *)

\* d is c with e under the id n; d is c without the id n.
Stores(c, d, n, e) ==
  /\ DOMAIN d = DOMAIN c \union {n} /\ d[n] = e
  /\ \A i \in DOMAIN c : i # n => d[i] = c[i]
\* The other way round: the contact n is no longer there.
Removes(c, d, n) ==
  /\ DOMAIN d = DOMAIN c \ {n}
  /\ \A i \in DOMAIN d : d[i] = c[i]

\* The contacts of an array are within the allocated places, in the order of ids.
ArrayInv(b) ==
  /\ b \in [contacts : Seq([id : Nat, entry : EntriesOf("array")]), size : Nat, next_id : Nat]
  /\ Len(b.contacts) <= b.size /\ b.size > 0
  /\ \A i \in 1..Len(b.contacts) : b.contacts[i].id < b.next_id
  /\ \A i, j \in 1..Len(b.contacts) : i < j => b.contacts[i].id < b.contacts[j].id

\* What the places hold.
LEMMA ArrayTypes ==
  ASSUME NEW b, ArrayInv(b)
  PROVE  /\ b.contacts \in Seq([id : Nat, entry : EntriesOf("array")])
         /\ Len(b.contacts) \in Nat /\ b.size \in Nat /\ b.next_id \in Nat
         /\ DOMAIN b.contacts = 1..Len(b.contacts)
         /\ \A i \in 1..Len(b.contacts) :
              b.contacts[i].id \in Nat /\ b.contacts[i].entry \in EntriesOf("array")
<1>1. b.contacts \in Seq([id : Nat, entry : EntriesOf("array")]) /\ b.size \in Nat /\ b.next_id \in Nat
  BY DEF ArrayInv
<1>2. PICK S, s : S = [id : Nat, entry : EntriesOf("array")] /\ s = b.contacts
  OBVIOUS
<1>4. s \in Seq(S)
  BY <1>1, <1>2
<1>5. Len(s) \in Nat /\ DOMAIN s = 1..Len(s) /\ \A i \in 1..Len(s) : s[i] \in S
  BY <1>4
<1>3. /\ Len(b.contacts) \in Nat /\ DOMAIN b.contacts = 1..Len(b.contacts)
      /\ \A i \in 1..Len(b.contacts) : b.contacts[i] \in S
  BY <1>2, <1>5
<1> QED
  BY <1>1, <1>2, <1>3

\* An id has one place.
LEMMA ArrayPlace ==
  ASSUME NEW b, ArrayInv(b), NEW i \in 1..Len(b.contacts)
  PROVE  Array!Min(Array!PlaceOf(b, b.contacts[i].id)) = i
<1>1. \A j \in 1..Len(b.contacts) : b.contacts[j].id \in Nat
  BY ArrayTypes
<1>2. Array!PlaceOf(b, b.contacts[i].id) = {i}
  <2>1. ASSUME NEW j \in 1..Len(b.contacts), b.contacts[j].id = b.contacts[i].id PROVE j = i
    <3>1. j < i \/ i < j \/ i = j
      OBVIOUS
    <3> QED
      BY <1>1, <2>1, <3>1 DEF ArrayInv
  <2>2. DOMAIN b.contacts = 1..Len(b.contacts)
    BY ArrayTypes
  <2> QED
    BY <2>1, <2>2 DEF Array!PlaceOf
<1>3. Array!Min({i}) = i
  BY DEF Array!Min
<1> QED
  BY <1>2, <1>3

\* The contents, by place.
LEMMA ArrayContents ==
  ASSUME NEW b, ArrayInv(b)
  PROVE  /\ \A j : j \in DOMAIN Array!Contents(b) <=>
                  \E i \in 1..Len(b.contacts) : j = b.contacts[i].id
         /\ \A i \in 1..Len(b.contacts) : Array!Contents(b)[b.contacts[i].id] = b.contacts[i].entry
         /\ \A j \in DOMAIN Array!Contents(b) :
              Array!Contents(b)[j] = Array!EntryOf(b, j) /\ Array!Contents(b)[j] \in EntriesOf("array")
<1>1. DOMAIN b.contacts = 1..Len(b.contacts)
  BY ArrayTypes
<1>2. \A j : j \in DOMAIN Array!Contents(b) <=>
              \E i \in 1..Len(b.contacts) : j = b.contacts[i].id
  BY <1>1 DEF Array!Contents
<1>3. \A j \in DOMAIN Array!Contents(b) : Array!Contents(b)[j] = Array!EntryOf(b, j)
  BY DEF Array!Contents
<1>4. ASSUME NEW i \in 1..Len(b.contacts)
      PROVE  /\ Array!EntryOf(b, b.contacts[i].id) = b.contacts[i].entry
             /\ b.contacts[i].entry \in EntriesOf("array")
  <2>1. Array!Min(Array!PlaceOf(b, b.contacts[i].id)) = i
    BY ArrayPlace
  <2> QED
    BY <2>1, ArrayTypes DEF Array!EntryOf
<1> QED
  BY <1>2, <1>3, <1>4

\* The empty array.
LEMMA ArrayEmpty == ArrayInv(Array!create_list) /\ Array!Contents(Array!create_list) = << >>
<1>1. ArrayInv(Array!create_list)
  BY DEF ArrayInv, Array!create_list, Array!STARTLISTSIZE
<1>2. Array!create_list.contacts = << >>
  BY DEF Array!create_list
<1>3. DOMAIN Array!create_list.contacts = {}
  BY <1>2
<1> QED
  BY <1>1, <1>3 DEF Array!Contents

\* A contact is added behind the others, in an array that grows in time.
LEMMA ArrayAdd ==
  ASSUME NEW b, ArrayInv(b), NEW e \in EntriesOf("array"), NEW d, d = Array!add_contact(b, e)
  PROVE  /\ ArrayInv(d) /\ d.next_id = b.next_id + 1
         /\ Stores(Array!Contents(b), Array!Contents(d), b.next_id, e)
<1> DEFINE x == [id |-> b.next_id, entry |-> e]
<1>1. PICK n \in Nat : n = Len(b.contacts)
  BY ArrayTypes
<1>2. /\ d.contacts = Append(b.contacts, x)
      /\ d.size = Array!Grown(b) /\ d.next_id = b.next_id + 1
      /\ d = [contacts |-> d.contacts, size |-> d.size, next_id |-> d.next_id]
  BY DEF Array!add_contact
<1>3. x \in [id : Nat, entry : EntriesOf("array")]
  BY DEF ArrayInv
<1>4. /\ d.contacts \in Seq([id : Nat, entry : EntriesOf("array")]) /\ Len(d.contacts) = n + 1
      /\ \A i \in 1..n : d.contacts[i] = b.contacts[i]
      /\ d.contacts[n + 1] = x
  BY <1>1, <1>2, <1>3 DEF ArrayInv
<1>5. d.size \in Nat /\ n + 1 <= d.size /\ d.size > 0
  BY <1>1, <1>2 DEF ArrayInv, Array!Grown, Array!capacity
<1>6. /\ b.next_id \in Nat
      /\ \A i \in 1..n : b.contacts[i].id \in Nat /\ b.contacts[i].id < b.next_id
      /\ \A i, j \in 1..n : i < j => b.contacts[i].id < b.contacts[j].id
  BY <1>1, ArrayTypes DEF ArrayInv
<1>7. \A i \in 1..(n + 1) : i \in 1..n \/ i = n + 1
  OBVIOUS
<1>8. x.id = b.next_id /\ x.entry = e
  OBVIOUS
<1> HIDE DEF x
<1>9. \A i \in 1..(n + 1) : d.contacts[i].id < d.next_id
  BY SMTT(40), <1>2, <1>4, <1>6, <1>7, <1>8
<1>10. ASSUME NEW i \in 1..(n + 1), NEW j \in 1..(n + 1), i < j
       PROVE  d.contacts[i].id < d.contacts[j].id
  <2>1. i \in 1..n
    BY <1>10
  <2> QED
    BY <1>4, <1>6, <1>7, <1>8, <1>10, <2>1
<1>11. ArrayInv(d)
  <2>1. d.next_id \in Nat
    BY <1>2, <1>6
  <2>2. d \in [contacts : Seq([id : Nat, entry : EntriesOf("array")]), size : Nat, next_id : Nat]
    BY <1>2, <1>4, <1>5, <2>1
  <2> QED
    BY <1>4, <1>5, <1>9, <1>10, <2>2 DEF ArrayInv
<1>12. Stores(Array!Contents(b), Array!Contents(d), b.next_id, e)
  <2>1. /\ \A j : j \in DOMAIN Array!Contents(b) <=>
                 \E i \in 1..Len(b.contacts) : j = b.contacts[i].id
        /\ \A i \in 1..Len(b.contacts) :
             Array!Contents(b)[b.contacts[i].id] = b.contacts[i].entry
    BY ArrayContents
  <2>2. /\ \A j : j \in DOMAIN Array!Contents(d) <=>
                 \E i \in 1..Len(d.contacts) : j = d.contacts[i].id
        /\ \A i \in 1..Len(d.contacts) :
             Array!Contents(d)[d.contacts[i].id] = d.contacts[i].entry
    BY <1>11, ArrayContents
  <2>3. \A i \in 1..(n + 1) : Array!Contents(d)[d.contacts[i].id] = d.contacts[i].entry
    BY <1>4, <2>2
  <2>4. DOMAIN Array!Contents(d) = DOMAIN Array!Contents(b) \union {b.next_id}
    <3>1. \A i \in 1..n : i \in 1..(n + 1) /\ d.contacts[i].id = b.contacts[i].id
      BY <1>4
    <3>2. n + 1 \in 1..(n + 1) /\ d.contacts[n + 1].id = b.next_id
      BY <1>4, <1>8
    <3>3. 1..Len(d.contacts) = 1..(n + 1) /\ 1..Len(b.contacts) = 1..n
      BY <1>1, <1>4
    <3>4. \A j : j \in DOMAIN Array!Contents(d) <=> \E i \in 1..(n + 1) : j = d.contacts[i].id
      BY <2>2, <3>3
    <3>5. \A j : j \in DOMAIN Array!Contents(b) <=> \E i \in 1..n : j = b.contacts[i].id
      BY <2>1, <3>3
    <3>6. \A j : j \in DOMAIN Array!Contents(d) <=>
                  j \in DOMAIN Array!Contents(b) \/ j = b.next_id
      BY <1>7, <3>1, <3>2, <3>4, <3>5
    <3> QED
      BY <3>6
  <2>5. n + 1 \in 1..(n + 1) /\ \A i \in 1..n : i \in 1..(n + 1)
    OBVIOUS
  <2>6. Array!Contents(d)[b.next_id] = e
    BY <1>4, <1>8, <2>3, <2>5
  <2>7. ASSUME NEW j \in DOMAIN Array!Contents(b)
        PROVE  Array!Contents(d)[j] = Array!Contents(b)[j]
    <3>1. PICK i \in 1..n : j = b.contacts[i].id /\ Array!Contents(b)[j] = b.contacts[i].entry
      BY <1>1, <2>1
    <3> QED
      BY <1>4, <2>3, <2>5, <3>1
  <2> QED
    BY <2>4, <2>6, <2>7 DEF Stores
<1> QED
  BY <1>2, <1>11, <1>12

\* A set of places that is not empty has a last one.
LEMMA LargestOf ==
  ASSUME NEW n \in Nat, NEW T \in SUBSET (1..n), T # {}
  PROVE  \E m \in T : \A k \in T : k <= m
<1>1. PICK U : U = {n - i : i \in T}
  OBVIOUS
<1>2. U \in SUBSET Nat /\ U # {}
  <2>1. \A i \in T : n - i \in Nat
    OBVIOUS
  <2> QED
    BY <1>1, <2>1
<1>3. PICK u \in U : \A k \in U : u <= k
  BY <1>2, LeastOf
<1>4. PICK m \in T : u = n - m
  BY <1>1
<1>5. ASSUME NEW k \in T PROVE k <= m
  <2>1. n - k \in U /\ k \in 1..n /\ m \in 1..n
    BY <1>1
  <2> QED
    BY <1>3, <1>4, <2>1
<1> QED
  BY <1>5

\* What is left of a sequence without its element k.
LEMMA RemovesOne ==
  ASSUME NEW S, NEW s \in Seq(S), NEW k \in 1..Len(s)
  PROVE  /\ RemoveAt(s, k) \in Seq(S) /\ Len(RemoveAt(s, k)) = Len(s) - 1
         /\ \A i \in 1..(Len(s) - 1) : RemoveAt(s, k)[i] = IF i < k THEN s[i] ELSE s[i + 1]
<1>1. PICK n \in Nat : n = Len(s)
  OBVIOUS
<1>2. PICK f, g : f = SubSeq(s, 1, k - 1) /\ g = SubSeq(s, k + 1, n)
  OBVIOUS
<1>3. /\ f \in Seq(S) /\ Len(f) = k - 1
      /\ \A i \in 1..(k - 1) : f[i] = s[i]
  BY <1>1, <1>2
<1>4. /\ g \in Seq(S) /\ Len(g) = n - k
      /\ \A i \in 1..(n - k) : g[i] = s[k + i]
  <2>1. /\ \A i \in (k + 1)..n : s[i] \in S
        /\ g = [i \in 1..(n - k) |-> s[i + k]]
    BY <1>1, <1>2
  <2> QED
    BY <1>1, <2>1
<1>5. RemoveAt(s, k) = f \o g
  BY <1>1, <1>2 DEF RemoveAt
<1>6. /\ f \o g \in Seq(S) /\ Len(f \o g) = n - 1
      /\ \A i \in 1..(n - 1) : (f \o g)[i] = IF i <= k - 1 THEN f[i] ELSE g[i - (k - 1)]
  BY <1>1, <1>3, <1>4
<1>7. ASSUME NEW i \in 1..(n - 1)
      PROVE  (f \o g)[i] = IF i < k THEN s[i] ELSE s[i + 1]
  <2>1. CASE i < k
    <3>1. i \in 1..(k - 1)
      BY <2>1
    <3> QED
      BY <1>3, <1>6, <2>1, <3>1
  <2>2. CASE ~ (i < k)
    <3>1. i - (k - 1) \in 1..(n - k) /\ k + (i - (k - 1)) = i + 1 /\ ~ (i <= k - 1)
      BY <2>2
    <3> QED
      BY <1>4, <1>6, <2>2, <3>1
  <2> QED
    BY <2>1, <2>2
<1> QED
  BY <1>1, <1>5, <1>6, <1>7

\* A search answers with a contact of that name, when there is one.
LEMMA ArrayFind ==
  ASSUME NEW b, ArrayInv(b), NEW first, NEW last,
         NEW a, a = Array!find_contact_by_name(b, first, last)
  PROVE  /\ a # NotFound => a \in DOMAIN Array!Contents(b)
         /\ \A j \in DOMAIN Array!Contents(b) :
              /\ Array!Contents(b)[j].first = first
              /\ Array!Contents(b)[j].last = last
              => a # NotFound
<1>1. PICK n \in Nat : n = Len(b.contacts)
  BY ArrayTypes
<1>2. PICK hits : hits = {i \in 1..n : /\ b.contacts[i].entry.first = first
                                       /\ b.contacts[i].entry.last = last}
  OBVIOUS
<1>3. a = IF hits = {} THEN NotFound ELSE b.contacts[Array!Max(hits)].id
  <2>1. DOMAIN b.contacts = 1..n
    BY <1>1, ArrayTypes
  <2> QED
    BY <1>2, <2>1 DEF Array!find_contact_by_name, Array!NotFound, NotFound
<1>4. ASSUME hits # {} PROVE a \in DOMAIN Array!Contents(b) /\ a # NotFound
  <2>1. hits \in SUBSET (1..n)
    BY <1>2
  <2>2. \E m \in hits : \A k \in hits : k <= m
    BY <1>4, <2>1, LargestOf
  <2>3. \E m \in hits : \A k \in hits : m >= k
    BY <2>1, <2>2
  <2>4. Array!Max(hits) \in hits
    BY <2>3 DEF Array!Max
  <2>5. PICK m \in 1..n : a = b.contacts[m].id
    BY <1>3, <1>4, <2>1, <2>4
  <2>6. a \in DOMAIN Array!Contents(b)
    BY <1>1, <2>5, ArrayContents
  <2>7. a \in Nat
    BY <1>1, <2>5, ArrayTypes
  <2> QED
    BY <2>6, <2>7 DEF NotFound
<1>5. ASSUME NEW j \in DOMAIN Array!Contents(b),
             Array!Contents(b)[j].first = first, Array!Contents(b)[j].last = last
      PROVE  hits # {}
  <2>1. PICK i \in 1..n : j = b.contacts[i].id
    BY <1>1, ArrayContents
  <2>2. Array!Contents(b)[j] = b.contacts[i].entry
    BY <1>1, <2>1, ArrayContents
  <2> QED
    BY <1>2, <1>5, <2>2
<1> QED
  BY <1>3, <1>4, <1>5

\* An update changes the entry of the one contact that has the id.
LEMMA ArrayUpdate ==
  ASSUME NEW b, ArrayInv(b), NEW id0 \in DOMAIN Array!Contents(b), NEW e \in EntriesOf("array"),
         NEW d, d = Array!update_contact(b, id0, e)
  PROVE  /\ ArrayInv(d) /\ d.next_id = b.next_id
         /\ Stores(Array!Contents(b), Array!Contents(d), id0, e)
<1>1. PICK n \in Nat : n = Len(b.contacts)
  BY ArrayTypes
<1>2. PICK k \in 1..n : id0 = b.contacts[k].id
  BY <1>1, ArrayContents
<1>3. Array!Min(Array!PlaceOf(b, id0)) = k
  BY <1>1, <1>2, ArrayPlace
<1>4. d = [b EXCEPT !.contacts[k].entry = e]
  BY <1>3 DEF Array!update_contact
<1>5. PICK s, S : s = b.contacts /\ S = [id : Nat, entry : EntriesOf("array")]
  OBVIOUS
<1>6. s \in Seq(S) /\ DOMAIN s = 1..n /\ s[k] \in S
  <2>1. s \in Seq(S) /\ DOMAIN s = 1..n /\ k \in 1..Len(s)
    BY <1>1, <1>5, ArrayTypes
  <2> QED
    BY <2>1
<1>7. PICK x : x = [s[k] EXCEPT !.entry = e]
  OBVIOUS
<1>8. x \in S /\ x.id = s[k].id /\ x.entry = e
  BY <1>5, <1>6, <1>7
<1>9. PICK t : t = [s EXCEPT ![k] = x]
  OBVIOUS
<1>10. /\ t \in Seq(S) /\ Len(t) = n
       /\ \A i \in 1..n : t[i] = IF i = k THEN x ELSE s[i]
  BY <1>1, <1>5, <1>6, <1>8, <1>9
<1>11. /\ d.contacts = t /\ d.size = b.size /\ d.next_id = b.next_id
       /\ d = [contacts |-> t, size |-> b.size, next_id |-> b.next_id]
  <2>1. b \in [contacts : Seq(S), size : Nat, next_id : Nat]
    BY <1>5 DEF ArrayInv
  <2>2. d = [b EXCEPT !.contacts = [b.contacts EXCEPT ![k] = [b.contacts[k] EXCEPT !.entry = e]]]
    BY <1>4, <2>1
  <2>3. d = [b EXCEPT !.contacts = t]
    BY <1>5, <1>7, <1>9, <2>2
  <2> QED
    BY <2>1, <2>3
<1>12. \A i \in 1..n : t[i].id = b.contacts[i].id
  BY <1>5, <1>8, <1>10
<1>13. ArrayInv(d)
  <2>1. d \in [contacts : Seq(S), size : Nat, next_id : Nat]
    BY <1>10, <1>11, ArrayTypes
  <2> QED
    BY SMTT(40), <1>1, <1>5, <1>10, <1>11, <1>12, <2>1 DEF ArrayInv
<1>14. Stores(Array!Contents(b), Array!Contents(d), id0, e)
  <2>1. DOMAIN Array!Contents(d) = DOMAIN Array!Contents(b)
    <3>1. \A j : j \in DOMAIN Array!Contents(d) <=> \E i \in 1..n : j = t[i].id
      BY <1>10, <1>11, <1>13, ArrayContents
    <3>2. \A j : j \in DOMAIN Array!Contents(b) <=> \E i \in 1..n : j = b.contacts[i].id
      BY <1>1, ArrayContents
    <3>3. \A j : j \in DOMAIN Array!Contents(d) <=> j \in DOMAIN Array!Contents(b)
      BY <1>12, <3>1, <3>2
    <3> QED
      BY <3>3
  <2>2. ASSUME NEW i \in 1..n
        PROVE  /\ Array!Contents(d)[b.contacts[i].id] = t[i].entry
               /\ Array!Contents(b)[b.contacts[i].id] = b.contacts[i].entry
    BY <1>1, <1>10, <1>11, <1>12, <1>13, ArrayContents
  <2>3. Array!Contents(d)[id0] = e
    BY <1>2, <1>8, <1>10, <2>2
  <2>4. ASSUME NEW j \in DOMAIN Array!Contents(b), j # id0
        PROVE  Array!Contents(d)[j] = Array!Contents(b)[j]
    <3>1. PICK i \in 1..n : j = b.contacts[i].id
      BY <1>1, ArrayContents
    <3>2. i # k
      BY <1>2, <2>4, <3>1
    <3> QED
      BY <1>5, <1>10, <2>2, <3>1, <3>2
  <2>5. DOMAIN Array!Contents(b) = DOMAIN Array!Contents(b) \union {id0}
    OBVIOUS
  <2> QED
    BY <2>1, <2>3, <2>4, <2>5 DEF Stores
<1> QED
  BY <1>11, <1>13, <1>14

\* A deletion removes the one contact that has the id.
LEMMA ArrayDelete ==
  ASSUME NEW b, ArrayInv(b), NEW id0 \in DOMAIN Array!Contents(b),
         NEW d, d = Array!delete_contact(b, id0)
  PROVE  /\ ArrayInv(d) /\ d.next_id = b.next_id
         /\ Removes(Array!Contents(b), Array!Contents(d), id0)
<1>1. PICK n \in Nat : n = Len(b.contacts)
  BY ArrayTypes
<1>2. PICK k \in 1..n : id0 = b.contacts[k].id
  BY <1>1, ArrayContents
<1>3. Array!Min(Array!PlaceOf(b, id0)) = k
  BY <1>1, <1>2, ArrayPlace
<1>4. PICK s, S : s = b.contacts /\ S = [id : Nat, entry : EntriesOf("array")]
  OBVIOUS
<1>5. s \in Seq(S) /\ k \in 1..Len(s) /\ Len(s) = n
  BY <1>1, <1>4, ArrayTypes
<1>6. PICK t : t = RemoveAt(s, k)
  OBVIOUS
<1>7. /\ t \in Seq(S) /\ Len(t) = n - 1
      /\ \A i \in 1..(n - 1) : t[i] = IF i < k THEN s[i] ELSE s[i + 1]
  BY <1>5, <1>6, RemovesOne
<1>8. d = [b EXCEPT !.contacts = t]
  <2>1. Array!RemoveAt(s, k) = t
    BY <1>6 DEF Array!RemoveAt, RemoveAt
  <2> QED
    BY <1>3, <1>4, <2>1 DEF Array!delete_contact
<1>9. /\ d.contacts = t /\ d.size = b.size /\ d.next_id = b.next_id
      /\ d = [contacts |-> t, size |-> b.size, next_id |-> b.next_id]
  BY <1>8 DEF ArrayInv
<1>10. /\ \A i \in 1..n : s[i].id \in Nat /\ s[i].id < b.next_id
       /\ \A i, j \in 1..n : i < j => s[i].id < s[j].id
  BY <1>1, <1>4, ArrayTypes DEF ArrayInv
<1>11. ASSUME NEW i \in 1..(n - 1)
       PROVE  \E m \in 1..n : t[i] = s[m] /\ m = (IF i < k THEN i ELSE i + 1)
  <2>1. PICK m : m = (IF i < k THEN i ELSE i + 1)
    OBVIOUS
  <2>2. m \in 1..n
    BY <2>1
  <2> QED
    BY <1>7, <2>1, <2>2
<1>12. ArrayInv(d)
  <2>1. d \in [contacts : Seq(S), size : Nat, next_id : Nat]
    BY <1>7, <1>9, ArrayTypes
  <2>2. \A i \in 1..(n - 1) : t[i].id < b.next_id
    BY <1>10, <1>11
  <2>3. ASSUME NEW i \in 1..(n - 1), NEW j \in 1..(n - 1), i < j
        PROVE  t[i].id < t[j].id
    <3>1. PICK m \in 1..n : t[i] = s[m] /\ m = (IF i < k THEN i ELSE i + 1)
      BY <1>11
    <3>2. PICK l \in 1..n : t[j] = s[l] /\ l = (IF j < k THEN j ELSE j + 1)
      BY <1>11
    <3>3. m < l
      BY <2>3, <3>1, <3>2
    <3> QED
      BY <1>10, <3>1, <3>2, <3>3
  <2>4. n - 1 <= b.size /\ b.size > 0
    BY <1>1, ArrayTypes DEF ArrayInv
  <2> QED
    BY <1>4, <1>7, <1>9, <2>1, <2>2, <2>3, <2>4 DEF ArrayInv
<1>13. Removes(Array!Contents(b), Array!Contents(d), id0)
  <2>1. /\ \A j : j \in DOMAIN Array!Contents(d) <=> \E i \in 1..(n - 1) : j = t[i].id
        /\ \A i \in 1..(n - 1) : Array!Contents(d)[t[i].id] = t[i].entry
    <3>1. PICK m \in Nat : m = Len(t)
      BY <1>7
    <3>2. m = Len(d.contacts)
      BY <1>9, <3>1
    <3>3. /\ \A j : j \in DOMAIN Array!Contents(d) <=> \E i \in 1..m : j = t[i].id
          /\ \A i \in 1..m : Array!Contents(d)[t[i].id] = t[i].entry
      BY SMTT(40), <1>9, <1>12, <3>2, ArrayContents
    <3> QED
      BY <1>7, <3>1, <3>3
  <2>2. /\ \A j : j \in DOMAIN Array!Contents(b) <=> \E i \in 1..n : j = s[i].id
        /\ \A i \in 1..n : Array!Contents(b)[s[i].id] = s[i].entry
    BY <1>1, <1>4, ArrayContents
  <2>3. ASSUME NEW j \in DOMAIN Array!Contents(d)
        PROVE  /\ j \in DOMAIN Array!Contents(b) \ {id0}
               /\ Array!Contents(d)[j] = Array!Contents(b)[j]
    <3>1. PICK i \in 1..(n - 1) : j = t[i].id
      BY <2>1
    <3>2. PICK m \in 1..n : t[i] = s[m] /\ m = (IF i < k THEN i ELSE i + 1)
      BY <1>11
    <3>3. m < k \/ k < m
      BY <3>2
    <3>4. s[m].id # s[k].id
      BY <1>10, <3>3
    <3> QED
      BY <1>2, <1>4, <2>1, <2>2, <3>1, <3>2, <3>4
  <2>4. ASSUME NEW j \in DOMAIN Array!Contents(b), j # id0
        PROVE  j \in DOMAIN Array!Contents(d)
    <3>1. PICK m \in 1..n : j = s[m].id
      BY <2>2
    <3>2. m # k
      BY <1>2, <1>4, <2>4, <3>1
    <3>3. PICK i : i = (IF m < k THEN m ELSE m - 1)
      OBVIOUS
    <3>4. i \in 1..(n - 1) /\ m = (IF i < k THEN i ELSE i + 1)
      BY <3>2, <3>3
    <3>5. t[i] = s[m]
      BY <1>7, <3>4
    <3> QED
      BY <2>1, <3>1, <3>4, <3>5
  <2>5. DOMAIN Array!Contents(d) = DOMAIN Array!Contents(b) \ {id0}
    BY <2>3, <2>4
  <2> QED
    BY <2>3, <2>5 DEF Removes
<1> QED
  BY <1>9, <1>12, <1>13

\* What is typed for a contact.
LEMMA EntryTypes ==
  ASSUME NEW k \in {"array", "list", "avl"}, NEW e \in EntriesOf(k)
  PROVE  e.first \in Int /\ e.last \in Int /\ e.phones \in PhoneLists(MaxPhones[k])
<1>1. PICK m \in Names[k], p \in PhoneLists(MaxPhones[k]) :
         e = [first |-> m[1], last |-> m[2], phones |-> p]
  BY DEF EntriesOf
<1>2. m \in Int \X Int
  BY BooksAssumption
<1> QED
  BY <1>1, <1>2

\* The first names under the ids.
FirstNames(b) == [p \in DOMAIN b.entry |-> b.entry[p].first]

\* The nodes of a list are one chain c, and each has an entry; in the order of the
\* first names, when it is to be.
ListChain(b, c) ==
  /\ b = [head |-> b.head, tail |-> b.tail, next |-> b.next, prev |-> b.prev,
          entry |-> b.entry, size |-> b.size, next_id |-> b.next_id]
  /\ DoublyLinked(b.head, b.tail, b.next, b.prev, c)
  /\ b.entry \in [DOMAIN b.next -> EntriesOf("list")]
  /\ b.size = Len(c) /\ b.next_id \in Nat
  /\ \A i \in 1..Len(c) : c[i] < b.next_id
\* A book has such a chain; its first names ascend unless a contact was renamed.
ListInv(b, ordered) ==
  \E c \in Seq(Nat) : ListChain(b, c) /\ (ordered => Ascending(FirstNames(b), c))

\* The walks along the links are those of the queue.
LEMMA SameWalks ==
  ASSUME NEW links, NEW p, NEW S
  PROVE  /\ List!Walk(links, p) = Queue!Walk(links, p)
         /\ List!FirstIn(links, p, S) = Queue!FirstIn(links, p, S)
BY Zenon DEF List!Walk, Queue!Walk, List!FirstIn, Queue!FirstIn, List!NULL, Queue!NULL

\* The nodes of a chain.
NodesOf(c) == {c[i] : i \in 1..Len(c)}

\* The nodes of such a list, by place.
LEMMA ListNodes ==
  ASSUME NEW b, NEW c \in Seq(Nat), ListChain(b, c), NEW n \in Nat, n = Len(c)
  PROVE  /\ Chained(b.next, c) /\ Chained(b.prev, Queue!Reverse(c))
         /\ b.head = At(c, 1) /\ b.tail = At(c, n)
         /\ \A i, j \in 1..n : c[i] = c[j] => i = j
         /\ \A i \in 1..n : c[i] \in Nat /\ c[i] < b.next_id
         /\ DOMAIN b.next = NodesOf(c)
         /\ DOMAIN b.prev = DOMAIN b.next /\ DOMAIN b.entry = DOMAIN b.next
         /\ \A p \in DOMAIN b.next : b.entry[p].first \in Int /\ b.entry[p] \in EntriesOf("list")
<1>1. /\ Chained(b.next, c) /\ Chained(b.prev, Queue!Reverse(c))
      /\ b.head = At(c, 1) /\ b.tail = At(c, n)
  BY DEF ListChain, DoublyLinked
<1>2. /\ \A i, j \in 1..n : c[i] = c[j] => i = j
      /\ DOMAIN b.next = NodesOf(c)
      /\ \A i \in 1..n : b.next[c[i]] = At(c, i + 1)
  BY <1>1 DEF Chained, NodesOf
<1>3. DOMAIN b.entry = DOMAIN b.next /\ \A p \in DOMAIN b.next : b.entry[p] \in EntriesOf("list")
  BY DEF ListChain
<1>4. PICK r : r = Queue!Reverse(c)
  OBVIOUS
<1>5. /\ r \in Seq(Nat) /\ Len(r) = n
      /\ \A i \in 1..n : r[i] = c[n - i + 1]
      /\ \A i \in 0..(n + 1) : At(r, i) = At(c, n - i + 1)
  BY <1>4, Backwards
<1>6. /\ DOMAIN b.prev = NodesOf(r)
      /\ \A i \in 1..n : b.prev[r[i]] = At(r, i + 1)
  BY <1>1, <1>4, <1>5 DEF Chained, NodesOf
<1>7. \A i \in 1..n : n - i + 1 \in 1..n /\ c[i] = r[n - i + 1] /\ n - (n - i + 1) + 1 = i
  <2> TAKE i \in 1..n
  <2>1. n - i + 1 \in 1..n /\ n - (n - i + 1) + 1 = i
    OBVIOUS
  <2> QED
    BY <1>5, <2>1
<1>8. DOMAIN b.prev = DOMAIN b.next
  <2>1. \A i \in 1..n : r[i] \in NodesOf(c)
    BY <1>5, <1>7 DEF NodesOf
  <2>2. \A i \in 1..n : c[i] \in NodesOf(r)
    BY <1>5, <1>7 DEF NodesOf
  <2>3. Len(c) = n /\ Len(r) = n
    BY <1>5
  <2>4. NodesOf(r) \subseteq NodesOf(c)
    <3> SUFFICES ASSUME NEW x \in NodesOf(r) PROVE x \in NodesOf(c)
      OBVIOUS
    <3>1. PICK i \in 1..n : x = r[i]
      BY <2>3 DEF NodesOf
    <3> QED
      BY <2>1, <3>1
  <2>5. NodesOf(c) \subseteq NodesOf(r)
    <3> SUFFICES ASSUME NEW x \in NodesOf(c) PROVE x \in NodesOf(r)
      OBVIOUS
    <3>1. PICK i \in 1..n : x = c[i]
      BY <2>3 DEF NodesOf
    <3> QED
      BY <2>2, <3>1
  <2> QED
    BY <1>2, <1>6, <2>4, <2>5
<1>10. \A i \in 1..n : c[i] \in Nat /\ c[i] < b.next_id
  BY DEF ListChain
<1>11. \A p \in DOMAIN b.next : b.entry[p].first \in Int
  BY <1>3, EntryTypes
<1> QED
  BY <1>1, <1>2, <1>3, <1>8, <1>10, <1>11

\* The neighbours of the node at a place.
LEMMA ListLinks ==
  ASSUME NEW b, NEW c \in Seq(Nat), ListChain(b, c), NEW n \in Nat, n = Len(c),
         NEW i \in 1..n, NEW p, p = c[i]
  PROVE  b.next[p] = At(c, i + 1) /\ b.prev[p] = At(c, i - 1)
<1>1. Chained(b.next, c) /\ Chained(b.prev, Queue!Reverse(c))
  BY DEF ListChain, DoublyLinked
<1>2. b.next[p] = At(c, i + 1)
  BY <1>1 DEF Chained
<1>3. PICK r : r = Queue!Reverse(c)
  OBVIOUS
<1>4. /\ Len(r) = n
      /\ \A j \in 1..n : r[j] = c[n - j + 1]
      /\ \A j \in 0..(n + 1) : At(r, j) = At(c, n - j + 1)
  BY <1>3, Backwards
<1>5. PICK k \in 1..n : k = n - i + 1
  <2>1. n - i + 1 \in 1..n
    OBVIOUS
  <2> QED
    BY <2>1
<1>6. n - k + 1 = i /\ n - (k + 1) + 1 = i - 1 /\ k + 1 \in 0..(n + 1)
  BY <1>5
<1>7. r[k] = p /\ At(r, k + 1) = At(c, i - 1)
  BY <1>4, <1>6
<1>8. b.prev[r[k]] = At(r, k + 1)
  BY <1>1, <1>3, <1>4 DEF Chained
<1> QED
  BY <1>2, <1>7, <1>8

\* The walk from the head meets them all, and so does the one back.
LEMMA ListContents ==
  ASSUME NEW b, NEW c \in Seq(Nat), ListChain(b, c)
  PROVE  /\ List!Forward(b) = c /\ List!Backward(b) = Queue!Reverse(c)
         /\ DOMAIN List!Contents(b) = DOMAIN b.next
         /\ \A p \in DOMAIN b.next : List!Contents(b)[p] = b.entry[p]
<1>1. PICK n \in Nat : n = Len(c)
  OBVIOUS
<1>2. List!Forward(b) = c
  <2>1. Chained(b.next, c) /\ b.head = At(c, 1)
    BY <1>1, ListNodes, Zenon
  <2>2. Queue!Walk(b.next, At(c, 1)) = c
    BY <2>1, WalksTheChain
  <2> QED
    BY <2>1, <2>2, SameWalks DEF List!Forward
<1>3. List!Backward(b) = Queue!Reverse(c)
  <2>1. b.tail = At(Queue!Reverse(c), 1)
    <3>1. 1 \in 0..(n + 1) /\ n - 1 + 1 = n
      OBVIOUS
    <3>2. At(Queue!Reverse(c), 1) = At(c, n - 1 + 1)
      BY <1>1, <3>1, Backwards
    <3> QED
      BY <1>1, <3>1, <3>2, ListNodes
  <2>2. Chained(b.prev, Queue!Reverse(c))
    BY <1>1, ListNodes
  <2> QED
    BY <2>1, <2>2, WalksTheChain, SameWalks DEF List!Backward
<1>4. PICK D : D = {c[i] : i \in DOMAIN c}
  OBVIOUS
<1>5. D = DOMAIN b.next
  <2>1. DOMAIN c = 1..Len(c)
    OBVIOUS
  <2>2. D = NodesOf(c)
    BY <1>4, <2>1 DEF NodesOf
  <2> QED
    BY <1>1, <2>2, ListNodes
<1>6. List!Contents(b) = [p \in D |-> b.entry[p]]
  BY <1>2, <1>4 DEF List!Contents
<1> QED
  BY <1>2, <1>3, <1>5, <1>6

\* The empty list.
LEMMA ListEmpty == ListInv(List!create_list, TRUE) /\ List!Contents(List!create_list) = << >>
<1> DEFINE b == List!create_list
           c == << >>
<1>1. /\ b.head = Queue!NULL /\ b.tail = Queue!NULL /\ b.next = << >> /\ b.prev = << >>
      /\ b.entry = << >> /\ b.size = 0 /\ b.next_id = 0
      /\ b = [head |-> b.head, tail |-> b.tail, next |-> b.next, prev |-> b.prev,
              entry |-> b.entry, size |-> b.size, next_id |-> b.next_id]
  BY DEF List!create_list, List!NULL, Queue!NULL
<1>2. c \in Seq(Nat) /\ Len(c) = 0 /\ DOMAIN c = {}
  OBVIOUS
<1>3. Queue!Reverse(c) \in Seq(Nat) /\ Len(Queue!Reverse(c)) = 0
  BY <1>2, Backwards
<1> HIDE DEF b
<1>4. Chained(b.next, c) /\ Chained(b.prev, Queue!Reverse(c))
  BY <1>1, <1>2, <1>3 DEF Chained
<1>5. DoublyLinked(b.head, b.tail, b.next, b.prev, c)
  BY <1>1, <1>2, <1>4 DEF DoublyLinked, At
<1>6. b.entry \in [DOMAIN b.next -> EntriesOf("list")]
  BY <1>1, <1>2
<1>7. ListChain(b, c)
  BY <1>1, <1>2, <1>5, <1>6 DEF ListChain
<1>8. Ascending(FirstNames(b), c)
  BY <1>2 DEF Ascending
<1>9. List!Contents(b) = << >>
  <2>1. List!Forward(b) = c
    BY <1>2, <1>7, ListContents
  <2>2. {List!Forward(b)[i] : i \in DOMAIN List!Forward(b)} = {}
    BY <1>2, <2>1
  <2> QED
    BY <2>2 DEF List!Contents
<1> QED
  BY <1>2, <1>7, <1>8, <1>9 DEF ListInv, b

\* A node that is in S is found, when there is one.
LEMMA ListFind ==
  ASSUME NEW b, NEW c \in Seq(Nat), ListChain(b, c), NEW S,
         NEW a, a = List!find_node(b, S)
  PROVE  /\ a # NotFound => a \in DOMAIN b.next /\ a \in S
         /\ \A p \in DOMAIN b.next : p \in S => a # NotFound
<1>1. PICK n \in Nat : n = Len(c)
  OBVIOUS
<1>2. PICK k \in 1..(n + 1) :
         /\ a = At(c, k)
         /\ k <= n => c[k] \in S
         /\ \A i \in 1..(k - 1) : c[i] \notin S
  <2>1. Chained(b.next, c) /\ b.head = At(c, 1)
    BY <1>1, ListNodes
  <2>2. a = Queue!FirstIn(b.next, At(c, 1), S)
    BY <2>1, SameWalks DEF List!find_node
  <2> QED
    BY <1>1, <2>1, <2>2, FindsTheFirst
<1>3. (\A i \in 1..n : c[i] \in Nat) /\ DOMAIN b.next = NodesOf(c)
  BY <1>1, ListNodes
<1>4. CASE k = n + 1
  <2>1. a = NotFound
    BY <1>1, <1>2, <1>4 DEF At, NotFound, Queue!NULL
  <2>2. \A i \in 1..n : c[i] \notin S
    BY <1>2, <1>4
  <2> QED
    BY <1>1, <1>3, <2>1, <2>2 DEF NodesOf
<1>5. CASE k \in 1..n
  <2>1. a = c[k]
    BY <1>1, <1>2, <1>5 DEF At
  <2>2. a # NotFound
    BY <1>3, <1>5, <2>1 DEF NotFound
  <2> QED
    BY <1>1, <1>2, <1>3, <1>5, <2>1, <2>2 DEF NodesOf
<1> QED
  BY <1>4, <1>5

\* One assignment to the links of one direction, or two.
LEMMA SetList ==
  ASSUME NEW f, NEW e, NEW a, NEW b, b # e
  PROVE  /\ Linked(List!Set(f, List!To(e, a)), f, e, a, Queue!NULL)
         /\ b # Queue!NULL =>
              Linked(List!Set(List!Set(f, List!To(e, a)), List!To(b, e)), f, e, a, b)
<1>1. PICK h : h = List!Set(f, List!To(e, a))
  OBVIOUS
<1>2. /\ DOMAIN h = DOMAIN f \union {e}
      /\ \A x \in DOMAIN h : h[x] = IF x = e THEN a ELSE f[x]
  BY <1>1 DEF List!Set, List!To
<1>3. PICK g : g = List!Set(h, List!To(b, e))
  OBVIOUS
<1>4. /\ DOMAIN g = DOMAIN h \union {b}
      /\ \A x \in DOMAIN g : g[x] = IF x = b THEN e ELSE h[x]
  BY <1>3 DEF List!Set, List!To
<1>5. Linked(h, f, e, a, Queue!NULL)
  BY <1>2 DEF Linked
<1>6. b # Queue!NULL => Linked(g, f, e, a, b)
  BY <1>2, <1>4 DEF Linked
<1> QED
  BY <1>1, <1>3, <1>5, <1>6

\* The list l is b with a node e linked in at place k of its chain.
JoinsList(b, l, c, k, e) ==
  /\ l = [head |-> l.head, tail |-> l.tail, next |-> l.next, prev |-> l.prev,
          entry |-> b.entry, size |-> b.size, next_id |-> b.next_id]
  /\ Linked(l.next, b.next, e, At(c, k), At(c, k - 1))
  /\ Linked(l.prev, b.prev, e, At(c, k - 1), At(c, k))
  /\ l.head = IF At(c, k - 1) = Queue!NULL THEN e ELSE b.head
  /\ l.tail = IF At(c, k) = Queue!NULL THEN e ELSE b.tail

\* A first name is not before those in front of place k, nor after the one there.
NameFits(b, c, k, first) ==
  /\ \A i \in 1..(k - 1) : b.entry[c[i]].first <= first
  /\ k <= Len(c) => first <= b.entry[c[k]].first

\* The walk along the list stops at the first node that no follower of the new
\* one is in front of.
Stop(b, first, g) ==
  g = [p \in DOMAIN b.next |->
         IF b.next[p] # Queue!NULL /\ b.entry[b.next[p]].first <= first THEN g[b.next[p]] ELSE p]

\* StopsAt is the value of such a walk, once there is one.
LEMMA StopsDef ==
  ASSUME NEW b, NEW first, \E g : Stop(b, first, g)
  PROVE  \E g : Stop(b, first, g) /\ List!StopsAt(b, first) = g[b.head]
<1> DEFINE g == CHOOSE g : Stop(b, first, g)
<1>1. Stop(b, first, g)
  BY Zenon
<1>2. List!StopsAt(b, first) = g[b.head]
  BY Zenon DEF List!StopsAt, Stop, List!NULL, Queue!NULL
<1> HIDE DEF g
<1> QED
  BY <1>1, <1>2, Zenon

\* There is one, and it stops in front of the first node that comes after.
LEMMA StopsThere ==
  ASSUME NEW b, NEW c \in Seq(Nat), ListChain(b, c), NEW n \in Nat, n = Len(c), NEW first \in Int,
         n > 0, first < b.entry[b.tail].first, b.entry[b.head].first < first
  PROVE  \E k \in 1..(n - 1) : List!StopsAt(b, first) = c[k] /\ NameFits(b, c, k + 1, first)
<1>1. /\ Chained(b.next, c) /\ b.head = At(c, 1) /\ b.tail = At(c, n)
      /\ \A i \in 1..n : c[i] \in Nat
      /\ DOMAIN b.next = NodesOf(c)
      /\ \A i \in 1..n : b.next[c[i]] = At(c, i + 1)
      /\ \A p \in DOMAIN b.next : b.entry[p].first \in Int
  <2>1. /\ Chained(b.next, c) /\ b.head = At(c, 1) /\ b.tail = At(c, n)
        /\ DOMAIN b.next = NodesOf(c)
    BY ListNodes
  <2>2. \A i \in 1..n : c[i] \in Nat
    OBVIOUS
  <2>3. \A i \in 1..n : b.next[c[i]] = At(c, i + 1)
    BY <2>1 DEF Chained
  <2>4. \A p \in DOMAIN b.next : b.entry[p].first \in Int
    BY ListNodes
  <2> QED
    BY <2>1, <2>2, <2>3, <2>4
<1>2. b.head = c[1] /\ b.tail = c[n] /\ Queue!NULL \notin DOMAIN b.next
  BY <1>1 DEF At, NodesOf, Queue!NULL
<1>3. PICK S : S = {p \in DOMAIN b.next :
                      ~ (b.next[p] # Queue!NULL /\ b.entry[b.next[p]].first <= first)}
  OBVIOUS
<1>4. \A p \in DOMAIN b.next : b.next[p] \in DOMAIN b.next \union {Queue!NULL}
  <2> SUFFICES ASSUME NEW p \in DOMAIN b.next PROVE b.next[p] \in DOMAIN b.next \union {Queue!NULL}
    OBVIOUS
  <2>1. PICK i \in 1..n : p = c[i]
    BY <1>1 DEF NodesOf
  <2>2. b.next[p] = At(c, i + 1)
    BY <1>1, <2>1
  <2> QED
    BY <1>1, <2>2 DEF At, NodesOf
<1>5. PICK f : f = b.next
  OBVIOUS
<1>6. \E g : Stop(b, first, g)
  <2>1. PICK h : Finds(h, f, S)
    BY <1>1, <1>5, FindsAlong
  <2>2. PICK g : g = [p \in DOMAIN f |-> h[p]]
    OBVIOUS
  <2>3. ASSUME NEW p \in DOMAIN f
        PROVE  g[p] = IF f[p] # Queue!NULL /\ b.entry[f[p]].first <= first THEN g[f[p]] ELSE p
    <3>1. g[p] = IF p \in S THEN p ELSE h[f[p]]
      BY <1>2, <1>5, <2>1, <2>2, <2>3 DEF Finds
    <3>2. p \notin S => f[p] # Queue!NULL /\ b.entry[f[p]].first <= first /\ f[p] \in DOMAIN f
      BY <1>3, <1>4, <1>5
    <3> QED
      BY <1>3, <1>5, <2>2, <3>1, <3>2
  <2>4. g = [p \in DOMAIN f |->
               IF f[p] # Queue!NULL /\ b.entry[f[p]].first <= first THEN g[f[p]] ELSE p]
    BY <2>2, <2>3, Zenon
  <2> QED
    BY <1>5, <2>4 DEF Stop
<1>7. PICK g : Stop(b, first, g) /\ List!StopsAt(b, first) = g[b.head]
  BY <1>6, StopsDef
<1>8. PICK h : h = [q \in DOMAIN f \union {Queue!NULL} |-> IF q = Queue!NULL THEN q ELSE g[q]]
  OBVIOUS
<1>9. Finds(h, f, S)
  <2>1. ASSUME NEW q \in DOMAIN f
        PROVE  h[q] = IF q \in S THEN q ELSE h[f[q]]
    <3>1. h[q] = IF f[q] # Queue!NULL /\ b.entry[f[q]].first <= first THEN g[f[q]] ELSE q
      BY <1>2, <1>5, <1>7, <1>8 DEF Stop
    <3>2. q \notin S => f[q] # Queue!NULL /\ b.entry[f[q]].first <= first /\ f[q] \in DOMAIN f
      BY <1>3, <1>4, <1>5
    <3> QED
      BY <1>3, <1>5, <1>8, <3>1, <3>2
  <2>2. h = [q \in DOMAIN f \union {Queue!NULL} |->
               IF q = Queue!NULL \/ q \in S THEN q ELSE h[f[q]]]
    <3>1. \A q \in DOMAIN f \union {Queue!NULL} :
             h[q] = IF q = Queue!NULL \/ q \in S THEN q ELSE h[f[q]]
      BY <1>2, <1>5, <1>8, <2>1
    <3> QED
      BY <1>8, <3>1, Zenon
  <2> QED
    BY <2>2 DEF Finds
<1>10. PICK k \in 1..(n + 1) :
          /\ h[At(c, 1)] = At(c, k)
          /\ k <= n => c[k] \in S
          /\ \A i \in 1..(k - 1) : c[i] \notin S
  <2>1. PICK k \in 1..(Len(c) + 1) :
          /\ h[At(c, 1)] = At(c, k)
          /\ k <= Len(c) => c[k] \in S
          /\ \A i \in 1..(k - 1) : c[i] \notin S
    <3>1. Chained(f, c)
      BY <1>1, <1>5
    <3> QED
      BY <1>9, <3>1, FindsAlong
  <2> QED
    BY <2>1
<1>11. \A i \in 1..n : c[i] \in DOMAIN b.next
  BY <1>1 DEF NodesOf
<1>12. \A i \in 1..(n - 1) : c[i] \in S <=> ~ (b.entry[c[i + 1]].first <= first)
  <2> SUFFICES ASSUME NEW i \in 1..(n - 1)
               PROVE  c[i] \in S <=> ~ (b.entry[c[i + 1]].first <= first)
    OBVIOUS
  <2>1. i \in 1..n /\ i + 1 \in 1..n
    OBVIOUS
  <2>2. b.next[c[i]] = c[i + 1] /\ c[i + 1] # Queue!NULL
    BY <1>1, <1>2, <1>11, <2>1 DEF At
  <2> QED
    BY <1>3, <1>11, <2>1, <2>2
<1>13. c[n] \in S
  <2>1. n \in 1..n
    OBVIOUS
  <2>2. b.next[c[n]] = Queue!NULL
    BY <1>1, <2>1 DEF At
  <2> QED
    BY <1>3, <1>11, <2>1, <2>2
<1>14. n > 1
  <2>1. 1 \in 1..n
    OBVIOUS
  <2>2. b.entry[c[1]].first \in Int
    BY <1>1, <1>11, <2>1
  <2>3. n # 1
    BY <1>2, <2>2
  <2> QED
    BY <2>3
<1>15. k \in 1..(n - 1)
  <2>1. k # n + 1
    BY <1>10, <1>13, <1>14
  <2>2. n - 1 \in 1..(n - 1) /\ n - 1 + 1 = n /\ n \in 1..n
    BY <1>14
  <2>3. c[n - 1] \in S
    <3>1. b.entry[c[n]].first \in Int
      BY <1>1, <1>11, <2>2
    <3>2. ~ (b.entry[c[n]].first <= first)
      BY <1>2, <3>1
    <3> QED
      BY <1>12, <2>2, <3>2
  <2>4. k # n
    BY <1>10, <2>2, <2>3
  <2> QED
    BY <2>1, <2>4
<1>16. List!StopsAt(b, first) = c[k]
  <2>1. At(c, 1) = c[1] /\ At(c, k) = c[k] /\ c[1] \in DOMAIN f /\ c[1] # Queue!NULL
    BY <1>2, <1>5, <1>11, <1>14, <1>15 DEF At
  <2>2. h[c[1]] = g[c[1]]
    BY <1>8, <2>1
  <2> QED
    BY <1>2, <1>7, <1>10, <2>1, <2>2
<1>17. NameFits(b, c, k + 1, first)
  <2>1. ASSUME NEW i \in 1..k PROVE b.entry[c[i]].first <= first
    <3>1. CASE i = 1
      <4>1. 1 \in 1..n
        BY <1>14
      <4>2. b.entry[c[1]].first \in Int
        BY <1>1, <1>11, <4>1
      <4> QED
        BY <1>2, <3>1, <4>2
    <3>2. CASE i # 1
      <4>1. i - 1 \in 1..(k - 1) /\ i - 1 \in 1..(n - 1) /\ i - 1 + 1 = i
        BY <1>15, <3>2
      <4>2. c[i - 1] \notin S
        BY <1>10, <4>1
      <4> QED
        BY <1>12, <4>1, <4>2
    <3> QED
      BY <3>1, <3>2
  <2>2. first <= b.entry[c[k + 1]].first
    <3>1. c[k] \in S /\ k + 1 \in 1..n
      BY <1>10, <1>15
    <3>2. ~ (b.entry[c[k + 1]].first <= first)
      BY <1>12, <1>15, <3>1
    <3>3. b.entry[c[k + 1]].first \in Int
      BY <1>1, <1>11, <3>1
    <3> QED
      BY <3>2, <3>3
  <2>3. k + 1 - 1 = k
    BY <1>15
  <2> QED
    BY <2>1, <2>2, <2>3 DEF NameFits
<1> QED
  BY <1>15, <1>16, <1>17

\* A node is linked into the chain in one of four ways, and where it belongs if the
\* list is in order.
LEMMA ListInsert ==
  ASSUME NEW b, NEW c \in Seq(Nat), ListChain(b, c), NEW n \in Nat, n = Len(c), NEW first \in Int,
         NEW e \in Nat, \A i \in 1..n : c[i] # e,
         NEW l, l = List!insert_to_linked_list(b, e, first)
  PROVE  \E k \in 1..(n + 1) :
           /\ JoinsList(b, l, c, k, e)
           /\ Ascending(FirstNames(b), c) => NameFits(b, c, k, first)
<1>1. /\ b.head = At(c, 1) /\ b.tail = At(c, n)
      /\ DOMAIN b.next = NodesOf(c)
      /\ DOMAIN b.prev = DOMAIN b.next
      /\ \A p \in DOMAIN b.next : b.entry[p].first \in Int
  BY ListNodes
<1>2. /\ b = [head |-> b.head, tail |-> b.tail, next |-> b.next, prev |-> b.prev,
              entry |-> b.entry, size |-> b.size, next_id |-> b.next_id]
      /\ DOMAIN b.entry = DOMAIN b.next
  BY DEF ListChain
<1>3. \A i \in 1..n : c[i] \in Nat /\ c[i] # Queue!NULL /\ c[i] \in DOMAIN b.next
  BY <1>1 DEF Queue!NULL, NodesOf
<1>4. e # Queue!NULL /\ Queue!NULL = List!NULL
  BY DEF Queue!NULL, List!NULL
<1>5. CASE n = 0
  <2>1. b.head = Queue!NULL /\ DOMAIN b.next = {} /\ At(c, 1) = Queue!NULL /\ At(c, 0) = Queue!NULL
    BY <1>1, <1>5 DEF At, NodesOf
  <2>2. l = List!Alone(b, e)
    BY <1>4, <2>1 DEF List!insert_to_linked_list
  <2>3. PICK h : h = List!To(e, Queue!NULL)
    OBVIOUS
  <2>4. l = [head |-> e, tail |-> e, next |-> h, prev |-> h,
             entry |-> b.entry, size |-> b.size, next_id |-> b.next_id]
    BY <1>2, <1>4, <2>2, <2>3 DEF List!Alone
  <2>5. Linked(h, b.next, e, Queue!NULL, Queue!NULL) /\ Linked(h, b.prev, e, Queue!NULL, Queue!NULL)
    BY <1>1, <2>1, <2>3 DEF Linked, List!To
  <2>6. JoinsList(b, l, c, 1, e)
    BY <2>1, <2>4, <2>5 DEF JoinsList
  <2>7. NameFits(b, c, 1, first)
    BY <1>5 DEF NameFits
  <2> QED
    BY <1>5, <2>6, <2>7
<1>6. CASE n > 0 /\ b.entry[b.head].first >= first
  <2>1. b.head = c[1] /\ At(c, 1) = c[1] /\ c[1] # Queue!NULL /\ c[1] # e /\ At(c, 0) = Queue!NULL
    BY <1>1, <1>3, <1>6 DEF At
  <2>2. l = List!InFront(b, e)
    <3>1. b.head # List!NULL /\ b.entry[b.head].first >= first
      BY <1>4, <1>6, <2>1
    <3>2. b.entry[b.head].first \in Int
      BY <1>1, <1>3, <1>6, <2>1
    <3> QED
      BY <3>1, <3>2 DEF List!insert_to_linked_list
  <2>3. PICK f, g : /\ f = List!Set(b.next, List!To(e, c[1]))
                    /\ g = List!Set(List!Set(b.prev, List!To(e, Queue!NULL)), List!To(c[1], e))
    OBVIOUS
  <2>4. l = [head |-> e, tail |-> b.tail, next |-> f, prev |-> g,
             entry |-> b.entry, size |-> b.size, next_id |-> b.next_id]
    BY ZenonT(60), <1>2, <1>4, <2>1, <2>2, <2>3 DEF List!InFront
  <2>5. Linked(f, b.next, e, c[1], Queue!NULL) /\ Linked(g, b.prev, e, Queue!NULL, c[1])
    BY <2>1, <2>3, SetList
  <2>6. JoinsList(b, l, c, 1, e)
    BY <2>1, <2>4, <2>5 DEF JoinsList
  <2>7. NameFits(b, c, 1, first)
    <3>1. b.entry[c[1]].first \in Int
      BY <1>1, <1>3, <1>6
    <3> QED
      BY <1>6, <2>1, <3>1 DEF NameFits
  <2> QED
    BY <1>6, <2>6, <2>7
<1>7. CASE n > 0 /\ ~ (b.entry[b.head].first >= first) /\ b.entry[b.tail].first <= first
  <2>0. n \in 1..n /\ 1 \in 1..n /\ n + 1 - 1 = n
    BY <1>7
  <2>1. /\ b.head = c[1] /\ b.tail = c[n] /\ At(c, n) = c[n] /\ At(c, n + 1) = Queue!NULL
        /\ c[n] # Queue!NULL /\ c[n] # e /\ c[1] # Queue!NULL
    BY <1>1, <1>3, <2>0 DEF At
  <2>2. l = List!Behind(b, e)
    <3>1. b.head # List!NULL /\ ~ (b.entry[b.head].first >= first) /\ b.entry[b.tail].first <= first
      BY <1>4, <1>7, <2>1
    <3>2. b.entry[b.head].first \in Int
      BY <1>1, <1>3, <2>0, <2>1
    <3>3. b.entry[b.head].first < first
      BY <3>1, <3>2
    <3> QED
      BY <3>1, <3>3 DEF List!insert_to_linked_list
  <2>3. PICK f, g : /\ f = List!Set(List!Set(b.next, List!To(e, Queue!NULL)), List!To(c[n], e))
                    /\ g = List!Set(b.prev, List!To(e, c[n]))
    OBVIOUS
  <2>4. l = [head |-> b.head, tail |-> e, next |-> f, prev |-> g,
             entry |-> b.entry, size |-> b.size, next_id |-> b.next_id]
    <3>1. /\ f = List!Set(List!Set(b.next, List!To(e, List!NULL)), List!To(b.tail, e))
          /\ g = List!Set(b.prev, List!To(e, b.tail))
      BY <1>4, <2>1, <2>3
    <3>2. l = [b EXCEPT !.tail = e, !.next = f, !.prev = g]
      BY <2>2, <3>1 DEF List!Behind
    <3> QED
      BY <1>2, <3>2
  <2>5. Linked(f, b.next, e, Queue!NULL, c[n]) /\ Linked(g, b.prev, e, c[n], Queue!NULL)
    BY <2>1, <2>3, SetList
  <2>6. JoinsList(b, l, c, n + 1, e)
    BY <2>0, <2>1, <2>4, <2>5 DEF JoinsList
  <2>7. ASSUME Ascending(FirstNames(b), c) PROVE NameFits(b, c, n + 1, first)
    <3>1. ASSUME NEW i \in 1..n PROVE b.entry[c[i]].first <= first
      <4>1. FirstNames(b)[c[i]] <= FirstNames(b)[c[n]]
        BY <2>0, <2>7 DEF Ascending
      <4>2. /\ FirstNames(b)[c[i]] = b.entry[c[i]].first
            /\ FirstNames(b)[c[n]] = b.entry[c[n]].first
        BY <1>2, <1>3, <2>0 DEF FirstNames
      <4>3. b.entry[c[i]].first \in Int /\ b.entry[c[n]].first \in Int
        BY <1>1, <1>3, <2>0
      <4> QED
        BY <1>7, <2>1, <4>1, <4>2, <4>3
    <3> QED
      BY <2>0, <3>1 DEF NameFits
  <2> QED
    BY <2>6, <2>7
<1>8. CASE n > 0 /\ ~ (b.entry[b.head].first >= first) /\ ~ (b.entry[b.tail].first <= first)
  <2>0. n \in 1..n /\ 1 \in 1..n
    BY <1>8
  <2>1. b.head = c[1] /\ b.tail = c[n] /\ c[1] # Queue!NULL
    BY <1>1, <1>3, <2>0 DEF At
  <2>2. b.entry[b.head].first \in Int /\ b.entry[b.tail].first \in Int
    BY <1>1, <1>3, <2>0, <2>1
  <2>3. PICK k \in 1..(n - 1) : List!StopsAt(b, first) = c[k] /\ NameFits(b, c, k + 1, first)
    BY SMTT(40), <1>8, <2>2, StopsThere
  <2>4. l = List!Between(b, c[k], e)
    <3>1. b.head # List!NULL /\ ~ (b.entry[b.head].first >= first) /\ ~ (b.entry[b.tail].first <= first)
      BY <1>4, <1>8, <2>1
    <3> QED
      BY <2>3, <3>1 DEF List!insert_to_linked_list
  <2>5. k \in 1..n /\ k + 1 \in 1..n /\ k + 1 \in 1..(n + 1) /\ k + 1 - 1 = k
    OBVIOUS
  <2>6. /\ At(c, k) = c[k] /\ At(c, k + 1) = c[k + 1]
        /\ c[k] # Queue!NULL /\ c[k + 1] # Queue!NULL /\ c[k] # e /\ c[k + 1] # e
    BY <1>3, <2>5 DEF At
  <2>7. b.next[c[k]] = c[k + 1]
    BY <2>5, <2>6 DEF ListChain, DoublyLinked, Chained
  <2>8. PICK p, a : p = c[k] /\ a = c[k + 1]
    OBVIOUS
  <2>9. PICK f, g : /\ f = List!Set(List!Set(b.next, List!To(e, a)), List!To(p, e))
                    /\ g = List!Set(List!Set(b.prev, List!To(e, p)), List!To(a, e))
    OBVIOUS
  <2>10. l = [head |-> b.head, tail |-> b.tail, next |-> f, prev |-> g,
              entry |-> b.entry, size |-> b.size, next_id |-> b.next_id]
    BY ZenonT(60), <1>2, <2>4, <2>7, <2>8, <2>9 DEF List!Between
  <2>11. Linked(f, b.next, e, a, p) /\ Linked(g, b.prev, e, p, a)
    BY <2>6, <2>8, <2>9, SetList
  <2>12. JoinsList(b, l, c, k + 1, e)
    BY <2>5, <2>6, <2>8, <2>10, <2>11 DEF JoinsList
  <2> QED
    BY <2>3, <2>5, <2>12
<1> QED
  BY <1>5, <1>6, <1>7, <1>8

\* A contact is added: its node is in the chain, where its name belongs.
LEMMA ListAdd ==
  ASSUME NEW b, NEW ordered \in BOOLEAN, ListInv(b, ordered), NEW e \in EntriesOf("list"),
         NEW d, d = List!add_contact(b, e)
  PROVE  /\ ListInv(d, ordered) /\ d.next_id = b.next_id + 1
         /\ Stores(List!Contents(b), List!Contents(d), b.next_id, e)
<1>1. PICK c \in Seq(Nat) : ListChain(b, c) /\ (ordered => Ascending(FirstNames(b), c))
  BY DEF ListInv
<1>2. PICK n \in Nat : n = Len(c)
  OBVIOUS
<1>3. /\ \A i \in 1..n : c[i] \in Nat /\ c[i] < b.next_id
      /\ DOMAIN b.next = NodesOf(c) /\ DOMAIN b.entry = DOMAIN b.next
      /\ \A p \in DOMAIN b.next : b.entry[p].first \in Int /\ b.entry[p] \in EntriesOf("list")
      /\ \A i, j \in 1..n : c[i] = c[j] => i = j
  BY <1>1, <1>2, ListNodes
<1>4. b.next_id \in Nat /\ b.size = n /\ DoublyLinked(b.head, b.tail, b.next, b.prev, c)
  BY <1>1, <1>2 DEF ListChain
<1>5. PICK m \in Nat : m = b.next_id
  BY <1>4
<1>6. e.first \in Int
  BY EntryTypes
<1>7. PICK l : l = List!insert_to_linked_list(b, m, e.first)
  OBVIOUS
<1>8. \A i \in 1..n : c[i] # m
  BY <1>3, <1>5
<1>9. PICK k \in 1..(n + 1) :
         /\ JoinsList(b, l, c, k, m)
         /\ Ascending(FirstNames(b), c) => NameFits(b, c, k, e.first)
  BY <1>1, <1>2, <1>6, <1>7, <1>8, ListInsert
<1>10. PICK x : x = List!Set(b.entry, List!To(m, e))
  OBVIOUS
<1>11. /\ d = [head |-> l.head, tail |-> l.tail, next |-> l.next, prev |-> l.prev,
               entry |-> x, size |-> n + 1, next_id |-> m + 1]
  <2>1. d = [l EXCEPT !.entry = List!Set(@, List!To(m, e)), !.size = @ + 1, !.next_id = @ + 1]
    BY <1>5, <1>7 DEF List!add_contact
  <2>2. l = [head |-> l.head, tail |-> l.tail, next |-> l.next, prev |-> l.prev,
             entry |-> b.entry, size |-> b.size, next_id |-> b.next_id]
    BY <1>9 DEF JoinsList
  <2>3. l.entry = b.entry /\ l.size = n /\ l.next_id = m
    BY <1>4, <1>5, <2>2
  <2>4. d = [l EXCEPT !.entry = x, !.size = n + 1, !.next_id = m + 1]
    BY <1>10, <2>1, <2>2, <2>3
  <2> QED
    BY <2>2, <2>4
<1>12. /\ d.head = l.head /\ d.tail = l.tail /\ d.next = l.next /\ d.prev = l.prev
       /\ d.entry = x /\ d.size = n + 1 /\ d.next_id = m + 1
       /\ d = [head |-> d.head, tail |-> d.tail, next |-> d.next, prev |-> d.prev,
               entry |-> d.entry, size |-> d.size, next_id |-> d.next_id]
  BY <1>11
<1>13. PICK r : r = With(c, k, m)
  OBVIOUS
<1>14. IsWith(r, c, n, k, m)
  BY <1>2, <1>3, <1>8, <1>13, WithAll
<1>15. DoublyLinked(d.head, d.tail, d.next, d.prev, r)
  <2>1. PICK h, t, f, g : h = b.head /\ t = b.tail /\ f = b.next /\ g = b.prev
    OBVIOUS
  <2>2. PICK h2, t2, f2, g2 : h2 = d.head /\ t2 = d.tail /\ f2 = d.next /\ g2 = d.prev
    OBVIOUS
  <2>3. PICK a, p : a = At(c, k) /\ p = At(c, k - 1)
    OBVIOUS
  <2>4. DoublyLinked(h, t, f, g, c)
    BY <1>4, <2>1
  <2>5. /\ Linked(f2, f, m, a, p) /\ Linked(g2, g, m, p, a)
        /\ h2 = IF p = Queue!NULL THEN m ELSE h
        /\ t2 = IF a = Queue!NULL THEN m ELSE t
    BY <1>9, <1>12, <2>1, <2>2, <2>3 DEF JoinsList
  <2>6. DoublyLinked(h2, t2, f2, g2, r)
    BY SMTT(40), <1>2, <1>8, <1>13, <1>14, <2>3, <2>4, <2>5, JoinsTheChain
  <2> QED
    BY <2>2, <2>6
<1>16. /\ r \in Seq(Nat) /\ Len(r) = n + 1
       /\ {r[i] : i \in 1..(n + 1)} = {c[i] : i \in 1..n} \union {m}
  BY <1>14 DEF IsWith
<1>17. NodesOf(r) = NodesOf(c) \union {m}
  BY <1>2, <1>16 DEF NodesOf
<1>18. DOMAIN d.next = NodesOf(r)
  BY <1>15 DEF DoublyLinked, Chained, NodesOf
<1>19. /\ DOMAIN x = NodesOf(r) /\ x[m] = e
       /\ \A p \in NodesOf(c) : p # m => x[p] = b.entry[p]
  <2>1. /\ DOMAIN x = DOMAIN b.entry \union {m} /\ x[m] = e
        /\ \A p \in DOMAIN b.entry : p # m => x[p] = b.entry[p]
    BY <1>10 DEF List!Set, List!To
  <2> QED
    BY <1>3, <1>17, <2>1
<1>20. m \notin NodesOf(c)
  BY <1>2, <1>8 DEF NodesOf
<1>21. ListChain(d, r)
  <2>1. x \in [NodesOf(r) -> EntriesOf("list")]
    <3>1. \A p \in NodesOf(r) : x[p] \in EntriesOf("list")
      BY <1>3, <1>17, <1>19
    <3>2. x = [p \in DOMAIN x |-> x[p]]
      BY <1>10 DEF List!Set
    <3> QED
      BY <1>19, <3>1, <3>2
  <2>2. \A i \in 1..Len(r) : r[i] < d.next_id
    <3> SUFFICES ASSUME NEW i \in 1..Len(r) PROVE r[i] < m + 1
      BY <1>12
    <3>1. r[i] \in NodesOf(r)
      BY DEF NodesOf
    <3>2. CASE r[i] = m
      BY <3>2
    <3>3. CASE r[i] \in NodesOf(c)
      <4>1. PICK j \in 1..n : r[i] = c[j]
        BY <1>2, <3>3 DEF NodesOf
      <4> QED
        BY <1>3, <1>5, <4>1
    <3> QED
      BY <1>17, <3>1, <3>2, <3>3
  <2>3. d.entry \in [DOMAIN d.next -> EntriesOf("list")]
    BY <1>12, <1>18, <2>1
  <2> QED
    BY <1>12, <1>15, <1>16, <2>2, <2>3 DEF ListChain
<1>22. ASSUME ordered PROVE Ascending(FirstNames(d), r)
  <2>1. PICK v, w : v = FirstNames(b) /\ w = FirstNames(d)
    OBVIOUS
  <2>2. /\ \A p \in NodesOf(c) : v[p] = b.entry[p].first
        /\ \A p \in NodesOf(r) : w[p] = x[p].first
    BY <1>3, <1>12, <1>19, <2>1 DEF FirstNames
  <2>3. w[m] = e.first
    BY <1>17, <1>19, <2>2
  <2>4. \A i \in 1..n : c[i] \in NodesOf(c) /\ c[i] \in NodesOf(r)
    BY <1>2, <1>17 DEF NodesOf
  <2>5. \A i \in 1..n : /\ v[c[i]] = b.entry[c[i]].first /\ w[c[i]] = v[c[i]]
                        /\ v[c[i]] \in Int
    BY <1>3, <1>8, <1>19, <2>2, <2>4
  <2>6. NameFits(b, c, k, e.first)
    BY <1>1, <1>9, <1>22
  <2>7. FitsAt(v, w, c, k, m)
    <3>1. \A i \in 1..(k - 1) : i \in 1..n
      OBVIOUS
    <3>2. k <= n => k \in 1..n
      OBVIOUS
    <3>3. \A i \in 1..(k - 1) : v[c[i]] <= w[m]
      BY <2>3, <2>5, <2>6, <3>1 DEF NameFits
    <3>4. k <= n => w[m] <= v[c[k]]
      BY <1>2, <2>3, <2>5, <2>6, <3>2 DEF NameFits
    <3> QED
      BY <1>2, <1>6, <2>3, <2>5, <3>3, <3>4 DEF FitsAt
  <2>8. Ascending(v, c)
    BY <1>1, <1>22, <2>1
  <2>9. Ascending(w, r)
    BY <1>2, <1>14, <2>7, <2>8, OrderedWith
  <2> QED
    BY <2>1, <2>9
<1>23. ListInv(d, ordered)
  BY <1>16, <1>21, <1>22 DEF ListInv
<1>24. Stores(List!Contents(b), List!Contents(d), m, e)
  <2>1. /\ DOMAIN List!Contents(b) = DOMAIN b.next
        /\ \A p \in DOMAIN b.next : List!Contents(b)[p] = b.entry[p]
    BY <1>1, ListContents
  <2>2. /\ DOMAIN List!Contents(d) = DOMAIN d.next
        /\ \A p \in DOMAIN d.next : List!Contents(d)[p] = d.entry[p]
    BY <1>16, <1>21, ListContents
  <2> QED
    BY <1>3, <1>12, <1>17, <1>18, <1>19, <1>20, <2>1, <2>2 DEF Stores
<1> QED
  BY <1>5, <1>12, <1>23, <1>24

\* A node of the list is found by its id.
LEMMA ListHas ==
  ASSUME NEW b, NEW c \in Seq(Nat), ListChain(b, c), NEW p \in DOMAIN b.next
  PROVE  List!find_node(b, {p}) = p
<1>1. PICK a : a = List!find_node(b, {p})
  OBVIOUS
<1>2. a # NotFound /\ a \in {p}
  BY <1>1, ListFind
<1> QED
  BY <1>1, <1>2

\* An update changes the entry of one contact where it is; the order of the names is
\* kept when the first name is.
LEMMA ListUpdate ==
  ASSUME NEW b, NEW ordered \in BOOLEAN, ListInv(b, ordered),
         NEW id0 \in DOMAIN List!Contents(b), NEW e \in EntriesOf("list"),
         NEW d, d = List!update_contact(b, id0, e)
  PROVE  /\ ListInv(d, ordered /\ e.first = List!Contents(b)[id0].first)
         /\ d.next_id = b.next_id
         /\ Stores(List!Contents(b), List!Contents(d), id0, e)
<1>1. PICK c \in Seq(Nat) : ListChain(b, c) /\ (ordered => Ascending(FirstNames(b), c))
  BY DEF ListInv
<1>2. /\ DOMAIN List!Contents(b) = DOMAIN b.next
      /\ \A p \in DOMAIN b.next : List!Contents(b)[p] = b.entry[p]
  BY <1>1, ListContents
<1>3. List!find_node(b, {id0}) = id0
  BY <1>1, <1>2, ListHas
<1>4. /\ b = [head |-> b.head, tail |-> b.tail, next |-> b.next, prev |-> b.prev,
              entry |-> b.entry, size |-> b.size, next_id |-> b.next_id]
      /\ b.entry \in [DOMAIN b.next -> EntriesOf("list")]
  BY <1>1 DEF ListChain
<1>5. PICK x : x = [b.entry EXCEPT ![id0] = e]
  OBVIOUS
<1>6. d = [b EXCEPT !.entry[id0] = e]
  BY <1>3 DEF List!update_contact
<1>7. d = [head |-> b.head, tail |-> b.tail, next |-> b.next, prev |-> b.prev,
           entry |-> x, size |-> b.size, next_id |-> b.next_id]
  BY <1>4, <1>5, <1>6
<1>8. /\ d.head = b.head /\ d.tail = b.tail /\ d.next = b.next /\ d.prev = b.prev
      /\ d.entry = x /\ d.size = b.size /\ d.next_id = b.next_id
      /\ d = [head |-> d.head, tail |-> d.tail, next |-> d.next, prev |-> d.prev,
              entry |-> d.entry, size |-> d.size, next_id |-> d.next_id]
  BY <1>7
<1>9. /\ x \in [DOMAIN b.next -> EntriesOf("list")]
      /\ x[id0] = e
      /\ \A p \in DOMAIN b.next : p # id0 => x[p] = b.entry[p]
  BY <1>2, <1>4, <1>5
<1>10. ListChain(d, c)
  <2>1. DoublyLinked(d.head, d.tail, d.next, d.prev, c)
    BY <1>1, <1>8 DEF ListChain
  <2>2. d.size = Len(c) /\ d.next_id \in Nat /\ \A i \in 1..Len(c) : c[i] < d.next_id
    BY <1>1, <1>8 DEF ListChain
  <2>3. d.entry \in [DOMAIN d.next -> EntriesOf("list")]
    BY <1>8, <1>9
  <2> QED
    BY <1>8, <2>1, <2>2, <2>3 DEF ListChain
<1>11. ASSUME ordered, e.first = List!Contents(b)[id0].first
       PROVE  Ascending(FirstNames(d), c)
  <2>1. FirstNames(d) = FirstNames(b)
    <3>1. DOMAIN x = DOMAIN b.entry
      BY <1>4, <1>9
    <3>2. \A p \in DOMAIN x : x[p].first = b.entry[p].first
      BY <1>2, <1>9, <1>11
    <3>3. FirstNames(d) = [p \in DOMAIN x |-> x[p].first]
      BY <1>8 DEF FirstNames
    <3> QED
      BY <3>1, <3>2, <3>3 DEF FirstNames
  <2> QED
    BY <1>1, <1>11, <2>1
<1>12. ListInv(d, ordered /\ e.first = List!Contents(b)[id0].first)
  BY <1>10, <1>11 DEF ListInv
<1>13. Stores(List!Contents(b), List!Contents(d), id0, e)
  <2>1. /\ DOMAIN List!Contents(d) = DOMAIN d.next
        /\ \A p \in DOMAIN d.next : List!Contents(d)[p] = d.entry[p]
    BY <1>10, ListContents
  <2> QED
    BY <1>2, <1>8, <1>9, <2>1 DEF Stores
<1> QED
  BY <1>8, <1>12, <1>13

\* A deletion unlinks the one node of the contact.
LEMMA ListDelete ==
  ASSUME NEW b, NEW ordered \in BOOLEAN, ListInv(b, ordered),
         NEW id0 \in DOMAIN List!Contents(b), NEW d, d = List!delete_contact(b, id0)
  PROVE  /\ ListInv(d, ordered) /\ d.next_id = b.next_id
         /\ Removes(List!Contents(b), List!Contents(d), id0)
<1>1. PICK c \in Seq(Nat) : ListChain(b, c) /\ (ordered => Ascending(FirstNames(b), c))
  BY DEF ListInv
<1>2. PICK n \in Nat : n = Len(c)
  OBVIOUS
<1>3. /\ DOMAIN List!Contents(b) = DOMAIN b.next
      /\ \A p \in DOMAIN b.next : List!Contents(b)[p] = b.entry[p]
  BY <1>1, ListContents
<1>4. /\ \A i \in 1..n : c[i] \in Nat /\ c[i] < b.next_id
      /\ DOMAIN b.next = NodesOf(c) /\ DOMAIN b.entry = DOMAIN b.next
      /\ DOMAIN b.prev = DOMAIN b.next
      /\ \A i, j \in 1..n : c[i] = c[j] => i = j
  BY <1>1, <1>2, ListNodes
<1>5. /\ b = [head |-> b.head, tail |-> b.tail, next |-> b.next, prev |-> b.prev,
              entry |-> b.entry, size |-> b.size, next_id |-> b.next_id]
      /\ b.entry \in [DOMAIN b.next -> EntriesOf("list")] /\ b.size = n /\ b.next_id \in Nat
  BY <1>1, <1>2 DEF ListChain
<1>6. PICK k \in 1..n : id0 = c[k]
  BY <1>2, <1>3, <1>4 DEF NodesOf
<1>7. List!find_node(b, {id0}) = id0
  BY <1>1, <1>3, ListHas
<1>8. PICK a, p : a = At(c, k + 1) /\ p = At(c, k - 1)
  OBVIOUS
<1>9. b.next[id0] = a /\ b.prev[id0] = p
  BY SMTT(40), <1>1, <1>2, <1>6, <1>8, ListLinks
<1>10. PICK f, g, x, rest :
          /\ rest = DOMAIN b.next \ {id0}
          /\ f = List!Restrict(List!Set(b.next, List!To(p, a)), rest)
          /\ g = List!Restrict(List!Set(b.prev, List!To(a, p)), rest)
          /\ x = List!Restrict(b.entry, DOMAIN b.entry \ {id0})
  OBVIOUS
<1>11. PICK l : l = List!Unlink(b, id0)
  OBVIOUS
<1>12. l = [head |-> IF p = Queue!NULL THEN a ELSE b.head,
            tail |-> IF a = Queue!NULL THEN p ELSE b.tail, next |-> f, prev |-> g,
            entry |-> b.entry, size |-> n, next_id |-> b.next_id]
  <2>1. l = [b EXCEPT !.head = IF p = List!NULL THEN a ELSE @,
                      !.tail = IF a = List!NULL THEN p ELSE @,
                      !.next = f, !.prev = g]
    BY <1>9, <1>10, <1>11 DEF List!Unlink
  <2>2. List!NULL = Queue!NULL
    BY DEF List!NULL, Queue!NULL
  <2> QED
    BY <1>5, <2>1, <2>2
<1>13. d = [l EXCEPT !.entry = x, !.size = n - 1]
  <2>1. d = [l EXCEPT !.entry = List!Restrict(@, DOMAIN @ \ {id0}), !.size = @ - 1]
    BY <1>7, <1>11 DEF List!delete_contact
  <2>2. l.entry = b.entry /\ l.size = n
    BY <1>12
  <2> QED
    BY <1>10, <1>12, <2>1, <2>2
<1>14. /\ d.head = (IF p = Queue!NULL THEN a ELSE b.head)
       /\ d.tail = (IF a = Queue!NULL THEN p ELSE b.tail)
       /\ d.next = f /\ d.prev = g
       /\ d.entry = x /\ d.size = n - 1 /\ d.next_id = b.next_id
       /\ d = [head |-> d.head, tail |-> d.tail, next |-> d.next, prev |-> d.prev,
               entry |-> d.entry, size |-> d.size, next_id |-> d.next_id]
  BY <1>12, <1>13
<1>15. Queue!NULL \notin DOMAIN b.next
  <2>1. \A i \in 1..n : c[i] # Queue!NULL
    BY <1>4 DEF Queue!NULL
  <2> QED
    BY <1>2, <1>4, <2>1 DEF NodesOf
<1>16. Skipping(f, b.next, id0, a, p) /\ Skipping(g, b.prev, id0, p, a)
  <2>1. /\ DOMAIN f = rest /\ DOMAIN g = rest
        /\ \A y \in rest : f[y] = List!Set(b.next, List!To(p, a))[y]
        /\ \A y \in rest : g[y] = List!Set(b.prev, List!To(a, p))[y]
    BY <1>10 DEF List!Restrict
  <2>2. \A y \in rest : f[y] = IF y = p THEN a ELSE b.next[y]
    BY <1>10, <2>1 DEF List!Set, List!To
  <2>3. \A y \in rest : g[y] = IF y = a THEN p ELSE b.prev[y]
    BY <1>4, <1>10, <2>1 DEF List!Set, List!To
  <2>4. \A y \in rest : y # Queue!NULL
    BY <1>10, <1>15
  <2>5. DOMAIN f = DOMAIN b.next \ {id0} /\ DOMAIN g = DOMAIN b.prev \ {id0}
    BY <1>4, <1>10, <2>1
  <2>6. Skipping(f, b.next, id0, a, p)
    BY <2>1, <2>2, <2>4, <2>5 DEF Skipping
  <2>7. Skipping(g, b.prev, id0, p, a)
    BY <2>1, <2>3, <2>4, <2>5 DEF Skipping
  <2> QED
    BY <2>6, <2>7
<1>17. PICK r : r = Without(c, k)
  OBVIOUS
<1>18. IsWithout(r, c, n, k)
  BY <1>2, <1>4, <1>17, WithoutOne
<1>19. /\ r \in Seq(Nat) /\ Len(r) = n - 1
       /\ {r[i] : i \in 1..(n - 1)} = {c[i] : i \in 1..n} \ {c[k]}
  BY <1>18 DEF IsWithout
<1>20. NodesOf(r) = NodesOf(c) \ {id0}
  BY <1>2, <1>6, <1>19 DEF NodesOf
<1>21. DoublyLinked(d.head, d.tail, d.next, d.prev, r)
  <2>1. PICK h, t, f1, g1 : h = b.head /\ t = b.tail /\ f1 = b.next /\ g1 = b.prev
    OBVIOUS
  <2>2. PICK h2, t2 : h2 = d.head /\ t2 = d.tail
    OBVIOUS
  <2>3. DoublyLinked(h, t, f1, g1, c)
    BY <1>1, <2>1 DEF ListChain
  <2>4. id0 = At(c, k)
    BY <1>2, <1>6 DEF At
  <2>5. Skipping(f, f1, id0, a, p) /\ Skipping(g, g1, id0, p, a)
    BY <1>16, <2>1
  <2>6. /\ h2 = IF p = Queue!NULL THEN a ELSE h
        /\ t2 = IF a = Queue!NULL THEN p ELSE t
    BY <1>14, <2>1, <2>2
  <2>7. DoublyLinked(h2, t2, f, g, r)
    <3>1. n = Len(c) /\ DoublyLinked(h, t, f1, g1, c)
      BY <1>2, <2>3
    <3>2. id0 = At(c, k) /\ r = Without(c, k) /\ IsWithout(r, c, n, k)
      BY <1>17, <1>18, <2>4
    <3>3. a = At(c, k + 1) /\ p = At(c, k - 1)
      BY <1>8
    <3>4. Skipping(f, f1, id0, a, p) /\ Skipping(g, g1, id0, p, a)
      BY <2>5
    <3> QED
      BY <2>6, <3>1, <3>2, <3>3, <3>4, LeavesTheChain, SMTT(60)
  <2> QED
    BY <1>14, <2>2, <2>7
<1>22. /\ DOMAIN x = NodesOf(r) /\ DOMAIN d.next = NodesOf(r)
       /\ \A y \in NodesOf(r) : x[y] = b.entry[y]
       /\ x = [y \in NodesOf(r) |-> b.entry[y]]
  <2>1. x = [y \in NodesOf(r) |-> b.entry[y]]
    BY <1>4, <1>10, <1>20 DEF List!Restrict
  <2>2. DOMAIN d.next = NodesOf(r)
    BY <1>21 DEF DoublyLinked, Chained, NodesOf
  <2> QED
    BY <2>1, <2>2
<1>23. ListChain(d, r)
  <2>1. d.entry \in [DOMAIN d.next -> EntriesOf("list")]
    BY <1>4, <1>5, <1>14, <1>20, <1>22
  <2>2. \A i \in 1..Len(r) : r[i] < d.next_id
    <3> SUFFICES ASSUME NEW i \in 1..Len(r) PROVE r[i] < d.next_id
      OBVIOUS
    <3>1. r[i] \in NodesOf(r)
      BY DEF NodesOf
    <3>2. PICK j \in 1..n : r[i] = c[j]
      BY <1>2, <1>20, <3>1 DEF NodesOf
    <3> QED
      BY <1>4, <1>14, <3>2
  <2>3. d.size = Len(r) /\ d.next_id \in Nat
    BY <1>5, <1>14, <1>19
  <2> QED
    BY <1>14, <1>21, <2>1, <2>2, <2>3 DEF ListChain
<1>24. ASSUME ordered PROVE Ascending(FirstNames(d), r)
  <2>1. PICK v, w : v = FirstNames(b) /\ w = FirstNames(d)
    OBVIOUS
  <2>2. Ascending(v, c)
    BY <1>1, <1>24, <2>1
  <2>3. Ascending(v, r)
    BY <1>2, <1>18, <2>2, OrderedWithout
  <2>4. \A y \in NodesOf(r) : w[y] = v[y]
    BY <1>4, <1>14, <1>20, <1>22, <2>1 DEF FirstNames
  <2>5. \A i \in 1..Len(r) : w[r[i]] = v[r[i]]
    BY <2>4 DEF NodesOf
  <2>6. Ascending(w, r)
    BY <2>3, <2>5 DEF Ascending
  <2> QED
    BY <2>1, <2>6
<1>25. ListInv(d, ordered)
  BY <1>19, <1>23, <1>24 DEF ListInv
<1>26. Removes(List!Contents(b), List!Contents(d), id0)
  <2>1. /\ DOMAIN List!Contents(d) = DOMAIN d.next
        /\ \A y \in DOMAIN d.next : List!Contents(d)[y] = d.entry[y]
    BY <1>19, <1>23, ListContents
  <2> QED
    BY <1>3, <1>4, <1>14, <1>20, <1>22, <2>1 DEF Removes
<1> QED
  BY <1>14, <1>25, <1>26

\* Along places 1 to n + 1: what one place has because the next one has it, and the
\* last has, they all have. T are the places that do not.
LEMMA FromTheEnd ==
  ASSUME NEW n \in Nat, NEW T \in SUBSET (1..(n + 1)), n + 1 \notin T,
         \A i \in 1..n : i \in T => i + 1 \in T
  PROVE  T = {}
<1> SUFFICES ASSUME T # {} PROVE FALSE
  OBVIOUS
<1>0. PICK l \in Nat : l = n + 1
  OBVIOUS
<1>1. PICK m \in T : \A k \in T : k <= m
  BY <1>0, LargestOf
<1>2. m \in 1..n /\ m + 1 \in T
  BY <1>1
<1> QED
  BY <1>1, <1>2

\* The remainders that the heights are compared with.
LEMMA ByteRest ==
  ASSUME NEW B \in Nat, B > 2, NEW k \in Nat, k < B - 1
  PROVE  (0 - k) % B = 2 <=> k = B - 2
<1>1. CASE k = 0
  BY <1>1
<1>2. CASE k > 0
  <2>1. (0 - k) % B = B - k
    BY <1>2
  <2> QED
    BY <2>1
<1> QED
  BY <1>1, <1>2

\* A height below the size of a byte is stored as it is.
LEMMA ByteKeeps ==
  ASSUME NEW B \in Nat, B > 2, NEW k \in 0..(B - 1)
  PROVE  k % B = k
OBVIOUS

\* The node p of M has no right child, and q is of height k.
Ready(M, p, q, k) ==
  /\ p \in DOMAIN M /\ p # Queue!NULL
  /\ \E a, z : M[p] = [left |-> a, right |-> Queue!NULL, height |-> z]
  /\ q # p /\ q \in DOMAIN M \union {Queue!NULL}
  /\ k = IF q = Queue!NULL THEN 0 ELSE M[q].height

\* The tree t has the nodes of M, with q of height k to the left of its root p.
Hung(t, M, p, q, k) ==
  \E N : /\ t = [root |-> p, nodes |-> N] /\ DOMAIN N = DOMAIN M
         /\ N[p] = [left |-> q, right |-> Queue!NULL, height |-> k + 1]
         /\ \A x \in DOMAIN M : x # p => N[x] = M[x]

\* A node without a right child gets a left child of height k: it is balanced, unless
\* the difference of heights looks like 2.
LEMMA HangsLeft ==
  ASSUME NEW M, NEW p, NEW q, NEW k \in Nat, k < BYTE - 1, Ready(M, p, q, k),
         NEW t, t = [root |-> q, nodes |-> M], t # Avl!Crashed
  PROVE  /\ k # BYTE - 2 => Hung(Avl!Hang(t, p, "left"), M, p, q, k)
         /\ k = BYTE - 2 => Avl!Hang(t, p, "left") = Avl!Crashed
<1>b. PICK a, z : M[p] = [left |-> a, right |-> Queue!NULL, height |-> z]
  BY DEF Ready
<1>c. /\ p \in DOMAIN M /\ p # Queue!NULL
      /\ q # p /\ q \in DOMAIN M \union {Queue!NULL}
      /\ k = IF q = Queue!NULL THEN 0 ELSE M[q].height
  BY DEF Ready
<1>0. BYTE \in Nat /\ BYTE > 2 /\ Queue!NULL = Avl!NULL
  BY BooksAssumption DEF Queue!NULL, Avl!NULL
<1>1. PICK U : U = [M EXCEPT ![p]["left"] = q]
  OBVIOUS
<1>2. /\ DOMAIN U = DOMAIN M
      /\ U[p] = [left |-> q, right |-> Queue!NULL, height |-> z]
      /\ \A x \in DOMAIN M : x # p => U[x] = M[x]
  <2>1. U[p] = [M[p] EXCEPT !["left"] = q]
    BY <1>c, <1>1
  <2>2. U[p] = [left |-> q, right |-> Queue!NULL, height |-> z]
    BY <1>b, <2>1
  <2> QED
    BY <1>c, <1>1, <2>2
<1>3. Avl!Hang(t, p, "left") = Avl!make_balance(U, p)
  BY <1>1 DEF Avl!Hang
<1>4. PICK N : N = [U EXCEPT ![p].height = k + 1]
  OBVIOUS
<1>5. /\ DOMAIN N = DOMAIN M
      /\ N[p] = [left |-> q, right |-> Queue!NULL, height |-> k + 1]
      /\ \A x \in DOMAIN M : x # p => N[x] = M[x]
  BY <1>c, <1>2, <1>4
<1>6. Avl!height(U, U[p].left) = k /\ Avl!height(U, U[p].right) = 0
  BY <1>c, <1>0, <1>2 DEF Avl!height
<1>7. Avl!fix_height(U, p) = N
  <2>1. (k + 1) % BYTE = k + 1
    BY <1>0, ByteKeeps
  <2>2. (IF 0 > k THEN 0 ELSE k) = k
    OBVIOUS
  <2> QED
    BY <1>4, <1>6, <2>1, <2>2 DEF Avl!fix_height
<1>8. Avl!balance_check(N, p) = (0 - k) % BYTE
  <2>1. Avl!height(N, N[p].left) = k /\ Avl!height(N, N[p].right) = 0
    BY <1>c, <1>0, <1>5 DEF Avl!height
  <2> QED
    BY <2>1 DEF Avl!balance_check
<1>9. Avl!balance_check(N, p) = 2 <=> k = BYTE - 2
  BY <1>0, <1>8, ByteRest
<1>10. Avl!make_balance(U, p) =
         IF k # BYTE - 2 THEN [root |-> p, nodes |-> N] ELSE Avl!Crashed
  BY <1>0, <1>5, <1>7, <1>9 DEF Avl!make_balance
<1> QED
  BY <1>3, <1>5, <1>10 DEF Hung

\* Place i of a tree that is a chain of left children.
SpineNode(c, i) == [left |-> At(c, i + 1), right |-> Queue!NULL, height |-> Len(c) - i + 1]

\* The nodes of c, in the order of their keys, from place i on; a tree that is all
\* of them.
SpineFrom(M, c, i) ==
  /\ \A k, j \in 1..Len(c) : k < j => c[k] < c[j]
  /\ DOMAIN M = NodesOf(c)
  /\ \A j \in i..Len(c) : M[c[j]] = SpineNode(c, j)
\* A whole tree is such a spine.
Spine(t, c) ==
  /\ t = [root |-> At(c, 1), nodes |-> t.nodes]
  /\ SpineFrom(t.nodes, c, 1)

\* Such nodes, by place: n is the number of them.
ByPlaces(M, c, n) ==
  /\ n = Len(c)
  /\ \A i \in 1..n : c[i] \in DOMAIN M /\ c[i] \in Nat /\ At(c, i) = c[i] /\ c[i] # Queue!NULL
  /\ \A p \in DOMAIN M : \E i \in 1..n : p = c[i]
  /\ \A i, j \in 1..n : i < j => c[i] < c[j]
  /\ \A i, j \in 1..n : c[i] = c[j] => i = j
  /\ \A i, j \in 1..n : c[i] <= c[j] <=> i <= j
  /\ At(c, n + 1) = Queue!NULL /\ Queue!NULL \notin DOMAIN M
  /\ \A i \in 1..(n + 1) : At(c, i) \in DOMAIN M \union {Queue!NULL}

\* A spine is such a sequence.
LEMMA SpinePlaces ==
  ASSUME NEW M, NEW c \in Seq(Nat), NEW i0, SpineFrom(M, c, i0), NEW n \in Nat, n = Len(c)
  PROVE  ByPlaces(M, c, n)
<1>1. /\ \A i, j \in 1..n : i < j => c[i] < c[j]
      /\ DOMAIN M = NodesOf(c)
  BY DEF SpineFrom
<1>2. \A i \in 1..n : c[i] \in NodesOf(c) /\ c[i] \in Nat /\ At(c, i) = c[i] /\ c[i] # Queue!NULL
  BY DEF NodesOf, At, Queue!NULL
<1>3. \A p \in DOMAIN M : \E i \in 1..n : p = c[i]
  BY <1>1 DEF NodesOf
<1>4. ASSUME NEW i \in 1..n, NEW j \in 1..n, c[i] = c[j] PROVE i = j
  <2>1. i < j \/ j < i \/ i = j
    OBVIOUS
  <2> QED
    BY <1>1, <1>2, <1>4, <2>1
<1>5. At(c, n + 1) = Queue!NULL /\ Queue!NULL \notin DOMAIN M
  BY <1>2, <1>3 DEF At
<1>6. \A i \in 1..(n + 1) : At(c, i) \in DOMAIN M \union {Queue!NULL}
  BY <1>1, <1>2, <1>5
<1>7. ASSUME NEW i \in 1..n, NEW j \in 1..n PROVE c[i] <= c[j] <=> i <= j
  <2>1. i < j \/ j < i \/ i = j
    OBVIOUS
  <2>2. (i < j => c[i] < c[j]) /\ (j < i => c[j] < c[i]) /\ c[i] \in Nat /\ c[j] \in Nat
    BY <1>1, <1>2
  <2> QED
    BY <2>1, <2>2
<1> QED
  BY <1>1, <1>2, <1>3, <1>4, <1>5, <1>6, <1>7 DEF ByPlaces

\* What Below and search_node look up are solutions of these equations.
BelowOf(g, M) ==
  g = [q \in DOMAIN M \union {Queue!NULL} |->
         IF q = Queue!NULL THEN {} ELSE {q} \union g[M[q].left] \union g[M[q].right]]
\* The names or ids that end a search are Equal, those that send it left are Smaller.
Searches(g, M, Equal, Smaller) ==
  g = [q \in DOMAIN M \union {Queue!NULL} |->
         IF q = Queue!NULL \/ q \in Equal THEN q
         ELSE IF q \in Smaller THEN g[M[q].left] ELSE g[M[q].right]]

\* Below is such a function, if there is one.
LEMMA BelowDef ==
  ASSUME NEW M, NEW p, \E g : BelowOf(g, M)
  PROVE  \E g : BelowOf(g, M) /\ Avl!Below(M, p) = g[p]
<1> DEFINE g == CHOOSE g : BelowOf(g, M)
<1>1. BelowOf(g, M)
  BY Zenon
<1>2. Avl!Below(M, p) = g[p]
  BY Zenon DEF Avl!Below, BelowOf, Avl!NULL, Queue!NULL
<1> HIDE DEF g
<1> QED
  BY <1>1, <1>2, Zenon

\* So is search_node.
LEMMA SearchDef ==
  ASSUME NEW M, NEW p, NEW Equal, NEW Smaller, \E g : Searches(g, M, Equal, Smaller)
  PROVE  \E g : Searches(g, M, Equal, Smaller) /\ Avl!search_node(M, p, Equal, Smaller) = g[p]
<1> DEFINE g == CHOOSE g : Searches(g, M, Equal, Smaller)
<1>1. Searches(g, M, Equal, Smaller)
  BY Zenon
<1>2. Avl!search_node(M, p, Equal, Smaller) = g[p]
  BY Zenon DEF Avl!search_node, Searches, Avl!NULL, Queue!NULL
<1> HIDE DEF g
<1> QED
  BY <1>1, <1>2, Zenon

\* Below a node of such a tree are the nodes that follow it.
LEMMA SpineBelow ==
  ASSUME NEW M, NEW c \in Seq(Nat), SpineFrom(M, c, 1), NEW n \in Nat, n = Len(c),
         NEW k \in 1..(n + 1)
  PROVE  \A x : x \in Avl!Below(M, At(c, k)) <=> \E j \in k..n : x = c[j]
<1>0. ByPlaces(M, c, n)
  BY SpinePlaces
<1>1. /\ \A i \in 1..n : c[i] \in DOMAIN M /\ c[i] \in Nat /\ At(c, i) = c[i] /\ c[i] # Queue!NULL
      /\ \A p \in DOMAIN M : \E i \in 1..n : p = c[i]
      /\ \A i, j \in 1..n : i < j => c[i] < c[j]
      /\ At(c, n + 1) = Queue!NULL /\ Queue!NULL \notin DOMAIN M
  BY <1>0 DEF ByPlaces
<1>2. \A i \in 1..n : M[c[i]].left = At(c, i + 1) /\ M[c[i]].right = Queue!NULL
  <2> TAKE i \in 1..n
  <2>1. M[c[i]] = SpineNode(c, i)
    BY DEF SpineFrom
  <2> QED
    BY <2>1 DEF SpineNode
<1>3. \A i, j \in 1..n : c[i] <= c[j] <=> i <= j
  BY <1>0 DEF ByPlaces
<1>4. \E g : BelowOf(g, M)
  <2>1. PICK F : F = [q \in DOMAIN M \union {Queue!NULL} |->
                        IF q = Queue!NULL THEN {} ELSE {x \in DOMAIN M : q <= x}]
    OBVIOUS
  <2>2. \A i \in 1..n : F[c[i]] = {x \in DOMAIN M : c[i] <= x}
    BY <1>1, <2>1
  <2>3. F[Queue!NULL] = {}
    BY <2>1
  <2>4. ASSUME NEW q \in DOMAIN M
        PROVE  F[q] = {q} \union F[M[q].left] \union F[M[q].right]
    <3>1. PICK i \in 1..n : q = c[i]
      BY <1>1
    <3>2. F[M[q].right] = {}
      BY <1>2, <2>3, <3>1
    <3>3. CASE i = n
      <4>1. F[M[q].left] = {}
        BY <1>1, <1>2, <2>3, <3>1, <3>3
      <4>2. \A x \in DOMAIN M : q <= x <=> x = q
        BY <1>1, <1>3, <3>1, <3>3
      <4>3. F[q] = {q}
        BY <2>2, <3>1, <4>2
      <4> QED
        BY <3>2, <4>1, <4>3
    <3>4. CASE i < n
      <4>1. i + 1 \in 1..n
        BY <3>4
      <4>2. F[M[q].left] = {x \in DOMAIN M : c[i + 1] <= x}
        BY SMTT(40), <1>1, <1>2, <2>2, <3>1, <4>1
      <4>3. ASSUME NEW x \in DOMAIN M PROVE q <= x <=> x = q \/ c[i + 1] <= x
        <5>1. PICK j \in 1..n : x = c[j]
          BY <1>1
        <5>2. i <= j <=> i = j \/ i + 1 <= j
          OBVIOUS
        <5>3. x = q <=> i = j
          BY <1>1, <1>3, <3>1, <5>1
        <5> QED
          BY <1>3, <3>1, <4>1, <5>1, <5>2, <5>3
      <4>4. F[q] = {x \in DOMAIN M : q <= x}
        BY <2>2, <3>1
      <4> QED
        BY <3>2, <4>2, <4>3, <4>4
    <3> QED
      BY <3>3, <3>4
  <2>5. F = [q \in DOMAIN M \union {Queue!NULL} |->
               IF q = Queue!NULL THEN {} ELSE {q} \union F[M[q].left] \union F[M[q].right]]
    <3>1. \A q \in DOMAIN M \union {Queue!NULL} :
            F[q] = IF q = Queue!NULL THEN {} ELSE {q} \union F[M[q].left] \union F[M[q].right]
      BY <2>3, <2>4
    <3> QED
      BY <2>1, <3>1, Zenon
  <2> QED
    BY <2>5 DEF BelowOf
<1>5. PICK g : BelowOf(g, M) /\ Avl!Below(M, At(c, k)) = g[At(c, k)]
  BY <1>4, BelowDef
<1> DEFINE Follows(i) == \A x : x \in g[At(c, i)] <=> \E j \in i..n : x = c[j]
<1>6. PICK T : T = {i \in 1..(n + 1) : ~ Follows(i)}
  OBVIOUS
<1>7. g[Queue!NULL] = {}
  BY <1>5 DEF BelowOf
<1>8. Follows(n + 1)
  BY <1>1, <1>7
<1>9. ASSUME NEW i \in 1..n, Follows(i + 1)
      PROVE  Follows(i)
  <2>1. g[c[i]] = {c[i]} \union g[At(c, i + 1)] \union {}
    <3>1. g[c[i]] = {c[i]} \union g[M[c[i]].left] \union g[M[c[i]].right]
      BY <1>1, <1>5 DEF BelowOf
    <3> QED
      BY <1>2, <1>7, <3>1
  <2>2. \A x : x \in g[c[i]] <=> x = c[i] \/ \E j \in (i + 1)..n : x = c[j]
    BY <1>9, <2>1
  <2>3. \A x : (\E j \in i..n : x = c[j]) <=> x = c[i] \/ \E j \in (i + 1)..n : x = c[j]
    <3>1. \A j \in i..n : j = i \/ j \in (i + 1)..n
      OBVIOUS
    <3>2. i \in i..n /\ \A j \in (i + 1)..n : j \in i..n
      OBVIOUS
    <3> QED
      BY <3>1, <3>2
  <2> QED
    BY <1>1, <2>2, <2>3
<1>10. T = {}
  <2>1. T \in SUBSET (1..(n + 1)) /\ n + 1 \notin T
    BY <1>6, <1>8
  <2>2. \A i \in 1..n : i \in T => i + 1 \in T
    BY SMTT(40), <1>6, <1>9
  <2> QED
    BY <2>1, <2>2, FromTheEnd
<1>11. Follows(k)
  BY <1>6, <1>10
<1> QED
  BY <1>5, <1>11

\* A search from place k on ends at place m with the answer v: at a node it looks for,
\* or at one that sends it to the right, where there is nothing.
EndsAt(v, c, k, m, Equal, Smaller) ==
  /\ v = IF m \in 1..Len(c) /\ c[m] \in Equal THEN c[m] ELSE Queue!NULL
  /\ m \in 1..Len(c) => c[m] \in Equal \/ c[m] \notin Smaller
  /\ \A j \in k..(m - 1) : c[j] \notin Equal /\ c[j] \in Smaller

\* A search in such a tree goes along the left children.
LEMMA SpineSearch ==
  ASSUME NEW M, NEW c \in Seq(Nat), SpineFrom(M, c, 1), NEW n \in Nat, n = Len(c),
         NEW k \in 1..(n + 1), NEW Equal, NEW Smaller,
         NEW v, v = Avl!search_node(M, At(c, k), Equal, Smaller)
  PROVE  \E m \in k..(n + 1) : EndsAt(v, c, k, m, Equal, Smaller)
<1>0. ByPlaces(M, c, n)
  BY SpinePlaces
<1>1. /\ \A i \in 1..n : c[i] \in DOMAIN M /\ c[i] \in Nat /\ At(c, i) = c[i] /\ c[i] # Queue!NULL
      /\ \A p \in DOMAIN M : \E i \in 1..n : p = c[i]
      /\ \A i, j \in 1..n : c[i] = c[j] => i = j
      /\ At(c, n + 1) = Queue!NULL /\ Queue!NULL \notin DOMAIN M
      /\ \A i \in 1..(n + 1) : At(c, i) \in DOMAIN M \union {Queue!NULL}
  BY <1>0 DEF ByPlaces
<1>2. \A i \in 1..n : M[c[i]].left = At(c, i + 1) /\ M[c[i]].right = Queue!NULL
  <2> TAKE i \in 1..n
  <2>1. M[c[i]] = SpineNode(c, i)
    BY DEF SpineFrom
  <2> QED
    BY <2>1 DEF SpineNode
<1>3. \A p \in DOMAIN M : M[p].left \in DOMAIN M \union {Queue!NULL} /\ M[p].right = Queue!NULL
  <2> TAKE p \in DOMAIN M
  <2>1. PICK i \in 1..n : p = c[i]
    BY <1>1
  <2>2. i + 1 \in 1..(n + 1) /\ M[p].left = At(c, i + 1) /\ M[p].right = Queue!NULL
    BY <1>2, <2>1
  <2> QED
    BY <1>1, <2>2
<1>4. \E g : Searches(g, M, Equal, Smaller)
  <2>1. PICK links : links = [p \in DOMAIN M |-> M[p].left]
    OBVIOUS
  <2>2. Chained(links, c)
    <3>1. DOMAIN links = {c[i] : i \in 1..n}
      BY <2>1 DEF SpineFrom, NodesOf
    <3>2. \A i \in 1..n : links[c[i]] = At(c, i + 1)
      BY <1>1, <1>2, <2>1
    <3> QED
      BY <1>1, <3>1, <3>2 DEF Chained
  <2>3. PICK S : S = {q \in DOMAIN M : q \in Equal \/ q \notin Smaller}
    OBVIOUS
  <2>4. PICK h : Finds(h, links, S)
    BY <2>2, FindsAlong
  <2>5. h[Queue!NULL] = Queue!NULL
    BY <2>4 DEF Finds
  <2>6. \A q \in DOMAIN M : h[q] = IF q \in S THEN q ELSE h[M[q].left]
    BY <1>1, <2>1, <2>4 DEF Finds
  <2>7. PICK g : g = [q \in DOMAIN M \union {Queue!NULL} |->
                        IF h[q] \in Equal THEN h[q] ELSE Queue!NULL]
    OBVIOUS
  <2>8. \A q \in DOMAIN M \union {Queue!NULL} :
          g[q] = IF q = Queue!NULL \/ q \in Equal THEN q
                 ELSE IF q \in Smaller THEN g[M[q].left] ELSE g[M[q].right]
    <3> TAKE q \in DOMAIN M \union {Queue!NULL}
    <3>1. CASE q = Queue!NULL
      BY <2>5, <2>7, <3>1
    <3>2. CASE q \in DOMAIN M /\ q \in Equal
      <4>1. h[q] = q
        BY <2>3, <2>6, <3>2
      <4> QED
        BY <2>7, <3>2, <4>1
    <3>3. CASE q \in DOMAIN M /\ q \notin Equal /\ q \in Smaller
      <4>1. h[q] = h[M[q].left] /\ M[q].left \in DOMAIN M \union {Queue!NULL} /\ q # Queue!NULL
        BY <1>1, <1>3, <2>3, <2>6, <3>3
      <4>2. g[q] = g[M[q].left]
        BY <2>7, <3>3, <4>1
      <4> QED
        BY <3>3, <4>1, <4>2
    <3>4. CASE q \in DOMAIN M /\ q \notin Equal /\ q \notin Smaller
      <4>1. h[q] = q /\ M[q].right = Queue!NULL /\ q # Queue!NULL
        BY <1>1, <1>3, <2>3, <2>6, <3>4
      <4>2. g[q] = Queue!NULL /\ g[Queue!NULL] = Queue!NULL
        BY <2>5, <2>7, <3>4, <4>1
      <4> QED
        BY <3>4, <4>1, <4>2
    <3> QED
      BY <3>1, <3>2, <3>3, <3>4
  <2> QED
    BY <2>7, <2>8, Zenon DEF Searches
<1>5. PICK g : Searches(g, M, Equal, Smaller) /\ v = g[At(c, k)]
  BY <1>4, SearchDef
<1>6. g[Queue!NULL] = Queue!NULL
  BY <1>5 DEF Searches
<1> DEFINE Good(i) == \E m \in i..(n + 1) : EndsAt(g[At(c, i)], c, i, m, Equal, Smaller)
<1>7. PICK T : T = {i \in 1..(n + 1) : ~ Good(i)}
  OBVIOUS
<1>8. Good(n + 1)
  <2>1. EndsAt(g[At(c, n + 1)], c, n + 1, n + 1, Equal, Smaller)
    BY <1>1, <1>6 DEF EndsAt
  <2> QED
    BY <2>1
<1>9. ASSUME NEW i \in 1..n, Good(i + 1)
      PROVE  Good(i)
  <2>1. At(c, i) = c[i] /\ c[i] \in DOMAIN M /\ c[i] # Queue!NULL
    BY <1>1
  <2>2. g[c[i]] = IF c[i] \in Equal THEN c[i]
                  ELSE IF c[i] \in Smaller THEN g[M[c[i]].left] ELSE g[M[c[i]].right]
    BY <1>5, <2>1 DEF Searches
  <2>3. g[c[i]] = IF c[i] \in Equal THEN c[i]
                  ELSE IF c[i] \in Smaller THEN g[At(c, i + 1)] ELSE Queue!NULL
    BY <1>2, <1>6, <2>2
  <2>4. CASE c[i] \in Equal \/ c[i] \notin Smaller
    <3>1. EndsAt(g[At(c, i)], c, i, i, Equal, Smaller)
      BY <2>1, <2>3, <2>4 DEF EndsAt
    <3> QED
      BY <3>1
  <2>5. CASE c[i] \notin Equal /\ c[i] \in Smaller
    <3>1. PICK m \in (i + 1)..(n + 1) : EndsAt(g[At(c, i + 1)], c, i + 1, m, Equal, Smaller)
      BY <1>9
    <3>2. g[At(c, i)] = g[At(c, i + 1)]
      BY <2>1, <2>3, <2>5
    <3>3. \A j \in i..(m - 1) : j = i \/ j \in (i + 1)..(m - 1)
      OBVIOUS
    <3>4. EndsAt(g[At(c, i)], c, i, m, Equal, Smaller)
      BY <2>5, <3>1, <3>2, <3>3 DEF EndsAt
    <3>5. m \in i..(n + 1)
      OBVIOUS
    <3> QED
      BY <3>4, <3>5
  <2> QED
    BY <2>4, <2>5
<1>10. T = {}
  <2>1. T \in SUBSET (1..(n + 1)) /\ n + 1 \notin T
    BY <1>7, <1>8
  <2>2. \A i \in 1..n : i \in T => i + 1 \in T
    BY <1>7, <1>9
  <2> QED
    BY <2>1, <2>2, FromTheEnd
<1>11. Good(k)
  BY <1>7, <1>10
<1> QED
  BY <1>5, <1>11

\* What insert_node makes of the subtree p, when it makes g of the others.
Inserted(t, key, p, g) ==
  IF p = Queue!NULL
  THEN [root  |-> key,
        nodes |-> [x \in DOMAIN t.nodes \union {key} |->
                     IF x = key THEN Avl!Node ELSE t.nodes[x]]]
  ELSE IF key > p THEN Avl!Hang(g[t.nodes[p].left], p, "left")
  ELSE Avl!Hang(g[t.nodes[p].right], p, "right")
\* The function insert_node chooses.
Inserts(g, t, key) == g = [p \in DOMAIN t.nodes \union {Queue!NULL} |-> Inserted(t, key, p, g)]

\* If there is one, it is what insert_node takes.
LEMMA InsertDef ==
  ASSUME NEW t, NEW key, \E g : Inserts(g, t, key)
  PROVE  \E g : Inserts(g, t, key) /\ Avl!insert_node(t, key) = g[t.root]
<1> DEFINE g == CHOOSE g : Inserts(g, t, key)
<1>1. Inserts(g, t, key)
  BY Zenon
<1>2. Avl!insert_node(t, key) = g[t.root]
  BY Zenon DEF Avl!insert_node, Inserts, Inserted, Avl!NULL, Queue!NULL
<1> HIDE DEF g
<1> QED
  BY <1>1, <1>2, Zenon

\* d is c with a key behind it that is larger than all of c.
Longer(d, c, n, key) ==
  /\ d \in Seq(Nat) /\ Len(d) = n + 1 /\ d[n + 1] = key
  /\ \A i \in 1..n : d[i] = c[i] /\ c[i] < key

\* There is a solution of insert_node's equation, made from the end on.
LEMMA SpineInserts ==
  ASSUME NEW t, NEW c \in Seq(Nat), Spine(t, c), NEW n \in Nat, n = Len(c),
         NEW key \in Nat, NEW d, Longer(d, c, n, key)
  PROVE  \E g : Inserts(g, t, key)
<1> DEFINE M == t.nodes
           NULL == Queue!NULL
<1>0. BYTE \in Nat /\ BYTE > 2 /\ t.root = At(c, 1) /\ SpineFrom(M, c, 1)
  BY BooksAssumption DEF Spine
<1>1. ByPlaces(M, c, n)
  BY <1>0, SpinePlaces
<1>2. /\ \A i \in 1..n : c[i] \in DOMAIN M /\ c[i] \in Nat /\ At(c, i) = c[i] /\ c[i] # NULL
      /\ \A p \in DOMAIN M : \E i \in 1..n : p = c[i]
      /\ \A i, j \in 1..n : i < j => c[i] < c[j]
      /\ \A i, j \in 1..n : c[i] = c[j] => i = j
      /\ At(c, n + 1) = NULL /\ NULL \notin DOMAIN M
      /\ \A i \in 1..(n + 1) : At(c, i) \in DOMAIN M \union {NULL}
  BY <1>1 DEF ByPlaces
<1>3. \A i \in 1..n : M[c[i]] = SpineNode(c, i) /\ M[c[i]].left = At(c, i + 1)
  <2> TAKE i \in 1..n
  <2>1. M[c[i]] = SpineNode(c, i)
    BY <1>0 DEF SpineFrom
  <2> QED
    BY <2>1 DEF SpineNode
<1>4. \A i \in 1..n : c[i] < key
  BY DEF Longer
<1> DEFINE Solved(i) == \E g : /\ DOMAIN g = {At(c, j) : j \in i..(n + 1)}
                               /\ \A q \in DOMAIN g : g[q] = Inserted(t, key, q, g)
<1>8. \E g : Inserts(g, t, key)
  <2>1. PICK T : T = {i \in 1..(n + 1) : ~ Solved(i)}
    OBVIOUS
  <2>2. Solved(n + 1)
    <3>1. PICK g : g = [q \in {NULL} |-> Inserted(t, key, NULL, t)]
      OBVIOUS
    <3>2. \A q \in DOMAIN g : g[q] = Inserted(t, key, q, g)
      BY <3>1 DEF Inserted
    <3>3. {At(c, j) : j \in (n + 1)..(n + 1)} = {NULL}
      BY <1>2
    <3>4. DOMAIN g = {At(c, j) : j \in (n + 1)..(n + 1)}
      BY <3>1, <3>3
    <3> QED
      BY <3>2, <3>4
  <2>3. ASSUME NEW i \in 1..n, Solved(i + 1)
        PROVE  Solved(i)
    <3>1. PICK g : /\ DOMAIN g = {At(c, j) : j \in (i + 1)..(n + 1)}
                   /\ \A q \in DOMAIN g : g[q] = Inserted(t, key, q, g)
      BY <2>3
    <3>2. PICK h : h = [q \in DOMAIN g \union {c[i]} |->
                          IF q \in DOMAIN g THEN g[q] ELSE Inserted(t, key, q, g)]
      OBVIOUS
    <3>3. \A j \in i..n : At(c, j + 1) \in DOMAIN g /\ M[c[j]].left = At(c, j + 1) /\ key > c[j]
                          /\ c[j] # NULL
      <4> TAKE j \in i..n
      <4>1. j \in 1..n /\ j + 1 \in (i + 1)..(n + 1)
        OBVIOUS
      <4> QED
        BY <1>2, <1>3, <1>4, <3>1, <4>1
    <3>4. ASSUME NEW q \in DOMAIN h PROVE h[q] = Inserted(t, key, q, h)
      <4>1. h[q] = Inserted(t, key, q, g)
        BY <3>1, <3>2
      <4>2. CASE q = NULL
        BY <4>1, <4>2 DEF Inserted
      <4>3. CASE q # NULL
        <5>1. PICK j \in i..n : q = c[j]
          <6>1. CASE q = c[i]
            <7>1. i \in i..n
              OBVIOUS
            <7> QED
              BY <6>1, <7>1
          <6>2. CASE q \in DOMAIN g
            <7>1. PICK j \in (i + 1)..(n + 1) : q = At(c, j)
              BY <3>1, <6>2
            <7>2. j # n + 1
              BY <1>2, <4>3, <7>1
            <7>3. j \in i..n /\ j \in 1..n
              BY <7>2
            <7> QED
              BY <1>2, <7>1, <7>3
          <6> QED
            BY <3>2, <6>1, <6>2
        <5>2. t.nodes[q].left \in DOMAIN g /\ key > q
          BY <3>3, <5>1 DEF M
        <5>3. h[t.nodes[q].left] = g[t.nodes[q].left]
          BY <3>2, <5>2
        <5> QED
          BY <4>1, <4>3, <5>2, <5>3 DEF Inserted
      <4> QED
        BY <4>2, <4>3
    <3>5. DOMAIN h = {At(c, j) : j \in i..(n + 1)}
      <4>1. \A j \in i..(n + 1) : j = i \/ j \in (i + 1)..(n + 1)
        OBVIOUS
      <4>2. i \in i..(n + 1) /\ \A j \in (i + 1)..(n + 1) : j \in i..(n + 1)
        OBVIOUS
      <4>3. {At(c, j) : j \in i..(n + 1)} = {At(c, j) : j \in (i + 1)..(n + 1)} \union {At(c, i)}
        BY <4>1, <4>2
      <4> QED
        BY <1>2, <3>1, <3>2, <4>3
    <3> QED
      BY <3>4, <3>5
  <2> HIDE DEF Solved
  <2>4. T = {}
    <3>1. T \in SUBSET (1..(n + 1)) /\ n + 1 \notin T
      BY <2>1, <2>2
    <3>2. \A i \in 1..n : i \in T => i + 1 \in T
      BY <2>1, <2>3
    <3> QED
      BY <3>1, <3>2, FromTheEnd
  <2>5. PICK g : /\ DOMAIN g = {At(c, j) : j \in 1..(n + 1)}
                 /\ \A q \in DOMAIN g : g[q] = Inserted(t, key, q, g)
    <3>1. 1 \in 1..(n + 1)
      OBVIOUS
    <3>2. Solved(1)
      BY <2>1, <2>4, <3>1
    <3> QED
      BY <3>2 DEF Solved
  <2>6. DOMAIN g = DOMAIN M \union {NULL}
    <3>1. n + 1 \in 1..(n + 1) /\ \A j \in 1..n : j \in 1..(n + 1)
      OBVIOUS
    <3>2. \A q \in DOMAIN M \union {NULL} : q \in DOMAIN g
      BY <1>2, <2>5, <3>1
    <3> QED
      BY <1>2, <2>5, <3>2
  <2>7. PICK h : h = [q \in DOMAIN M \union {NULL} |-> g[q]]
    OBVIOUS
  <2>8. \A q \in DOMAIN M \union {NULL} : h[q] = Inserted(t, key, q, h)
    <3> TAKE q \in DOMAIN M \union {NULL}
    <3>1. h[q] = Inserted(t, key, q, g)
      BY <2>5, <2>6, <2>7
    <3>2. CASE q = NULL
      BY <3>1, <3>2 DEF Inserted
    <3>3. CASE q \in DOMAIN M
      <4>1. PICK j \in 1..n : q = c[j]
        BY <1>2, <3>3
      <4>2. j + 1 \in 1..(n + 1) /\ t.nodes[q].left = At(c, j + 1) /\ key > q
        BY <1>2, <1>3, <1>4, <4>1 DEF M
      <4>3. h[t.nodes[q].left] = g[t.nodes[q].left]
        BY <1>2, <2>7, <4>2
      <4> QED
        BY <3>1, <4>2, <4>3 DEF Inserted
    <3> QED
      BY <3>2, <3>3
  <2> QED
    BY <2>7, <2>8, Zenon DEF Inserts, M
<1> QED
  BY <1>8

\* A key larger than all becomes the last left child, and no node has to be turned;
\* but when the root's height would differ from nothing by as much as a byte has
\* values less 2, the program turns it and is lost.
LEMMA SpineInsert ==
  ASSUME NEW t, NEW c \in Seq(Nat), Spine(t, c), NEW n \in Nat, n = Len(c),
         NEW key \in Nat, NEW d, Longer(d, c, n, key),
         n < BYTE - 1, NEW t2, t2 = Avl!insert_node(t, key)
  PROVE  /\ n = BYTE - 2 => t2 = Avl!Crashed
         /\ n # BYTE - 2 => Spine(t2, d)
<1> DEFINE M == t.nodes
           NULL == Queue!NULL
<1>0. BYTE \in Nat /\ BYTE > 2 /\ t.root = At(c, 1) /\ SpineFrom(M, c, 1)
  BY BooksAssumption DEF Spine
<1>1. ByPlaces(M, c, n)
  BY <1>0, SpinePlaces
<1>2. /\ \A i \in 1..n : c[i] \in DOMAIN M /\ c[i] \in Nat /\ At(c, i) = c[i] /\ c[i] # NULL
      /\ \A p \in DOMAIN M : \E i \in 1..n : p = c[i]
      /\ \A i, j \in 1..n : i < j => c[i] < c[j]
      /\ \A i, j \in 1..n : c[i] = c[j] => i = j
      /\ At(c, n + 1) = NULL /\ NULL \notin DOMAIN M
      /\ \A i \in 1..(n + 1) : At(c, i) \in DOMAIN M \union {NULL}
  BY <1>1 DEF ByPlaces
<1>3. \A i \in 1..n : M[c[i]] = SpineNode(c, i) /\ M[c[i]].left = At(c, i + 1)
  <2> TAKE i \in 1..n
  <2>1. M[c[i]] = SpineNode(c, i)
    BY <1>0 DEF SpineFrom
  <2> QED
    BY <2>1 DEF SpineNode
<1>4. /\ d \in Seq(Nat) /\ Len(d) = n + 1 /\ d[n + 1] = key
      /\ \A i \in 1..n : d[i] = c[i] /\ c[i] < key
  BY DEF Longer
<1>5. \A i \in 1..(n + 1) : At(d, i) = d[i] /\ d[i] # NULL
  BY <1>4 DEF At, Queue!NULL
<1>6. \A i, j \in 1..(n + 1) : i < j => d[i] < d[j]
  <2> SUFFICES ASSUME NEW i \in 1..(n + 1), NEW j \in 1..(n + 1), i < j PROVE d[i] < d[j]
    OBVIOUS
  <2>1. i \in 1..n /\ (j \in 1..n \/ j = n + 1)
    OBVIOUS
  <2> QED
    BY <1>2, <1>4, <2>1
<1>7. NodesOf(d) = NodesOf(c) \union {key} /\ DOMAIN M = NodesOf(c)
  <2>1. \A i \in 1..n : i \in 1..(n + 1)
    OBVIOUS
  <2>2. n + 1 \in 1..(n + 1) /\ \A i \in 1..(n + 1) : i \in 1..n \/ i = n + 1
    OBVIOUS
  <2>3. \A x : (\E i \in 1..(n + 1) : x = d[i]) <=> (\E i \in 1..n : x = c[i]) \/ x = key
    BY <1>4, <2>1, <2>2
  <2>4. NodesOf(d) = NodesOf(c) \union {key}
    BY <1>4, <2>3 DEF NodesOf
  <2> QED
    BY <1>0, <2>4 DEF SpineFrom
<1> HIDE DEF M
<1>9. PICK g : Inserts(g, t, key) /\ t2 = g[At(c, 1)]
  BY <1>0, SpineInserts, InsertDef
<1>10. \A p \in DOMAIN M \union {NULL} : g[p] = Inserted(t, key, p, g)
  BY <1>9 DEF Inserts, M
\* What any solution makes of the subtree at place i.
<1> DEFINE Made(i) ==
      IF i = 1 /\ n = BYTE - 2 THEN g[At(c, i)] = Avl!Crashed
      ELSE \E N : /\ g[At(c, i)] = [root |-> At(d, i), nodes |-> N]
                  /\ SpineFrom(N, d, i)
                  /\ \A j \in 1..n : j < i => N[c[j]] = M[c[j]]
<1>11. Made(n + 1)
  <2>1. PICK N : N = [x \in DOMAIN M \union {key} |-> IF x = key THEN Avl!Node ELSE M[x]]
    OBVIOUS
  <2>2. g[At(c, n + 1)] = [root |-> At(d, n + 1), nodes |-> N]
    <3>1. g[NULL] = [root |-> key, nodes |-> N]
      BY <1>10, <2>1 DEF Inserted, M
    <3> QED
      BY <1>2, <1>4, <1>5, <3>1
  <2>3. N[key] = SpineNode(d, n + 1)
    <3>1. At(d, n + 1 + 1) = NULL /\ Len(d) - (n + 1) + 1 = 1
      BY <1>4 DEF At
    <3> QED
      BY <2>1, <3>1 DEF SpineNode, Avl!Node, Avl!NULL, Queue!NULL
  <2>4. SpineFrom(N, d, n + 1)
    <3>1. DOMAIN N = NodesOf(d)
      BY <1>7, <2>1
    <3>2. \A j \in (n + 1)..(n + 1) : N[d[j]] = SpineNode(d, j)
      BY <1>4, <2>3
    <3> QED
      BY <1>4, <1>6, <3>1, <3>2 DEF SpineFrom
  <2>5. \A j \in 1..n : j < n + 1 => N[c[j]] = M[c[j]]
    <3>1. \A j \in 1..n : c[j] # key
      BY <1>2, <1>4
    <3> QED
      BY <1>2, <2>1, <3>1
  <2>6. ~ (n + 1 = 1 /\ n = BYTE - 2)
    BY <1>0
  <2> QED
    BY <2>2, <2>4, <2>5, <2>6
<1>12. ASSUME NEW i \in 1..n, Made(i + 1)
       PROVE  Made(i)
  <2>1. PICK N : /\ g[At(c, i + 1)] = [root |-> At(d, i + 1), nodes |-> N]
                 /\ SpineFrom(N, d, i + 1)
                 /\ \A j \in 1..n : j < i + 1 => N[c[j]] = M[c[j]]
    <3>1. i + 1 # 1
      OBVIOUS
    <3> QED
      BY <1>12, <3>1
  <2>2. PICK p, q, k : p = c[i] /\ q = d[i + 1] /\ k = n - i + 1
    OBVIOUS
  <2>3. i \in 1..(n + 1) /\ i + 1 \in 1..(n + 1) /\ i < i + 1 /\ k \in Nat /\ k < BYTE - 1
    BY <1>0, <2>2
  <2>4. p = d[i] /\ p # NULL /\ p \in DOMAIN N /\ q \in DOMAIN N /\ q # p /\ q # NULL /\ At(d, i + 1) = q
    <3>1. d[i] < d[i + 1] /\ d[i] \in Nat
      BY <1>4, <1>6, <2>3
    <3>2. d[i] \in NodesOf(d) /\ d[i + 1] \in NodesOf(d)
      BY <1>4, <2>3 DEF NodesOf
    <3> QED
      BY <1>4, <1>5, <2>1, <2>2, <2>3, <3>1, <3>2 DEF SpineFrom
  <2>5. N[p] = [left |-> At(c, i + 1), right |-> NULL, height |-> n - i + 1]
    <3>1. N[p] = SpineNode(c, i)
      BY <1>3, <2>1, <2>2, <2>3
    <3> QED
      BY <3>1 DEF SpineNode
  <2>6. N[q].height = k
    <3>1. N[q] = SpineNode(d, i + 1)
      BY <1>4, <2>1, <2>2, <2>3 DEF SpineFrom
    <3> QED
      BY <1>4, <2>2, <3>1 DEF SpineNode
  <2>7. PICK u : u = [root |-> q, nodes |-> N]
    OBVIOUS
  <2>8. u # Avl!Crashed
    <3>1. q \in Nat
      BY <1>4, <2>2, <2>3
    <3>2. u.root = q /\ Avl!Crashed.root = -2
      BY <2>7 DEF Avl!Crashed
    <3> QED
      BY <3>1, <3>2
  <2>9. g[At(c, i)] = Avl!Hang(u, p, "left")
    <3>1. key > p /\ t.nodes[p].left = At(c, i + 1)
      BY <1>3, <1>4, <2>2 DEF M
    <3>2. g[p] = Avl!Hang(g[At(c, i + 1)], p, "left")
      BY ZenonT(60), <1>2, <1>10, <2>2, <2>4, <3>1 DEF Inserted
    <3> QED
      BY <1>2, <2>1, <2>2, <2>4, <2>7, <3>2
  <2>10. /\ k # BYTE - 2 => Hung(Avl!Hang(u, p, "left"), N, p, q, k)
         /\ k = BYTE - 2 => Avl!Hang(u, p, "left") = Avl!Crashed
    <3>1. Ready(N, p, q, k)
      BY <2>4, <2>5, <2>6 DEF Ready
    <3> QED
      BY <2>3, <2>7, <2>8, <3>1, HangsLeft
  <2>11. k = BYTE - 2 <=> i = 1 /\ n = BYTE - 2
    BY <1>0, <2>2
  <2>12. CASE i = 1 /\ n = BYTE - 2
    BY <2>9, <2>10, <2>11, <2>12
  <2>13. CASE ~ (i = 1 /\ n = BYTE - 2)
    <3>1. PICK N2 : /\ g[At(c, i)] = [root |-> p, nodes |-> N2]
                    /\ DOMAIN N2 = DOMAIN N
                    /\ N2[p] = [left |-> q, right |-> NULL, height |-> k + 1]
                    /\ \A x \in DOMAIN N : x # p => N2[x] = N[x]
      BY <2>9, <2>10, <2>11, <2>13 DEF Hung
    <3>2. N2[p] = SpineNode(d, i)
      <4>1. Len(d) - i + 1 = k + 1
        BY <1>4, <2>2
      <4> QED
        BY <2>4, <3>1, <4>1 DEF SpineNode
    <3>3. ASSUME NEW j \in i..(n + 1) PROVE N2[d[j]] = SpineNode(d, j)
      <4>1. CASE j = i
        BY <2>4, <3>2, <4>1
      <4>2. CASE j # i
        <5>1. j \in (i + 1)..(n + 1) /\ j \in 1..(n + 1) /\ i < j
          BY <4>2
        <5>2. N[d[j]] = SpineNode(d, j)
          BY <1>4, <2>1, <5>1 DEF SpineFrom
        <5>3. d[i] < d[j] /\ d[i] \in Nat /\ d[j] \in NodesOf(d)
          BY <1>4, <1>6, <2>3, <5>1 DEF NodesOf
        <5>4. d[j] # p /\ d[j] \in DOMAIN N
          BY <2>1, <2>4, <5>3 DEF SpineFrom
        <5> QED
          BY <3>1, <5>2, <5>4
      <4> QED
        BY <4>1, <4>2
    <3>4. SpineFrom(N2, d, i)
      <4>1. DOMAIN N2 = NodesOf(d)
        BY <2>1, <3>1 DEF SpineFrom
      <4> QED
        BY <1>4, <1>6, <3>3, <4>1 DEF SpineFrom
    <3>5. ASSUME NEW j \in 1..n, j < i PROVE N2[c[j]] = M[c[j]]
      <4>1. j < i /\ j < i + 1
        BY <3>5
      <4>2. c[j] < c[i] /\ c[j] \in Nat /\ c[i] \in Nat
        BY <1>2, <4>1
      <4>3. c[j] # p /\ c[j] \in DOMAIN N
        BY <1>2, <1>7, <2>1, <2>2, <4>1, <4>2 DEF SpineFrom
      <4> QED
        BY <2>1, <3>1, <4>1, <4>3
    <3>6. p = At(d, i)
      BY <1>5, <2>3, <2>4
    <3> QED
      BY <2>13, <3>1, <3>4, <3>5, <3>6
  <2> QED
    BY <2>12, <2>13
<1> HIDE DEF Made
<1>13. Made(1)
  <2>1. PICK T : T = {i \in 1..(n + 1) : ~ Made(i)}
    OBVIOUS
  <2>2. T \in SUBSET (1..(n + 1)) /\ n + 1 \notin T
    BY <1>11, <2>1
  <2>3. \A i \in 1..n : i \in T => i + 1 \in T
    BY <1>12, <2>1
  <2>4. T = {}
    BY <2>2, <2>3, FromTheEnd
  <2>5. 1 \in 1..(n + 1)
    OBVIOUS
  <2> QED
    BY <2>1, <2>4, <2>5
<1>14. CASE n = BYTE - 2
  BY <1>9, <1>13, <1>14 DEF Made
<1>15. CASE n # BYTE - 2
  <2>1. PICK N : t2 = [root |-> At(d, 1), nodes |-> N] /\ SpineFrom(N, d, 1)
    BY <1>9, <1>13, <1>15 DEF Made
  <2>2. t2.nodes = N /\ t2 = [root |-> At(d, 1), nodes |-> t2.nodes]
    BY <2>1
  <2> QED
    BY <2>1, <2>2, <1>15 DEF Spine
<1> QED
  BY <1>14, <1>15

\* What delete_node makes of the subtree p, when it makes g of the others.
Deleted(t, key, p, g) ==
  IF p = Queue!NULL THEN [root |-> Queue!NULL, nodes |-> t.nodes]
  ELSE IF p < key THEN Avl!Hang(g[t.nodes[p].left], p, "left")
  ELSE IF p > key THEN Avl!Hang(g[t.nodes[p].right], p, "right")
  ELSE Avl!Replacement(t.nodes, p)
\* The function delete_node chooses.
Deletes(g, t, key) == g = [p \in DOMAIN t.nodes \union {Queue!NULL} |-> Deleted(t, key, p, g)]

\* If there is one, it is what delete_node takes.
LEMMA DeleteDef ==
  ASSUME NEW t, NEW key, \E g : Deletes(g, t, key)
  PROVE  \E g : Deletes(g, t, key) /\ Avl!delete_node(t, key) = g[t.root]
<1> DEFINE g == CHOOSE g : Deletes(g, t, key)
<1>1. Deletes(g, t, key)
  BY Zenon
<1>2. Avl!delete_node(t, key) = g[t.root]
  BY Zenon DEF Avl!delete_node, Deletes, Deleted, Avl!NULL, Queue!NULL
<1> HIDE DEF g
<1> QED
  BY <1>1, <1>2, Zenon

\* There is a solution of delete_node's equation, made from the end on.
LEMMA SpineDeletes ==
  ASSUME NEW t, NEW c \in Seq(Nat), Spine(t, c), NEW n \in Nat, n = Len(c), NEW key
  PROVE  \E g : Deletes(g, t, key)
<1> DEFINE M == t.nodes
           NULL == Queue!NULL
<1>0. t.root = At(c, 1) /\ SpineFrom(M, c, 1)
  BY DEF Spine
<1>1. ByPlaces(M, c, n)
  BY <1>0, SpinePlaces
<1>2. /\ \A i \in 1..n : c[i] \in DOMAIN M /\ At(c, i) = c[i] /\ c[i] # NULL
      /\ \A p \in DOMAIN M : \E i \in 1..n : p = c[i]
      /\ At(c, n + 1) = NULL /\ NULL \notin DOMAIN M
  BY <1>1 DEF ByPlaces
<1>3. \A i \in 1..n : M[c[i]].left = At(c, i + 1) /\ M[c[i]].right = NULL
  <2> TAKE i \in 1..n
  <2>1. M[c[i]] = SpineNode(c, i)
    BY <1>0 DEF SpineFrom
  <2> QED
    BY <2>1 DEF SpineNode
<1> HIDE DEF M
<1> DEFINE Solved(i) == \E g : /\ DOMAIN g = {At(c, j) : j \in i..(n + 1)}
                               /\ \A q \in DOMAIN g : g[q] = Deleted(t, key, q, g)
<1>4. PICK T : T = {i \in 1..(n + 1) : ~ Solved(i)}
  OBVIOUS
<1>5. Solved(n + 1)
  <2>1. PICK g : g = [q \in {NULL} |-> Deleted(t, key, NULL, t)]
    OBVIOUS
  <2>2. \A q \in DOMAIN g : g[q] = Deleted(t, key, q, g)
    BY <2>1 DEF Deleted
  <2>3. {At(c, j) : j \in (n + 1)..(n + 1)} = {NULL}
    BY <1>2
  <2>4. DOMAIN g = {At(c, j) : j \in (n + 1)..(n + 1)}
    BY <2>1, <2>3
  <2> QED
    BY <2>2, <2>4
<1>6. ASSUME NEW i \in 1..n, Solved(i + 1)
      PROVE  Solved(i)
  <2>1. PICK g : /\ DOMAIN g = {At(c, j) : j \in (i + 1)..(n + 1)}
                 /\ \A q \in DOMAIN g : g[q] = Deleted(t, key, q, g)
    BY <1>6
  <2>2. PICK h : h = [q \in DOMAIN g \union {c[i]} |->
                        IF q \in DOMAIN g THEN g[q] ELSE Deleted(t, key, q, g)]
    OBVIOUS
  <2>3. n + 1 \in (i + 1)..(n + 1)
    OBVIOUS
  <2>4. NULL \in DOMAIN g
    BY <1>2, <2>1, <2>3
  <2>5. \A j \in i..n : /\ At(c, j + 1) \in DOMAIN g /\ M[c[j]].left = At(c, j + 1)
                        /\ M[c[j]].right = NULL /\ c[j] # NULL
    <3> TAKE j \in i..n
    <3>1. j \in 1..n /\ j + 1 \in (i + 1)..(n + 1)
      OBVIOUS
    <3> QED
      BY <1>2, <1>3, <2>1, <3>1
  <2>6. ASSUME NEW q \in DOMAIN h PROVE h[q] = Deleted(t, key, q, h)
    <3>1. h[q] = Deleted(t, key, q, g)
      BY <2>1, <2>2
    <3>2. CASE q = NULL
      BY <3>1, <3>2 DEF Deleted
    <3>3. CASE q # NULL
      <4>1. PICK j \in i..n : q = c[j]
        <5>1. CASE q = c[i]
          <6>1. i \in i..n
            OBVIOUS
          <6> QED
            BY <5>1, <6>1
        <5>2. CASE q \in DOMAIN g
          <6>1. PICK j \in (i + 1)..(n + 1) : q = At(c, j)
            BY <2>1, <5>2
          <6>2. j # n + 1
            BY <1>2, <3>3, <6>1
          <6>3. j \in i..n /\ j \in 1..n
            BY <6>2
          <6> QED
            BY <1>2, <6>1, <6>3
        <5> QED
          BY <2>2, <5>1, <5>2
      <4>2. t.nodes[q].left \in DOMAIN g /\ t.nodes[q].right \in DOMAIN g
        BY <2>4, <2>5, <4>1 DEF M
      <4>3. /\ h[t.nodes[q].left] = g[t.nodes[q].left]
            /\ h[t.nodes[q].right] = g[t.nodes[q].right]
        BY <2>2, <4>2
      <4> QED
        BY <3>1, <3>3, <4>3 DEF Deleted
    <3> QED
      BY <3>2, <3>3
  <2>7. DOMAIN h = {At(c, j) : j \in i..(n + 1)}
    <3>1. \A j \in i..(n + 1) : j = i \/ j \in (i + 1)..(n + 1)
      OBVIOUS
    <3>2. i \in i..(n + 1) /\ \A j \in (i + 1)..(n + 1) : j \in i..(n + 1)
      OBVIOUS
    <3>3. {At(c, j) : j \in i..(n + 1)} = {At(c, j) : j \in (i + 1)..(n + 1)} \union {At(c, i)}
      BY <3>1, <3>2
    <3> QED
      BY <1>2, <2>1, <2>2, <3>3
  <2> QED
    BY <2>6, <2>7
<1> HIDE DEF Solved
<1>7. T = {}
  <2>1. T \in SUBSET (1..(n + 1)) /\ n + 1 \notin T
    BY <1>4, <1>5
  <2>2. \A i \in 1..n : i \in T => i + 1 \in T
    BY <1>4, <1>6
  <2> QED
    BY <2>1, <2>2, FromTheEnd
<1>8. PICK g : /\ DOMAIN g = {At(c, j) : j \in 1..(n + 1)}
               /\ \A q \in DOMAIN g : g[q] = Deleted(t, key, q, g)
  <2>1. 1 \in 1..(n + 1)
    OBVIOUS
  <2>2. Solved(1)
    BY <1>4, <1>7, <2>1
  <2> QED
    BY <2>2 DEF Solved
<1>9. DOMAIN g = DOMAIN M \union {NULL}
  <2>1. n + 1 \in 1..(n + 1) /\ \A j \in 1..n : j \in 1..(n + 1)
    OBVIOUS
  <2>2. \A q \in DOMAIN M \union {NULL} : q \in DOMAIN g
    BY <1>2, <1>8, <2>1
  <2>3. \A j \in 1..(n + 1) : j \in 1..n \/ j = n + 1
    OBVIOUS
  <2>4. \A q \in DOMAIN g : q \in DOMAIN M \union {NULL}
    BY <1>2, <1>8, <2>3
  <2> QED
    BY <2>2, <2>4
<1>10. PICK h : h = [q \in DOMAIN M \union {NULL} |-> g[q]]
  OBVIOUS
<1>11. \A q \in DOMAIN M \union {NULL} : h[q] = Deleted(t, key, q, h)
  <2> TAKE q \in DOMAIN M \union {NULL}
  <2>1. h[q] = Deleted(t, key, q, g)
    BY <1>8, <1>9, <1>10
  <2>2. CASE q = NULL
    BY <2>1, <2>2 DEF Deleted
  <2>3. CASE q \in DOMAIN M
    <3>1. PICK j \in 1..n : q = c[j]
      BY <1>2, <2>3
    <3>2. j + 1 \in 1..(n + 1) /\ t.nodes[q].left = At(c, j + 1) /\ t.nodes[q].right = NULL
      BY <1>2, <1>3, <3>1 DEF M
    <3>3. At(c, j + 1) \in DOMAIN M \union {NULL}
      BY <1>8, <1>9, <3>2
    <3>4. /\ h[t.nodes[q].left] = g[t.nodes[q].left]
          /\ h[t.nodes[q].right] = g[t.nodes[q].right]
      BY <1>10, <3>2, <3>3
    <3> QED
      BY <2>1, <3>4 DEF Deleted
  <2> QED
    BY <2>2, <2>3
<1> QED
  BY <1>10, <1>11, Zenon DEF Deletes, M

\* A key leaves the chain of left children; what was above it stays balanced. The
\* root of what is left is the first node of the rest.
LEMMA SpineDelete ==
  ASSUME NEW t, NEW c \in Seq(Nat), Spine(t, c), NEW n \in Nat, n = Len(c), n < BYTE - 1,
         NEW m \in 1..n, NEW key, key = At(c, m), NEW r, r = Without(c, m),
         NEW t2, t2 = Avl!delete_node(t, key)
  PROVE  Spine(t2, r) /\ r \in Seq(Nat) /\ IsWithout(r, c, n, m)
<1> DEFINE M == t.nodes
           NULL == Queue!NULL
<1>0. BYTE \in Nat /\ BYTE > 2 /\ t.root = At(c, 1) /\ SpineFrom(M, c, 1)
  BY BooksAssumption DEF Spine
<1>1. ByPlaces(M, c, n)
  BY <1>0, SpinePlaces
<1>2. /\ \A i \in 1..n : c[i] \in DOMAIN M /\ c[i] \in Nat /\ At(c, i) = c[i] /\ c[i] # NULL
      /\ \A p \in DOMAIN M : \E i \in 1..n : p = c[i]
      /\ \A i, j \in 1..n : i < j => c[i] < c[j]
      /\ \A i, j \in 1..n : c[i] = c[j] => i = j
      /\ At(c, n + 1) = NULL
  BY <1>1 DEF ByPlaces
<1>3. \A i \in 1..n : M[c[i]] = SpineNode(c, i) /\ M[c[i]].left = At(c, i + 1) /\ M[c[i]].right = NULL
  <2> TAKE i \in 1..n
  <2>1. M[c[i]] = SpineNode(c, i)
    BY <1>0 DEF SpineFrom
  <2> QED
    BY <2>1 DEF SpineNode
<1>4. IsWithout(r, c, n, m)
  BY <1>2, WithoutOne
<1>5. /\ r \in Seq(Nat) /\ Len(r) = n - 1
      /\ \A i \in 1..(m - 1) : r[i] = c[i]
      /\ \A i \in m..(n - 1) : r[i] = c[i + 1]
      /\ {r[i] : i \in 1..(n - 1)} = {c[i] : i \in 1..n} \ {c[m]}
  BY <1>4 DEF IsWithout
<1>16. \A i \in 1..(n - 1) : r[i] \in Nat
  BY SMTT(40), <1>5
<1>6. NodesOf(r) = DOMAIN M \ {key} /\ key = c[m]
  BY <1>0, <1>2, <1>5 DEF SpineFrom, NodesOf
<1>7. \A i, j \in 1..(n - 1) : i < j => r[i] < r[j]
  <2> SUFFICES ASSUME NEW i \in 1..(n - 1), NEW j \in 1..(n - 1), i < j PROVE r[i] < r[j]
    OBVIOUS
  <2>1. PICK a : a = IF i < m THEN i ELSE i + 1
    OBVIOUS
  <2>2. PICK b : b = IF j < m THEN j ELSE j + 1
    OBVIOUS
  <2>3. a \in 1..n /\ b \in 1..n /\ a < b
    BY <2>1, <2>2
  <2>4. r[i] = c[a]
    <3>1. i < m => i \in 1..(m - 1)
      OBVIOUS
    <3>2. ~ (i < m) => i \in m..(n - 1)
      OBVIOUS
    <3> QED
      BY <1>5, <2>1, <3>1, <3>2
  <2>5. r[j] = c[b]
    <3>1. j < m => j \in 1..(m - 1)
      OBVIOUS
    <3>2. ~ (j < m) => j \in m..(n - 1)
      OBVIOUS
    <3> QED
      BY <1>5, <2>2, <3>1, <3>2
  <2> QED
    BY <1>2, <2>3, <2>4, <2>5
<1>8. PICK g : Deletes(g, t, key) /\ t2 = g[At(c, 1)]
  BY <1>0, SpineDeletes, DeleteDef
<1> HIDE DEF M
<1>9. \A p \in DOMAIN M \union {NULL} : g[p] = Deleted(t, key, p, g)
  BY <1>8 DEF Deletes, M
\* What any solution makes of the subtree at place i.
<1> DEFINE Made(i) ==
      \E N : /\ g[At(c, i)] = [root |-> At(r, i), nodes |-> N]
             /\ SpineFrom(N, r, i)
             /\ \A j \in 1..n : j < i => N[c[j]] = M[c[j]]
<1>10. \A i \in m..n : At(r, i) = At(c, i + 1)
  <2> TAKE i \in m..n
  <2>1. CASE i = n
    BY <1>2, <1>5, <2>1 DEF At
  <2>2. CASE i < n
    <3>1. i \in m..(n - 1) /\ i \in 1..(n - 1) /\ i + 1 \in 1..n
      BY <2>2
    <3> QED
      BY <1>5, <3>1 DEF At
  <2> QED
    BY <2>1, <2>2
<1>11. Made(m)
  <2>1. PICK N : N = Avl!Restrict(M, DOMAIN M \ {key})
    OBVIOUS
  <2>2. DOMAIN N = NodesOf(r) /\ \A x \in NodesOf(r) : N[x] = M[x]
    BY <1>6, <2>1 DEF Avl!Restrict
  <2>3. g[At(c, m)] = [root |-> At(r, m), nodes |-> N]
    <3>1. g[key] = Avl!Replacement(M, key)
      <4>1. key \in DOMAIN M /\ key # NULL /\ ~ (key < key) /\ ~ (key > key)
        BY <1>2, <1>6
      <4> QED
        BY <1>9, <4>1 DEF Deleted, M
    <3>2. M[key].right = Avl!NULL /\ M[key].left = At(c, m + 1)
      BY <1>3, <1>6 DEF Avl!NULL, Queue!NULL
    <3>3. Avl!Replacement(M, key) = [root |-> At(c, m + 1), nodes |-> N]
      BY <2>1, <3>2 DEF Avl!Replacement
    <3>4. m \in m..n
      OBVIOUS
    <3> QED
      BY <1>2, <1>6, <1>10, <3>1, <3>3, <3>4
  <2>4. ASSUME NEW j \in m..(n - 1) PROVE N[r[j]] = SpineNode(r, j)
    <3>0. j + 1 \in 1..n /\ j \in 1..(n - 1) /\ j + 1 \in m..n
      OBVIOUS
    <3>1. r[j] = c[j + 1] /\ j + 1 \in 1..n /\ j \in 1..(n - 1) /\ j + 1 \in m..n
      BY <1>5, <3>0
    <3>2. r[j] \in NodesOf(r)
      BY <1>5, <3>1 DEF NodesOf
    <3>3. N[r[j]] = SpineNode(c, j + 1)
      BY <1>3, <2>2, <3>1, <3>2
    <3>4. At(r, j + 1) = At(c, j + 1 + 1) /\ n - 1 - j + 1 = n - (j + 1) + 1
      BY <1>10, <3>1
    <3> QED
      BY <1>5, <3>3, <3>4 DEF SpineNode
  <2>5. SpineFrom(N, r, m)
    BY <1>5, <1>7, <2>2, <2>4 DEF SpineFrom
  <2>6. ASSUME NEW j \in 1..n, j < m PROVE N[c[j]] = M[c[j]]
    <3>1. c[j] # key /\ c[j] \in DOMAIN M
      BY <1>2, <1>6, <2>6
    <3> QED
      BY <1>6, <2>2, <3>1
  <2> QED
    BY <2>3, <2>5, <2>6
<1>12. ASSUME NEW i \in 1..(m - 1), Made(i + 1)
       PROVE  Made(i)
  <2>1. PICK N : /\ g[At(c, i + 1)] = [root |-> At(r, i + 1), nodes |-> N]
                 /\ SpineFrom(N, r, i + 1)
                 /\ \A j \in 1..n : j < i + 1 => N[c[j]] = M[c[j]]
    BY <1>12
  <2>2. PICK p, q, k : p = c[i] /\ q = At(r, i + 1) /\ k = n - 1 - i
    OBVIOUS
  <2>3. i \in 1..n /\ i \in 1..(n - 1) /\ i < i + 1 /\ k \in Nat /\ k < BYTE - 1 /\ k # BYTE - 2
    BY <1>0, <2>2
  <2>4. p = r[i] /\ p = At(r, i) /\ p # NULL /\ p \in DOMAIN N /\ p \in DOMAIN M /\ p < key /\ p \in Nat
    <3>1. p = r[i] /\ p # NULL /\ p \in DOMAIN M /\ p < key /\ p \in Nat
      BY <1>2, <1>5, <1>6, <2>2, <2>3
    <3>2. r[i] \in NodesOf(r) /\ At(r, i) = r[i]
      BY <1>5, <2>3 DEF NodesOf, At
    <3> QED
      BY <2>1, <3>1, <3>2 DEF SpineFrom
  <2>5. N[p] = [left |-> At(c, i + 1), right |-> NULL, height |-> n - i + 1]
    <3>1. N[p] = SpineNode(c, i)
      BY <1>3, <2>1, <2>2, <2>3
    <3> QED
      BY <3>1 DEF SpineNode
  <2>6. /\ q # p /\ q \in DOMAIN N \union {NULL} /\ q \in Nat \union {NULL}
        /\ k = IF q = NULL THEN 0 ELSE N[q].height
    <3>1. CASE i + 1 = n
      <4>1. q = NULL
        BY <1>5, <2>2, <3>1 DEF At
      <4> QED
        BY <2>2, <2>4, <3>1, <4>1
    <3>2. CASE i + 1 < n
      <4>1. i + 1 \in 1..(n - 1) /\ i + 1 \in (i + 1)..(n - 1)
        BY <3>2
      <4>2. q = r[i + 1] /\ q \in Nat /\ r[i] < r[i + 1] /\ r[i + 1] \in NodesOf(r)
        <5>1. q = r[i + 1] /\ r[i + 1] \in NodesOf(r)
          BY <1>5, <2>2, <4>1 DEF At, NodesOf
        <5>2. i < i + 1 /\ i \in 1..(n - 1)
          BY <2>3
        <5>3. r[i] < r[i + 1]
          BY <1>7, <4>1, <5>2
        <5>4. q \in Nat
          BY <1>16, <4>1, <5>1
        <5> QED
          BY <5>1, <5>3, <5>4
      <4>3. N[q] = SpineNode(r, i + 1) /\ q \in DOMAIN N
        BY <1>5, <2>1, <4>1, <4>2 DEF SpineFrom
      <4>4. N[q].height = k
        BY <1>5, <2>2, <4>3 DEF SpineNode
      <4>5. q # p /\ q # NULL
        BY <2>4, <4>2 DEF Queue!NULL
      <4> QED
        BY <4>2, <4>3, <4>4, <4>5
    <3> QED
      BY <2>3, <3>1, <3>2
  <2>7. PICK u : u = [root |-> q, nodes |-> N]
    OBVIOUS
  <2>8. u # Avl!Crashed
    <3>1. u.root = q /\ Avl!Crashed.root = -2
      BY <2>7 DEF Avl!Crashed
    <3> QED
      BY <2>6, <3>1 DEF Queue!NULL
  <2>9. g[At(c, i)] = Avl!Hang(u, p, "left")
    <3>1. t.nodes[p].left = At(c, i + 1)
      BY <1>3, <2>2, <2>3 DEF M
    <3>2. g[p] = Avl!Hang(g[At(c, i + 1)], p, "left")
      BY <1>9, <2>4, <3>1 DEF Deleted
    <3> QED
      BY <1>2, <2>1, <2>2, <2>3, <2>7, <3>2
  <2>10. Hung(g[At(c, i)], N, p, q, k)
    <3>1. Ready(N, p, q, k)
      BY <2>4, <2>5, <2>6 DEF Ready
    <3> QED
      BY <2>3, <2>7, <2>8, <2>9, <3>1, HangsLeft
  <2>11. PICK N2 : /\ g[At(c, i)] = [root |-> p, nodes |-> N2]
                   /\ DOMAIN N2 = DOMAIN N
                   /\ N2[p] = [left |-> q, right |-> NULL, height |-> k + 1]
                   /\ \A x \in DOMAIN N : x # p => N2[x] = N[x]
    BY <2>10 DEF Hung
  <2>12. N2[p] = SpineNode(r, i)
    <3>1. Len(r) - i + 1 = k + 1
      BY <1>5, <2>2
    <3> QED
      BY <2>2, <2>11, <3>1 DEF SpineNode
  <2>13. ASSUME NEW j \in i..(n - 1) PROVE N2[r[j]] = SpineNode(r, j)
    <3>1. CASE j = i
      BY <2>4, <2>12, <3>1
    <3>2. CASE j # i
      <4>1. j \in (i + 1)..(n - 1) /\ j \in 1..(n - 1) /\ i < j
        BY <3>2
      <4>2. N[r[j]] = SpineNode(r, j)
        BY <1>5, <2>1, <4>1 DEF SpineFrom
      <4>3. r[i] < r[j] /\ r[j] \in NodesOf(r) /\ r[i] \in Nat
        <5>1. r[j] \in NodesOf(r)
          BY <1>5, <4>1 DEF NodesOf
        <5>2. r[i] < r[j]
          BY <1>7, <2>3, <4>1
        <5>3. r[i] \in Nat
          BY <2>4
        <5> QED
          BY <5>1, <5>2, <5>3
      <4>4. r[j] # p /\ r[j] \in DOMAIN N
        BY <2>1, <2>4, <4>3 DEF SpineFrom
      <4> QED
        BY <2>11, <4>2, <4>4
    <3> QED
      BY <3>1, <3>2
  <2>14. SpineFrom(N2, r, i)
    <3>1. DOMAIN N2 = NodesOf(r)
      BY <2>1, <2>11 DEF SpineFrom
    <3> QED
      BY <1>5, <1>7, <2>13, <3>1 DEF SpineFrom
  <2>15. ASSUME NEW j \in 1..n, j < i PROVE N2[c[j]] = M[c[j]]
    <3>1. j < i + 1 /\ j \in 1..(m - 1) /\ j \in 1..(n - 1)
      BY <2>15
    <3>2. c[j] = r[j] /\ r[j] \in NodesOf(r)
      BY <1>5, <3>1 DEF NodesOf
    <3>3. c[j] # p /\ c[j] \in DOMAIN N
      BY <1>2, <2>1, <2>2, <2>3, <2>15, <3>2 DEF SpineFrom
    <3> QED
      BY <2>1, <2>11, <3>1, <3>3
  <2> QED
    BY ZenonT(60), <2>4, <2>11, <2>14, <2>15
<1> HIDE DEF Made
<1>13. Made(1)
  <2>1. PICK T, l : T = {i \in 1..m : ~ Made(i)} /\ l = m - 1
    OBVIOUS
  <2>2. l \in Nat /\ l + 1 = m
    BY <2>1
  <2>3. T \in SUBSET (1..(l + 1)) /\ l + 1 \notin T
    BY <1>11, <2>1, <2>2
  <2>4. \A i \in 1..l : i \in T => i + 1 \in T
    BY <1>12, <2>1, <2>2
  <2>5. T = {}
    BY <2>2, <2>3, <2>4, FromTheEnd
  <2>6. 1 \in 1..m
    OBVIOUS
  <2> QED
    BY <2>1, <2>5, <2>6
<1>14. PICK N : t2 = [root |-> At(r, 1), nodes |-> N] /\ SpineFrom(N, r, 1)
  BY <1>8, <1>13 DEF Made
<1>15. t2.nodes = N /\ t2 = [root |-> At(r, 1), nodes |-> t2.nodes]
  BY <1>14
<1> QED
  BY <1>4, <1>5, <1>14, <1>15 DEF Spine

\* A tree book: its tree is the chain c of left children, each with an entry.
AvlChain(b, c) ==
  /\ b = [tree |-> b.tree, entry |-> b.entry, size |-> b.size, next_id |-> b.next_id]
  /\ Spine(b.tree, c)
  /\ b.entry \in [NodesOf(c) -> EntriesOf("avl")]
  /\ b.size = Len(c) /\ Len(c) < BYTE - 1 /\ b.next_id \in Nat
  /\ \A i \in 1..Len(c) : c[i] < b.next_id
\* A sound tree of contacts is a spine in the order of ids.
AvlInv(b) == \E c \in Seq(Nat) : AvlChain(b, c)

\* The places from k on are so many nodes.
LEMMA CountsPlaces ==
  ASSUME NEW M, NEW c \in Seq(Nat), NEW n \in Nat, ByPlaces(M, c, n), NEW k \in 1..(n + 1),
         NEW S, \A x : x \in S <=> \E j \in k..n : x = c[j]
  PROVE  Cardinality(S) = n - k + 1
<1>1. \A i, j \in 1..n : c[i] = c[j] => i = j
  BY DEF ByPlaces
<1>2. PICK m \in Nat : m = n - k + 1
  OBVIOUS
<1>3. PICK f : f = [i \in 1..m |-> c[i + k - 1]]
  OBVIOUS
<1>4. \A i \in 1..m : i + k - 1 \in k..n /\ i + k - 1 \in 1..n
  BY <1>2
<1>5. f \in [1..m -> S]
  BY <1>3, <1>4
<1>6. \A i, j \in 1..m : f[i] = f[j] => i = j
  <2> SUFFICES ASSUME NEW i \in 1..m, NEW j \in 1..m, f[i] = f[j] PROVE i = j
    OBVIOUS
  <2>1. i + k - 1 = j + k - 1
    BY <1>1, <1>3, <1>4
  <2> QED
    BY <2>1
<1>7. \A x \in S : \E i \in 1..m : f[i] = x
  <2> SUFFICES ASSUME NEW x \in S PROVE \E i \in 1..m : f[i] = x
    OBVIOUS
  <2>1. PICK j \in k..n : x = c[j]
    OBVIOUS
  <2>2. j - k + 1 \in 1..m /\ (j - k + 1) + k - 1 = j
    BY <1>2, <2>1
  <2> QED
    BY <1>3, <2>1, <2>2
<1>8. ExistsBijection(1..m, S)
  BY <1>5, <1>6, <1>7 DEF ExistsBijection, Bijection, Injection, Surjection, IsInjective
<1> QED
  BY <1>2, <1>8, FS_CountingElements

\* What such a book holds.
LEMMA AvlContents ==
  ASSUME NEW b, NEW c \in Seq(Nat), AvlChain(b, c), NEW n \in Nat, n = Len(c)
  PROVE  /\ ByPlaces(b.tree.nodes, c, n) /\ DOMAIN b.tree.nodes = NodesOf(c)
         /\ DOMAIN Avl!Contents(b) = NodesOf(c) /\ DOMAIN b.entry = NodesOf(c)
         /\ \A p \in NodesOf(c) : /\ Avl!Contents(b)[p] = b.entry[p]
                                  /\ b.entry[p] \in EntriesOf("avl")
         /\ \A p \in NodesOf(c) : p \in Nat /\ p < b.next_id
<1>1. PICK M : M = b.tree.nodes
  OBVIOUS
<1>2. SpineFrom(M, c, 1) /\ b.tree.root = At(c, 1)
  <2>1. b.tree = [root |-> At(c, 1), nodes |-> M] /\ SpineFrom(M, c, 1)
    BY <1>1 DEF AvlChain, Spine
  <2> QED
    BY <2>1
<1>3. ByPlaces(M, c, n)
  BY <1>2, SpinePlaces
<1>4. DOMAIN M = NodesOf(c)
  BY <1>2 DEF SpineFrom
<1>5. \A x : x \in Avl!Below(M, At(c, 1)) <=> \E j \in 1..n : x = c[j]
  <2>1. 1 \in 1..(n + 1)
    OBVIOUS
  <2> QED
    BY <1>2, <2>1, SpineBelow
<1>6. Avl!Below(M, At(c, 1)) = NodesOf(c)
  BY <1>5 DEF NodesOf
<1>7. Avl!Contents(b) = [p \in NodesOf(c) |-> b.entry[p]]
  BY <1>1, <1>2, <1>6 DEF Avl!Contents
<1>8. b.entry \in [NodesOf(c) -> EntriesOf("avl")] /\ \A i \in 1..n : c[i] < b.next_id
  BY DEF AvlChain
<1>9. \A p \in NodesOf(c) : p \in Nat /\ p < b.next_id
  BY <1>8 DEF NodesOf
<1> QED
  BY <1>1, <1>3, <1>4, <1>7, <1>8, <1>9

\* The empty tree book.
LEMMA AvlEmpty ==
  /\ AvlInv(Avl!create_list) /\ ~ Avl!Lost(Avl!create_list)
  /\ Avl!Contents(Avl!create_list) = << >> /\ Avl!create_list.next_id = 0
<1>1. PICK b : b = Avl!create_list
  OBVIOUS
<1>2. PICK c \in Seq(Nat) : c = << >>
  <2>1. << >> \in Seq(Nat)
    OBVIOUS
  <2> QED
    BY <2>1
<1>3. b = [tree |-> [root |-> Queue!NULL, nodes |-> << >>], entry |-> << >>, size |-> 0, next_id |-> 0]
  BY <1>1 DEF Avl!create_list, Avl!Empty, Avl!NULL, Queue!NULL
<1>4. /\ b.tree = [root |-> Queue!NULL, nodes |-> << >>] /\ b.tree.nodes = << >>
      /\ b.entry = << >> /\ b.size = 0 /\ b.next_id = 0
  BY <1>3
<1>5. NodesOf(c) = {} /\ Len(c) = 0 /\ At(c, 1) = Queue!NULL
  BY <1>2 DEF NodesOf, At
<1>6. AvlChain(b, c)
  <2>1. SpineFrom(b.tree.nodes, c, 1)
    BY <1>4, <1>5 DEF SpineFrom
  <2>2. Spine(b.tree, c)
    BY <1>4, <1>5, <2>1 DEF Spine
  <2>3. b = [tree |-> b.tree, entry |-> b.entry, size |-> b.size, next_id |-> b.next_id]
    BY <1>3, <1>4
  <2>4. b.entry \in [NodesOf(c) -> EntriesOf("avl")]
    BY <1>4, <1>5
  <2>5. Len(c) < BYTE - 1
    BY <1>5, BooksAssumption
  <2> QED
    BY <1>4, <1>5, <2>2, <2>3, <2>4, <2>5 DEF AvlChain
<1>7. DOMAIN Avl!Contents(b) = {}
  BY <1>5, <1>6, AvlContents
<1>8. Avl!Contents(b) = << >>
  BY <1>7 DEF Avl!Contents
<1>9. ~ Avl!Lost(b)
  BY <1>4 DEF Avl!Lost, Avl!Crashed, Queue!NULL
<1> QED
  BY <1>1, <1>4, <1>6, <1>8, <1>9 DEF AvlInv

\* A tree of that shape is not a lost one.
LEMMA NotLost ==
  ASSUME NEW t, NEW c \in Seq(Nat), Spine(t, c)
  PROVE  t # Avl!Crashed
<1>1. t.root = At(c, 1)
  <2>1. t = [root |-> At(c, 1), nodes |-> t.nodes]
    BY DEF Spine
  <2> QED
    BY <2>1
<1>2. t.root # -2
  BY <1>1 DEF At, Queue!NULL
<1> QED
  BY <1>2 DEF Avl!Crashed

\* A contact is added as the last left child, or the program is lost.
LEMMA AvlAdd ==
  ASSUME NEW b, AvlInv(b), NEW e \in EntriesOf("avl"), NEW d, d = Avl!add_contact(b, e)
  PROVE  /\ Avl!Lost(d) => b.size = BYTE - 2
         /\ ~ Avl!Lost(d) => /\ AvlInv(d) /\ d.next_id = b.next_id + 1
                             /\ Stores(Avl!Contents(b), Avl!Contents(d), b.next_id, e)
<1>1. PICK c \in Seq(Nat) : AvlChain(b, c)
  BY DEF AvlInv
<1>2. PICK n \in Nat : n = Len(c)
  OBVIOUS
<1>3. /\ ByPlaces(b.tree.nodes, c, n)
      /\ DOMAIN Avl!Contents(b) = NodesOf(c) /\ DOMAIN b.entry = NodesOf(c)
      /\ \A p \in NodesOf(c) : /\ Avl!Contents(b)[p] = b.entry[p]
                               /\ b.entry[p] \in EntriesOf("avl")
      /\ \A p \in NodesOf(c) : p \in Nat /\ p < b.next_id
  BY <1>1, <1>2, AvlContents
<1>4. /\ Spine(b.tree, c) /\ b.size = n /\ n < BYTE - 1 /\ b.next_id \in Nat
      /\ \A i \in 1..n : c[i] < b.next_id
  BY <1>1, <1>2 DEF AvlChain
<1>5. PICK m \in Nat : m = b.next_id
  BY <1>4
<1>6. PICK c2 : c2 = Append(c, m)
  OBVIOUS
<1>7. Longer(c2, c, n, m)
  BY <1>2, <1>4, <1>5, <1>6 DEF Longer
<1>8. PICK t, t2 : t = b.tree /\ t2 = Avl!insert_node(t, m)
  OBVIOUS
<1>9. (n = BYTE - 2 => t2 = Avl!Crashed) /\ (n # BYTE - 2 => Spine(t2, c2))
  BY <1>2, <1>4, <1>7, <1>8, SpineInsert
<1>10. PICK x : x = [p \in NodesOf(c) \union {m} |-> IF p = m THEN e ELSE b.entry[p]]
  OBVIOUS
<1>11. d = [tree |-> t2, entry |-> x, size |-> n + 1, next_id |-> m + 1]
  BY <1>3, <1>4, <1>5, <1>8, <1>10 DEF Avl!add_contact
<1>12. /\ d.tree = t2 /\ d.entry = x /\ d.size = n + 1 /\ d.next_id = m + 1
       /\ d = [tree |-> d.tree, entry |-> d.entry, size |-> d.size, next_id |-> d.next_id]
  BY <1>11
<1>13. CASE n = BYTE - 2
  BY <1>4, <1>9, <1>12, <1>13 DEF Avl!Lost
<1>14. CASE n # BYTE - 2
  <2>1. Spine(t2, c2) /\ n + 1 < BYTE - 1
    <3>1. BYTE \in Nat
      BY BooksAssumption
    <3> QED
      BY <1>4, <1>9, <1>14, <3>1
  <2>2. c2 \in Seq(Nat) /\ Len(c2) = n + 1 /\ c2[n + 1] = m /\ \A i \in 1..n : c2[i] = c[i]
    BY <1>7 DEF Longer
  <2>3. NodesOf(c2) = NodesOf(c) \union {m}
    <3>1. \A i \in 1..(n + 1) : i \in 1..n \/ i = n + 1
      OBVIOUS
    <3>2. n + 1 \in 1..(n + 1) /\ \A i \in 1..n : i \in 1..(n + 1)
      OBVIOUS
    <3> QED
      BY <1>2, <2>2, <3>1, <3>2 DEF NodesOf
  <2>4. AvlChain(d, c2)
    <3>1. \A i \in 1..Len(c2) : c2[i] < d.next_id
      BY SMTT(40), <1>4, <1>5, <1>12, <2>2
    <3>2. d.entry \in [NodesOf(c2) -> EntriesOf("avl")]
      BY <1>3, <1>10, <1>12, <2>3
    <3> QED
      BY <1>12, <2>1, <2>2, <3>1, <3>2 DEF AvlChain
  <2>5. /\ DOMAIN Avl!Contents(d) = NodesOf(c2)
        /\ \A p \in NodesOf(c2) : Avl!Contents(d)[p] = d.entry[p]
    BY <2>2, <2>4, AvlContents
  <2>6. Stores(Avl!Contents(b), Avl!Contents(d), m, e)
    <3>1. m \notin NodesOf(c) /\ b.next_id = m
      BY <1>3, <1>5
    <3>2. PICK h, h2 : h = Avl!Contents(b) /\ h2 = Avl!Contents(d)
      OBVIOUS
    <3>3. DOMAIN h = NodesOf(c) /\ DOMAIN h2 = NodesOf(c) \union {m}
      BY <1>3, <2>3, <2>5, <3>2
    <3>4. \A p \in NodesOf(c) \union {m} : h2[p] = x[p]
      BY <1>12, <2>3, <2>5, <3>2
    <3>5. \A p \in NodesOf(c) : h[p] = b.entry[p]
      BY <1>3, <3>2
    <3> QED
      BY <1>10, <3>1, <3>2, <3>3, <3>4, <3>5 DEF Stores
  <2>7. ~ Avl!Lost(d)
    BY <1>12, <2>1, <2>2, NotLost DEF Avl!Lost
  <2> QED
    BY <1>5, <1>12, <2>2, <2>4, <2>6, <2>7 DEF AvlInv
<1> QED
  BY <1>13, <1>14

\* A contact is found in the tree by its id.
LEMMA AvlHas ==
  ASSUME NEW b, NEW c \in Seq(Nat), AvlChain(b, c), NEW n \in Nat, n = Len(c),
         NEW i \in 1..n, NEW p, p = At(c, i)
  PROVE  Avl!Found(b, p) = p
<1>1. PICK M, S, v : /\ M = b.tree.nodes /\ S = {q \in DOMAIN b.entry : q < p}
                     /\ v = Avl!search_node(M, At(c, 1), {p}, S)
  OBVIOUS
<1>2. SpineFrom(M, c, 1) /\ b.tree.root = At(c, 1)
  <2>1. b.tree = [root |-> At(c, 1), nodes |-> M] /\ SpineFrom(M, c, 1)
    BY <1>1 DEF AvlChain, Spine
  <2> QED
    BY <2>1
<1>3. ByPlaces(M, c, n)
  BY <1>2, SpinePlaces
<1>4. /\ \A j \in 1..n : c[j] \in DOMAIN M /\ c[j] \in Nat
      /\ \A j, k \in 1..n : c[j] = c[k] => j = k
      /\ \A j, k \in 1..n : c[j] <= c[k] <=> j <= k
  BY <1>3 DEF ByPlaces
<1>5. p = c[i] /\ p \in Nat
  BY <1>4 DEF At
<1>6. \E m \in 1..(n + 1) : EndsAt(v, c, 1, m, {p}, S)
  <2>1. 1 \in 1..(n + 1)
    OBVIOUS
  <2> QED
    BY <1>1, <1>2, <2>1, SpineSearch
<1>7. PICK m \in 1..(n + 1) : EndsAt(v, c, 1, m, {p}, S)
  BY <1>6
<1>8. /\ v = IF m \in 1..n /\ c[m] \in {p} THEN c[m] ELSE Queue!NULL
      /\ m \in 1..n => c[m] \in {p} \/ c[m] \notin S
      /\ \A j \in 1..(m - 1) : c[j] \notin {p}
  BY <1>7 DEF EndsAt
<1>9. m <= i /\ m \in 1..n
  <2>1. i \notin 1..(m - 1)
    BY <1>5, <1>8
  <2> QED
    BY <2>1
<1>10. c[m] = p
  <2>1. c[m] <= p
    BY <1>4, <1>5, <1>9
  <2>2. c[m] \in DOMAIN b.entry
    BY <1>1, <1>4, <1>9, AvlContents
  <2> QED
    BY <1>1, <1>4, <1>5, <1>8, <1>9, <2>1, <2>2
<1> QED
  BY <1>1, <1>2, <1>8, <1>9, <1>10 DEF Avl!Found

\* An update changes the entry of one contact.
LEMMA AvlUpdate ==
  ASSUME NEW b, AvlInv(b), NEW id0 \in DOMAIN Avl!Contents(b), NEW e \in EntriesOf("avl"),
         NEW d, d = Avl!update_contact(b, id0, e)
  PROVE  /\ AvlInv(d) /\ d.next_id = b.next_id
         /\ Stores(Avl!Contents(b), Avl!Contents(d), id0, e)
<1>1. PICK c \in Seq(Nat) : AvlChain(b, c)
  BY DEF AvlInv
<1>2. PICK n \in Nat : n = Len(c)
  OBVIOUS
<1>3. /\ ByPlaces(b.tree.nodes, c, n)
      /\ DOMAIN Avl!Contents(b) = NodesOf(c) /\ DOMAIN b.entry = NodesOf(c)
      /\ \A p \in NodesOf(c) : Avl!Contents(b)[p] = b.entry[p]
  BY <1>1, <1>2, AvlContents
<1>4. PICK i \in 1..n : id0 = c[i]
  BY <1>2, <1>3 DEF NodesOf
<1>5. id0 = At(c, i)
  BY <1>2, <1>4 DEF At
<1>6. Avl!Found(b, id0) = id0
  BY <1>1, <1>2, <1>5, AvlHas
<1>7. /\ b = [tree |-> b.tree, entry |-> b.entry, size |-> b.size, next_id |-> b.next_id]
      /\ Spine(b.tree, c) /\ b.entry \in [NodesOf(c) -> EntriesOf("avl")]
      /\ b.size = Len(c) /\ Len(c) < BYTE - 1 /\ b.next_id \in Nat
      /\ \A j \in 1..Len(c) : c[j] < b.next_id
  BY <1>1 DEF AvlChain
<1>8. PICK x : x = [b.entry EXCEPT ![id0] = e]
  OBVIOUS
<1>9. d = [tree |-> b.tree, entry |-> x, size |-> b.size, next_id |-> b.next_id]
  <2>1. d = [b EXCEPT !.entry[id0] = e]
    BY <1>6 DEF Avl!update_contact
  <2>2. d = [b EXCEPT !.entry = x]
    BY <1>7, <1>8, <2>1
  <2> QED
    BY <1>7, <2>2
<1>10. /\ d.tree = b.tree /\ d.entry = x /\ d.size = b.size /\ d.next_id = b.next_id
       /\ d = [tree |-> d.tree, entry |-> d.entry, size |-> d.size, next_id |-> d.next_id]
  BY <1>9
<1>11. x \in [NodesOf(c) -> EntriesOf("avl")]
  BY <1>3, <1>7, <1>8
<1>12. AvlChain(d, c)
  BY <1>7, <1>10, <1>11 DEF AvlChain
<1>13. /\ DOMAIN Avl!Contents(d) = NodesOf(c)
       /\ \A p \in NodesOf(c) : Avl!Contents(d)[p] = d.entry[p]
  BY <1>2, <1>12, AvlContents
<1>14. \A p \in NodesOf(c) : x[p] = IF p = id0 THEN e ELSE b.entry[p]
  BY <1>3, <1>8
<1>15. Stores(Avl!Contents(b), Avl!Contents(d), id0, e)
  <2>1. PICK h, h2 : h = Avl!Contents(b) /\ h2 = Avl!Contents(d)
    OBVIOUS
  <2>2. DOMAIN h = NodesOf(c) /\ DOMAIN h2 = NodesOf(c) /\ id0 \in NodesOf(c)
    BY <1>3, <1>13, <2>1
  <2>3. \A p \in NodesOf(c) : h2[p] = x[p] /\ h[p] = b.entry[p]
    BY <1>3, <1>10, <1>13, <2>1
  <2> QED
    BY <1>14, <2>1, <2>2, <2>3 DEF Stores
<1> QED
  BY <1>10, <1>12, <1>15 DEF AvlInv

\* A deletion takes the one contact out of the tree; only the root is followed when it
\* is freed, when it is not the last.
LEMMA AvlDelete ==
  ASSUME NEW b, AvlInv(b), NEW id0 \in DOMAIN Avl!Contents(b),
         NEW d, d = Avl!delete_contact(b, id0)
  PROVE  /\ Avl!Lost(d) => b.size > 1 /\ \A i \in DOMAIN Avl!Contents(b) : id0 <= i
         /\ ~ Avl!Lost(d) => /\ AvlInv(d) /\ d.next_id = b.next_id
                             /\ Removes(Avl!Contents(b), Avl!Contents(d), id0)
<1>1. PICK c \in Seq(Nat) : AvlChain(b, c)
  BY DEF AvlInv
<1>2. PICK n \in Nat : n = Len(c)
  OBVIOUS
<1>3. /\ ByPlaces(b.tree.nodes, c, n)
      /\ DOMAIN Avl!Contents(b) = NodesOf(c) /\ DOMAIN b.entry = NodesOf(c)
      /\ \A p \in NodesOf(c) : Avl!Contents(b)[p] = b.entry[p]
      /\ \A p \in NodesOf(c) : p \in Nat /\ p < b.next_id
  BY <1>1, <1>2, AvlContents
<1>4. PICK m \in 1..n : id0 = c[m]
  BY <1>2, <1>3 DEF NodesOf
<1>5. id0 = At(c, m)
  BY <1>2, <1>4 DEF At
<1>6. /\ b = [tree |-> b.tree, entry |-> b.entry, size |-> b.size, next_id |-> b.next_id]
      /\ Spine(b.tree, c) /\ b.entry \in [NodesOf(c) -> EntriesOf("avl")]
      /\ b.size = n /\ n < BYTE - 1 /\ b.next_id \in Nat
      /\ \A j \in 1..n : c[j] < b.next_id
  BY <1>1, <1>2 DEF AvlChain
<1>7. /\ \A j, k \in 1..n : c[j] = c[k] => j = k
      /\ \A j, k \in 1..n : c[j] <= c[k] <=> j <= k
  BY <1>3 DEF ByPlaces
<1>8. PICK t, t2, r : t = b.tree /\ t2 = Avl!delete_node(t, id0) /\ r = Without(c, m)
  OBVIOUS
<1>9. Spine(t2, r) /\ r \in Seq(Nat) /\ IsWithout(r, c, n, m)
  BY <1>2, <1>5, <1>6, <1>8, SpineDelete
<1>10. /\ Len(r) = n - 1
       /\ \A i \in 1..(m - 1) : r[i] = c[i]
       /\ {r[i] : i \in 1..(n - 1)} = {c[i] : i \in 1..n} \ {c[m]}
  BY <1>9 DEF IsWithout
<1>11. NodesOf(r) = NodesOf(c) \ {id0}
  BY <1>2, <1>4, <1>10 DEF NodesOf
<1>12. PICK x, u : /\ x = Avl!Restrict(b.entry, DOMAIN b.entry \ {id0})
                   /\ u = Avl!TreeAfter(b, id0)
  OBVIOUS
<1>13. d = [tree |-> u, entry |-> x, size |-> n - 1, next_id |-> b.next_id]
  <2>1. d = [b EXCEPT !.tree = u, !.size = @ - 1,
                      !.entry = Avl!Restrict(@, DOMAIN @ \ {id0})]
    BY <1>12 DEF Avl!delete_contact
  <2>2. d = [b EXCEPT !.tree = u, !.size = n - 1, !.entry = x]
    BY <1>6, <1>12, <2>1
  <2> QED
    BY <1>6, <2>2
<1>14. /\ d.tree = u /\ d.entry = x /\ d.size = n - 1 /\ d.next_id = b.next_id
       /\ d = [tree |-> d.tree, entry |-> d.entry, size |-> d.size, next_id |-> d.next_id]
  BY <1>13
<1>15. t2 = [root |-> At(r, 1), nodes |-> t2.nodes] /\ DOMAIN t2.nodes = NodesOf(r)
  BY <1>9 DEF Spine, SpineFrom
<1>16. t.root = At(c, 1) /\ At(c, 1) = c[1]
  <2>1. t = [root |-> At(c, 1), nodes |-> t.nodes]
    BY <1>6, <1>8 DEF Spine
  <2>2. 1 \in 1..n
    BY <1>4
  <2> QED
    BY <1>2, <2>1, <2>2 DEF At
<1>17. u = CASE n = 1 -> Avl!Empty
             [] n # 1 /\ c[1] \in NodesOf(r) -> [root |-> c[1], nodes |-> t2.nodes]
             [] OTHER -> Avl!Crashed
  BY <1>6, <1>8, <1>12, <1>15, <1>16 DEF Avl!TreeAfter
<1>18. CASE n # 1 /\ c[1] \notin NodesOf(r)
  <2>1. c[1] \in NodesOf(c)
    BY <1>2, <1>4 DEF NodesOf
  <2>2. c[1] = id0
    BY <1>11, <1>18, <2>1
  <2>3. \A i \in NodesOf(c) : id0 <= i
    <3>1. 1 \in 1..n
      BY <1>4
    <3>2. \A j \in 1..n : c[1] <= c[j]
      BY <1>7, <3>1
    <3> QED
      BY <1>2, <2>2, <3>2 DEF NodesOf
  <2>4. u = Avl!Crashed
    BY <1>17, <1>18
  <2> QED
    BY <1>3, <1>4, <1>6, <1>14, <1>18, <2>3, <2>4 DEF Avl!Lost
<1>19. CASE n = 1 \/ c[1] \in NodesOf(r)
  <2>1. Spine(u, r)
    <3>1. CASE n = 1
      <4>1. u = [root |-> Queue!NULL, nodes |-> << >>]
        BY <1>17, <3>1 DEF Avl!Empty, Avl!NULL, Queue!NULL
      <4>2. Len(r) = 0 /\ NodesOf(r) = {} /\ At(r, 1) = Queue!NULL
        BY <1>10, <3>1 DEF NodesOf, At
      <4>3. u.nodes = << >>
        BY <4>1
      <4>4. SpineFrom(u.nodes, r, 1)
        BY <4>2, <4>3 DEF SpineFrom
      <4> QED
        BY <4>1, <4>2, <4>3, <4>4 DEF Spine
    <3>2. CASE n # 1
      <4>1. c[1] \in NodesOf(r)
        BY <1>19, <3>2
      <4>2. m # 1
        BY <1>4, <1>11, <4>1
      <4>3. At(r, 1) = c[1]
        <5>1. 1 \in 1..(m - 1) /\ 1 \in 1..(n - 1)
          BY <4>2
        <5> QED
          BY <1>10, <5>1 DEF At
      <4>4. u = t2
        BY <1>15, <1>17, <3>2, <4>1, <4>3
      <4> QED
        BY <1>9, <4>4
    <3> QED
      BY <3>1, <3>2
  <2>2. x = [p \in NodesOf(r) |-> b.entry[p]]
    BY <1>3, <1>11, <1>12 DEF Avl!Restrict
  <2>3. AvlChain(d, r)
    <3>1. d.entry \in [NodesOf(r) -> EntriesOf("avl")]
      BY <1>6, <1>11, <1>14, <2>2
    <3>2. \A i \in 1..Len(r) : r[i] < d.next_id
      <4> SUFFICES ASSUME NEW i \in 1..Len(r) PROVE r[i] < d.next_id
        OBVIOUS
      <4>1. r[i] \in NodesOf(r)
        BY DEF NodesOf
      <4> QED
        BY <1>3, <1>11, <1>14, <4>1
    <3>3. Len(r) < BYTE - 1
      BY <1>6, <1>10, BooksAssumption
    <3> QED
      BY <1>6, <1>10, <1>14, <2>1, <3>1, <3>2, <3>3 DEF AvlChain
  <2>4. /\ DOMAIN Avl!Contents(d) = NodesOf(r)
        /\ \A p \in NodesOf(r) : Avl!Contents(d)[p] = d.entry[p]
    <3>1. n - 1 \in Nat
      BY <1>4
    <3> QED
      BY <1>9, <1>10, <2>3, <3>1, AvlContents
  <2>5. Removes(Avl!Contents(b), Avl!Contents(d), id0)
    BY <1>3, <1>11, <1>14, <2>2, <2>4 DEF Removes
  <2>6. ~ Avl!Lost(d)
    BY <1>9, <1>14, <2>1, NotLost DEF Avl!Lost
  <2> QED
    BY <1>9, <1>14, <2>3, <2>5, <2>6 DEF AvlInv
<1> QED
  BY <1>18, <1>19

\* A search by first name answers with a contact; it misses one only behind another,
\* not the root, whose first name comes after.
LEMMA AvlFind ==
  ASSUME NEW b, AvlInv(b), NEW first \in Int, NEW a, a = Avl!find_contact_by_name(b, first)
  PROVE  /\ a # NotFound => a \in DOMAIN Avl!Contents(b)
         /\ \A p \in DOMAIN Avl!Contents(b) :
              Avl!Contents(b)[p].first = first /\ a = NotFound =>
                \E q \in DOMAIN Avl!Contents(b) :
                  b.tree.root < q /\ q < p /\ Avl!Contents(b)[q].first > first
<1>1. PICK c \in Seq(Nat) : AvlChain(b, c)
  BY DEF AvlInv
<1>2. PICK n \in Nat : n = Len(c)
  OBVIOUS
<1>3. PICK h : h = Avl!Contents(b)
  OBVIOUS
<1>4. /\ DOMAIN h = NodesOf(c) /\ DOMAIN b.entry = NodesOf(c)
      /\ \A p \in NodesOf(c) : h[p] = b.entry[p] /\ b.entry[p] \in EntriesOf("avl")
  BY <1>1, <1>2, <1>3, AvlContents
<1>5. PICK M, E, S : /\ M = b.tree.nodes
                     /\ E = {p \in DOMAIN b.entry : b.entry[p].first = first}
                     /\ S = {p \in DOMAIN b.entry : b.entry[p].first < first}
  OBVIOUS
<1>6. SpineFrom(M, c, 1) /\ b.tree.root = At(c, 1)
  <2>1. b.tree = [root |-> At(c, 1), nodes |-> M] /\ SpineFrom(M, c, 1)
    BY <1>1, <1>5 DEF AvlChain, Spine
  <2> QED
    BY <2>1
<1>7. ByPlaces(M, c, n)
  BY <1>2, <1>6, SpinePlaces
<1>8. /\ \A j \in 1..n : c[j] \in Nat /\ At(c, j) = c[j] /\ c[j] # Queue!NULL
      /\ \A j, k \in 1..n : j < k => c[j] < c[k]
      /\ At(c, n + 1) = Queue!NULL
  BY <1>7 DEF ByPlaces
<1>9. \A j \in 1..n : c[j] \in NodesOf(c)
  BY <1>2 DEF NodesOf
<1>10. a = Avl!dfs(b.tree, E, S) /\ Avl!NULL = Queue!NULL /\ NotFound = Queue!NULL
  BY <1>5 DEF Avl!find_contact_by_name, Avl!NULL, Queue!NULL, NotFound
<1>11. CASE n = 0
  <2>1. a = Queue!NULL
    BY <1>6, <1>8, <1>10, <1>11 DEF Avl!dfs
  <2>2. NodesOf(c) = {}
    BY <1>2, <1>11 DEF NodesOf
  <2> QED
    BY <1>3, <1>4, <1>10, <2>1, <2>2
<1>12. CASE n > 0
  <2>1. 1 \in 1..n /\ 2 \in 1..(n + 1) /\ n + 1 \in 1..(n + 1)
    BY <1>12
  <2>2. b.tree.root = c[1] /\ c[1] # Queue!NULL /\ c[1] \in NodesOf(c)
    BY <1>6, <1>8, <1>9, <2>1
  <2>3. CASE c[1] \in E
    <3>1. a = c[1]
      BY <1>10, <2>2, <2>3 DEF Avl!dfs
    <3> QED
      BY <1>3, <1>4, <1>10, <2>2, <3>1
  <2>4. CASE c[1] \notin E
    <3>1. M[c[1]] = SpineNode(c, 1)
      BY <1>2, <1>6, <2>1 DEF SpineFrom
    <3>2. M[c[1]].left = At(c, 2) /\ M[c[1]].right = At(c, n + 1)
      BY <1>8, <3>1 DEF SpineNode
    <3>3. PICK l, w : /\ l = Avl!search_node(M, At(c, 2), E, S)
                      /\ w = Avl!search_node(M, At(c, n + 1), E, S)
      OBVIOUS
    <3>4. a = IF l # Queue!NULL THEN l ELSE w
      BY <1>5, <1>10, <2>2, <2>4, <3>2, <3>3 DEF Avl!dfs
    <3>5. PICK m \in 2..(n + 1) : EndsAt(l, c, 2, m, E, S)
      BY <1>2, <1>6, <2>1, <3>3, SpineSearch
    <3>6. PICK m2 \in (n + 1)..(n + 1) : EndsAt(w, c, n + 1, m2, E, S)
      BY <1>2, <1>6, <2>1, <3>3, SpineSearch
    <3>7. w = Queue!NULL
      <4>1. m2 \notin 1..n
        BY <3>6
      <4> QED
        BY <1>2, <3>6, <4>1 DEF EndsAt
    <3>8. a = l
      BY <3>4, <3>7
    <3>9. /\ l = IF m \in 1..n /\ c[m] \in E THEN c[m] ELSE Queue!NULL
          /\ m \in 1..n => c[m] \in E \/ c[m] \notin S
          /\ \A j \in 2..(m - 1) : c[j] \notin E
      BY <1>2, <3>5 DEF EndsAt
    <3>10. a # NotFound => a \in NodesOf(c)
      BY <1>9, <1>10, <3>8, <3>9
    <3>11. ASSUME NEW p \in NodesOf(c), b.entry[p].first = first, a = NotFound
           PROVE  \E q \in NodesOf(c) :
                    b.tree.root < q /\ q < p /\ b.entry[q].first > first
      <4>1. PICK i \in 1..n : p = c[i]
        BY <1>2 DEF NodesOf
      <4>2. p \in E
        BY <1>4, <1>5, <3>11
      <4>3. i # 1 /\ i \notin 2..(m - 1)
        BY <2>4, <3>9, <4>1, <4>2
      <4>4. m <= i /\ m \in 1..n /\ 1 < m
        BY <4>3
      <4>5. c[m] \notin E /\ c[m] \notin S /\ c[m] \in NodesOf(c)
        BY <1>8, <1>9, <1>10, <3>8, <3>9, <3>11, <4>4
      <4>6. b.entry[c[m]].first \in Int
        BY <1>4, <4>5, EntryTypes
      <4>7. b.entry[c[m]].first > first
        BY <1>4, <1>5, <4>5, <4>6
      <4>8. m # i
        BY <4>1, <4>2, <4>5
      <4>9. c[1] < c[m] /\ c[m] < p
        BY <1>8, <2>1, <4>1, <4>4, <4>8
      <4> QED
        BY <2>2, <4>5, <4>7, <4>9
    <3> QED
      BY <1>3, <1>4, <3>10, <3>11
  <2> QED
    BY <2>3, <2>4
<1> QED
  BY <1>11, <1>12

\* Such a tree is a search tree that leans to the left as far as it can.
LEMMA AvlSound ==
  ASSUME NEW b, AvlInv(b)
  PROVE  /\ Avl!IsSearchTree(b.tree)
         /\ \A p \in DOMAIN b.tree.nodes :
              /\ b.tree.nodes[p].right = NotFound
              /\ b.tree.nodes[p].height = Cardinality(Avl!Below(b.tree.nodes, p))
         /\ b.size = Cardinality(DOMAIN b.tree.nodes)
         /\ b.size < BYTE - 1
<1>1. PICK c \in Seq(Nat) : AvlChain(b, c)
  BY DEF AvlInv
<1>2. PICK n \in Nat : n = Len(c)
  OBVIOUS
<1>3. PICK M : M = b.tree.nodes
  OBVIOUS
<1>4. SpineFrom(M, c, 1) /\ b.tree.root = At(c, 1) /\ b.size = n /\ n < BYTE - 1
  <2>1. b.tree = [root |-> At(c, 1), nodes |-> M] /\ SpineFrom(M, c, 1)
    BY <1>1, <1>3 DEF AvlChain, Spine
  <2>2. b.size = n /\ n < BYTE - 1
    BY <1>1, <1>2 DEF AvlChain
  <2> QED
    BY <2>1, <2>2
<1>5. ByPlaces(M, c, n)
  BY <1>2, <1>4, SpinePlaces
<1>6. /\ \A i \in 1..n : c[i] \in DOMAIN M /\ c[i] \in Nat /\ At(c, i) = c[i]
      /\ \A p \in DOMAIN M : \E i \in 1..n : p = c[i]
      /\ \A i, j \in 1..n : i < j => c[i] < c[j]
      /\ At(c, n + 1) = Queue!NULL
  BY <1>5 DEF ByPlaces
<1>7. \A k \in 1..(n + 1) : \A x : x \in Avl!Below(M, At(c, k)) <=> \E j \in k..n : x = c[j]
  <2> TAKE k \in 1..(n + 1)
  <2> QED
    BY <1>2, <1>4, SpineBelow
<1>8. \A k \in 1..(n + 1) : Cardinality(Avl!Below(M, At(c, k))) = n - k + 1
  <2> TAKE k \in 1..(n + 1)
  <2>1. PICK S : S = Avl!Below(M, At(c, k))
    OBVIOUS
  <2>2. \A x : x \in S <=> \E j \in k..n : x = c[j]
    BY <1>7, <2>1
  <2>3. Cardinality(S) = n - k + 1
    BY <1>5, <2>2, CountsPlaces
  <2> QED
    BY <2>1, <2>3
<1>9. 1 \in 1..(n + 1) /\ n + 1 \in 1..(n + 1)
  OBVIOUS
<1>10. Avl!Below(M, At(c, 1)) = DOMAIN M
  <2>1. \A x : x \in Avl!Below(M, At(c, 1)) <=> \E j \in 1..n : x = c[j]
    BY <1>7, <1>9
  <2> QED
    BY ZenonT(60), <1>6, <2>1
<1>11. ASSUME NEW p \in DOMAIN M
       PROVE  /\ M[p].right = NotFound
              /\ M[p].height = Cardinality(Avl!Below(M, p))
              /\ \A q \in Avl!Below(M, M[p].left) : q > p
              /\ Avl!Below(M, M[p].right) = {}
  <2>1. PICK i \in 1..n : p = c[i]
    BY <1>6
  <2>2. M[c[i]] = SpineNode(c, i)
    BY <1>2, <1>4, <2>1 DEF SpineFrom
  <2>3. /\ M[p].left = At(c, i + 1) /\ M[p].right = Queue!NULL
        /\ M[p].height = n - i + 1
    BY <1>2, <2>1, <2>2 DEF SpineNode
  <2>4. p = At(c, i) /\ i \in 1..(n + 1) /\ i + 1 \in 1..(n + 1)
    BY <1>6, <2>1
  <2>5. M[p].height = Cardinality(Avl!Below(M, p))
    BY <1>8, <2>3, <2>4
  <2>6. \A q \in Avl!Below(M, M[p].left) : q > p
    <3>1. \A q : q \in Avl!Below(M, M[p].left) <=> \E j \in (i + 1)..n : q = c[j]
      BY <1>7, <2>3, <2>4
    <3>2. \A j \in (i + 1)..n : j \in 1..n /\ c[j] > c[i] 
      BY <1>6, <2>1
    <3> QED
      BY <2>1, <3>1, <3>2
  <2>7. Avl!Below(M, M[p].right) = {}
    <3>1. \A q : q \in Avl!Below(M, M[p].right) <=> \E j \in (n + 1)..n : q = c[j]
      BY <1>6, <1>7, <1>9, <2>3
    <3>2. (n + 1)..n = {}
      OBVIOUS
    <3> QED
      BY <3>1, <3>2
  <2> QED
    BY <2>3, <2>5, <2>6, <2>7 DEF NotFound, Queue!NULL
<1>12. Avl!IsSearchTree(b.tree)
  BY <1>3, <1>4, <1>10, <1>11 DEF Avl!IsSearchTree
<1>13. Cardinality(DOMAIN M) = n
  <2>1. Cardinality(Avl!Below(M, At(c, 1))) = n - 1 + 1
    BY <1>8, <1>9
  <2> QED
    BY <1>10, <2>1
<1> QED
  BY <1>3, <1>4, <1>11, <1>12, <1>13

-----------------------------------------------------------------------------
(* The console of module2, with whichever of the three books is below it.  *)
Kinds == {"array", "list", "avl"}

\* The book b of the program k is sound; a list is in the order of its names, when
\* it is to be. What it holds, and whether it is lost.
SoundBook(k, b, ordered) ==
  /\ k = "array" => ArrayInv(b)
  /\ k = "list" => ListInv(b, ordered)
  /\ k = "avl" => AvlInv(b)
\* The contacts of such a book.
Holds(k, b) ==
  CASE k = "array" -> Array!Contents(b)
    [] k = "list"  -> List!Contents(b)
    [] k = "avl"   -> Avl!Contents(b)
\* Only the tree can be lost.
IsLost(k, b) == k = "avl" /\ Avl!Lost(b)

\* Every sound book holds entries under ids that were given out.
LEMMA BookHolds ==
  ASSUME NEW k \in Kinds, NEW ordered \in BOOLEAN, NEW b, SoundBook(k, b, ordered)
  PROVE  /\ b.next_id \in Nat
         /\ \A i \in DOMAIN Holds(k, b) : /\ i \in Nat /\ i < b.next_id
                                          /\ Holds(k, b)[i] \in EntriesOf(k)
         /\ Holds(k, b) = [i \in DOMAIN Holds(k, b) |-> Holds(k, b)[i]]
<1>1. CASE k = "array"
  <2>1. ArrayInv(b) /\ Holds(k, b) = Array!Contents(b)
    BY <1>1 DEF SoundBook, Holds
  <2>2. /\ b.next_id \in Nat
        /\ \A i \in 1..Len(b.contacts) : b.contacts[i].id \in Nat /\ b.contacts[i].id < b.next_id
    BY <2>1, ArrayTypes DEF ArrayInv
  <2>3. /\ \A j : j \in DOMAIN Array!Contents(b) <=>
                  \E i \in 1..Len(b.contacts) : j = b.contacts[i].id
        /\ \A j \in DOMAIN Array!Contents(b) : Array!Contents(b)[j] \in EntriesOf("array")
    BY <2>1, ArrayContents
  <2>4. \A j \in DOMAIN Array!Contents(b) : j \in Nat /\ j < b.next_id
    BY <2>2, <2>3
  <2>5. Array!Contents(b) = [i \in DOMAIN Array!Contents(b) |-> Array!Contents(b)[i]]
    BY DEF Array!Contents
  <2> QED
    BY <1>1, <2>1, <2>2, <2>3, <2>4, <2>5
<1>2. CASE k = "list"
  <2>1. ListInv(b, ordered) /\ Holds(k, b) = List!Contents(b)
    BY <1>2 DEF SoundBook, Holds
  <2>2. PICK c \in Seq(Nat) : ListChain(b, c)
    BY <2>1 DEF ListInv
  <2>3. /\ \A i \in 1..Len(c) : c[i] \in Nat /\ c[i] < b.next_id
        /\ DOMAIN b.next = NodesOf(c)
        /\ \A p \in DOMAIN b.next : b.entry[p] \in EntriesOf("list")
    BY <2>2, ListNodes
  <2>4. /\ DOMAIN List!Contents(b) = DOMAIN b.next
        /\ \A p \in DOMAIN b.next : List!Contents(b)[p] = b.entry[p]
    BY <2>2, ListContents
  <2>5. \A p \in DOMAIN b.next : p \in Nat /\ p < b.next_id
    BY <2>3 DEF NodesOf
  <2>6. List!Contents(b) = [i \in DOMAIN List!Contents(b) |-> List!Contents(b)[i]]
    BY DEF List!Contents
  <2>7. b.next_id \in Nat
    BY <2>2 DEF ListChain
  <2> QED
    BY <1>2, <2>1, <2>3, <2>4, <2>5, <2>6, <2>7
<1>3. CASE k = "avl"
  <2>1. AvlInv(b) /\ Holds(k, b) = Avl!Contents(b)
    BY <1>3 DEF SoundBook, Holds
  <2>2. PICK c \in Seq(Nat) : AvlChain(b, c)
    BY <2>1 DEF AvlInv
  <2>3. /\ DOMAIN Avl!Contents(b) = NodesOf(c)
        /\ \A p \in NodesOf(c) : /\ Avl!Contents(b)[p] = b.entry[p]
                                 /\ b.entry[p] \in EntriesOf("avl")
        /\ \A p \in NodesOf(c) : p \in Nat /\ p < b.next_id
    BY <2>2, AvlContents
  <2>4. Avl!Contents(b) = [i \in DOMAIN Avl!Contents(b) |-> Avl!Contents(b)[i]]
    BY DEF Avl!Contents
  <2>5. b.next_id \in Nat
    BY <2>2 DEF AvlChain
  <2> QED
    BY <1>3, <2>1, <2>3, <2>4, <2>5
<1> QED
  BY <1>1, <1>2, <1>3 DEF Kinds

\* The call that adds a contact.
Added(k, b, e) ==
  CASE k = "array" -> Array!add_contact(b, e)
    [] k = "list"  -> List!add_contact(b, e)
    [] k = "avl"   -> Avl!add_contact(b, e)

\* Any of the three books keeps what it holds when a contact is added, unless the tree's
\* heights no longer fit a byte.
LEMMA BookAdds ==
  ASSUME NEW k \in Kinds, NEW ordered \in BOOLEAN, NEW b, SoundBook(k, b, ordered),
         NEW e \in EntriesOf(k), NEW d, d = Added(k, b, e)
  PROVE  /\ IsLost(k, d) => b.size = BYTE - 2
         /\ ~ IsLost(k, d) => /\ SoundBook(k, d, ordered) /\ d.next_id = b.next_id + 1
                              /\ Stores(Holds(k, b), Holds(k, d), b.next_id, e)
<1>1. CASE k = "array"
  BY <1>1, ArrayAdd DEF SoundBook, Holds, IsLost, Added
<1>2. CASE k = "list"
  BY <1>2, ListAdd DEF SoundBook, Holds, IsLost, Added
<1>3. CASE k = "avl"
  BY <1>3, AvlAdd DEF SoundBook, Holds, IsLost, Added
<1> QED
  BY <1>1, <1>2, <1>3 DEF Kinds

\* The call that changes one; a list is still in order when its first name is kept.
Updated(k, b, id0, e) ==
  CASE k = "array" -> Array!update_contact(b, id0, e)
    [] k = "list"  -> List!update_contact(b, id0, e)
    [] k = "avl"   -> Avl!update_contact(b, id0, e)

\* An update changes that contact alone; one that renames it may disturb the order.
LEMMA BookUpdates ==
  ASSUME NEW k \in Kinds, NEW ordered \in BOOLEAN, NEW b, SoundBook(k, b, ordered),
         NEW id0 \in DOMAIN Holds(k, b), NEW e \in EntriesOf(k), NEW d, d = Updated(k, b, id0, e)
  PROVE  /\ SoundBook(k, d, ordered /\ e.first = Holds(k, b)[id0].first)
         /\ d.next_id = b.next_id
         /\ Stores(Holds(k, b), Holds(k, d), id0, e)
<1>1. CASE k = "array"
  BY <1>1, ArrayUpdate DEF SoundBook, Holds, Updated
<1>2. CASE k = "list"
  BY <1>2, ListUpdate DEF SoundBook, Holds, Updated
<1>3. CASE k = "avl"
  BY <1>3, AvlUpdate DEF SoundBook, Holds, Updated
<1> QED
  BY <1>1, <1>2, <1>3 DEF Kinds

\* The call that removes one.
Taken(k, b, id0) ==
  CASE k = "array" -> Array!delete_contact(b, id0)
    [] k = "list"  -> List!delete_contact(b, id0)
    [] k = "avl"   -> Avl!delete_contact(b, id0)

\* A deletion removes that contact alone, unless the tree loses its oldest.
LEMMA BookTakes ==
  ASSUME NEW k \in Kinds, NEW ordered \in BOOLEAN, NEW b, SoundBook(k, b, ordered),
         NEW id0 \in DOMAIN Holds(k, b), NEW d, d = Taken(k, b, id0)
  PROVE  /\ IsLost(k, d) => b.size > 1 /\ \A i \in DOMAIN Holds(k, b) : id0 <= i
         /\ ~ IsLost(k, d) => /\ SoundBook(k, d, ordered) /\ d.next_id = b.next_id
                              /\ Removes(Holds(k, b), Holds(k, d), id0)
<1>1. CASE k = "array"
  BY <1>1, ArrayDelete DEF SoundBook, Holds, IsLost, Taken
<1>2. CASE k = "list"
  BY <1>2, ListDelete DEF SoundBook, Holds, IsLost, Taken
<1>3. CASE k = "avl"
  BY <1>3, AvlDelete DEF SoundBook, Holds, IsLost, Taken
<1> QED
  BY <1>1, <1>2, <1>3 DEF Kinds

\* The dialogues talk about a contact that the book holds, and edit phone numbers
\* that may be stored.
ConsoleInv ==
  /\ kind \in Kinds /\ renamed \in BOOLEAN
  /\ SoundBook(kind, book, ~renamed)
  /\ at \in {"edit", "delete"} => id \in DOMAIN Contents
  /\ at = "edit" => phones \in PhoneLists(MaxPhones[kind])

\* What the console sees are the contacts of its book.
LEMMA HoldsContents ==
  ASSUME kind \in Kinds
  PROVE  Contents = Holds(kind, book)
BY DEF Kinds, Contents, Holds

\* An entry is read where the contact is.
LEMMA ReadsEntry ==
  ASSUME ConsoleInv, NEW i \in DOMAIN Contents
  PROVE  EntryOf(i) = Contents[i] /\ EntryOf(i) \in EntriesOf(kind)
<1>1. Contents = Holds(kind, book) /\ SoundBook(kind, book, ~renamed)
  BY HoldsContents DEF ConsoleInv
<1>2. Contents[i] \in EntriesOf(kind)
  BY <1>1, BookHolds DEF ConsoleInv
<1>3. EntryOf(i) = Contents[i]
  <2>1. CASE kind = "array"
    <3>1. ArrayInv(book)
      BY <1>1, <2>1 DEF SoundBook
    <3>2. Contents = Array!Contents(book) /\ EntryOf(i) = Array!EntryOf(book, i)
      BY <2>1 DEF Contents, EntryOf
    <3> QED
      BY <3>1, <3>2, ArrayContents
  <2>2. CASE kind = "list"
    <3>1. PICK c \in Seq(Nat) : ListChain(book, c)
      BY <1>1, <2>2 DEF SoundBook, ListInv
    <3>2. Contents = List!Contents(book) /\ EntryOf(i) = book.entry[i]
      BY <2>2 DEF Contents, EntryOf
    <3> QED
      BY <3>1, <3>2, ListContents
  <2>3. CASE kind = "avl"
    <3>1. PICK c \in Seq(Nat) : AvlChain(book, c)
      BY <1>1, <2>3 DEF SoundBook, AvlInv
    <3>2. Contents = Avl!Contents(book) /\ EntryOf(i) = book.entry[i]
      BY <2>3 DEF Contents, EntryOf
    <3> QED
      BY <3>1, <3>2, AvlContents
  <2> QED
    BY <2>1, <2>2, <2>3 DEF ConsoleInv, Kinds
<1> QED
  BY <1>2, <1>3

\* A search in the list stops at the first contact of the name.
LEMMA ListFinds ==
  ASSUME NEW b, NEW ordered \in BOOLEAN, ListInv(b, ordered), NEW first,
         NEW a, a = List!find_contact_by_name(b, first)
  PROVE  /\ a # NotFound => a \in DOMAIN List!Contents(b)
         /\ \A p \in DOMAIN List!Contents(b) :
              List!Contents(b)[p].first = first => a # NotFound
<1>1. PICK c \in Seq(Nat) : ListChain(b, c)
  BY DEF ListInv
<1>2. PICK S : S = {p \in DOMAIN b.entry : b.entry[p].first = first}
  OBVIOUS
<1>3. a = List!find_node(b, S)
  BY <1>2 DEF List!find_contact_by_name
<1>4. /\ a # NotFound => a \in DOMAIN b.next /\ a \in S
      /\ \A p \in DOMAIN b.next : p \in S => a # NotFound
  BY <1>1, <1>3, ListFind
<1>5. /\ DOMAIN List!Contents(b) = DOMAIN b.next
      /\ \A p \in DOMAIN b.next : List!Contents(b)[p] = b.entry[p]
  BY <1>1, ListContents
<1>6. DOMAIN b.entry = DOMAIN b.next
  BY <1>1, ListNodes
<1> QED
  BY <1>2, <1>4, <1>5, <1>6

\* In a tree, an older contact than i, but not the oldest, has a later first name.
MissedBehind(first, i) ==
  /\ kind = "avl"
  /\ \E j \in DOMAIN Contents : /\ book.tree.root < j /\ j < i
                                /\ Contents[j].first > first

\* A search answers with a contact of the book, and misses none of that name, but in a
\* tree behind another contact.
LEMMA BookFinds ==
  ASSUME ConsoleInv, NEW first \in Int, NEW last, NEW a, a = find_contact_by_name(first, last)
  PROVE  /\ a # NotFound => a \in DOMAIN Contents
         /\ \A i \in DOMAIN Contents :
              Contents[i].first = first /\ Contents[i].last = last /\ a = NotFound =>
                MissedBehind(first, i)
<1>1. SoundBook(kind, book, ~renamed) /\ (kind = "array" \/ kind = "list" \/ kind = "avl")
  BY DEF ConsoleInv, Kinds
<1>2. CASE kind = "array"
  <2>1. ArrayInv(book)
    BY <1>1, <1>2 DEF SoundBook
  <2>2. Contents = Array!Contents(book) /\ a = Array!find_contact_by_name(book, first, last)
    BY <1>2 DEF Contents, find_contact_by_name
  <2>3. /\ a # NotFound => a \in DOMAIN Array!Contents(book)
        /\ \A j \in DOMAIN Array!Contents(book) :
             /\ Array!Contents(book)[j].first = first
             /\ Array!Contents(book)[j].last = last
             => a # NotFound
    BY <2>1, <2>2, ArrayFind
  <2> QED
    BY <2>2, <2>3
<1>3. CASE kind = "list"
  <2>1. ListInv(book, ~renamed) /\ renamed \in BOOLEAN
    BY <1>1, <1>3 DEF SoundBook, ConsoleInv
  <2>2. Contents = List!Contents(book) /\ a = List!find_contact_by_name(book, first)
    BY <1>3 DEF Contents, find_contact_by_name
  <2>3. /\ a # NotFound => a \in DOMAIN List!Contents(book)
        /\ \A p \in DOMAIN List!Contents(book) :
              List!Contents(book)[p].first = first => a # NotFound
    BY <2>1, <2>2, ListFinds
  <2> QED
    BY <2>2, <2>3
<1>4. CASE kind = "avl"
  <2>1. AvlInv(book)
    BY <1>1, <1>4 DEF SoundBook
  <2>2. Contents = Avl!Contents(book) /\ a = Avl!find_contact_by_name(book, first)
    BY <1>4 DEF Contents, find_contact_by_name
  <2>3. /\ a # NotFound => a \in DOMAIN Avl!Contents(book)
        /\ \A p \in DOMAIN Avl!Contents(book) :
              Avl!Contents(book)[p].first = first /\ a = NotFound =>
                \E q \in DOMAIN Avl!Contents(book) :
                  book.tree.root < q /\ q < p /\ Avl!Contents(book)[q].first > first
    BY <2>1, <2>2, AvlFind
  <2> QED
    BY <1>4, <2>2, <2>3 DEF MissedBehind
<1>5. kind = "array" \/ kind = "list" \/ kind = "avl"
  BY <1>1
<1> QED
  BY Zenon, <1>5, <1>2, <1>3, <1>4

\* The three books start empty.
LEMMA ConsoleInit ==
  ASSUME Init
  PROVE  ConsoleInv /\ Contents = << >> /\ book.next_id = 0
<1>1. kind \in Kinds /\ at = "menu" /\ renamed = FALSE
  BY DEF Init, Kinds
<1>2. CASE kind = "array"
  <2>1. book = Array!create_list
    BY <1>2 DEF Init
  <2>2. book.next_id = 0
    BY <2>1 DEF Array!create_list
  <2> QED
    BY <1>1, <1>2, <2>1, <2>2, ArrayEmpty DEF ConsoleInv, SoundBook, Contents
<1>3. CASE kind = "list"
  <2>1. book = List!create_list
    BY <1>3 DEF Init
  <2>2. book.next_id = 0
    BY <2>1 DEF List!create_list
  <2> QED
    BY <1>1, <1>3, <2>1, <2>2, ListEmpty DEF ConsoleInv, SoundBook, Contents
<1>4. CASE kind = "avl"
  <2>1. book = Avl!create_list
    BY <1>4 DEF Init
  <2> QED
    BY <1>1, <1>4, <2>1, AvlEmpty DEF ConsoleInv, SoundBook, Contents
<1> QED
  BY <1>1, <1>2, <1>3, <1>4 DEF Kinds

\* What a step makes of the contacts: nothing; one is stored, one that has phone
\* numbers with some; or one is removed.
Quiet == UNCHANGED <<kind, book>>
\* One contact is stored, under a new id or one that is there.
StoresOne ==
  \E n \in Nat, e \in EntriesOf(kind) :
    /\ Stores(Contents, Contents', n, e)
    /\ \/ n = book.next_id /\ book.next_id' = book.next_id + 1
       \/ /\ n \in DOMAIN Contents /\ book.next_id' = book.next_id
          /\ Contents[n].phones # << >> => e.phones # << >>
\* One contact is removed.
RemovesOneContact ==
  /\ \E n \in DOMAIN Contents : Removes(Contents, Contents', n)
  /\ book.next_id' = book.next_id
\* One of these.
Outcome == Quiet \/ StoresOne \/ RemovesOneContact

\* A step that the console survives, with what it makes of the contacts, and why it
\* fails when it does.
GoodStep == ConsoleInv' /\ Outcome /\ RefusedOnlyAfterDeletion /\ LostByOldestOrByte

\* What the book is after a call.
LEMMA AfterCall ==
  ASSUME kind' \in Kinds, NEW k, k = kind', NEW b, b = book'
  PROVE  Contents' = Holds(k, b)
<1>1. Contents' = CASE kind' = "array" -> Array!Contents(book')
                    [] kind' = "list"  -> List!Contents(book')
                    [] kind' = "avl"   -> Avl!Contents(book')
  BY DEF Contents
<1> QED
  BY <1>1 DEF Holds, Kinds

\* console_add_contact is such a step.
LEMMA GoodAdd ==
  ASSUME ConsoleInv, console_add_contact
  PROVE  GoodStep
<1>1. PICK e \in EntriesOf(kind) :
         Becomes(CASE kind = "array" -> Array!add_contact(book, e)
                   [] kind = "list"  -> List!add_contact(book, e)
                   [] kind = "avl"   -> Avl!add_contact(book, e))
  BY DEF console_add_contact
<1>2. PICK d : d = Added(kind, book, e)
  OBVIOUS
<1>3. Becomes(d)
  BY <1>1, <1>2 DEF Added
<1>4. /\ at = "menu" /\ kind' = kind /\ renamed' = renamed /\ id' = id /\ phones' = phones
      /\ refused' = FALSE
  BY DEF console_add_contact
<1>5. kind \in Kinds /\ renamed \in BOOLEAN /\ SoundBook(kind, book, ~renamed)
  BY DEF ConsoleInv
<1>6. PICK o \in BOOLEAN : o = ~renamed
  BY <1>5
<1>7. /\ IsLost(kind, d) => book.size = BYTE - 2
      /\ ~ IsLost(kind, d) => /\ SoundBook(kind, d, o) /\ d.next_id = book.next_id + 1
                              /\ Stores(Holds(kind, book), Holds(kind, d), book.next_id, e)
  <2>1. PICK k, b : k \in Kinds /\ k = kind /\ b = book
    BY <1>5
  <2>2. SoundBook(k, b, o) /\ e \in EntriesOf(k) /\ d = Added(k, b, e)
    BY <1>2, <1>5, <1>6, <2>1
  <2>3. /\ IsLost(k, d) => b.size = BYTE - 2
        /\ ~ IsLost(k, d) => /\ SoundBook(k, d, o) /\ d.next_id = b.next_id + 1
                             /\ Stores(Holds(k, b), Holds(k, d), b.next_id, e)
    BY <2>1, <2>2, BookAdds
  <2> QED
    BY <2>1, <2>3
<1>8. CASE IsLost(kind, d)
  <2>1. book' = book /\ at' = "lost" /\ kind = "avl"
    BY <1>3, <1>8 DEF Becomes, IsLost
  <2>2. ConsoleInv'
    BY <1>4, <1>5, <2>1 DEF ConsoleInv
  <2> QED
    BY <1>4, <1>7, <1>8, <2>1, <2>2
       DEF GoodStep, Outcome, Quiet, RefusedOnlyAfterDeletion, LostByOldestOrByte
<1>9. CASE ~ IsLost(kind, d)
  <2>1. book' = d /\ at' = "menu"
    BY <1>3, <1>9 DEF Becomes, IsLost
  <2>2. ConsoleInv'
    BY <1>4, <1>5, <1>6, <1>7, <1>9, <2>1 DEF ConsoleInv
  <2>3. Contents = Holds(kind, book) /\ Contents' = Holds(kind, d)
    BY <1>4, <1>5, <2>1, HoldsContents, AfterCall
  <2>4. book.next_id \in Nat /\ book.next_id' = d.next_id
    BY <1>5, <1>6, <2>1, BookHolds
  <2>5. StoresOne
    BY <1>7, <1>9, <2>3, <2>4 DEF StoresOne
  <2> QED
    BY <1>4, <2>1, <2>2, <2>5
       DEF GoodStep, Outcome, RefusedOnlyAfterDeletion, LostByOldestOrByte
<1> QED
  BY <1>8, <1>9

\* So is console_delete_contact.
LEMMA GoodDelete ==
  ASSUME ConsoleInv, console_delete_contact
  PROVE  GoodStep
<1>1. PICK d : d = Taken(kind, book, id)
  OBVIOUS
<1>2. Becomes(d)
  BY <1>1 DEF console_delete_contact, Taken
<1>3. /\ at = "delete" /\ kind' = kind /\ renamed' = renamed /\ phones' = phones
      /\ refused' = refused
  BY DEF console_delete_contact
<1>4. kind \in Kinds /\ renamed \in BOOLEAN /\ SoundBook(kind, book, ~renamed)
  BY DEF ConsoleInv
<1>5. id \in DOMAIN Contents
  BY <1>3 DEF ConsoleInv
<1>6. PICK o \in BOOLEAN : o = ~renamed
  BY <1>4
<1>7. Contents = Holds(kind, book)
  BY <1>4, HoldsContents
<1>8. /\ IsLost(kind, d) => book.size > 1 /\ \A i \in DOMAIN Contents : id <= i
      /\ ~ IsLost(kind, d) => /\ SoundBook(kind, d, o) /\ d.next_id = book.next_id
                              /\ Removes(Contents, Holds(kind, d), id)
  BY ZenonT(60), <1>1, <1>4, <1>5, <1>6, <1>7, BookTakes
<1>9. CASE IsLost(kind, d)
  <2>1. book' = book /\ at' = "lost" /\ kind = "avl"
    BY <1>2, <1>9 DEF Becomes, IsLost
  <2>2. ConsoleInv'
    BY <1>3, <1>4, <2>1 DEF ConsoleInv
  <2> QED
    BY <1>3, <1>8, <1>9, <2>1, <2>2
       DEF GoodStep, Outcome, Quiet, RefusedOnlyAfterDeletion, LostByOldestOrByte
<1>10. CASE ~ IsLost(kind, d)
  <2>1. book' = d /\ at' = "menu"
    BY <1>2, <1>10 DEF Becomes, IsLost
  <2>2. ConsoleInv'
    BY <1>3, <1>4, <1>6, <1>8, <1>10, <2>1 DEF ConsoleInv
  <2>3. Contents' = Holds(kind, d)
    BY <1>3, <1>4, <2>1, AfterCall
  <2>4. RemovesOneContact
    BY <1>5, <1>8, <1>10, <2>1, <2>3 DEF RemovesOneContact
  <2> QED
    BY <1>3, <2>1, <2>2, <2>4
       DEF GoodStep, Outcome, RefusedOnlyAfterDeletion, LostByOldestOrByte
<1> QED
  BY <1>9, <1>10

\* A list of phone numbers that may be stored.
LEMMA PhoneListsAre ==
  ASSUME NEW bound \in Nat, NEW p
  PROVE  p \in PhoneLists(bound) <=> p \in Seq(Number) /\ Len(p) <= bound
<1>1. ASSUME p \in PhoneLists(bound) PROVE p \in Seq(Number) /\ Len(p) <= bound
  <2>1. PICK n \in 0..bound : p \in [1..n -> Number]
    BY <1>1 DEF PhoneLists
  <2> QED
    BY <2>1
<1>2. ASSUME p \in Seq(Number), Len(p) <= bound PROVE p \in PhoneLists(bound)
  <2>1. Len(p) \in 0..bound /\ p \in [1..Len(p) -> Number]
    BY <1>2
  <2> QED
    BY <2>1 DEF PhoneLists
<1> QED
  BY <1>1, <1>2

\* The question for a name either ends the dialogue or names a contact of the book.
LEMMA GoodAsk ==
  ASSUME ConsoleInv, NEW dialogue \in {"edit", "delete"}, Ask(dialogue)
  PROVE  /\ id' \in DOMAIN Contents /\ at' = dialogue /\ UNCHANGED <<kind, book, renamed>>
         /\ Contents' = Contents
<1>1. PICK n \in Names[kind] : id' = find_contact_by_name(n[1], n[2])
  BY DEF Ask
<1>2. id' # NotFound /\ at' = dialogue /\ UNCHANGED <<kind, book, renamed>>
  BY DEF Ask
<1>3. n[1] \in Int
  <2>1. kind \in {"array", "list", "avl"}
    BY DEF ConsoleInv, Kinds
  <2>2. n \in Int \X Int
    BY <2>1, BooksAssumption
  <2> QED
    BY <2>2
<1>4. id' \in DOMAIN Contents
  BY <1>1, <1>2, <1>3, BookFinds
<1>5. Contents' = Contents
  BY <1>2 DEF Contents
<1> QED
  BY <1>2, <1>4, <1>5

\* What the dialogues do until they call: the contacts stay.
LEMMA GoodTalk ==
  ASSUME ConsoleInv, AskUpdate \/ AskDelete \/ AddPhone \/ ChangePhone \/ DeletePhone \/ Leave
  PROVE  GoodStep
<1>0. kind \in Kinds /\ renamed \in BOOLEAN /\ MaxPhones[kind] \in Nat
  BY BooksAssumption DEF ConsoleInv, Kinds
<1>1. UNCHANGED <<kind, book, renamed>> /\ (at = "edit" /\ at' = "menu" => FALSE) /\ at' # "lost"
  BY DEF AskUpdate, AskDelete, Ask, AddPhone, ChangePhone, DeletePhone, Leave
<1>2. SoundBook(kind', book', ~renamed')
  <2>1. SoundBook(kind, book, ~renamed)
    BY DEF ConsoleInv
  <2> QED
    BY <1>1, <2>1
<1>3. Contents' = Contents
  BY <1>1 DEF Contents
<1>4. at' \in {"edit", "delete"} => id' \in DOMAIN Contents'
  <2>1. CASE AskUpdate
    BY <2>1, GoodAsk DEF AskUpdate
  <2>2. CASE AskDelete
    BY <2>2, GoodAsk DEF AskDelete
  <2>3. CASE AddPhone \/ ChangePhone \/ DeletePhone
    BY <1>3, <2>3 DEF AddPhone, ChangePhone, DeletePhone, ConsoleInv
  <2>4. CASE Leave
    BY <2>4 DEF Leave
  <2> QED
    BY <2>1, <2>2, <2>3, <2>4
<1>5. at' = "edit" => phones' \in PhoneLists(MaxPhones[kind])
  <2>1. CASE AskUpdate
    <3>1. id' \in DOMAIN Contents /\ phones' = EntryOf(id').phones
      BY <2>1, GoodAsk DEF AskUpdate
    <3>2. PICK i : i = id'
      OBVIOUS
    <3>3. i \in DOMAIN Contents /\ phones' = EntryOf(i).phones
      BY <3>1, <3>2
    <3>4. EntryOf(i) \in EntriesOf(kind)
      BY <3>3, ReadsEntry
    <3> QED
      BY <1>0, <3>3, <3>4, EntryTypes DEF Kinds
  <2>2. CASE AskDelete
    BY <2>2 DEF AskDelete, Ask
  <2>3. CASE Leave
    BY <2>3 DEF Leave
  <2>4. CASE AddPhone \/ ChangePhone \/ DeletePhone
    <3>1. phones \in Seq(Number) /\ Len(phones) <= MaxPhones[kind]
      BY <1>0, <2>4, PhoneListsAre DEF ConsoleInv, AddPhone, ChangePhone, DeletePhone
    <3>2. phones' \in Seq(Number) /\ Len(phones') <= MaxPhones[kind]
      <4>1. CASE AddPhone
        <5>1. PICK n \in Number : phones' = Append(phones, n)
          BY <4>1 DEF AddPhone
        <5>2. Len(phones) < MaxPhones[kind] /\ Len(phones) \in Nat
          BY <3>1, <4>1 DEF AddPhone
        <5> QED
          BY <1>0, <3>1, <5>1, <5>2
      <4>2. CASE ChangePhone
        <5>1. PICK index \in DOMAIN phones, n \in Number : phones' = [phones EXCEPT ![index] = n]
          BY <4>2 DEF ChangePhone
        <5> QED
          BY <1>0, <3>1, <5>1
      <4>3. CASE DeletePhone
        <5>1. PICK index \in DOMAIN phones : phones' = RemoveAt(phones, index)
          BY <4>3 DEF DeletePhone
        <5>2. index \in 1..Len(phones) /\ Len(phones) \in Nat
          BY <3>1, <5>1
        <5>3. phones' \in Seq(Number) /\ Len(phones') = Len(phones) - 1
          BY <3>1, <5>1, <5>2, RemovesOne
        <5> QED
          BY <1>0, <3>1, <5>2, <5>3
      <4> QED
        BY <2>4, <4>1, <4>2, <4>3
    <3> QED
      BY <1>0, <3>2, PhoneListsAre
  <2> QED
    BY <2>1, <2>2, <2>3, <2>4
<1>6. ConsoleInv'
  BY <1>0, <1>1, <1>2, <1>4, <1>5 DEF ConsoleInv
<1> QED
  BY <1>1, <1>6 DEF GoodStep, Outcome, Quiet, RefusedOnlyAfterDeletion, LostByOldestOrByte

\* An update stores the new names, and the old phone numbers when the new list is empty.
LEMMA GoodUpdate ==
  ASSUME ConsoleInv, FinishUpdate
  PROVE  GoodStep
<1>1. PICK old : old = EntryOf(id)
  OBVIOUS
<1>2. PICK n \in Names[kind] :
        LET e == [first |-> n[1], last |-> n[2], phones |-> PhonesStored(old.phones)]
        IN /\ refused' = (kind = "array" /\ Array!Refuses(book, id))
           /\ book' = CASE refused'         -> book
                        [] ~refused' /\ kind = "array" -> Array!update_contact(book, id, e)
                        [] kind = "list"  -> List!update_contact(book, id, e)
                        [] kind = "avl"   -> Avl!update_contact(book, id, e)
           /\ renamed' = (renamed \/ (~refused' /\ n[1] # old.first))
  BY <1>1 DEF FinishUpdate
<1>3. PICK e : e = [first |-> n[1], last |-> n[2], phones |-> PhonesStored(old.phones)]
  OBVIOUS
<1>4. /\ refused' = (kind = "array" /\ Array!Refuses(book, id))
      /\ book' = CASE refused'         -> book
                   [] ~refused' /\ kind = "array" -> Array!update_contact(book, id, e)
                   [] kind = "list"  -> List!update_contact(book, id, e)
                   [] kind = "avl"   -> Avl!update_contact(book, id, e)
      /\ renamed' = (renamed \/ (~refused' /\ n[1] # old.first))
  BY <1>2, <1>3
<1>5. at = "edit" /\ at' = "menu" /\ kind' = kind
  BY DEF FinishUpdate
<1>6. /\ kind \in Kinds /\ renamed \in BOOLEAN /\ SoundBook(kind, book, ~renamed)
      /\ id \in DOMAIN Contents /\ phones \in PhoneLists(MaxPhones[kind])
  BY <1>5 DEF ConsoleInv
<1>7. old = Contents[id] /\ old \in EntriesOf(kind)
  BY <1>1, <1>6, ReadsEntry
<1>8. e \in EntriesOf(kind)
  <2>1. PhonesStored(old.phones) \in PhoneLists(MaxPhones[kind])
    BY <1>6, <1>7, EntryTypes DEF PhonesStored, Kinds
  <2> QED
    BY <1>3, <2>1 DEF EntriesOf
<1>9. /\ e.first = n[1] /\ e.phones = PhonesStored(old.phones)
      /\ old.phones # << >> => e.phones # << >>
  BY <1>3 DEF PhonesStored
<1>10. Contents = Holds(kind, book)
  BY <1>6, HoldsContents
<1>11. CASE refused'
  <2>1. book' = book /\ kind = "array" /\ Array!Refuses(book, id) /\ renamed' = renamed
    BY <1>4, <1>6, <1>11
  <2>2. ConsoleInv'
    <3>1. ArrayInv(book)
      BY <1>6, <2>1 DEF SoundBook
    <3> QED
      BY <1>5, <1>6, <2>1, <3>1 DEF ConsoleInv, SoundBook
  <2>3. Len(book.contacts) < book.next_id
    <3>1. id \in Nat /\ id < book.next_id /\ book.next_id \in Nat
      BY <1>6, <1>10, BookHolds
    <3>2. Len(book.contacts) \in Nat
      BY <1>6, <2>1, ArrayTypes DEF SoundBook
    <3> QED
      BY <2>1, <3>1, <3>2 DEF Array!Refuses, Array!capacity
  <2> QED
    BY <1>5, <2>1, <2>2, <2>3
       DEF GoodStep, Outcome, Quiet, RefusedOnlyAfterDeletion, LostByOldestOrByte
<1>12. CASE ~ refused'
  <2>1. PICK d : d = Updated(kind, book, id, e)
    OBVIOUS
  <2>2. book' = d
    BY <1>4, <1>6, <1>12, <2>1 DEF Updated, Kinds
  <2>3. PICK k, b, o, i :
          k \in Kinds /\ o \in BOOLEAN /\ k = kind /\ b = book /\ o = ~renamed /\ i = id
    BY <1>6
  <2>4. SoundBook(k, b, o) /\ i \in DOMAIN Holds(k, b) /\ e \in EntriesOf(k)
    BY <1>6, <1>8, <1>10, <2>3
  <2>5. d = Updated(k, b, i, e)
    BY <2>1, <2>3
  <2>6. /\ SoundBook(k, d, o /\ e.first = Holds(k, b)[i].first)
        /\ d.next_id = b.next_id
        /\ Stores(Holds(k, b), Holds(k, d), i, e)
    <3>1. k \in Kinds /\ o \in BOOLEAN
      BY <2>3
    <3> QED
      BY <2>4, <2>5, <3>1, BookUpdates
  <2>7. (o /\ e.first = Holds(k, b)[i].first) = ~renamed'
    BY <1>4, <1>6, <1>7, <1>9, <1>10, <1>12, <2>3
  <2>8. ConsoleInv'
    <3>1. SoundBook(kind', book', ~renamed')
      BY <1>5, <2>2, <2>3, <2>6, <2>7
    <3>2. renamed' \in BOOLEAN
      BY <1>4, <1>6
    <3> QED
      BY <1>5, <1>6, <3>1, <3>2 DEF ConsoleInv
  <2>9. Contents' = Holds(k, d)
    BY <1>5, <1>6, <2>2, <2>3, AfterCall
  <2>10. id \in Nat
    BY <2>3, <2>4, BookHolds
  <2>11. StoresOne
    BY <1>6, <1>7, <1>8, <1>9, <1>10, <2>2, <2>3, <2>6, <2>9, <2>10 DEF StoresOne
  <2> QED
    BY <1>5, <1>12, <2>8, <2>11
       DEF GoodStep, Outcome, RefusedOnlyAfterDeletion, LostByOldestOrByte
<1> QED
  BY <1>11, <1>12

\* Every step of the console is such a step or a stutter.
LEMMA ConsoleStep ==
  ASSUME ConsoleInv, [Next]_vars
  PROVE  ConsoleInv' /\ (GoodStep \/ UNCHANGED vars)
<1>1. CASE UNCHANGED vars
  <2>1. UNCHANGED <<kind, book, at, id, phones, refused, renamed>>
    BY <1>1 DEF vars
  <2>2. Contents' = Contents
    BY <2>1 DEF Contents
  <2>3. SoundBook(kind', book', ~renamed')
    <3>1. SoundBook(kind, book, ~renamed)
      BY DEF ConsoleInv
    <3> QED
      BY <2>1, <3>1
  <2> QED
    BY <1>1, <2>1, <2>2, <2>3 DEF ConsoleInv
<1>2. CASE Next
  <2>1. GoodStep
    BY <1>2, GoodAdd, GoodDelete, GoodTalk, GoodUpdate DEF Next
  <2> QED
    BY <2>1 DEF GoodStep
<1> QED
  BY <1>1, <1>2

\* What becomes of the contacts is a step of the promise, and no phone list is emptied.
LEMMA KeepsPromise ==
  ASSUME ConsoleInv, ConsoleInv', Outcome
  PROVE  /\ Promise!BookNext \/ UNCHANGED Promise!bookVars
         /\ PhonesNeverEmptied
<1>1. PICK h, h2, m, m2 : h = Contents /\ h2 = Contents' /\ m = book.next_id /\ m2 = book.next_id'
  OBVIOUS
<1>2. /\ m \in Nat /\ h = [i \in DOMAIN h |-> h[i]]
      /\ \A i \in DOMAIN h : i \in Nat /\ i < m
  <2>1. PICK k, b, o : k = kind /\ b = book /\ o = ~renamed
    OBVIOUS
  <2>2. k \in Kinds /\ o \in BOOLEAN /\ SoundBook(k, b, o) /\ h = Holds(k, b) /\ m = b.next_id
    BY <1>1, <2>1, HoldsContents DEF ConsoleInv
  <2> QED
    BY <2>2, BookHolds
<1>3. h2 = [i \in DOMAIN h2 |-> h2[i]]
  <2>1. PICK k, b, o : k = kind' /\ b = book' /\ o = ~renamed'
    OBVIOUS
  <2>2. k \in Kinds /\ o \in BOOLEAN /\ SoundBook(k, b, o) /\ h2 = Holds(k, b)
    BY <1>1, <2>1, AfterCall DEF ConsoleInv
  <2> QED
    BY <2>2, BookHolds
<1>4. CASE Quiet
  <2>1. h2 = h /\ m2 = m
    BY <1>1, <1>4 DEF Quiet, Contents
  <2> QED
    BY <1>1, <2>1 DEF Promise!bookVars, PhonesNeverEmptied
<1>5. CASE StoresOne
  <2>1. PICK n \in Nat, e \in EntriesOf(kind) :
          /\ Stores(h, h2, n, e)
          /\ \/ n = m /\ m2 = m + 1
             \/ /\ n \in DOMAIN h /\ m2 = m
                /\ h[n].phones # << >> => e.phones # << >>
    BY <1>1, <1>5 DEF StoresOne
  <2>2. /\ DOMAIN h2 = DOMAIN h \union {n} /\ h2[n] = e
        /\ \A i \in DOMAIN h : i # n => h2[i] = h[i]
    BY <2>1 DEF Stores
  <2>3. e \in UNION {EntriesOf(k) : k \in DOMAIN Names}
    <3>1. kind \in DOMAIN Names
      BY BooksAssumption DEF ConsoleInv, Kinds
    <3> QED
      BY <3>1
  <2>4. CASE n = m /\ m2 = m + 1
    <3>1. m \notin DOMAIN h
      BY <1>2
    <3>2. h2 = [i \in DOMAIN h \union {m} |-> IF i = m THEN h2[i] ELSE h[i]]
      BY <1>3, <2>2, <2>4, <3>1
    <3>3. Promise!Store
      BY <1>1, <2>2, <2>3, <2>4, <3>2 DEF Promise!Store
    <3>4. PhonesNeverEmptied
      BY <1>1, <2>2, <2>4, <3>1 DEF PhonesNeverEmptied
    <3> QED
      BY <3>3, <3>4 DEF Promise!BookNext
  <2>5. CASE n \in DOMAIN h /\ m2 = m /\ (h[n].phones # << >> => e.phones # << >>)
    <3>1. h2 = [h EXCEPT ![n] = h2[n]]
      BY <1>2, <1>3, <2>2, <2>5
    <3>2. Promise!Change
      BY <1>1, <2>2, <2>3, <2>5, <3>1 DEF Promise!Change
    <3>3. PhonesNeverEmptied
      <4>1. \A i \in DOMAIN h \intersect DOMAIN h2 : h[i].phones # << >> => h2[i].phones # << >>
        BY <2>2, <2>5
      <4> QED
        BY <1>1, <4>1 DEF PhonesNeverEmptied
    <3> QED
      BY <3>2, <3>3 DEF Promise!BookNext
  <2> QED
    BY <2>1, <2>4, <2>5
<1>6. CASE RemovesOneContact
  <2>1. PICK n \in DOMAIN h : Removes(h, h2, n) /\ m2 = m
    BY <1>1, <1>6 DEF RemovesOneContact
  <2>2. DOMAIN h2 = DOMAIN h \ {n} /\ \A i \in DOMAIN h2 : h2[i] = h[i]
    BY <2>1 DEF Removes
  <2>3. h2 = [j \in DOMAIN h \ {n} |-> h[j]]
    BY <1>3, <2>2
  <2>4. Promise!Remove
    BY <1>1, <2>1, <2>3 DEF Promise!Remove
  <2>5. PhonesNeverEmptied
    BY <1>1, <2>2 DEF PhonesNeverEmptied
  <2> QED
    BY <2>4, <2>5 DEF Promise!BookNext
<1> QED
  BY <1>4, <1>5, <1>6 DEF Outcome

\* A contact is found by its own names, but in a tree behind another.
LEMMA FoundByItsName ==
  ASSUME ConsoleInv
  PROVE  StoredIsFound
<1> SUFFICES ASSUME NEW i \in DOMAIN Contents,
                    find_contact_by_name(Contents[i].first, Contents[i].last) = NotFound
             PROVE  MissedBehind(Contents[i].first, i)
  BY DEF StoredIsFound, MissedBehind
<1>1. PICK e : e = Contents[i]
  OBVIOUS
<1>2. e.first \in Int
  <2>1. e \in EntriesOf(kind) /\ kind \in {"array", "list", "avl"}
    BY <1>1, ReadsEntry DEF ConsoleInv, Kinds
  <2> QED
    BY <2>1, EntryTypes
<1>3. PICK a : a = find_contact_by_name(e.first, e.last)
  OBVIOUS
<1>4. \A j \in DOMAIN Contents :
        Contents[j].first = e.first /\ Contents[j].last = e.last /\ a = NotFound =>
          MissedBehind(e.first, j)
  BY <1>2, <1>3, BookFinds
<1> QED
  BY <1>1, <1>3, <1>4

\* The data structures are sound.
LEMMA SoundStructures ==
  ASSUME ConsoleInv
  PROVE  BooksAreSound
<1>0. SoundBook(kind, book, ~renamed) /\ renamed \in BOOLEAN
  BY DEF ConsoleInv
<1>1. NoOverrun
  BY <1>0 DEF NoOverrun, SoundBook, ArrayInv
<1>2. ASSUME kind = "list"
      PROVE  \E c \in Seq(Nat) :
               /\ ListChain(book, c) /\ (~renamed => Ascending(FirstNames(book), c))
               /\ List!Forward(book) = c /\ List!Backward(book) = Queue!Reverse(c)
  <2>1. PICK c \in Seq(Nat) : ListChain(book, c) /\ (~renamed => Ascending(FirstNames(book), c))
    BY <1>0, <1>2 DEF SoundBook, ListInv
  <2> QED
    BY <2>1, ListContents
<1>3. ListIsLinked
  <2> SUFFICES ASSUME kind = "list"
               PROVE  /\ List!Backward(book) = Reverse(List!Forward(book))
                      /\ ToSet(List!Forward(book)) = DOMAIN book.next
                      /\ DOMAIN book.prev = DOMAIN book.next
                      /\ DOMAIN book.entry = DOMAIN book.next
                      /\ Len(List!Forward(book)) = book.size
    BY DEF ListIsLinked
  <2>1. PICK c \in Seq(Nat) :
               /\ ListChain(book, c)
               /\ List!Forward(book) = c /\ List!Backward(book) = Queue!Reverse(c)
    BY <1>2
  <2>2. Queue!Reverse(c) = Reverse(c)
    BY DEF Queue!Reverse, Reverse
  <2>3. /\ DOMAIN book.next = NodesOf(c)
        /\ DOMAIN book.prev = DOMAIN book.next /\ DOMAIN book.entry = DOMAIN book.next
    BY <2>1, ListNodes
  <2>4. ToSet(c) = NodesOf(c)
    BY DEF ToSet, NodesOf
  <2>5. Len(c) = book.size
    BY <2>1 DEF ListChain
  <2> QED
    BY <2>1, <2>2, <2>3, <2>4, <2>5
<1>4. SortedUntilRenamed
  <2> SUFFICES ASSUME kind = "list", ~renamed,
                      NEW i \in DOMAIN List!Forward(book), NEW j \in DOMAIN List!Forward(book), i < j
               PROVE  book.entry[List!Forward(book)[i]].first
                        <= book.entry[List!Forward(book)[j]].first
    BY DEF SortedUntilRenamed
  <2>1. PICK c \in Seq(Nat) :
               /\ ListChain(book, c) /\ Ascending(FirstNames(book), c)
               /\ List!Forward(book) = c
    BY <1>2
  <2>2. i \in 1..Len(c) /\ j \in 1..Len(c)
    BY <2>1
  <2>3. PICK v : v = FirstNames(book)
    OBVIOUS
  <2>4. v[c[i]] <= v[c[j]]
    BY <2>1, <2>2, <2>3 DEF Ascending
  <2>5. c[i] \in NodesOf(c) /\ c[j] \in NodesOf(c) /\ DOMAIN book.entry = NodesOf(c)
    <3>1. DOMAIN book.next = NodesOf(c) /\ DOMAIN book.entry = DOMAIN book.next
      BY <2>1, ListNodes
    <3> QED
      BY <2>2, <3>1 DEF NodesOf
  <2>6. v[c[i]] = book.entry[c[i]].first /\ v[c[j]] = book.entry[c[j]].first
    BY <2>3, <2>5 DEF FirstNames
  <2> QED
    BY <2>1, <2>4, <2>6
<1>5. SpineUntilLost
  BY <1>0, AvlSound DEF SpineUntilLost, SoundBook
<1> QED
  BY <1>1, <1>3, <1>4, <1>5 DEF BooksAreSound

-----------------------------------------------------------------------------
(* module2/task3/4.3: the tree by itself, under keys in any order. SubTree   *)
(* says which keys are below a node; what the recursive functions of AvlTree *)
(* make of a subtree is put together from what they make of its parts.       *)

-----------------------------------------------------------------------------
(* The tree of module2/task3/4.3 under keys in any order.                  *)

\* The height that fix_height makes of those of the children.
Taller(a, b) == IF b > a THEN b ELSE a

\* The node x of M, when C says which keys are below each node: larger ones to the left
\* and smaller ones to the right, and it is higher than both.
KeptNode(M, C, S, x) ==
  \E l, r :
    /\ l \in S \union {Tree!NULL} /\ r \in S \union {Tree!NULL}
    /\ M[x] = [left |-> l, right |-> r, height |-> Taller(Tree!height(M, l), Tree!height(M, r)) + 1]
    /\ M[x].height \in Nat
    /\ C[x] = {x} \union C[l] \union C[r]
    /\ \A y \in C[l] : y > x
    /\ \A y \in C[r] : y < x

\* S are the keys of the subtree r of M, and it is a search tree.
SubTree(M, r, S) ==
  \E C : /\ C[Tree!NULL] = {} /\ C[r] = S /\ r \in S \union {Tree!NULL}
         /\ S \subseteq Nat /\ S \subseteq DOMAIN M
         /\ \A x \in S : /\ KeptNode(M, C, S, x) /\ C[x] \subseteq S
                         /\ \A y \in C[x] : C[y] \subseteq C[x]

\* A subtree, and the subtrees of its root.
Parts(M, p, S, l, r, L, R) ==
  /\ p \in Nat /\ p \in DOMAIN M
  /\ M[p] = [left |-> l, right |-> r, height |-> Taller(Tree!height(M, l), Tree!height(M, r)) + 1]
  /\ SubTree(M, l, L) /\ SubTree(M, r, R)
  /\ S = {p} \union L \union R
  /\ \A y \in L : y > p
  /\ \A y \in R : y < p

\* A subtree without keys.
LEMMA NoSubTree ==
  ASSUME NEW M
  PROVE  SubTree(M, Tree!NULL, {})
<1>1. PICK C : C = [x \in {Tree!NULL} |-> {}]
  OBVIOUS
<1> QED
  BY <1>1 DEF SubTree

\* There is nothing below no node.
LEMMA EmptySubTree ==
  ASSUME NEW M, NEW S, SubTree(M, Tree!NULL, S)
  PROVE  S = {}
BY DEF SubTree

\* The keys of a subtree are nodes of the map, its root among them.
LEMMA SubTreeKeys ==
  ASSUME NEW M, NEW p, NEW S, SubTree(M, p, S)
  PROVE  S \subseteq Nat /\ S \subseteq DOMAIN M /\ p \in S \union {Tree!NULL}
BY DEF SubTree

\* A subtree is what it is while its nodes are.
LEMMA SubTreeStays ==
  ASSUME NEW M, NEW p, NEW S, SubTree(M, p, S), NEW N,
         \A x \in S : x \in DOMAIN N /\ N[x] = M[x]
  PROVE  SubTree(N, p, S)
<1>1. PICK C :
         /\ C[Tree!NULL] = {} /\ C[p] = S /\ p \in S \union {Tree!NULL}
         /\ S \subseteq Nat /\ S \subseteq DOMAIN M
         /\ \A x \in S : /\ KeptNode(M, C, S, x) /\ C[x] \subseteq S
                         /\ \A y \in C[x] : C[y] \subseteq C[x]
  BY DEF SubTree
<1>2. \A x \in S : KeptNode(N, C, S, x)
  <2> TAKE x \in S
  <2>1. PICK l, r :
          /\ l \in S \union {Tree!NULL} /\ r \in S \union {Tree!NULL}
          /\ M[x] = [left |-> l, right |-> r, height |-> Taller(Tree!height(M, l), Tree!height(M, r)) + 1]
          /\ M[x].height \in Nat
          /\ C[x] = {x} \union C[l] \union C[r]
          /\ \A y \in C[l] : y > x
          /\ \A y \in C[r] : y < x
    BY <1>1 DEF KeptNode
  <2>2. Tree!height(N, l) = Tree!height(M, l) /\ Tree!height(N, r) = Tree!height(M, r)
    BY <2>1 DEF Tree!height
  <2>3. N[x] = M[x]
    OBVIOUS
  <2> QED
    BY <2>1, <2>2, <2>3 DEF KeptNode
<1> QED
  BY <1>1, <1>2 DEF SubTree

\* A node is among the keys from it on.
LEMMA KeptItself ==
  ASSUME NEW M, NEW C, NEW S, NEW x, KeptNode(M, C, S, x)
  PROVE  x \in C[x]
<1>1. PICK l, r : C[x] = {x} \union C[l] \union C[r]
  BY DEF KeptNode
<1> QED
  BY <1>1

\* Every node is the root of a subtree.
LEMMA SubTreeAt ==
  ASSUME NEW M, NEW C, NEW S, C[Tree!NULL] = {}, S \subseteq Nat, S \subseteq DOMAIN M,
         \A x \in S : /\ KeptNode(M, C, S, x) /\ C[x] \subseteq S
                     /\ \A y \in C[x] : C[y] \subseteq C[x],
         NEW c \in S \union {Tree!NULL}
  PROVE  SubTree(M, c, C[c])
<1>1. C[c] \subseteq S
  OBVIOUS
<1>2. c \in C[c] \union {Tree!NULL}
  BY KeptItself
<1>3. \A x \in C[c] : C[x] \subseteq C[c]
  OBVIOUS
<1>4. ASSUME NEW x \in C[c]
      PROVE  KeptNode(M, C, C[c], x)
  <2>1. x \in S /\ C[x] \subseteq C[c]
    BY <1>1, <1>3
  <2>2. PICK a, b :
          /\ a \in S \union {Tree!NULL} /\ b \in S \union {Tree!NULL}
          /\ M[x] = [left |-> a, right |-> b, height |-> Taller(Tree!height(M, a), Tree!height(M, b)) + 1]
          /\ M[x].height \in Nat
          /\ C[x] = {x} \union C[a] \union C[b]
          /\ \A y \in C[a] : y > x
          /\ \A y \in C[b] : y < x
    BY <2>1 DEF KeptNode
  <2>3. \A y \in S : y \in C[y]
    BY KeptItself
  <2>4. a \in C[c] \union {Tree!NULL} /\ b \in C[c] \union {Tree!NULL}
    BY <2>1, <2>2, <2>3
  <2> QED
    BY <2>2, <2>4 DEF KeptNode
<1> QED
  BY <1>1, <1>2, <1>3, <1>4 DEF SubTree

\* Every node of a subtree has a subtree of its own in it, and its children are in it.
LEMMA SubTreeFrom ==
  ASSUME NEW M, NEW p, NEW S, SubTree(M, p, S), NEW x \in S
  PROVE  /\ \E X : X \subseteq S /\ SubTree(M, x, X)
         /\ M[x].left \in S \union {Tree!NULL} /\ M[x].right \in S \union {Tree!NULL}
<1>1. PICK C :
         /\ C[Tree!NULL] = {} /\ C[p] = S /\ p \in S \union {Tree!NULL}
         /\ S \subseteq Nat /\ S \subseteq DOMAIN M
         /\ \A y \in S : /\ KeptNode(M, C, S, y) /\ C[y] \subseteq S
                         /\ \A z \in C[y] : C[z] \subseteq C[y]
  BY DEF SubTree
<1>2. SubTree(M, x, C[x])
  BY <1>1, SubTreeAt
<1>3. KeptNode(M, C, S, x) /\ C[x] \subseteq S
  BY <1>1
<1>4. PICK l, r :
        /\ l \in S \union {Tree!NULL} /\ r \in S \union {Tree!NULL}
        /\ M[x] = [left |-> l, right |-> r, height |-> Taller(Tree!height(M, l), Tree!height(M, r)) + 1]
  BY <1>3 DEF KeptNode
<1>5. M[x].left = l /\ M[x].right = r
  BY <1>4
<1> QED
  BY <1>2, <1>3, <1>4, <1>5

\* The subtrees of a root.
LEMMA SubTreeParts ==
  ASSUME NEW M, NEW p, NEW S, SubTree(M, p, S), p # Tree!NULL
  PROVE  \E l, r, L, R : Parts(M, p, S, l, r, L, R)
<1>1. PICK C :
         /\ C[Tree!NULL] = {} /\ C[p] = S /\ p \in S \union {Tree!NULL}
         /\ S \subseteq Nat /\ S \subseteq DOMAIN M
         /\ \A x \in S : /\ KeptNode(M, C, S, x) /\ C[x] \subseteq S
                         /\ \A y \in C[x] : C[y] \subseteq C[x]
  BY DEF SubTree
<1>2. p \in S
  BY <1>1
<1>3. PICK l, r :
        /\ l \in S \union {Tree!NULL} /\ r \in S \union {Tree!NULL}
        /\ M[p] = [left |-> l, right |-> r, height |-> Taller(Tree!height(M, l), Tree!height(M, r)) + 1]
        /\ M[p].height \in Nat
        /\ C[p] = {p} \union C[l] \union C[r]
        /\ \A y \in C[l] : y > p
        /\ \A y \in C[r] : y < p
  BY <1>1, <1>2 DEF KeptNode
<1>4. SubTree(M, l, C[l]) /\ SubTree(M, r, C[r])
  BY <1>1, <1>3, SubTreeAt
<1>5. Parts(M, p, S, l, r, C[l], C[r])
  BY <1>1, <1>2, <1>3, <1>4 DEF Parts
<1> QED
  BY <1>5

\* The parts make the whole.
LEMMA PartsMake ==
  ASSUME NEW M, NEW p, NEW S, NEW l, NEW r, NEW L, NEW R, Parts(M, p, S, l, r, L, R)
  PROVE  SubTree(M, p, S)
<1>0. /\ p \in Nat /\ p \in DOMAIN M
      /\ M[p] = [left |-> l, right |-> r, height |-> Taller(Tree!height(M, l), Tree!height(M, r)) + 1]
      /\ S = {p} \union L \union R
      /\ \A y \in L : y > p
      /\ \A y \in R : y < p
  BY DEF Parts
<1>1. PICK C :
         /\ C[Tree!NULL] = {} /\ C[l] = L /\ l \in L \union {Tree!NULL}
         /\ L \subseteq Nat /\ L \subseteq DOMAIN M
         /\ \A x \in L : /\ KeptNode(M, C, L, x) /\ C[x] \subseteq L
                         /\ \A y \in C[x] : C[y] \subseteq C[x]
  BY DEF SubTree, Parts
<1>2. PICK D :
         /\ D[Tree!NULL] = {} /\ D[r] = R /\ r \in R \union {Tree!NULL}
         /\ R \subseteq Nat /\ R \subseteq DOMAIN M
         /\ \A x \in R : /\ KeptNode(M, D, R, x) /\ D[x] \subseteq R
                         /\ \A y \in D[x] : D[y] \subseteq D[x]
  BY DEF SubTree, Parts
<1>3. p \notin L /\ p \notin R /\ Tree!NULL \notin S /\ \A y \in L : y \notin R
  BY <1>0, <1>1, <1>2 DEF Tree!NULL
<1>4. PICK E : E = [x \in S \union {Tree!NULL} |->
                      IF x = Tree!NULL THEN {} ELSE IF x = p THEN S
                      ELSE IF x \in L THEN C[x] ELSE D[x]]
  OBVIOUS
<1>5. /\ E[Tree!NULL] = {} /\ E[p] = S
      /\ \A x \in L : E[x] = C[x]
      /\ \A x \in R : E[x] = D[x]
  BY <1>0, <1>3, <1>4
<1>6. E[l] = L /\ E[r] = R
  BY <1>1, <1>2, <1>5
<1>7. Tree!height(M, l) \in Nat /\ Tree!height(M, r) \in Nat
  BY <1>1, <1>2 DEF Tree!height, KeptNode
<1>8. KeptNode(M, E, S, p)
  <2>1. M[p].height \in Nat
    <3>1. Taller(Tree!height(M, l), Tree!height(M, r)) + 1 \in Nat
      BY <1>7 DEF Taller
    <3> QED
      BY <1>0, <3>1
  <2>2. l \in S \union {Tree!NULL} /\ r \in S \union {Tree!NULL}
    BY <1>0, <1>1, <1>2
  <2>3. E[p] = {p} \union E[l] \union E[r]
    BY <1>0, <1>5, <1>6
  <2>4. (\A y \in E[l] : y > p) /\ (\A y \in E[r] : y < p)
    BY <1>0, <1>6
  <2>5. M[p] = [left |-> l, right |-> r, height |-> Taller(Tree!height(M, l), Tree!height(M, r)) + 1]
    BY <1>0
  <2> QED
    BY <2>1, <2>2, <2>3, <2>4, <2>5 DEF KeptNode
<1>9. ASSUME NEW x \in L
      PROVE  KeptNode(M, E, S, x) /\ E[x] \subseteq S /\ \A y \in E[x] : E[y] \subseteq E[x]
  <2>1. PICK a, b :
            /\ a \in L \union {Tree!NULL} /\ b \in L \union {Tree!NULL}
            /\ M[x] = [left |-> a, right |-> b, height |-> Taller(Tree!height(M, a), Tree!height(M, b)) + 1]
            /\ M[x].height \in Nat
            /\ C[x] = {x} \union C[a] \union C[b]
            /\ \A y \in C[a] : y > x
            /\ \A y \in C[b] : y < x
    BY <1>1 DEF KeptNode
  <2>2. E[a] = C[a] /\ E[b] = C[b] /\ E[x] = C[x]
    BY <1>1, <1>5, <2>1
  <2>3. a \in S \union {Tree!NULL} /\ b \in S \union {Tree!NULL}
    BY <1>0, <2>1
  <2>4. KeptNode(M, E, S, x)
    BY <2>1, <2>2, <2>3 DEF KeptNode
  <2>5. C[x] \subseteq L /\ \A y \in C[x] : C[y] \subseteq C[x]
    BY <1>1
  <2> QED
    BY <1>0, <1>5, <2>2, <2>4, <2>5
<1>10. ASSUME NEW x \in R
      PROVE  KeptNode(M, E, S, x) /\ E[x] \subseteq S /\ \A y \in E[x] : E[y] \subseteq E[x]
  <2>1. PICK a, b :
            /\ a \in R \union {Tree!NULL} /\ b \in R \union {Tree!NULL}
            /\ M[x] = [left |-> a, right |-> b, height |-> Taller(Tree!height(M, a), Tree!height(M, b)) + 1]
            /\ M[x].height \in Nat
            /\ D[x] = {x} \union D[a] \union D[b]
            /\ \A y \in D[a] : y > x
            /\ \A y \in D[b] : y < x
    BY <1>2 DEF KeptNode
  <2>2. E[a] = D[a] /\ E[b] = D[b] /\ E[x] = D[x]
    BY <1>2, <1>5, <2>1
  <2>3. a \in S \union {Tree!NULL} /\ b \in S \union {Tree!NULL}
    BY <1>0, <2>1
  <2>4. KeptNode(M, E, S, x)
    BY <2>1, <2>2, <2>3 DEF KeptNode
  <2>5. D[x] \subseteq R /\ \A y \in D[x] : D[y] \subseteq D[x]
    BY <1>2
  <2> QED
    BY <1>0, <1>5, <2>2, <2>4, <2>5
<1>11. \A y \in E[p] : E[y] \subseteq E[p]
  BY <1>0, <1>5, <1>9, <1>10
<1>12. \A x \in S : KeptNode(M, E, S, x) /\ E[x] \subseteq S /\ \A y \in E[x] : E[y] \subseteq E[x]
  BY <1>0, <1>5, <1>8, <1>9, <1>10, <1>11
<1>13. /\ E[Tree!NULL] = {} /\ E[p] = S /\ p \in S \union {Tree!NULL}
       /\ S \subseteq Nat /\ S \subseteq DOMAIN M
  BY <1>0, <1>1, <1>2, <1>5
<1> QED
  BY <1>12, <1>13 DEF SubTree

\* A height is a number, and larger than those of the children.
LEMMA HeightIsNat ==
  ASSUME NEW M, NEW p, NEW S, SubTree(M, p, S)
  PROVE  Tree!height(M, p) \in Nat
<1>1. CASE p = Tree!NULL
  BY <1>1 DEF Tree!height
<1>2. CASE p # Tree!NULL
  <2>1. PICK C : p \in S /\ \A x \in S : KeptNode(M, C, S, x)
    BY <1>2 DEF SubTree
  <2>2. KeptNode(M, C, S, p)
    BY <2>1
  <2>3. M[p].height \in Nat
    BY <2>2 DEF KeptNode
  <2> QED
    BY <1>2, <2>3 DEF Tree!height
<1> QED
  BY <1>1, <1>2

\* What the parts of a subtree are.
LEMMA PartsOf ==
  ASSUME NEW M, NEW p, NEW S, NEW l, NEW r, NEW L, NEW R, Parts(M, p, S, l, r, L, R)
  PROVE  /\ p \in Nat /\ p \in DOMAIN M /\ p # Tree!NULL /\ M[p].left = l /\ M[p].right = r
         /\ S = {p} \union L \union R /\ S \subseteq Nat /\ S \subseteq DOMAIN M
         /\ p \notin L /\ p \notin R /\ Tree!NULL \notin S /\ \A y \in L : y \notin R
         /\ l \in L \union {Tree!NULL} /\ r \in R \union {Tree!NULL}
         /\ SubTree(M, l, L) /\ SubTree(M, r, R)
         /\ Tree!height(M, l) \in Nat /\ Tree!height(M, r) \in Nat
         /\ M[p].height = Taller(Tree!height(M, l), Tree!height(M, r)) + 1
         /\ Tree!height(M, p) = Taller(Tree!height(M, l), Tree!height(M, r)) + 1
         /\ Tree!height(M, l) < Tree!height(M, p) /\ Tree!height(M, r) < Tree!height(M, p)
<1>1. /\ p \in Nat /\ p \in DOMAIN M
      /\ M[p] = [left |-> l, right |-> r, height |-> Taller(Tree!height(M, l), Tree!height(M, r)) + 1]
      /\ SubTree(M, l, L) /\ SubTree(M, r, R)
      /\ S = {p} \union L \union R
      /\ \A y \in L : y > p
      /\ \A y \in R : y < p
  BY DEF Parts
<1>2. /\ L \subseteq Nat /\ L \subseteq DOMAIN M /\ l \in L \union {Tree!NULL}
      /\ R \subseteq Nat /\ R \subseteq DOMAIN M /\ r \in R \union {Tree!NULL}
  BY <1>1, SubTreeKeys
<1>3. PICK hl \in Nat, hr \in Nat : hl = Tree!height(M, l) /\ hr = Tree!height(M, r)
  BY <1>1, HeightIsNat
<1>4. /\ M[p].left = l /\ M[p].right = r
      /\ M[p].height = Taller(Tree!height(M, l), Tree!height(M, r)) + 1
  BY <1>1
<1>5. Tree!NULL = -1
  BY DEF Tree!NULL
<1>6. p # Tree!NULL /\ Tree!NULL \notin S /\ p \notin L /\ p \notin R /\ \A y \in L : y \notin R
  BY <1>1, <1>2, <1>5
<1>7. Tree!height(M, p) = M[p].height
  BY <1>6 DEF Tree!height
<1>8. hl < Taller(hl, hr) + 1 /\ hr < Taller(hl, hr) + 1
  BY DEF Taller
<1> QED
  BY <1>1, <1>2, <1>3, <1>4, <1>6, <1>7, <1>8

\* What holds of no tree, and of a tree because it does of the subtrees of its root, holds
\* of all: there is no lowest tree of which it does not.
LEMMA ByParts ==
  ASSUME NEW M, NEW G, <<Tree!NULL, {}>> \in G,
         \A p, S, l, r, L, R : Parts(M, p, S, l, r, L, R) /\ <<l, L>> \in G /\ <<r, R>> \in G
                               => <<p, S>> \in G,
         NEW p, NEW S, SubTree(M, p, S)
  PROVE  <<p, S>> \in G
<1> DEFINE Bad == {n \in Nat : \E q, X : SubTree(M, q, X) /\ Tree!height(M, q) = n /\ <<q, X>> \notin G}
<1>1. PICK B : B = Bad
  OBVIOUS
<1>2. ASSUME B # {} PROVE FALSE
  <2>1. PICK m \in B : \A k \in B : m <= k
    BY <1>1, <1>2, LeastOf
  <2>2. PICK q, X : SubTree(M, q, X) /\ Tree!height(M, q) = m /\ <<q, X>> \notin G
    BY <1>1
  <2>3. q # Tree!NULL
    BY <2>2, EmptySubTree
  <2>4. PICK l, r, L, R : Parts(M, q, X, l, r, L, R)
    BY <2>2, <2>3, SubTreeParts
  <2>5. /\ SubTree(M, l, L) /\ Tree!height(M, l) \in Nat /\ Tree!height(M, l) < m
        /\ SubTree(M, r, R) /\ Tree!height(M, r) \in Nat /\ Tree!height(M, r) < m
    BY <2>2, <2>4, PartsOf
  <2>6. ASSUME NEW c, NEW Y, SubTree(M, c, Y), Tree!height(M, c) \in Nat, Tree!height(M, c) < m
        PROVE  <<c, Y>> \in G
    <3>1. Tree!height(M, c) \notin B
      <4>1. m \in Nat
        BY <1>1
      <4> QED
        BY <2>1, <2>6, <4>1
    <3>2. <<c, Y>> \notin G => Tree!height(M, c) \in Bad
      BY <2>6
    <3> QED
      BY <1>1, <3>1, <3>2
  <2>7. <<l, L>> \in G /\ <<r, R>> \in G
    BY <2>5, <2>6
  <2> QED
    BY <2>2, <2>4, <2>7
<1>3. Tree!height(M, p) \in Nat
  BY HeightIsNat
<1> QED
  BY <1>1, <1>2, <1>3

\* A tree is no higher than it has keys.
LEMMA HeightFits ==
  ASSUME NEW M, NEW p, NEW S, SubTree(M, p, S), IsFiniteSet(S)
  PROVE  Tree!height(M, p) <= Cardinality(S)
<1> DEFINE Fits(q, X) == IsFiniteSet(X) => Tree!height(M, q) <= Cardinality(X)
<1>1. PICK G : G = {z \in (Nat \union {Tree!NULL}) \X SUBSET Nat : Fits(z[1], z[2])}
  OBVIOUS
<1>2. ASSUME NEW q, NEW X, SubTree(M, q, X)
      PROVE  <<q, X>> \in G <=> Fits(q, X)
  <2>1. q \in Nat \union {Tree!NULL} /\ X \in SUBSET Nat
    BY <1>2, SubTreeKeys
  <2>2. PICK z : z = <<q, X>>
    OBVIOUS
  <2>3. z \in (Nat \union {Tree!NULL}) \X SUBSET Nat /\ z[1] = q /\ z[2] = X
    BY <2>1, <2>2
  <2> QED
    BY <1>1, <2>2, <2>3
<1>3. <<Tree!NULL, {}>> \in G
  <2>1. Fits(Tree!NULL, {})
    BY FS_EmptySet DEF Tree!height
  <2> QED
    BY <1>2, <2>1, NoSubTree
<1>4. ASSUME NEW q, NEW X, NEW l, NEW r, NEW L, NEW R,
             Parts(M, q, X, l, r, L, R), <<l, L>> \in G, <<r, R>> \in G
      PROVE  <<q, X>> \in G
  <2>1. /\ X = {q} \union L \union R /\ q \notin L /\ q \notin R
        /\ SubTree(M, l, L) /\ SubTree(M, r, R)
        /\ Tree!height(M, l) \in Nat /\ Tree!height(M, r) \in Nat
        /\ Tree!height(M, q) = Taller(Tree!height(M, l), Tree!height(M, r)) + 1
    BY <1>4, PartsOf
  <2>2. Fits(l, L) /\ Fits(r, R)
    BY <1>2, <1>4, <2>1
  <2>3. ASSUME IsFiniteSet(X)
        PROVE  Tree!height(M, q) <= Cardinality(X)
    <3>1. /\ IsFiniteSet(X \ {q}) /\ Cardinality(X \ {q}) = Cardinality(X) - 1
      BY <2>1, <2>3, FS_RemoveElement
    <3>2. L \subseteq X \ {q} /\ R \subseteq X \ {q}
      BY <2>1
    <3>3. /\ IsFiniteSet(L) /\ Cardinality(L) <= Cardinality(X \ {q})
          /\ IsFiniteSet(R) /\ Cardinality(R) <= Cardinality(X \ {q})
      BY <3>1, <3>2, FS_Subset
    <3>4. PICK a \in Nat, b \in Nat, c \in Nat, d \in Nat :
            /\ a = Tree!height(M, l) /\ b = Tree!height(M, r)
            /\ c = Cardinality(L) /\ d = Cardinality(R)
      BY <2>1, <3>3, FS_CardinalityType
    <3>5. PICK e \in Nat : e = Cardinality(X)
      BY <2>3, FS_CardinalityType
    <3>6. a <= c /\ b <= d /\ c <= e - 1 /\ d <= e - 1
      BY <2>2, <3>1, <3>3, <3>4, <3>5
    <3>7. Taller(a, b) + 1 <= e
      BY <3>6 DEF Taller
    <3> QED
      BY <2>1, <3>4, <3>5, <3>7
  <2> HIDE DEF Fits
  <2>4. Fits(q, X)
    BY <2>3 DEF Fits
  <2> QED
    BY <1>2, <1>4, <2>4, PartsMake
<1>5. \A q, X, l, r, L, R : Parts(M, q, X, l, r, L, R) /\ <<l, L>> \in G /\ <<r, R>> \in G
                            => <<q, X>> \in G
  BY <1>4
<1>6. <<p, S>> \in G
  BY <1>3, <1>5, ByParts
<1> QED
  BY <1>2, <1>6

\* Among the keys of KeysAssumption no subtree beside a node is as high as a byte
\* counts, less 2.
LEMMA HeightIsSmall ==
  ASSUME NEW M, NEW q, NEW X, SubTree(M, q, X), NEW p \in Keys, X \subseteq Keys \ {p}
  PROVE  Tree!height(M, q) \in Nat /\ Tree!height(M, q) < 254
<1>1. IsFiniteSet(Keys) /\ Cardinality(Keys) < 255
  BY KeysAssumption
<1>2. IsFiniteSet(Keys \ {p}) /\ Cardinality(Keys \ {p}) = Cardinality(Keys) - 1
  BY <1>1, FS_RemoveElement
<1>3. IsFiniteSet(X) /\ Cardinality(X) <= Cardinality(Keys \ {p})
  BY <1>2, FS_Subset
<1>4. Tree!height(M, q) \in Nat /\ Tree!height(M, q) <= Cardinality(X)
  BY <1>3, HeightIsNat, HeightFits
<1>5. Cardinality(X) \in Nat /\ Cardinality(Keys) \in Nat
  BY <1>1, <1>3, FS_CardinalityType
<1> QED
  BY <1>1, <1>2, <1>3, <1>4, <1>5

\* What becomes of M when its subtree with the keys S1 is made the tree t of the keys S2.
Result(t, M, S1, S2, D) ==
  \E q, N : /\ t = [root |-> q, nodes |-> N] /\ SubTree(N, q, S2) /\ DOMAIN N = D
            /\ \A x \in DOMAIN M : x \notin S1 => N[x] = M[x]

\* A child of the node p that hangs in M, whatever height it says.
Hangs(M, p, l, r, L, R) ==
  /\ p \in Keys /\ p \in DOMAIN M
  /\ \E z : M[p] = [left |-> l, right |-> r, height |-> z]
  /\ SubTree(M, l, L) /\ SubTree(M, r, R)
  /\ L \subseteq Keys \ {p} /\ R \subseteq Keys \ {p}
  /\ \A y \in L : y > p
  /\ \A y \in R : y < p

\* F is U but for the node p.
SameBut(F, U, p) == DOMAIN F = DOMAIN U /\ \A x \in DOMAIN U : x # p => F[x] = U[x]

\* fix_height writes the one height.
LEMMA FixesHeight ==
  ASSUME NEW U, NEW p, NEW l, NEW r, NEW z, p \in DOMAIN U,
         U[p] = [left |-> l, right |-> r, height |-> z],
         NEW h, h = Taller(Tree!height(U, l), Tree!height(U, r)) + 1, h \in Nat, h < 256,
         NEW F, F = Tree!fix_height(U, p)
  PROVE  /\ DOMAIN F = DOMAIN U /\ F[p] = [left |-> l, right |-> r, height |-> h]
         /\ \A x \in DOMAIN U : x # p => F[x] = U[x]
<1>1. U[p].left = l /\ U[p].right = r
  OBVIOUS
<1>2. h % 256 = h
  OBVIOUS
<1>3. F = [U EXCEPT ![p].height = h]
  BY ZenonT(60), <1>1, <1>2 DEF Tree!fix_height, Taller
<1>4. F = [U EXCEPT ![p] = [U[p] EXCEPT !.height = h]]
  BY <1>3
<1>5. [U[p] EXCEPT !.height = h] = [left |-> l, right |-> r, height |-> h]
  OBVIOUS
<1> QED
  BY <1>4, <1>5

\* Nodes that stay have the same heights.
LEMMA SameHeight ==
  ASSUME NEW M, NEW N, NEW S, \A x \in S : N[x] = M[x], NEW q \in S \union {Tree!NULL}
  PROVE  Tree!height(N, q) = Tree!height(M, q)
BY DEF Tree!height

\* The children of a node that hangs are low enough for a byte.
LEMMA HangsLow ==
  ASSUME NEW M, NEW p, NEW l, NEW r, NEW L, NEW R, Hangs(M, p, l, r, L, R)
  PROVE  /\ Tree!height(M, l) \in Nat /\ Tree!height(M, l) < 254
         /\ Tree!height(M, r) \in Nat /\ Tree!height(M, r) < 254
         /\ l \in L \union {Tree!NULL} /\ r \in R \union {Tree!NULL}
         /\ p \in Nat /\ p \notin L /\ p \notin R /\ \A y \in L : y \notin R
         /\ L \subseteq Nat /\ R \subseteq Nat /\ L \subseteq DOMAIN M /\ R \subseteq DOMAIN M
<1>1. /\ p \in Keys /\ SubTree(M, l, L) /\ SubTree(M, r, R)
      /\ L \subseteq Keys \ {p} /\ R \subseteq Keys \ {p}
      /\ \A y \in L : y > p
      /\ \A y \in R : y < p
  BY DEF Hangs
<1>2. /\ L \subseteq Nat /\ L \subseteq DOMAIN M /\ l \in L \union {Tree!NULL}
      /\ R \subseteq Nat /\ R \subseteq DOMAIN M /\ r \in R \union {Tree!NULL}
  BY <1>1, SubTreeKeys
<1>3. p \in Nat
  BY <1>1, KeysAssumption
<1>4. /\ Tree!height(M, l) \in Nat /\ Tree!height(M, l) < 254
      /\ Tree!height(M, r) \in Nat /\ Tree!height(M, r) < 254
  BY <1>1, HeightIsSmall
<1>5. \A y \in L : y \notin R
  BY <1>1, <1>2, <1>3
<1> QED
  BY <1>1, <1>2, <1>3, <1>4, <1>5

\* A node that hangs is the root of a tree again once its height is fixed.
LEMMA FixesNode ==
  ASSUME NEW U, NEW p, NEW l, NEW r, NEW L, NEW R, Hangs(U, p, l, r, L, R),
         NEW F, F = Tree!fix_height(U, p)
  PROVE  /\ SameBut(F, U, p)
         /\ F[p] = [left |-> l, right |-> r,
                    height |-> Taller(Tree!height(U, l), Tree!height(U, r)) + 1]
         /\ Tree!height(F, l) = Tree!height(U, l) /\ Tree!height(F, r) = Tree!height(U, r)
         /\ Parts(F, p, {p} \union L \union R, l, r, L, R)
<1>1. /\ Tree!height(U, l) \in Nat /\ Tree!height(U, l) < 254
      /\ Tree!height(U, r) \in Nat /\ Tree!height(U, r) < 254
      /\ l \in L \union {Tree!NULL} /\ r \in R \union {Tree!NULL}
      /\ p \in Nat /\ p \notin L /\ p \notin R
      /\ L \subseteq DOMAIN U /\ R \subseteq DOMAIN U
  BY HangsLow
<1>2. PICK z : U[p] = [left |-> l, right |-> r, height |-> z]
  BY DEF Hangs
<1>3. p \in DOMAIN U /\ SubTree(U, l, L) /\ SubTree(U, r, R)
      /\ (\A y \in L : y > p) /\ (\A y \in R : y < p)
  BY DEF Hangs
<1>4. PICK h : h = Taller(Tree!height(U, l), Tree!height(U, r)) + 1
  OBVIOUS
<1>5. h \in Nat /\ h < 256
  BY <1>1, <1>4 DEF Taller
<1>6. /\ DOMAIN F = DOMAIN U /\ F[p] = [left |-> l, right |-> r, height |-> h]
      /\ \A x \in DOMAIN U : x # p => F[x] = U[x]
  BY <1>2, <1>3, <1>4, <1>5, FixesHeight
<1>7. /\ \A x \in L : x \in DOMAIN F /\ F[x] = U[x]
      /\ \A x \in R : x \in DOMAIN F /\ F[x] = U[x]
  BY <1>1, <1>6
<1>8. Tree!height(F, l) = Tree!height(U, l) /\ Tree!height(F, r) = Tree!height(U, r)
  BY <1>1, <1>7, SameHeight
<1>9. SubTree(F, l, L) /\ SubTree(F, r, R)
  BY <1>3, <1>7, SubTreeStays
<1>10. Parts(F, p, {p} \union L \union R, l, r, L, R)
  BY <1>1, <1>3, <1>4, <1>6, <1>8, <1>9 DEF Parts
<1> QED
  BY <1>4, <1>6, <1>8, <1>10 DEF SameBut

\* The links that a left rotation turns.
LEMMA TurnsLinks ==
  ASSUME NEW F, NEW p, NEW r, p \in DOMAIN F, r \in DOMAIN F, p # r,
         NEW l, NEW h, F[p] = [left |-> l, right |-> r, height |-> h],
         NEW a, NEW b, NEW k, F[r] = [left |-> a, right |-> b, height |-> k],
         NEW T, T = [F EXCEPT ![p].right = F[r].left, ![r].left = p]
  PROVE  /\ DOMAIN T = DOMAIN F
         /\ T[p] = [left |-> l, right |-> a, height |-> h]
         /\ T[r] = [left |-> p, right |-> b, height |-> k]
         /\ \A x \in DOMAIN F : x # p /\ x # r => T[x] = F[x]
<1>1. F[r].left = a
  OBVIOUS
<1>2. PICK G : G = [F EXCEPT ![p] = [F[p] EXCEPT !.right = a]]
  OBVIOUS
<1>3. T = [G EXCEPT ![r] = [G[r] EXCEPT !.left = p]]
  BY <1>1, <1>2
<1>4. [F[p] EXCEPT !.right = a] = [left |-> l, right |-> a, height |-> h]
  OBVIOUS
<1>5. G[r] = [left |-> a, right |-> b, height |-> k]
  BY <1>2
<1>6. [G[r] EXCEPT !.left = p] = [left |-> p, right |-> b, height |-> k]
  BY <1>5
<1>7. DOMAIN G = DOMAIN F /\ G[p] = [left |-> l, right |-> a, height |-> h]
      /\ \A x \in DOMAIN F : x # p => G[x] = F[x]
  BY <1>2, <1>4
<1> QED
  BY <1>3, <1>6, <1>7

\* A left rotation makes a tree of the same keys.
LEMMA RotatesLeft ==
  ASSUME NEW F, NEW p, NEW S, NEW l, NEW r, NEW L, NEW R,
         Parts(F, p, S, l, r, L, R), S \subseteq Keys, r # Tree!NULL,
         NEW t, t = Tree!leftRotation(F, p)
  PROVE  Result(t, F, S, S, DOMAIN F)
<1>1. /\ p \in DOMAIN F /\ F[p].right = r /\ S = {p} \union L \union R /\ S \subseteq Nat
      /\ p \notin L /\ p \notin R /\ \A y \in L : y \notin R
      /\ r \in R \union {Tree!NULL} /\ SubTree(F, l, L) /\ SubTree(F, r, R)
  BY PartsOf
<1>2. /\ (\A y \in L : y > p) /\ (\A y \in R : y < p)
      /\ F[p] = [left |-> l, right |-> r, height |-> Taller(Tree!height(F, l), Tree!height(F, r)) + 1]
  BY DEF Parts
<1>3. PICK a, b, A, B : Parts(F, r, R, a, b, A, B)
  BY <1>1, SubTreeParts
<1>4. /\ r \in DOMAIN F /\ R = {r} \union A \union B
      /\ r \notin A /\ r \notin B /\ \A y \in A : y \notin B
      /\ SubTree(F, a, A) /\ SubTree(F, b, B)
  BY <1>3, PartsOf
<1>5. /\ (\A y \in A : y > r) /\ (\A y \in B : y < r)
      /\ F[r] = [left |-> a, right |-> b, height |-> Taller(Tree!height(F, a), Tree!height(F, b)) + 1]
  BY <1>3 DEF Parts
<1>6. L \subseteq DOMAIN F /\ A \subseteq DOMAIN F /\ B \subseteq DOMAIN F
  BY <1>1, <1>4, SubTreeKeys
<1>7. PICK h, k : /\ F[p] = [left |-> l, right |-> r, height |-> h]
                  /\ F[r] = [left |-> a, right |-> b, height |-> k]
  BY <1>2, <1>5
<1>8. PICK T : T = [F EXCEPT ![p].right = F[r].left, ![r].left = p]
  OBVIOUS
<1>9. p # r
  BY <1>1, <1>4
<1>10. /\ DOMAIN T = DOMAIN F
       /\ T[p] = [left |-> l, right |-> a, height |-> h]
       /\ T[r] = [left |-> p, right |-> b, height |-> k]
       /\ \A x \in DOMAIN F : x # p /\ x # r => T[x] = F[x]
  BY <1>1, <1>4, <1>7, <1>8, <1>9, TurnsLinks
<1>11. /\ \A x \in L : x \in DOMAIN T /\ T[x] = F[x]
       /\ \A x \in A : x \in DOMAIN T /\ T[x] = F[x]
       /\ \A x \in B : x \in DOMAIN T /\ T[x] = F[x]
  BY <1>1, <1>4, <1>6, <1>10
<1>12. SubTree(T, l, L) /\ SubTree(T, a, A) /\ SubTree(T, b, B)
  BY <1>1, <1>4, <1>11, SubTreeStays
<1>13. /\ p \in Keys /\ r \in Keys /\ L \subseteq Keys /\ A \subseteq Keys /\ B \subseteq Keys
       /\ p \in Nat /\ r \in Nat
  BY <1>1, <1>4
<1>14. Hangs(T, p, l, a, L, A)
  <2>1. \A y \in A : y < p
    BY <1>2, <1>4
  <2>2. L \subseteq Keys \ {p} /\ A \subseteq Keys \ {p}
    BY <1>1, <1>4, <1>13
  <2> QED
    BY <1>1, <1>2, <1>10, <1>12, <1>13, <2>1, <2>2 DEF Hangs
<1>15. PICK U : U = Tree!fix_height(T, p)
  OBVIOUS
<1>16. PICK X : X = {p} \union L \union A
  OBVIOUS
<1>17. /\ DOMAIN U = DOMAIN T /\ (\A x \in DOMAIN T : x # p => U[x] = T[x])
       /\ Parts(U, p, X, l, a, L, A)
  <2>1. SameBut(U, T, p) /\ Parts(U, p, {p} \union L \union A, l, a, L, A)
    BY <1>14, <1>15, FixesNode
  <2> QED
    BY <1>16, <2>1 DEF SameBut
<1>18. SubTree(U, p, X)
  BY <1>17, PartsMake
<1>19. \A x \in B : x \in DOMAIN U /\ U[x] = T[x]
  BY <1>1, <1>4, <1>11, <1>17
<1>20. SubTree(U, b, B)
  BY <1>12, <1>19, SubTreeStays
<1>21. Hangs(U, r, p, b, X, B)
  <2>1. \A y \in X : y > r
    <3>1. p > r
      BY <1>1, <1>2, <1>4
    <3>2. \A y \in L : y > r
      BY <1>1, <1>2, <1>13, <3>1
    <3> QED
      BY <1>5, <1>16, <3>1, <3>2
  <2>2. X \subseteq Keys \ {r} /\ B \subseteq Keys \ {r}
    BY <1>1, <1>4, <1>13, <1>16
  <2>3. U[r] = [left |-> p, right |-> b, height |-> k] /\ r \in DOMAIN U
    BY <1>4, <1>9, <1>10, <1>17
  <2> QED
    BY <1>5, <1>13, <1>18, <1>20, <2>1, <2>2, <2>3 DEF Hangs
<1>22. PICK N : N = Tree!fix_height(U, r)
  OBVIOUS
<1>23. /\ DOMAIN N = DOMAIN U /\ (\A x \in DOMAIN U : x # r => N[x] = U[x])
       /\ Parts(N, r, {r} \union X \union B, p, b, X, B)
  <2>1. SameBut(N, U, r) /\ Parts(N, r, {r} \union X \union B, p, b, X, B)
    BY <1>21, <1>22, FixesNode
  <2> QED
    BY <2>1 DEF SameBut
<1>24. {r} \union X \union B = S
  BY <1>1, <1>4, <1>16
<1>25. SubTree(N, r, S)
  BY <1>23, <1>24, PartsMake
<1>26. t = [root |-> r, nodes |-> N]
  BY <1>1, <1>8, <1>15, <1>22 DEF Tree!leftRotation
<1>27. \A x \in DOMAIN F : x \notin S => N[x] = F[x]
  BY <1>1, <1>4, <1>10, <1>17, <1>23
<1> QED
  BY <1>10, <1>17, <1>23, <1>25, <1>26, <1>27 DEF Result

\* make_balance makes a tree of a node that hangs.
LEMMA Balances ==
  ASSUME NEW U, NEW p, NEW l, NEW r, NEW L, NEW R, Hangs(U, p, l, r, L, R),
         NEW S, S = {p} \union L \union R, NEW t, t = Tree!make_balance(U, p)
  PROVE  Result(t, U, S, S, DOMAIN U)
<1>1. PICK F : F = Tree!fix_height(U, p)
  OBVIOUS
<1>2. /\ SameBut(F, U, p)
      /\ F[p] = [left |-> l, right |-> r,
                 height |-> Taller(Tree!height(U, l), Tree!height(U, r)) + 1]
      /\ Tree!height(F, l) = Tree!height(U, l) /\ Tree!height(F, r) = Tree!height(U, r)
      /\ Parts(F, p, S, l, r, L, R)
  BY <1>1, FixesNode
<1>3. PICK a \in Nat, b \in Nat :
        /\ a = Tree!height(F, l) /\ a < 254
        /\ b = Tree!height(F, r) /\ b < 254
  BY <1>2, HangsLow
<1>4. F[p].left = l /\ F[p].right = r
  BY <1>2
<1>5. Tree!balance_check(F, p) = (b - a) % 256
  BY <1>3, <1>4 DEF Tree!balance_check
<1>6. CASE Tree!balance_check(F, p) # 2
  <2>1. t = [root |-> p, nodes |-> F]
    BY <1>1, <1>6 DEF Tree!make_balance
  <2>2. SubTree(F, p, S)
    BY <1>2, PartsMake
  <2>3. \A x \in DOMAIN U : x \notin S => F[x] = U[x]
    BY <1>2 DEF SameBut
  <2> QED
    BY <1>2, <2>1, <2>2, <2>3 DEF Result, SameBut
<1>7. CASE Tree!balance_check(F, p) = 2
  <2>1. b = a + 2
    <3>1. (b - a) % 256 = 2 /\ b - a < 254 /\ b - a > -254
      BY <1>3, <1>5, <1>7
    <3> QED
      BY <1>3, <3>1
  <2>2. r # Tree!NULL
    BY <1>3, <2>1 DEF Tree!height
  <2>3. t = Tree!leftRotation(F, p)
    BY <1>1, <1>4, <1>7, <2>2 DEF Tree!make_balance
  <2>4. S \subseteq Keys
    BY DEF Hangs
  <2>5. Result(t, F, S, S, DOMAIN F)
    BY <1>2, <2>2, <2>3, <2>4, RotatesLeft
  <2>6. PICK q, N : /\ t = [root |-> q, nodes |-> N] /\ SubTree(N, q, S) /\ DOMAIN N = DOMAIN F
                    /\ \A x \in DOMAIN F : x \notin S => N[x] = F[x]
    BY <2>5 DEF Result
  <2>7. \A x \in DOMAIN U : x \notin S => N[x] = U[x]
    BY <1>2, <2>6 DEF SameBut
  <2> QED
    BY <1>2, <2>6, <2>7 DEF Result, SameBut
<1> QED
  BY <1>6, <1>7

\* What insert_node, delete_node and remove_min do at a node whose left subtree has become another.
LEMMA HangsOnLeft ==
  ASSUME NEW M, NEW p, NEW S, NEW l, NEW r, NEW L, NEW R, Parts(M, p, S, l, r, L, R), S \subseteq Keys,
         NEW c, NEW L2, NEW D, NEW W, Result(c, M, W, L2, D), L2 \subseteq Keys \ {p},
         \A y \in L2 : y > p,
         p \in D, p \notin W, \A x \in R : x \in D /\ x \notin W,
         NEW S1, S1 = {p} \union W \union R,
         \A x \in DOMAIN M : x \notin S1 => x \in D /\ x \notin L2,
         NEW S2, S2 = {p} \union L2 \union R, NEW t, t = Tree!Hang(c, p, "left")
  PROVE  Result(t, M, S1, S2, D)
<1>1. /\ p \in DOMAIN M /\ S = {p} \union L \union R /\ S \subseteq DOMAIN M
      /\ p \notin L /\ p \notin R /\ (\A y \in L : y \notin R) /\ SubTree(M, r, R)
  BY PartsOf
<1>2. /\ (\A y \in L : y > p) /\ (\A y \in R : y < p)
  BY DEF Parts
<1>3. PICK z : M[p] = [left |-> l, right |-> r, height |-> z]
  BY DEF Parts
<1>4. PICK q, N : /\ c = [root |-> q, nodes |-> N] /\ SubTree(N, q, L2) /\ DOMAIN N = D
                  /\ \A x \in DOMAIN M : x \notin W => N[x] = M[x]
  BY DEF Result
<1>5. L2 \subseteq Nat /\ L2 \subseteq D /\ q \in L2 \union {Tree!NULL}
  BY <1>4, SubTreeKeys
<1>6. c # Tree!Crashed
  <2>1. q # -2
    BY <1>5 DEF Tree!NULL
  <2>2. c.root = q
    BY <1>4
  <2> QED
    BY <2>1, <2>2 DEF Tree!Crashed
<1>7. N[p] = M[p] /\ \A x \in R : x \in DOMAIN N /\ N[x] = M[x]
  BY <1>1, <1>4
<1>8. PICK U : U = [N EXCEPT ![p]["left"] = q]
  OBVIOUS
<1>9. /\ DOMAIN U = D /\ U[p] = [left |-> q, right |-> r, height |-> z]
      /\ \A x \in D : x # p => U[x] = N[x]
  <2>1. U = [N EXCEPT ![p] = [N[p] EXCEPT !["left"] = q]]
    BY <1>8
  <2>2. [N[p] EXCEPT !["left"] = q] = [left |-> q, right |-> r, height |-> z]
    BY <1>3, <1>7
  <2> QED
    BY <1>4, <2>1, <2>2
<1>10. /\ \A x \in L2 : x \in DOMAIN U /\ U[x] = N[x]
       /\ \A x \in R : x \in DOMAIN U /\ U[x] = M[x]
  BY <1>1, <1>5, <1>7, <1>9
<1>11. SubTree(U, q, L2) /\ SubTree(U, r, R)
  BY <1>1, <1>4, <1>10, SubTreeStays
<1>12. Hangs(U, p, q, r, L2, R)
  <2>1. R \subseteq Keys \ {p} /\ p \in Keys
    BY <1>1
  <2> QED
    BY <1>2, <1>9, <1>11, <2>1 DEF Hangs
<1>13. t = Tree!make_balance(U, p)
  BY <1>4, <1>6, <1>8 DEF Tree!Hang
<1>14. Result(t, U, S2, S2, D)
  BY <1>9, <1>12, <1>13, Balances
<1>15. PICK w, N2 : /\ t = [root |-> w, nodes |-> N2] /\ SubTree(N2, w, S2) /\ DOMAIN N2 = D
                    /\ \A x \in DOMAIN U : x \notin S2 => N2[x] = U[x]
  BY <1>9, <1>14 DEF Result
<1>16. ASSUME NEW x \in DOMAIN M, x \notin S1
       PROVE  N2[x] = M[x]
  <2>1. x \in D /\ x \notin S2 /\ x # p /\ x \notin W
    BY <1>1, <1>16
  <2> QED
    BY <1>4, <1>9, <1>15, <2>1
<1> QED
  BY <1>15, <1>16 DEF Result

\* What insert_node and delete_node do at a node whose right subtree has become another.
LEMMA HangsOnRight ==
  ASSUME NEW M, NEW p, NEW S, NEW l, NEW r, NEW L, NEW R, Parts(M, p, S, l, r, L, R), S \subseteq Keys,
         NEW c, NEW R2, NEW D, NEW W, Result(c, M, W, R2, D), R2 \subseteq Keys \ {p},
         \A y \in R2 : y < p,
         p \in D, p \notin W, \A x \in L : x \in D /\ x \notin W,
         NEW S1, S1 = {p} \union W \union L,
         \A x \in DOMAIN M : x \notin S1 => x \in D /\ x \notin R2,
         NEW S2, S2 = {p} \union L \union R2, NEW t, t = Tree!Hang(c, p, "right")
  PROVE  Result(t, M, S1, S2, D)
<1>1. /\ p \in DOMAIN M /\ S = {p} \union L \union R /\ S \subseteq DOMAIN M
      /\ p \notin L /\ p \notin R /\ (\A y \in L : y \notin R) /\ SubTree(M, l, L)
  BY PartsOf
<1>2. /\ (\A y \in L : y > p) /\ (\A y \in R : y < p)
  BY DEF Parts
<1>3. PICK z : M[p] = [left |-> l, right |-> r, height |-> z]
  BY DEF Parts
<1>4. PICK q, N : /\ c = [root |-> q, nodes |-> N] /\ SubTree(N, q, R2) /\ DOMAIN N = D
                  /\ \A x \in DOMAIN M : x \notin W => N[x] = M[x]
  BY DEF Result
<1>5. R2 \subseteq Nat /\ R2 \subseteq D /\ q \in R2 \union {Tree!NULL}
  BY <1>4, SubTreeKeys
<1>6. c # Tree!Crashed
  <2>1. q # -2
    BY <1>5 DEF Tree!NULL
  <2>2. c.root = q
    BY <1>4
  <2> QED
    BY <2>1, <2>2 DEF Tree!Crashed
<1>7. N[p] = M[p] /\ \A x \in L : x \in DOMAIN N /\ N[x] = M[x]
  BY <1>1, <1>4
<1>8. PICK U : U = [N EXCEPT ![p]["right"] = q]
  OBVIOUS
<1>9. /\ DOMAIN U = D /\ U[p] = [left |-> l, right |-> q, height |-> z]
      /\ \A x \in D : x # p => U[x] = N[x]
  <2>1. U = [N EXCEPT ![p] = [N[p] EXCEPT !["right"] = q]]
    BY <1>8
  <2>2. [N[p] EXCEPT !["right"] = q] = [left |-> l, right |-> q, height |-> z]
    BY <1>3, <1>7
  <2> QED
    BY <1>4, <2>1, <2>2
<1>10. /\ \A x \in R2 : x \in DOMAIN U /\ U[x] = N[x]
       /\ \A x \in L : x \in DOMAIN U /\ U[x] = M[x]
  BY <1>1, <1>5, <1>7, <1>9
<1>11. SubTree(U, q, R2) /\ SubTree(U, l, L)
  BY <1>1, <1>4, <1>10, SubTreeStays
<1>12. Hangs(U, p, l, q, L, R2)
  <2>1. L \subseteq Keys \ {p} /\ p \in Keys
    BY <1>1
  <2> QED
    BY <1>2, <1>9, <1>11, <2>1 DEF Hangs
<1>13. t = Tree!make_balance(U, p)
  BY <1>4, <1>6, <1>8 DEF Tree!Hang
<1>14. Result(t, U, S2, S2, D)
  BY <1>9, <1>12, <1>13, Balances
<1>15. PICK w, N2 : /\ t = [root |-> w, nodes |-> N2] /\ SubTree(N2, w, S2) /\ DOMAIN N2 = D
                    /\ \A x \in DOMAIN U : x \notin S2 => N2[x] = U[x]
  BY <1>9, <1>14 DEF Result
<1>16. ASSUME NEW x \in DOMAIN M, x \notin S1
       PROVE  N2[x] = M[x]
  <2>1. x \in D /\ x \notin S2 /\ x # p /\ x \notin W
    BY <1>1, <1>16
  <2> QED
    BY <1>4, <1>9, <1>15, <2>1
<1> QED
  BY <1>15, <1>16 DEF Result

\* What insert_node, delete_node, Leftmost, remove_min and Below make of the subtree q of
\* M, when a and b are what they make of those of its children.
MadeOf(M, key, q, a, b) ==
  IF q = Tree!NULL
  THEN [ins   |-> [root  |-> key,
                   nodes |-> [x \in DOMAIN M \union {key} |-> IF x = key THEN Tree!Node ELSE M[x]]],
        del   |-> [root |-> Tree!NULL, nodes |-> M],
        low   |-> Tree!NULL,
        rest  |-> Tree!NULL,
        below |-> {}]
  ELSE [ins   |-> IF key > q THEN Tree!Hang(a.ins, q, "left") ELSE Tree!Hang(b.ins, q, "right"),
        del   |-> IF q < key THEN Tree!Hang(a.del, q, "left")
                  ELSE IF q > key THEN Tree!Hang(b.del, q, "right")
                  ELSE Tree!Replacement(M, q),
        low   |-> IF M[q].left = Tree!NULL THEN q ELSE a.low,
        rest  |-> IF M[q].left = Tree!NULL THEN [root |-> M[q].right, nodes |-> M]
                  ELSE Tree!Hang(a.rest, q, "left"),
        below |-> {q} \union a.below \union b.below]

\* A function that has these values for the nodes S and for none.
MadeOfAll(M, key, S, g) ==
  /\ g[Tree!NULL] = MadeOf(M, key, Tree!NULL, 0, 0)
  /\ \A q \in S : g[q] = MadeOf(M, key, q, g[M[q].left], g[M[q].right])

\* There is such a function, put together from those of the parts.
LEMMA MadeByParts ==
  ASSUME NEW M, NEW p, NEW S, SubTree(M, p, S), NEW key
  PROVE  \E g : MadeOfAll(M, key, S, g)
<1> DEFINE Good(X) == \E g : MadeOfAll(M, key, X, g)
<1>1. PICK G : G = {z \in (Nat \union {Tree!NULL}) \X SUBSET Nat : Good(z[2])}
  OBVIOUS
<1>2. ASSUME NEW q, NEW X, SubTree(M, q, X)
      PROVE  <<q, X>> \in G <=> Good(X)
  <2>1. q \in Nat \union {Tree!NULL} /\ X \in SUBSET Nat
    BY <1>2, SubTreeKeys
  <2>2. PICK z : z = <<q, X>>
    OBVIOUS
  <2>3. z \in (Nat \union {Tree!NULL}) \X SUBSET Nat /\ z[2] = X
    BY <2>1, <2>2
  <2> HIDE DEF Good
  <2> QED
    BY <1>1, <2>2, <2>3
<1>3. <<Tree!NULL, {}>> \in G
  <2>1. PICK v : v = MadeOf(M, key, Tree!NULL, 0, 0)
    OBVIOUS
  <2>2. PICK g : g = [q \in {Tree!NULL} |-> v]
    OBVIOUS
  <2>3. g[Tree!NULL] = v
    BY <2>2
  <2>4. MadeOfAll(M, key, {}, g)
    BY <2>1, <2>3 DEF MadeOfAll
  <2> QED
    BY <1>2, <2>4, NoSubTree
<1>4. ASSUME NEW q, NEW X, NEW l, NEW r, NEW L, NEW R,
             Parts(M, q, X, l, r, L, R), <<l, L>> \in G, <<r, R>> \in G
      PROVE  <<q, X>> \in G
  <2>1. /\ X = {q} \union L \union R /\ q \notin L /\ q \notin R /\ \A y \in L : y \notin R
        /\ Tree!NULL \notin X /\ l \in L \union {Tree!NULL} /\ r \in R \union {Tree!NULL}
        /\ SubTree(M, l, L) /\ SubTree(M, r, R) /\ M[q].left = l /\ M[q].right = r
    BY <1>4, PartsOf
  <2>2. PICK gl, gr : MadeOfAll(M, key, L, gl) /\ MadeOfAll(M, key, R, gr)
    BY <1>2, <1>4, <2>1
  <2>3. gl[Tree!NULL] = gr[Tree!NULL]
    BY <2>2 DEF MadeOfAll
  <2>4. PICK v : v = MadeOf(M, key, q, gl[l], gr[r])
    OBVIOUS
  <2>5. PICK h : h = [x \in X \union {Tree!NULL} |->
                        IF x = q THEN v ELSE IF x \in R THEN gr[x] ELSE gl[x]]
    OBVIOUS
  <2>6. /\ h[q] = v
        /\ \A x \in L \union {Tree!NULL} : h[x] = gl[x]
        /\ \A x \in R \union {Tree!NULL} : h[x] = gr[x]
    BY <2>1, <2>3, <2>5
  <2>7. h[q] = MadeOf(M, key, q, h[M[q].left], h[M[q].right])
    BY <2>1, <2>4, <2>6
  <2>8. ASSUME NEW x \in L
        PROVE  h[x] = MadeOf(M, key, x, h[M[x].left], h[M[x].right])
    <3>1. M[x].left \in L \union {Tree!NULL} /\ M[x].right \in L \union {Tree!NULL}
      BY <2>1, SubTreeFrom
    <3>2. gl[x] = MadeOf(M, key, x, gl[M[x].left], gl[M[x].right])
      BY <2>2 DEF MadeOfAll
    <3> QED
      BY <2>6, <3>1, <3>2
  <2>9. ASSUME NEW x \in R
        PROVE  h[x] = MadeOf(M, key, x, h[M[x].left], h[M[x].right])
    <3>1. M[x].left \in R \union {Tree!NULL} /\ M[x].right \in R \union {Tree!NULL}
      BY <2>1, SubTreeFrom
    <3>2. gr[x] = MadeOf(M, key, x, gr[M[x].left], gr[M[x].right])
      BY <2>2 DEF MadeOfAll
    <3> QED
      BY <2>6, <3>1, <3>2
  <2>10. h[Tree!NULL] = MadeOf(M, key, Tree!NULL, 0, 0)
    BY <2>2, <2>6 DEF MadeOfAll
  <2>11. MadeOfAll(M, key, X, h)
    BY <2>1, <2>7, <2>8, <2>9, <2>10 DEF MadeOfAll
  <2> QED
    BY <1>2, <1>4, <2>11, PartsMake
<1>5. \A q, X, l, r, L, R : Parts(M, q, X, l, r, L, R) /\ <<l, L>> \in G /\ <<r, R>> \in G
                            => <<q, X>> \in G
  BY <1>4
<1>6. <<p, S>> \in G
  BY <1>3, <1>5, ByParts
<1> QED
  BY <1>2, <1>6

\* insert_node is one of its parts.
InsertMadeBy(g, t, key) ==
  /\ g[Tree!NULL] = [root  |-> key,
                     nodes |-> [x \in DOMAIN t.nodes \union {key} |->
                                  IF x = key THEN Tree!Node ELSE t.nodes[x]]]
  /\ \A p \in DOMAIN t.nodes :
       g[p] = IF key > p THEN Tree!Hang(g[t.nodes[p].left], p, "left")
              ELSE Tree!Hang(g[t.nodes[p].right], p, "right")

\* insert_node takes what such a function makes of the root.
LEMMA InsertMade ==
  ASSUME NEW t, SubTree(t.nodes, t.root, DOMAIN t.nodes), NEW key
  PROVE  \E g : Tree!insert_node(t, key) = g[t.root] /\ InsertMadeBy(g, t, key)
<1> DEFINE Body(p, g) == IF p = Tree!NULL
                         THEN [root  |-> key,
                               nodes |-> [x \in DOMAIN t.nodes \union {key} |->
                                            IF x = key THEN Tree!Node ELSE t.nodes[x]]]
                         ELSE IF key > p THEN Tree!Hang(g[t.nodes[p].left], p, "left")
                         ELSE Tree!Hang(g[t.nodes[p].right], p, "right")
           Solves(g) == g = [p \in DOMAIN t.nodes \union {Tree!NULL} |-> Body(p, g)]
<1>1. PICK M : M = t.nodes
  OBVIOUS
<1>2. PICK f : MadeOfAll(M, key, DOMAIN M, f)
  BY <1>1, MadeByParts
<1>3. PICK h : h = [p \in DOMAIN M \union {Tree!NULL} |-> f[p].ins]
  OBVIOUS
<1>4. ASSUME NEW p \in DOMAIN M \union {Tree!NULL}
      PROVE  h[p] = Body(p, h)
  <2>1. CASE p = Tree!NULL
    BY <1>1, <1>2, <1>3, <2>1 DEF MadeOfAll, MadeOf
  <2>2. CASE p # Tree!NULL
    <3>1. M[p].left \in DOMAIN M \union {Tree!NULL} /\ M[p].right \in DOMAIN M \union {Tree!NULL}
      BY <1>1, <2>2, SubTreeFrom
    <3>2. PICK a, b : a = f[M[p].left] /\ b = f[M[p].right]
      OBVIOUS
    <3>3. f[p] = MadeOf(M, key, p, a, b)
      BY <1>2, <2>2, <3>2 DEF MadeOfAll
    <3>4. f[p].ins = IF key > p THEN Tree!Hang(a.ins, p, "left") ELSE Tree!Hang(b.ins, p, "right")
      BY <2>2, <3>3 DEF MadeOf
    <3>5. h[M[p].left] = a.ins /\ h[M[p].right] = b.ins
      BY <1>3, <3>1, <3>2
    <3> QED
      BY <1>1, <1>3, <2>2, <3>4, <3>5
  <2> QED
    BY <2>1, <2>2
<1>5. \E g : Solves(g)
  <2> HIDE DEF Body
  <2>1. h = [p \in DOMAIN M \union {Tree!NULL} |-> Body(p, h)]
    BY <1>3, <1>4
  <2> QED
    BY <1>1, <2>1
<1> DEFINE g == CHOOSE g : Solves(g)
<1>6. Solves(g)
  <2> HIDE DEF Solves
  <2> QED
    BY <1>5, Zenon
<1>7. Tree!insert_node(t, key) = g[t.root]
  BY Zenon DEF Tree!insert_node
<1>8. PICK e : Solves(e) /\ Tree!insert_node(t, key) = e[t.root]
  <2> HIDE DEF g, Solves
  <2> QED
    BY <1>6, <1>7, Zenon
<1>9. e[Tree!NULL] = Body(Tree!NULL, e) /\ \A p \in DOMAIN t.nodes : e[p] = Body(p, e)
  <2> HIDE DEF Body
  <2> QED
    BY <1>8
<1>10. Tree!NULL \notin DOMAIN t.nodes
  BY SubTreeKeys DEF Tree!NULL
<1>11. InsertMadeBy(e, t, key)
  BY <1>9, <1>10, Zenon DEF InsertMadeBy
<1> QED
  BY <1>8, <1>11, Zenon

\* delete_node is one of its parts.
DeleteMadeBy(g, t, k) ==
  /\ g[Tree!NULL] = [root |-> Tree!NULL, nodes |-> t.nodes]
  /\ \A p \in DOMAIN t.nodes : g[p] = IF p < k THEN Tree!Hang(g[t.nodes[p].left], p, "left")
                            ELSE IF p > k THEN Tree!Hang(g[t.nodes[p].right], p, "right")
                            ELSE Tree!Replacement(t.nodes, p)

\* delete_node takes what such a function makes of the root.
LEMMA DeleteMade ==
  ASSUME NEW t, SubTree(t.nodes, t.root, DOMAIN t.nodes), NEW k
  PROVE  \E g : Tree!delete_node(t, k) = g[t.root] /\ DeleteMadeBy(g, t, k)
<1> DEFINE Body(p, g) == IF p = Tree!NULL THEN [root |-> Tree!NULL, nodes |-> t.nodes]
                         ELSE IF p < k THEN Tree!Hang(g[t.nodes[p].left], p, "left")
                         ELSE IF p > k THEN Tree!Hang(g[t.nodes[p].right], p, "right")
                         ELSE Tree!Replacement(t.nodes, p)
           Solves(g) == g = [p \in DOMAIN t.nodes \union {Tree!NULL} |-> Body(p, g)]
<1>1. PICK M : M = t.nodes
  OBVIOUS
<1>2. PICK key, f : key = k /\ MadeOfAll(M, key, DOMAIN M, f)
  BY <1>1, MadeByParts
<1>3. PICK h : h = [p \in DOMAIN M \union {Tree!NULL} |-> f[p].del]
  OBVIOUS
<1>4. ASSUME NEW p \in DOMAIN M \union {Tree!NULL}
      PROVE  h[p] = Body(p, h)
  <2>1. CASE p = Tree!NULL
    BY <1>1, <1>2, <1>3, <2>1 DEF MadeOfAll, MadeOf
  <2>2. CASE p # Tree!NULL
    <3>1. M[p].left \in DOMAIN M \union {Tree!NULL} /\ M[p].right \in DOMAIN M \union {Tree!NULL}
      BY <1>1, <2>2, SubTreeFrom
    <3>2. PICK a, b : a = f[M[p].left] /\ b = f[M[p].right]
      OBVIOUS
    <3>3. f[p] = MadeOf(M, key, p, a, b)
      BY <1>2, <2>2, <3>2 DEF MadeOfAll
    <3>4. f[p].del = IF p < k THEN Tree!Hang(a.del, p, "left")
                            ELSE IF p > k THEN Tree!Hang(b.del, p, "right")
                            ELSE Tree!Replacement(M, p)
      BY <1>2, <2>2, <3>3 DEF MadeOf
    <3>5. h[M[p].left] = a.del /\ h[M[p].right] = b.del
      BY <1>3, <3>1, <3>2
    <3> QED
      BY <1>1, <1>3, <2>2, <3>4, <3>5
  <2> QED
    BY <2>1, <2>2
<1>5. \E g : Solves(g)
  <2> HIDE DEF Body
  <2>1. h = [p \in DOMAIN M \union {Tree!NULL} |-> Body(p, h)]
    BY <1>3, <1>4
  <2> QED
    BY <1>1, <2>1
<1> DEFINE g == CHOOSE g : Solves(g)
<1>6. Solves(g)
  <2> HIDE DEF Solves
  <2> QED
    BY <1>5, Zenon
<1>7. Tree!delete_node(t, k) = g[t.root]
  BY Zenon DEF Tree!delete_node
<1>8. PICK e : Solves(e) /\ Tree!delete_node(t, k) = e[t.root]
  <2> HIDE DEF g, Solves
  <2> QED
    BY <1>6, <1>7, Zenon
<1>9. e[Tree!NULL] = Body(Tree!NULL, e) /\ \A p \in DOMAIN t.nodes : e[p] = Body(p, e)
  <2> HIDE DEF Body
  <2> QED
    BY <1>8
<1>10. Tree!NULL \notin DOMAIN t.nodes
  BY SubTreeKeys DEF Tree!NULL
<1>11. DeleteMadeBy(e, t, k)
  BY <1>9, <1>10, Zenon DEF DeleteMadeBy
<1> QED
  BY <1>8, <1>11, Zenon

\* Leftmost is one of its parts.
LeftmostMadeBy(g, N) ==
  /\ \A p \in DOMAIN N : g[p] = IF N[p].left = Tree!NULL THEN p ELSE g[N[p].left]

\* Leftmost takes what such a function makes of its node.
LEMMA LeftmostMade ==
  ASSUME NEW N, NEW top, SubTree(N, top, DOMAIN N), NEW q
  PROVE  \E g : Tree!Leftmost(N, q) = g[q] /\ LeftmostMadeBy(g, N)
<1> DEFINE Body(p, g) == IF N[p].left = Tree!NULL THEN p ELSE g[N[p].left]
           Solves(g) == g = [p \in DOMAIN N |-> Body(p, g)]
<1>1. PICK M : M = N
  OBVIOUS
<1>2. PICK key, f : MadeOfAll(M, key, DOMAIN M, f)
  BY <1>1, MadeByParts
<1>3. PICK h : h = [p \in DOMAIN M |-> f[p].low]
  OBVIOUS
<1>4. ASSUME NEW p \in DOMAIN M
      PROVE  h[p] = Body(p, h)
  <2>0. p # Tree!NULL
    BY <1>1, SubTreeKeys DEF Tree!NULL
  <2>1. M[p].left \in DOMAIN M \union {Tree!NULL} /\ M[p].right \in DOMAIN M \union {Tree!NULL}
    BY <1>1, <2>0, SubTreeFrom
  <2>2. PICK a, b : a = f[M[p].left] /\ b = f[M[p].right]
    OBVIOUS
  <2>3. f[p] = MadeOf(M, key, p, a, b)
    BY <1>2, <2>0, <2>2 DEF MadeOfAll
  <2>4. f[p].low = IF M[p].left = Tree!NULL THEN p ELSE a.low
    BY <2>0, <2>3 DEF MadeOf
  <2>5. M[p].left # Tree!NULL => h[M[p].left] = a.low
    BY <1>3, <2>1, <2>2
  <2> QED
    BY <1>1, <1>3, <2>0, <2>4, <2>5
<1>5. \E g : Solves(g)
  <2> HIDE DEF Body
  <2>1. h = [p \in DOMAIN M |-> Body(p, h)]
    BY <1>3, <1>4
  <2> QED
    BY <1>1, <2>1
<1> DEFINE g == CHOOSE g : Solves(g)
<1>6. Solves(g)
  <2> HIDE DEF Solves
  <2> QED
    BY <1>5, Zenon
<1>7. Tree!Leftmost(N, q) = g[q]
  BY Zenon DEF Tree!Leftmost
<1>8. PICK e : Solves(e) /\ Tree!Leftmost(N, q) = e[q]
  <2> HIDE DEF g, Solves
  <2> QED
    BY <1>6, <1>7, Zenon
<1>9. \A p \in DOMAIN N : e[p] = Body(p, e)
  <2> HIDE DEF Body
  <2> QED
    BY <1>8
<1>10. LeftmostMadeBy(e, N)
  BY <1>9, Zenon DEF LeftmostMadeBy
<1> QED
  BY <1>8, <1>10, Zenon

\* remove_min is one of its parts.
RestMadeBy(g, N) ==
  /\ \A p \in DOMAIN N : g[p] = IF N[p].left = Tree!NULL THEN [root |-> N[p].right, nodes |-> N]
                            ELSE Tree!Hang(g[N[p].left], p, "left")

\* remove_min takes what such a function makes of its node.
LEMMA RestMade ==
  ASSUME NEW N, NEW top, SubTree(N, top, DOMAIN N), NEW q
  PROVE  \E g : Tree!remove_min(N, q) = g[q] /\ RestMadeBy(g, N)
<1> DEFINE Body(p, g) == IF N[p].left = Tree!NULL THEN [root |-> N[p].right, nodes |-> N]
                            ELSE Tree!Hang(g[N[p].left], p, "left")
           Solves(g) == g = [p \in DOMAIN N |-> Body(p, g)]
<1>1. PICK M : M = N
  OBVIOUS
<1>2. PICK key, f : MadeOfAll(M, key, DOMAIN M, f)
  BY <1>1, MadeByParts
<1>3. PICK h : h = [p \in DOMAIN M |-> f[p].rest]
  OBVIOUS
<1>4. ASSUME NEW p \in DOMAIN M
      PROVE  h[p] = Body(p, h)
  <2>0. p # Tree!NULL
    BY <1>1, SubTreeKeys DEF Tree!NULL
  <2>1. M[p].left \in DOMAIN M \union {Tree!NULL} /\ M[p].right \in DOMAIN M \union {Tree!NULL}
    BY <1>1, <2>0, SubTreeFrom
  <2>2. PICK a, b : a = f[M[p].left] /\ b = f[M[p].right]
    OBVIOUS
  <2>3. f[p] = MadeOf(M, key, p, a, b)
    BY <1>2, <2>0, <2>2 DEF MadeOfAll
  <2>4. f[p].rest = IF M[p].left = Tree!NULL THEN [root |-> M[p].right, nodes |-> M]
                            ELSE Tree!Hang(a.rest, p, "left")
    BY <2>0, <2>3 DEF MadeOf
  <2>5. M[p].left # Tree!NULL => h[M[p].left] = a.rest
    BY <1>3, <2>1, <2>2
  <2> QED
    BY <1>1, <1>3, <2>0, <2>4, <2>5
<1>5. \E g : Solves(g)
  <2> HIDE DEF Body
  <2>1. h = [p \in DOMAIN M |-> Body(p, h)]
    BY <1>3, <1>4
  <2> QED
    BY <1>1, <2>1
<1> DEFINE g == CHOOSE g : Solves(g)
<1>6. Solves(g)
  <2> HIDE DEF Solves
  <2> QED
    BY <1>5, Zenon
<1>7. Tree!remove_min(N, q) = g[q]
  BY Zenon DEF Tree!remove_min
<1>8. PICK e : Solves(e) /\ Tree!remove_min(N, q) = e[q]
  <2> HIDE DEF g, Solves
  <2> QED
    BY <1>6, <1>7, Zenon
<1>9. \A p \in DOMAIN N : e[p] = Body(p, e)
  <2> HIDE DEF Body
  <2> QED
    BY <1>8
<1>10. RestMadeBy(e, N)
  BY <1>9, Zenon DEF RestMadeBy
<1> QED
  BY <1>8, <1>10, Zenon

\* Below is one of its parts.
BelowMadeBy(g, N) ==
  /\ g[Tree!NULL] = {}
  /\ \A p \in DOMAIN N : g[p] = {p} \union g[N[p].left] \union g[N[p].right]

\* Below takes what such a function makes of its node.
LEMMA BelowMade ==
  ASSUME NEW N, NEW top, SubTree(N, top, DOMAIN N), NEW q
  PROVE  \E g : Tree!Below(N, q) = g[q] /\ BelowMadeBy(g, N)
<1> DEFINE Body(p, g) == IF p = Tree!NULL THEN {} ELSE {p} \union g[N[p].left] \union g[N[p].right]
           Solves(g) == g = [p \in DOMAIN N \union {Tree!NULL} |-> Body(p, g)]
<1>1. PICK M : M = N
  OBVIOUS
<1>2. PICK key, f : MadeOfAll(M, key, DOMAIN M, f)
  BY <1>1, MadeByParts
<1>3. PICK h : h = [p \in DOMAIN M \union {Tree!NULL} |-> f[p].below]
  OBVIOUS
<1>4. ASSUME NEW p \in DOMAIN M \union {Tree!NULL}
      PROVE  h[p] = Body(p, h)
  <2>1. CASE p = Tree!NULL
    BY <1>1, <1>2, <1>3, <2>1 DEF MadeOfAll, MadeOf
  <2>2. CASE p # Tree!NULL
    <3>1. M[p].left \in DOMAIN M \union {Tree!NULL} /\ M[p].right \in DOMAIN M \union {Tree!NULL}
      BY <1>1, <2>2, SubTreeFrom
    <3>2. PICK a, b : a = f[M[p].left] /\ b = f[M[p].right]
      OBVIOUS
    <3>3. f[p] = MadeOf(M, key, p, a, b)
      BY <1>2, <2>2, <3>2 DEF MadeOfAll
    <3>4. f[p].below = {p} \union a.below \union b.below
      BY <2>2, <3>3 DEF MadeOf
    <3>5. h[M[p].left] = a.below /\ h[M[p].right] = b.below
      BY <1>3, <3>1, <3>2
    <3> QED
      BY <1>1, <1>3, <2>2, <3>4, <3>5
  <2> QED
    BY <2>1, <2>2
<1>5. \E g : Solves(g)
  <2> HIDE DEF Body
  <2>1. h = [p \in DOMAIN M \union {Tree!NULL} |-> Body(p, h)]
    BY <1>3, <1>4
  <2> QED
    BY <1>1, <2>1
<1> DEFINE g == CHOOSE g : Solves(g)
<1>6. Solves(g)
  <2> HIDE DEF Solves
  <2> QED
    BY <1>5, Zenon
<1>7. Tree!Below(N, q) = g[q]
  BY Zenon DEF Tree!Below
<1>8. PICK e : Solves(e) /\ Tree!Below(N, q) = e[q]
  <2> HIDE DEF g, Solves
  <2> QED
    BY <1>6, <1>7, Zenon
<1>9. e[Tree!NULL] = Body(Tree!NULL, e) /\ \A p \in DOMAIN N : e[p] = Body(p, e)
  <2> HIDE DEF Body
  <2> QED
    BY <1>8
<1>10. Tree!NULL \notin DOMAIN N
  BY SubTreeKeys DEF Tree!NULL
<1>11. BelowMadeBy(e, N)
  BY <1>9, <1>10, Zenon DEF BelowMadeBy
<1> QED
  BY <1>8, <1>11, Zenon

\* A pair <<q, X>> of ByParts is what it stands for.
LEMMA PairOf ==
  ASSUME NEW M, NEW q, NEW X, SubTree(M, q, X)
  PROVE  \E z \in (Nat \union {Tree!NULL}) \X SUBSET Nat : z = <<q, X>> /\ z[1] = q /\ z[2] = X
<1>1. q \in Nat \union {Tree!NULL} /\ X \in SUBSET Nat
  BY SubTreeKeys
<1>2. PICK z : z = <<q, X>>
  OBVIOUS
<1>3. z \in (Nat \union {Tree!NULL}) \X SUBSET Nat /\ z[1] = q /\ z[2] = X
  BY <1>1, <1>2
<1> QED
  BY <1>2, <1>3

\* A key by itself.
LEMMA OneKey ==
  ASSUME NEW M, NEW key \in Nat, key \in DOMAIN M, M[key] = Tree!Node
  PROVE  SubTree(M, key, {key})
<1>1. Tree!height(M, Tree!NULL) = 0
  BY DEF Tree!height
<1>2. Taller(0, 0) + 1 = 1
  BY DEF Taller
<1>3. M[key] = [left |-> Tree!NULL, right |-> Tree!NULL,
                height |-> Taller(Tree!height(M, Tree!NULL), Tree!height(M, Tree!NULL)) + 1]
  BY <1>1, <1>2 DEF Tree!Node
<1>4. Parts(M, key, {key}, Tree!NULL, Tree!NULL, {}, {})
  BY <1>3, NoSubTree DEF Parts
<1> QED
  BY <1>4, PartsMake

\* A new key gets its place, and nothing else is lost.
LEMMA InsertsKey ==
  ASSUME NEW t, NEW M, M = t.nodes, NEW D, D = DOMAIN M, SubTree(M, t.root, D), D \subseteq Keys,
         NEW key \in Keys, key \notin D
  PROVE  Result(Tree!insert_node(t, key), M, D, D \union {key}, D \union {key})
<1>1. PICK g : Tree!insert_node(t, key) = g[t.root] /\ InsertMadeBy(g, t, key)
  BY InsertMade
<1>2. key \in Nat /\ D \subseteq Nat
  BY KeysAssumption
<1>3. PICK E : E = D \union {key}
  OBVIOUS
<1> DEFINE Good(q, X) == Result(g[q], M, X, X \union {key}, E)
<1>4. PICK G : G = {z \in (Nat \union {Tree!NULL}) \X SUBSET Nat : Good(z[1], z[2])}
  OBVIOUS
<1>5. ASSUME NEW q, NEW X, SubTree(M, q, X)
      PROVE  <<q, X>> \in G <=> Good(q, X)
  <2>1. PICK z \in (Nat \union {Tree!NULL}) \X SUBSET Nat : z = <<q, X>> /\ z[1] = q /\ z[2] = X
    BY <1>5, PairOf
  <2> HIDE DEF Good
  <2> QED
    BY <1>4, <2>1
<1>6. <<Tree!NULL, {}>> \in G
  <2>1. PICK N : N = [x \in D \union {key} |-> IF x = key THEN Tree!Node ELSE M[x]]
    OBVIOUS
  <2>2. g[Tree!NULL] = [root |-> key, nodes |-> N]
    BY <1>1, <2>1 DEF InsertMadeBy
  <2>3. DOMAIN N = E /\ key \in DOMAIN N /\ N[key] = Tree!Node
    BY <1>3, <2>1
  <2>4. SubTree(N, key, {key})
    BY <1>2, <2>3, OneKey
  <2>5. \A x \in DOMAIN M : x \notin {} => N[x] = M[x]
    BY <2>1
  <2>6. {} \union {key} = {key}
    OBVIOUS
  <2>7. Result(g[Tree!NULL], M, {}, {key}, E)
    BY <2>2, <2>3, <2>4, <2>5 DEF Result
  <2>8. Good(Tree!NULL, {})
    BY <2>6, <2>7
  <2> QED
    BY <1>5, <2>8, NoSubTree
<1>7. ASSUME NEW q, NEW X, NEW l, NEW r, NEW L, NEW R,
             Parts(M, q, X, l, r, L, R), <<l, L>> \in G, <<r, R>> \in G
      PROVE  <<q, X>> \in G
  <2>1. /\ q \in DOMAIN M /\ X = {q} \union L \union R /\ X \subseteq DOMAIN M
        /\ q \notin L /\ q \notin R /\ (\A y \in L : y \notin R)
        /\ SubTree(M, l, L) /\ SubTree(M, r, R) /\ M[q].left = l /\ M[q].right = r
    BY <1>7, PartsOf
  <2>2. (\A y \in L : y > q) /\ (\A y \in R : y < q)
    BY <1>7 DEF Parts
  <2>3. /\ q \in Nat /\ q # key /\ X \subseteq Keys /\ q \in E /\ key \notin X
        /\ (\A x \in L : x \in E) /\ (\A x \in R : x \in E)
    BY <1>2, <1>3, <2>1
  <2>4. CASE key > q
    <3>1. g[q] = Tree!Hang(g[l], q, "left")
      BY <1>1, <2>1, <2>4 DEF InsertMadeBy
    <3>2. Result(g[l], M, L, L \union {key}, E)
      BY <1>5, <1>7, <2>1
    <3>3. PICK L2 : L2 = L \union {key}
      OBVIOUS
    <3>4. /\ L2 \subseteq Keys \ {q} /\ (\A y \in L2 : y > q)
          /\ (\A x \in R : x \in E /\ x \notin L) /\ X = {q} \union L \union R
          /\ \A x \in DOMAIN M : x \notin X => x \in E /\ x \notin L2
          /\ X \union {key} = {q} \union L2 \union R
      BY <1>3, <2>1, <2>2, <2>3, <2>4, <3>3
    <3>5. Result(g[l], M, L, L2, E)
      BY <3>2, <3>3
    <3>6. Result(g[q], M, X, X \union {key}, E)
      BY <1>7, <2>1, <2>3, <3>1, <3>4, <3>5, HangsOnLeft
    <3> QED
      BY <1>5, <1>7, <3>6, PartsMake
  <2>5. CASE ~ (key > q)
    <3>1. g[q] = Tree!Hang(g[r], q, "right")
      BY <1>1, <2>1, <2>5 DEF InsertMadeBy
    <3>2. Result(g[r], M, R, R \union {key}, E)
      BY <1>5, <1>7, <2>1
    <3>3. PICK R2 : R2 = R \union {key}
      OBVIOUS
    <3>4. /\ R2 \subseteq Keys \ {q} /\ (\A y \in R2 : y < q)
          /\ (\A x \in L : x \in E /\ x \notin R) /\ X = {q} \union R \union L
          /\ \A x \in DOMAIN M : x \notin X => x \in E /\ x \notin R2
          /\ X \union {key} = {q} \union L \union R2
      BY <1>2, <1>3, <2>1, <2>2, <2>3, <2>5, <3>3
    <3>5. Result(g[r], M, R, R2, E)
      BY <3>2, <3>3
    <3>6. Result(g[q], M, X, X \union {key}, E)
      BY <1>7, <2>1, <2>3, <3>1, <3>4, <3>5, HangsOnRight
    <3> QED
      BY <1>5, <1>7, <3>6, PartsMake
  <2> QED
    BY <2>4, <2>5
<1>8. \A q, X, l, r, L, R : Parts(M, q, X, l, r, L, R) /\ <<l, L>> \in G /\ <<r, R>> \in G
                            => <<q, X>> \in G
  BY <1>7
<1>9. <<t.root, D>> \in G
  BY <1>6, <1>8, ByParts
<1>10. Good(t.root, D)
  BY <1>5, <1>9
<1> QED
  BY <1>1, <1>3, <1>10

\* m is the largest key of X: it lies leftmost.
Lowest(m, X) == m \in X /\ \A y \in X : y <= m

\* Leftmost finds the largest key, and remove_min leaves the others.
LEMMA RemovesLowest ==
  ASSUME NEW M, NEW top, NEW D, D = DOMAIN M, SubTree(M, top, D), D \subseteq Keys,
         NEW p, NEW S, SubTree(M, p, S), p # Tree!NULL, NEW m, m = Tree!Leftmost(M, p)
  PROVE  Lowest(m, S) /\ Result(Tree!remove_min(M, p), M, S \ {m}, S \ {m}, D)
<1>0. SubTree(M, top, DOMAIN M)
  OBVIOUS
<1>1. PICK f : m = f[p] /\ LeftmostMadeBy(f, M)
  BY <1>0, LeftmostMade
<1>2. PICK g : Tree!remove_min(M, p) = g[p] /\ RestMadeBy(g, M)
  BY <1>0, RestMade
<1> DEFINE Good(q, X) == q # Tree!NULL => /\ Lowest(f[q], X)
                                          /\ Result(g[q], M, X \ {f[q]}, X \ {f[q]}, D)
<1>3. PICK G : G = {z \in (Nat \union {Tree!NULL}) \X SUBSET Nat : Good(z[1], z[2])}
  OBVIOUS
<1>4. ASSUME NEW q, NEW X, SubTree(M, q, X)
      PROVE  <<q, X>> \in G <=> Good(q, X)
  <2>1. PICK z \in (Nat \union {Tree!NULL}) \X SUBSET Nat : z = <<q, X>> /\ z[1] = q /\ z[2] = X
    BY <1>4, PairOf
  <2> HIDE DEF Good
  <2> QED
    BY <1>3, <2>1
<1>5. <<Tree!NULL, {}>> \in G
  BY <1>4, NoSubTree
<1>6. ASSUME NEW q, NEW X, NEW l, NEW r, NEW L, NEW R,
             Parts(M, q, X, l, r, L, R), <<l, L>> \in G, <<r, R>> \in G
      PROVE  <<q, X>> \in G
  <2>1. /\ q \in DOMAIN M /\ X = {q} \union L \union R /\ X \subseteq DOMAIN M
        /\ q \notin L /\ q \notin R /\ (\A y \in L : y \notin R) /\ q \in Nat /\ X \subseteq Nat
        /\ SubTree(M, l, L) /\ SubTree(M, r, R) /\ M[q].left = l /\ M[q].right = r
    BY <1>6, PartsOf
  <2>2. (\A y \in L : y > q) /\ (\A y \in R : y < q)
    BY <1>6 DEF Parts
  <2>3. CASE l = Tree!NULL
    <3>1. L = {} /\ X = {q} \union R
      BY <2>1, <2>3, EmptySubTree
    <3>2. f[q] = q /\ g[q] = [root |-> r, nodes |-> M]
      BY <1>1, <1>2, <2>1, <2>3 DEF LeftmostMadeBy, RestMadeBy
    <3>3. Lowest(q, X)
      BY <2>1, <2>2, <3>1 DEF Lowest
    <3>4. X \ {q} = R
      BY <2>1, <3>1
    <3>5. Result(g[q], M, R, R, D)
      BY <2>1, <3>2 DEF Result
    <3>6. Good(q, X)
      BY <3>2, <3>3, <3>4, <3>5
    <3> QED
      BY <1>4, <1>6, <3>6, PartsMake
  <2>4. CASE l # Tree!NULL
    <3>1. PICK k : k = f[l]
      OBVIOUS
    <3>2. f[q] = k /\ g[q] = Tree!Hang(g[l], q, "left")
      BY <1>1, <1>2, <2>1, <2>4, <3>1 DEF LeftmostMadeBy, RestMadeBy
    <3>3. Good(l, L)
      BY <1>4, <1>6, <2>1
    <3>4. Lowest(k, L) /\ Result(g[l], M, L \ {k}, L \ {k}, D)
      BY <2>4, <3>1, <3>3
    <3>5. PICK L2 : L2 = L \ {k}
      OBVIOUS
    <3>6. k \in L /\ (\A y \in L : y <= k) /\ k > q /\ k \in Nat
      BY <2>1, <2>2, <3>4 DEF Lowest
    <3>7. Lowest(k, X)
      <4>1. \A y \in R : y <= k
        BY <2>1, <2>2, <3>6
      <4> QED
        BY <2>1, <3>6, <4>1 DEF Lowest
    <3>8. PICK S1 : S1 = X \ {k}
      OBVIOUS
    <3>9. /\ L2 \subseteq Keys \ {q} /\ (\A y \in L2 : y > q)
          /\ q \in D /\ q \notin L2 /\ (\A x \in R : x \in D /\ x \notin L2) /\ X \subseteq Keys
          /\ S1 = {q} \union L2 \union R
          /\ \A x \in DOMAIN M : x \notin S1 => x \in D /\ x \notin L2
      BY <2>1, <2>2, <3>5, <3>6, <3>8
    <3>10. Result(g[l], M, L2, L2, D)
      BY <3>4, <3>5
    <3>11. Result(g[q], M, S1, S1, D)
      BY <1>6, <3>2, <3>9, <3>10, HangsOnLeft
    <3>12. Good(q, X)
      BY <3>2, <3>7, <3>8, <3>11
    <3> QED
      BY <1>4, <1>6, <3>12, PartsMake
  <2> QED
    BY <2>3, <2>4
<1>7. \A q, X, l, r, L, R : Parts(M, q, X, l, r, L, R) /\ <<l, L>> \in G /\ <<r, R>> \in G
                            => <<q, X>> \in G
  BY <1>6
<1>8. <<p, S>> \in G
  BY <1>5, <1>7, ByParts
<1>9. Good(p, S)
  BY <1>4, <1>8
<1> QED
  BY <1>1, <1>2, <1>9

\* The nodes N without p, in which m has got the children q and l.
Takes(N, p, m, q, l) == [Tree!Restrict(N, DOMAIN N \ {p}) EXCEPT ![m].right = q, ![m].left = l]

\* Replacement in one term.
LEMMA ReplacementIs ==
  ASSUME NEW M, NEW p
  PROVE  Tree!Replacement(M, p) =
           IF M[p].right = Tree!NULL
           THEN [root |-> M[p].left, nodes |-> Tree!Restrict(M, DOMAIN M \ {p})]
           ELSE IF Tree!remove_min(M, M[p].right) = Tree!Crashed THEN Tree!Crashed
           ELSE Tree!make_balance(Takes(Tree!remove_min(M, M[p].right).nodes, p,
                                        Tree!Leftmost(M, M[p].right),
                                        Tree!remove_min(M, M[p].right).root, M[p].left),
                                  Tree!Leftmost(M, M[p].right))
BY Zenon DEF Tree!Replacement, Takes

\* What takes the place of a node has the keys below it.
LEMMA Replaces ==
  ASSUME NEW M, NEW top, NEW D, D = DOMAIN M, SubTree(M, top, D), D \subseteq Keys,
         NEW p, NEW S, NEW l, NEW r, NEW L, NEW R, Parts(M, p, S, l, r, L, R)
  PROVE  Result(Tree!Replacement(M, p), M, S, S \ {p}, D \ {p})
<1>1. /\ p \in DOMAIN M /\ S = {p} \union L \union R /\ S \subseteq DOMAIN M
      /\ p \notin L /\ p \notin R /\ (\A y \in L : y \notin R) /\ p \in Nat /\ S \subseteq Nat
      /\ SubTree(M, l, L) /\ SubTree(M, r, R) /\ M[p].left = l /\ M[p].right = r
  BY PartsOf
<1>2. (\A y \in L : y > p) /\ (\A y \in R : y < p)
  BY DEF Parts
<1>3. CASE r = Tree!NULL
  <2>1. PICK N : N = Tree!Restrict(M, DOMAIN M \ {p})
    OBVIOUS
  <2>2. Tree!Replacement(M, p) = [root |-> l, nodes |-> N]
    BY <1>1, <1>3, <2>1, ReplacementIs
  <2>3. DOMAIN N = D \ {p} /\ \A x \in D \ {p} : N[x] = M[x]
    BY <2>1 DEF Tree!Restrict
  <2>4. R = {}
    BY <1>1, <1>3, EmptySubTree
  <2>5. S \ {p} = L
    BY <1>1, <2>4
  <2>6. SubTree(N, l, L)
    BY <1>1, <2>3, SubTreeStays
  <2> QED
    BY <1>1, <2>2, <2>3, <2>5, <2>6 DEF Result
<1>4. CASE r # Tree!NULL
  <2>1. PICK m : m = Tree!Leftmost(M, r)
    OBVIOUS
  <2>2. PICK R2 : R2 = R \ {m}
    OBVIOUS
  <2>3. PICK rest : rest = Tree!remove_min(M, r)
    OBVIOUS
  <2>4. Lowest(m, R) /\ Result(rest, M, R2, R2, D)
    BY <1>1, <1>4, <2>1, <2>2, <2>3, RemovesLowest
  <2>5. /\ m \in R /\ m \in D /\ m \in Nat /\ m < p /\ (\A y \in R2 : y < m)
        /\ m \notin L /\ (\A y \in L : y > m)
    BY <1>1, <1>2, <2>2, <2>4 DEF Lowest
  <2>6. PICK q, N : /\ rest = [root |-> q, nodes |-> N] /\ SubTree(N, q, R2) /\ DOMAIN N = D
                    /\ \A x \in D : x \notin R2 => N[x] = M[x]
    BY <2>4 DEF Result
  <2>7. rest # Tree!Crashed
    <3>1. q # -2
      BY <2>6, SubTreeKeys DEF Tree!NULL
    <3>2. rest.root = q
      BY <2>6
    <3> QED
      BY <3>1, <3>2 DEF Tree!Crashed
  <2>8. PICK O : O = Tree!Restrict(N, DOMAIN N \ {p})
    OBVIOUS
  <2>9. DOMAIN O = D \ {p} /\ \A x \in D \ {p} : O[x] = N[x]
    BY <2>6, <2>8 DEF Tree!Restrict
  <2>10. PICK U : U = [O EXCEPT ![m].right = q, ![m].left = l]
    OBVIOUS
  <2>11. Tree!Replacement(M, p) = Tree!make_balance(U, m)
    <3>1. rest.nodes = N /\ rest.root = q
      BY <2>6
    <3>2. Tree!Replacement(M, p) = Tree!make_balance(Takes(N, p, m, q, l), m)
      BY <1>1, <1>4, <2>1, <2>3, <2>7, <3>1, ReplacementIs
    <3>3. U = Takes(N, p, m, q, l)
      BY <2>8, <2>10, Zenon DEF Takes
    <3> QED
      BY <3>2, <3>3
  <2>13. \E lm, rm, z : M[m] = [left |-> lm, right |-> rm, height |-> z]
    <3>1. PICK X : SubTree(M, m, X)
      BY <1>1, <2>5, SubTreeFrom
    <3>2. m # Tree!NULL
      BY <2>5 DEF Tree!NULL
    <3>3. PICK lm, rm, Lm, Rm : Parts(M, m, X, lm, rm, Lm, Rm)
      BY <3>1, <3>2, SubTreeParts
    <3> QED
      BY <3>3 DEF Parts
  <2>14. PICK lm, rm, z : M[m] = [left |-> lm, right |-> rm, height |-> z]
    BY <2>13
  <2>15. /\ DOMAIN U = D \ {p} /\ m \in D \ {p} /\ U[m] = [left |-> l, right |-> q, height |-> z]
         /\ \A x \in D \ {p} : x # m => U[x] = N[x]
    <3>1. m \in D \ {p} /\ O[m] = [left |-> lm, right |-> rm, height |-> z]
      BY <2>2, <2>5, <2>6, <2>9, <2>14
    <3>2. PICK V : V = [O EXCEPT ![m] = [O[m] EXCEPT !.right = q]]
      OBVIOUS
    <3>3. U = [V EXCEPT ![m] = [V[m] EXCEPT !.left = l]]
      BY <2>10, <3>2
    <3>4. [O[m] EXCEPT !.right = q] = [left |-> lm, right |-> q, height |-> z]
      BY <3>1
    <3>5. DOMAIN V = D \ {p} /\ V[m] = [left |-> lm, right |-> q, height |-> z]
          /\ \A x \in D \ {p} : x # m => V[x] = O[x]
      BY <2>9, <3>1, <3>2, <3>4
    <3>6. [V[m] EXCEPT !.left = l] = [left |-> l, right |-> q, height |-> z]
      BY <3>5
    <3> QED
      BY <2>9, <3>1, <3>3, <3>5, <3>6
  <2>16. /\ \A x \in L : x \in DOMAIN U /\ U[x] = M[x]
         /\ \A x \in R2 : x \in DOMAIN U /\ U[x] = N[x]
    BY <1>1, <2>2, <2>5, <2>6, <2>15
  <2>17. SubTree(U, l, L) /\ SubTree(U, q, R2)
    BY <1>1, <2>6, <2>16, SubTreeStays
  <2>18. Hangs(U, m, l, q, L, R2)
    <3>1. L \subseteq Keys \ {m} /\ R2 \subseteq Keys \ {m} /\ m \in Keys
      BY <1>1, <2>2, <2>5
    <3> QED
      BY <2>5, <2>15, <2>17, <3>1 DEF Hangs
  <2>19. PICK S2 : S2 = {m} \union L \union R2
    OBVIOUS
  <2>20. S2 = S \ {p}
    BY <1>1, <2>2, <2>5, <2>19
  <2>21. Result(Tree!Replacement(M, p), U, S2, S2, D \ {p})
    BY <2>11, <2>15, <2>18, <2>19, Balances
  <2>22. PICK w, N2 : /\ Tree!Replacement(M, p) = [root |-> w, nodes |-> N2] /\ SubTree(N2, w, S2)
                      /\ DOMAIN N2 = D \ {p}
                      /\ \A x \in D \ {p} : x \notin S2 => N2[x] = U[x]
    BY <2>15, <2>21 DEF Result
  <2>23. ASSUME NEW x \in DOMAIN M, x \notin S
         PROVE  N2[x] = M[x]
    <3>1. x \in D \ {p} /\ x \notin S2 /\ x # m /\ x \notin R2
      BY <1>1, <2>2, <2>5, <2>20, <2>23
    <3> QED
      BY <2>6, <2>15, <2>22, <3>1
  <2> QED
    BY <2>20, <2>22, <2>23 DEF Result
<1> QED
  BY <1>3, <1>4

\* A key is deleted, if it is there, and no other is.
LEMMA DeletesKey ==
  ASSUME NEW t, NEW M, M = t.nodes, NEW D, D = DOMAIN M, SubTree(M, t.root, D), D \subseteq Keys,
         NEW key \in Keys
  PROVE  Result(Tree!delete_node(t, key), M, D, D \ {key}, D \ {key})
<1>1. PICK g : Tree!delete_node(t, key) = g[t.root] /\ DeleteMadeBy(g, t, key)
  BY DeleteMade
<1>2. key \in Nat /\ D \subseteq Nat
  BY KeysAssumption
<1>3. PICK E : E = D \ {key}
  OBVIOUS
<1> DEFINE Good(q, X) == key \in X \/ key \notin D => Result(g[q], M, X, X \ {key}, E)
<1>4. PICK G : G = {z \in (Nat \union {Tree!NULL}) \X SUBSET Nat : Good(z[1], z[2])}
  OBVIOUS
<1>5. ASSUME NEW q, NEW X, SubTree(M, q, X)
      PROVE  <<q, X>> \in G <=> Good(q, X)
  <2>1. PICK z \in (Nat \union {Tree!NULL}) \X SUBSET Nat : z = <<q, X>> /\ z[1] = q /\ z[2] = X
    BY <1>5, PairOf
  <2> HIDE DEF Good
  <2> QED
    BY <1>4, <2>1
<1>6. <<Tree!NULL, {}>> \in G
  <2>1. ASSUME key \notin D
        PROVE  Result(g[Tree!NULL], M, {}, {}, E)
    <3>1. g[Tree!NULL] = [root |-> Tree!NULL, nodes |-> M]
      BY <1>1 DEF DeleteMadeBy
    <3>2. DOMAIN M = E
      BY <1>3, <2>1
    <3> QED
      BY <3>1, <3>2, NoSubTree DEF Result
  <2>2. {} \ {key} = {}
    OBVIOUS
  <2>3. Good(Tree!NULL, {})
    BY <2>1, <2>2
  <2> QED
    BY <1>5, <2>3, NoSubTree
<1>7. ASSUME NEW q, NEW X, NEW l, NEW r, NEW L, NEW R,
             Parts(M, q, X, l, r, L, R), <<l, L>> \in G, <<r, R>> \in G
      PROVE  <<q, X>> \in G
  <2>1. /\ q \in DOMAIN M /\ X = {q} \union L \union R /\ X \subseteq DOMAIN M
        /\ q \notin L /\ q \notin R /\ (\A y \in L : y \notin R)
        /\ SubTree(M, l, L) /\ SubTree(M, r, R) /\ M[q].left = l /\ M[q].right = r
    BY <1>7, PartsOf
  <2>2. (\A y \in L : y > q) /\ (\A y \in R : y < q)
    BY <1>7 DEF Parts
  <2>3. q \in Nat /\ X \subseteq Keys
    BY <1>2, <2>1
  <2>4. ASSUME key \in X \/ key \notin D
        PROVE  Result(g[q], M, X, X \ {key}, E)
    <3>1. CASE q < key
      <4>1. g[q] = Tree!Hang(g[l], q, "left")
        BY <1>1, <2>1, <3>1 DEF DeleteMadeBy
      <4>2. key \notin R /\ q # key /\ (key \in L \/ key \notin D)
        BY <1>2, <2>1, <2>2, <2>3, <2>4, <3>1
      <4>3. Result(g[l], M, L, L \ {key}, E)
        BY <1>5, <1>7, <2>1, <4>2
      <4>4. PICK L2 : L2 = L \ {key}
        OBVIOUS
      <4>5. /\ L2 \subseteq Keys \ {q} /\ (\A y \in L2 : y > q) /\ q \in E /\ q \notin L
            /\ (\A x \in R : x \in E /\ x \notin L) /\ X = {q} \union L \union R
            /\ \A x \in DOMAIN M : x \notin X => x \in E /\ x \notin L2
            /\ X \ {key} = {q} \union L2 \union R
        BY <1>3, <2>1, <2>2, <2>3, <2>4, <4>2, <4>4
      <4>6. Result(g[l], M, L, L2, E)
        BY <4>3, <4>4
      <4> QED
        BY <1>7, <2>3, <4>1, <4>5, <4>6, HangsOnLeft
    <3>2. CASE q > key
      <4>1. g[q] = Tree!Hang(g[r], q, "right")
        <5>1. ~ (q < key)
          BY <1>2, <2>3, <3>2
        <5> QED
          BY <1>1, <2>1, <3>2, <5>1 DEF DeleteMadeBy
      <4>2. key \notin L /\ q # key /\ (key \in R \/ key \notin D)
        BY <1>2, <2>1, <2>2, <2>3, <2>4, <3>2
      <4>3. Result(g[r], M, R, R \ {key}, E)
        BY <1>5, <1>7, <2>1, <4>2
      <4>4. PICK R2 : R2 = R \ {key}
        OBVIOUS
      <4>5. /\ R2 \subseteq Keys \ {q} /\ (\A y \in R2 : y < q) /\ q \in E /\ q \notin R
            /\ (\A x \in L : x \in E /\ x \notin R) /\ X = {q} \union R \union L
            /\ \A x \in DOMAIN M : x \notin X => x \in E /\ x \notin R2
            /\ X \ {key} = {q} \union L \union R2
        BY <1>3, <2>1, <2>2, <2>3, <2>4, <4>2, <4>4
      <4>6. Result(g[r], M, R, R2, E)
        BY <4>3, <4>4
      <4> QED
        BY <1>7, <2>3, <4>1, <4>5, <4>6, HangsOnRight
    <3>3. CASE q = key
      <4>1. g[q] = Tree!Replacement(M, q)
        <5>1. ~ (q < key) /\ ~ (q > key)
          BY <1>2, <3>3
        <5> QED
          BY <1>1, <2>1, <5>1 DEF DeleteMadeBy
      <4>2. Result(Tree!Replacement(M, q), M, X, X \ {q}, D \ {q})
        BY <1>7, Replaces
      <4> QED
        BY <1>3, <3>3, <4>1, <4>2
    <3> QED
      BY <1>2, <2>3, <3>1, <3>2, <3>3
  <2>5. Good(q, X)
    BY <2>4
  <2> QED
    BY <1>5, <1>7, <2>5, PartsMake
<1>8. \A q, X, l, r, L, R : Parts(M, q, X, l, r, L, R) /\ <<l, L>> \in G /\ <<r, R>> \in G
                            => <<q, X>> \in G
  BY <1>7
<1>9. <<t.root, D>> \in G
  BY <1>6, <1>8, ByParts
<1>10. Good(t.root, D)
  BY <1>5, <1>9
<1>11. Result(g[t.root], M, D, D \ {key}, E)
  BY <1>10
<1> QED
  BY <1>1, <1>3, <1>11

\* Below finds the keys of a subtree.
LEMMA BelowIs ==
  ASSUME NEW M, NEW top, SubTree(M, top, DOMAIN M), NEW p, NEW S, SubTree(M, p, S)
  PROVE  Tree!Below(M, p) = S
<1>1. PICK g : Tree!Below(M, p) = g[p] /\ BelowMadeBy(g, M)
  BY BelowMade
<1> DEFINE Good(q, X) == g[q] = X
<1>2. PICK G : G = {z \in (Nat \union {Tree!NULL}) \X SUBSET Nat : Good(z[1], z[2])}
  OBVIOUS
<1>3. ASSUME NEW q, NEW X, SubTree(M, q, X)
      PROVE  <<q, X>> \in G <=> g[q] = X
  <2>1. PICK z \in (Nat \union {Tree!NULL}) \X SUBSET Nat : z = <<q, X>> /\ z[1] = q /\ z[2] = X
    BY <1>3, PairOf
  <2> QED
    BY <1>2, <2>1
<1>4. <<Tree!NULL, {}>> \in G
  BY <1>1, <1>3, NoSubTree DEF BelowMadeBy
<1>5. ASSUME NEW q, NEW X, NEW l, NEW r, NEW L, NEW R,
             Parts(M, q, X, l, r, L, R), <<l, L>> \in G, <<r, R>> \in G
      PROVE  <<q, X>> \in G
  <2>1. /\ q \in DOMAIN M /\ X = {q} \union L \union R
        /\ SubTree(M, l, L) /\ SubTree(M, r, R) /\ M[q].left = l /\ M[q].right = r
    BY <1>5, PartsOf
  <2>2. g[l] = L /\ g[r] = R
    BY <1>3, <1>5, <2>1
  <2>3. g[q] = {q} \union g[M[q].left] \union g[M[q].right]
    BY <1>1, <2>1 DEF BelowMadeBy
  <2>4. g[q] = X
    BY <2>1, <2>2, <2>3
  <2> QED
    BY <1>3, <1>5, <2>4, PartsMake
<1>6. \A q, X, l, r, L, R : Parts(M, q, X, l, r, L, R) /\ <<l, L>> \in G /\ <<r, R>> \in G
                            => <<q, X>> \in G
  BY <1>5
<1>7. <<p, S>> \in G
  BY <1>4, <1>6, ByParts
<1> QED
  BY <1>1, <1>3, <1>7

\* The tree is a search tree of the keys it has nodes for.
TreeInv ==
  \E M, p : /\ tree = [root |-> p, nodes |-> M]
            /\ DOMAIN M \subseteq Keys /\ SubTree(M, p, DOMAIN M)

\* The empty tree is one.
LEMMA TreeInit == tree = Tree!Empty => TreeInv
<1> SUFFICES ASSUME tree = Tree!Empty PROVE TreeInv
  OBVIOUS
<1>1. PICK M : M = << >>
  OBVIOUS
<1>2. DOMAIN M = {} /\ tree = [root |-> Tree!NULL, nodes |-> M]
  BY <1>1 DEF Tree!Empty
<1>3. SubTree(M, Tree!NULL, DOMAIN M) /\ DOMAIN M \subseteq Keys
  BY <1>2, NoSubTree
<1> QED
  BY <1>2, <1>3 DEF TreeInv

\* Keys inserted and deleted keep it one.
LEMMA TreeNextKeeps ==
  ASSUME TreeInv, [TreeNext]_tree
  PROVE  TreeInv'
<1>1. PICK M, p : /\ tree = [root |-> p, nodes |-> M]
                  /\ DOMAIN M \subseteq Keys /\ SubTree(M, p, DOMAIN M)
  BY DEF TreeInv
<1>2. PICK t, u : t = tree /\ u = tree'
  OBVIOUS
<1>3. t = [root |-> p, nodes |-> M] /\ t.nodes = M /\ t.root = p
  BY <1>1, <1>2
<1>4. ASSUME NEW E, E \subseteq Keys, Result(u, M, DOMAIN M, E, E)
      PROVE  TreeInv'
  <2>1. PICK q, N : u = [root |-> q, nodes |-> N] /\ SubTree(N, q, E) /\ DOMAIN N = E
    BY <1>4 DEF Result
  <2>2. tree' = [root |-> q, nodes |-> N] /\ DOMAIN N \subseteq Keys /\ SubTree(N, q, DOMAIN N)
    BY <1>2, <1>4, <2>1
  <2> QED
    BY <2>2 DEF TreeInv
<1>5. CASE UNCHANGED tree
  BY <1>5 DEF TreeInv
<1>6. ASSUME NEW k \in Keys, k \notin DOMAIN tree.nodes, tree' = Tree!insert_node(tree, k)
      PROVE  TreeInv'
  <2>1. u = Tree!insert_node(t, k) /\ k \notin DOMAIN M
    BY <1>2, <1>3, <1>6
  <2>2. Result(u, M, DOMAIN M, DOMAIN M \union {k}, DOMAIN M \union {k})
    BY <1>1, <1>3, <2>1, InsertsKey
  <2>3. DOMAIN M \union {k} \subseteq Keys
    BY <1>1
  <2> QED
    BY <1>4, <2>2, <2>3
<1>7. ASSUME NEW k \in Keys, tree' = Tree!delete_node(tree, k)
      PROVE  TreeInv'
  <2>1. u = Tree!delete_node(t, k)
    BY <1>2, <1>7
  <2>2. Result(u, M, DOMAIN M, DOMAIN M \ {k}, DOMAIN M \ {k})
    BY <1>1, <1>3, <2>1, DeletesKey
  <2>3. DOMAIN M \ {k} \subseteq Keys
    BY <1>1
  <2> QED
    BY <1>4, <2>2, <2>3
<1> QED
  BY <1>5, <1>6, <1>7 DEF TreeNext

\* Such a tree has not crashed and is a search tree by its own definition.
LEMMA TreeSound == TreeInv => TreeKeepsOrder
<1> SUFFICES ASSUME TreeInv PROVE TreeKeepsOrder
  OBVIOUS
<1>1. PICK M, p : /\ tree = [root |-> p, nodes |-> M]
                  /\ DOMAIN M \subseteq Keys /\ SubTree(M, p, DOMAIN M)
  BY DEF TreeInv
<1>2. tree.root = p /\ tree.nodes = M
  BY <1>1
<1>3. tree # Tree!Crashed
  <2>1. p # -2
    BY <1>1, SubTreeKeys DEF Tree!NULL
  <2> QED
    BY <1>2, <2>1 DEF Tree!Crashed
<1>4. Tree!Below(M, p) = DOMAIN M
  BY <1>1, BelowIs
<1>5. ASSUME NEW q \in DOMAIN M
      PROVE  /\ \A y \in Tree!Below(M, M[q].left) : y > q
             /\ \A y \in Tree!Below(M, M[q].right) : y < q
  <2>1. PICK X : SubTree(M, q, X)
    BY <1>1, SubTreeFrom
  <2>2. q # Tree!NULL
    BY <1>1, SubTreeKeys DEF Tree!NULL
  <2>3. PICK l, r, L, R : Parts(M, q, X, l, r, L, R)
    BY <2>1, <2>2, SubTreeParts
  <2>4. SubTree(M, l, L) /\ SubTree(M, r, R) /\ M[q].left = l /\ M[q].right = r
    BY <2>3, PartsOf
  <2>5. Tree!Below(M, l) = L /\ Tree!Below(M, r) = R
    BY <1>1, <2>4, BelowIs
  <2>6. (\A y \in L : y > q) /\ (\A y \in R : y < q)
    BY <2>3 DEF Parts
  <2> QED
    BY <2>4, <2>5, <2>6
<1>6. Tree!IsSearchTree(tree)
  BY <1>2, <1>4, <1>5 DEF Tree!IsSearchTree
<1> QED
  BY <1>3, <1>6 DEF TreeKeepsOrder
=============================================================================
