---------------------------- MODULE TcpForkProofs ---------------------------
(***************************************************************************)
(* The forking server of module3/13 for any number of connections, lines,  *)
(* chunks and failures.                                                    *)
(***************************************************************************)
EXTENDS TcpFork, FiniteSetTheorems, SequenceTheorems, TLAPS

Places == Dead \union Reading \union {"menu", "lost", "leave", "store"}
Token == (Lines \union Parts) \X Nat

Types ==
  /\ ppc \in {"accept", "load", "store", "fork", "stopped"}
  /\ newsock \in Conns \union {NoConn} /\ delta \in {-1, 0, 1}
  /\ nclients \in Int /\ loaded \in [Conns \union {Parent} -> Int] /\ raced \in BOOLEAN
  /\ child \in [Conns -> Places] /\ left \in [Conns -> Nat]
  /\ up \in [Conns -> Seq(Token)] /\ replies \in [Conns -> Nat]
  /\ user \in [Conns -> {"off", "recv", "type", "name", "closed"}]
  /\ peer \in [Conns -> {"open", "fin", "broken", "reset"}]
  /\ backlog \in Seq(Conns) /\ astray \subseteq Conns

\* A connection that has no process yet is in one place, the backlog or the hands
\* of run_server.
PlacesInv == Running =>
  /\ ppc \in {"load", "store"} => delta \in {1, -1}
  /\ ppc \in {"accept", "fork"} => delta = 0
  /\ ppc = "fork" \/ delta = 1 =>
       /\ newsock \in Conns /\ child[newsock] = "none" /\ user[newsock] # "off"
       /\ \A k \in DOMAIN backlog : backlog[k] # newsock
  /\ \A k \in DOMAIN backlog : child[backlog[k]] = "none" /\ user[backlog[k]] # "off"
  /\ \A j, k \in DOMAIN backlog : backlog[j] = backlog[k] => j = k

\* Until an update is lost the counter is of the processes that have not counted
\* down, but for what the parent is about to add.
Counted == {c \in Conns : child[c] \notin {"none", "gone"}}
CountInv == Running /\ ~raced =>
  nclients + delta = Cardinality(Counted) + (IF ppc = "fork" \/ delta = 1 THEN 1 ELSE 0)

\* The parts of a file follow one another. The word "file" and the size are kept
\* by what follows them, unless the client is astray.
Whole(s) == \A k \in DOMAIN s :
  /\ s[k][1] = "len" => k < Len(s) /\ s[k + 1][1] = "name"
  /\ s[k][1] = "name" => k < Len(s) /\ s[k + 1][1] = "size"
Sized(s) == \A k \in DOMAIN s : s[k][1] = "size" =>
  k + s[k][2] <= Len(s) /\ \A i \in 1..s[k][2] : s[k + i][1] = "chunk"
Announced(s) == \A k \in DOMAIN s : s[k][1] = "file" /\ k < Len(s) => s[k + 1][1] = "len"
Ends(s, word) == s # << >> /\ s[Len(s)][1] = word
Begins(s, word) == s # << >> /\ s[1][1] = word
Chunks(s, n) == n <= Len(s) /\ \A i \in 1..n : s[i][1] = "chunk"

UpAt(c) ==
  /\ Whole(up[c])
  /\ c \notin astray => /\ Announced(up[c]) /\ Sized(up[c])
                        /\ Ends(up[c], "file") => user[c] \in {"name", "closed"}

\* A process that expects a part of a file finds it.
PartAt(c) ==
  /\ child[c] = "len" /\ c \notin astray =>
       (up[c] = << >> /\ user[c] \in {"name", "closed"}) \/ Begins(up[c], "len")
  /\ child[c] = "name" => Begins(up[c], "name")
  /\ child[c] = "size" => Begins(up[c], "size")
  /\ child[c] = "data" /\ c \notin astray => Chunks(up[c], left[c])
  /\ child[c] = "lost" => c \in astray

\* With nothing on its way in either direction the process expects the length of a
\* file, has the file, or the client is astray.
TurnAt(c) ==
  /\ peer[c] # "open" => user[c] = "closed"
  /\ user[c] = "off" => child[c] = "none"
  /\ user[c] \in {"recv", "name"} /\ replies[c] = 0 /\ up[c] = << >> /\ child[c] \in Reading =>
       child[c] = "len" \/ (child[c] = "data" /\ (left[c] = 0 \/ c \in astray))

DialogInv == \A c \in Conns : UpAt(c) /\ PartAt(c) /\ TurnAt(c)

IInv == Types /\ PlacesInv /\ CountInv /\ DialogInv

-----------------------------------------------------------------------------
(* Streams.                                                                *)

\* What is left of a stream when its first j tokens have been taken.
Rest(r, s, j) ==
  r \in Seq(Token) /\ Len(r) = Len(s) - j /\ \A k \in 1..Len(r) : r[k] = s[k + j]

\* SubSeq leaves that.
LEMMA Taken ==
  ASSUME NEW s \in Seq(Token), NEW j \in 1..Len(s)
  PROVE  Rest(SubSeq(s, j + 1, Len(s)), s, j)
<1>1. Len(s) \in Nat /\ j \in Nat
  OBVIOUS
<1>2. /\ SubSeq(s, j + 1, Len(s)) \in Seq(Token)
      /\ Len(SubSeq(s, j + 1, Len(s))) = Len(s) - j
      /\ \A k \in 1..(Len(s) - j) : SubSeq(s, j + 1, Len(s))[k] = s[k + j]
  BY <1>1
<1> QED
  BY <1>2 DEF Rest

\* The same of its first token.
LEMMA TailTaken ==
  ASSUME NEW s \in Seq(Token), s # << >>
  PROVE  1 \in 1..Len(s) /\ Head(s) = s[1] /\ Head(s) \in Token /\ Rest(Tail(s), s, 1)
<1>1. /\ Len(s) \in Nat /\ 1 \in 1..Len(s) /\ Head(s) = s[1] /\ Head(s) \in Token
      /\ Tail(s) \in Seq(Token) /\ Len(Tail(s)) = Len(s) - 1
      /\ \A k \in 1..(Len(s) - 1) : Tail(s)[k] = s[k + 1]
  OBVIOUS
<1> QED
  BY <1>1 DEF Rest

\* The rest of a stream is one.
LEMMA RestIsStream ==
  ASSUME NEW s \in Seq(Token), NEW j \in 1..Len(s), NEW r, Rest(r, s, j)
  PROVE  /\ Whole(s) => Whole(r)
         /\ Announced(s) => Announced(r)
         /\ Sized(s) => Sized(r)
         /\ \A n \in Nat : j <= n /\ Chunks(s, n) => Chunks(r, n - j)
         /\ \A word : Ends(r, word) => Ends(s, word)
         /\ r = << >> <=> j = Len(s)
         /\ j < Len(s) => r # << >> /\ r[1] = s[j + 1]
<1>1. /\ Len(s) \in Nat /\ j \in Nat /\ r \in Seq(Token) /\ Len(r) \in Nat /\ Len(r) = Len(s) - j
      /\ DOMAIN s = 1..Len(s) /\ DOMAIN r = 1..Len(r)
      /\ \A k \in 1..Len(r) : r[k] = s[k + j] /\ k + j \in 1..Len(s)
  BY DEF Rest
<1>2. ASSUME Whole(s) PROVE Whole(r)
  <2> SUFFICES ASSUME NEW k \in 1..Len(r)
               PROVE  /\ r[k][1] = "len" => k < Len(r) /\ r[k + 1][1] = "name"
                      /\ r[k][1] = "name" => k < Len(r) /\ r[k + 1][1] = "size"
    BY <1>1 DEF Whole
  <2>1. k + j \in DOMAIN s /\ r[k] = s[k + j] /\ k \in Nat
    BY <1>1
  <2>3. k < Len(r) => r[k + 1] = s[(k + j) + 1]
    <3>1. k < Len(r) => k + 1 \in 1..Len(r) /\ (k + 1) + j = (k + j) + 1
      BY <1>1, <2>1
    <3> QED
      BY <1>1, <3>1
  <2>4. k + j < Len(s) <=> k < Len(r)
    BY <1>1, <2>1
  <2> QED
    BY <1>2, <2>1, <2>3, <2>4 DEF Whole
<1>3. ASSUME Announced(s) PROVE Announced(r)
  <2> SUFFICES ASSUME NEW k \in 1..Len(r), r[k][1] = "file", k < Len(r)
               PROVE  r[k + 1][1] = "len"
    BY <1>1 DEF Announced
  <2>1. /\ k + j \in DOMAIN s /\ r[k] = s[k + j] /\ k + j < Len(s)
        /\ k + 1 \in 1..Len(r) /\ (k + 1) + j = (k + j) + 1
    BY <1>1
  <2>2. r[k + 1] = s[(k + j) + 1]
    BY <1>1, <2>1
  <2> QED
    BY <1>3, <2>1, <2>2 DEF Announced
<1>4. /\ r = << >> <=> j = Len(s)
      /\ j < Len(s) => r # << >> /\ r[1] = s[j + 1]
  <2>1. r = << >> <=> Len(r) = 0
    BY <1>1
  <2>2. j < Len(s) => 1 \in 1..Len(r) /\ 1 + j = j + 1
    BY <1>1
  <2> QED
    BY <1>1, <2>1, <2>2
<1>5. \A word : Ends(r, word) => Ends(s, word)
  <2> SUFFICES ASSUME r # << >> PROVE s # << >> /\ r[Len(r)] = s[Len(s)]
    BY DEF Ends
  <2>1. Len(r) \in 1..Len(r) /\ Len(r) + j = Len(s)
    BY <1>1, <1>4
  <2> QED
    BY <1>1, <2>1
<1>6. ASSUME Sized(s) PROVE Sized(r)
  <2> SUFFICES ASSUME NEW k \in 1..Len(r), r[k][1] = "size"
               PROVE  k + r[k][2] <= Len(r) /\ \A i \in 1..r[k][2] : r[k + i][1] = "chunk"
    BY <1>1 DEF Sized
  <2>1. k + j \in DOMAIN s /\ r[k] = s[k + j] /\ k \in Nat /\ s[k + j] \in Token
    BY <1>1
  <2> DEFINE size == s[k + j][2]
  <2>2. size \in Nat
    BY <2>1 DEF Token
  <2>3. (k + j) + size <= Len(s) /\ \A i \in 1..size : s[(k + j) + i][1] = "chunk"
    BY <1>6, <2>1 DEF Sized
  <2> HIDE DEF size
  <2>4. k + size <= Len(r)
    BY <1>1, <2>1, <2>2, <2>3
  <2>5. ASSUME NEW i \in 1..size PROVE r[k + i] = s[(k + j) + i]
    <3>1. k + i \in 1..Len(r) /\ (k + i) + j = (k + j) + i
      BY <1>1, <2>1, <2>2, <2>4
    <3> QED
      BY <1>1, <3>1
  <2> QED
    BY <2>1, <2>3, <2>4, <2>5 DEF size
<1>7. ASSUME NEW n \in Nat, j <= n, Chunks(s, n) PROVE Chunks(r, n - j)
  <2>1. n <= Len(s) /\ \A i \in 1..n : s[i][1] = "chunk"
    BY <1>7 DEF Chunks
  <2>2. n - j <= Len(r)
    BY <1>1, <1>7, <2>1
  <2>3. \A i \in 1..(n - j) : i \in 1..Len(r) /\ i + j \in 1..n
    BY <1>1, <1>7, <2>1
  <2> QED
    BY <1>1, <2>1, <2>2, <2>3 DEF Chunks
<1> QED
  BY <1>2, <1>3, <1>4, <1>5, <1>6, <1>7

\* One stream after another is one.
LEMMA Joined ==
  ASSUME NEW s \in Seq(Token), NEW t \in Seq(Token), Whole(s), Whole(t), t # << >>
  PROVE  /\ s \o t \in Seq(Token) /\ s \o t # << >> /\ Whole(s \o t)
         /\ Announced(s) /\ Announced(t) /\ (Ends(s, "file") => Begins(t, "len")) => Announced(s \o t)
         /\ Sized(s) /\ Sized(t) => Sized(s \o t)
         /\ \A n \in Nat : Chunks(s, n) => Chunks(s \o t, n)
         /\ \A word : Ends(s \o t, word) <=> Ends(t, word)
         /\ \A word : Begins(s, word) => Begins(s \o t, word)
         /\ s = << >> => \A word : Begins(s \o t, word) <=> Begins(t, word)
<1> DEFINE u == s \o t
           m == Len(s)
           n == Len(t)
<1>1. /\ u \in Seq(Token) /\ m \in Nat /\ n \in Nat \ {0} /\ Len(u) = m + n
      /\ DOMAIN s = 1..m /\ DOMAIN t = 1..n /\ DOMAIN u = 1..(m + n)
      /\ \A k \in 1..m : u[k] = s[k]
      /\ \A k \in 1..n : u[m + k] = t[k]
      /\ \A k \in 1..(m + n) : k \in 1..m \/ (k - m \in 1..n /\ k = m + (k - m))
      /\ s # << >> <=> m > 0
  <2>1. u \in Seq(Token) /\ m \in Nat /\ n \in Nat \ {0} /\ Len(u) = m + n
    OBVIOUS
  <2>2. /\ DOMAIN s = 1..m /\ DOMAIN t = 1..n /\ DOMAIN u = 1..(m + n)
        /\ \A k \in 1..m : u[k] = s[k]
    OBVIOUS
  <2>3. \A k \in 1..n : u[m + k] = t[k]
    OBVIOUS
  <2>4. \A k \in 1..(m + n) : k \in 1..m \/ (k - m \in 1..n /\ k = m + (k - m))
    BY <2>1
  <2> QED
    BY <2>1, <2>2, <2>3, <2>4
<1> HIDE DEF u, m, n
<1>2. Whole(u)
  <2> SUFFICES ASSUME NEW k \in 1..(m + n)
               PROVE  /\ u[k][1] = "len" => k < m + n /\ u[k + 1][1] = "name"
                      /\ u[k][1] = "name" => k < m + n /\ u[k + 1][1] = "size"
    BY <1>1 DEF Whole
  <2>1. CASE k \in 1..m
    <3>1. u[k] = s[k] /\ k \in DOMAIN s /\ k \in Nat
      BY <1>1, <2>1
    <3>3. k < m => k + 1 \in 1..m /\ u[k + 1] = s[k + 1] /\ k < m + n
      BY <1>1, <3>1
    <3>5. Len(s) = m
      BY DEF m
    <3> QED
      BY <3>1, <3>3, <3>5 DEF Whole
  <2>2. ASSUME NEW i \in 1..n, k = m + i
        PROVE  /\ u[k][1] = "len" => k < m + n /\ u[k + 1][1] = "name"
               /\ u[k][1] = "name" => k < m + n /\ u[k + 1][1] = "size"
    <3>1. u[k] = t[i] /\ i \in DOMAIN t /\ i \in Nat /\ Len(t) = n
      BY <1>1, <2>2 DEF n
    <3>3. i < n => i + 1 \in 1..n /\ k + 1 = m + (i + 1) /\ k < m + n
      BY <1>1, <2>2, <3>1
    <3>4. i < n => u[k + 1] = t[i + 1]
      <4>1. \A j \in 1..n : k + 1 = m + j => u[k + 1] = t[j]
        BY <1>1
      <4> QED
        BY <3>3, <4>1
    <3> QED
      BY <3>1, <3>3, <3>4 DEF Whole
  <2> QED
    BY <1>1, <2>1, <2>2
<1>3. ASSUME Announced(s), Announced(t), Ends(s, "file") => Begins(t, "len")
      PROVE  Announced(u)
  <2> SUFFICES ASSUME NEW k \in 1..(m + n), u[k][1] = "file", k < m + n
               PROVE  u[k + 1][1] = "len"
    BY <1>1 DEF Announced
  <2>1. CASE k \in 1..m /\ k < m
    <3>1. u[k] = s[k] /\ k \in DOMAIN s /\ k + 1 \in 1..m /\ u[k + 1] = s[k + 1] /\ Len(s) = m
      BY <1>1, <2>1 DEF m
    <3> QED
      BY <1>3, <2>1, <3>1 DEF Announced
  <2>2. CASE k = m
    <3>1. s # << >> /\ s[Len(s)] = u[k] /\ 1 \in 1..n /\ u[k + 1] = t[1]
      BY <1>1, <2>2 DEF m
    <3> QED
      BY <1>3, <3>1 DEF Ends, Begins
  <2>3. ASSUME NEW i \in 1..n, k = m + i
        PROVE  u[k + 1][1] = "len"
    <3>1. /\ u[k] = t[i] /\ i \in DOMAIN t /\ i < n /\ i + 1 \in 1..n /\ k + 1 = m + (i + 1)
          /\ Len(t) = n
      BY <1>1, <2>3 DEF n
    <3>2. u[k + 1] = t[i + 1]
      <4>1. \A j \in 1..n : k + 1 = m + j => u[k + 1] = t[j]
        BY <1>1
      <4> QED
        BY <3>1, <4>1
    <3> QED
      BY <1>3, <3>1, <3>2 DEF Announced
  <2> QED
    BY <1>1, <2>1, <2>2, <2>3
<1>4. \A word : Ends(u, word) <=> Ends(t, word)
  <2>1. u # << >> /\ Len(u) = m + n /\ n \in 1..n /\ u[m + n] = t[n] /\ Len(t) = n
    BY <1>1 DEF n
  <2> QED
    BY <2>1 DEF Ends
<1>5. /\ \A word : Begins(s, word) => Begins(u, word)
      /\ s = << >> => \A word : Begins(u, word) <=> Begins(t, word)
  <2>1. u # << >> /\ (s # << >> => 1 \in 1..m /\ u[1] = s[1])
    BY <1>1
  <2>2. s = << >> => m = 0 /\ 1 \in 1..n /\ m + 1 = 1
    BY <1>1
  <2>3. s = << >> => u[1] = t[1]
    BY <1>1, <2>2
  <2> QED
    BY <2>1, <2>3 DEF Begins
<1>6. ASSUME Sized(s), Sized(t) PROVE Sized(u)
  <2> SUFFICES ASSUME NEW k \in 1..(m + n), u[k][1] = "size"
               PROVE  k + u[k][2] <= m + n /\ \A i \in 1..u[k][2] : u[k + i][1] = "chunk"
    BY <1>1 DEF Sized
  <2> DEFINE size == u[k][2]
  <2>0. size \in Nat
    BY <1>1 DEF Token
  <2>1. CASE k \in 1..m
    <3>1. u[k] = s[k] /\ k \in DOMAIN s /\ k \in Nat /\ Len(s) = m
      BY <1>1, <2>1 DEF m
    <3>2. k + size <= m /\ \A i \in 1..size : s[k + i][1] = "chunk"
      BY <1>6, <3>1 DEF Sized
    <3> HIDE DEF size
    <3>3. k + size <= m + n /\ \A i \in 1..size : k + i \in 1..m
      BY <1>1, <2>0, <3>1, <3>2
    <3>4. \A i \in 1..size : u[k + i][1] = "chunk"
      BY <1>1, <3>2, <3>3
    <3> QED
      BY <3>3, <3>4 DEF size
  <2>2. ASSUME NEW j \in 1..n, k = m + j
        PROVE  k + size <= m + n /\ \A i \in 1..size : u[k + i][1] = "chunk"
    <3>1. u[k] = t[j] /\ j \in DOMAIN t /\ j \in Nat /\ Len(t) = n
      BY <1>1, <2>2 DEF n
    <3>2. j + size <= n /\ \A i \in 1..size : t[j + i][1] = "chunk"
      BY <1>6, <3>1 DEF Sized
    <3> HIDE DEF size
    <3>3. k + size <= m + n /\ \A i \in 1..size : j + i \in 1..n /\ k + i = m + (j + i)
      BY <1>1, <2>0, <2>2, <3>1, <3>2
    <3>4. ASSUME NEW i \in 1..size PROVE u[k + i] = t[j + i]
      <4>1. \A p \in 1..n : k + i = m + p => u[k + i] = t[p]
        BY <1>1
      <4> QED
        BY <3>3, <4>1
    <3> QED
      BY <3>2, <3>3, <3>4
  <2> QED
    BY <1>1, <2>1, <2>2
<1>7. ASSUME NEW i \in Nat, Chunks(s, i) PROVE Chunks(u, i)
  <2>1. i <= m /\ \A p \in 1..i : s[p][1] = "chunk"
    BY <1>7 DEF Chunks, m
  <2>2. i <= m + n /\ \A p \in 1..i : p \in 1..m
    BY <1>1, <2>1
  <2> QED
    BY <1>1, <2>1, <2>2 DEF Chunks
<1>8. u # << >>
  BY <1>1
<1> QED
  BY <1>1, <1>2, <1>3, <1>4, <1>5, <1>6, <1>7, <1>8 DEF u

-----------------------------------------------------------------------------
(* A process serves its connection.                                        *)

\* What a step of the process of c does.
Served(c) ==
  /\ child' \in [Conns -> Places] /\ left' \in [Conns -> Nat] /\ up' \in [Conns -> Seq(Token)]
  /\ replies' \in [Conns -> Nat] /\ peer' \in [Conns -> {"open", "fin", "broken", "reset"}]
  /\ \A d \in Conns \ {c} : /\ child'[d] = child[d] /\ left'[d] = left[d] /\ up'[d] = up[d]
                           /\ replies'[d] = replies[d] /\ peer'[d] = peer[d]
  /\ child[c] \notin Dead /\ child'[c] # "none" /\ (child'[c] = "gone" <=> child[c] = "store")
  /\ UNCHANGED <<user, parentVars>> /\ astray' \in {astray, astray \union {c}}
  /\ UpAt(c)' /\ PartAt(c)' /\ TurnAt(c)'

\* A reply is written, or the process leaves or is killed.
LEMMA Replied ==
  ASSUME Types, NEW c \in Conns, NEW place \in Places, TurnAt(c), Reply(c, place)
  PROVE  /\ replies' \in [Conns -> Nat] /\ peer' \in [Conns -> {"open", "fin", "broken", "reset"}]
         /\ \A d \in Conns \ {c} : replies'[d] = replies[d] /\ peer'[d] = peer[d]
         /\ peer'[c] # "open" => peer[c] # "open"
         /\ \/ child' = [child EXCEPT ![c] = place] /\ (replies'[c] > 0 \/ user[c] = "closed")
            \/ child' = [child EXCEPT ![c] = "leave"]
            \/ child' = [child EXCEPT ![c] = "killed"]
<1>1. /\ replies \in [Conns -> Nat] /\ peer \in [Conns -> {"open", "fin", "broken", "reset"}]
      /\ peer[c] # "open" => user[c] = "closed"
  BY DEF Types, TurnAt
<1>2. replies' \in [Conns -> Nat] /\ \A d \in Conns \ {c} : replies'[d] = replies[d]
  BY <1>1 DEF Reply
<1>3. /\ peer' \in [Conns -> {"open", "fin", "broken", "reset"}]
      /\ \A d \in Conns \ {c} : peer'[d] = peer[d]
      /\ peer'[c] # "open" => peer[c] # "open"
  BY <1>1 DEF Reply
<1>4. peer[c] = "open" => replies' = [replies EXCEPT ![c] = @ + 1] /\ child' = [child EXCEPT ![c] = place]
  BY DEF Reply
<1>5. peer[c] = "open" => replies'[c] > 0
  BY <1>1, <1>4
<1>6. \/ child' = [child EXCEPT ![c] = place]
      \/ child' = [child EXCEPT ![c] = "leave"] /\ peer[c] # "open"
      \/ child' = [child EXCEPT ![c] = "killed"] /\ peer[c] # "open"
  BY DEF Reply
<1> QED
  BY <1>1, <1>2, <1>3, <1>5, <1>6

\* After a reply the process goes on reading lines, and owes nothing.
LEMMA RepliedServes ==
  ASSUME Types, NEW c \in Conns, NEW place \in {"op", "first", "second", "menu"}, TurnAt(c),
         child[c] \notin Dead \union {"store"}, Reply(c, place), UpAt(c)',
         up' \in [Conns -> Seq(Token)], \A d \in Conns \ {c} : up'[d] = up[d],
         UNCHANGED <<left, user, astray, parentVars>>
  PROVE  Served(c)
<1>1. /\ replies' \in [Conns -> Nat] /\ peer' \in [Conns -> {"open", "fin", "broken", "reset"}]
      /\ \A d \in Conns \ {c} : replies'[d] = replies[d] /\ peer'[d] = peer[d]
      /\ peer'[c] # "open" => peer[c] # "open"
      /\ \/ child' = [child EXCEPT ![c] = place] /\ (replies'[c] > 0 \/ user[c] = "closed")
         \/ child' = [child EXCEPT ![c] = "leave"]
         \/ child' = [child EXCEPT ![c] = "killed"]
  BY Replied DEF Places, Reading
<1>2. /\ child \in [Conns -> Places] /\ left \in [Conns -> Nat]
      /\ {"op", "first", "second", "menu", "leave", "killed"} \subseteq Places
  BY DEF Types, Places, Dead, Reading
<1>3. PICK x \in {"op", "first", "second", "menu", "leave", "killed"} :
        /\ child' = [child EXCEPT ![c] = x]
        /\ replies'[c] > 0 \/ user[c] = "closed" \/ x \in {"leave", "killed"}
  BY <1>1
<1>4. /\ child' \in [Conns -> Places] /\ child'[c] = x
      /\ \A d \in Conns \ {c} : child'[d] = child[d]
  BY <1>2, <1>3
<1>5. PartAt(c)'
  BY <1>4 DEF PartAt
<1>6. TurnAt(c)'
  <2>1. user[c] # "off" /\ (peer[c] # "open" => user[c] = "closed")
    BY DEF TurnAt, Dead
  <2>2. replies'[c] \in Nat
    BY <1>1
  <2> QED
    BY <1>1, <1>3, <1>4, <2>1, <2>2 DEF TurnAt, Reading
<1> QED
  BY <1>1, <1>2, <1>4, <1>5, <1>6 DEF Served

\* The process goes on without a reply.
LEMMA QuietServes ==
  ASSUME Types, NEW c \in Conns, NEW x \in Places, x \notin {"none", "op", "first", "second"},
         x = "gone" <=> child[c] = "store", TurnAt(c),
         child[c] \notin Dead, child' = [child EXCEPT ![c] = x], UpAt(c)', PartAt(c)',
         up' \in [Conns -> Seq(Token)], \A d \in Conns \ {c} : up'[d] = up[d],
         left' \in [Conns -> Nat], \A d \in Conns \ {c} : left'[d] = left[d],
         UNCHANGED <<user, peer, replies, parentVars>>, astray' \in {astray, astray \union {c}}
  PROVE  Served(c)
<1>1. /\ child' \in [Conns -> Places] /\ child'[c] = x
      /\ \A d \in Conns \ {c} : child'[d] = child[d]
  BY DEF Types
<1>2. TurnAt(c)'
  <2>1. user[c] # "off" /\ (peer[c] # "open" => user[c] = "closed")
    BY DEF TurnAt, Dead
  <2>2. x \in {"name", "size"} => up'[c] # << >>
    BY <1>1 DEF PartAt, Begins
  <2>3. x = "data" /\ up'[c] = << >> => left'[c] = 0 \/ c \in astray'
    BY <1>1 DEF PartAt, Chunks
  <2> QED
    BY <1>1, <2>1, <2>2, <2>3 DEF TurnAt, Reading
<1> QED
  BY <1>1, <1>2 DEF Served, Types

\* Tokens are taken from the stream.
LEMMA Takers ==
  ASSUME Types, NEW c \in Conns, NEW j \in 1..Len(up[c]), NEW r, Rest(r, up[c], j),
         UpAt(c), up' = [up EXCEPT ![c] = r], UNCHANGED user, astray' \in {astray, astray \union {c}}
  PROVE  /\ up' \in [Conns -> Seq(Token)] /\ up'[c] = r /\ \A d \in Conns \ {c} : up'[d] = up[d]
         /\ UpAt(c)'
<1>1. up \in [Conns -> Seq(Token)] /\ r \in Seq(Token)
  BY DEF Types, Rest
<1>2. /\ up' \in [Conns -> Seq(Token)] /\ up'[c] = r /\ \A d \in Conns \ {c} : up'[d] = up[d]
  BY <1>1
<1>3. /\ Whole(up[c]) => Whole(r)
      /\ Announced(up[c]) => Announced(r)
      /\ Sized(up[c]) => Sized(r)
      /\ \A word : Ends(r, word) => Ends(up[c], word)
  BY <1>1, RestIsStream
<1>4. UpAt(c)'
  BY <1>2, <1>3 DEF UpAt
<1> QED
  BY <1>2, <1>4

\* Every step of a process is such a step (tcp_server.c:40-149, 205-215).
LEMMA Serves ==
  ASSUME Types, NEW c \in Conns, UpAt(c), PartAt(c), TurnAt(c), ChildStep(c)
  PROVE  Served(c)
<1>0. /\ child \in [Conns -> Places] /\ left \in [Conns -> Nat] /\ up \in [Conns -> Seq(Token)]
      /\ up[c] \in Seq(Token) /\ Len(up[c]) \in Nat /\ left[c] \in Nat
      /\ Dead \union Reading \union {"menu", "lost", "leave", "store"} \subseteq Places
  BY DEF Types, Places
<1>1. ASSUME NEW k \in 1..Len(up[c]), Takes(c, k), UNCHANGED user, astray' \in {astray, astray \union {c}}
      PROVE  /\ up' \in [Conns -> Seq(Token)] /\ \A d \in Conns \ {c} : up'[d] = up[d]
             /\ UpAt(c)' /\ Rest(up'[c], up[c], k)
  <2>1. Rest(SubSeq(up[c], k + 1, Len(up[c])), up[c], k)
    BY <1>0, Taken
  <2>2. up' = [up EXCEPT ![c] = SubSeq(up[c], k + 1, Len(up[c]))]
    BY <1>1 DEF Takes
  <2> QED
    BY <1>1, <2>1, <2>2, Takers
\* The same when the first token is taken.
<1>2. ASSUME up[c] # << >>, up' = [up EXCEPT ![c] = Tail(@)], UNCHANGED <<user, astray>>
      PROVE  /\ up' \in [Conns -> Seq(Token)] /\ \A d \in Conns \ {c} : up'[d] = up[d]
             /\ UpAt(c)' /\ Rest(up'[c], up[c], 1) /\ 1 \in 1..Len(up[c])
             /\ Head(up[c]) = up[c][1] /\ up[c][1] \in Token
  <2>1. /\ Rest(Tail(up[c]), up[c], 1) /\ 1 \in 1..Len(up[c])
        /\ Head(up[c]) = up[c][1] /\ up[c][1] \in Token
    BY <1>0, <1>2, TailTaken
  <2> QED
    BY <1>2, <2>1, Takers
<1>3. child[c] \in Reading \union {"menu"} => child[c] \notin Dead \union {"store"}
  BY DEF Reading, Dead
<1>4. CASE Menu(c)
  <2>1. Reply(c, "op") /\ UNCHANGED <<up, left, user, astray, parentVars>> /\ child[c] = "menu"
    BY <1>4 DEF Menu, clientVars
  <2>2. UpAt(c)'
    BY <2>1 DEF UpAt
  <2> QED
    BY <1>0, <1>3, <2>1, <2>2, RepliedServes
<1>5. CASE ReadOp(c)
  <2>0. PICK k \in 1..Len(up[c]) : \E line \in Said(c, k) :
          /\ Takes(c, k)
          /\ \/ child' = [child EXCEPT ![c] = "leave"] /\ UNCHANGED <<peer, replies, astray>>
             \/ /\ line = "file" /\ child' = [child EXCEPT ![c] = "len"] /\ UNCHANGED <<peer, replies>>
                /\ astray' = IF Head(up[c])[1] \in Parts THEN astray \union {c} ELSE astray
             \/ Reply(c, "first") /\ UNCHANGED astray
    BY <1>5 DEF ReadOp
  <2>1. PICK line \in Said(c, k) :
          /\ Takes(c, k)
          /\ \/ child' = [child EXCEPT ![c] = "leave"] /\ UNCHANGED <<peer, replies, astray>>
             \/ /\ line = "file" /\ child' = [child EXCEPT ![c] = "len"] /\ UNCHANGED <<peer, replies>>
                /\ astray' = IF Head(up[c])[1] \in Parts THEN astray \union {c} ELSE astray
             \/ Reply(c, "first") /\ UNCHANGED astray
    BY <2>0
  <2>2. child[c] = "op" /\ UNCHANGED <<parentVars, left, user>> /\ astray' \in {astray, astray \union {c}}
    BY <1>5, <2>1 DEF ReadOp
  <2>3. /\ up' \in [Conns -> Seq(Token)] /\ \A d \in Conns \ {c} : up'[d] = up[d]
        /\ UpAt(c)' /\ Rest(up'[c], up[c], k)
    BY <1>1, <2>1, <2>2
  <2>4. CASE child' = [child EXCEPT ![c] = "leave"] /\ UNCHANGED <<peer, replies>>
    <3>1. PartAt(c)'
      BY <1>0, <2>4 DEF PartAt
    <3> QED
      BY <1>0, <2>2, <2>3, <2>4, <3>1, QuietServes DEF Dead
  <2>5. CASE /\ line = "file" /\ child' = [child EXCEPT ![c] = "len"] /\ UNCHANGED <<peer, replies>>
             /\ astray' = IF Head(up[c])[1] \in Parts THEN astray \union {c} ELSE astray
    <3>1. child'[c] = "len"
      BY <1>0, <2>5
    <3>2. c \notin astray' =>
            (up'[c] = << >> /\ user'[c] \in {"name", "closed"}) \/ Begins(up'[c], "len")
      <4> SUFFICES ASSUME c \notin astray'
                   PROVE  \/ up'[c] = << >> /\ user'[c] \in {"name", "closed"}
                          \/ Begins(up'[c], "len")
        OBVIOUS
      <4>1. k = 1 /\ Head(up[c])[1] = "file" /\ c \notin astray
        BY <2>5 DEF Said
      <4>2. up[c] # << >> /\ Head(up[c]) = up[c][1] /\ 1 \in 1..Len(up[c]) /\ 1 \in DOMAIN up[c]
        BY <1>0, <4>1
      <4>3. Rest(up'[c], up[c], 1)
        BY <2>3, <4>1
      <4>4. /\ up'[c] = << >> <=> 1 = Len(up[c])
            /\ 1 < Len(up[c]) => up'[c] # << >> /\ up'[c][1] = up[c][1 + 1]
        BY <1>0, <4>2, <4>3, RestIsStream
      <4>5. user' = user /\ up[c][1][1] = "file"
        BY <2>2, <4>1, <4>2
      <4>6. 1 = Len(up[c]) => user[c] \in {"name", "closed"}
        BY <4>1, <4>2, <4>5 DEF UpAt, Ends
      <4>7. 1 < Len(up[c]) => up[c][1 + 1][1] = "len"
        BY <4>1, <4>2, <4>5 DEF UpAt, Announced
      <4>8. 1 = Len(up[c]) \/ 1 < Len(up[c])
        <5>1. \A n \in Nat : 1 \in 1..n => 1 = n \/ 1 < n
          OBVIOUS
        <5> QED
          BY <1>0, <4>2, <5>1
      <4> QED
        BY <4>4, <4>5, <4>6, <4>7, <4>8 DEF Begins
    <3>3. PartAt(c)'
      BY <3>1, <3>2 DEF PartAt
    <3> QED
      BY <1>0, <2>2, <2>3, <2>5, <3>3, QuietServes DEF Dead, Reading
  <2>6. CASE Reply(c, "first") /\ UNCHANGED astray
    BY <1>3, <2>2, <2>3, <2>6, RepliedServes DEF Reading
  <2> QED
    BY <2>1, <2>4, <2>5, <2>6
<1>6. CASE ReadFirst(c) \/ ReadSecond(c)
  <2>1. PICK k \in 1..Len(up[c]) : Takes(c, k)
    BY <1>6 DEF ReadFirst, ReadSecond
  <2>2. child[c] \in {"first", "second"} /\ UNCHANGED <<parentVars, left, user, astray>>
    BY <1>6 DEF ReadFirst, ReadSecond, clientVars
  <2>3. /\ up' \in [Conns -> Seq(Token)] /\ \A d \in Conns \ {c} : up'[d] = up[d]
        /\ UpAt(c)'
    BY <1>1, <2>1, <2>2
  <2>4. CASE Reply(c, "second") \/ Reply(c, "menu")
    BY <1>3, <2>2, <2>3, <2>4, RepliedServes DEF Reading
  <2>5. CASE child' = [child EXCEPT ![c] = "killed"] /\ UNCHANGED <<peer, replies>>
    <3>1. PartAt(c)'
      BY <1>0, <2>5 DEF PartAt
    <3> QED
      BY <1>0, <2>2, <2>3, <2>5, <3>1, QuietServes DEF Dead
  <2> QED
    BY <1>6, <2>4, <2>5 DEF ReadFirst, ReadSecond
<1>7. CASE ReceiveFile(c)
  <2>0. UNCHANGED <<parentVars, replies, peer, user, astray>>
    BY <1>7 DEF ReceiveFile, clientVars
  <2>1. ASSUME NEW part \in {"len", "name", "size"}, NEW place \in {"name", "size", "data", "menu"},
               ReadPart(c, part, place), left' \in [Conns -> Nat],
               \A d \in Conns \ {c} : left'[d] = left[d],
               place = "name" => part = "len", place = "size" => part = "name",
               place = "data" => part = "size" /\ left'[c] = Head(up[c])[2]
        PROVE  Served(c)
    <3>1. child[c] = part /\ up[c] # << >> /\ up' = [up EXCEPT ![c] = Tail(@)]
      BY <2>1 DEF ReadPart
    <3>2. /\ up' \in [Conns -> Seq(Token)] /\ \A d \in Conns \ {c} : up'[d] = up[d]
          /\ UpAt(c)' /\ Rest(up'[c], up[c], 1) /\ 1 \in 1..Len(up[c])
          /\ Head(up[c]) = up[c][1] /\ up[c][1] \in Token
      BY <1>2, <2>0, <3>1
    <3>3. /\ up'[c] = << >> <=> 1 = Len(up[c])
          /\ 1 < Len(up[c]) => up'[c] # << >> /\ up'[c][1] = up[c][1 + 1]
          /\ Len(up'[c]) = Len(up[c]) - 1
      BY <1>0, <3>2, RestIsStream DEF Rest
    <3>4. CASE up[c][1][1] = part
      <4>1. child' = [child EXCEPT ![c] = place]
        BY <2>1, <3>2, <3>4 DEF ReadPart
      <4>2. /\ part = "len" => 1 < Len(up[c]) /\ up[c][1 + 1][1] = "name"
            /\ part = "name" => 1 < Len(up[c]) /\ up[c][1 + 1][1] = "size"
        <5>1. 1 \in DOMAIN up[c]
          BY <1>0, <3>2
        <5>2. /\ up[c][1][1] = "len" => 1 < Len(up[c]) /\ up[c][1 + 1][1] = "name"
              /\ up[c][1][1] = "name" => 1 < Len(up[c]) /\ up[c][1 + 1][1] = "size"
          BY <5>1 DEF UpAt, Whole
        <5> QED
          BY <3>4, <5>2
      <4>3. ASSUME place = "data", c \notin astray PROVE Chunks(up'[c], left'[c])
        <5> DEFINE size == up[c][1][2]
        <5>1. size \in Nat /\ left'[c] = size
          BY <2>1, <3>2, <4>3 DEF Token
        <5>2. 1 + size <= Len(up[c]) /\ \A i \in 1..size : up[c][1 + i][1] = "chunk"
          BY <1>0, <2>1, <3>2, <3>4, <4>3 DEF UpAt, Sized
        <5> HIDE DEF size
        <5>3. size <= Len(up'[c]) /\ \A i \in 1..size : i \in 1..Len(up'[c]) /\ i + 1 = 1 + i
          BY <1>0, <3>3, <5>1, <5>2
        <5>4. \A i \in 1..size : up'[c][i] = up[c][1 + i]
          BY <3>2, <5>3 DEF Rest
        <5> QED
          BY <5>1, <5>2, <5>3, <5>4 DEF Chunks
      <4>5. PartAt(c)'
        BY <1>0, <2>0, <2>1, <3>3, <4>1, <4>2, <4>3 DEF PartAt, Begins
      <4> QED
        BY <1>0, <2>0, <2>1, <3>1, <3>2, <4>1, <4>5, QuietServes DEF Dead, Reading
    <3>5. CASE up[c][1][1] # part
      <4>1. child' = [child EXCEPT ![c] = "lost"]
        BY <2>1, <3>2, <3>5 DEF ReadPart
      <4>2. c \in astray
        BY <2>1, <3>1, <3>5 DEF PartAt, Begins
      <4>3. PartAt(c)'
        BY <1>0, <2>0, <4>1, <4>2 DEF PartAt
      <4> QED
        BY <1>0, <2>0, <2>1, <3>1, <3>2, <4>1, <4>3, QuietServes DEF Dead
    <3> QED
      BY <3>4, <3>5
  <2>2. CASE ReadLen(c) \/ ReadName(c)
    BY <1>0, <2>1, <2>2 DEF ReadLen, ReadName
  <2>3. CASE ReadSize(c)
    <3>1. CASE ReadPart(c, "size", "menu") /\ UNCHANGED left
      BY <1>0, <2>1, <3>1
    <3>2. CASE ReadPart(c, "size", "data") /\ left' = [left EXCEPT ![c] = Head(up[c])[2]]
      <4>1. Head(up[c])[2] \in Nat
        BY <1>0, <3>2, TailTaken DEF ReadPart, Token
      <4>2. /\ left' \in [Conns -> Nat] /\ left'[c] = Head(up[c])[2]
            /\ \A d \in Conns \ {c} : left'[d] = left[d]
        BY <1>0, <3>2, <4>1
      <4> QED
        BY <2>1, <3>2, <4>2
    <3> QED
      BY <2>3, <3>1, <3>2 DEF ReadSize
  <2>4. CASE ReadData(c)
    <3> DEFINE m(k) == IF k < left[c] THEN k ELSE left[c]
    <3>1. PICK k \in 1..Len(up[c]) :
            /\ Takes(c, k)
            /\ \/ /\ \E n \in 0..left[c] :
                        /\ (\A i \in 1..m(k) : up[c][i][1] = "chunk") => n = left[c] - m(k)
                        /\ left' = [left EXCEPT ![c] = n]
                  /\ UNCHANGED child
               \/ left' = [left EXCEPT ![c] = 0] /\ child' = [child EXCEPT ![c] = "menu"]
      BY <2>4 DEF ReadData
    <3>2. child[c] = "data" /\ left[c] > 0
      BY <2>4 DEF ReadData
    <3>3. /\ up' \in [Conns -> Seq(Token)] /\ \A d \in Conns \ {c} : up'[d] = up[d]
          /\ UpAt(c)' /\ Rest(up'[c], up[c], k)
      BY <1>1, <2>0, <3>1
    <3>4. ASSUME NEW n \in 0..left[c], UNCHANGED child, left' = [left EXCEPT ![c] = n],
                 (\A i \in 1..m(k) : up[c][i][1] = "chunk") => n = left[c] - m(k)
          PROVE  Served(c)
      <4>1. /\ left' \in [Conns -> Nat] /\ left'[c] = n
            /\ \A d \in Conns \ {c} : left'[d] = left[d]
        BY <1>0, <3>4
      <4>2. child' = [child EXCEPT ![c] = "data"] /\ child'[c] = "data"
        BY <1>0, <3>2, <3>4
      <4>3. ASSUME c \notin astray PROVE Chunks(up'[c], n)
        <5>1. Chunks(up[c], left[c])
          BY <3>2, <4>3 DEF PartAt
        <5>2. k \in Nat /\ m(k) \in 0..left[c]
          BY <1>0
        <5>3. n = left[c] - m(k)
          BY <1>0, <3>4, <5>1, <5>2 DEF Chunks
        <5>4. CASE k <= left[c]
          <6>1. n = left[c] - k
            BY <1>0, <5>2, <5>3, <5>4
          <6>2. \A i \in Nat : k <= i /\ Chunks(up[c], i) => Chunks(up'[c], i - k)
            BY <1>0, <3>3, RestIsStream
          <6> QED
            BY <1>0, <5>1, <5>4, <6>1, <6>2
        <5>5. CASE ~(k <= left[c])
          <6>1. n = 0
            BY <1>0, <5>2, <5>3, <5>5
          <6> QED
            BY <3>3, <6>1 DEF Chunks, Rest
        <5> QED
          BY <5>4, <5>5
      <4>4. PartAt(c)'
        BY <2>0, <4>1, <4>2, <4>3 DEF PartAt
      <4> QED
        BY <1>0, <2>0, <3>2, <3>3, <4>1, <4>2, <4>4, QuietServes DEF Dead, Reading
    <3>5. CASE left' = [left EXCEPT ![c] = 0] /\ child' = [child EXCEPT ![c] = "menu"]
      <4>1. left' \in [Conns -> Nat] /\ \A d \in Conns \ {c} : left'[d] = left[d]
        BY <1>0, <3>5
      <4>2. PartAt(c)'
        BY <1>0, <3>5 DEF PartAt
      <4> QED
        BY <1>0, <2>0, <3>2, <3>3, <3>5, <4>1, <4>2, QuietServes DEF Dead
    <3> QED
      BY <3>1, <3>4, <3>5
  <2>5. CASE FileDone(c) \/ LostEnds(c)
    <3>1. PICK x \in {"menu", "killed", "leave"} : child' = [child EXCEPT ![c] = x]
      BY <2>5 DEF FileDone, LostEnds
    <3>2. child[c] \in {"data", "lost"} /\ UNCHANGED <<left, up>>
      BY <2>5 DEF FileDone, LostEnds
    <3>3. UpAt(c)' /\ PartAt(c)'
      BY <1>0, <2>0, <3>1, <3>2 DEF UpAt, PartAt
    <3> QED
      BY <1>0, <2>0, <3>1, <3>2, <3>3, QuietServes DEF Dead
  <2> QED
    BY <1>7, <2>2, <2>3, <2>4, <2>5 DEF ReceiveFile
<1>8. CASE ReadEnds(c)
  <2>1. /\ child[c] \in Reading /\ UNCHANGED <<parentVars, up, replies, peer, user, astray>>
        /\ left' = [left EXCEPT ![c] = 0]
    BY <1>8 DEF ReadEnds, clientVars, Reading
  <2>2. PICK x \in {"menu", "leave"} : child' = [child EXCEPT ![c] = x]
    BY <1>8 DEF ReadEnds
  <2>3. /\ left' \in [Conns -> Nat] /\ \A d \in Conns \ {c} : left'[d] = left[d]
        /\ UpAt(c)' /\ PartAt(c)'
    BY <1>0, <2>1, <2>2 DEF UpAt, PartAt
  <2> QED
    BY <1>0, <2>1, <2>2, <2>3, QuietServes DEF Dead, Reading
<1>9. CASE ChildLoad(c)
  <2>1. /\ child[c] = "leave" /\ child' = [child EXCEPT ![c] = "store"]
        /\ up' = [up EXCEPT ![c] = << >>]
        /\ UNCHANGED <<parentVars, left, replies, peer, user, astray>>
    BY <1>9 DEF ChildLoad, clientVars
  <2>2. /\ << >> \in Seq(Token) /\ Whole(<< >>) /\ Announced(<< >>) /\ Sized(<< >>)
        /\ ~Ends(<< >>, "file")
    BY DEF Whole, Announced, Sized, Ends
  <2>3. /\ up' \in [Conns -> Seq(Token)] /\ up'[c] = << >> /\ child'[c] = "store"
        /\ \A d \in Conns \ {c} : up'[d] = up[d]
    BY <1>0, <2>1, <2>2
  <2>4. UpAt(c)' /\ PartAt(c)'
    BY <2>2, <2>3 DEF UpAt, PartAt
  <2> QED
    BY <1>0, <2>1, <2>3, <2>4, QuietServes DEF Dead
<1>10. CASE ChildStore(c)
  <2>1. /\ child[c] = "store" /\ child' = [child EXCEPT ![c] = "gone"]
        /\ UNCHANGED <<parentVars, up, left, replies, peer, user, astray>>
    BY <1>10 DEF ChildStore, dialogue, clientVars
  <2>2. UpAt(c)' /\ PartAt(c)'
    BY <1>0, <2>1 DEF UpAt, PartAt
  <2> QED
    BY <1>0, <2>1, <2>2, QuietServes DEF Dead
<1> QED
  BY <1>4, <1>5, <1>6, <1>7, <1>8, <1>9, <1>10 DEF ChildStep

-----------------------------------------------------------------------------
(* The steps of the server.                                                *)

\* At first nobody is there.
LEMMA InitIInv ==
  ASSUME Init PROVE IInv
<1>1. Types
  <2>1. << >> \in Seq(Token) /\ << >> \in Seq(Conns)
    OBVIOUS
  <2> QED
    <3>1. /\ ppc \in {"accept", "load", "store", "fork", "stopped"}
          /\ newsock \in Conns \union {NoConn} /\ delta \in {-1, 0, 1} /\ nclients \in Int
      BY DEF Init
    <3>5. loaded \in [Conns \union {Parent} -> Int]
      BY DEF Init
    <3>6. raced \in BOOLEAN
      BY DEF Init
    <3>2. child \in [Conns -> Places] /\ left \in [Conns -> Nat]
      BY DEF Init, Places, Dead
    <3>3. /\ up \in [Conns -> Seq(Token)] /\ replies \in [Conns -> Nat]
          /\ backlog \in Seq(Conns) /\ astray \subseteq Conns
      BY <2>1 DEF Init
    <3>4. /\ user \in [Conns -> {"off", "recv", "type", "name", "closed"}]
          /\ peer \in [Conns -> {"open", "fin", "broken", "reset"}]
      BY DEF Init
    <3> QED
      BY <3>1, <3>2, <3>3, <3>4, <3>5, <3>6 DEF Types
<1>2. PlacesInv
  BY DEF Init, PlacesInv, Running
<1>3. CountInv
  <2>1. Counted = {}
    BY DEF Init, Counted
  <2> QED
    BY <2>1, FS_EmptySet DEF Init, CountInv, Running
<1>4. DialogInv
  BY DEF Init, DialogInv, UpAt, PartAt, TurnAt, Whole, Announced, Sized, Ends
<1> QED
  BY <1>1, <1>2, <1>3, <1>4 DEF IInv

\* A connection about which nothing changes.
Untouched(d) ==
  /\ child'[d] = child[d] /\ left'[d] = left[d] /\ up'[d] = up[d] /\ replies'[d] = replies[d]
  /\ peer'[d] = peer[d] /\ user'[d] = user[d] /\ (d \in astray' <=> d \in astray)

\* Of such a connection the dialogue is as before.
LEMMA UntouchedStays ==
  ASSUME NEW d, Untouched(d), UpAt(d), PartAt(d), TurnAt(d)
  PROVE  UpAt(d)' /\ PartAt(d)' /\ TurnAt(d)'
<1>1. UpAt(d)'
  BY DEF Untouched, UpAt
<1>2. PartAt(d)'
  BY DEF Untouched, PartAt
<1>3. TurnAt(d)'
  BY DEF Untouched, TurnAt
<1> QED
  BY <1>1, <1>2, <1>3

\* The processes that count are finitely many.
LEMMA CountedFinite ==
  IsFiniteSet(Counted) /\ Cardinality(Counted) \in Nat
<1>1. Counted \subseteq Conns
  BY DEF Counted
<1> QED
  BY <1>1, ConnsAssumption, FS_Subset, FS_CardinalityType

\* A step of a process that serves a client.
LEMMA ChildIInv ==
  ASSUME IInv, NEW c \in Conns, ChildStep(c)
  PROVE  IInv'
<1>1. Types /\ PlacesInv /\ CountInv /\ \A d \in Conns : UpAt(d) /\ PartAt(d) /\ TurnAt(d)
  BY DEF IInv, DialogInv
<1>2. Served(c)
  BY <1>1, Serves
<1>3. /\ child' \in [Conns -> Places] /\ left' \in [Conns -> Nat] /\ up' \in [Conns -> Seq(Token)]
      /\ replies' \in [Conns -> Nat] /\ peer' \in [Conns -> {"open", "fin", "broken", "reset"}]
      /\ \A d \in Conns \ {c} : /\ child'[d] = child[d] /\ left'[d] = left[d] /\ up'[d] = up[d]
                               /\ replies'[d] = replies[d] /\ peer'[d] = peer[d]
      /\ child[c] \notin Dead /\ child'[c] # "none" /\ (child'[c] = "gone" <=> child[c] = "store")
      /\ user' = user /\ astray' \in {astray, astray \union {c}}
      /\ ppc' = ppc /\ newsock' = newsock /\ delta' = delta /\ backlog' = backlog
      /\ UpAt(c)' /\ PartAt(c)' /\ TurnAt(c)'
  BY <1>2 DEF Served, parentVars
<1>4. \/ child[c] # "store" /\ (loaded' = loaded \/ loaded' = [loaded EXCEPT ![c] = nclients])
         /\ nclients' = nclients /\ raced' = raced
      \/ child[c] = "store" /\ Store(c, loaded[c] - 1)
  <2>1. CASE Menu(c) \/ ReadOp(c) \/ ReadFirst(c) \/ ReadSecond(c)
    BY <2>1 DEF Menu, ReadOp, ReadFirst, ReadSecond, counter
  <2>2. CASE ReceiveFile(c)
    <3>1. child[c] # "store"
      BY <2>2 DEF ReceiveFile, ReadLen, ReadName, ReadSize, ReadData, FileDone, LostEnds, ReadPart
    <3> QED
      BY <2>2, <3>1 DEF ReceiveFile, counter
  <2>3. CASE ReadEnds(c)
    BY <2>3 DEF ReadEnds, Reading, counter
  <2>4. CASE ChildLoad(c)
    BY <2>4 DEF ChildLoad, Load
  <2>5. CASE ChildStore(c)
    BY <2>5 DEF ChildStore
  <2> QED
    BY <2>1, <2>2, <2>3, <2>4, <2>5 DEF ChildStep
<1>5. Types'
  <2>1. /\ nclients \in Int /\ loaded \in [Conns \union {Parent} -> Int] /\ raced \in BOOLEAN
        /\ loaded[c] \in Int
    BY <1>1 DEF Types
  <2>2. nclients' \in Int /\ loaded' \in [Conns \union {Parent} -> Int] /\ raced' \in BOOLEAN
    <3>1. nclients' \in Int /\ loaded' \in [Conns \union {Parent} -> Int]
      BY <1>4, <2>1 DEF Store
    <3>2. raced' = raced \/ raced' = (raced \/ nclients # loaded[c])
      BY <1>4 DEF Store
    <3>3. raced' \in BOOLEAN
      BY <2>1, <3>2, Zenon
    <3> QED
      BY <3>1, <3>3
  <2> QED
    BY <1>1, <1>3, <2>2 DEF Types
<1>6. PlacesInv'
  <2>1. \A d \in Conns : child[d] = "none" => child'[d] = "none"
    BY <1>3 DEF Dead
  <2>2. \A k \in DOMAIN backlog : backlog[k] \in Conns
    BY <1>1 DEF Types
  <2> QED
    BY <1>1, <1>3, <2>1, <2>2 DEF PlacesInv, Running
<1>7. CountInv'
  <2>1. CASE child[c] # "store"
    <3>1. Counted' = Counted
      BY <1>3, <2>1 DEF Counted, Dead
    <3> QED
      BY <1>1, <1>3, <1>4, <2>1, <3>1 DEF CountInv, Running
  <2>2. CASE child[c] = "store"
    <3>1. Counted' = Counted \ {c} /\ c \in Counted
      BY <1>3, <2>2 DEF Counted, Dead
    <3>2. Cardinality(Counted') = Cardinality(Counted) - 1
      BY <3>1, CountedFinite, FS_RemoveElement
    <3>3. nclients' = loaded[c] - 1 /\ nclients \in Int /\ delta \in Int
      BY <1>1, <1>4, <2>2 DEF Store, Types
    <3>4. ~raced' => ~raced /\ nclients = loaded[c]
      BY <1>4, <2>2 DEF Store
    <3> QED
      BY <1>1, <1>3, <3>2, <3>3, <3>4, CountedFinite DEF CountInv, Running
  <2> QED
    BY <2>1, <2>2
<1>8. DialogInv'
  <2> SUFFICES ASSUME NEW d \in Conns PROVE UpAt(d)' /\ PartAt(d)' /\ TurnAt(d)'
    BY DEF DialogInv
  <2>1. CASE d = c
    BY <1>3, <2>1
  <2>2. CASE d # c
    <3>1. Untouched(d)
      BY <1>3, <2>2 DEF Untouched
    <3> QED
      BY <1>1, <3>1, UntouchedStays
  <2> QED
    BY <2>1, <2>2
<1> QED
  BY <1>5, <1>6, <1>7, <1>8 DEF IInv

\* A step of run_server (tcp_server.c:181-225), or SIGINT.
LEMMA ParentIInv ==
  ASSUME IInv, ParentStep \/ ForkFails \/ Interrupt
  PROVE  IInv'
<1>1. Types /\ PlacesInv /\ CountInv /\ \A d \in Conns : UpAt(d) /\ PartAt(d) /\ TurnAt(d)
  BY DEF IInv, DialogInv
<1>2. /\ ppc \in {"accept", "load", "store", "fork", "stopped"}
      /\ newsock \in Conns \union {NoConn} /\ delta \in {-1, 0, 1} /\ delta \in Int
      /\ nclients \in Int /\ loaded \in [Conns \union {Parent} -> Int] /\ raced \in BOOLEAN
      /\ child \in [Conns -> Places] /\ backlog \in Seq(Conns)
      /\ {"menu", "gone"} \subseteq Places
  BY <1>1 DEF Types, Places, Dead
<1>3. UNCHANGED <<left, up, replies, peer, user, astray>>
  BY DEF ParentStep, Accept, ParentLoad, ParentStore, Fork, ForkFails, Interrupt, childVars, dialogue,
         clientVars
<1>4. ASSUME UNCHANGED child PROVE DialogInv' /\ Counted' = Counted
  <2>1. \A d \in Conns : Untouched(d)
    BY <1>3, <1>4 DEF Untouched
  <2> QED
    BY <1>1, <1>4, <2>1, UntouchedStays DEF DialogInv, Counted
<1>5. CASE Accept
  <2>1. /\ ppc = "accept" /\ backlog # << >> /\ newsock' = Head(backlog) /\ backlog' = Tail(backlog)
        /\ ppc' = "load" /\ delta' = 1 /\ UNCHANGED <<nclients, loaded, raced, child>>
    BY <1>5 DEF Accept, counter, childVars
  <2>2. /\ Len(backlog) \in Nat /\ 1 \in 1..Len(backlog) /\ DOMAIN backlog = 1..Len(backlog)
        /\ newsock' = backlog[1] /\ newsock' \in Conns
        /\ backlog' \in Seq(Conns) /\ DOMAIN backlog' = 1..(Len(backlog) - 1)
        /\ \A k \in 1..(Len(backlog) - 1) : backlog'[k] = backlog[k + 1]
    BY <1>2, <2>1
  <2>3. \A k \in DOMAIN backlog' : /\ k + 1 \in DOMAIN backlog /\ 1 # k + 1
                                   /\ backlog'[k] = backlog[k + 1]
    BY <2>2
  <2>4. \A j, k \in DOMAIN backlog' : j + 1 = k + 1 => j = k
    BY <2>2
  <2>5. Types'
    BY <1>1, <1>3, <2>1, <2>2 DEF Types
  <2>6. PlacesInv'
    <3>1. /\ \A k \in DOMAIN backlog : child[backlog[k]] = "none" /\ user[backlog[k]] # "off"
          /\ \A j, k \in DOMAIN backlog : backlog[j] = backlog[k] => j = k
      BY <1>1, <2>1 DEF PlacesInv, Running
    <3>2. /\ newsock' \in Conns /\ child'[newsock'] = "none" /\ user'[newsock'] # "off"
          /\ \A k \in DOMAIN backlog' : backlog'[k] # newsock'
      BY <1>3, <2>1, <2>2, <2>3, <3>1
    <3>3. \A k \in DOMAIN backlog' : child'[backlog'[k]] = "none" /\ user'[backlog'[k]] # "off"
      BY <1>3, <2>1, <2>3, <3>1
    <3>4. \A j, k \in DOMAIN backlog' : backlog'[j] = backlog'[k] => j = k
      BY <2>3, <2>4, <3>1
    <3> QED
      BY <2>1, <3>2, <3>3, <3>4 DEF PlacesInv
  <2>7. CountInv'
    <3>1. delta = 0
      BY <1>1, <2>1 DEF PlacesInv, Running
    <3> QED
      BY <1>1, <1>2, <1>4, <2>1, <3>1, CountedFinite DEF CountInv, Running
  <2> QED
    BY <1>4, <2>1, <2>5, <2>6, <2>7 DEF IInv
<1>6. CASE ParentLoad
  <2>1. /\ ppc = "load" /\ ppc' = "store" /\ loaded' = [loaded EXCEPT ![Parent] = nclients]
        /\ UNCHANGED <<newsock, delta, nclients, raced, child, backlog>>
    BY <1>6 DEF ParentLoad, Load, childVars
  <2>2. Types'
    BY <1>1, <1>2, <1>3, <2>1 DEF Types
  <2>3. PlacesInv'
    BY <1>1, <1>3, <2>1 DEF PlacesInv, Running
  <2>4. CountInv'
    BY <1>1, <1>4, <2>1 DEF CountInv, Running
  <2> QED
    BY <1>4, <2>1, <2>2, <2>3, <2>4 DEF IInv
<1>7. CASE ParentStore
  <2>1. /\ ppc = "store" /\ ppc' = (IF delta = 1 THEN "fork" ELSE "accept") /\ delta' = 0
        /\ nclients' = loaded[Parent] + delta /\ raced' = (raced \/ nclients # loaded[Parent])
        /\ loaded' = [loaded EXCEPT ![Parent] = 0]
        /\ UNCHANGED <<newsock, child, backlog>>
    BY <1>7 DEF ParentStore, Store, childVars
  <2>2. loaded[Parent] \in Int /\ delta \in {1, -1}
    BY <1>1, <1>2, <2>1 DEF PlacesInv, Running
  <2>3. Types'
    BY <1>1, <1>2, <1>3, <2>1, <2>2 DEF Types
  <2>4. PlacesInv'
    BY <1>1, <1>3, <2>1 DEF PlacesInv, Running
  <2>5. CountInv'
    <3>1. ~raced' => ~raced /\ nclients = loaded[Parent]
      BY <2>1
    <3>2. ppc' = "fork" <=> delta = 1
      BY <2>1
    <3> QED
      BY <1>1, <1>2, <1>4, <2>1, <2>2, <3>1, <3>2, CountedFinite DEF CountInv, Running
  <2> QED
    BY <1>4, <2>1, <2>3, <2>4, <2>5 DEF IInv
\* Both ends of a fork take newsock out of run_server's hands.
<1>8. ASSUME ppc = "fork", NEW x \in {"menu", "gone"}, child' = [child EXCEPT ![newsock] = x]
      PROVE  /\ newsock \in Conns /\ newsock \notin Counted /\ DialogInv'
             /\ child' \in [Conns -> Places] /\ child'[newsock] = x
             /\ \A d \in Conns \ {newsock} : child'[d] = child[d]
             /\ delta = 0 /\ \A k \in DOMAIN backlog : backlog[k] \in Conns \ {newsock}
  <2>1. /\ newsock \in Conns /\ child[newsock] = "none" /\ user[newsock] # "off" /\ delta = 0
        /\ \A k \in DOMAIN backlog : backlog[k] # newsock
    BY <1>1, <1>8 DEF PlacesInv, Running
  <2>2. /\ child' \in [Conns -> Places] /\ child'[newsock] = x
        /\ \A d \in Conns \ {newsock} : child'[d] = child[d]
    BY <1>2, <1>8, <2>1
  <2>3. ASSUME NEW d \in Conns PROVE UpAt(d)' /\ PartAt(d)' /\ TurnAt(d)'
    <3>1. CASE d = newsock
      <4>1. UpAt(d)'
        BY <1>1, <1>3 DEF UpAt
      <4>2. PartAt(d)'
        BY <2>2, <3>1 DEF PartAt
      <4>3. TurnAt(d)'
        BY <1>1, <1>3, <2>1, <2>2, <3>1 DEF TurnAt, Reading
      <4> QED
        BY <4>1, <4>2, <4>3
    <3>2. CASE d # newsock
      BY <1>1, <1>3, <2>2, <3>2, UntouchedStays DEF Untouched
    <3> QED
      BY <3>1, <3>2
  <2>4. newsock \notin Counted
    BY <2>1 DEF Counted
  <2>5. \A k \in DOMAIN backlog : backlog[k] \in Conns
    BY <1>2
  <2> QED
    BY <2>1, <2>2, <2>3, <2>4, <2>5 DEF DialogInv
<1>9. CASE Fork
  <2>1. /\ ppc = "fork" /\ ppc' = "accept" /\ child' = [child EXCEPT ![newsock] = "menu"]
        /\ newsock' = NoConn /\ UNCHANGED <<delta, nclients, loaded, raced, backlog>>
    BY <1>9 DEF Fork, counter
  <2>2. /\ newsock \in Conns /\ newsock \notin Counted /\ DialogInv'
        /\ child' \in [Conns -> Places] /\ child'[newsock] = "menu"
        /\ \A d \in Conns \ {newsock} : child'[d] = child[d]
        /\ delta = 0 /\ \A k \in DOMAIN backlog : backlog[k] \in Conns \ {newsock}
    BY <1>8, <2>1
  <2>3. Types'
    BY <1>1, <1>3, <2>1, <2>2 DEF Types
  <2>4. PlacesInv'
    BY <1>1, <1>3, <2>1, <2>2 DEF PlacesInv, Running
  <2>5. CountInv'
    <3>1. Counted' = Counted \union {newsock}
      BY <2>2 DEF Counted
    <3>2. Cardinality(Counted') = Cardinality(Counted) + 1
      BY <2>2, <3>1, CountedFinite, FS_AddElement
    <3> QED
      BY <1>1, <1>2, <2>1, <2>2, <3>2, CountedFinite DEF CountInv, Running
  <2> QED
    BY <2>2, <2>3, <2>4, <2>5 DEF IInv
<1>10. CASE ForkFails
  <2>1. /\ ppc = "fork" /\ ppc' = "load" /\ child' = [child EXCEPT ![newsock] = "gone"]
        /\ newsock' = NoConn /\ delta' = -1 /\ UNCHANGED <<nclients, loaded, raced, backlog>>
    BY <1>10 DEF ForkFails, counter
  <2>2. /\ newsock \in Conns /\ newsock \notin Counted /\ DialogInv'
        /\ child' \in [Conns -> Places] /\ child'[newsock] = "gone"
        /\ \A d \in Conns \ {newsock} : child'[d] = child[d]
        /\ delta = 0 /\ \A k \in DOMAIN backlog : backlog[k] \in Conns \ {newsock}
    BY <1>8, <2>1
  <2>3. Types'
    BY <1>1, <1>3, <2>1, <2>2 DEF Types
  <2>4. PlacesInv'
    BY <1>1, <1>3, <2>1, <2>2 DEF PlacesInv, Running
  <2>5. CountInv'
    <3>1. Counted' = Counted
      BY <2>2 DEF Counted
    <3> QED
      BY <1>1, <1>2, <2>1, <2>2, <3>1, CountedFinite DEF CountInv, Running
  <2> QED
    BY <2>2, <2>3, <2>4, <2>5 DEF IInv
<1>11. CASE Interrupt
  <2>1. /\ ppc' = "stopped" /\ newsock' = NoConn /\ backlog' = << >>
        /\ child' = [d \in Conns |-> IF child[d] \in Dead THEN child[d] ELSE "gone"]
        /\ UNCHANGED <<delta, nclients, loaded, raced>>
    BY <1>11 DEF Interrupt, counter
  <2>2. Types'
    <3>1. << >> \in Seq(Conns)
      OBVIOUS
    <3> QED
      BY <1>1, <1>2, <1>3, <2>1, <3>1 DEF Types
  <2>3. PlacesInv' /\ CountInv'
    BY <2>1 DEF PlacesInv, CountInv, Running
  <2>4. ASSUME NEW d \in Conns PROVE UpAt(d)' /\ PartAt(d)' /\ TurnAt(d)'
    <3>1. child'[d] \in Dead /\ (child[d] = "none" => child'[d] = "none")
      BY <2>1 DEF Dead
    <3>2. UpAt(d)'
      BY <1>1, <1>3 DEF UpAt
    <3>3. PartAt(d)'
      BY <3>1 DEF PartAt, Dead
    <3>4. TurnAt(d)'
      BY <1>1, <1>3, <3>1 DEF TurnAt, Reading, Dead
    <3> QED
      BY <3>2, <3>3, <3>4
  <2> QED
    BY <2>2, <2>3, <2>4 DEF IInv, DialogInv
<1> QED
  BY <1>5, <1>6, <1>7, <1>9, <1>10, <1>11 DEF ParentStep

-----------------------------------------------------------------------------
(* The steps of the clients.                                               *)

\* A line is one token.
LEMMA LineSent ==
  ASSUME NEW line \in Lines
  PROVE  /\ <<<<line, 0>>>> \in Seq(Token) /\ <<<<line, 0>>>> # << >>
         /\ Whole(<<<<line, 0>>>>) /\ Announced(<<<<line, 0>>>>) /\ Sized(<<<<line, 0>>>>)
         /\ Ends(<<<<line, 0>>>>, "file") <=> line = "file"
<1> DEFINE t == <<<<line, 0>>>>
<1>1. <<line, 0>> \in Token
  BY DEF Token
<1>2. t \in Seq(Token) /\ t # << >> /\ Len(t) = 1 /\ DOMAIN t = {1} /\ t[1] = <<line, 0>>
  BY <1>1
<1> HIDE DEF t
<1>3. Whole(t) /\ Announced(t) /\ Sized(t)
  BY <1>2 DEF Whole, Announced, Sized, Lines
<1>4. Ends(t, "file") <=> line = "file"
  BY <1>2 DEF Ends
<1> QED
  BY <1>2, <1>3, <1>4 DEF t

\* A file is whole, if all of it is sent (tcp_client.c:25-66).
LEMMA FileSent ==
  ASSUME NEW n \in Nat, NEW sent \in Nat, NEW t,
         t = <<<<"len", 0>>, <<"name", 0>>, <<"size", n>>>> \o [i \in 1..sent |-> <<"chunk", 0>>]
  PROVE  /\ t \in Seq(Token) /\ t # << >> /\ Whole(t) /\ Announced(t)
         /\ Begins(t, "len") /\ ~Ends(t, "file") /\ (n <= sent => Sized(t))
<1> DEFINE p == <<<<"len", 0>>, <<"name", 0>>, <<"size", n>>>>
           q == [i \in 1..sent |-> <<"chunk", 0>>]
<1>1. /\ p \in Seq(Token) /\ Len(p) = 3
      /\ p[1] = <<"len", 0>> /\ p[2] = <<"name", 0>> /\ p[3] = <<"size", n>>
  <2>1. <<"len", 0>> \in Token /\ <<"name", 0>> \in Token /\ <<"size", n>> \in Token
    BY DEF Token, Parts
  <2> QED
    BY <2>1
<1>2. q \in Seq(Token) /\ Len(q) = sent /\ \A i \in 1..sent : q[i] = <<"chunk", 0>>
  <2>1. <<"chunk", 0>> \in Token
    BY DEF Token, Parts
  <2> QED
    BY <2>1
<1> HIDE DEF p, q
<1>3. /\ t \in Seq(Token) /\ Len(t) = 3 + sent /\ DOMAIN t = 1..(3 + sent)
      /\ \A k \in 1..3 : t[k] = p[k]
      /\ \A k \in 1..sent : t[3 + k] = q[k]
  <2>1. t = p \o q
    BY DEF p, q
  <2>2. ASSUME NEW a \in Seq(Token), NEW b \in Seq(Token)
        PROVE  /\ a \o b \in Seq(Token) /\ Len(a \o b) = Len(a) + Len(b)
               /\ DOMAIN (a \o b) = 1..(Len(a) + Len(b))
               /\ \A k \in 1..Len(a) : (a \o b)[k] = a[k]
    OBVIOUS
  <2>3. ASSUME NEW a \in Seq(Token), NEW b \in Seq(Token)
        PROVE  \A k \in 1..Len(b) : (a \o b)[Len(a) + k] = b[k]
    OBVIOUS
  <2>4. /\ t \in Seq(Token) /\ Len(t) = Len(p) + Len(q) /\ DOMAIN t = 1..(Len(p) + Len(q))
        /\ \A k \in 1..Len(p) : t[k] = p[k]
        /\ \A k \in 1..Len(q) : t[Len(p) + k] = q[k]
    <3>1. p \in Seq(Token) /\ q \in Seq(Token)
      BY <1>1, <1>2
    <3>2. /\ p \o q \in Seq(Token) /\ Len(p \o q) = Len(p) + Len(q)
          /\ DOMAIN (p \o q) = 1..(Len(p) + Len(q))
          /\ \A k \in 1..Len(p) : (p \o q)[k] = p[k]
      BY <2>2, <3>1, Zenon
    <3>3. \A k \in 1..Len(q) : (p \o q)[Len(p) + k] = q[k]
      BY <2>3, <3>1, Zenon
    <3> QED
      BY <2>1, <3>2, <3>3, Zenon
  <2> QED
    BY <1>1, <1>2, <2>4
<1>4. t[1] = <<"len", 0>> /\ t[2] = <<"name", 0>> /\ t[3] = <<"size", n>>
  BY <1>1, <1>3
<1>5. ASSUME NEW k \in 1..(3 + sent), k > 3 PROVE t[k][1] = "chunk"
  <2>1. k - 3 \in 1..sent /\ 3 + (k - 3) = k
    BY <1>5
  <2>2. \A i \in 1..sent : 3 + i = k => t[k] = <<"chunk", 0>>
    BY <1>2, <1>3
  <2>3. t[k] = <<"chunk", 0>>
    BY <2>1, <2>2
  <2>4. \A token : token = <<"chunk", 0>> => token[1] = "chunk"
    OBVIOUS
  <2> QED
    BY <2>3, <2>4, Zenon
<1>6. \A k \in 1..(3 + sent) : k = 1 \/ k = 2 \/ k = 3 \/ k > 3
  OBVIOUS
<1>7. Whole(t)
  <2>1. 1 < 3 + sent /\ 2 < 3 + sent /\ 3 + sent <= 3 + sent /\ 1 + 1 = 2 /\ 2 + 1 = 3
    OBVIOUS
  <2> SUFFICES ASSUME NEW k \in 1..(3 + sent)
               PROVE  /\ t[k][1] = "len" => k < 3 + sent /\ t[k + 1][1] = "name"
                      /\ t[k][1] = "name" => k < 3 + sent /\ t[k + 1][1] = "size"
    BY <1>3 DEF Whole
  <2>2. CASE k = 1
    BY <1>4, <2>1, <2>2
  <2>3. CASE k = 2
    BY <1>4, <2>1, <2>3
  <2>4. CASE k = 3
    BY <1>4, <2>1, <2>4
  <2>5. CASE k > 3
    BY <1>5, <2>5
  <2> QED
    BY <1>6, <2>2, <2>3, <2>4, <2>5
<1>8. \A k \in 1..(3 + sent) : t[k][1] # "file"
  <2>1. t[1][1] = "len" /\ t[2][1] = "name" /\ t[3][1] = "size"
    BY <1>4
  <2> SUFFICES ASSUME NEW k \in 1..(3 + sent) PROVE t[k][1] # "file"
    OBVIOUS
  <2> QED
    BY <1>5, <1>6, <2>1
<1>9. t # << >> /\ 3 + sent \in 1..(3 + sent)
  BY <1>3
<1>10. ASSUME n <= sent PROVE Sized(t)
  <2> SUFFICES ASSUME NEW k \in 1..(3 + sent), t[k][1] = "size"
               PROVE  k + t[k][2] <= 3 + sent /\ \A i \in 1..t[k][2] : t[k + i][1] = "chunk"
    BY <1>3 DEF Sized
  <2>1. k = 3 /\ t[k][2] = n
    BY <1>4, <1>5, <1>6
  <2>2. 3 + n <= 3 + sent /\ \A i \in 1..n : 3 + i \in 1..(3 + sent) /\ 3 + i > 3
    BY <1>10
  <2> QED
    BY <1>5, <2>1, <2>2
<1> QED
  BY <1>3, <1>4, <1>7, <1>8, <1>9, <1>10 DEF Announced, Begins, Ends

\* A client sends t, one line or a file.
LEMMA Sent ==
  ASSUME Types, NEW c \in Conns, UpAt(c), PartAt(c), NEW t \in Seq(Token), t # << >>,
         Whole(t), Announced(t), user[c] \in {"type", "name"}, user[c] = "name" => Begins(t, "len"),
         Ends(t, "file") => user'[c] \in {"name", "closed"},
         astray' \in {astray, astray \union {c}}, c \notin astray' => Sized(t),
         up' = [up EXCEPT ![c] = @ \o t], UNCHANGED <<child, left>>
  PROVE  /\ up' \in [Conns -> Seq(Token)] /\ up'[c] # << >> /\ \A d \in Conns \ {c} : up'[d] = up[d]
         /\ UpAt(c)' /\ PartAt(c)'
<1>1. up \in [Conns -> Seq(Token)] /\ up[c] \in Seq(Token) /\ Whole(up[c]) /\ left[c] \in Nat
  BY DEF Types, UpAt
<1> DEFINE u == up[c] \o t
<1>2. /\ u \in Seq(Token) /\ u # << >> /\ Whole(u)
      /\ Sized(up[c]) /\ Sized(t) => Sized(u)
      /\ \A n \in Nat : Chunks(up[c], n) => Chunks(u, n)
      /\ Announced(up[c]) /\ (Ends(up[c], "file") => Begins(t, "len")) => Announced(u)
      /\ \A word : Ends(u, word) <=> Ends(t, word)
      /\ \A word : Begins(up[c], word) => Begins(u, word)
      /\ up[c] = << >> => \A word : Begins(u, word) <=> Begins(t, word)
  BY <1>1, Joined
<1> HIDE DEF u
<1>3. up' \in [Conns -> Seq(Token)] /\ up'[c] = u /\ \A d \in Conns \ {c} : up'[d] = up[d]
  BY <1>1, <1>2 DEF u
<1>4. UpAt(c)'
  <2>1. ASSUME c \notin astray' PROVE c \notin astray /\ Announced(u) /\ Sized(u)
    BY <1>2, <2>1 DEF UpAt
  <2> QED
    BY <1>2, <1>3, <2>1 DEF UpAt
<1>5. PartAt(c)'
  <2>1. child[c] = "len" /\ c \notin astray => Begins(u, "len")
    BY <1>2 DEF PartAt
  <2>2. /\ child[c] = "name" => Begins(u, "name")
        /\ child[c] = "size" => Begins(u, "size")
        /\ child[c] = "data" /\ c \notin astray => Chunks(u, left[c])
        /\ child[c] = "lost" => c \in astray
    BY <1>1, <1>2 DEF PartAt
  <2> QED
    BY <1>3, <2>1, <2>2 DEF PartAt
<1> QED
  BY <1>2, <1>3, <1>4, <1>5

\* What a step of the client of c does.
Spoken(c) ==
  /\ user' \in [Conns -> {"off", "recv", "type", "name", "closed"}]
  /\ up' \in [Conns -> Seq(Token)] /\ replies' \in [Conns -> Nat]
  /\ peer' \in [Conns -> {"open", "fin", "broken", "reset"}]
  /\ astray' \subseteq Conns
  /\ \A d \in Conns \ {c} : Untouched(d)
  /\ user[c] # "off" /\ user'[c] # "off"
  /\ UNCHANGED <<ppc, newsock, delta, nclients, loaded, raced, child, left, backlog>>
  /\ UpAt(c)' /\ PartAt(c)' /\ TurnAt(c)'

\* The client hangs up (tcp_client.c:70-112).
LEMMA HungUp ==
  ASSUME Types, NEW c \in Conns, UpAt(c), PartAt(c), user[c] # "off", Hangup(c),
         UNCHANGED <<ppc, newsock, delta, nclients, loaded, raced, child, left, backlog, astray, up>>
  PROVE  Spoken(c)
<1>1. /\ user' \in [Conns -> {"off", "recv", "type", "name", "closed"}] /\ user'[c] = "closed"
      /\ replies' \in [Conns -> Nat] /\ peer' \in [Conns -> {"open", "fin", "broken", "reset"}]
      /\ \A d \in Conns \ {c} : user'[d] = user[d] /\ replies'[d] = replies[d] /\ peer'[d] = peer[d]
  BY DEF Types, Hangup
<1>2. UpAt(c)' /\ PartAt(c)' /\ TurnAt(c)'
  BY <1>1 DEF UpAt, PartAt, TurnAt
<1>3. \A d \in Conns \ {c} : Untouched(d)
  BY <1>1 DEF Untouched
<1> QED
  BY <1>1, <1>2, <1>3 DEF Spoken, Types

\* Every step of a client but the connection is such a step.
LEMMA Speaks ==
  ASSUME Types, NEW c \in Conns, UpAt(c), PartAt(c), TurnAt(c), ClientStep(c), ~Connect(c)
  PROVE  Spoken(c)
<1>0. /\ user \in [Conns -> {"off", "recv", "type", "name", "closed"}]
      /\ up \in [Conns -> Seq(Token)] /\ replies \in [Conns -> Nat]
      /\ peer \in [Conns -> {"open", "fin", "broken", "reset"}] /\ astray \subseteq Conns
  BY DEF Types
<1>1. CASE Recv(c)
  <2>1. /\ user[c] = "recv" /\ user' = [user EXCEPT ![c] = "type"]
        /\ UNCHANGED <<ppc, newsock, delta, nclients, loaded, raced, child, left, backlog, peer, up,
                       astray>>
    BY <1>1 DEF Recv, serverVars, counter
  <2>2. PICK k \in 1..replies[c] : replies' = [replies EXCEPT ![c] = @ - k]
    BY <1>1 DEF Recv
  <2>3. /\ user' \in [Conns -> {"off", "recv", "type", "name", "closed"}] /\ user'[c] = "type"
        /\ \A d \in Conns \ {c} : user'[d] = user[d]
    BY <1>0, <2>1
  <2>4. replies' \in [Conns -> Nat] /\ \A d \in Conns \ {c} : replies'[d] = replies[d]
    BY <1>0, <2>2
  <2>5. UpAt(c)' /\ PartAt(c)' /\ TurnAt(c)'
    BY <2>1, <2>3 DEF UpAt, PartAt, TurnAt
  <2> QED
    BY <1>0, <2>1, <2>3, <2>4, <2>5 DEF Spoken, Untouched
<1>2. CASE Type(c)
  <2>1. /\ user[c] = "type"
        /\ UNCHANGED <<ppc, newsock, delta, nclients, loaded, raced, child, left, backlog, astray>>
    BY <1>2 DEF Type, serverVars, counter
  <2>2. CASE Send(c, <<<<"exit", 0>>>>) /\ Hangup(c)
    <3>1. /\ user' \in [Conns -> {"off", "recv", "type", "name", "closed"}] /\ user'[c] = "closed"
          /\ replies' \in [Conns -> Nat] /\ peer' \in [Conns -> {"open", "fin", "broken", "reset"}]
          /\ \A d \in Conns \ {c} : /\ user'[d] = user[d] /\ replies'[d] = replies[d]
                                   /\ peer'[d] = peer[d]
      BY <1>0, <2>2 DEF Hangup
    <3>2. /\ <<<<"exit", 0>>>> \in Seq(Token) /\ <<<<"exit", 0>>>> # << >>
          /\ Whole(<<<<"exit", 0>>>>) /\ Announced(<<<<"exit", 0>>>>) /\ Sized(<<<<"exit", 0>>>>)
      BY LineSent DEF Lines
    <3>3. /\ up' \in [Conns -> Seq(Token)] /\ \A d \in Conns \ {c} : up'[d] = up[d]
          /\ UpAt(c)' /\ PartAt(c)'
      BY <2>1, <2>2, <3>1, <3>2, Sent DEF Send
    <3>4. TurnAt(c)'
      BY <3>1 DEF TurnAt
    <3> QED
      BY <1>0, <2>1, <3>1, <3>3, <3>4 DEF Spoken, Untouched
  <2>3. CASE /\ \E line \in Lines \ {"exit"} :
                  /\ Send(c, <<<<line, 0>>>>)
                  /\ user' = [user EXCEPT ![c] = IF line = "file" THEN "name" ELSE "recv"]
             /\ UNCHANGED <<peer, replies>>
    <3>1. PICK line \in Lines \ {"exit"} :
            /\ Send(c, <<<<line, 0>>>>)
            /\ user' = [user EXCEPT ![c] = IF line = "file" THEN "name" ELSE "recv"]
      BY <2>3
    <3>2. /\ user' \in [Conns -> {"off", "recv", "type", "name", "closed"}]
          /\ user'[c] = (IF line = "file" THEN "name" ELSE "recv")
          /\ \A d \in Conns \ {c} : user'[d] = user[d]
      BY <1>0, <3>1
    <3>3. /\ <<<<line, 0>>>> \in Seq(Token) /\ <<<<line, 0>>>> # << >>
          /\ Whole(<<<<line, 0>>>>) /\ Announced(<<<<line, 0>>>>) /\ Sized(<<<<line, 0>>>>)
          /\ Ends(<<<<line, 0>>>>, "file") <=> line = "file"
      BY LineSent
    <3>4. /\ up' \in [Conns -> Seq(Token)] /\ up'[c] # << >>
          /\ \A d \in Conns \ {c} : up'[d] = up[d]
          /\ UpAt(c)' /\ PartAt(c)'
      BY <2>1, <3>1, <3>2, <3>3, Sent DEF Send
    <3>5. TurnAt(c)'
      BY <2>1, <2>3, <3>2, <3>4 DEF TurnAt
    <3> QED
      BY <1>0, <2>1, <2>3, <3>2, <3>4, <3>5 DEF Spoken, Untouched
  <2> QED
    BY <1>2, <2>2, <2>3 DEF Type
<1>3. CASE SendFile(c)
  <2>1. /\ user[c] = "name" /\ user' = [user EXCEPT ![c] = "recv"]
        /\ UNCHANGED <<ppc, newsock, delta, nclients, loaded, raced, child, left, backlog, peer,
                       replies>>
    BY <1>3 DEF SendFile, serverVars, counter
  <2>2. PICK n \in 0..MaxChunks, sent \in 0..MaxChunks :
          /\ Send(c, <<<<"len", 0>>, <<"name", 0>>, <<"size", n>>>> \o [i \in 1..sent |-> <<"chunk", 0>>])
          /\ astray' = IF sent < n THEN astray \union {c} ELSE astray
    <3>1. 0 \in 0..MaxChunks
      BY BoundsAssumption
    <3>2. PICK n \in 0..MaxChunks : \E sent \in IF n = 0 THEN {0} ELSE 0..MaxChunks :
            /\ Send(c, <<<<"len", 0>>, <<"name", 0>>, <<"size", n>>>>
                         \o [i \in 1..sent |-> <<"chunk", 0>>])
            /\ astray' = IF sent < n THEN astray \union {c} ELSE astray
      BY <1>3 DEF SendFile
    <3> QED
      BY <3>1, <3>2
  <2> DEFINE t == <<<<"len", 0>>, <<"name", 0>>, <<"size", n>>>> \o [i \in 1..sent |-> <<"chunk", 0>>]
  <2>3. n \in Nat /\ sent \in Nat /\ (n <= sent \/ sent < n)
    BY BoundsAssumption
  <2>4. /\ t \in Seq(Token) /\ t # << >> /\ Whole(t) /\ Announced(t)
        /\ Begins(t, "len") /\ ~Ends(t, "file") /\ (n <= sent => Sized(t))
    BY <2>3, FileSent
  <2>5. up' = [up EXCEPT ![c] = @ \o t]
    BY <2>2 DEF Send
  <2> HIDE DEF t
  <2>9. astray' \in {astray, astray \union {c}} /\ (c \notin astray' => Sized(t))
    BY <2>2, <2>3, <2>4
  <2>6. /\ up' \in [Conns -> Seq(Token)] /\ up'[c] # << >>
        /\ \A d \in Conns \ {c} : up'[d] = up[d]
        /\ UpAt(c)' /\ PartAt(c)'
    BY <2>1, <2>4, <2>5, <2>9, Sent
  <2>7. /\ user' \in [Conns -> {"off", "recv", "type", "name", "closed"}] /\ user'[c] = "recv"
        /\ \A d \in Conns \ {c} : user'[d] = user[d]
    BY <1>0, <2>1
  <2>8. TurnAt(c)'
    BY <2>1, <2>6, <2>7 DEF TurnAt
  <2> QED
    BY <1>0, <2>1, <2>6, <2>7, <2>8, <2>9 DEF Spoken, Untouched
<1>4. CASE SendNoFile(c)
  <2>1. /\ user[c] = "name" /\ user' = [user EXCEPT ![c] = "recv"]
        /\ astray' = astray \union {c}
        /\ UNCHANGED <<ppc, newsock, delta, nclients, loaded, raced, child, left, backlog, peer, up,
                       replies>>
    BY <1>4 DEF SendNoFile, serverVars, counter
  <2>2. /\ user' \in [Conns -> {"off", "recv", "type", "name", "closed"}] /\ user'[c] = "recv"
        /\ \A d \in Conns \ {c} : user'[d] = user[d]
    BY <1>0, <2>1
  <2>3. c \in astray' /\ astray' \subseteq Conns
        /\ \A d \in Conns \ {c} : d \in astray' <=> d \in astray
    BY <1>0, <2>1
  <2>4. UpAt(c)' /\ PartAt(c)'
    BY <2>1, <2>3 DEF UpAt, PartAt
  <2>5. TurnAt(c)'
    BY <2>1, <2>2 DEF TurnAt
  <2> QED
    BY <1>0, <2>1, <2>2, <2>3, <2>4, <2>5 DEF Spoken, Untouched
<1>5. CASE RecvEnds(c) \/ Vanish(c)
  <2>1. /\ user[c] # "off" /\ Hangup(c)
        /\ UNCHANGED <<ppc, newsock, delta, nclients, loaded, raced, child, left, backlog, astray, up>>
    BY <1>5 DEF RecvEnds, Vanish, serverVars, counter
  <2> QED
    BY <2>1, HungUp
<1> QED
  BY <1>1, <1>2, <1>3, <1>4, <1>5 DEF ClientStep

\* A step of a client.
LEMMA ClientIInv ==
  ASSUME IInv, NEW c \in Conns, ClientStep(c)
  PROVE  IInv'
<1>1. Types /\ PlacesInv /\ CountInv /\ \A d \in Conns : UpAt(d) /\ PartAt(d) /\ TurnAt(d)
  BY DEF IInv, DialogInv
<1>2. CASE Connect(c)
  <2>1. /\ user[c] = "off" /\ Running /\ user' = [user EXCEPT ![c] = "recv"]
        /\ backlog' = Append(backlog, c)
        /\ UNCHANGED <<ppc, newsock, delta, nclients, loaded, raced, child, left, peer, up, replies,
                       astray>>
    BY <1>2 DEF Connect, serverVars, counter
  <2>2. /\ user \in [Conns -> {"off", "recv", "type", "name", "closed"}] /\ backlog \in Seq(Conns)
    BY <1>1 DEF Types
  <2>3. /\ user' \in [Conns -> {"off", "recv", "type", "name", "closed"}] /\ user'[c] = "recv"
        /\ \A d \in Conns \ {c} : user'[d] = user[d]
    BY <2>1, <2>2
  <2>4. /\ backlog' \in Seq(Conns) /\ Len(backlog) \in Nat /\ DOMAIN backlog = 1..Len(backlog)
        /\ DOMAIN backlog' = 1..(Len(backlog) + 1) /\ backlog'[Len(backlog) + 1] = c
        /\ \A k \in 1..Len(backlog) : backlog'[k] = backlog[k]
    BY <2>1, <2>2
  <2>5. \A k \in DOMAIN backlog' : k \in DOMAIN backlog \/ k = Len(backlog) + 1
    BY <2>4
  <2>6. child[c] = "none"
    BY <1>1, <2>1 DEF TurnAt
  <2>7. Types'
    BY <1>1, <2>1, <2>3, <2>4 DEF Types
  <2>8. PlacesInv'
    <3>1. /\ ppc \in {"load", "store"} => delta \in {1, -1}
          /\ ppc \in {"accept", "fork"} => delta = 0
          /\ ppc = "fork" \/ delta = 1 =>
               /\ newsock \in Conns /\ child[newsock] = "none" /\ user[newsock] # "off"
               /\ \A k \in DOMAIN backlog : backlog[k] # newsock
          /\ \A k \in DOMAIN backlog : child[backlog[k]] = "none" /\ user[backlog[k]] # "off"
          /\ \A j, k \in DOMAIN backlog : backlog[j] = backlog[k] => j = k
      BY <1>1, <2>1 DEF PlacesInv
    <3>2. \A k \in DOMAIN backlog : backlog'[k] = backlog[k] /\ backlog[k] \in Conns \ {c}
      BY <2>1, <2>2, <2>4, <3>1
    <3>3. ppc = "fork" \/ delta = 1 =>
            /\ newsock \in Conns \ {c} /\ child[newsock] = "none" /\ user'[newsock] # "off"
            /\ \A k \in DOMAIN backlog' : backlog'[k] # newsock
      <4>1. ppc = "fork" \/ delta = 1 => newsock \in Conns \ {c}
        BY <2>1, <3>1
      <4> QED
        BY <2>3, <2>4, <2>5, <3>1, <3>2, <4>1
    <3>4. \A k \in DOMAIN backlog' : child[backlog'[k]] = "none" /\ user'[backlog'[k]] # "off"
      BY <2>3, <2>4, <2>5, <2>6, <3>1, <3>2
    <3>5. \A j, k \in DOMAIN backlog' : backlog'[j] = backlog'[k] => j = k
      BY <2>4, <2>5, <3>1, <3>2
    <3> QED
      BY <2>1, <3>1, <3>3, <3>4, <3>5 DEF PlacesInv
  <2>9. CountInv'
    BY <1>1, <2>1 DEF CountInv, Counted, Running
  <2>10. DialogInv'
    <3> SUFFICES ASSUME NEW d \in Conns PROVE UpAt(d)' /\ PartAt(d)' /\ TurnAt(d)'
      BY DEF DialogInv
    <3>1. CASE d = c
      BY <1>1, <2>1, <2>3, <2>6, <3>1 DEF UpAt, PartAt, TurnAt, Reading
    <3>2. CASE d # c
      BY <1>1, <2>1, <2>3, <3>2, UntouchedStays DEF Untouched
    <3> QED
      BY <3>1, <3>2
  <2> QED
    BY <2>7, <2>8, <2>9, <2>10 DEF IInv
<1>3. CASE ~Connect(c)
  <2>1. Spoken(c)
    BY <1>1, <1>3, Speaks
  <2>2. Types'
    BY <1>1, <2>1 DEF Spoken, Types
  <2>3. PlacesInv'
    <3>1. \A d \in Conns : user[d] # "off" => user'[d] # "off"
      BY <2>1 DEF Spoken, Untouched
    <3>2. \A k \in DOMAIN backlog : backlog[k] \in Conns
      BY <1>1 DEF Types
    <3>3. UNCHANGED <<ppc, newsock, delta, child, backlog>>
      BY <2>1 DEF Spoken
    <3> QED
      BY <1>1, <3>1, <3>2, <3>3 DEF PlacesInv, Running
  <2>4. CountInv'
    <3>1. UNCHANGED <<ppc, delta, nclients, raced, child>>
      BY <2>1 DEF Spoken
    <3> QED
      BY <1>1, <3>1 DEF CountInv, Counted, Running
  <2>5. DialogInv'
    <3> SUFFICES ASSUME NEW d \in Conns PROVE UpAt(d)' /\ PartAt(d)' /\ TurnAt(d)'
      BY DEF DialogInv
    <3>1. CASE d = c
      BY <2>1, <3>1 DEF Spoken
    <3>2. CASE d # c
      BY <1>1, <2>1, <3>2, UntouchedStays DEF Spoken
    <3> QED
      BY <3>1, <3>2
  <2> QED
    BY <2>2, <2>3, <2>4, <2>5 DEF IInv
<1> QED
  BY <1>2, <1>3

-----------------------------------------------------------------------------
(* The theorems.                                                           *)

\* Every step keeps the invariant.
LEMMA NextIInv ==
  ASSUME IInv, [Next]_vars PROVE IInv'
<1>1. CASE UNCHANGED vars
  <2>1. UNCHANGED <<ppc, newsock, delta, nclients, loaded, raced, child, left, backlog, peer, up,
                    replies, user, astray>>
    BY <1>1 DEF vars, counter, dialogue, clientVars
  <2>2. Types' /\ PlacesInv'
    BY <2>1 DEF IInv, Types, PlacesInv, Running
  <2>3. CountInv'
    BY <2>1 DEF IInv, CountInv, Counted, Running
  <2>4. DialogInv'
    BY <2>1, UntouchedStays DEF IInv, DialogInv, Untouched
  <2> QED
    BY <2>2, <2>3, <2>4 DEF IInv
<1>2. CASE Next
  BY <1>2, ParentIInv, ChildIInv, ClientIInv DEF Next
<1> QED
  BY <1>1, <1>2

\* The inductive invariant.
LEMMA Invariant == Spec => []IInv
<1>1. Init => IInv
  BY InitIInv
<1>2. IInv /\ [Next]_vars => IInv'
  BY NextIInv
<1> QED
  BY <1>1, <1>2, PTL DEF Spec

\* The number of users is that of the processes that serve, and of those that a
\* signal has killed, until two processes change it at once (tcp_server.c:98, 205,
\* 215), whatever the number of clients, forks that fail and clients that vanish.
THEOREM UsersAreCounted == Spec => []UsersOnLine
<1>1. IInv => UsersOnLine
  <2> SUFFICES ASSUME IInv, Settled, ~raced
               PROVE  nclients = Cardinality(Serving) + Cardinality({c \in Conns : child[c] = "killed"})
    BY DEF UsersOnLine
  <2> DEFINE Killed == {c \in Conns : child[c] = "killed"}
  <2>1. delta = 0 /\ nclients \in Int /\ nclients = Cardinality(Counted)
    <3>1. ppc = "accept" /\ Running
      BY DEF Settled, Running
    <3>2. delta = 0 /\ nclients \in Int
      BY <3>1 DEF IInv, PlacesInv, Types
    <3> QED
      BY <3>1, <3>2, CountedFinite DEF IInv, CountInv
  <2>2. Counted = Serving \union Killed /\ Serving \intersect Killed = {}
    BY DEF Counted, Serving, Dead
  <2>3. IsFiniteSet(Serving) /\ IsFiniteSet(Killed)
    BY ConnsAssumption, FS_Subset DEF Serving
  <2>4. Cardinality(Serving) \in Nat /\ Cardinality(Killed) \in Nat
    BY <2>3, FS_CardinalityType
  <2> HIDE DEF Killed
  <2>5. Cardinality(Counted) = Cardinality(Serving) + Cardinality(Killed) - 0
    BY <2>2, <2>3, FS_Union, FS_EmptySet
  <2> QED
    BY <2>1, <2>4, <2>5 DEF Killed
<1> QED
  BY <1>1, Invariant, PTL

\* Whatever is read together or taken for something else, a client and its process
\* wait for each other, and recv_file takes something else for a part of a file,
\* only when the client could not open the file it announced, sent less than its
\* size, or had a piece of a file taken for the word "file" (tcp_client.c:31-41,
\* 50-62, tcp_server.c:56, 115-146).
THEOREM FilesHurtNobody == Spec => []OnlyStrayFilesHurt
<1>1. IInv => OnlyStrayFilesHurt
  <2> SUFFICES ASSUME IInv PROVE OnlyStrayFilesHurt
    OBVIOUS
  <2>1. \A c \in Conns : PartAt(c) /\ TurnAt(c)
    BY DEF IInv, DialogInv
  <2>2. WaitsOnlyForAFile
    <3> SUFFICES ASSUME NEW c \in Conns, user[c] = "recv", replies[c] = 0, up[c] = << >>,
                        child[c] \in Reading
                 PROVE  \/ child[c] = "data" /\ left[c] = 0
                        \/ child[c] \in {"len", "data"} /\ c \in astray
      BY DEF WaitsOnlyForAFile
    <3>1. child[c] = "len" \/ (child[c] = "data" /\ (left[c] = 0 \/ c \in astray))
      BY <2>1 DEF TurnAt
    <3>2. child[c] = "len" => c \in astray
      BY <2>1 DEF PartAt, Begins
    <3> QED
      BY <3>1, <3>2
  <2>3. PartsAreParts
    BY <2>1 DEF PartsAreParts, PartAt
  <2> QED
    BY <2>2, <2>3 DEF OnlyStrayFilesHurt
<1> QED
  BY <1>1, Invariant, PTL
=============================================================================
