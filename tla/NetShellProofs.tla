---------------------------- MODULE NetShellProofs ----------------------------
(***************************************************************************)
(* Proofs about NetShell, for every command set and every bound: the       *)
(* types, the absence of a mutual wait before a put, the answers that      *)
(* match their commands before a get, and the copies of get and put.       *)
(*                                                                         *)
(* First what recv() leaves of a stream (the bytes before a piece are a    *)
(* sum, so these facts rest on an induction over its length, with the set  *)
(* of numbers the fact holds for in place of a predicate); then the        *)
(* inductive invariant IInv, and that each of its parts is kept by every   *)
(* step.                                                                   *)
(***************************************************************************)
EXTENDS NetShell, SequenceTheorems, WellFoundedInduction, TLAPS

-----------------------------------------------------------------------------
(* Induction over the natural numbers, stated for sets *)

\* The order of the natural numbers, as a set of pairs.
Below == {p \in Nat \X Nat : p[1] < p[2]}

\* The order of the natural numbers is well-founded.
LEMMA BelowWellFounded == IsWellFoundedOn(Below, Nat)
  BY NatLessThanWellFounded DEF OpToRel, Below

\* A set with 0 that has the successor of each of its numbers has all numbers.
LEMMA SetInduction ==
  ASSUME NEW S, 0 \in S, \A i \in Nat : i \in S => i + 1 \in S
  PROVE  Nat \subseteq S
<1> DEFINE T == Nat \ S
<1>1. SUFFICES ASSUME T # {} PROVE FALSE
  OBVIOUS
<1>2. PICK i \in T : \A j \in T : <<j, i>> \notin Below
  <2>1. T \subseteq Nat
    OBVIOUS
  <2> HIDE DEF T
  <2>2. QED
    BY <1>1, <2>1, BelowWellFounded, WFMin
<1>3. i \in Nat /\ i \notin S /\ i # 0
  OBVIOUS
<1> HIDE DEF T
<1>4. i - 1 \in Nat /\ i - 1 < i /\ (i - 1) + 1 = i
  BY <1>3
<1>5. <<i - 1, i>> \in Below
  BY <1>3, <1>4 DEF Below
<1>6. i - 1 \notin T
  BY <1>2, <1>5
<1>7. i - 1 \in S
  BY <1>4, <1>6 DEF T
<1>8. QED
  BY <1>3, <1>4, <1>7

-----------------------------------------------------------------------------
(* Streams *)

\* b is the table of Before() for the first k pieces of s.
IsBefore(s, b, k) ==
    b = [i \in 1..k + 1 |-> IF i = 1 THEN 0 ELSE b[i - 1] + s[i - 1].len]

\* The table exists for every number of pieces.
LEMMA BeforeExists ==
  ASSUME NEW s, NEW k \in Nat
  PROVE  \E b : IsBefore(s, b, k)
<1> DEFINE S == {j \in Nat : \E b : IsBefore(s, b, j)}
<1>1. 0 \in S
  <2> DEFINE b == [i \in 1..1 |-> 0]
  <2>1. IsBefore(s, b, 0)
    BY DEF IsBefore
  <2>2. QED
    BY <2>1
<1>2. ASSUME NEW j \in Nat, j \in S PROVE j + 1 \in S
  <2>1. PICK b : IsBefore(s, b, j)
    BY <1>2
  <2> DEFINE c == [i \in 1..(j + 1) + 1 |-> IF i = j + 2 THEN b[j + 1] + s[j + 1].len ELSE b[i]]
  <2>2. \A i \in 1..(j + 1) + 1 : c[i] = IF i = 1 THEN 0 ELSE c[i - 1] + s[i - 1].len
    <3> TAKE i \in 1..(j + 1) + 1
    <3>1. CASE i = j + 2
      <4>1. i # 1 /\ i - 1 = j + 1 /\ i - 1 \in 1..(j + 1) + 1 /\ i - 1 # j + 2
        BY <3>1
      <4>2. QED
        BY <3>1, <4>1
    <3>2. CASE i # j + 2 /\ i = 1
      BY <2>1, <3>2 DEF IsBefore
    <3>3. CASE i # j + 2 /\ i # 1
      <4>1. i \in 1..j + 1 /\ i - 1 \in 1..(j + 1) + 1 /\ i - 1 # j + 2
        BY <3>3
      <4>2. c[i] = b[i] /\ c[i - 1] = b[i - 1]
        BY <3>3, <4>1
      <4>3. b[i] = b[i - 1] + s[i - 1].len
        BY <2>1, <3>3, <4>1 DEF IsBefore
      <4>4. QED
        BY <3>3, <4>2, <4>3
    <3>4. QED
      BY <3>1, <3>2, <3>3
  <2>3. IsBefore(s, c, j + 1)
    <3>1. c = [i \in 1..(j + 1) + 1 |-> c[i]]
      OBVIOUS
    <3> HIDE DEF c
    <3>2. QED
      BY <2>2, <3>1 DEF IsBefore
  <2> HIDE DEF c
  <2>4. QED
    BY <2>3
<1> HIDE DEF S
<1>3. Nat \subseteq S
  BY <1>1, <1>2, SetInduction
<1>4. QED
  BY <1>3 DEF S

\* The bytes before a piece of a stream are those before the last piece and its
\* own.
LEMMA BeforeIs ==
  ASSUME NEW s \in Seq(Piece)
  PROVE  \A i \in 1..Len(s) + 1 : Before(s)[i] = IF i = 1 THEN 0 ELSE Before(s)[i - 1] + s[i - 1].len
<1> DEFINE b == CHOOSE b : IsBefore(s, b, Len(s))
<1>1. \E c : IsBefore(s, c, Len(s))
  BY BeforeExists
<1>2. IsBefore(s, b, Len(s))
  BY <1>1
<1>3. Before(s) = b
  BY DEF Before, IsBefore
<1> HIDE DEF b
<1>4. QED
  BY <1>2, <1>3 DEF IsBefore

\* The fields of a piece.
LEMMA PieceFields ==
  ASSUME NEW p \in Piece
  PROVE  /\ DOMAIN p = {"kind", "n", "line", "from", "len"}
         /\ p.kind \in Kinds \cup Commands /\ p.n \in 0..MaxCommands /\ p.line \in 0..MaxLines
         /\ p.from \in 0..FMAX /\ p.len \in 1..FMAX
         /\ p.n \in Nat /\ p.line \in Nat /\ p.from \in Nat /\ p.len \in Nat /\ p.len > 0
<1>1. /\ DOMAIN p = {"kind", "n", "line", "from", "len"}
      /\ p.kind \in Kinds \cup Commands /\ p.n \in 0..MaxCommands /\ p.line \in 0..MaxLines
      /\ p.from \in 0..FMAX /\ p.len \in 1..FMAX
  BY DEF Piece
<1>2. QED
  BY SMTT(30), <1>1, NetShellAssumption DEF FMAX

\* They are natural numbers that grow from piece to piece.
LEMMA BeforeType ==
  ASSUME NEW s \in Seq(Piece)
  PROVE  /\ \A i \in 1..Len(s) + 1 : Before(s)[i] \in Nat
         /\ \A i \in 1..Len(s) : /\ Before(s)[i + 1] = Before(s)[i] + s[i].len
                                /\ s[i].len \in Nat /\ s[i].len > 0
<1> DEFINE b == Before(s)
<1>1. \A i \in 1..Len(s) : s[i].len \in Nat /\ s[i].len > 0
  <2> TAKE i \in 1..Len(s)
  <2>1. s[i] \in Piece
    OBVIOUS
  <2>2. QED
    BY <2>1, PieceFields
<1>2. \A i \in 1..Len(s) + 1 : b[i] = IF i = 1 THEN 0 ELSE b[i - 1] + s[i - 1].len
  BY BeforeIs
<1> HIDE DEF b
<1> DEFINE S == {j \in Nat : j \in 1..Len(s) => b[j + 1] \in Nat}
<1>3. 0 \in S
  OBVIOUS
<1>4. ASSUME NEW j \in Nat, j \in S PROVE j + 1 \in S
  <2> SUFFICES ASSUME j + 1 \in 1..Len(s) PROVE b[(j + 1) + 1] \in Nat
    OBVIOUS
  <2>1. b[(j + 1) + 1] = b[j + 1] + s[j + 1].len
    <3>1. (j + 1) + 1 \in 1..Len(s) + 1 /\ (j + 1) + 1 # 1 /\ ((j + 1) + 1) - 1 = j + 1
      OBVIOUS
    <3>2. QED
      BY <1>2, <3>1
  <2>2. b[j + 1] \in Nat
    <3>1. CASE j = 0
      BY <1>2, <3>1
    <3>2. CASE j # 0
      BY <1>4, <3>2
    <3>3. QED
      BY <3>1, <3>2
  <2>3. s[j + 1].len \in Nat
    BY <1>1
  <2>4. QED
    BY <2>1, <2>2, <2>3
<1> HIDE DEF S
<1>5. Nat \subseteq S
  BY <1>3, <1>4, SetInduction
<1>6. \A i \in 1..Len(s) + 1 : b[i] \in Nat
  <2> TAKE i \in 1..Len(s) + 1
  <2>1. CASE i = 1
    BY <1>2, <2>1
  <2>2. CASE i # 1
    <3>1. i - 1 \in 1..Len(s) /\ i - 1 \in Nat /\ (i - 1) + 1 = i
      BY <2>2
    <3>2. QED
      BY <1>5, <3>1 DEF S
  <2>3. QED
    BY <2>1, <2>2
<1>7. \A i \in 1..Len(s) : b[i + 1] = b[i] + s[i].len
  <2> TAKE i \in 1..Len(s)
  <2>1. i + 1 \in 1..Len(s) + 1 /\ i + 1 # 1 /\ (i + 1) - 1 = i
    OBVIOUS
  <2>2. QED
    BY <1>2, <2>1
<1>8. QED
  BY <1>1, <1>6, <1>7 DEF b

\* A byte of a stream is in one of its pieces.
LEMMA ByteHasPiece ==
  ASSUME NEW s \in Seq(Piece), NEW k \in Nat, k < Bytes(s)
  PROVE  \E i \in 1..Len(s) : Before(s)[i] <= k /\ k < Before(s)[i + 1]
<1> DEFINE b == Before(s)
<1>1. /\ \A i \in 1..Len(s) + 1 : b[i] \in Nat
      /\ \A i \in 1..Len(s) : b[i + 1] = b[i] + s[i].len /\ s[i].len \in Nat
  BY BeforeType
<1>2. b[1] = 0 /\ k < b[Len(s) + 1]
  BY BeforeIs DEF Bytes
<1>3. SUFFICES ASSUME \A i \in 1..Len(s) : ~(b[i] <= k /\ k < b[i + 1]) PROVE FALSE
  OBVIOUS
<1> HIDE DEF b
<1> DEFINE S == {j \in Nat : j + 1 \in 1..Len(s) + 1 => b[j + 1] <= k}
<1>4. 0 \in S
  BY <1>2
<1>5. ASSUME NEW j \in Nat, j \in S PROVE j + 1 \in S
  <2> SUFFICES ASSUME (j + 1) + 1 \in 1..Len(s) + 1 PROVE b[(j + 1) + 1] <= k
    OBVIOUS
  <2>1. j + 1 \in 1..Len(s) /\ j + 1 \in 1..Len(s) + 1
    OBVIOUS
  <2>2. b[j + 1] <= k
    BY <1>5, <2>1
  <2>3. ~(k < b[(j + 1) + 1]) /\ b[(j + 1) + 1] \in Nat
    BY <1>1, <1>3, <2>1, <2>2
  <2>4. QED
    BY <2>3
<1> HIDE DEF S
<1>6. Nat \subseteq S
  BY <1>4, <1>5, SetInduction
<1>7. Len(s) \in Nat /\ Len(s) + 1 \in 1..Len(s) + 1
  OBVIOUS
<1>8. b[Len(s) + 1] <= k
  BY <1>6, <1>7 DEF S
<1>9. QED
  BY <1>1, <1>2, <1>7, <1>8

\* No piece begins before the end of an earlier one.
LEMMA PiecesInOrder ==
  ASSUME NEW s \in Seq(Piece), NEW i \in 1..Len(s) + 1
  PROVE  \A j \in i..Len(s) + 1 : Before(s)[i] <= Before(s)[j]
<1> DEFINE b == Before(s)
<1>1. /\ \A j \in 1..Len(s) + 1 : b[j] \in Nat
      /\ \A j \in 1..Len(s) : b[j + 1] = b[j] + s[j].len /\ s[j].len \in Nat
  BY BeforeType
<1> HIDE DEF b
<1> DEFINE S == {d \in Nat : i + d \in 1..Len(s) + 1 => b[i] <= b[i + d]}
<1>2. 0 \in S
  BY <1>1
<1>3. ASSUME NEW d \in Nat, d \in S PROVE d + 1 \in S
  <2> SUFFICES ASSUME i + (d + 1) \in 1..Len(s) + 1 PROVE b[i] <= b[i + (d + 1)]
    OBVIOUS
  <2>1. i + d \in 1..Len(s) /\ i + d \in 1..Len(s) + 1 /\ i + (d + 1) = (i + d) + 1
    OBVIOUS
  <2>2. b[i] <= b[i + d]
    BY <1>3, <2>1
  <2>3. b[(i + d) + 1] = b[i + d] + s[i + d].len /\ s[i + d].len \in Nat
    BY <1>1, <2>1
  <2>4. b[i] \in Nat /\ b[i + d] \in Nat
    BY <1>1, <2>1
  <2>5. QED
    BY <2>1, <2>2, <2>3, <2>4
<1> HIDE DEF S
<1>4. Nat \subseteq S
  BY <1>2, <1>3, SetInduction
<1>5. ASSUME NEW j \in i..Len(s) + 1 PROVE b[i] <= b[j]
  <2>1. j - i \in Nat /\ i + (j - i) = j /\ j \in 1..Len(s) + 1
    OBVIOUS
  <2>2. QED
    BY <1>4, <2>1 DEF S
<1>6. QED
  BY <1>5 DEF b

\* Without its first bytes a piece is a piece that ends where the sent buffer
\* ends.
LEMMA CutPiece ==
  ASSUME NEW p \in Piece, p.from + p.len <= FMAX, NEW c \in Nat, c < p.len
  PROVE  /\ Cut(p, c) \in Piece
         /\ Cut(p, c).kind = p.kind /\ Cut(p, c).n = p.n /\ Cut(p, c).line = p.line
         /\ Cut(p, c).from = p.from + c /\ Cut(p, c).len = p.len - c
         /\ c = 0 => Cut(p, c) = p
<1> DEFINE q == Cut(p, c)
<1>1. /\ p.from \in Nat /\ p.len \in Nat /\ p.from \in 0..FMAX
      /\ DOMAIN p = {"kind", "n", "line", "from", "len"}
      /\ p.kind \in Kinds \cup Commands /\ p.n \in 0..MaxCommands /\ p.line \in 0..MaxLines
  BY PieceFields
<1>2. /\ q = [kind |-> p.kind, n |-> p.n, line |-> p.line, from |-> p.from + c, len |-> p.len - c]
      /\ p = [kind |-> p.kind, n |-> p.n, line |-> p.line, from |-> p.from, len |-> p.len]
  <2>1. p = [kind |-> p.kind, n |-> p.n, line |-> p.line, from |-> p.from, len |-> p.len]
    BY DEF Piece
  <2>2. q = [kind |-> p.kind, n |-> p.n, line |-> p.line, from |-> p.from + c, len |-> p.len - c]
    BY DEF Cut
  <2>3. QED
    BY <2>1, <2>2
<1>3. p.from + c \in 0..FMAX /\ p.len - c \in 1..FMAX
  <2> DEFINE f == p.from
             l == p.len
  <2>1. f \in Nat /\ l \in Nat /\ f + l <= FMAX /\ c < l
    BY <1>1
  <2> HIDE DEF f, l
  <2>2. f + c \in 0..FMAX /\ l - c \in 1..FMAX
    BY <2>1 DEF FMAX
  <2>3. QED
    BY <2>2 DEF f, l
<1>4. q \in Piece
  BY <1>1, <1>2, <1>3 DEF Piece
<1>5. c = 0 => p.from + c = p.from /\ p.len - c = p.len
  BY <1>1
<1>6. c = 0 => q = p
  BY <1>2, <1>5
<1>7. QED
  BY <1>2, <1>4, <1>6

\* What is left after a recv() is a suffix of the stream; only its first piece
\* may be cut.
LEMMA SkipShape ==
  ASSUME NEW s, Inside(s), NEW k \in Nat
  PROVE  /\ Inside(Skip(s, k)) /\ Len(Skip(s, k)) <= Len(s)
         /\ \A j \in 1..Len(Skip(s, k)) :
              LET t == Skip(s, k)
                  i == Len(s) - Len(t) + j
              IN  /\ i \in 1..Len(s)
                  /\ t[j].kind = s[i].kind /\ t[j].n = s[i].n /\ t[j].line = s[i].line
                  /\ j > 1 \/ t[j].from = 0 => t[j] = s[i]
<1> DEFINE t == Skip(s, k)
<1>1. CASE Bytes(s) <= k
  <2>1. t = <<>>
    BY <1>1 DEF Skip
  <2>2. QED
    BY <2>1 DEF Inside
<1>2. CASE ~(Bytes(s) <= k)
  <2> DEFINE b == Before(s)
             i == CHOOSE j \in DOMAIN s : b[j] <= k /\ k < b[j + 1]
             c == k - b[i]
  <2>1. Len(s) \in Nat /\ DOMAIN s = 1..Len(s) /\ \A j \in 1..Len(s) : s[j] \in Piece /\ s[j].from + s[j].len <= FMAX
    BY DEF Inside
  <2>2. Bytes(s) \in Nat
    BY <2>1, BeforeType DEF Bytes, Inside
  <2>3. \E j \in DOMAIN s : b[j] <= k /\ k < b[j + 1]
    <3>1. k < Bytes(s)
      BY <1>2, <2>2
    <3>2. s \in Seq(Piece)
      BY DEF Inside
    <3>3. \E j \in 1..Len(s) : b[j] <= k /\ k < b[j + 1]
      BY <3>1, <3>2, ByteHasPiece
    <3>4. QED
      BY <2>1, <3>3
  <2>4. i \in DOMAIN s /\ b[i] <= k /\ k < b[i + 1]
    BY <2>3
  <2>5. t = <<Cut(s[i], c)>> \o SubSeq(s, i + 1, Len(s))
    BY <1>2 DEF Skip
  <2> HIDE DEF i
  <2>6. c \in Nat /\ c < s[i].len
    <3>1. b[i] \in Nat /\ b[i + 1] = b[i] + s[i].len /\ s[i].len \in Nat
      BY <2>1, <2>4, BeforeType DEF Inside
    <3>2. QED
      BY <2>4, <3>1
  <2> HIDE DEF b, c
  <2> DEFINE p == Cut(s[i], c)
  <2>7. /\ p \in Piece /\ p.from + p.len <= FMAX
        /\ p.kind = s[i].kind /\ p.n = s[i].n /\ p.line = s[i].line
        /\ p.from = 0 => p = s[i]
    <3>1. s[i] \in Piece /\ s[i].from + s[i].len <= FMAX /\ s[i].from \in Nat /\ s[i].len \in Nat
      BY <2>1, <2>4, PieceFields
    <3>2. /\ p \in Piece /\ p.kind = s[i].kind /\ p.n = s[i].n /\ p.line = s[i].line
          /\ p.from = s[i].from + c /\ p.len = s[i].len - c /\ (c = 0 => p = s[i])
      BY <2>6, <3>1, CutPiece
    <3> HIDE DEF p
    <3>3. QED
      BY <2>6, <3>1, <3>2 DEF FMAX
  <2> HIDE DEF p
  <2>8. /\ Len(t) = Len(s) - i + 1 /\ t[1] = p /\ t \in Seq(Piece)
        /\ \A j \in 2..Len(t) : t[j] = s[i + j - 1]
    BY SMTT(30), <2>1, <2>4, <2>5, <2>7 DEF p, Inside
  <2> HIDE DEF t
  <2>9. /\ Len(t) \in Nat /\ Len(t) >= 1 /\ Len(t) <= Len(s)
        /\ \A j \in 1..Len(t) : /\ Len(s) - Len(t) + j = i + j - 1 /\ i + j - 1 \in 1..Len(s)
                                /\ j # 1 => j \in 2..Len(t)
    BY <2>1, <2>4, <2>8
  <2>10. \A j \in 1..Len(t) : t[j].from + t[j].len <= FMAX
    BY <2>1, <2>7, <2>8, <2>9
  <2>11. ASSUME NEW j \in 1..Len(t)
         PROVE  /\ t[j].kind = s[i + j - 1].kind /\ t[j].n = s[i + j - 1].n
                /\ t[j].line = s[i + j - 1].line
                /\ j > 1 \/ t[j].from = 0 => t[j] = s[i + j - 1]
    <3>1. CASE j = 1
      <4>1. i + j - 1 = i
        BY <2>1, <2>4, <3>1
      <4>2. QED
        BY <2>7, <2>8, <3>1, <4>1
    <3>2. CASE j # 1
      BY <2>8, <2>9, <3>2
    <3>3. QED
      BY <3>1, <3>2
  <2>12. QED
    BY <2>8, <2>9, <2>10, <2>11 DEF Inside, t
<1>3. QED
  BY <1>1, <1>2

\* A recv() of the size of the first piece takes that piece.
LEMMA SkipFirst ==
  ASSUME NEW s, Inside(s), s # <<>>
  PROVE  Skip(s, s[1].len) = Tail(s)
<1> DEFINE b == Before(s)
           k == s[1].len
<1>1. Len(s) \in Nat /\ Len(s) >= 1 /\ DOMAIN s = 1..Len(s) /\ \A j \in 1..Len(s) : s[j] \in Piece
  BY DEF Inside
<1>2. /\ \A j \in 1..Len(s) + 1 : b[j] \in Nat
      /\ \A j \in 1..Len(s) : b[j + 1] = b[j] + s[j].len /\ s[j].len \in Nat /\ s[j].len > 0
  BY BeforeType DEF Inside
<1>3. b[1] = 0 /\ b[2] = k /\ k \in Nat
  <2>1. b[1] = 0
    BY <1>1, BeforeIs DEF Inside
  <2>2. QED
    BY <1>1, <1>2, <2>1
<1>4. CASE Len(s) = 1
  <2>1. Bytes(s) = k
    BY <1>3, <1>4 DEF Bytes
  <2>2. Skip(s, k) = <<>>
    BY <1>3, <2>1 DEF Skip
  <2>3. Tail(s) = <<>>
    <3>1. Tail(s) = SubSeq(s, 2, Len(s))
      BY TailIsSubSeq DEF Inside
    <3>2. QED
      BY <1>4, <3>1, SubSeqEmpty
  <2>4. QED
    BY <2>2, <2>3
<1>5. CASE Len(s) # 1
  <2>1. 2 \in 1..Len(s) /\ 3 \in 1..Len(s) + 1
    BY <1>1, <1>5
  <2>2. b[3] = k + s[2].len /\ s[2].len \in Nat /\ s[2].len > 0
    BY <1>2, <1>3, <2>1
  <2>3. \A j \in 3..Len(s) + 1 : b[3] <= b[j]
    BY <2>1, PiecesInOrder DEF Inside
  <2>4. b[2] <= k /\ k < b[3]
    BY <1>3, <2>2
  <2>5. ASSUME NEW j \in DOMAIN s, b[j] <= k, k < b[j + 1] PROVE j = 2
    <3>1. CASE j = 1
      BY <1>3, <2>5, <3>1
    <3>2. CASE j > 2
      <4>1. j \in 3..Len(s) + 1 /\ j \in 1..Len(s) + 1 /\ 3 \in 1..Len(s) + 1
        BY <1>1, <3>2
      <4>2. b[3] <= b[j] /\ b[3] \in Nat /\ b[j] \in Nat
        BY <1>2, <2>3, <4>1
      <4>3. QED
        BY <1>3, <2>4, <2>5, <4>2
    <3>3. QED
      BY <1>1, <3>1, <3>2
  <2>6. ~(Bytes(s) <= k)
    <3>1. Len(s) + 1 \in 3..Len(s) + 1 /\ Len(s) + 1 \in 1..Len(s) + 1
      BY <2>1
    <3>2. b[3] <= b[Len(s) + 1] /\ b[3] \in Nat /\ b[Len(s) + 1] \in Nat
      BY <1>2, <2>1, <2>3, <3>1
    <3>3. QED
      BY <1>3, <2>4, <3>2 DEF Bytes
  <2> DEFINE i == CHOOSE j \in DOMAIN s : b[j] <= k /\ k < b[j + 1]
  <2>7. i = 2
    <3>1. 2 \in DOMAIN s /\ 2 + 1 = 3
      BY <1>1, <2>1
    <3>2. \E j \in DOMAIN s : b[j] <= k /\ k < b[j + 1]
      BY <2>4, <3>1
    <3>3. i \in DOMAIN s /\ b[i] <= k /\ k < b[i + 1]
      BY <3>2
    <3> HIDE DEF i
    <3>4. QED
      BY <2>5, <3>3
  <2>8. Skip(s, k) = <<Cut(s[i], k - b[i])>> \o SubSeq(s, i + 1, Len(s))
    BY <2>6 DEF Skip
  <2> HIDE DEF i
  <2>9. Cut(s[2], k - b[2]) = s[2]
    <3>1. k - b[2] = 0 /\ 0 \in Nat
      BY <1>3
    <3>2. s[2] \in Piece /\ s[2].from + s[2].len <= FMAX /\ 0 < s[2].len
      BY <2>1, <2>2 DEF Inside
    <3>3. Cut(s[2], 0) = s[2]
      BY <3>2, CutPiece
    <3>4. QED
      BY <3>1, <3>3
  <2>10. Skip(s, k) = <<s[2]>> \o SubSeq(s, 3, Len(s))
    <3>1. 2 + 1 = 3
      OBVIOUS
    <3>2. QED
      BY <2>7, <2>8, <2>9, <3>1
  <2>11. <<s[2]>> \o SubSeq(s, 3, Len(s)) = Tail(s)
    <3>1. Tail(s) = SubSeq(s, 2, Len(s))
      BY TailIsSubSeq DEF Inside
    <3>2. 2 \in 1..Len(s) /\ Len(s) \in 2..Len(s) /\ 2 + 1 = 3 /\ s \in Seq(Piece)
      BY <1>1, <2>1 DEF Inside
    <3>3. SubSeq(s, 2, Len(s)) = <<s[2]>> \o SubSeq(s, 2 + 1, Len(s))
      BY <3>2, SubSeqRecursiveFirst
    <3>4. QED
      BY <3>1, <3>2, <3>3
  <2>12. QED
    BY <2>10, <2>11
<1>6. QED
  BY <1>4, <1>5

\* A recv() of more bytes than the stream has takes them all.
LEMMA SkipAll ==
  ASSUME NEW s, Inside(s), Len(s) <= 2, NEW k \in Nat,
         s # <<>> => s[1].len <= k, Len(s) = 2 => s[1].len + s[2].len <= k
  PROVE  Skip(s, k) = <<>>
<1>1. Len(s) \in Nat /\ Len(s) \in 0..2 /\ (Len(s) # 0 => s # <<>>)
  <2>1. Len(s) \in Nat
    BY DEF Inside
  <2>2. Len(s) \in 0..2
    <3> DEFINE l == Len(s)
    <3>1. l \in Nat /\ l <= 2
      BY <2>1
    <3> HIDE DEF l
    <3>2. l \in 0..2
      BY <3>1
    <3>3. QED
      BY <3>2 DEF l
  <2>3. s = <<>> => Len(s) = 0
    OBVIOUS
  <2>4. QED
    BY <2>1, <2>2, <2>3
<1>2. /\ Before(s)[1] = 0 /\ \A j \in 1..Len(s) + 1 : Before(s)[j] \in Nat
      /\ \A j \in 1..Len(s) : Before(s)[j + 1] = Before(s)[j] + s[j].len /\ s[j].len \in Nat
  BY <1>1, BeforeIs, BeforeType DEF Inside
<1>3. Bytes(s) = IF Len(s) = 0 THEN 0 ELSE IF Len(s) = 1 THEN s[1].len ELSE s[1].len + s[2].len
  BY <1>1, <1>2 DEF Bytes
<1>4. QED
  BY <1>1, <1>3 DEF Skip

\* A recv() of the size of the first piece leaves the pieces behind it.
LEMMA FirstTaken ==
  ASSUME NEW s, Inside(s), s # <<>>, NEW k, k = s[1].len
  PROVE  /\ Len(s) \in Nat /\ Len(s) >= 1
         /\ Inside(Skip(s, k)) /\ Len(Skip(s, k)) = Len(s) - 1
         /\ \A i \in 1..Len(s) - 1 : Skip(s, k)[i] = s[i + 1]
<1>1. Skip(s, k) = Tail(s)
  BY SkipFirst
<1>2. Len(s) \in Nat /\ Len(s) >= 1
  BY DEF Inside
<1>3. /\ Tail(s) \in Seq(Piece) /\ Len(Tail(s)) = Len(s) - 1
      /\ \A i \in 1..Len(s) - 1 : Tail(s)[i] = s[i + 1]
  BY HeadTailProperties DEF Inside
<1> DEFINE r == Skip(s, k)
<1>4. /\ r \in Seq(Piece) /\ Len(r) = Len(s) - 1 /\ \A i \in 1..Len(s) - 1 : r[i] = s[i + 1]
  BY <1>1, <1>3
<1> HIDE DEF r
<1>5. \A i \in 1..Len(r) : r[i].from + r[i].len <= FMAX
  <2> TAKE i \in 1..Len(r)
  <2>1. i \in 1..Len(s) - 1 /\ i + 1 \in 1..Len(s)
    BY <1>2, <1>4
  <2>2. QED
    BY <1>4, <2>1 DEF Inside
<1>6. QED
  BY <1>2, <1>4, <1>5 DEF Inside, r

\* A send() puts a piece behind all others.
LEMMA SentLast ==
  ASSUME NEW s, Inside(s), NEW p \in Piece, p.from + p.len <= FMAX
  PROVE  /\ Inside(Append(s, p)) /\ Len(s) \in Nat /\ Len(Append(s, p)) = Len(s) + 1
         /\ \A i \in 1..Len(s) : Append(s, p)[i] = s[i]
         /\ Append(s, p)[Len(s) + 1] = p
<1> DEFINE r == Append(s, p)
<1>1. /\ Len(s) \in Nat /\ r \in Seq(Piece) /\ Len(r) = Len(s) + 1
      /\ \A i \in 1..Len(s) : r[i] = s[i]
      /\ r[Len(s) + 1] = p
  BY DEF Inside
<1> HIDE DEF r
<1>2. ASSUME NEW i \in 1..Len(r) PROVE r[i].from + r[i].len <= FMAX
  <2>1. CASE i = Len(s) + 1
    BY <1>1, <2>1
  <2>2. CASE i # Len(s) + 1
    <3>1. i \in 1..Len(s)
      BY <1>1, <2>2
    <3>2. QED
      BY <1>1, <3>1 DEF Inside
  <2>3. QED
    BY <2>1, <2>2
<1>3. QED
  BY <1>1, <1>2 DEF Inside, r

\* The whole buffers that are sent.
LEMMA SentBuffer ==
  ASSUME NEW c \in Kinds \cup Commands, NEW i \in 0..MaxCommands, NEW l \in 0..MaxLines,
         NEW k \in 1..FMAX
  PROVE  /\ Buffer(c, i, l, k) \in Piece
         /\ Buffer(c, i, l, k).from + Buffer(c, i, l, k).len <= FMAX
         /\ Buffer(c, i, l, k).kind = c /\ Buffer(c, i, l, k).n = i
         /\ Buffer(c, i, l, k).line = l /\ Buffer(c, i, l, k).from = 0
         /\ Buffer(c, i, l, k).len = k
<1>1. 0 \in 0..FMAX
  BY DEF FMAX
<1>2. Buffer(c, i, l, k) \in Piece
  BY <1>1 DEF Buffer, Piece
<1>3. 0 + k <= FMAX
  BY DEF FMAX
<1>4. QED
  BY <1>2, <1>3 DEF Buffer

\* A text recv() leaves in the buffer is that of the first piece, if it starts
\* a sent buffer; it is empty for the end mark and a closed connection.
LEMMA TextIs ==
  ASSUME NEW s, Inside(s), NEW t \in Texts(s)
  PROVE  /\ t.n \in 0..MaxCommands /\ t.line \in 0..MaxLines
         /\ s = <<>> \/ s[1].kind = "end" => t = Empty
         /\ s # <<>> /\ s[1].kind # "end" /\ s[1].from = 0 =>
               t # Empty /\ t.kind = s[1].kind /\ t.n = s[1].n /\ t.line = s[1].line
         /\ t.kind \notin {"", "junk"} =>
               /\ s # <<>> /\ s[1].from = 0 /\ s[1].kind # "end"
               /\ t.kind = s[1].kind /\ t.n = s[1].n /\ t.line = s[1].line
         /\ t.kind \in {"", "junk"} => t.n = 0
         /\ t # Empty => s # <<>>
<1>1. Head(s) = s[1]
  BY DEF Inside
<1>2. 0 \in 0..MaxCommands /\ 0 \in 0..MaxLines
  BY NetShellAssumption
<1>3. CASE s = <<>> \/ s[1].kind = "end"
  <2>1. t = Empty
    BY <1>1, <1>3 DEF Texts
  <2>2. Empty.kind = "" /\ Empty.n = 0 /\ Empty.line = 0
    BY DEF Empty
  <2>3. QED
    BY <1>2, <1>3, <2>1, <2>2
<1>4. CASE ~(s = <<>> \/ s[1].kind = "end")
  <2>1. Len(s) \in Nat /\ Len(s) >= 1
    BY <1>4 DEF Inside
  <2>2. s[1] \in Piece
    BY <2>1 DEF Inside
  <2>3. /\ s[1].from \in Nat /\ s[1].n \in 0..MaxCommands /\ s[1].line \in 0..MaxLines
        /\ s[1].kind \notin {"", "junk"}
    <3>1. /\ s[1].from \in Nat /\ s[1].n \in 0..MaxCommands /\ s[1].line \in 0..MaxLines
          /\ s[1].kind \in Kinds \cup Commands
      BY <2>2, PieceFields
    <3>2. QED
      BY <3>1, NetShellAssumption DEF Kinds
  <2>4. CASE s[1].from > 0
    <3>1. t \in {Empty, Junk}
      BY <1>1, <1>4, <2>4 DEF Texts
    <3>2. /\ Empty.kind = "" /\ Empty.n = 0 /\ Empty.line = 0
          /\ Junk.kind = "junk" /\ Junk.n = 0 /\ Junk.line = 0
      BY DEF Empty, Junk
    <3>3. s[1].from # 0
      <4>1. \A i \in Nat : i > 0 => i # 0
        OBVIOUS
      <4>2. QED
        BY <2>3, <2>4, <4>1, Zenon
    <3>4. s # <<>> /\ t.n = 0 /\ t.line = 0 /\ t.kind \in {"", "junk"}
      BY <1>4, <3>1, <3>2
    <3>5. QED
      BY <1>2, <1>4, <3>3, <3>4
  <2>5. CASE s[1].from = 0
    <3>1. t = [kind |-> s[1].kind, n |-> s[1].n, line |-> s[1].line]
      <4>1. ~(Head(s).from > 0) /\ ~(s = <<>> \/ Head(s).kind = "end")
        BY <1>1, <1>4, <2>5
      <4>2. t \in {[kind |-> Head(s).kind, n |-> Head(s).n, line |-> Head(s).line]}
        BY <4>1 DEF Texts
      <4>3. QED
        BY <1>1, <4>2
    <3>2. t.kind = s[1].kind /\ t.n = s[1].n /\ t.line = s[1].line
      BY <3>1
    <3>3. t # Empty
      <4>1. Empty.kind = ""
        BY DEF Empty
      <4>2. QED
        BY <2>3, <3>2, <4>1
    <3>4. QED
      BY <1>4, <2>3, <2>5, <3>2, <3>3
  <2>6. s[1].from > 0 \/ s[1].from = 0
    <3>1. \A i \in Nat : i > 0 \/ i = 0
      OBVIOUS
    <3>2. QED
      BY <2>3, <3>1, Zenon
  <2>7. QED
    BY <2>4, <2>5, <2>6
<1>5. QED
  BY <1>3, <1>4

-----------------------------------------------------------------------------
(* The inductive invariant *)

\* What is left to send of a file is part of it.
Left == left.cli <= size.cli /\ left.srv <= size.srv

\* No piece in transit belongs to a command not yet typed.
UpTo(s, k) == \A i \in 1..Len(s) : s[i].n <= k
Numbers == m <= n /\ UpTo(toSrv, n) /\ UpTo(toCli, n)

\* A stream of whole commands of the kinds of S, the greeting before them if g.
CommandsOnly(s, g, S) ==
    \A i \in 1..Len(s) :
       /\ s[i].from = 0
       /\ IF g /\ i = 1 THEN s[i].kind = "hello" /\ s[i].len = Greeting
          ELSE s[i].kind \in S /\ s[i].len = MAX

\* Before a put, whole commands behind the greeting are on their way to the
\* server.
WholeCommands ==
    "put" \notin past =>
        /\ srv \notin {"open", "write_f"} /\ cli \notin {"putName", "sending"}
        /\ cli = "greet" => srv = "greet" /\ toSrv = <<>>
        /\ srv = "greet" /\ cli # "greet" => toSrv # <<>>
        /\ CommandsOnly(toSrv, srv = "greet", past \cap Commands)

\* ... and the client never waits with nothing on its way in either direction.
AnswerComes ==
    past \cap {"put", "silent"} = {} /\ cli \in {"reply", "getName"} =>
        /\ srv = "greet" => Len(toSrv) > 1
        /\ srv = "recv" /\ toSrv = <<>> => toCli # <<>>

\* No piece belongs to command k; or only the last one, and that one is its
\* buffer unless its start has been received.
NoPiece(s, k) == \A i \in 1..Len(s) : s[i].n # k
LastIs(s, c, k) ==
    \A i \in 1..Len(s) : s[i].n = k =>
        i = Len(s) /\ (s[i].from = 0 => s[i] = Buffer(c, k, 0, MAX))

\* A client that waits for a file name has sent its command last: either the
\* server has not received it, or it has and works on nothing else.
Asked ==
    cli \in {"putName", "getName"} =>
        IF m = n
        THEN /\ toSrv = <<>>
             /\ srv \in IF cli = "putName" THEN {"open", "write_f", "dead"}
                        ELSE {"read_f", "sending", "endGet", "recv", "dead"}
        ELSE /\ NoPiece(toCli, n)
             /\ LastIs(toSrv, IF cli = "putName" THEN "put" ELSE "get", n)

\* The server has written nothing yet while the client waits for the name.
NewFile == cli = "putName" /\ m = n /\ srv = "write_f" => saved.srv = <<>>

\* k lines of the file from line q + 1 on are the pieces behind the first j.
Lines(s, j, q, k, i) ==
    \A l \in 1..k : s[j + l] = Buffer("line", i, q + l, FMAX)

\* The rest of the file, behind the first j pieces on the way to the client,
\* which has q lines of it.
GetRest(j, q) ==
    LET k == size.srv - left.srv - q
    IN  CASE srv \in {"read_f", "dead"} -> Len(toCli) = j /\ q = 0
          [] srv = "sending"           -> k >= 0 /\ Len(toCli) = j + k /\ Lines(toCli, j, q, k, n)
          [] srv \in {"endGet", "recv"} ->
                /\ left.srv = 0
                /\ k >= 0 /\ Len(toCli) > j + k /\ Lines(toCli, j, q, k, n)
                /\ toCli[j + k + 1].kind = "end"
          [] OTHER -> FALSE

\* The first piece for a get the server works on is the name, and the file
\* follows it.
Gets ==
    /\ cli = "getName" /\ m = n =>
          \E j \in 1..Len(toCli) :
             /\ \A i \in 1..j - 1 : toCli[i].n # n
             /\ toCli[j] = Buffer("name", n, 0, MAX)
             /\ GetRest(j, 0)
    /\ cli = "write_f" /\ right =>
          /\ m = n /\ toSrv = <<>>
          /\ WholeFile(saved.cli, Len(saved.cli))
          /\ GetRest(0, Len(saved.cli))

\* The rest of the file on its way to the server, which has q lines of it.
PutRest(q) ==
    LET k == (IF cli = "sending" THEN size.cli - left.cli ELSE size.cli) - q
    IN  /\ k >= 0
        /\ \A l \in 1..k : /\ toSrv[l].kind = "line" /\ toSrv[l].line = q + l
                           /\ toSrv[l].from = 0 /\ toSrv[l].len = FMAX
        /\ IF cli = "sending" THEN Len(toSrv) = k
           ELSE Len(toSrv) > k /\ toSrv[k + 1].kind = "end"

\* The only put in a stream is command k, if w holds, and none otherwise.
OnlyPut(s, k, w) ==
    \A i \in 1..Len(s) : s[i].kind = "put" /\ s[i].from = 0 => w /\ s[i].n = k

\* A client that has opened the right file has no earlier put on its way, and
\* the server that writes a file writes this one.
Puts ==
    right /\ CliOpen =>
        /\ OnlyPut(toSrv, n, cli = "putName")
        /\ srv = "open" /\ ~(cli = "putName" /\ m = n) => PutRest(0)
        /\ srv = "write_f" =>
              /\ WholeFile(saved.srv, Len(saved.srv))
              /\ ~(cli = "putName" /\ m = n) => PutRest(Len(saved.srv))

\* Is the command typed last one the server has not received?
Typed == cli \in {"reply", "putName"} /\ m # n

\* Is p the buffer of the command typed last?
IsTyped(p) ==
    \E c \in past \cap Commands :
        p = Buffer(c, n, 0, MAX) /\ (c = "put" <=> cli = "putName")

\* The command typed last is piece i, and nothing is behind it; or nothing is
\* behind piece i - 1.
TypedIs(i) == IF Typed THEN Len(toSrv) = i /\ IsTyped(toSrv[i]) ELSE Len(toSrv) = i - 1

\* A line of a file of which nothing has been received.
WholeLine(p) == p.kind = "line" /\ p.from = 0 /\ p.len = FMAX

\* The end of a file, lines of it before and only the command typed last behind.
FileSent ==
    \E e \in 1..Len(toSrv) :
        /\ \A i \in 1..e - 1 : WholeLine(toSrv[i])
        /\ toSrv[e] = EndMark /\ TypedIs(e + 1)

\* What has been received and what is on its way to the client.
Answer ==
    /\ cli = "greet" => Len(toCli) = 1 /\ toCli[1].len = Greeting
    /\ cli \in {"prompt", "sending"} => toCli = <<>>
    /\ cli \in {"reply", "putName"} =>
          IF m # n THEN toCli = <<>>
          ELSE /\ toSrv = <<>>
               /\ toCli # <<>> => /\ Len(toCli) = 1
                                  /\ toCli[1].from = 0 /\ toCli[1].n = n /\ toCli[1].len = MAX

\* What is on its way to the server.
Request ==
    /\ cli = "greet" => srv = "greet" /\ toSrv = <<>>
    /\ cli = "sending" => srv \in {"open", "write_f", "dead"}
    /\ srv = "greet" /\ cli # "greet" => TypedIs(2) /\ toSrv[1].len = Greeting
    /\ srv = "recv" => toSrv = <<>> \/ TypedIs(1)
    /\ srv \in {"open", "write_f"} =>
          CASE cli = "putName" /\ m = n -> toSrv = <<>>
            [] cli = "sending" -> \A i \in 1..Len(toSrv) : WholeLine(toSrv[i])
            [] OTHER -> FileSent /\ (cli = "reply" => m # n)

\* In a session without get and unanswered cd at most one answer is on its way,
\* the one to the command typed last.
Undisturbed == CliOpen /\ past \cap {"get", "silent"} = {}
OneAnswer ==
    Undisturbed =>
        /\ srv \notin {"read_f", "sending", "endGet"} /\ cli \notin {"getName", "write_f"}
        /\ Answer /\ Request

\* The inductive invariant.
IInv ==
    /\ TypeOK /\ Left /\ Numbers
    /\ WholeCommands /\ AnswerComes
    /\ Asked /\ NewFile /\ Gets /\ Puts
    /\ OneAnswer

-----------------------------------------------------------------------------
(* The types *)

\* The sizes of the buffers, and the names of the pieces.
LEMMA Sizes ==
  /\ MAX = 128 /\ FMAX = 1024 /\ Greeting = 255
  /\ MAX \in 1..FMAX /\ FMAX \in 1..FMAX /\ Greeting \in 1..FMAX /\ 1 \in 1..FMAX
  /\ MAX \in Nat /\ FMAX \in Nat /\ Greeting \in Nat
  /\ 0 \in 0..MaxCommands /\ 0 \in 0..MaxLines
  /\ {"hello", "line", "end", "reply", "bye", "name", "got"} = Kinds
  BY NetShellAssumption DEF MAX, FMAX, Greeting, Kinds

\* Appending one of the program's buffers to a stream.
LEMMA SentInside ==
  ASSUME NEW s, Inside(s)
  PROVE  /\ \A c \in Kinds \cup Commands, i \in 0..MaxCommands, l \in 0..MaxLines, k \in {1, MAX, FMAX, Greeting} :
               Inside(Append(s, Buffer(c, i, l, k)))
         /\ Inside(Append(s, EndMark))
         /\ Inside(<<Buffer("hello", 0, 0, Greeting)>>) /\ Inside(<<>>)
<1>1. ASSUME NEW c \in Kinds \cup Commands, NEW i \in 0..MaxCommands, NEW l \in 0..MaxLines,
             NEW k \in {1, MAX, FMAX, Greeting}
      PROVE  Inside(Append(s, Buffer(c, i, l, k)))
  <2> DEFINE p == Buffer(c, i, l, k)
  <2>1. k \in 1..FMAX
    BY Sizes
  <2>2. p \in Piece /\ p.from + p.len <= FMAX
    BY <2>1, SentBuffer
  <2> HIDE DEF p
  <2>3. Inside(Append(s, p))
    BY <2>2, SentLast
  <2>4. QED
    BY <2>3 DEF p
<1>2. Inside(Append(s, EndMark))
  BY <1>1, Sizes DEF EndMark, Kinds
<1>3. Inside(<<>>)
  BY DEF Inside
<1>4. Inside(<<Buffer("hello", 0, 0, Greeting)>>)
  <2> DEFINE p == Buffer("hello", 0, 0, Greeting)
  <2>1. p \in Piece /\ p.from + p.len <= FMAX
    <3>1. "hello" \in Kinds \cup Commands
      BY DEF Kinds
    <3>2. 0 \in 0..MaxCommands /\ 0 \in 0..MaxLines /\ Greeting \in 1..FMAX
      BY Sizes
    <3>3. Buffer("hello", 0, 0, Greeting) \in Piece
      BY <3>1, <3>2, SentBuffer
    <3>4. Buffer("hello", 0, 0, Greeting).from + Buffer("hello", 0, 0, Greeting).len <= FMAX
      BY <3>1, <3>2, SentBuffer, Zenon
    <3>5. QED
      BY <3>3, <3>4
  <2> HIDE DEF p
  <2>2. <<p>> \in Seq(Piece) /\ Len(<<p>>) = 1 /\ <<p>>[1] = p
    BY <2>1
  <2>3. \A i \in 1..Len(<<p>>) : <<p>>[i].from + <<p>>[i].len <= FMAX
    <3>1. \A i \in 1..1 : i = 1
      OBVIOUS
    <3>2. QED
      BY <2>1, <2>2, <3>1, Zenon
  <2>4. QED
    BY <2>2, <2>3 DEF Inside, p
<1>5. QED
  BY <1>1, <1>2, <1>3, <1>4

\* Appending a buffer without a line.
LEMMA SentKind ==
  ASSUME NEW s, Inside(s), NEW c \in Kinds \cup Commands, NEW i \in 0..MaxCommands, NEW k \in {MAX, Greeting}
  PROVE  Inside(Append(s, Buffer(c, i, 0, k)))
  BY Sizes, SentInside

\* What a recv() leaves is a stream.
LEMMA CliRecvInside ==
  ASSUME TypeOK, NEW k \in {MAX, FMAX, Greeting}, NEW t, CliRecv(k, t)
  PROVE  Inside(toCli') /\ t.n \in 0..MaxCommands /\ t.line \in 0..MaxLines
<1>1. Inside(toCli) /\ k \in Nat
  BY Sizes DEF TypeOK
<1>2. toCli' = Skip(toCli, k) /\ t \in Texts(toCli)
  BY DEF CliRecv
<1>3. QED
  BY <1>1, <1>2, SkipShape, TextIs

\* The same for what the server receives.
LEMMA SrvRecvInside ==
  ASSUME TypeOK, NEW k \in {MAX, FMAX, Greeting}, NEW t, SrvRecv(k, t)
  PROVE  Inside(toSrv') /\ t.n \in 0..MaxCommands /\ t.line \in 0..MaxLines
<1>1. Inside(toSrv) /\ k \in Nat
  BY Sizes DEF TypeOK
<1>2. toSrv' = Skip(toSrv, k) /\ t \in Texts(toSrv)
  BY DEF SrvRecv
<1>3. QED
  BY <1>1, <1>2, SkipShape, TextIs

\* The next line is one of the file.
LEMMA NextLineType ==
  ASSUME TypeOK, Left, NEW side \in {"cli", "srv"}, left[side] > 0, NEW i \in 0..MaxCommands
  PROVE  /\ size[side] - left[side] + 1 \in 0..MaxLines
         /\ NextLine(side, i) = Buffer("line", i, size[side] - left[side] + 1, FMAX)
<1>1. left[side] \in 0..MaxLines /\ size[side] \in 0..MaxLines /\ left[side] <= size[side] /\ MaxLines \in Nat
  BY NetShellAssumption DEF TypeOK, Left
<1>2. size[side] - left[side] + 1 \in 0..MaxLines
  BY <1>1
<1>3. QED
  BY <1>2 DEF NextLine

\* fopen() for reading.
LEMMA OpenType ==
  ASSUME TypeOK, Left, NEW side \in {"cli", "srv"}, OpenToRead(side)
  PROVE  /\ left' \in [{"cli", "srv"} -> 0..MaxLines] /\ size' \in [{"cli", "srv"} -> 0..MaxLines]
         /\ Left' /\ left'[side] = size'[side]
         /\ \A d \in {"cli", "srv"} : d # side => left'[d] = left[d] /\ size'[d] = size[d]
<1>1. PICK k \in 0..MaxLines : left' = [left EXCEPT ![side] = k] /\ size' = [size EXCEPT ![side] = k]
  BY DEF OpenToRead
<1>2. left \in [{"cli", "srv"} -> 0..MaxLines] /\ size \in [{"cli", "srv"} -> 0..MaxLines]
  BY DEF TypeOK
<1>3. /\ left' \in [{"cli", "srv"} -> 0..MaxLines] /\ size' \in [{"cli", "srv"} -> 0..MaxLines]
      /\ \A d \in {"cli", "srv"} : left'[d] = (IF d = side THEN k ELSE left[d]) /\ size'[d] = (IF d = side THEN k ELSE size[d])
  BY <1>1, <1>2
<1>4. k \in Nat /\ MaxLines \in Nat
  BY NetShellAssumption
<1>5. QED
  BY <1>3, <1>4 DEF Left

\* One line less is to be sent.
LEMMA LeftType ==
  ASSUME TypeOK, Left, NEW side \in {"cli", "srv"}, left[side] > 0, left' = [left EXCEPT ![side] = @ - 1], size' = size
  PROVE  /\ left' \in [{"cli", "srv"} -> 0..MaxLines] /\ Left'
         /\ left'[side] = left[side] - 1
         /\ \A d \in {"cli", "srv"} : d # side => left'[d] = left[d]
<1>1. left \in [{"cli", "srv"} -> 0..MaxLines] /\ size \in [{"cli", "srv"} -> 0..MaxLines] /\ MaxLines \in Nat
  BY NetShellAssumption DEF TypeOK
<1>2. \A d \in {"cli", "srv"} : left[d] \in Nat /\ left[d] <= MaxLines
  BY <1>1
<1>3. /\ DOMAIN left' = {"cli", "srv"}
      /\ left' = [d \in {"cli", "srv"} |-> left'[d]]
      /\ \A d \in {"cli", "srv"} : left'[d] = IF d = side THEN left[d] - 1 ELSE left[d]
  BY <1>1
<1>4. left[side] - 1 \in 0..MaxLines /\ left[side] - 1 <= left[side]
  BY <1>1, <1>2
<1>5. \A d \in {"cli", "srv"} : left'[d] \in 0..MaxLines /\ left'[d] <= left[d]
  BY <1>1, <1>2, <1>3, <1>4
<1>6. left' \in [{"cli", "srv"} -> 0..MaxLines]
  BY <1>3, <1>5
<1>7. Left'
  BY <1>1, <1>2, <1>5, <1>6 DEF Left
<1>8. QED
  BY <1>3, <1>6, <1>7

\* Every step keeps the types.
LEMMA TypeStep ==
  ASSUME TypeOK, Left, Next
  PROVE  TypeOK' /\ Left'
<1> USE DEF transfer
<1>1. /\ Inside(toSrv) /\ Inside(toCli) /\ n \in 0..MaxCommands /\ m \in 0..MaxCommands /\ MaxCommands \in Nat
      /\ saved \in [{"cli", "srv"} -> Seq(0..MaxLines)] /\ saved.cli \in Seq(0..MaxLines) /\ saved.srv \in Seq(0..MaxLines)
  BY NetShellAssumption DEF TypeOK
<1>2. ASSUME NEW c \in {"reply", "bye", "name", "got"}, NEW i \in 0..MaxCommands, Send(c, i, MAX)
      PROVE  Inside(toCli')
  <2>1. c \in Kinds \cup Commands
    BY DEF Kinds
  <2>2. QED
    BY <1>1, <1>2, <2>1, SentKind DEF Send
<1>3. CASE CliConnect
  BY <1>3 DEF CliConnect, TypeOK, Left
<1>4. CASE CliGreet
  <2>1. Inside(toSrv')
    <3>1. "hello" \in Kinds \cup Commands
      BY DEF Kinds
    <3>2. QED
      BY <1>1, <1>4, <3>1, Sizes, SentKind DEF CliGreet
  <2>2. Inside(toCli')
    BY <1>4, CliRecvInside DEF CliGreet
  <2>3. QED
    BY <1>4, <2>1, <2>2 DEF CliGreet, TypeOK, Left
<1>5. ASSUME NEW c \in Commands, CliType(c) PROVE TypeOK' /\ Left'
  <2>1. n' \in 0..MaxCommands
    BY <1>1, <1>5 DEF CliType
  <2>2. Inside(toSrv')
    BY <1>1, <1>5, <2>1, SentKind DEF CliType
  <2>3. cli' \in {"putName", "getName", "reply"}
    BY <1>5 DEF CliType
  <2>4. past' \subseteq Commands \cup {"silent"}
    BY <1>5 DEF CliType, TypeOK
  <2>5. UNCHANGED <<srv, toCli, m, left, size, saved, right>>
    BY <1>5 DEF CliType
  <2>6. QED
    BY <2>1, <2>2, <2>3, <2>4, <2>5 DEF TypeOK, Left
<1>6. CASE CliBroken
  BY <1>6 DEF CliBroken, TypeOK, Left
<1>7. CASE CliReply
  <2>1. Inside(toCli') /\ cli' \in {"out", "prompt"}
    BY <1>7, CliRecvInside DEF CliReply
  <2>2. UNCHANGED <<srv, toSrv, n, m, left, size, saved, right, past>>
    BY <1>7 DEF CliReply
  <2>3. QED
    BY <2>1, <2>2 DEF TypeOK, Left
<1>8. CASE CliPutName
  <2>1. PICK t \in Texts(toCli) :
          /\ CliRecv(MAX, t)
          /\ right' = (t.kind = "name" /\ t.n = n)
          /\ \/ OpenToRead("cli") /\ cli' = "sending"
             \/ cli' = "out" /\ UNCHANGED <<left, size>>
    BY <1>8 DEF CliPutName
  <2>2. Inside(toCli') /\ right' \in BOOLEAN /\ cli' \in {"sending", "out"}
    BY <2>1, CliRecvInside
  <2>3. /\ left' \in [{"cli", "srv"} -> 0..MaxLines] /\ size' \in [{"cli", "srv"} -> 0..MaxLines]
        /\ Left'
    <3>1. CASE OpenToRead("cli")
      BY <3>1, OpenType
    <3>2. CASE UNCHANGED <<left, size>>
      BY <3>2 DEF TypeOK, Left
    <3>3. QED
      BY <2>1, <3>1, <3>2
  <2>4. UNCHANGED <<srv, toSrv, n, m, saved, past>>
    BY <1>8 DEF CliPutName
  <2>5. QED
    BY <2>2, <2>3, <2>4 DEF TypeOK
<1>9. CASE CliSendLine
  <2>1. /\ left' \in [{"cli", "srv"} -> 0..MaxLines] /\ Left'
    BY <1>9, LeftType DEF CliSendLine
  <2>2. Inside(toSrv')
    <3>1. /\ size.cli - left.cli + 1 \in 0..MaxLines
          /\ NextLine("cli", n) = Buffer("line", n, size.cli - left.cli + 1, FMAX)
      BY <1>1, <1>9, NextLineType DEF CliSendLine
    <3>2. "line" \in Kinds \cup Commands
      BY DEF Kinds
    <3>3. Inside(Append(toSrv, NextLine("cli", n)))
      BY <1>1, <3>1, <3>2, SentInside
    <3>4. QED
      BY <1>9, <3>3 DEF CliSendLine
  <2>3. UNCHANGED <<cli, srv, toCli, n, m, size, saved, right, past>>
    BY <1>9 DEF CliSendLine
  <2>4. QED
    BY <2>1, <2>2, <2>3 DEF TypeOK
<1>10. CASE CliSendEnd
  <2>1. Inside(toSrv')
    BY <1>1, <1>10, SentInside DEF CliSendEnd
  <2>2. QED
    BY <1>10, <2>1 DEF CliSendEnd, TypeOK, Left
<1>11. CASE CliGetName
  <2>1. Inside(toCli') /\ right' \in BOOLEAN /\ cli' \in {"write_f", "out"}
    BY <1>11, CliRecvInside DEF CliGetName
  <2>2. UNCHANGED <<srv, toSrv, n, m, left, size, past>>
    BY <1>11 DEF CliGetName
  <2>3. saved' \in [{"cli", "srv"} -> Seq(0..MaxLines)]
    <3>1. saved' = [saved EXCEPT !.cli = <<>>] /\ <<>> \in Seq(0..MaxLines)
      BY <1>11 DEF CliGetName
    <3>2. QED
      BY <1>1, <3>1
  <2>4. QED
    BY <2>1, <2>2, <2>3 DEF TypeOK, Left
<1>12. CASE CliWrite
  <2>1. PICK t \in Texts(toCli) :
          /\ CliRecv(FMAX, t)
          /\ \/ cli' = "prompt" /\ UNCHANGED saved
             \/ saved' = [saved EXCEPT !.cli = Append(@, t.line)] /\ UNCHANGED cli
    BY <1>12 DEF CliWrite
  <2>2. Inside(toCli') /\ t.line \in 0..MaxLines
    BY <2>1, CliRecvInside
  <2>3. saved' \in [{"cli", "srv"} -> Seq(0..MaxLines)]
    <3>1. Append(saved.cli, t.line) \in Seq(0..MaxLines)
      BY <1>1, <2>2
    <3>2. QED
      BY <1>1, <2>1, <3>1
  <2>4. UNCHANGED <<srv, toSrv, n, m, left, size, right, past>>
    BY <1>12 DEF CliWrite
  <2>5. QED
    BY <2>1, <2>2, <2>3, <2>4 DEF TypeOK, Left
<1>13. CASE SrvAccept
  <2>1. Inside(toCli') /\ Inside(toSrv')
    BY <1>1, <1>13, SentInside DEF SrvAccept
  <2>2. QED
    BY <1>13, <2>1 DEF SrvAccept, TypeOK, Left
<1>14. CASE SrvGreet
  <2>1. Inside(toSrv')
    BY <1>14, SrvRecvInside DEF SrvGreet
  <2>2. QED
    BY <1>14, <2>1 DEF SrvGreet, TypeOK, Left
<1>15. CASE SrvCommand
  <2>1. PICK t \in Texts(toSrv) :
          /\ SrvRecv(MAX, t)
          /\ m' = t.n
          /\ \/ SrvSilentCd(t)
             \/ (SrvReply(t) \/ SrvExit(t) \/ SrvTransfer(t)) /\ UNCHANGED past
    BY <1>15 DEF SrvCommand
  <2>2. Inside(toSrv') /\ m' \in 0..MaxCommands /\ t.n \in 0..MaxCommands
    BY <2>1, SrvRecvInside
  <2>3. Inside(toCli') /\ srv' \in {"recv", "console", "read_f", "open"}
    <3>1. CASE SrvSilentCd(t)
      BY <1>1, <3>1 DEF SrvSilentCd
    <3>2. CASE SrvReply(t) \/ SrvExit(t) \/ SrvTransfer(t)
      BY <1>2, <2>2, <3>2 DEF SrvReply, SrvExit, SrvTransfer
    <3>3. QED
      BY <2>1, <3>1, <3>2
  <2>4. past' \subseteq Commands \cup {"silent"}
    BY <2>1 DEF SrvSilentCd, TypeOK
  <2>5. UNCHANGED <<cli, n, left, size, saved, right>>
    BY <1>15 DEF SrvCommand
  <2>6. QED
    BY <2>2, <2>3, <2>4, <2>5 DEF TypeOK, Left
<1>16. CASE SrvBroken
  BY <1>16 DEF SrvBroken, TypeOK, Left
<1>17. CASE SrvReadOpen
  <2>1. \/ OpenToRead("srv") /\ srv' = "sending"
        \/ srv' = "dead" /\ UNCHANGED <<left, size>>
    BY <1>17 DEF SrvReadOpen
  <2>2. /\ left' \in [{"cli", "srv"} -> 0..MaxLines] /\ size' \in [{"cli", "srv"} -> 0..MaxLines]
        /\ Left'
    <3>1. CASE OpenToRead("srv")
      BY <3>1, OpenType
    <3>2. CASE UNCHANGED <<left, size>>
      BY <3>2 DEF TypeOK, Left
    <3>3. QED
      BY <2>1, <3>1, <3>2
  <2>3. UNCHANGED <<cli, toSrv, toCli, n, m, saved, right, past>>
    BY <1>17 DEF SrvReadOpen
  <2>4. QED
    BY <2>1, <2>2, <2>3 DEF TypeOK
<1>18. CASE SrvSendLine
  <2>1. /\ left' \in [{"cli", "srv"} -> 0..MaxLines] /\ Left'
    BY <1>18, LeftType DEF SrvSendLine
  <2>2. Inside(toCli')
    <3>1. /\ size.srv - left.srv + 1 \in 0..MaxLines
          /\ NextLine("srv", m) = Buffer("line", m, size.srv - left.srv + 1, FMAX)
      BY <1>1, <1>18, NextLineType DEF SrvSendLine
    <3>2. "line" \in Kinds \cup Commands
      BY DEF Kinds
    <3>3. Inside(Append(toCli, NextLine("srv", m)))
      BY <1>1, <3>1, <3>2, SentInside
    <3>4. QED
      BY <1>18, <3>3 DEF SrvSendLine
  <2>3. UNCHANGED <<cli, srv, toSrv, n, m, size, saved, right, past>>
    BY <1>18 DEF SrvSendLine
  <2>4. QED
    BY <2>1, <2>2, <2>3 DEF TypeOK
<1>19. CASE SrvSendEnd
  <2>1. Inside(toCli')
    BY <1>1, <1>19, SentInside DEF SrvSendEnd
  <2>2. QED
    BY <1>19, <2>1 DEF SrvSendEnd, TypeOK, Left
<1>20. CASE SrvSendGet
  <2>1. Inside(toCli')
    BY <1>1, <1>2, <1>20 DEF SrvSendGet
  <2>2. QED
    BY <1>20, <2>1 DEF SrvSendGet, TypeOK, Left
<1>21. CASE SrvWriteOpen
  <2>1. srv' \in {"write_f", "dead"} /\ UNCHANGED <<cli, toSrv, toCli, n, m, left, size, right, past>>
    BY <1>21 DEF SrvWriteOpen
  <2>2. saved' \in [{"cli", "srv"} -> Seq(0..MaxLines)]
    <3>1. saved' = [saved EXCEPT !.srv = <<>>] /\ <<>> \in Seq(0..MaxLines)
      BY <1>21 DEF SrvWriteOpen
    <3>2. QED
      BY <1>1, <3>1
  <2>3. QED
    BY <2>1, <2>2 DEF TypeOK, Left
<1>22. CASE SrvWrite
  <2>1. PICK t \in Texts(toSrv) :
          /\ SrvRecv(FMAX, t)
          /\ \/ srv' = "recv" /\ UNCHANGED saved
             \/ saved' = [saved EXCEPT !.srv = Append(@, t.line)] /\ UNCHANGED srv
    BY <1>22 DEF SrvWrite
  <2>2. Inside(toSrv') /\ t.line \in 0..MaxLines
    BY <2>1, SrvRecvInside
  <2>3. saved' \in [{"cli", "srv"} -> Seq(0..MaxLines)]
    <3>1. Append(saved.srv, t.line) \in Seq(0..MaxLines)
      BY <1>1, <2>2
    <3>2. QED
      BY <1>1, <2>1, <3>1
  <2>4. UNCHANGED <<cli, toCli, n, m, left, size, right, past>>
    BY <1>22 DEF SrvWrite
  <2>5. QED
    BY <2>1, <2>2, <2>3, <2>4 DEF TypeOK, Left
<1>23. CASE SrvConsole
  BY <1>23 DEF SrvConsole, TypeOK, Left
<1>24. QED
  BY <1>3, <1>4, <1>5, <1>6, <1>7, <1>8, <1>9, <1>10, <1>11, <1>12, <1>13, <1>14, <1>15,
     <1>16, <1>17, <1>18, <1>19, <1>20, <1>21, <1>22, <1>23 DEF Next, CliStep, SrvStep, User

-----------------------------------------------------------------------------
(* The numbers of the commands *)

\* Each piece left by a recv() is one that was there, the last one the last one.
LEMMA SkipPiece ==
  ASSUME NEW s, Inside(s), NEW k \in Nat, NEW i \in 1..Len(Skip(s, k))
  PROVE  \E j \in 1..Len(s) :
            /\ Skip(s, k)[i].n = s[j].n /\ Skip(s, k)[i].kind = s[j].kind
            /\ Skip(s, k)[i].from = 0 => Skip(s, k)[i] = s[j]
            /\ j = Len(s) => i = Len(Skip(s, k))
<1> DEFINE t == Skip(s, k)
           j == Len(s) - Len(t) + i
<1>1. /\ j \in 1..Len(s) /\ t[i].kind = s[j].kind /\ t[i].n = s[j].n
      /\ t[i].from = 0 => t[i] = s[j]
  BY SkipShape
<1>2. Len(s) \in Nat /\ Len(t) \in Nat
  BY SkipShape DEF Inside
<1>3. j = Len(s) => i = Len(t)
  BY <1>2
<1>4. QED
  BY <1>1, <1>3

\* Receiving and sending keep the bound on the commands of pieces.
LEMMA UpToSkip ==
  ASSUME NEW s, Inside(s), NEW k \in Nat, NEW l \in Nat, UpTo(s, l)
  PROVE  UpTo(Skip(s, k), l)
<1>1. ASSUME NEW i \in 1..Len(Skip(s, k)) PROVE Skip(s, k)[i].n <= l
  <2>1. PICK j \in 1..Len(s) : Skip(s, k)[i].n = s[j].n
    BY SkipPiece
  <2>2. s[j].n <= l
    BY DEF UpTo
  <2>3. QED
    BY <2>1, <2>2
<1>2. QED
  BY <1>1 DEF UpTo

\* A piece of a command typed keeps the numbers.
LEMMA UpToSent ==
  ASSUME NEW s, Inside(s), NEW l \in 0..MaxCommands, UpTo(s, l),
         NEW c \in Kinds \cup Commands, NEW i \in 0..l, NEW d \in 0..MaxLines, NEW k \in {1, MAX, FMAX, Greeting}
  PROVE  UpTo(Append(s, Buffer(c, i, d, k)), l)
<1> DEFINE p == Buffer(c, i, d, k)
           r == Append(s, p)
<1>1. i \in 0..MaxCommands /\ k \in 1..FMAX /\ i <= l
  BY NetShellAssumption, Sizes
<1>2. p \in Piece /\ p.from + p.len <= FMAX /\ p.n = i
  BY <1>1, SentBuffer
<1> HIDE DEF p
<1>3. Len(s) \in Nat /\ Len(r) = Len(s) + 1 /\ (\A j \in 1..Len(s) : r[j] = s[j]) /\ r[Len(s) + 1] = p
  BY <1>2, SentLast
<1> HIDE DEF r
<1>4. ASSUME NEW j \in 1..Len(r) PROVE r[j].n <= l
  <2>1. CASE j = Len(s) + 1
    BY <1>1, <1>2, <1>3, <2>1
  <2>2. CASE j # Len(s) + 1
    <3>1. j \in 1..Len(s)
      BY <1>3, <2>2
    <3>2. QED
      BY <1>3, <3>1 DEF UpTo
  <2>3. QED
    BY <2>1, <2>2
<1>5. QED
  BY <1>4 DEF UpTo, r, p

\* Every step keeps the bound.
LEMMA NumbersStep ==
  ASSUME TypeOK, Left, Numbers, Next
  PROVE  Numbers'
<1> USE DEF transfer
<1>1. /\ Inside(toSrv) /\ Inside(toCli) /\ n \in 0..MaxCommands /\ m \in 0..MaxCommands /\ MaxCommands \in Nat
      /\ n \in Nat /\ m \in Nat /\ m <= n /\ UpTo(toSrv, n) /\ UpTo(toCli, n) /\ 0 \in 0..n /\ n \in 0..n /\ m \in 0..n
  BY NetShellAssumption DEF TypeOK, Numbers
<1>2. ASSUME NEW k \in {MAX, FMAX, Greeting}
      PROVE  UpTo(Skip(toSrv, k), n) /\ UpTo(Skip(toCli, k), n)
  BY <1>1, Sizes, UpToSkip
<1>3. ASSUME NEW c \in Kinds \cup Commands, NEW i \in 0..n, NEW d \in 0..MaxLines, NEW k \in {1, MAX, FMAX, Greeting}
      PROVE  UpTo(Append(toSrv, Buffer(c, i, d, k)), n) /\ UpTo(Append(toCli, Buffer(c, i, d, k)), n)
  BY <1>1, UpToSent
<1>4. \A c \in {"hello", "line", "end", "reply", "bye", "name", "got"} : c \in Kinds \cup Commands
  BY DEF Kinds
<1>5. ASSUME m' = m, n' = n, toSrv' = toSrv \/ UpTo(toSrv', n), toCli' = toCli \/ UpTo(toCli', n)
      PROVE  Numbers'
  BY <1>1, <1>5 DEF Numbers
<1>6. CASE CliConnect
  BY <1>5, <1>6 DEF CliConnect
<1>7. CASE CliGreet
  <2>1. toCli' = Skip(toCli, Greeting)
    BY <1>7 DEF CliGreet, CliRecv
  <2>2. UpTo(toSrv', n)
    BY <1>1, <1>3, <1>4, <1>7, Sizes DEF CliGreet
  <2>3. QED
    BY <1>2, <1>5, <1>7, <2>1, <2>2 DEF CliGreet
<1>8. ASSUME NEW c \in Commands, CliType(c) PROVE Numbers'
  <2>1. n' = n + 1 /\ n' \in 0..MaxCommands /\ m' = m /\ toCli' = toCli /\ toSrv' = Append(toSrv, Buffer(c, n', 0, MAX))
    BY <1>1, <1>8 DEF CliType
  <2>2. UpTo(toSrv, n + 1) /\ UpTo(toCli, n + 1)
    <3>1. ASSUME NEW p \in Piece, p.n <= n PROVE p.n <= n + 1
      BY <1>1, <3>1, PieceFields
    <3>2. \A i \in 1..Len(toSrv) : toSrv[i] \in Piece
      BY <1>1 DEF Inside
    <3>3. \A i \in 1..Len(toCli) : toCli[i] \in Piece
      BY <1>1 DEF Inside
    <3>4. QED
      BY <1>1, <3>1, <3>2, <3>3 DEF UpTo
  <2>3. n + 1 \in 0..n + 1
    BY <1>1
  <2>4. UpTo(Append(toSrv, Buffer(c, n + 1, 0, MAX)), n + 1)
    BY <1>1, <2>1, <2>2, <2>3, Sizes, UpToSent
  <2>5. QED
    BY <1>1, <2>1, <2>2, <2>4 DEF Numbers
<1>9. CASE CliBroken
  BY <1>5, <1>9 DEF CliBroken
<1>10. CASE CliReply
  BY <1>2, <1>5, <1>10 DEF CliReply, CliRecv
<1>11. CASE CliPutName
  BY <1>2, <1>5, <1>11 DEF CliPutName, CliRecv
<1>12. CASE CliSendLine
  <2>1. UpTo(toSrv', n)
    BY <1>1, <1>3, <1>4, <1>12, NextLineType DEF CliSendLine
  <2>2. QED
    BY <1>5, <1>12, <2>1 DEF CliSendLine
<1>13. CASE CliSendEnd
  <2>1. UpTo(toSrv', n)
    BY <1>1, <1>3, <1>4, <1>13, Sizes DEF CliSendEnd, EndMark
  <2>2. QED
    BY <1>5, <1>13, <2>1 DEF CliSendEnd
<1>14. CASE CliGetName
  BY <1>2, <1>5, <1>14 DEF CliGetName, CliRecv
<1>15. CASE CliWrite
  BY <1>2, <1>5, <1>15 DEF CliWrite, CliRecv
<1>16. CASE SrvAccept
  <2>1. toSrv' = <<>> /\ toCli' = Append(<<>>, Buffer("hello", 0, 0, Greeting))
    BY <1>16 DEF SrvAccept
  <2>2. UpTo(<<>>, n)
    BY DEF UpTo
  <2>3. Inside(<<>>)
    BY <1>1, SentInside
  <2>4. UpTo(Append(<<>>, Buffer("hello", 0, 0, Greeting)), n)
    <3>1. "hello" \in Kinds \cup Commands /\ Greeting \in {1, MAX, FMAX, Greeting} /\ 0 \in 0..MaxLines
      BY <1>4, Sizes
    <3>2. QED
      BY <1>1, <2>2, <2>3, <3>1, UpToSent
  <2>5. QED
    BY <1>5, <1>16, <2>1, <2>2, <2>4 DEF SrvAccept
<1>17. CASE SrvGreet
  BY <1>2, <1>5, <1>17 DEF SrvGreet, SrvRecv
<1>18. CASE SrvCommand
  <2>1. PICK t \in Texts(toSrv) :
          /\ SrvRecv(MAX, t)
          /\ m' = t.n
          /\ \/ SrvSilentCd(t)
             \/ SrvReply(t) \/ SrvExit(t) \/ SrvTransfer(t)
    BY <1>18 DEF SrvCommand
  <2>2. t.n \in 0..n
    <3>1. CASE t.kind \in {"", "junk"}
      BY <1>1, <3>1, TextIs
    <3>2. CASE t.kind \notin {"", "junk"}
      <4>1. toSrv # <<>> /\ t.n = toSrv[1].n /\ t.n \in 0..MaxCommands
        BY <1>1, <3>2, TextIs
      <4>2. 1 \in 1..Len(toSrv)
        BY <1>1, <4>1 DEF Inside
      <4>3. toSrv[1].n <= n
        BY <1>1, <4>2 DEF UpTo
      <4>4. QED
        BY <1>1, <4>1, <4>3
    <3>3. QED
      BY <3>1, <3>2
  <2>3. UpTo(toSrv', n)
    BY <1>2, <2>1 DEF SrvRecv
  <2>4. UpTo(toCli', n)
    <3>1. CASE SrvSilentCd(t)
      BY <1>1, <3>1 DEF SrvSilentCd
    <3>2. CASE SrvReply(t) \/ SrvExit(t) \/ SrvTransfer(t)
      <4>1. PICK c \in {"reply", "bye", "name"} : toCli' = Append(toCli, Buffer(c, t.n, 0, MAX))
        BY <3>2 DEF SrvReply, SrvExit, SrvTransfer, Send
      <4>2. c \in Kinds \cup Commands /\ MAX \in {1, MAX, FMAX, Greeting} /\ 0 \in 0..MaxLines
        BY <1>4, Sizes
      <4>3. QED
        BY <1>3, <2>2, <4>1, <4>2
    <3>3. QED
      BY <2>1, <3>1, <3>2
  <2>5. n' = n
    BY <1>18 DEF SrvCommand
  <2>6. QED
    BY <1>1, <2>1, <2>2, <2>3, <2>4, <2>5 DEF Numbers
<1>19. CASE SrvBroken
  BY <1>5, <1>19 DEF SrvBroken
<1>20. CASE SrvReadOpen
  BY <1>5, <1>20 DEF SrvReadOpen
<1>21. CASE SrvSendLine
  <2>1. UpTo(toCli', n)
    BY <1>1, <1>3, <1>4, <1>21, NextLineType DEF SrvSendLine
  <2>2. QED
    BY <1>5, <1>21, <2>1 DEF SrvSendLine
<1>22. CASE SrvSendEnd
  <2>1. UpTo(toCli', n)
    BY <1>1, <1>3, <1>4, <1>22, Sizes DEF SrvSendEnd, EndMark
  <2>2. QED
    BY <1>5, <1>22, <2>1 DEF SrvSendEnd
<1>23. CASE SrvSendGet
  <2>1. UpTo(toCli', n)
    BY <1>1, <1>3, <1>4, <1>23, Sizes DEF SrvSendGet, Send
  <2>2. QED
    BY <1>5, <1>23, <2>1 DEF SrvSendGet
<1>24. CASE SrvWriteOpen
  BY <1>5, <1>24 DEF SrvWriteOpen
<1>25. CASE SrvWrite
  BY <1>2, <1>5, <1>25 DEF SrvWrite, SrvRecv
<1>26. CASE SrvConsole
  BY <1>5, <1>26 DEF SrvConsole
<1>27. QED
  BY <1>6, <1>7, <1>8, <1>9, <1>10, <1>11, <1>12, <1>13, <1>14, <1>15, <1>16, <1>17, <1>18,
     <1>19, <1>20, <1>21, <1>22, <1>23, <1>24, <1>25, <1>26 DEF Next, CliStep, SrvStep, User

-----------------------------------------------------------------------------
(* A client that waits for a file name *)

\* Receiving and sending keep command k out of a stream.
LEMMA NoPieceSent ==
  ASSUME NEW s, Inside(s), NEW k, NoPiece(s, k),
         NEW c \in Kinds \cup Commands, NEW i \in 0..MaxCommands, i # k,
         NEW d \in 0..MaxLines, NEW l \in {1, MAX, FMAX, Greeting}
  PROVE  NoPiece(Append(s, Buffer(c, i, d, l)), k)
<1> DEFINE p == Buffer(c, i, d, l)
           r == Append(s, p)
<1>1. p \in Piece /\ p.from + p.len <= FMAX /\ p.n = i
  <2>1. l \in 1..FMAX
    BY Sizes
  <2>2. QED
    BY <2>1, SentBuffer
<1> HIDE DEF p
<1>2. Len(s) \in Nat /\ Len(r) = Len(s) + 1 /\ (\A j \in 1..Len(s) : r[j] = s[j]) /\ r[Len(s) + 1] = p
  BY <1>1, SentLast
<1> HIDE DEF r
<1>3. ASSUME NEW j \in 1..Len(r) PROVE r[j].n # k
  <2>1. CASE j = Len(s) + 1
    BY <1>1, <1>2, <2>1
  <2>2. CASE j # Len(s) + 1
    <3>1. j \in 1..Len(s)
      BY <1>2, <2>2
    <3>2. QED
      BY <1>2, <3>1 DEF NoPiece
  <2>3. QED
    BY <2>1, <2>2
<1>4. QED
  BY <1>3 DEF NoPiece, r, p

\* A recv() keeps a last command last.
LEMMA LastIsSkip ==
  ASSUME NEW s, Inside(s), NEW l \in Nat, NEW c, NEW k, LastIs(s, c, k)
  PROVE  LastIs(Skip(s, l), c, k)
<1>1. ASSUME NEW i \in 1..Len(Skip(s, l)), Skip(s, l)[i].n = k
      PROVE  i = Len(Skip(s, l)) /\ (Skip(s, l)[i].from = 0 => Skip(s, l)[i] = Buffer(c, k, 0, MAX))
  <2>1. PICK j \in 1..Len(s) :
            /\ Skip(s, l)[i].n = s[j].n
            /\ Skip(s, l)[i].from = 0 => Skip(s, l)[i] = s[j]
            /\ j = Len(s) => i = Len(Skip(s, l))
    BY SkipPiece
  <2>2. j = Len(s) /\ (s[j].from = 0 => s[j] = Buffer(c, k, 0, MAX))
    BY <1>1, <2>1 DEF LastIs
  <2>3. QED
    BY <2>1, <2>2
<1>2. QED
  BY <1>1 DEF LastIs

\* A recv() of a last command that comes whole takes all there is.
LEMMA LastTaken ==
  ASSUME NEW s, Inside(s), NEW c \in Commands, NEW k \in 0..MaxCommands, LastIs(s, c, k),
         s # <<>>, s[1].n = k, s[1].from = 0
  PROVE  Skip(s, MAX) = <<>> /\ s[1].kind = c
<1>1. Len(s) \in Nat /\ 1 \in 1..Len(s) /\ Len(s) >= 1
  BY DEF Inside
<1>2. 1 = Len(s) /\ s[1] = Buffer(c, k, 0, MAX)
  BY <1>1 DEF LastIs
<1>3. s[1].kind = c /\ s[1].len = MAX
  BY <1>2 DEF Buffer
<1>4. Inside(Skip(s, MAX)) /\ Len(Skip(s, MAX)) = Len(s) - 1
  BY <1>3, FirstTaken
<1>5. Len(Skip(s, MAX)) = 0
  BY <1>2, <1>4
<1>6. QED
  BY <1>3, <1>4, <1>5 DEF Inside

\* Every step keeps what is known of a client that waits for a name.
LEMMA AskedStep ==
  ASSUME TypeOK, Left, Numbers, Asked, Next
  PROVE  Asked'
<1> USE DEF transfer
<1> DEFINE w == IF cli = "putName" THEN "put" ELSE "get"
<1>1. /\ Inside(toSrv) /\ Inside(toCli) /\ n \in 0..MaxCommands /\ m \in 0..MaxCommands /\ MaxCommands \in Nat
      /\ n \in Nat /\ m \in Nat /\ m <= n /\ UpTo(toSrv, n) /\ UpTo(toCli, n)
  BY NetShellAssumption DEF TypeOK, Numbers
<1>2. ASSUME cli' \notin {"putName", "getName"} PROVE Asked'
  BY <1>2 DEF Asked
<1>3. ASSUME NEW c \in Commands, CliType(c) PROVE Asked'
  <2>1. n' = n + 1 /\ m' = m /\ n' \in 0..MaxCommands /\ toCli' = toCli /\ toSrv' = Append(toSrv, Buffer(c, n', 0, MAX))
    BY <1>1, <1>3 DEF CliType
  <2>2. m' # n'
    BY <1>1, <2>1
  <2>3. NoPiece(toCli', n')
    <3>1. ASSUME NEW i \in 1..Len(toCli) PROVE toCli[i].n # n + 1
      <4>1. toCli[i] \in Piece /\ toCli[i].n <= n
        BY <1>1 DEF Inside, UpTo
      <4>2. toCli[i].n \in Nat
        BY <4>1, PieceFields
      <4>3. QED
        BY <1>1, <4>1, <4>2
    <3>2. QED
      BY <2>1, <3>1 DEF NoPiece
  <2>4. LastIs(toSrv', c, n')
    <3> DEFINE p == Buffer(c, n', 0, MAX)
    <3>1. p \in Piece /\ p.from + p.len <= FMAX
      <4>1. MAX \in 1..FMAX /\ 0 \in 0..MaxLines /\ c \in Kinds \cup Commands
        BY Sizes
      <4>2. QED
        BY <2>1, <4>1, SentBuffer
    <3>2. /\ Len(toSrv) \in Nat /\ Len(toSrv') = Len(toSrv) + 1
          /\ \A j \in 1..Len(toSrv) : toSrv'[j] = toSrv[j]
          /\ toSrv'[Len(toSrv) + 1] = p
      <4> HIDE DEF p
      <4>1. toSrv' = Append(toSrv, p)
        BY <2>1 DEF p
      <4>2. QED
        BY <1>1, <3>1, <4>1, SentLast
    <3>3. ASSUME NEW i \in 1..Len(toSrv'), toSrv'[i].n = n'
          PROVE  i = Len(toSrv') /\ (toSrv'[i].from = 0 => toSrv'[i] = Buffer(c, n', 0, MAX))
      <4>1. CASE i = Len(toSrv) + 1
        BY <3>2, <4>1
      <4>2. CASE i # Len(toSrv) + 1
        <5>1. i \in 1..Len(toSrv) /\ toSrv'[i] = toSrv[i]
          BY <3>2, <4>2
        <5>2. toSrv[i] \in Piece /\ toSrv[i].n <= n
          BY <1>1, <5>1 DEF Inside, UpTo
        <5>3. toSrv[i].n \in Nat /\ toSrv[i].n = n + 1
          BY <2>1, <3>3, <5>1, <5>2, PieceFields
        <5>4. QED
          BY <1>1, <5>2, <5>3
      <4>3. QED
        BY <4>1, <4>2
    <3>4. QED
      BY <3>3 DEF LastIs
  <2>5. cli' \in {"putName", "getName"} => c = IF cli' = "putName" THEN "put" ELSE "get"
    BY <1>3 DEF CliType
  <2>6. QED
    BY <2>2, <2>3, <2>4, <2>5 DEF Asked
<1>4. ASSUME cli \in {"putName", "getName"}, cli' = cli, n' = n, m' = m, m = n,
             toSrv' = toSrv,
             \/ cli = "putName" /\ srv' \in {"open", "write_f", "dead"}
             \/ cli = "getName" /\ srv' \in {"read_f", "sending", "endGet", "recv", "dead"}
      PROVE  Asked'
  BY <1>4 DEF Asked
<1>5. ASSUME cli \in {"putName", "getName"}, cli' = cli, n' = n, m' = m, m # n,
             NoPiece(toCli', n), LastIs(toSrv', w, n)
      PROVE  Asked'
  BY <1>5 DEF Asked
<1>6. ASSUME cli \in {"putName", "getName"}, m = n
      PROVE  /\ toSrv = <<>>
             /\ cli = "putName" => srv \in {"open", "write_f", "dead"}
             /\ cli = "getName" => srv \in {"read_f", "sending", "endGet", "recv", "dead"}
  BY <1>6 DEF Asked
<1>7. ASSUME cli \in {"putName", "getName"}, m # n
      PROVE  /\ NoPiece(toCli, n) /\ LastIs(toSrv, w, n)
             /\ \A k \in {MAX, FMAX, Greeting} : LastIs(Skip(toSrv, k), w, n)
             /\ \A c \in Kinds \cup Commands, i \in 0..MaxCommands, d \in 0..MaxLines, k \in {1, MAX, FMAX, Greeting} :
                   i # n => NoPiece(Append(toCli, Buffer(c, i, d, k)), n)
  <2>1. NoPiece(toCli, n) /\ LastIs(toSrv, w, n)
    BY <1>7 DEF Asked
  <2> HIDE DEF w
  <2>2. \A k \in {MAX, FMAX, Greeting} : LastIs(Skip(toSrv, k), w, n)
    BY <1>1, <2>1, Sizes, LastIsSkip
  <2>3. QED
    BY <1>1, <2>1, <2>2, NoPieceSent DEF w
<1>8. \A c \in {"hello", "line", "end", "reply", "bye", "name", "got"} : c \in Kinds \cup Commands
  BY DEF Kinds
<1> HIDE DEF w
<1>9. CASE CliConnect \/ CliGreet \/ CliBroken \/ CliReply \/ CliPutName \/ CliSendLine
           \/ CliSendEnd \/ CliGetName \/ CliWrite \/ SrvAccept
  BY <1>2, <1>9 DEF CliConnect, CliGreet, CliBroken, CliReply, CliPutName, CliSendLine,
     CliSendEnd, CliGetName, CliWrite, SrvAccept
<1>10. CASE cli \notin {"putName", "getName"} /\ (SrvStep \/ SrvConsole)
  <2>1. cli' = cli \/ cli' = "greet"
    BY <1>10 DEF SrvStep, SrvAccept, SrvGreet, SrvCommand, SrvBroken, SrvReadOpen, SrvSendLine,
       SrvSendEnd, SrvSendGet, SrvWriteOpen, SrvWrite, SrvConsole
  <2>2. QED
    BY <1>2, <1>10, <2>1
<1>11. ASSUME cli \in {"putName", "getName"} PROVE CliOpen
  BY <1>11 DEF CliOpen
<1>12. ASSUME cli \in {"putName", "getName"}, SrvGreet PROVE Asked'
  <2>1. toSrv' = Skip(toSrv, Greeting) /\ m # n
    BY <1>6, <1>12 DEF SrvGreet, SrvRecv
  <2>2. QED
    BY <1>5, <1>7, <1>12, <2>1 DEF SrvGreet
<1>13. ASSUME cli \in {"putName", "getName"}, SrvCommand PROVE Asked'
  <2>1. PICK t \in Texts(toSrv) :
          /\ SrvRecv(MAX, t)
          /\ m' = t.n
          /\ \/ SrvSilentCd(t)
             \/ SrvReply(t) \/ SrvExit(t) \/ SrvTransfer(t)
    BY <1>13 DEF SrvCommand
  <2>2. cli' = cli /\ n' = n /\ m # n /\ toSrv' = Skip(toSrv, MAX)
    BY <1>6, <1>13, <2>1 DEF SrvCommand, SrvRecv
  <2>3. t.n \in 0..MaxCommands
    BY <1>1, TextIs
  <2>4. CASE t.n = n
    <3>1. n # 0
      BY <1>1, <2>2
    <3>2. t.kind \notin {"", "junk"}
      BY <1>1, <2>4, <3>1, TextIs
    <3>3. toSrv # <<>> /\ toSrv[1].from = 0 /\ t.kind = toSrv[1].kind /\ toSrv[1].n = n
      BY <1>1, <2>4, <3>2, TextIs
    <3>4. CASE w \in Commands
      <4>1. toSrv' = <<>> /\ t.kind = w
        BY <1>1, <1>7, <1>13, <2>2, <3>3, <3>4, LastTaken
      <4>2. SrvTransfer(t)
        BY <2>1, <4>1 DEF SrvSilentCd, SrvReply, SrvExit, w
      <4>3. srv' = IF cli = "getName" THEN "read_f" ELSE "open"
        BY <1>13, <4>1, <4>2 DEF SrvTransfer, w
      <4>4. QED
        BY <1>13, <2>1, <2>2, <2>4, <4>1, <4>3 DEF Asked
    <3>5. CASE w \notin Commands
      <4>1. 1 \in 1..Len(toSrv)
        BY <1>1, <3>3 DEF Inside
      <4>2. toSrv[1] = Buffer(w, n, 0, MAX) /\ toSrv[1] \in Piece
        BY <1>1, <1>7, <1>13, <2>2, <3>3, <4>1 DEF LastIs, Inside
      <4>3. toSrv[1].kind = w /\ toSrv[1].kind \in Kinds \cup Commands
        BY <4>2, PieceFields DEF Buffer
      <4>4. QED
        BY <3>5, <4>3 DEF Kinds, w
    <3>6. QED
      BY <3>4, <3>5
  <2>5. CASE t.n # n
    <3>1. NoPiece(toCli', n)
      <4>1. CASE SrvSilentCd(t)
        BY <1>7, <1>13, <2>2, <4>1 DEF SrvSilentCd
      <4>2. CASE SrvReply(t) \/ SrvExit(t) \/ SrvTransfer(t)
        <5>1. PICK c \in {"reply", "bye", "name"} : toCli' = Append(toCli, Buffer(c, t.n, 0, MAX))
          BY <4>2 DEF SrvReply, SrvExit, SrvTransfer, Send
        <5>2. c \in Kinds \cup Commands /\ MAX \in {1, MAX, FMAX, Greeting} /\ 0 \in 0..MaxLines
          BY <1>8, Sizes
        <5>3. QED
          BY <1>7, <1>13, <2>2, <2>3, <2>5, <5>1, <5>2
      <4>3. QED
        BY <2>1, <4>1, <4>2
    <3>2. LastIs(toSrv', w, n)
      BY <1>7, <1>13, <2>2
    <3>3. QED
      BY <1>13, <2>1, <2>2, <2>5, <3>1, <3>2 DEF Asked, w
  <2>6. QED
    BY <2>4, <2>5
<1>14. ASSUME cli \in {"putName", "getName"}, SrvBroken PROVE Asked'
  BY <1>11, <1>14 DEF SrvBroken
<1>15. ASSUME cli \in {"putName", "getName"}, SrvReadOpen PROVE Asked'
  <2>1. cli' = cli /\ n' = n /\ m' = m /\ toSrv' = toSrv /\ toCli' = toCli /\ srv = "read_f" /\ srv' \in {"sending", "dead"}
    BY <1>15 DEF SrvReadOpen
  <2>2. QED
    BY <1>4, <1>5, <1>6, <1>7, <1>15, <2>1
<1>16. ASSUME cli \in {"putName", "getName"}, SrvSendLine PROVE Asked'
  <2>1. cli' = cli /\ n' = n /\ m' = m /\ toSrv' = toSrv /\ srv = "sending" /\ srv' = srv
        /\ toCli' = Append(toCli, NextLine("srv", m)) /\ left.srv > 0
    BY <1>16 DEF SrvSendLine
  <2>2. CASE m = n
    BY <1>4, <1>6, <1>16, <2>1, <2>2
  <2>3. CASE m # n
    <3>1. size.srv - left.srv + 1 \in 0..MaxLines /\ NextLine("srv", m) = Buffer("line", m, size.srv - left.srv + 1, FMAX)
      BY <1>1, <2>1, NextLineType
    <3>2. NoPiece(toCli', n)
      BY <1>1, <1>7, <1>8, <1>16, <2>1, <2>3, <3>1
    <3>3. QED
      BY <1>5, <1>7, <1>16, <2>1, <2>3, <3>2
  <2>4. QED
    BY <2>2, <2>3
<1>17. ASSUME cli \in {"putName", "getName"}, SrvSendEnd PROVE Asked'
  <2>1. cli' = cli /\ n' = n /\ m' = m /\ toSrv' = toSrv /\ srv = "sending" /\ srv' = "endGet"
        /\ toCli' = Append(toCli, Buffer("end", 0, 0, 1))
    BY <1>17 DEF SrvSendEnd, EndMark
  <2>2. CASE m = n
    BY <1>4, <1>6, <1>17, <2>1, <2>2
  <2>3. CASE m # n
    <3>1. 0 # n
      BY <1>1, <2>3
    <3>2. NoPiece(toCli', n)
      BY <1>1, <1>7, <1>8, <1>17, <2>1, <2>3, <3>1, Sizes
    <3>3. QED
      BY <1>5, <1>7, <1>17, <2>1, <2>3, <3>2
  <2>4. QED
    BY <2>2, <2>3
<1>18. ASSUME cli \in {"putName", "getName"}, SrvSendGet PROVE Asked'
  <2>1. cli' = cli /\ n' = n /\ m' = m /\ toSrv' = toSrv /\ srv = "endGet" /\ srv' = "recv"
        /\ toCli' = Append(toCli, Buffer("got", m, 0, MAX))
    BY <1>18 DEF SrvSendGet, Send
  <2>2. CASE m = n
    BY <1>4, <1>6, <1>18, <2>1, <2>2
  <2>3. CASE m # n
    <3>1. NoPiece(toCli', n)
      BY <1>1, <1>7, <1>8, <1>18, <2>1, <2>3, Sizes
    <3>2. QED
      BY <1>5, <1>7, <1>18, <2>1, <2>3, <3>1
  <2>4. QED
    BY <2>2, <2>3
<1>19. ASSUME cli \in {"putName", "getName"}, SrvWriteOpen PROVE Asked'
  <2>1. cli' = cli /\ n' = n /\ m' = m /\ toSrv' = toSrv /\ toCli' = toCli /\ srv = "open" /\ srv' \in {"write_f", "dead"}
    BY <1>19 DEF SrvWriteOpen
  <2>2. QED
    BY <1>4, <1>5, <1>6, <1>7, <1>19, <2>1
<1>20. ASSUME cli \in {"putName", "getName"}, SrvWrite PROVE Asked'
  <2>1. cli' = cli /\ n' = n /\ m' = m /\ toSrv' = Skip(toSrv, FMAX) /\ toCli' = toCli
    BY <1>20 DEF SrvWrite, SrvRecv
  <2>2. m # n
    BY <1>6, <1>11, <1>20 DEF SrvWrite, SrvRecv
  <2>3. QED
    BY <1>5, <1>7, <1>20, <2>1, <2>2
<1>21. ASSUME cli \in {"putName", "getName"}, SrvConsole PROVE Asked'
  <2>1. cli' = cli /\ n' = n /\ m' = m /\ toSrv' = toSrv /\ toCli' = toCli /\ srv = "console"
    BY <1>21 DEF SrvConsole
  <2>2. QED
    BY <1>5, <1>6, <1>7, <1>21, <2>1
<1>22. QED
  BY <1>3, <1>9, <1>10, <1>12, <1>13, <1>14, <1>15, <1>16, <1>17, <1>18, <1>19, <1>20, <1>21
     DEF Next, CliStep, SrvStep, User

-----------------------------------------------------------------------------
(* get: the file behind its name *)

\* The sizes as numbers, and the cases of GetRest().
LEMMA RestNumbers ==
  ASSUME TypeOK, Left
  PROVE  /\ left.srv \in Nat /\ size.srv \in Nat /\ left.srv <= size.srv /\ size.srv \in 0..MaxLines
         /\ left.cli \in Nat /\ size.cli \in Nat /\ left.cli <= size.cli /\ size.cli \in 0..MaxLines
         /\ Len(toCli) \in Nat /\ Len(toSrv) \in Nat
         /\ saved.cli \in Seq(0..MaxLines) /\ saved.srv \in Seq(0..MaxLines)
         /\ Len(saved.cli) \in Nat /\ Len(saved.srv) \in Nat
<1>1. /\ left \in [{"cli", "srv"} -> 0..MaxLines] /\ size \in [{"cli", "srv"} -> 0..MaxLines]
      /\ saved \in [{"cli", "srv"} -> Seq(0..MaxLines)] /\ MaxLines \in Nat
      /\ toCli \in Seq(Piece) /\ toSrv \in Seq(Piece)
  BY NetShellAssumption DEF TypeOK, Inside
<1>2. saved.cli \in Seq(0..MaxLines) /\ saved.srv \in Seq(0..MaxLines)
  BY <1>1
<1>3. Len(toCli) \in Nat /\ Len(toSrv) \in Nat /\ Len(saved.cli) \in Nat /\ Len(saved.srv) \in Nat
  BY <1>1, <1>2
<1>4. left.srv \in 0..MaxLines /\ size.srv \in 0..MaxLines /\ left.cli \in 0..MaxLines /\ size.cli \in 0..MaxLines
  BY <1>1
<1>5. QED
  BY <1>1, <1>2, <1>3, <1>4 DEF Left

\* What the server sends for a get follows what it has sent.
LEMMA RestServer ==
  ASSUME TypeOK, Left, m = n, NEW j \in 0..Len(toCli), NEW q \in Nat, GetRest(j, q),
         SrvReadOpen \/ SrvSendLine \/ SrvSendEnd \/ SrvSendGet
  PROVE  /\ GetRest(j, q)' /\ m' = m /\ n' = n /\ toSrv' = toSrv /\ cli' = cli
         /\ saved' = saved /\ right' = right
         /\ Len(toCli') >= Len(toCli) /\ Len(toCli') \in Nat
         /\ \A i \in 1..Len(toCli) : toCli'[i] = toCli[i]
<1> USE DEF transfer
<1>1. /\ left.srv \in Nat /\ size.srv \in Nat /\ left.srv <= size.srv /\ size.srv \in 0..MaxLines
      /\ Len(toCli) \in Nat /\ j \in Nat
      /\ Inside(toCli) /\ m \in 0..MaxCommands
  BY RestNumbers DEF TypeOK
<1> DEFINE k == size.srv - left.srv - q
<1>2. CASE SrvReadOpen
  <2>1. /\ srv = "read_f" /\ toCli' = toCli
        /\ m' = m /\ n' = n /\ toSrv' = toSrv /\ cli' = cli /\ saved' = saved /\ right' = right
        /\ \/ OpenToRead("srv") /\ srv' = "sending"
           \/ srv' = "dead"
    BY <1>2 DEF SrvReadOpen
  <2>2. Len(toCli) = j /\ q = 0
    BY <2>1 DEF GetRest
  <2>3. CASE srv' = "dead"
    BY <1>1, <2>1, <2>2, <2>3 DEF GetRest
  <2>4. CASE OpenToRead("srv") /\ srv' = "sending"
    <3>1. left'.srv = size'.srv /\ size'.srv \in Nat
      BY <2>4, OpenType, NetShellAssumption
    <3>2. size'.srv - left'.srv - q = 0
      BY <2>2, <3>1
    <3>3. Lines(toCli', j, q, 0, n')
      BY DEF Lines
    <3>4. GetRest(j, q)'
      BY <1>1, <2>1, <2>2, <2>4, <3>2, <3>3 DEF GetRest
    <3>5. QED
      BY <1>1, <2>1, <3>4
  <2>5. QED
    BY <2>1, <2>3, <2>4
<1>3. CASE SrvSendLine
  <2>1. /\ srv = "sending" /\ left.srv > 0 /\ srv' = srv /\ size' = size /\ left' = [left EXCEPT !.srv = @ - 1]
        /\ m' = m /\ n' = n /\ toSrv' = toSrv /\ cli' = cli /\ saved' = saved /\ right' = right
        /\ toCli' = Append(toCli, NextLine("srv", m))
    BY <1>3 DEF SrvSendLine
  <2>2. k \in Nat /\ Len(toCli) = j + k /\ Lines(toCli, j, q, k, n)
    <3>1. k >= 0 /\ Len(toCli) = j + k /\ Lines(toCli, j, q, k, n)
      BY <2>1 DEF GetRest
    <3>2. k \in Int
      BY <1>1
    <3>3. QED
      BY <3>1, <3>2
  <2>3. left'.srv = left.srv - 1
    BY <2>1, LeftType
  <2>4. /\ size.srv - left.srv + 1 \in 0..MaxLines
        /\ NextLine("srv", m) = Buffer("line", m, size.srv - left.srv + 1, FMAX)
    BY <1>1, <2>1, NextLineType
  <2> DEFINE p == Buffer("line", m, size.srv - left.srv + 1, FMAX)
  <2>5. p \in Piece /\ p.from + p.len <= FMAX
    <3>1. "line" \in Kinds \cup Commands /\ FMAX \in 1..FMAX
      BY Sizes DEF Kinds
    <3>2. QED
      BY <1>1, <2>4, <3>1, SentBuffer
  <2>6. p = Buffer("line", n, q + (k + 1), FMAX)
    <3>1. size.srv - left.srv + 1 = q + (k + 1)
      BY <1>1
    <3>2. QED
      BY <3>1
  <2> HIDE DEF p
  <2>7. Len(toCli') = Len(toCli) + 1 /\ (\A i \in 1..Len(toCli) : toCli'[i] = toCli[i]) /\ toCli'[Len(toCli) + 1] = p
    BY <1>1, <2>1, <2>4, <2>5, SentLast DEF p
  <2>8. size'.srv - left'.srv - q = k + 1
    BY <1>1, <2>1, <2>3
  <2> HIDE DEF k
  <2>9. Lines(toCli', j, q, k + 1, n)
    <3>1. ASSUME NEW l \in 1..k + 1 PROVE toCli'[j + l] = Buffer("line", n, q + l, FMAX)
      <4>1. CASE l = k + 1
        <5>1. j + l = Len(toCli) + 1
          BY <1>1, <2>2, <4>1
        <5>2. QED
          BY <2>6, <2>7, <4>1, <5>1
      <4>2. CASE l # k + 1
        <5>1. l \in 1..k /\ j + l \in 1..Len(toCli)
          BY <1>1, <2>2, <4>2
        <5>2. QED
          BY <2>2, <2>7, <5>1 DEF Lines
      <4>3. QED
        BY <4>1, <4>2
    <3>2. QED
      BY <3>1 DEF Lines
  <2>10. k + 1 >= 0 /\ Len(toCli') = j + (k + 1)
    BY <1>1, <2>2, <2>7
  <2>11. GetRest(j, q)'
    BY <2>1, <2>8, <2>9, <2>10 DEF GetRest
  <2>12. QED
    BY <1>1, <2>1, <2>7, <2>11
<1>4. ASSUME NEW p \in Piece, p.from + p.len <= FMAX, toCli' = Append(toCli, p), left' = left, size' = size, n' = n,
             \/ srv = "sending" /\ left.srv = 0 /\ srv' = "endGet" /\ p.kind = "end"
             \/ srv = "endGet" /\ srv' = "recv"
      PROVE  /\ GetRest(j, q)' /\ Len(toCli') >= Len(toCli) /\ Len(toCli') \in Nat
             /\ \A i \in 1..Len(toCli) : toCli'[i] = toCli[i]
  <2>1. Len(toCli') = Len(toCli) + 1 /\ (\A i \in 1..Len(toCli) : toCli'[i] = toCli[i]) /\ toCli'[Len(toCli) + 1] = p
    BY <1>1, <1>4, SentLast
  <2>2. /\ left.srv = 0 /\ k >= 0 /\ Lines(toCli, j, q, k, n)
        /\ \/ Len(toCli) = j + k /\ p.kind = "end"
           \/ Len(toCli) > j + k /\ toCli[j + k + 1].kind = "end"
    BY <1>4 DEF GetRest
  <2>3. k \in Nat
    <3>1. k \in Int
      BY <1>1
    <3>2. QED
      BY <2>2, <3>1
  <2>4. left'.srv = 0 /\ size'.srv - left'.srv - q = k
    BY <1>4, <2>2
  <2> HIDE DEF k
  <2>5. Lines(toCli', j, q, k, n)
    <3>1. \A l \in 1..k : j + l \in 1..Len(toCli)
      BY <1>1, <2>2, <2>3
    <3>2. QED
      BY <2>1, <2>2, <3>1 DEF Lines
  <2>6. Len(toCli') > j + k
    BY <1>1, <2>1, <2>2, <2>3
  <2>7. toCli'[j + k + 1].kind = "end"
    <3>1. CASE Len(toCli) = j + k /\ p.kind = "end"
      BY <2>1, <3>1
    <3>2. CASE Len(toCli) > j + k /\ toCli[j + k + 1].kind = "end"
      <4>1. j + k + 1 \in 1..Len(toCli)
        BY <1>1, <2>3, <3>2
      <4>2. QED
        BY <2>1, <3>2, <4>1
    <3>3. QED
      BY <2>2, <3>1, <3>2
  <2>8. GetRest(j, q)'
    BY <1>4, <2>2, <2>3, <2>4, <2>5, <2>6, <2>7 DEF GetRest
  <2>9. QED
    BY <1>1, <2>1, <2>8
<1>5. ASSUME NEW c \in Kinds, NEW i \in 0..MaxCommands, NEW l \in {1, MAX}
      PROVE  /\ Buffer(c, i, 0, l) \in Piece /\ Buffer(c, i, 0, l).from + Buffer(c, i, 0, l).len <= FMAX
             /\ Buffer(c, i, 0, l).kind = c
  <2>1. l \in 1..FMAX /\ 0 \in 0..MaxLines /\ c \in Kinds \cup Commands
    BY Sizes
  <2>2. QED
    BY <2>1, SentBuffer
<1>6. CASE SrvSendEnd
  <2>1. /\ srv = "sending" /\ left.srv = 0 /\ srv' = "endGet" /\ size' = size /\ left' = left
        /\ m' = m /\ n' = n /\ toSrv' = toSrv /\ cli' = cli /\ saved' = saved /\ right' = right
        /\ toCli' = Append(toCli, EndMark)
    BY <1>6 DEF SrvSendEnd
  <2>2. EndMark \in Piece /\ EndMark.from + EndMark.len <= FMAX /\ EndMark.kind = "end"
    <3>1. "end" \in Kinds /\ 0 \in 0..MaxCommands /\ 1 \in {1, MAX}
      BY Sizes DEF Kinds
    <3>2. QED
      BY <1>5, <3>1 DEF EndMark
  <2>3. QED
    BY <1>4, <2>1, <2>2
<1>7. CASE SrvSendGet
  <2>1. /\ srv = "endGet" /\ srv' = "recv" /\ size' = size /\ left' = left
        /\ m' = m /\ n' = n /\ toSrv' = toSrv /\ cli' = cli /\ saved' = saved /\ right' = right
        /\ toCli' = Append(toCli, Buffer("got", m, 0, MAX))
    BY <1>7 DEF SrvSendGet, Send
  <2>2. Buffer("got", m, 0, MAX) \in Piece /\ Buffer("got", m, 0, MAX).from + Buffer("got", m, 0, MAX).len <= FMAX
    <3>1. "got" \in Kinds /\ MAX \in {1, MAX}
      BY DEF Kinds
    <3>2. QED
      BY <1>1, <1>5, <3>1
  <2>3. QED
    BY <1>4, <2>1, <2>2
<1>8. QED
  BY <1>2, <1>3, <1>6, <1>7

\* A received name leaves the rest of the file.
LEMMA RestAfterName ==
  ASSUME TypeOK, Left, Len(toCli) >= 1, GetRest(1, 0),
         Len(toCli') = Len(toCli) - 1, \A i \in 1..Len(toCli) - 1 : toCli'[i] = toCli[i + 1],
         UNCHANGED <<srv, size, left, n>>
  PROVE  GetRest(0, 0)'
<1>1. left.srv \in Nat /\ size.srv \in Nat /\ Len(toCli) \in Nat
  BY RestNumbers
<1> DEFINE k == size.srv - left.srv - 0
<1>2. k' = k /\ k \in Int
  BY <1>1
<1>3. CASE srv \in {"read_f", "dead"}
  BY <1>1, <1>3 DEF GetRest
<1>4. CASE srv = "sending"
  <2>1. k >= 0 /\ Len(toCli) = 1 + k /\ Lines(toCli, 1, 0, k, n)
    BY <1>4 DEF GetRest
  <2> HIDE DEF k
  <2>2. Len(toCli') = 0 + k
    BY <1>1, <1>2, <2>1
  <2>3. Lines(toCli', 0, 0, k, n)
    <3>1. \A l \in 1..k : 0 + l \in 1..Len(toCli) - 1 /\ (0 + l) + 1 = 1 + l
      BY <1>1, <1>2, <2>1
    <3>2. QED
      BY <2>1, <3>1 DEF Lines
  <2>4. QED
    BY <1>2, <1>4, <2>1, <2>2, <2>3 DEF GetRest, k
<1>5. CASE srv \in {"endGet", "recv"}
  <2>1. left.srv = 0 /\ k >= 0 /\ Len(toCli) > 1 + k /\ Lines(toCli, 1, 0, k, n) /\ toCli[1 + k + 1].kind = "end"
    BY <1>5 DEF GetRest
  <2> HIDE DEF k
  <2>2. Len(toCli') > 0 + k
    BY <1>1, <1>2, <2>1
  <2>3. Lines(toCli', 0, 0, k, n)
    <3>1. \A l \in 1..k : 0 + l \in 1..Len(toCli) - 1 /\ (0 + l) + 1 = 1 + l
      BY <1>1, <1>2, <2>1
    <3>2. QED
      BY <2>1, <3>1 DEF Lines
  <2>4. toCli'[0 + k + 1].kind = "end"
    <3>1. 0 + k + 1 \in 1..Len(toCli) - 1 /\ (0 + k + 1) + 1 = 1 + k + 1
      BY <1>1, <1>2, <2>1
    <3>2. QED
      BY <2>1, <3>1
  <2>5. QED
    BY <1>2, <1>5, <2>1, <2>2, <2>3, <2>4 DEF GetRest, k
<1>6. QED
  BY <1>3, <1>4, <1>5 DEF GetRest

\* The first piece on its way to a client that writes the right file is its next
\* line, unless the file is complete and the end mark comes.
LEMMA RestFirst ==
  ASSUME TypeOK, Left, NEW q \in Nat, GetRest(0, q), toCli # <<>>
  PROVE  \/ /\ toCli[1] = Buffer("line", n, q + 1, FMAX)
            /\ srv \in {"sending", "endGet", "recv"}
         \/ /\ toCli[1].kind = "end" /\ q = size.srv /\ srv \in {"endGet", "recv"}
<1>1. left.srv \in Nat /\ size.srv \in Nat /\ Len(toCli) \in Nat /\ Len(toCli) # 0
  <2>1. Len(toCli) # 0
    BY DEF TypeOK, Inside
  <2>2. QED
    BY <2>1, RestNumbers
<1> DEFINE k == size.srv - left.srv - q
<1>2. k \in Int
  BY <1>1
<1>3. CASE srv = "sending"
  <2>1. k >= 0 /\ Len(toCli) = 0 + k /\ Lines(toCli, 0, q, k, n)
    BY <1>3 DEF GetRest
  <2> HIDE DEF k
  <2>2. 1 \in 1..k /\ 0 + 1 = 1
    BY <1>1, <1>2, <2>1
  <2>3. QED
    BY <1>3, <2>1, <2>2 DEF Lines
<1>4. CASE srv \in {"endGet", "recv"}
  <2>1. left.srv = 0 /\ k >= 0 /\ Lines(toCli, 0, q, k, n) /\ toCli[0 + k + 1].kind = "end"
    BY <1>4 DEF GetRest
  <2>2. k = 0 => q = size.srv
    BY <1>1, <2>1
  <2> HIDE DEF k
  <2>3. CASE k = 0
    <3>1. 0 + k + 1 = 1
      BY <2>3
    <3>2. QED
      BY <1>4, <2>1, <2>2, <2>3, <3>1
  <2>4. CASE k # 0
    <3>1. 1 \in 1..k /\ 0 + 1 = 1
      BY <1>2, <2>1, <2>4
    <3>2. QED
      BY <1>4, <2>1, <3>1 DEF Lines
  <2>5. QED
    BY <2>3, <2>4
<1>5. CASE srv \in {"read_f", "dead"}
  BY <1>1, <1>5 DEF GetRest
<1>6. QED
  BY <1>3, <1>4, <1>5 DEF GetRest

\* Its receipt leaves the lines behind it.
LEMMA RestAfterLine ==
  ASSUME TypeOK, Left, NEW q \in Nat, GetRest(0, q), toCli # <<>>, toCli[1].kind # "end",
         Len(toCli') = Len(toCli) - 1, \A i \in 1..Len(toCli) - 1 : toCli'[i] = toCli[i + 1],
         UNCHANGED <<srv, size, left, n>>
  PROVE  GetRest(0, q + 1)'
<1>1. left.srv \in Nat /\ size.srv \in Nat /\ Len(toCli) \in Nat /\ Len(toCli) # 0
  <2>1. Len(toCli) # 0
    BY DEF TypeOK, Inside
  <2>2. QED
    BY <2>1, RestNumbers
<1> DEFINE k == size.srv - left.srv - q
           d == size.srv - left.srv - (q + 1)
<1>2. k \in Int /\ d = k - 1 /\ d' = d
  <2>1. k \in Int /\ d = k - 1
    BY <1>1
  <2>2. d' = d
    OBVIOUS
  <2>3. QED
    BY <2>1, <2>2
<1>3. ASSUME k >= 0, Lines(toCli, 0, q, k, n), k < Len(toCli) \/ k = Len(toCli)
      PROVE  Lines(toCli', 0, q + 1, d, n)
  <2> HIDE DEF k, d
  <2>1. \A l \in 1..d : /\ l + 1 \in 1..k /\ 0 + l \in 1..Len(toCli) - 1
                        /\ (0 + l) + 1 = 0 + (l + 1) /\ (q + 1) + l = q + (l + 1)
    BY <1>1, <1>2, <1>3
  <2>2. ASSUME NEW l \in 1..d PROVE toCli'[0 + l] = Buffer("line", n, (q + 1) + l, FMAX)
    <3>1. toCli'[0 + l] = toCli[0 + (l + 1)]
      BY <2>1
    <3>2. toCli[0 + (l + 1)] = Buffer("line", n, q + (l + 1), FMAX)
      BY <1>3, <2>1 DEF Lines
    <3>3. QED
      BY <2>1, <3>1, <3>2
  <2>3. QED
    BY <2>2 DEF Lines
<1>4. CASE srv = "sending"
  <2>1. k >= 0 /\ Len(toCli) = 0 + k /\ Lines(toCli, 0, q, k, n)
    BY <1>4 DEF GetRest
  <2>2. k = Len(toCli)
    <3> HIDE DEF k
    <3>1. QED
      BY <1>1, <1>2, <2>1
  <2>3. Lines(toCli', 0, q + 1, d, n)
    BY <1>3, <2>1, <2>2
  <2> HIDE DEF k, d
  <2>4. d >= 0 /\ Len(toCli') = 0 + d
    BY <1>1, <1>2, <2>2
  <2>5. QED
    BY <1>2, <1>4, <2>3, <2>4 DEF GetRest, d
<1>5. CASE srv \in {"endGet", "recv"}
  <2>1. left.srv = 0 /\ k >= 0 /\ Len(toCli) > 0 + k /\ Lines(toCli, 0, q, k, n) /\ toCli[0 + k + 1].kind = "end"
    BY <1>5 DEF GetRest
  <2>2. k # 0 /\ k < Len(toCli)
    <3> HIDE DEF k
    <3>1. k < Len(toCli)
      BY <1>1, <1>2, <2>1
    <3>2. k = 0 => 0 + k + 1 = 1
      OBVIOUS
    <3>3. QED
      BY <2>1, <3>1, <3>2
  <2>3. Lines(toCli', 0, q + 1, d, n)
    BY <1>3, <2>1, <2>2
  <2> HIDE DEF k, d
  <2>4. d >= 0 /\ Len(toCli') > 0 + d
    BY <1>1, <1>2, <2>1, <2>2
  <2>5. toCli'[0 + d + 1].kind = "end"
    <3>1. 0 + d + 1 \in 1..Len(toCli) - 1 /\ (0 + d + 1) + 1 = 0 + k + 1
      BY <1>1, <1>2, <2>1, <2>2
    <3>2. QED
      BY <2>1, <3>1
  <2>6. QED
    BY <1>2, <1>5, <2>1, <2>3, <2>4, <2>5 DEF GetRest, d
<1>6. CASE srv \in {"read_f", "dead"}
  <2>1. Len(toCli) = 0
    BY <1>6 DEF GetRest
  <2>2. QED
    BY <1>1, <2>1
<1>7. QED
  BY <1>4, <1>5, <1>6 DEF GetRest

\* The lines saved so far and the next one.
LEMMA WholeNext ==
  ASSUME NEW s \in Seq(0..MaxLines), WholeFile(s, Len(s))
  PROVE  /\ Len(s) \in Nat /\ Len(Append(s, Len(s) + 1)) = Len(s) + 1
         /\ WholeFile(Append(s, Len(s) + 1), Len(s) + 1)
<1>1. Len(s) \in Nat
  OBVIOUS
<1>2. s = [i \in 1..Len(s) |-> i]
  BY DEF WholeFile
<1> DEFINE r == Append(s, Len(s) + 1)
<1>3. s \in Seq(Nat) /\ Len(s) + 1 \in Nat
  BY <1>1, NetShellAssumption
<1>4. r \in Seq(Nat) /\ Len(r) = Len(s) + 1 /\ \A i \in 1..Len(s) + 1 : r[i] = IF i = Len(s) + 1 THEN Len(s) + 1 ELSE s[i]
  BY <1>3
<1>5. \A i \in 1..Len(s) + 1 : r[i] = i
  <2> TAKE i \in 1..Len(s) + 1
  <2>1. CASE i = Len(s) + 1
    BY <1>4, <2>1
  <2>2. CASE i # Len(s) + 1
    <3>1. i \in 1..Len(s)
      BY <1>1, <2>2
    <3>2. s[i] = i
      BY <1>2, <3>1
    <3>3. QED
      BY <1>4, <2>2, <3>2
  <2>3. QED
    BY <2>1, <2>2
<1>6. r = [i \in 1..Len(r) |-> r[i]]
  <2> HIDE DEF r
  <2>1. QED
    BY <1>4
<1> HIDE DEF r
<1>7. WholeFile(r, Len(s) + 1)
  BY <1>4, <1>5, <1>6 DEF WholeFile
<1>8. QED
  BY <1>1, <1>4, <1>7 DEF r

\* A client that writes the right file gets its next line, or the end of the
\* complete file.
LEMMA GetWrites ==
  ASSUME TypeOK, Left, Gets, CliWrite, right
  PROVE  \/ /\ saved' = [saved EXCEPT !.cli = Append(@, Len(saved.cli) + 1)] /\ cli' = "write_f"
            /\ toCli # <<>> /\ toCli[1].kind # "end"
            /\ Len(toCli') = Len(toCli) - 1 /\ \A i \in 1..Len(toCli) - 1 : toCli'[i] = toCli[i + 1]
         \/ /\ cli' = "prompt" /\ saved' = saved
            /\ srv = "dead" \/ WholeFile(saved.cli, size.srv)
<1> DEFINE q == Len(saved.cli)
<1>1. /\ m = n /\ toSrv = <<>> /\ WholeFile(saved.cli, q) /\ GetRest(0, q)
      /\ q \in Nat /\ Inside(toCli) /\ Len(toCli) \in Nat
  BY RestNumbers DEF Gets, CliWrite, TypeOK
<1>2. PICK t \in Texts(toCli) :
        /\ CliRecv(FMAX, t)
        /\ \/ t = Empty /\ cli' = "prompt" /\ UNCHANGED saved
           \/ t # Empty /\ saved' = [saved EXCEPT !.cli = Append(@, t.line)] /\ cli' = cli
  BY DEF CliWrite
<1>3. cli = "write_f" /\ (toCli # <<>> \/ SrvGone) /\ toCli' = Skip(toCli, FMAX)
  BY <1>2 DEF CliWrite, CliRecv
<1> HIDE DEF q
<1>4. CASE toCli = <<>>
  <2>1. srv = "dead"
    BY <1>1, <1>3, <1>4 DEF GetRest, SrvGone
  <2>2. t = Empty
    BY <1>1, <1>4, TextIs
  <2>3. QED
    BY <1>2, <2>1, <2>2
<1>5. CASE toCli # <<>> /\ toCli[1].kind = "end"
  <2>1. t = Empty
    BY <1>1, <1>5, TextIs
  <2>2. q = size.srv
    <3>1. Buffer("line", n, q + 1, FMAX).kind = "line"
      BY DEF Buffer
    <3>2. QED
      BY <1>1, <1>5, <3>1, RestFirst
  <2>3. QED
    BY <1>1, <1>2, <2>1, <2>2 DEF q
<1>6. CASE toCli # <<>> /\ toCli[1].kind # "end"
  <2>1. toCli[1] = Buffer("line", n, q + 1, FMAX)
    BY <1>1, <1>6, RestFirst
  <2>2. toCli[1].from = 0 /\ toCli[1].line = q + 1 /\ toCli[1].len = FMAX
    BY <2>1 DEF Buffer
  <2>3. t # Empty /\ t.line = q + 1
    BY <1>1, <1>6, <2>2, TextIs
  <2>4. Len(toCli') = Len(toCli) - 1 /\ \A i \in 1..Len(toCli) - 1 : toCli'[i] = toCli[i + 1]
    BY <1>1, <1>3, <1>6, <2>2, FirstTaken
  <2>5. saved' = [saved EXCEPT !.cli = Append(@, q + 1)] /\ cli' = "write_f"
    BY <1>2, <1>3, <2>3
  <2>6. QED
    BY <1>6, <2>4, <2>5 DEF q
<1>7. QED
  BY <1>4, <1>5, <1>6

\* Every step keeps what is known of a get.
LEMMA GetsStep ==
  ASSUME TypeOK, Left, Numbers, Asked, Gets, Next
  PROVE  Gets'
<1> USE DEF transfer
<1>1. /\ Inside(toSrv) /\ Inside(toCli) /\ n \in 0..MaxCommands /\ m \in 0..MaxCommands /\ MaxCommands \in Nat
      /\ n \in Nat /\ m \in Nat /\ m <= n /\ Len(toCli) \in Nat
      /\ saved \in [{"cli", "srv"} -> Seq(0..MaxLines)] /\ saved.cli \in Seq(0..MaxLines) /\ Len(saved.cli) \in Nat
  BY NetShellAssumption, RestNumbers DEF TypeOK, Numbers
<1>2. ASSUME cli' # "write_f" \/ ~right', ~(cli' = "getName" /\ m' = n') PROVE Gets'
  BY <1>2 DEF Gets
<1>3. ASSUME NEW c \in Commands, CliType(c) PROVE Gets'
  <2>1. n' = n + 1 /\ m' = m /\ cli' # "write_f"
    BY <1>3 DEF CliType
  <2>2. m' # n'
    BY <1>1, <2>1
  <2>3. QED
    BY <1>2, <2>1, <2>2
<1>4. CASE CliConnect \/ CliGreet \/ CliBroken \/ CliReply \/ CliPutName \/ CliSendLine \/ CliSendEnd \/ SrvAccept
  BY <1>2, <1>4 DEF CliConnect, CliGreet, CliBroken, CliReply, CliPutName, CliSendLine, CliSendEnd, SrvAccept
<1>5. CASE CliGetName
  <2>1. PICK t \in Texts(toCli) :
          /\ CliRecv(MAX, t)
          /\ right' = (t.kind = "name" /\ t.n = n)
          /\ cli' \in {"write_f", "out"}
    BY <1>5 DEF CliGetName
  <2>2. /\ cli = "getName" /\ UNCHANGED <<srv, toSrv, n, m, left, size>>
        /\ saved' = [saved EXCEPT !.cli = <<>>] /\ toCli' = Skip(toCli, MAX)
    BY <1>5, <2>1 DEF CliGetName, CliRecv
  <2>3. CASE ~right'
    BY <1>2, <2>1, <2>3
  <2>4. CASE right'
    <3>1. t.kind = "name" /\ t.n = n
      BY <2>1, <2>4
    <3>2. toCli # <<>> /\ toCli[1].n = n
      BY <1>1, <3>1, TextIs
    <3>3. 1 \in 1..Len(toCli)
      BY <1>1, <3>2 DEF Inside
    <3>4. m = n /\ toSrv = <<>>
      BY <2>2, <3>2, <3>3 DEF Asked, NoPiece
    <3>5. PICK j \in 1..Len(toCli) :
             /\ \A i \in 1..j - 1 : toCli[i].n # n
             /\ toCli[j] = Buffer("name", n, 0, MAX)
             /\ GetRest(j, 0)
      BY <2>2, <3>4 DEF Gets
    <3>6. j = 1
      <4>1. j # 1 => 1 \in 1..j - 1
        BY <1>1
      <4>2. QED
        BY <3>2, <3>5, <4>1
    <3>7. toCli[1].len = MAX
      BY <3>5, <3>6 DEF Buffer
    <3>8. Len(toCli) >= 1 /\ Len(toCli') = Len(toCli) - 1 /\ \A i \in 1..Len(toCli) - 1 : toCli'[i] = toCli[i + 1]
      BY <1>1, <2>2, <3>2, <3>7, FirstTaken
    <3>9. GetRest(0, 0)'
      BY <2>2, <3>5, <3>6, <3>8, RestAfterName
    <3>10. saved'.cli = <<>> /\ Len(saved'.cli) = 0 /\ WholeFile(saved'.cli, 0)
      <4>1. saved'.cli = <<>>
        BY <1>1, <2>2
      <4>2. WholeFile(<<>>, 0)
        BY DEF WholeFile
      <4>3. QED
        BY <4>1, <4>2
    <3>11. cli' # "getName"
      BY <2>1
    <3>12. m' = n' /\ toSrv' = <<>>
      BY <2>2, <3>4
    <3>13. WholeFile(saved.cli, Len(saved.cli))'
      BY <3>10
    <3>14. GetRest(0, Len(saved.cli))'
      BY <3>9, <3>10
    <3>15. QED
      BY <3>11, <3>12, <3>13, <3>14 DEF Gets
  <2>5. QED
    BY <2>3, <2>4
<1>6. CASE CliWrite
  <2>1. UNCHANGED <<srv, toSrv, n, m, left, size, right>> /\ cli = "write_f"
    BY <1>6 DEF CliWrite
  <2>2. CASE ~right
    <3>1. ~right' /\ cli' # "getName"
      BY <1>6, <2>1, <2>2 DEF CliWrite
    <3>2. QED
      BY <1>2, <3>1
  <2>3. CASE right
    <3>1. m = n /\ toSrv = <<>> /\ WholeFile(saved.cli, Len(saved.cli)) /\ GetRest(0, Len(saved.cli))
      BY <2>1, <2>3 DEF Gets
    <3>2. CASE cli' = "prompt"
      BY <1>2, <3>2
    <3>3. CASE cli' # "prompt"
      <4>1. /\ saved' = [saved EXCEPT !.cli = Append(@, Len(saved.cli) + 1)] /\ cli' = "write_f"
            /\ toCli # <<>> /\ toCli[1].kind # "end"
            /\ Len(toCli') = Len(toCli) - 1 /\ \A i \in 1..Len(toCli) - 1 : toCli'[i] = toCli[i + 1]
        BY <1>6, <2>3, <3>3, GetWrites
      <4>2. saved'.cli = Append(saved.cli, Len(saved.cli) + 1)
        BY <1>1, <4>1
      <4>3. Len(saved'.cli) = Len(saved.cli) + 1 /\ WholeFile(saved'.cli, Len(saved.cli) + 1)
        BY <1>1, <3>1, <4>2, WholeNext
      <4>4. GetRest(0, Len(saved.cli))'
        <5> PICK q \in Nat : q = Len(saved.cli)
          BY <1>1
        <5>1. GetRest(0, q)
          BY <3>1
        <5>2. UNCHANGED <<srv, size, left, n>>
          BY <2>1
        <5>3. left.srv \in Nat /\ size.srv \in Nat
          BY RestNumbers
        <5>4. GetRest(0, q + 1)'
          BY <4>1, <5>1, <5>2, RestAfterLine
        <5>5. GetRest(0, Len(saved.cli))'
          BY <4>3, <5>4
        <5>6. QED
          BY <5>5
      <4>5. WholeFile(saved.cli, Len(saved.cli))'
        BY <4>3
      <4>7. m' = n' /\ toSrv' = <<>>
        BY <2>1, <3>1
      <4>8. QED
        BY <4>1, <4>4, <4>5, <4>7 DEF Gets
    <3>4. QED
      BY <3>2, <3>3
  <2>4. QED
    BY <2>2, <2>3
<1>7. CASE cli \notin {"getName", "write_f"} /\ (SrvStep \/ SrvConsole)
  <2>1. cli' = cli \/ cli' = "greet"
    BY <1>7 DEF SrvStep, SrvAccept, SrvGreet, SrvCommand, SrvBroken, SrvReadOpen, SrvSendLine,
       SrvSendEnd, SrvSendGet, SrvWriteOpen, SrvWrite, SrvConsole
  <2>2. QED
    BY <1>2, <1>7, <2>1
<1>8. ASSUME cli = "write_f", ~right, SrvStep \/ SrvConsole PROVE Gets'
  <2>1. right' = right /\ (cli' = cli \/ cli' = "greet")
    BY <1>8 DEF SrvStep, SrvAccept, SrvGreet, SrvCommand, SrvBroken, SrvReadOpen, SrvSendLine,
       SrvSendEnd, SrvSendGet, SrvWriteOpen, SrvWrite, SrvConsole
  <2>2. QED
    BY <1>2, <1>8, <2>1
<1>9. ASSUME cli = "getName", m = n, SrvReadOpen \/ SrvSendLine \/ SrvSendEnd \/ SrvSendGet PROVE Gets'
  <2>1. PICK j \in 1..Len(toCli) :
             /\ \A i \in 1..j - 1 : toCli[i].n # n
             /\ toCli[j] = Buffer("name", n, 0, MAX)
             /\ GetRest(j, 0)
    BY <1>9 DEF Gets
  <2>2. /\ GetRest(j, 0)' /\ m' = m /\ n' = n /\ cli' = cli
        /\ Len(toCli') >= Len(toCli) /\ Len(toCli') \in Nat
        /\ \A i \in 1..Len(toCli) : toCli'[i] = toCli[i]
    <3>1. j \in 0..Len(toCli) /\ 0 \in Nat
      BY <1>1
    <3>2. QED
      BY <1>9, <2>1, <3>1, RestServer
  <2>3. j \in 1..Len(toCli') /\ \A i \in 1..j - 1 : i \in 1..Len(toCli)
    BY <1>1, <2>2
  <2>4. /\ \A i \in 1..j - 1 : toCli'[i].n # n'
        /\ toCli'[j] = Buffer("name", n', 0, MAX)
    BY <2>1, <2>2, <2>3
  <2>5. QED
    BY <1>9, <2>2, <2>3, <2>4 DEF Gets
<1>10. ASSUME cli = "write_f", right, SrvReadOpen \/ SrvSendLine \/ SrvSendEnd \/ SrvSendGet PROVE Gets'
  <2>1. m = n /\ toSrv = <<>> /\ WholeFile(saved.cli, Len(saved.cli)) /\ GetRest(0, Len(saved.cli))
    BY <1>10 DEF Gets
  <2>2. 0 \in 0..Len(toCli)
    BY <1>1
  <2> PICK q \in Nat : q = Len(saved.cli)
    BY <1>1
  <2>3. GetRest(0, q)
    BY <2>1
  <2>4. GetRest(0, q)' /\ m' = m /\ n' = n /\ cli' = cli /\ saved' = saved /\ toSrv' = toSrv /\ right' = right
    BY <1>10, <2>1, <2>2, <2>3, RestServer
  <2>5. Len(saved'.cli) = q
    BY <2>4
  <2>6. GetRest(0, Len(saved.cli))'
    BY <2>4, <2>5
  <2>7. WholeFile(saved.cli, Len(saved.cli))'
    BY <2>1, <2>4
  <2>8. QED
    BY <1>10, <2>1, <2>4, <2>6, <2>7 DEF Gets
<1>11. ASSUME cli = "getName", m # n, m' = m, n' = n, cli' = cli PROVE Gets'
  BY <1>2, <1>11
<1>12. ASSUME (cli = "getName" /\ m = n) \/ (cli = "write_f" /\ right)
       PROVE  /\ toSrv = <<>> /\ CliOpen /\ srv \in {"read_f", "sending", "endGet", "recv", "dead"}
  <2>1. CASE cli = "getName" /\ m = n
    BY <2>1 DEF Asked, CliOpen
  <2>2. CASE cli = "write_f" /\ right
    BY <2>2 DEF Gets, GetRest, CliOpen
  <2>3. QED
    BY <1>12, <2>1, <2>2
<1>13. ASSUME SrvGreet \/ SrvBroken \/ SrvWriteOpen \/ SrvWrite \/ SrvConsole PROVE Gets'
  <2>1. CASE (cli = "getName" /\ m = n) \/ (cli = "write_f" /\ right)
    BY <1>12, <1>13, <2>1 DEF SrvGreet, SrvBroken, SrvWriteOpen, SrvWrite, SrvConsole, SrvRecv
  <2>2. CASE ~((cli = "getName" /\ m = n) \/ (cli = "write_f" /\ right))
    <3>1. m' = m /\ n' = n /\ cli' = cli /\ right' = right
      BY <1>13 DEF SrvGreet, SrvBroken, SrvWriteOpen, SrvWrite, SrvConsole
    <3>2. QED
      BY <1>2, <2>2, <3>1
  <2>3. QED
    BY <2>1, <2>2
<1>14. ASSUME SrvReadOpen \/ SrvSendLine \/ SrvSendEnd \/ SrvSendGet PROVE Gets'
  <2>1. CASE cli = "getName" /\ m = n
    BY <1>9, <1>14, <2>1
  <2>2. CASE cli = "write_f" /\ right
    BY <1>10, <1>14, <2>2
  <2>3. CASE ~((cli = "getName" /\ m = n) \/ (cli = "write_f" /\ right))
    <3>1. m' = m /\ n' = n /\ cli' = cli /\ right' = right
      BY <1>14 DEF SrvReadOpen, SrvSendLine, SrvSendEnd, SrvSendGet
    <3>2. QED
      BY <1>2, <2>3, <3>1
  <2>4. QED
    BY <2>1, <2>2, <2>3
<1>15. CASE SrvCommand
  <2>1. PICK t \in Texts(toSrv) :
          /\ SrvRecv(MAX, t)
          /\ m' = t.n
          /\ \/ SrvSilentCd(t)
             \/ SrvReply(t) \/ SrvExit(t) \/ SrvTransfer(t)
    BY <1>15 DEF SrvCommand
  <2>2. cli' = cli /\ n' = n /\ right' = right /\ toSrv # <<>> /\ size' = size /\ left' = left
    BY <1>15, <2>1 DEF SrvCommand
  <2>3. ~(cli = "write_f" /\ right)
    BY <1>12, <2>2
  <2>4. CASE ~(cli = "getName" /\ t.n = n)
    BY <1>2, <2>1, <2>2, <2>3, <2>4
  <2>5. CASE cli = "getName" /\ t.n = n
    <3>1. m # n
      BY <2>2, <2>5 DEF Asked
    <3>2. n # 0
      BY <1>1, <3>1
    <3>3. t.kind \notin {"", "junk"}
      BY <1>1, <2>5, <3>2, TextIs
    <3>4. toSrv[1].from = 0 /\ t.kind = toSrv[1].kind /\ toSrv[1].n = n
      BY <1>1, <2>5, <3>3, TextIs
    <3>5. NoPiece(toCli, n) /\ LastIs(toSrv, "get", n)
      BY <2>5, <3>1 DEF Asked
    <3>6. 1 \in 1..Len(toSrv)
      BY <1>1, <2>2 DEF Inside
    <3>7. toSrv[1] = Buffer("get", n, 0, MAX)
      BY <3>4, <3>5, <3>6 DEF LastIs
    <3>8. t.kind = "get"
      BY <3>4, <3>7 DEF Buffer
    <3>9. srv' = "read_f" /\ toCli' = Append(toCli, Buffer("name", n, 0, MAX))
      BY <2>1, <2>5, <3>8 DEF SrvSilentCd, SrvReply, SrvExit, SrvTransfer, Send
    <3> DEFINE p == Buffer("name", n, 0, MAX)
    <3> PICK j \in Nat : j = Len(toCli) + 1
      BY <1>1
    <3>10. p \in Piece /\ p.from + p.len <= FMAX
      <4>1. "name" \in Kinds \cup Commands /\ 0 \in 0..MaxLines /\ MAX \in 1..FMAX
        BY Sizes DEF Kinds
      <4>2. QED
        BY <1>1, <4>1, SentBuffer
    <3>11. Len(toCli') = j /\ (\A i \in 1..Len(toCli) : toCli'[i] = toCli[i]) /\ toCli'[j] = p
      <4> HIDE DEF p
      <4>1. toCli' = Append(toCli, p)
        BY <3>9 DEF p
      <4>2. QED
        BY <1>1, <3>10, <4>1, SentLast
    <3>12. j \in 1..Len(toCli') /\ j - 1 = Len(toCli)
      BY <1>1, <3>11
    <3>13. \A i \in 1..j - 1 : toCli'[i].n # n
      BY <3>5, <3>11, <3>12 DEF NoPiece
    <3>14. GetRest(j, 0)'
      BY <3>9, <3>11 DEF GetRest
    <3>15. toCli'[j] = Buffer("name", n', 0, MAX) /\ cli' # "write_f"
      BY <2>2, <2>5, <3>11
    <3>16. \A i \in 1..j - 1 : toCli'[i].n # n'
      BY <2>2, <3>13
    <3>17. QED
      BY <3>12, <3>14, <3>15, <3>16 DEF Gets
  <2>6. QED
    BY <2>4, <2>5
<1>16. QED
  BY <1>3, <1>4, <1>5, <1>6, <1>13, <1>14, <1>15 DEF Next, CliStep, SrvStep, User

-----------------------------------------------------------------------------
(* put: the file on its way to the server *)

\* Receiving and sending keep the puts of a stream.
LEMMA OnlyPutSkip ==
  ASSUME NEW s, Inside(s), NEW l \in Nat, NEW k, NEW w, OnlyPut(s, k, w)
  PROVE  OnlyPut(Skip(s, l), k, w)
<1>1. ASSUME NEW i \in 1..Len(Skip(s, l)), Skip(s, l)[i].kind = "put", Skip(s, l)[i].from = 0
      PROVE  w /\ Skip(s, l)[i].n = k
  <2>1. PICK j \in 1..Len(s) : Skip(s, l)[i] = s[j]
    BY <1>1, SkipPiece
  <2>2. QED
    BY <1>1, <2>1 DEF OnlyPut
<1>2. QED
  BY <1>1 DEF OnlyPut

\* A piece that is no other put keeps the only put.
LEMMA OnlyPutSent ==
  ASSUME NEW s, Inside(s), NEW p \in Piece, p.from + p.len <= FMAX, NEW k, NEW w, OnlyPut(s, k, w),
         p.kind = "put" => w /\ p.n = k
  PROVE  OnlyPut(Append(s, p), k, w)
<1> DEFINE r == Append(s, p)
<1>1. Len(s) \in Nat /\ Len(r) = Len(s) + 1 /\ (\A j \in 1..Len(s) : r[j] = s[j]) /\ r[Len(s) + 1] = p
  BY SentLast
<1> HIDE DEF r
<1>2. ASSUME NEW j \in 1..Len(r), r[j].kind = "put", r[j].from = 0 PROVE w /\ r[j].n = k
  <2>1. CASE j = Len(s) + 1
    BY <1>1, <1>2, <2>1
  <2>2. CASE j # Len(s) + 1
    <3>1. j \in 1..Len(s)
      BY <1>1, <2>2
    <3>2. QED
      BY <1>1, <1>2, <3>1 DEF OnlyPut
  <2>3. QED
    BY <2>1, <2>2
<1>3. QED
  BY <1>2 DEF OnlyPut, r

\* What follows a file does not matter to it.
LEMMA PutRestKept ==
  ASSUME TypeOK, Left, NEW q \in Nat, PutRest(q), cli # "sending", cli' # "sending", size' = size,
         \/ toSrv' = toSrv
         \/ \E p \in Piece : p.from + p.len <= FMAX /\ toSrv' = Append(toSrv, p)
  PROVE  PutRest(q)'
<1>1. size.cli \in Nat /\ Len(toSrv) \in Nat /\ Inside(toSrv)
  BY RestNumbers DEF TypeOK
<1> DEFINE k == size.cli - q
<1>2. /\ k >= 0 /\ k \in Int /\ Len(toSrv) > k /\ toSrv[k + 1].kind = "end"
      /\ \A l \in 1..k : /\ toSrv[l].kind = "line" /\ toSrv[l].line = q + l
                         /\ toSrv[l].from = 0 /\ toSrv[l].len = FMAX
  BY <1>1 DEF PutRest
<1>3. k' = k
  OBVIOUS
<1> HIDE DEF k
<1>4. /\ Len(toSrv') >= Len(toSrv) /\ Len(toSrv') \in Nat
      /\ \A i \in 1..Len(toSrv) : toSrv'[i] = toSrv[i]
  <2>1. CASE toSrv' = toSrv
    BY <1>1, <2>1
  <2>2. ASSUME NEW p \in Piece, p.from + p.len <= FMAX, toSrv' = Append(toSrv, p)
        PROVE  /\ Len(toSrv') >= Len(toSrv) /\ Len(toSrv') \in Nat
               /\ \A i \in 1..Len(toSrv) : toSrv'[i] = toSrv[i]
    BY SMTT(30), <1>1, <2>2, SentLast
  <2>3. QED
    BY <2>1, <2>2
<1>5. \A l \in 1..k + 1 : l \in 1..Len(toSrv)
  BY <1>1, <1>2
<1>6. Len(toSrv') > k /\ k + 1 \in 1..k + 1 /\ \A l \in 1..k : l \in 1..k + 1
  BY <1>1, <1>2, <1>4
<1>7. /\ toSrv'[k + 1].kind = "end"
      /\ \A l \in 1..k : /\ toSrv'[l].kind = "line" /\ toSrv'[l].line = q + l
                         /\ toSrv'[l].from = 0 /\ toSrv'[l].len = FMAX
  BY <1>2, <1>4, <1>5, <1>6
<1>8. QED
  BY <1>2, <1>3, <1>6, <1>7 DEF PutRest, k

\* The lines sent so far, while the client sends.
LEMMA PutRestSending ==
  ASSUME TypeOK, Left, NEW q \in Nat, PutRest(q), cli = "sending"
  PROVE  /\ Len(toSrv) = size.cli - left.cli - q /\ size.cli \in Nat /\ left.cli \in Nat /\ Len(toSrv) \in Nat
         /\ \A l \in 1..Len(toSrv) : /\ toSrv[l].kind = "line" /\ toSrv[l].line = q + l
                                     /\ toSrv[l].from = 0 /\ toSrv[l].len = FMAX
<1>1. size.cli \in Nat /\ left.cli \in Nat /\ Len(toSrv) \in Nat
  BY RestNumbers
<1>2. QED
  BY <1>1 DEF PutRest

\* The line the client sends is the next one of the rest.
LEMMA PutRestLine ==
  ASSUME TypeOK, Left, NEW q \in Nat, PutRest(q), CliSendLine
  PROVE  PutRest(q)'
<1>1. /\ cli = "sending" /\ left.cli > 0 /\ cli' = cli /\ size' = size /\ left' = [left EXCEPT !.cli = @ - 1]
      /\ toSrv' = Append(toSrv, NextLine("cli", n))
  BY DEF CliSendLine
<1>2. /\ Len(toSrv) = size.cli - left.cli - q /\ size.cli \in Nat /\ left.cli \in Nat /\ Len(toSrv) \in Nat
      /\ \A l \in 1..Len(toSrv) : /\ toSrv[l].kind = "line" /\ toSrv[l].line = q + l
                                  /\ toSrv[l].from = 0 /\ toSrv[l].len = FMAX
  BY <1>1, PutRestSending
<1>3. left'.cli = left.cli - 1
  BY <1>1, LeftType
<1> DEFINE p == NextLine("cli", n)
<1>4. /\ p \in Piece /\ p.from + p.len <= FMAX
      /\ p.kind = "line" /\ p.line = size.cli - left.cli + 1 /\ p.from = 0 /\ p.len = FMAX
  <2>1. /\ size.cli - left.cli + 1 \in 0..MaxLines /\ n \in 0..MaxCommands
        /\ p = Buffer("line", n, size.cli - left.cli + 1, FMAX)
    BY <1>1, NextLineType DEF TypeOK
  <2>2. "line" \in Kinds \cup Commands /\ FMAX \in 1..FMAX
    BY Sizes DEF Kinds
  <2>3. QED
    BY <2>1, <2>2, SentBuffer
<1> HIDE DEF p
<1>5. Inside(toSrv) /\ toSrv' = Append(toSrv, p)
  BY <1>1 DEF TypeOK, p
<1>6. Len(toSrv') = Len(toSrv) + 1 /\ (\A i \in 1..Len(toSrv) : toSrv'[i] = toSrv[i]) /\ toSrv'[Len(toSrv) + 1] = p
  BY <1>4, <1>5, SentLast
<1>7. p.line = q + (Len(toSrv) + 1)
  <2>1. size.cli - left.cli + 1 = q + (Len(toSrv) + 1)
    BY <1>2
  <2>2. QED
    BY <1>4, <2>1
<1>8. ASSUME NEW l \in 1..Len(toSrv) + 1
      PROVE  /\ toSrv'[l].kind = "line" /\ toSrv'[l].line = q + l
             /\ toSrv'[l].from = 0 /\ toSrv'[l].len = FMAX
  <2>1. CASE l = Len(toSrv) + 1
    BY <1>4, <1>6, <1>7, <2>1
  <2>2. CASE l # Len(toSrv) + 1
    <3>1. l \in 1..Len(toSrv)
      BY <1>2, <2>2
    <3>2. QED
      BY <1>2, <1>6, <3>1
  <2>3. QED
    BY <2>1, <2>2
<1>9. size'.cli - left'.cli - q = Len(toSrv) + 1 /\ Len(toSrv) + 1 >= 0
  BY <1>1, <1>2, <1>3
<1>10. QED
  BY <1>1, <1>6, <1>8, <1>9 DEF PutRest

\* The end mark follows the last line.
LEMMA PutRestEnd ==
  ASSUME TypeOK, Left, NEW q \in Nat, PutRest(q), CliSendEnd
  PROVE  PutRest(q)'
<1>1. /\ cli = "sending" /\ left.cli = 0 /\ cli' = "prompt" /\ size' = size /\ left' = left
      /\ toSrv' = Append(toSrv, EndMark)
  BY DEF CliSendEnd, transfer
<1>2. /\ Len(toSrv) = size.cli - left.cli - q /\ size.cli \in Nat /\ left.cli \in Nat /\ Len(toSrv) \in Nat
      /\ \A l \in 1..Len(toSrv) : /\ toSrv[l].kind = "line" /\ toSrv[l].line = q + l
                                  /\ toSrv[l].from = 0 /\ toSrv[l].len = FMAX
  BY <1>1, PutRestSending
<1>3. EndMark \in Piece /\ EndMark.from + EndMark.len <= FMAX /\ EndMark.kind = "end"
  <2>1. "end" \in Kinds \cup Commands /\ 0 \in 0..MaxCommands /\ 0 \in 0..MaxLines /\ 1 \in 1..FMAX
    BY Sizes DEF Kinds
  <2>2. QED
    BY <2>1, SentBuffer DEF EndMark
<1>4. Inside(toSrv)
  BY DEF TypeOK
<1>5. Len(toSrv') = Len(toSrv) + 1 /\ (\A i \in 1..Len(toSrv) : toSrv'[i] = toSrv[i]) /\ toSrv'[Len(toSrv) + 1] = EndMark
  BY <1>1, <1>3, <1>4, SentLast
<1>6. size'.cli - q = Len(toSrv) /\ Len(toSrv) >= 0 /\ Len(toSrv') > Len(toSrv)
  BY <1>1, <1>2, <1>5
<1>7. \A l \in 1..Len(toSrv) : /\ toSrv'[l].kind = "line" /\ toSrv'[l].line = q + l
                               /\ toSrv'[l].from = 0 /\ toSrv'[l].len = FMAX
  BY <1>2, <1>5
<1>8. QED
  BY <1>1, <1>3, <1>5, <1>6, <1>7 DEF PutRest

\* The server that writes the right file gets its next line, or the end of the
\* complete file.
LEMMA PutWrites ==
  ASSUME TypeOK, Left, Asked, Puts, SrvWrite, right, CliOpen
  PROVE  \/ /\ saved' = [saved EXCEPT !.srv = Append(@, Len(saved.srv) + 1)] /\ srv' = "write_f"
            /\ ~(cli = "putName" /\ m = n)
            /\ WholeFile(saved.srv, Len(saved.srv)) /\ PutRest(Len(saved.srv))'
         \/ srv' = "recv" /\ saved' = saved /\ WholeFile(saved.srv, size.cli)
<1>1. PICK t \in Texts(toSrv) :
        /\ SrvRecv(FMAX, t)
        /\ \/ t = Empty /\ srv' = "recv" /\ UNCHANGED saved
           \/ t # Empty /\ saved' = [saved EXCEPT !.srv = Append(@, t.line)] /\ srv' = srv
  BY DEF SrvWrite
<1>2. srv = "write_f" /\ toSrv # <<>> /\ toSrv' = Skip(toSrv, FMAX) /\ UNCHANGED <<cli, n, m, left, size>>
  BY <1>1 DEF SrvWrite, SrvRecv
<1>3. ~(cli = "putName" /\ m = n)
  BY <1>2 DEF Asked
<1>4. WholeFile(saved.srv, Len(saved.srv)) /\ PutRest(Len(saved.srv))
  BY <1>2, <1>3 DEF Puts
<1>5. /\ size.cli \in Nat /\ left.cli \in Nat /\ left.cli <= size.cli /\ Len(toSrv) \in Nat /\ Len(toSrv) # 0
      /\ Len(saved.srv) \in Nat /\ saved.srv \in Seq(0..MaxLines) /\ Inside(toSrv)
      /\ saved \in [{"cli", "srv"} -> Seq(0..MaxLines)]
  <2>1. toSrv \in Seq(Piece) /\ Inside(toSrv) /\ saved \in [{"cli", "srv"} -> Seq(0..MaxLines)]
    BY DEF TypeOK, Inside
  <2>2. Len(toSrv) # 0
    BY <1>2, <2>1
  <2>3. QED
    BY <2>1, <2>2, RestNumbers
<1> PICK q \in Nat : q = Len(saved.srv)
  BY <1>5
<1> PICK z \in Nat : z = IF cli = "sending" THEN size.cli - left.cli ELSE size.cli
  <2>1. (IF cli = "sending" THEN size.cli - left.cli ELSE size.cli) \in Nat
    BY <1>5
  <2>2. QED
    BY <2>1
<1> DEFINE k == z - q
<1>6. /\ k >= 0 /\ k \in Int
      /\ \A l \in 1..k : /\ toSrv[l].kind = "line" /\ toSrv[l].line = q + l
                         /\ toSrv[l].from = 0 /\ toSrv[l].len = FMAX
      /\ IF cli = "sending" THEN Len(toSrv) = k
         ELSE Len(toSrv) > k /\ toSrv[k + 1].kind = "end"
  BY <1>4 DEF PutRest
<1>7. CASE k = 0
  <2>1. cli # "sending"
    BY <1>5, <1>6, <1>7
  <2>2. z = size.cli /\ q = size.cli
    BY <1>5, <1>7, <2>1
  <2>3. toSrv[1].kind = "end"
    <3>1. k + 1 = 1
      BY <1>7
    <3>2. QED
      BY <1>6, <2>1, <3>1
  <2>4. t = Empty
    BY <1>5, <2>3, TextIs
  <2>5. QED
    BY <1>1, <1>4, <2>2, <2>4
<1>8. CASE k # 0
  <2>1. 1 \in 1..k
    BY <1>6, <1>8
  <2>2. toSrv[1].kind = "line" /\ toSrv[1].line = q + 1 /\ toSrv[1].from = 0 /\ toSrv[1].len = FMAX
    BY <1>6, <2>1
  <2>3. t # Empty /\ t.line = q + 1
    BY <1>2, <1>5, <2>2, TextIs
  <2>4. saved' = [saved EXCEPT !.srv = Append(@, q + 1)] /\ srv' = "write_f"
    BY <1>1, <1>2, <2>3
  <2>5. saved'.srv = Append(saved.srv, q + 1)
    BY <1>5, <2>4
  <2>6. Len(saved'.srv) = q + 1
    BY <1>4, <1>5, <2>5, WholeNext
  <2>7. Len(toSrv') = Len(toSrv) - 1 /\ \A i \in 1..Len(toSrv) - 1 : toSrv'[i] = toSrv[i + 1]
    BY <1>2, <1>5, <2>2, FirstTaken
  <2> PICK d \in Int : d = k - 1
    BY <1>6
  <2>8. d >= 0 /\ z - (q + 1) = d
    BY SMTT(30), <1>6, <1>8
  <2> HIDE DEF k
  <2>9. \A l \in 1..d : l \in 1..Len(toSrv) - 1 /\ l + 1 \in 1..k /\ q + (l + 1) = (q + 1) + l
    BY <1>5, <1>6
  <2>10. \A l \in 1..d : /\ toSrv'[l].kind = "line" /\ toSrv'[l].line = (q + 1) + l
                         /\ toSrv'[l].from = 0 /\ toSrv'[l].len = FMAX
    <3> TAKE l \in 1..d
    <3>1. toSrv'[l] = toSrv[l + 1]
      BY <2>7, <2>9
    <3>2. /\ toSrv[l + 1].kind = "line" /\ toSrv[l + 1].line = q + (l + 1)
          /\ toSrv[l + 1].from = 0 /\ toSrv[l + 1].len = FMAX
      BY <1>6, <2>9
    <3>3. QED
      BY <2>9, <3>1, <3>2
  <2>11. IF cli = "sending" THEN Len(toSrv') = d
         ELSE Len(toSrv') > d /\ toSrv'[d + 1].kind = "end"
    <3>1. CASE cli = "sending"
      BY <1>6, <2>7, <3>1
    <3>2. CASE cli # "sending"
      <4>1. d + 1 \in 1..Len(toSrv) - 1 /\ (d + 1) + 1 = k + 1 /\ Len(toSrv') > d
        BY <1>5, <1>6, <2>7, <2>8, <3>2
      <4>2. QED
        BY <1>6, <2>7, <3>2, <4>1
    <3>3. QED
      BY <3>1, <3>2
  <2>12. PutRest(q + 1)'
    BY <1>2, <2>8, <2>10, <2>11 DEF PutRest
  <2>13. PutRest(Len(saved.srv))'
    BY <2>6, <2>12
  <2>14. QED
    BY <1>3, <1>4, <2>4, <2>13
<1>9. QED
  BY <1>7, <1>8

\* A client that receives the name for its command is the only one at work on it.
LEMMA NameReceived ==
  ASSUME TypeOK, Asked, cli \in {"putName", "getName"}, NEW t \in Texts(toCli), t.kind = "name", t.n = n
  PROVE  /\ m = n /\ toSrv = <<>>
         /\ srv \in IF cli = "putName" THEN {"open", "write_f", "dead"}
                    ELSE {"read_f", "sending", "endGet", "recv", "dead"}
<1>1. Inside(toCli)
  BY DEF TypeOK
<1>2. toCli # <<>> /\ toCli[1].n = n
  BY <1>1, TextIs
<1>3. 1 \in 1..Len(toCli)
  BY <1>1, <1>2 DEF Inside
<1>4. m = n
  BY <1>2, <1>3 DEF Asked, NoPiece
<1>5. QED
  BY <1>4 DEF Asked

\* The file of the server stays empty while the client waits for the name.
LEMMA NewFileStep ==
  ASSUME TypeOK, Numbers, Asked, NewFile, Next
  PROVE  NewFile'
<1> USE DEF transfer
<1>1. /\ m <= n /\ m \in Nat /\ n \in Nat /\ saved \in [{"cli", "srv"} -> Seq(0..MaxLines)]
  BY RestNumbers DEF TypeOK, Numbers
<1>2. CASE CliConnect \/ CliGreet \/ CliReply \/ CliPutName \/ CliSendLine \/ CliSendEnd
           \/ CliGetName \/ CliWrite \/ CliBroken \/ SrvAccept
  BY <1>2 DEF CliConnect, CliGreet, CliReply, CliPutName, CliSendLine, CliSendEnd, CliGetName,
     CliWrite, CliBroken, SrvAccept, NewFile
<1>3. ASSUME NEW c \in Commands, CliType(c) PROVE NewFile'
  <2>1. n' = n + 1 /\ m' = m
    BY <1>3 DEF CliType
  <2>2. m' # n'
    BY <1>1, <2>1
  <2>3. QED
    BY <2>2 DEF NewFile
<1>4. CASE SrvGreet \/ SrvCommand \/ SrvBroken \/ SrvReadOpen \/ SrvSendLine \/ SrvSendEnd
           \/ SrvSendGet \/ SrvConsole
  <2>1. srv' # "write_f"
    BY <1>4 DEF SrvGreet, SrvCommand, SrvSilentCd, SrvReply, SrvExit, SrvTransfer, SrvBroken,
       SrvReadOpen, SrvSendLine, SrvSendEnd, SrvSendGet, SrvConsole
  <2>2. QED
    BY <2>1 DEF NewFile
<1>5. CASE SrvWriteOpen
  <2>1. saved'.srv = <<>>
    BY <1>1, <1>5 DEF SrvWriteOpen
  <2>2. QED
    BY <2>1 DEF NewFile
<1>6. CASE SrvWrite
  <2>1. ~(cli = "putName" /\ m = n)
    BY <1>6 DEF SrvWrite, SrvRecv, CliOpen, Asked
  <2>2. UNCHANGED <<cli, m, n>>
    BY <1>6 DEF SrvWrite
  <2>3. QED
    BY <2>1, <2>2 DEF NewFile
<1>7. QED
  BY <1>2, <1>3, <1>4, <1>5, <1>6 DEF Next, CliStep, SrvStep, User

\* Every step keeps what is known of a put.
LEMMA PutsStep ==
  ASSUME TypeOK, Left, Numbers, Asked, NewFile, Puts, Next
  PROVE  Puts'
<1> USE DEF transfer
<1>1. /\ Inside(toSrv) /\ Inside(toCli) /\ n \in 0..MaxCommands /\ m \in 0..MaxCommands /\ MaxCommands \in Nat
      /\ n \in Nat /\ m \in Nat /\ m <= n /\ Len(toSrv) \in Nat
      /\ saved \in [{"cli", "srv"} -> Seq(0..MaxLines)] /\ saved.srv \in Seq(0..MaxLines) /\ Len(saved.srv) \in Nat
      /\ 0 \in Nat
  BY NetShellAssumption, RestNumbers DEF TypeOK, Numbers
<1>2. ASSUME ~right' \/ ~CliOpen' PROVE Puts'
  BY <1>2 DEF Puts
<1>3. ASSUME NEW k \in {MAX, FMAX, Greeting}, right, CliOpen PROVE OnlyPut(Skip(toSrv, k), n, cli = "putName")
  <2>1. OnlyPut(toSrv, n, cli = "putName") /\ k \in Nat
    BY <1>3, Sizes DEF Puts
  <2>2. QED
    BY <1>1, <2>1, OnlyPutSkip
<1>4. ASSUME NEW c \in Kinds \cup Commands, NEW i \in 0..MaxCommands, NEW l \in 0..MaxLines,
             NEW k \in {1, MAX, FMAX, Greeting}
      PROVE  /\ Buffer(c, i, l, k) \in Piece /\ Buffer(c, i, l, k).from + Buffer(c, i, l, k).len <= FMAX
             /\ Buffer(c, i, l, k).kind = c /\ Buffer(c, i, l, k).n = i
  <2>1. k \in 1..FMAX
    BY Sizes
  <2>2. QED
    BY <2>1, SentBuffer
<1>5. \A c \in {"hello", "line", "end", "reply", "bye", "name", "got"} : c \in Kinds \cup Commands
  BY DEF Kinds
<1>6. ASSUME OnlyPut(toSrv, n, cli = "putName")', srv' \notin {"open", "write_f"} PROVE Puts'
  BY <1>6 DEF Puts
<1>7. ASSUME NEW p \in Piece, p.from + p.len <= FMAX, toSrv' = Append(toSrv, p), p.kind # "put",
             right' = right, right, CliOpen, cli # "putName", cli' # "putName", n' = n
      PROVE  OnlyPut(toSrv, n, cli = "putName")'
  <2>1. OnlyPut(toSrv, n, FALSE)
    BY <1>7 DEF Puts, OnlyPut
  <2>2. OnlyPut(Append(toSrv, p), n, FALSE)
    BY <1>1, <1>7, <2>1, OnlyPutSent
  <2>3. QED
    BY <1>7, <2>2 DEF OnlyPut
\* a client that keeps the server's work unchanged
<1>8. ASSUME right, CliOpen, right' = right, srv' = srv, saved'.srv = saved.srv,
             cli # "putName", cli' = "putName" => m' # n',
             OnlyPut(toSrv, n, cli = "putName")',
             \A q \in Nat : PutRest(q) => PutRest(q)'
      PROVE  Puts'
  <2>1. ASSUME srv = "open" PROVE PutRest(0)'
    <3>1. PutRest(0)
      BY <1>8, <2>1 DEF Puts
    <3>2. QED
      BY <1>1, <1>8, <3>1
  <2>2. ASSUME srv = "write_f" PROVE WholeFile(saved.srv, Len(saved.srv))' /\ PutRest(Len(saved.srv))'
    <3>1. PICK q \in Nat : q = Len(saved.srv)
      BY <1>1
    <3>2. WholeFile(saved.srv, Len(saved.srv)) /\ PutRest(q)
      BY <1>8, <2>2, <3>1 DEF Puts
    <3>3. PutRest(q)'
      BY <1>8, <3>2
    <3>4. Len(saved'.srv) = q
      BY <1>8, <3>1
    <3>5. PutRest(Len(saved.srv))'
      BY <3>3, <3>4
    <3>6. WholeFile(saved.srv, Len(saved.srv))'
      BY <1>8, <3>2
    <3>7. QED
      BY <3>5, <3>6
  <2>3. QED
    BY <1>8, <2>1, <2>2 DEF Puts
\* the server steps that keep right and the client
<1>9. ASSUME SrvStep \/ SrvConsole
      PROVE  right' = right /\ (SrvAccept \/ UNCHANGED <<cli, n>>)
  BY <1>9 DEF SrvStep, SrvAccept, SrvGreet, SrvCommand, SrvBroken, SrvReadOpen, SrvSendLine,
       SrvSendEnd, SrvSendGet, SrvWriteOpen, SrvWrite, SrvConsole
<1>10. CASE CliConnect \/ CliBroken
  BY <1>2, <1>10 DEF CliConnect, CliBroken, CliOpen
<1>11. CASE SrvAccept
  <2>1. toSrv' = <<>> /\ srv' = "greet"
    BY <1>11 DEF SrvAccept
  <2>2. OnlyPut(toSrv, n, cli = "putName")'
    BY <2>1 DEF OnlyPut
  <2>3. QED
    BY <1>6, <2>1, <2>2
<1>12. ASSUME ~right \/ ~CliOpen,
              CliGreet \/ CliReply \/ CliSendLine \/ CliSendEnd \/ CliWrite \/ \E c \in Commands : CliType(c)
       PROVE  Puts'
  <2>1. right' = right /\ CliOpen
    BY <1>12 DEF CliGreet, CliReply, CliSendLine, CliSendEnd, CliWrite, CliType, CliOpen
  <2>2. QED
    BY <1>2, <1>12, <2>1
<1>13. ASSUME right, CliOpen, CliGreet PROVE Puts'
  <2>1. /\ cli = "greet" /\ cli' = "prompt" /\ toSrv' = Append(toSrv, Buffer("hello", 0, 0, Greeting))
        /\ UNCHANGED <<srv, n, m, left, size, saved, right>>
    BY <1>13 DEF CliGreet
  <2> DEFINE p == Buffer("hello", 0, 0, Greeting)
  <2>2. p \in Piece /\ p.from + p.len <= FMAX /\ p.kind = "hello"
    BY <1>4, <1>5, Sizes
  <2> HIDE DEF p
  <2>3. OnlyPut(toSrv, n, cli = "putName")'
    BY <1>7, <1>13, <2>1, <2>2 DEF p
  <2>4. \A q \in Nat : PutRest(q) => PutRest(q)'
    BY <2>1, <2>2, PutRestKept DEF p
  <2>5. QED
    BY <1>8, <1>13, <2>1, <2>3, <2>4
<1>14. ASSUME right, CliOpen, NEW c \in Commands, CliType(c) PROVE Puts'
  <2>1. /\ cli = "prompt" /\ cli' # "sending" /\ (cli' = "putName" <=> c = "put")
        /\ n' = n + 1 /\ n' \in 0..MaxCommands /\ toSrv' = Append(toSrv, Buffer(c, n', 0, MAX))
        /\ UNCHANGED <<srv, m, left, size, saved, right>>
    BY <1>1, <1>14 DEF CliType
  <2>2. m' # n'
    BY <1>1, <2>1
  <2> DEFINE p == Buffer(c, n', 0, MAX)
  <2>3. p \in Piece /\ p.from + p.len <= FMAX /\ p.kind = c /\ p.n = n'
    BY <1>4, <2>1, Sizes
  <2> HIDE DEF p
  <2>4. OnlyPut(toSrv, n, cli = "putName")'
    <3>1. OnlyPut(toSrv, n', c = "put")
      BY <1>14, <2>1 DEF Puts, OnlyPut
    <3>2. OnlyPut(Append(toSrv, p), n', c = "put")
      BY <1>1, <2>3, <3>1, OnlyPutSent
    <3>3. QED
      BY <2>1, <3>2 DEF OnlyPut, p
  <2>5. \A q \in Nat : PutRest(q) => PutRest(q)'
    <3>1. toSrv' = Append(toSrv, p)
      BY <2>1 DEF p
    <3>2. QED
      BY <2>1, <2>3, <3>1, PutRestKept
  <2>6. QED
    BY <1>8, <1>14, <2>1, <2>2, <2>4, <2>5
<1>15. ASSUME right, CliOpen, CliReply \/ CliWrite PROVE Puts'
  <2>1. /\ cli \in {"reply", "write_f"} /\ cli' \in {"out", "prompt", "write_f"}
        /\ UNCHANGED <<srv, toSrv, n, m, left, size, right>>
    BY <1>15 DEF CliReply, CliWrite
  <2>2. saved'.srv = saved.srv
    BY <1>1, <1>15 DEF CliReply, CliWrite
  <2>3. OnlyPut(toSrv, n, cli = "putName")'
    BY <1>15, <2>1 DEF Puts, OnlyPut
  <2>4. \A q \in Nat : PutRest(q) => PutRest(q)'
    BY <2>1, PutRestKept
  <2>5. QED
    BY <1>8, <1>15, <2>1, <2>2, <2>3, <2>4
<1>16. ASSUME right, CliOpen, CliSendLine PROVE Puts'
  <2>1. /\ cli = "sending" /\ cli' = cli /\ left.cli > 0 /\ toSrv' = Append(toSrv, NextLine("cli", n))
        /\ UNCHANGED <<srv, n, m, saved, right>>
    BY <1>16 DEF CliSendLine
  <2> DEFINE p == NextLine("cli", n)
  <2>2. p \in Piece /\ p.from + p.len <= FMAX /\ p.kind = "line"
    BY <1>1, <1>4, <1>5, <2>1, NextLineType
  <2> HIDE DEF p
  <2>3. OnlyPut(toSrv, n, cli = "putName")'
    BY <1>7, <1>16, <2>1, <2>2 DEF p
  <2>4. \A q \in Nat : PutRest(q) => PutRest(q)'
    BY <1>16, PutRestLine
  <2>5. QED
    BY <1>8, <1>16, <2>1, <2>3, <2>4
<1>17. ASSUME right, CliOpen, CliSendEnd PROVE Puts'
  <2>1. /\ cli = "sending" /\ cli' = "prompt" /\ toSrv' = Append(toSrv, Buffer("end", 0, 0, 1))
        /\ UNCHANGED <<srv, n, m, saved, right>>
    BY <1>17 DEF CliSendEnd, EndMark
  <2> DEFINE p == Buffer("end", 0, 0, 1)
  <2>2. p \in Piece /\ p.from + p.len <= FMAX /\ p.kind = "end"
    BY <1>4, <1>5, Sizes
  <2> HIDE DEF p
  <2>3. OnlyPut(toSrv, n, cli = "putName")'
    BY <1>7, <1>17, <2>1, <2>2 DEF p
  <2>4. \A q \in Nat : PutRest(q) => PutRest(q)'
    BY <1>17, PutRestEnd
  <2>5. QED
    BY <1>8, <1>17, <2>1, <2>3, <2>4
<1>18. ASSUME CliPutName \/ CliGetName PROVE Puts'
  <2>1. PICK t \in Texts(toCli) : right' = (t.kind = "name" /\ t.n = n)
    BY <1>18 DEF CliPutName, CliGetName
  <2>2. cli \in {"putName", "getName"} /\ UNCHANGED <<srv, toSrv, n, m>>
    BY <1>18 DEF CliPutName, CliGetName
  <2>3. CASE ~right'
    BY <1>2, <2>3
  <2>4. CASE right'
    <3>1. t.kind = "name" /\ t.n = n
      BY <2>1, <2>4
    <3>2. /\ m = n /\ toSrv = <<>>
          /\ srv \in IF cli = "putName" THEN {"open", "write_f", "dead"}
                     ELSE {"read_f", "sending", "endGet", "recv", "dead"}
      BY <2>2, <3>1, NameReceived
    <3>3. OnlyPut(toSrv, n, cli = "putName")'
      BY <2>2, <3>2 DEF OnlyPut
    <3>4. CASE srv \notin {"open", "write_f"}
      BY <1>6, <2>2, <3>3, <3>4
    <3>5. CASE cli' = "out"
      BY <1>2, <3>5 DEF CliOpen
    <3>6. CASE srv \in {"open", "write_f"} /\ cli' # "out"
      <4>1. cli = "putName"
        BY <2>2, <3>2, <3>6
      <4>2. cli' = "sending" /\ OpenToRead("cli") /\ saved' = saved
        BY <1>18, <3>6, <4>1 DEF CliPutName, CliGetName
      <4>3. left'.cli = size'.cli /\ size'.cli \in Nat
        BY <4>2, OpenType, NetShellAssumption
      <4>4. toSrv' = <<>> /\ Len(toSrv') = 0
        BY <2>2, <3>2
      <4>5. PutRest(0)'
        <5>1. size'.cli - left'.cli - 0 = 0
          BY <4>3
        <5>2. \A l \in 1..0 : FALSE
          OBVIOUS
        <5>3. QED
          BY <4>2, <4>4, <5>1, <5>2 DEF PutRest
      <4>6. srv = "write_f" => saved.srv = <<>> /\ WholeFile(saved.srv, Len(saved.srv))
        <5>1. SUFFICES ASSUME srv = "write_f" PROVE saved.srv = <<>>
          BY DEF WholeFile
        <5>2. QED
          BY <3>2, <4>1, <5>1 DEF NewFile
      <4>7. PutRest(Len(saved.srv))' \/ srv' # "write_f"
        <5>1. srv = "write_f" => Len(saved.srv) = 0
          BY <4>6
        <5>2. UNCHANGED <<saved, srv>>
          BY <2>2, <4>2
        <5>3. srv = "write_f" => Len(saved'.srv) = 0
          BY <5>1, <5>2
        <5>4. srv = "write_f" => PutRest(Len(saved.srv))'
          BY <4>5, <5>3
        <5>5. QED
          BY <5>2, <5>4
      <4>8. srv' = "write_f" => WholeFile(saved.srv, Len(saved.srv))'
        BY <2>2, <4>2, <4>6
      <4>9. QED
        BY <3>3, <4>5, <4>7, <4>8 DEF Puts
    <3>7. QED
      BY <3>4, <3>5, <3>6
  <2>5. QED
    BY <2>3, <2>4
<1>19. ASSUME ~right \/ ~CliOpen, SrvStep \/ SrvConsole, ~SrvAccept PROVE Puts'
  <2>1. right' = right /\ cli' = cli
    BY <1>9, <1>19
  <2>2. ~right' \/ ~CliOpen'
    BY <1>19, <2>1 DEF CliOpen
  <2>3. QED
    BY <1>2, <2>2
<1>20. ASSUME right, CliOpen, SrvGreet PROVE Puts'
  <2>1. toSrv' = Skip(toSrv, Greeting) /\ srv' = "recv" /\ UNCHANGED <<cli, n>>
    BY <1>20 DEF SrvGreet, SrvRecv
  <2>2. OnlyPut(toSrv, n, cli = "putName")'
    BY <1>3, <1>20, <2>1
  <2>3. QED
    BY <1>6, <2>1, <2>2
<1>21. ASSUME right, CliOpen, SrvCommand PROVE Puts'
  <2>1. PICK t \in Texts(toSrv) :
          /\ SrvRecv(MAX, t)
          /\ m' = t.n
          /\ \/ SrvSilentCd(t)
             \/ SrvReply(t) \/ SrvExit(t) \/ SrvTransfer(t)
    BY <1>21 DEF SrvCommand
  <2>2. toSrv' = Skip(toSrv, MAX) /\ UNCHANGED <<cli, n>> /\ toSrv # <<>>
    BY <1>21, <2>1 DEF SrvCommand, SrvRecv
  <2>3. OnlyPut(toSrv, n, cli = "putName")'
    BY <1>3, <1>21, <2>2
  <2>4. CASE t.kind # "put"
    <3>1. srv' \notin {"open", "write_f"}
      BY <2>1, <2>4 DEF SrvSilentCd, SrvReply, SrvExit, SrvTransfer
    <3>2. QED
      BY <1>6, <2>3, <3>1
  <2>5. CASE t.kind = "put"
    <3>1. toSrv[1].from = 0 /\ toSrv[1].kind = "put" /\ toSrv[1].n = t.n
      BY <1>1, <2>5, TextIs
    <3>2. 1 \in 1..Len(toSrv)
      BY <1>1, <2>2 DEF Inside
    <3>3. cli = "putName" /\ t.n = n
      BY <1>21, <3>1, <3>2 DEF Puts, OnlyPut
    <3>4. srv' = "open"
      BY <2>1, <2>5 DEF SrvSilentCd, SrvReply, SrvExit, SrvTransfer
    <3>5. cli' = "putName" /\ m' = n'
      BY <2>1, <2>2, <3>3
    <3>6. QED
      BY <2>3, <3>4, <3>5 DEF Puts
  <2>6. QED
    BY <2>4, <2>5
<1>22. ASSUME SrvBroken, CliOpen PROVE Puts'
  BY <1>22 DEF SrvBroken
<1>23. ASSUME right, CliOpen, SrvReadOpen \/ SrvSendLine \/ SrvSendEnd \/ SrvSendGet \/ SrvConsole PROVE Puts'
  <2>1. srv' \notin {"open", "write_f"} /\ UNCHANGED <<cli, n, toSrv>>
    BY <1>23 DEF SrvReadOpen, SrvSendLine, SrvSendEnd, SrvSendGet, SrvConsole
  <2>2. OnlyPut(toSrv, n, cli = "putName")'
    BY <1>23, <2>1 DEF Puts, OnlyPut
  <2>3. QED
    BY <1>6, <2>1, <2>2
<1>24. ASSUME right, CliOpen, SrvWriteOpen PROVE Puts'
  <2>1. /\ srv = "open" /\ srv' \in {"write_f", "dead"} /\ saved' = [saved EXCEPT !.srv = <<>>]
        /\ UNCHANGED <<cli, toSrv, n, m, left, size, right>>
    BY <1>24 DEF SrvWriteOpen
  <2>2. saved'.srv = <<>> /\ Len(saved'.srv) = 0
    BY <1>1, <2>1
  <2>3. WholeFile(saved.srv, Len(saved.srv))'
    BY <2>2 DEF WholeFile
  <2>4. OnlyPut(toSrv, n, cli = "putName")'
    BY <1>24, <2>1 DEF Puts, OnlyPut
  <2>5. CASE cli = "putName" /\ m = n
    BY <2>1, <2>2, <2>3, <2>4, <2>5 DEF Puts
  <2>6. CASE ~(cli = "putName" /\ m = n)
    <3>1. PutRest(0)
      BY <1>24, <2>1, <2>6 DEF Puts
    <3>2. PutRest(0)'
      BY <2>1, <3>1 DEF PutRest
    <3>3. PutRest(Len(saved.srv))'
      BY <2>2, <3>2
    <3>4. QED
      BY <2>1, <2>3, <2>4, <2>6, <3>3 DEF Puts
  <2>7. QED
    BY <2>5, <2>6
<1>25. ASSUME right, CliOpen, SrvWrite PROVE Puts'
  <2>1. toSrv' = Skip(toSrv, FMAX) /\ UNCHANGED <<cli, n, m, right>>
    BY <1>25 DEF SrvWrite, SrvRecv
  <2>2. OnlyPut(toSrv, n, cli = "putName")'
    BY <1>3, <1>25, <2>1
  <2>3. CASE srv' = "recv"
    BY <1>6, <2>2, <2>3
  <2>4. CASE srv' # "recv"
    <3>1. /\ saved' = [saved EXCEPT !.srv = Append(@, Len(saved.srv) + 1)] /\ srv' = "write_f"
          /\ ~(cli = "putName" /\ m = n)
          /\ WholeFile(saved.srv, Len(saved.srv)) /\ PutRest(Len(saved.srv))'
      BY <1>25, <2>4, PutWrites
    <3>2. saved'.srv = Append(saved.srv, Len(saved.srv) + 1)
      BY <1>1, <3>1
    <3>3. Len(saved'.srv) = Len(saved.srv) + 1 /\ WholeFile(saved'.srv, Len(saved.srv) + 1)
      BY <1>1, <3>1, <3>2, WholeNext
    <3>4. WholeFile(saved.srv, Len(saved.srv))'
      BY <3>3
    <3>5. ~(cli' = "putName" /\ m' = n')
      BY <2>1, <3>1
    <3>6. QED
      BY <2>2, <3>1, <3>4, <3>5 DEF Puts
  <2>5. QED
    BY <2>3, <2>4
<1>26. ASSUME SrvStep \/ SrvConsole PROVE Puts'
  <2>1. CASE right /\ CliOpen /\ ~SrvAccept
    BY <1>20, <1>21, <1>22, <1>23, <1>24, <1>25, <1>26, <2>1 DEF SrvStep
  <2>2. CASE ~(right /\ CliOpen) /\ ~SrvAccept
    BY <1>19, <1>26, <2>2
  <2>3. QED
    BY <1>11, <2>1, <2>2
<1>27. ASSUME CliGreet \/ CliReply \/ CliSendLine \/ CliSendEnd \/ CliWrite \/ \E c \in Commands : CliType(c)
       PROVE  Puts'
  <2>1. CASE right /\ CliOpen
    BY <1>13, <1>14, <1>15, <1>16, <1>17, <1>27, <2>1
  <2>2. CASE ~(right /\ CliOpen)
    BY <1>12, <1>27, <2>2
  <2>3. QED
    BY <2>1, <2>2
<1>28. QED
  BY <1>10, <1>18, <1>26, <1>27 DEF Next, CliStep, User

-----------------------------------------------------------------------------
(* Commands and answers before a put *)

\* A command sent after the others is one more.
LEMMA CommandsSent ==
  ASSUME NEW s, Inside(s), NEW g \in BOOLEAN, NEW S, CommandsOnly(s, g, S), g => s # <<>>,
         NEW c \in Commands, c \in S, NEW i \in 0..MaxCommands
  PROVE  /\ CommandsOnly(Append(s, Buffer(c, i, 0, MAX)), g, S)
         /\ Len(Append(s, Buffer(c, i, 0, MAX))) = Len(s) + 1 /\ Len(s) \in Nat
<1> DEFINE p == Buffer(c, i, 0, MAX)
<1>1. p \in Piece /\ p.from + p.len <= FMAX /\ p.kind = c /\ p.from = 0 /\ p.len = MAX
  <2>1. MAX \in 1..FMAX /\ 0 \in 0..MaxLines /\ c \in Kinds \cup Commands
    BY Sizes
  <2>2. QED
    BY <2>1, SentBuffer
<1> HIDE DEF p
<1>2. /\ Len(s) \in Nat /\ Len(Append(s, p)) = Len(s) + 1
      /\ \A j \in 1..Len(s) : Append(s, p)[j] = s[j]
      /\ Append(s, p)[Len(s) + 1] = p
  BY <1>1, SentLast
<1>3. g => Len(s) # 0
  BY DEF Inside
<1>4. ASSUME NEW j \in 1..Len(Append(s, p))
      PROVE  /\ Append(s, p)[j].from = 0
             /\ IF g /\ j = 1 THEN Append(s, p)[j].kind = "hello" /\ Append(s, p)[j].len = Greeting
                ELSE Append(s, p)[j].kind \in S /\ Append(s, p)[j].len = MAX
  <2>1. CASE j = Len(s) + 1
    <3>1. Append(s, p)[j] = p /\ ~(g /\ j = 1)
      BY <1>2, <1>3, <2>1
    <3>2. QED
      BY <1>1, <3>1
  <2>2. CASE j # Len(s) + 1
    <3>1. j \in 1..Len(s) /\ Append(s, p)[j] = s[j]
      BY <1>2, <2>2
    <3>2. QED
      BY <3>1 DEF CommandsOnly
  <2>3. QED
    BY <2>1, <2>2
<1>5. CommandsOnly(Append(s, p), g, S)
  BY <1>4 DEF CommandsOnly
<1>6. QED
  BY <1>2, <1>5 DEF p

\* The server receives the greeting or the next command as a whole.
LEMMA CommandsTaken ==
  ASSUME NEW s, Inside(s), s # <<>>, NEW g \in BOOLEAN, NEW S, CommandsOnly(s, g, S),
         NEW k, k = IF g THEN Greeting ELSE MAX
  PROVE  /\ CommandsOnly(Skip(s, k), FALSE, S) /\ Inside(Skip(s, k))
         /\ Len(s) \in Nat /\ Len(Skip(s, k)) = Len(s) - 1
<1>1. 1 \in 1..Len(s)
  BY DEF Inside
<1>2. k = s[1].len
  BY <1>1 DEF CommandsOnly
<1>3. /\ Len(s) \in Nat /\ Len(s) >= 1
      /\ Inside(Skip(s, k)) /\ Len(Skip(s, k)) = Len(s) - 1
      /\ \A i \in 1..Len(s) - 1 : Skip(s, k)[i] = s[i + 1]
  BY <1>2, FirstTaken
<1>4. ASSUME NEW i \in 1..Len(Skip(s, k))
      PROVE  Skip(s, k)[i].from = 0 /\ Skip(s, k)[i].kind \in S /\ Skip(s, k)[i].len = MAX
  <2>1. Skip(s, k)[i] = s[i + 1] /\ i + 1 \in 1..Len(s) /\ i + 1 # 1
    BY <1>3
  <2>2. QED
    BY <2>1 DEF CommandsOnly
<1>5. CommandsOnly(Skip(s, k), FALSE, S)
  BY <1>4 DEF CommandsOnly
<1>6. QED
  BY <1>3, <1>5

\* Every step keeps the commands whole before a put.
LEMMA WholeCommandsStep ==
  ASSUME TypeOK, WholeCommands, Next
  PROVE  WholeCommands'
<1> USE DEF transfer
<1>1. /\ Inside(toSrv) /\ n \in 0..MaxCommands /\ MaxCommands \in Nat /\ past \subseteq Commands \cup {"silent"}
  BY NetShellAssumption DEF TypeOK
<1>2. ASSUME SrvAccept PROVE WholeCommands'
  <2>1. toSrv' = <<>> /\ srv' = "greet" /\ cli' = "greet"
    BY <1>2 DEF SrvAccept
  <2>2. CommandsOnly(toSrv, srv = "greet", past \cap Commands)'
    BY <2>1 DEF CommandsOnly
  <2>3. QED
    BY <2>1, <2>2 DEF WholeCommands
<1>3. ASSUME ~SrvAccept PROVE past \subseteq past'
  BY <1>3 DEF Next, CliStep, SrvStep, User, CliGreet, CliReply, CliPutName, CliSendLine, CliSendEnd,
     CliGetName, CliWrite, CliBroken, SrvGreet, SrvCommand, SrvSilentCd, SrvBroken, SrvReadOpen, SrvSendLine,
     SrvSendEnd, SrvSendGet, SrvWriteOpen, SrvWrite, CliConnect, SrvConsole, CliType
<1>4. SUFFICES ASSUME "put" \notin past', ~SrvAccept PROVE WholeCommands'
  BY <1>2 DEF WholeCommands
<1> DEFINE g == srv = "greet"
           S == past \cap Commands
<1>5. /\ "put" \notin past
      /\ srv \notin {"open", "write_f"} /\ cli \notin {"putName", "sending"}
      /\ cli = "greet" => srv = "greet" /\ toSrv = <<>>
      /\ srv = "greet" /\ cli # "greet" => toSrv # <<>>
      /\ CommandsOnly(toSrv, g, S)
  BY <1>3, <1>4 DEF WholeCommands
<1>6. ASSUME CliConnect \/ CliBroken \/ CliReply \/ CliGetName \/ CliWrite
      PROVE  WholeCommands'
  <2>1. /\ UNCHANGED <<srv, toSrv, past>> /\ cli # "greet"
        /\ cli' \in {"waiting", "out", "prompt", "write_f"}
    BY <1>6 DEF CliConnect, CliBroken, CliReply, CliGetName, CliWrite
  <2>2. QED
    BY <1>5, <2>1 DEF WholeCommands
<1>7. ASSUME SrvReadOpen \/ SrvSendLine \/ SrvSendEnd \/ SrvSendGet \/ SrvConsole
      PROVE  WholeCommands'
  <2>1. /\ UNCHANGED <<cli, toSrv, past>> /\ srv # "greet"
        /\ srv' \in {"sending", "dead", "endGet", "recv", "accept", "closed"}
    BY <1>7 DEF SrvReadOpen, SrvSendLine, SrvSendEnd, SrvSendGet, SrvConsole
  <2>2. cli # "greet"
    BY <1>5, <2>1
  <2>3. QED
    BY <1>5, <2>1, <2>2 DEF WholeCommands
<1>8. ASSUME SrvBroken PROVE WholeCommands'
  <2>1. cli # "greet" /\ toSrv' = <<>> /\ srv' = "dead" /\ cli' = cli
    BY <1>8 DEF SrvBroken, CliOpen
  <2>2. CommandsOnly(toSrv, srv = "greet", past \cap Commands)'
    BY <2>1 DEF CommandsOnly
  <2>3. QED
    BY <1>5, <2>1, <2>2 DEF WholeCommands
<1>9. ASSUME CliGreet PROVE WholeCommands'
  <2> DEFINE p == Buffer("hello", 0, 0, Greeting)
  <2>1. /\ toSrv = <<>> /\ srv = "greet" /\ toSrv' = Append(toSrv, p)
        /\ cli' = "prompt" /\ UNCHANGED <<srv, past>>
    BY <1>5, <1>9 DEF CliGreet
  <2>2. p.from = 0 /\ p.kind = "hello" /\ p.len = Greeting
    BY DEF Buffer
  <2> HIDE DEF p
  <2>3. toSrv' = <<p>>
    BY <2>1
  <2>4. toSrv' # <<>> /\ Len(toSrv') = 1 /\ toSrv'[1] = p
    BY <2>3
  <2>5. CommandsOnly(toSrv, srv = "greet", past \cap Commands)'
    BY <2>1, <2>2, <2>4 DEF CommandsOnly
  <2>6. QED
    BY <2>1, <2>4, <2>5 DEF WholeCommands
<1>10. ASSUME NEW c \in Commands, CliType(c) PROVE WholeCommands'
  <2> DEFINE p == Buffer(c, n', 0, MAX)
             R == S \cup {c}
  <2>1. /\ cli = "prompt" /\ n' = n + 1 /\ n' \in 0..MaxCommands /\ past' = past \cup {c}
        /\ toSrv' = Append(toSrv, p) /\ srv' = srv
        /\ c # "put" /\ cli' \in {"getName", "reply"}
    <3>1. c # "put"
      BY <1>4, <1>10 DEF CliType
    <3>2. QED
      BY <1>1, <1>10, <3>1 DEF CliType
  <2>2. g => toSrv # <<>>
    BY <1>5, <2>1
  <2>3. CommandsOnly(toSrv, g, R)
    BY <1>5 DEF CommandsOnly
  <2> HIDE DEF g, S, R
  <2>4. g \in BOOLEAN /\ c \in R
    BY DEF g, R
  <2>5. CommandsOnly(Append(toSrv, p), g, R) /\ Len(Append(toSrv, p)) = Len(toSrv) + 1 /\ Len(toSrv) \in Nat
    BY <1>1, <2>1, <2>2, <2>3, <2>4, CommandsSent
  <2>6. R = (past \cap Commands)' /\ g = (srv' = "greet")
    BY <2>1 DEF R, S, g
  <2>7. CommandsOnly(toSrv, srv = "greet", past \cap Commands)'
    BY <2>1, <2>5, <2>6
  <2>8. toSrv' # <<>>
    <3>1. Len(toSrv') # 0
      BY <2>1, <2>5
    <3>2. QED
      BY <3>1
  <2>9. QED
    BY <1>5, <2>1, <2>7, <2>8 DEF WholeCommands
<1>11. ASSUME SrvGreet PROVE WholeCommands'
  <2>1. /\ srv = "greet" /\ srv' = "recv" /\ toSrv' = Skip(toSrv, Greeting) /\ UNCHANGED <<cli, past>>
        /\ cli # "greet" /\ toSrv # <<>>
    BY <1>5, <1>11 DEF SrvGreet, SrvRecv, CliOpen
  <2>2. CommandsOnly(toSrv, TRUE, S)
    BY <1>5, <2>1
  <2> HIDE DEF S
  <2>3. CommandsOnly(Skip(toSrv, Greeting), FALSE, S)
    BY <1>1, <2>1, <2>2, CommandsTaken
  <2>4. CommandsOnly(toSrv, srv = "greet", past \cap Commands)'
    BY <2>1, <2>3 DEF S
  <2>5. QED
    BY <1>5, <2>1, <2>4 DEF WholeCommands
<1>12. ASSUME SrvCommand PROVE WholeCommands'
  <2>1. PICK t \in Texts(toSrv) :
          /\ SrvRecv(MAX, t)
          /\ SrvSilentCd(t) \/ SrvReply(t) \/ SrvExit(t) \/ SrvTransfer(t)
    BY <1>12 DEF SrvCommand
  <2>2. /\ srv = "recv" /\ toSrv # <<>> /\ toSrv' = Skip(toSrv, MAX) /\ cli' = cli
        /\ past' \cap Commands = past \cap Commands
    <3>1. srv = "recv" /\ toSrv # <<>> /\ toSrv' = Skip(toSrv, MAX) /\ cli' = cli
      BY <1>12, <2>1 DEF SrvCommand, SrvRecv
    <3>2. past' = past \/ past' = past \cup {"silent"}
      BY <1>12 DEF SrvCommand, SrvSilentCd
    <3>3. "silent" \notin Commands
      BY NetShellAssumption
    <3>4. QED
      BY <3>1, <3>2, <3>3
  <2>3. CommandsOnly(toSrv, FALSE, S)
    BY <1>5, <2>2
  <2>4. toSrv[1].from = 0 /\ toSrv[1].kind \in past \cap Commands
    <3>1. 1 \in 1..Len(toSrv)
      BY <1>1, <2>2 DEF Inside
    <3>2. QED
      BY <2>3, <3>1 DEF CommandsOnly
  <2> HIDE DEF S
  <2>5. CommandsOnly(Skip(toSrv, MAX), FALSE, S)
    BY <1>1, <2>2, <2>3, CommandsTaken
  <2>6. t.kind # "put"
    BY <1>1, <1>5, <2>4, TextIs
  <2>7. srv' \in {"recv", "console", "read_f"}
    BY <2>1, <2>6 DEF SrvSilentCd, SrvReply, SrvExit, SrvTransfer
  <2>8. CommandsOnly(toSrv, srv = "greet", past \cap Commands)'
    BY <2>2, <2>5, <2>7 DEF S
  <2>9. cli # "greet"
    BY <1>5, <2>2
  <2>10. QED
    BY <1>5, <2>2, <2>7, <2>8, <2>9 DEF WholeCommands
<1>13. ~(CliPutName \/ CliSendLine \/ CliSendEnd \/ SrvWriteOpen \/ SrvWrite)
  BY <1>5 DEF CliPutName, CliSendLine, CliSendEnd, SrvWriteOpen, SrvWrite
<1>14. QED
  BY <1>4, <1>6, <1>7, <1>8, <1>9, <1>10, <1>11, <1>12, <1>13 DEF Next, CliStep, SrvStep, User

\* Every step keeps an answer on its way before a put.
LEMMA AnswerComesStep ==
  ASSUME TypeOK, WholeCommands, AnswerComes, Next
  PROVE  AnswerComes'
<1> USE DEF transfer
<1>1. /\ Inside(toSrv) /\ Inside(toCli) /\ n \in 0..MaxCommands /\ MaxCommands \in Nat
      /\ m \in 0..MaxCommands
  BY NetShellAssumption DEF TypeOK
<1>2. ASSUME cli' \notin {"reply", "getName"} \/ srv' \notin {"greet", "recv"} \/ "silent" \in past' \/ "put" \in past'
      PROVE  AnswerComes'
  BY <1>2 DEF AnswerComes
<1>3. ASSUME srv' = "recv", toSrv' # <<>> \/ toCli' # <<>> PROVE AnswerComes'
  BY <1>3 DEF AnswerComes
<1>4. ASSUME NEW c \in Kinds \cup Commands, NEW i \in 0..MaxCommands PROVE Append(toCli, Buffer(c, i, 0, MAX)) # <<>>
  OBVIOUS
<1>5. CASE SrvAccept \/ CliConnect \/ CliGreet \/ CliBroken \/ CliReply \/ CliPutName \/ CliSendLine
           \/ CliSendEnd \/ CliGetName \/ CliWrite
  BY <1>2, <1>5 DEF SrvAccept, CliConnect, CliGreet, CliBroken, CliReply, CliPutName, CliSendLine,
     CliSendEnd, CliGetName, CliWrite
<1>6. CASE SrvBroken \/ SrvReadOpen \/ SrvSendLine \/ SrvSendEnd \/ SrvWriteOpen \/ SrvConsole
  BY <1>2, <1>6 DEF SrvBroken, SrvReadOpen, SrvSendLine, SrvSendEnd, SrvWriteOpen, SrvConsole
<1>7. CASE SrvSendGet
  <2>1. srv' = "recv" /\ toCli' # <<>>
    BY <1>7 DEF SrvSendGet, Send
  <2>2. QED
    BY <1>3, <2>1
<1>8. CASE SrvWrite
  <2>1. "put" \in past'
    BY <1>8 DEF SrvWrite, WholeCommands
  <2>2. QED
    BY <1>2, <2>1
<1>9. ASSUME NEW c \in Commands, CliType(c) PROVE AnswerComes'
  <2>1. /\ cli = "prompt" /\ past \subseteq past' /\ toSrv' = Append(toSrv, Buffer(c, n', 0, MAX))
        /\ srv' = srv /\ toSrv' # <<>>
    BY <1>9 DEF CliType
  <2>2. CASE srv = "greet" /\ "put" \notin past
    <3>1. toSrv # <<>>
      BY <2>1, <2>2 DEF WholeCommands
    <3>2. Len(toSrv) \in Nat /\ Len(toSrv) # 0 /\ Len(toSrv') = Len(toSrv) + 1
      BY <1>1, <2>1, <3>1 DEF Inside
    <3>3. Len(toSrv') > 1
      BY <3>2
    <3>4. QED
      BY <2>1, <2>2, <3>3 DEF AnswerComes
  <2>3. QED
    BY <1>2, <1>3, <2>1, <2>2
<1>10. CASE SrvGreet
  <2>1. CASE past \cap {"put", "silent"} = {} /\ cli \in {"reply", "getName"}
    <3>1. /\ srv = "greet" /\ srv' = "recv" /\ toSrv' = Skip(toSrv, Greeting) /\ Len(toSrv) > 1
          /\ UNCHANGED <<cli, past>>
      BY <1>10, <2>1 DEF SrvGreet, SrvRecv, AnswerComes
    <3>2. CommandsOnly(toSrv, TRUE, past \cap Commands) /\ toSrv # <<>>
      BY <2>1, <3>1 DEF WholeCommands
    <3>3. Len(toSrv) \in Nat /\ Len(Skip(toSrv, Greeting)) = Len(toSrv) - 1
      BY <1>1, <3>2, CommandsTaken
    <3>4. Len(toSrv') # 0
      BY <3>1, <3>3
    <3>5. QED
      BY <1>3, <3>1, <3>4
  <2>2. CASE ~(past \cap {"put", "silent"} = {} /\ cli \in {"reply", "getName"})
    BY <1>10, <2>2 DEF SrvGreet, AnswerComes
  <2>3. QED
    BY <2>1, <2>2
<1>11. CASE SrvCommand
  <2>1. PICK t \in Texts(toSrv) : SrvSilentCd(t) \/ SrvReply(t) \/ SrvExit(t) \/ SrvTransfer(t)
    BY <1>11 DEF SrvCommand
  <2>2. CASE SrvSilentCd(t)
    BY <1>2, <2>2 DEF SrvSilentCd
  <2>3. CASE SrvReply(t)
    BY <1>3, <2>3 DEF SrvReply, Send
  <2>4. CASE SrvExit(t) \/ SrvTransfer(t)
    BY <1>2, <2>4 DEF SrvExit, SrvTransfer
  <2>5. QED
    BY <2>1, <2>2, <2>3, <2>4
<1>12. QED
  BY <1>5, <1>6, <1>7, <1>8, <1>9, <1>10, <1>11 DEF Next, CliStep, SrvStep, User

\* Client and server do not wait for each other.
LEMMA AnswerOnItsWay ==
  ASSUME TypeOK, Left, WholeCommands, AnswerComes, Gets
  PROVE  NoMutualWaitBefore
<1>1. SUFFICES ASSUME past \cap {"put", "silent"} = {}, cli = "write_f" => right, BothWait PROVE FALSE
  BY DEF NoMutualWaitBefore
<1>2. toCli = <<>> /\ srv = "recv" /\ toSrv = <<>> /\ cli \in {"reply", "putName", "getName", "write_f"}
  BY <1>1 DEF BothWait
<1>3. cli = "write_f"
  BY <1>1, <1>2 DEF WholeCommands, AnswerComes
<1>4. GetRest(0, Len(saved.cli))
  BY <1>1, <1>3 DEF Gets
<1> DEFINE k == size.srv - left.srv - Len(saved.cli)
<1>5. left.srv = 0 /\ k >= 0 /\ Len(toCli) > 0 + k
  BY <1>2, <1>4 DEF GetRest
<1>6. Len(toCli) = 0 /\ size.srv \in Nat /\ left.srv \in Nat /\ Len(saved.cli) \in Nat
  BY <1>2, RestNumbers
<1>7. k \in Int
  BY <1>6
<1> HIDE DEF k
<1>8. QED
  BY <1>5, <1>6, <1>7

-----------------------------------------------------------------------------
(* One answer at a time *)

\* The command typed is behind everything else on its way.
LEMMA TypedSent ==
  ASSUME TypeOK, Numbers, NEW c \in Commands, CliType(c), c # "get"
  PROVE  /\ Typed' /\ ~Typed /\ m' # n' /\ cli' \in {"putName", "reply"} /\ n' \in 0..MaxCommands
         /\ Len(toSrv) \in Nat /\ Len(toSrv') = Len(toSrv) + 1
         /\ \A i \in 1..Len(toSrv) : toSrv'[i] = toSrv[i]
         /\ \A i \in Nat : i = Len(toSrv) + 1 => TypedIs(i)'
<1> USE DEF transfer
<1>1. Inside(toSrv) /\ n \in 0..MaxCommands /\ MaxCommands \in Nat /\ m \in 0..MaxCommands /\ m <= n
  BY NetShellAssumption DEF TypeOK, Numbers
<1>2. /\ cli = "prompt" /\ n' = n + 1 /\ n' \in 0..MaxCommands /\ m' = m
      /\ past' = past \cup {c} /\ toSrv' = Append(toSrv, Buffer(c, n', 0, MAX))
      /\ cli' = IF c = "put" THEN "putName" ELSE "reply"
  BY <1>1 DEF CliType
<1>8. PICK k \in 0..MaxCommands : k = n'
  BY <1>2
<1> DEFINE p == Buffer(c, k, 0, MAX)
<1>3. p \in Piece /\ p.from + p.len <= FMAX
  <2>1. MAX \in 1..FMAX /\ 0 \in 0..MaxLines /\ c \in Kinds \cup Commands
    BY Sizes
  <2>2. QED
    BY <1>8, <2>1, SentBuffer
<1>4. IsTyped(p)'
  <2>1. p = Buffer(c, n', 0, MAX) /\ c \in (past \cap Commands)' /\ (c = "put" <=> cli' = "putName")
    BY <1>2, <1>8
  <2>2. QED
    BY <2>1 DEF IsTyped
<1> HIDE DEF p
<1>5. /\ Len(toSrv) \in Nat /\ Len(Append(toSrv, p)) = Len(toSrv) + 1
      /\ \A i \in 1..Len(toSrv) : Append(toSrv, p)[i] = toSrv[i]
      /\ Append(toSrv, p)[Len(toSrv) + 1] = p
  BY <1>1, <1>3, SentLast
<1>6. toSrv' = Append(toSrv, p)
  BY <1>2, <1>8 DEF p
<1>7. QED
  <2>1. Typed' /\ ~Typed /\ m' # n' /\ cli' \in {"putName", "reply"}
    BY <1>1, <1>2 DEF Typed
  <2>2. ASSUME NEW i \in Nat, i = Len(toSrv) + 1 PROVE TypedIs(i)'
    <3>1. Len(toSrv') = i /\ toSrv'[i] = p
      BY <1>5, <1>6, <2>2
    <3>2. IsTyped(toSrv[i])'
      BY <1>4, <3>1
    <3>3. QED
      BY <2>1, <3>1, <3>2 DEF TypedIs
  <2>3. QED
    BY <1>2, <1>5, <1>6, <2>1, <2>2

\* Every step of the client keeps the only answer.
LEMMA OneAnswerClient ==
  ASSUME TypeOK, Numbers, Asked, OneAnswer, Undisturbed, Undisturbed',
         CliGreet \/ CliReply \/ CliPutName \/ CliSendLine \/ CliSendEnd \/ CliGetName \/ CliWrite
  PROVE  OneAnswer'
<1> USE DEF transfer
<1>1. /\ Inside(toSrv) /\ Inside(toCli) /\ n \in 0..MaxCommands /\ m \in 0..MaxCommands /\ MaxCommands \in Nat
      /\ Len(toSrv) \in Nat /\ Len(toCli) \in Nat /\ toSrv \in Seq(Piece) /\ toCli \in Seq(Piece)
  BY NetShellAssumption DEF TypeOK, Inside
<1>2. /\ srv \notin {"read_f", "sending", "endGet"} /\ cli \notin {"getName", "write_f"}
      /\ Answer /\ Request
  BY DEF OneAnswer
<1>3. Skip(<<>>, MAX) = <<>>
  <2>1. PICK e : e = <<>>
    OBVIOUS
  <2>2. Inside(e) /\ Len(e) = 0 /\ e = <<>> /\ MAX \in Nat
    BY <1>1, <2>1, SentInside, Sizes
  <2>3. Skip(e, MAX) = <<>>
    BY <2>2, SkipAll
  <2>4. QED
    BY <2>1, <2>3
<1>4. ASSUME NEW k \in Nat, Len(toCli) = 1, toCli[1].len = k PROVE Skip(toCli, k) = <<>>
  <2>1. PICK s : s = toCli
    OBVIOUS
  <2>2. Inside(s) /\ Len(s) = 1 /\ s[1].len = k
    BY <1>1, <1>4, <2>1
  <2>3. Len(s) <= 2 /\ Len(s) # 2 /\ s[1].len <= k
    BY <1>4, <2>2
  <2>4. Skip(s, k) = <<>>
    BY <2>2, <2>3, SkipAll
  <2>5. QED
    BY <2>1, <2>4
<1>5. ~CliGetName /\ ~CliWrite
  BY <1>2 DEF CliGetName, CliWrite
<1>6. ASSUME CliGreet PROVE OneAnswer'
  <2> DEFINE p == Buffer("hello", 0, 0, Greeting)
  <2>1. /\ cli = "greet" /\ cli' = "prompt" /\ srv = "greet" /\ srv' = srv /\ toSrv = <<>>
        /\ toSrv' = Append(toSrv, p) /\ toCli' = Skip(toCli, Greeting)
        /\ Len(toCli) = 1 /\ toCli[1].len = Greeting
    BY <1>2, <1>6 DEF CliGreet, CliRecv, Answer, Request
  <2>2. p.len = Greeting
    BY DEF Buffer
  <2> HIDE DEF p
  <2>3. Len(toSrv') = 1 /\ toSrv'[1] = p
    BY <2>1
  <2>4. toCli' = <<>>
    BY <1>4, <2>1, Sizes
  <2>5. Answer'
    BY <2>1, <2>4 DEF Answer
  <2>6. Request'
    BY <2>1, <2>2, <2>3 DEF Request, TypedIs, Typed
  <2>7. QED
    BY <2>1, <2>5, <2>6 DEF OneAnswer
<1>7. ASSUME CliReply PROVE OneAnswer'
  <2>1. /\ cli = "reply" /\ UNCHANGED <<srv, toSrv, n, m, past>> /\ cli' = "prompt"
        /\ toCli' = Skip(toCli, MAX) /\ (toCli # <<>> \/ SrvGone)
    BY <1>7 DEF CliReply, CliRecv, Undisturbed, CliOpen
  <2>2. toCli' = <<>> /\ (m = n \/ SrvGone)
    <3>1. CASE toCli = <<>>
      BY <1>3, <2>1, <3>1
    <3>2. CASE toCli # <<>>
      <4>1. m = n /\ Len(toCli) = 1 /\ toCli[1].len = MAX
        BY <1>2, <2>1, <3>2 DEF Answer
      <4>2. QED
        BY <1>4, <2>1, <4>1, Sizes
    <3>3. QED
      BY <3>1, <3>2
  <2>3. CASE SrvGone
    <3>1. srv' \in {"closed", "dead"}
      BY <2>1, <2>3 DEF SrvGone
    <3>2. Answer' /\ Request'
      BY <2>1, <2>2, <3>1 DEF Answer, Request
    <3>3. QED
      BY <2>1, <3>1, <3>2 DEF OneAnswer
  <2>4. CASE m = n
    <3>1. toSrv = <<>> /\ srv \notin {"greet", "open", "write_f"}
      <4>1. toSrv = <<>> /\ Len(toSrv) = 0 /\ ~Typed
        BY <1>2, <2>1, <2>4 DEF Answer, Typed
      <4>2. srv # "greet"
        BY <1>2, <2>1, <4>1 DEF Request, TypedIs
      <4>3. srv \notin {"open", "write_f"}
        BY <1>2, <2>1, <2>4 DEF Request
      <4>4. QED
        BY <4>1, <4>2, <4>3
    <3>2. Answer' /\ Request'
      BY <2>1, <2>2, <3>1 DEF Answer, Request
    <3>3. QED
      BY <1>2, <2>1, <3>2 DEF OneAnswer
  <2>5. QED
    BY <2>2, <2>3, <2>4
<1>8. ASSUME CliPutName PROVE OneAnswer'
  <2>1. PICK t \in Texts(toCli) : CliRecv(MAX, t) /\ (t # Empty \/ cli' = "out")
    BY <1>8 DEF CliPutName
  <2>2. /\ cli = "putName" /\ cli' = "sending" /\ UNCHANGED <<srv, toSrv, n, m, past>>
        /\ toCli' = Skip(toCli, MAX) /\ t # Empty
    BY <1>8, <2>1 DEF CliPutName, CliRecv, Undisturbed, CliOpen
  <2>3. toCli # <<>>
    BY <1>1, <2>2, TextIs
  <2>4. m = n /\ Len(toCli) = 1 /\ toCli[1].len = MAX
    BY <1>2, <2>2, <2>3 DEF Answer
  <2>5. toCli' = <<>>
    BY <1>4, <2>2, <2>4, Sizes
  <2>6. toSrv = <<>> /\ srv \in {"open", "write_f", "dead"}
    BY <2>2, <2>4 DEF Asked
  <2>7. Answer'
    BY <2>2, <2>5 DEF Answer
  <2>8. Request'
    BY <2>2, <2>6 DEF Request
  <2>9. QED
    BY <1>2, <2>2, <2>7, <2>8 DEF OneAnswer
<1>9. ASSUME CliSendLine PROVE OneAnswer'
  <2> DEFINE p == NextLine("cli", n)
  <2>1. /\ cli = "sending" /\ UNCHANGED <<cli, srv, toCli, n, m>> /\ toSrv' = Append(toSrv, p)
        /\ srv \in {"open", "write_f", "dead"} /\ toCli = <<>>
    BY <1>2, <1>9 DEF CliSendLine, Answer, Request
  <2>2. WholeLine(p)
    BY DEF NextLine, WholeLine, Buffer
  <2> HIDE DEF p
  <2>3. /\ Len(Append(toSrv, p)) = Len(toSrv) + 1 /\ Append(toSrv, p)[Len(toSrv) + 1] = p
        /\ \A i \in 1..Len(toSrv) : Append(toSrv, p)[i] = toSrv[i]
    BY <1>1
  <2>4. ASSUME srv \in {"open", "write_f"}, NEW i \in 1..Len(toSrv') PROVE WholeLine(toSrv'[i])
    <3>1. CASE i = Len(toSrv) + 1
      BY <2>1, <2>2, <2>3, <3>1
    <3>2. CASE i # Len(toSrv) + 1
      <4>1. i \in 1..Len(toSrv) /\ toSrv'[i] = toSrv[i]
        BY <1>1, <2>1, <2>3, <3>2
      <4>2. WholeLine(toSrv[i])
        BY <1>2, <2>1, <2>4, <4>1 DEF Request
      <4>3. QED
        BY <4>1, <4>2
    <3>3. QED
      BY <3>1, <3>2
  <2>5. Answer'
    BY <2>1 DEF Answer
  <2>6. Request'
    BY <2>1, <2>4 DEF Request
  <2>7. QED
    BY <1>2, <2>1, <2>5, <2>6 DEF OneAnswer
<1>10. ASSUME CliSendEnd PROVE OneAnswer'
  <2>1. /\ cli = "sending" /\ cli' = "prompt" /\ UNCHANGED <<srv, toCli, n, m>> /\ toSrv' = Append(toSrv, EndMark)
        /\ srv \in {"open", "write_f", "dead"} /\ toCli = <<>>
    BY <1>2, <1>10 DEF CliSendEnd, Answer, Request
  <2>2. PICK e \in Nat : e = Len(toSrv) + 1
    BY <1>1
  <2>3. /\ Len(toSrv') = e /\ toSrv'[e] = EndMark /\ e \in 1..Len(toSrv')
        /\ \A i \in 1..e - 1 : toSrv'[i] = toSrv[i] /\ i \in 1..Len(toSrv)
    BY <1>1, <2>1, <2>2
  <2>4. ASSUME srv \in {"open", "write_f"} PROVE FileSent'
    <3>1. \A i \in 1..e - 1 : WholeLine(toSrv'[i])
      BY <1>2, <2>1, <2>3, <2>4 DEF Request
    <3>2. TypedIs(e + 1)'
      BY <2>1, <2>3 DEF TypedIs, Typed
    <3>3. QED
      BY <2>3, <3>1, <3>2 DEF FileSent
  <2>5. Answer'
    BY <2>1 DEF Answer
  <2>6. Request'
    BY <2>1, <2>4 DEF Request
  <2>7. QED
    BY <1>2, <2>1, <2>5, <2>6 DEF OneAnswer
<1>11. QED
  BY <1>5, <1>6, <1>7, <1>8, <1>9, <1>10

\* The user's next command becomes the only one typed.
LEMMA OneAnswerTyped ==
  ASSUME TypeOK, Numbers, OneAnswer, Undisturbed, Undisturbed', NEW c \in Commands, CliType(c)
  PROVE  OneAnswer'
<1> USE DEF transfer
<1>1. /\ cli = "prompt" /\ UNCHANGED <<srv, toCli, m>> /\ c # "get"
    BY DEF CliType, Undisturbed
<1>2. /\ Typed' /\ ~Typed /\ m' # n' /\ cli' \in {"putName", "reply"}
      /\ Len(toSrv) \in Nat /\ Len(toSrv') = Len(toSrv) + 1
      /\ \A i \in 1..Len(toSrv) : toSrv'[i] = toSrv[i]
      /\ \A i \in Nat : i = Len(toSrv) + 1 => TypedIs(i)'
  BY <1>1, TypedSent
<1>3. /\ srv \notin {"read_f", "sending", "endGet"} /\ Answer /\ Request
  BY DEF OneAnswer
<1>4. Answer'
  BY <1>1, <1>2, <1>3 DEF Answer
<1>5. ASSUME srv = "greet" PROVE TypedIs(2)' /\ toSrv'[1].len = Greeting
  <2>1. Len(toSrv) = 1 /\ toSrv[1].len = Greeting
    BY <1>1, <1>2, <1>3, <1>5 DEF Request, TypedIs
  <2>2. QED
    BY <1>2, <2>1
<1>6. ASSUME srv = "recv" PROVE TypedIs(1)'
  <2>1. Len(toSrv) = 0
    BY <1>2, <1>3, <1>6 DEF Request, TypedIs
  <2>2. QED
    BY <1>2, <2>1
<1>7. ASSUME srv \in {"open", "write_f"} PROVE FileSent'
  <2>1. PICK e \in 1..Len(toSrv) :
          /\ \A i \in 1..e - 1 : WholeLine(toSrv[i])
          /\ toSrv[e] = EndMark /\ TypedIs(e + 1)
    BY <1>1, <1>3, <1>7 DEF Request, FileSent
  <2>2. Len(toSrv) = e
    BY <1>2, <2>1 DEF TypedIs
  <2>3. e \in 1..Len(toSrv') /\ toSrv'[e] = EndMark /\ e + 1 \in Nat
    BY <1>2, <2>1, <2>2
  <2>4. \A i \in 1..e - 1 : WholeLine(toSrv'[i])
    BY <1>2, <2>1, <2>2
  <2>5. TypedIs(e + 1)'
    BY <1>2, <2>2, <2>3
  <2>6. QED
    BY <2>3, <2>4, <2>5 DEF FileSent
<1>8. Request'
  BY <1>1, <1>2, <1>5, <1>6, <1>7 DEF Request
<1>9. QED
  BY <1>1, <1>2, <1>3, <1>4, <1>8 DEF OneAnswer

\* The server receives the greeting, and the command typed stays.
LEMMA OneAnswerGreet ==
  ASSUME TypeOK, OneAnswer, Undisturbed, SrvGreet
  PROVE  OneAnswer'
<1> USE DEF transfer
<1>1. Inside(toSrv) /\ Len(toSrv) \in Nat
  BY DEF TypeOK, Inside
<1>2. cli \notin {"getName", "write_f"} /\ Answer /\ Request
  BY DEF OneAnswer
<1>3. /\ srv = "greet" /\ srv' = "recv" /\ UNCHANGED <<cli, toCli, n, m, past>>
      /\ toSrv # <<>> /\ toSrv' = Skip(toSrv, Greeting)
  BY DEF SrvGreet, SrvRecv, Undisturbed
<1>4. cli # "greet" /\ TypedIs(2) /\ toSrv[1].len = Greeting
  BY <1>2, <1>3 DEF Request
<1>5. /\ Len(toSrv') = Len(toSrv) - 1
      /\ \A i \in 1..Len(toSrv) - 1 : toSrv'[i] = toSrv[i + 1]
  BY <1>1, <1>3, <1>4, FirstTaken
<1>6. TypedIs(1)'
  <2>1. CASE Typed
    <3>1. Len(toSrv) = 2 /\ IsTyped(toSrv[2])
      BY <1>4, <2>1 DEF TypedIs
    <3>2. Len(toSrv') = 1 /\ toSrv'[1] = toSrv[2]
      BY <1>5, <3>1
    <3>3. QED
      <4>1. IsTyped(toSrv'[1]) /\ Typed
        BY <2>1, <3>1, <3>2
      <4>2. IsTyped(toSrv[1])' /\ Typed'
        BY <1>3, <4>1 DEF Typed, IsTyped
      <4>3. QED
        BY <3>2, <4>2 DEF TypedIs
  <2>2. CASE ~Typed
    <3>1. Len(toSrv) = 1
      BY <1>4, <2>2 DEF TypedIs
    <3>2. Len(toSrv') = 0
      BY <1>5, <3>1
    <3>3. QED
      BY <1>3, <2>2, <3>2 DEF TypedIs, Typed
  <2>3. QED
    BY <2>1, <2>2
<1>7. Answer'
  <2>1. cli \in {"reply", "putName"} => m # n
    <3>1. SUFFICES ASSUME cli \in {"reply", "putName"}, m = n PROVE FALSE
      OBVIOUS
    <3>2. QED
      BY <1>2, <1>3, <3>1 DEF Answer
  <2>2. QED
    BY <1>2, <1>3, <1>4, <2>1 DEF Answer
<1>8. Request'
  <2>1. cli # "sending"
    BY <1>2, <1>3 DEF Request
  <2>2. QED
    BY <1>3, <1>4, <1>6, <2>1 DEF Request
<1>9. QED
  BY <1>2, <1>3, <1>7, <1>8 DEF OneAnswer

\* The command the server receives is the one typed last, and its answer the
\* only one on its way.
LEMMA OneAnswerCommand ==
  ASSUME TypeOK, OneAnswer, Undisturbed, Undisturbed', SrvCommand
  PROVE  OneAnswer'
<1> USE DEF transfer
<1>1. /\ Inside(toSrv) /\ Inside(toCli) /\ n \in 0..MaxCommands /\ Len(toSrv) \in Nat
      /\ past \subseteq Commands \cup {"silent"}
  BY DEF TypeOK, Inside
<1>2. cli \notin {"getName", "write_f"} /\ Answer /\ Request
  BY DEF OneAnswer
<1>3. PICK t \in Texts(toSrv) :
        /\ SrvRecv(MAX, t)
        /\ m' = t.n
        /\ \/ SrvSilentCd(t)
           \/ (SrvReply(t) \/ SrvExit(t) \/ SrvTransfer(t)) /\ UNCHANGED past
  BY DEF SrvCommand
<1>4. /\ srv = "recv" /\ toSrv # <<>> /\ toSrv' = Skip(toSrv, MAX) /\ UNCHANGED <<cli, n>>
  BY <1>3 DEF SrvCommand, SrvRecv
<1>5. Len(toSrv) # 0
  BY <1>1, <1>4 DEF Inside
<1>6. Typed /\ Len(toSrv) = 1 /\ IsTyped(toSrv[1])
  BY <1>2, <1>4, <1>5 DEF Request, TypedIs
<1>7. PICK c \in past \cap Commands : toSrv[1] = Buffer(c, n, 0, MAX) /\ (c = "put" <=> cli = "putName")
  BY <1>6 DEF IsTyped
<1>8. toSrv[1].kind = c /\ toSrv[1].from = 0 /\ toSrv[1].n = n /\ toSrv[1].len = MAX
  BY <1>7 DEF Buffer
<1>9. c \notin {"get", "end", "silent"}
  BY <1>7, NetShellAssumption DEF Undisturbed
<1>10. t.kind = c /\ t.n = n
  BY <1>1, <1>4, <1>8, <1>9, TextIs
<1>11. toSrv' = <<>>
  <2>1. PICK s : s = toSrv
    OBVIOUS
  <2>2. Inside(s) /\ Len(s) = 1 /\ s[1].len = MAX /\ MAX \in Nat
    BY <1>1, <1>6, <1>8, <2>1, Sizes
  <2>3. Len(s) <= 2 /\ Len(s) # 2 /\ s[1].len <= MAX
    BY <2>2
  <2>4. Skip(s, MAX) = <<>>
    BY <2>2, <2>3, SkipAll
  <2>5. QED
    BY <1>4, <2>1, <2>4
<1>12. cli \in {"reply", "putName"} /\ m' = n' /\ toCli = <<>>
  BY <1>2, <1>3, <1>4, <1>6, <1>10 DEF Answer, Typed
<1>13. ~SrvSilentCd(t)
  BY DEF SrvSilentCd, Undisturbed
<1>14. ASSUME NEW w \in Kinds, Send(w, t.n, MAX)
       PROVE  Len(toCli') = 1 /\ toCli'[1].from = 0 /\ toCli'[1].n = n /\ toCli'[1].len = MAX
  <2> DEFINE p == Buffer(w, n, 0, MAX)
  <2>1. p.from = 0 /\ p.n = n /\ p.len = MAX
    BY DEF Buffer
  <2> HIDE DEF p
  <2>2. toCli' = Append(toCli, p)
    BY <1>10, <1>14 DEF Send, p
  <2>3. toCli' = <<p>>
    BY <1>12, <2>2
  <2>4. QED
    BY <2>1, <2>3
<1>15. Len(toCli') = 1 /\ toCli'[1].from = 0 /\ toCli'[1].n = n /\ toCli'[1].len = MAX
  <2>1. "reply" \in Kinds /\ "bye" \in Kinds /\ "name" \in Kinds
    BY DEF Kinds
  <2>2. QED
    BY <1>3, <1>13, <1>14, <2>1 DEF SrvReply, SrvExit, SrvTransfer
<1>16. srv' \in {"recv", "console"} \/ (srv' = "open" /\ cli = "putName")
  <2>1. CASE c = "put"
    BY <1>3, <1>7, <1>10, <1>13, <2>1 DEF SrvReply, SrvExit, SrvTransfer
  <2>2. CASE c # "put"
    BY <1>3, <1>9, <1>10, <1>13, <2>2 DEF SrvReply, SrvExit, SrvTransfer
  <2>3. QED
    BY <2>1, <2>2
<1>17. Answer'
  BY <1>4, <1>11, <1>12, <1>15 DEF Answer
<1>18. Request'
  BY <1>4, <1>11, <1>12, <1>16 DEF Request
<1>19. QED
  BY <1>2, <1>4, <1>16, <1>17, <1>18 DEF OneAnswer

\* The server writes the lines of the file, and the end mark takes the command
\* behind it with it.
LEMMA OneAnswerWrite ==
  ASSUME TypeOK, OneAnswer, Undisturbed, SrvWrite
  PROVE  OneAnswer'
<1> USE DEF transfer
<1>1. /\ Inside(toSrv) /\ n \in 0..MaxCommands /\ Len(toSrv) \in Nat
      /\ past \subseteq Commands \cup {"silent"}
  BY DEF TypeOK, Inside
<1>2. cli \notin {"getName", "write_f"} /\ Answer /\ Request
  BY DEF OneAnswer
<1>3. PICK t \in Texts(toSrv) :
        /\ SrvRecv(FMAX, t)
        /\ \/ t = Empty /\ srv' = "recv"
           \/ t # Empty /\ UNCHANGED srv
  BY DEF SrvWrite
<1>4. /\ srv = "write_f" /\ toSrv # <<>> /\ toSrv' = Skip(toSrv, FMAX)
      /\ UNCHANGED <<cli, n, m, toCli, past>>
  BY <1>3 DEF SrvWrite, SrvRecv, Undisturbed
<1>5. Len(toSrv) # 0 /\ 1 \in 1..Len(toSrv)
  BY <1>1, <1>4 DEF Inside
<1>6. cli # "greet" /\ ~(cli = "putName" /\ m = n) /\ (cli = "reply" => m # n)
  BY <1>2, <1>4 DEF Request
<1>7. Answer'
  BY <1>2, <1>4, <1>6 DEF Answer
<1>8. ASSUME WholeLine(toSrv[1])
      PROVE  /\ srv' = srv /\ Len(toSrv') = Len(toSrv) - 1
             /\ \A i \in 1..Len(toSrv) - 1 : toSrv'[i] = toSrv[i + 1]
  <2>1. t # Empty
    BY <1>1, <1>4, <1>8, TextIs DEF WholeLine
  <2>2. toSrv[1].len = FMAX
    BY <1>8 DEF WholeLine
  <2>3. QED
    BY <1>1, <1>3, <1>4, <2>1, <2>2, FirstTaken
<1>9. CASE cli = "sending"
  <2>1. \A i \in 1..Len(toSrv) : WholeLine(toSrv[i])
    BY <1>2, <1>4, <1>9 DEF Request
  <2>2. /\ srv' = srv /\ Len(toSrv') = Len(toSrv) - 1
        /\ \A i \in 1..Len(toSrv) - 1 : toSrv'[i] = toSrv[i + 1]
    BY <1>5, <1>8, <2>1
  <2>3. \A i \in 1..Len(toSrv') : WholeLine(toSrv'[i])
    BY <1>1, <2>1, <2>2
  <2>4. Request'
    BY <1>4, <1>9, <2>2, <2>3 DEF Request
  <2>5. QED
    BY <1>2, <1>4, <1>7, <2>2, <2>4 DEF OneAnswer
<1>10. CASE cli # "sending"
  <2>1. FileSent
    BY <1>2, <1>4, <1>6, <1>10 DEF Request
  <2>2. PICK e \in 1..Len(toSrv) :
          /\ \A i \in 1..e - 1 : WholeLine(toSrv[i])
          /\ toSrv[e] = EndMark /\ TypedIs(e + 1)
    BY <2>1 DEF FileSent
  <2>3. CASE e = 1
    <3>1. toSrv[1].kind = "end" /\ toSrv[1].len = 1
      BY <2>2, <2>3 DEF EndMark, Buffer
    <3>2. srv' = "recv"
      BY <1>1, <1>3, <1>4, <3>1, TextIs
    <3>3. PICK s : s = toSrv
      OBVIOUS
    <3>4. Len(s) = 1 \/ (Len(s) = 2 /\ s[2].len = MAX)
      <4>1. CASE Typed
        <5>1. Len(toSrv) = 2 /\ IsTyped(toSrv[2])
          BY <2>2, <2>3, <4>1 DEF TypedIs
        <5>2. toSrv[2].len = MAX
          BY <5>1 DEF IsTyped, Buffer
        <5>3. QED
          BY <3>3, <5>1, <5>2
      <4>2. CASE ~Typed
        BY <2>2, <2>3, <3>3, <4>2 DEF TypedIs
      <4>3. QED
        BY <4>1, <4>2
    <3>5. Inside(s) /\ s[1].len = 1
      BY <1>1, <3>1, <3>3
    <3>6. Len(s) <= 2 /\ s[1].len <= FMAX /\ (Len(s) = 2 => s[1].len + s[2].len <= FMAX) /\ FMAX \in Nat
      <4>1. CASE Len(s) = 1
        BY <3>5, <4>1, Sizes
      <4>2. CASE Len(s) = 2 /\ s[2].len = MAX
        <5>1. s[1].len + s[2].len = 129
          BY <3>5, <4>2, Sizes
        <5>2. QED
          BY <3>5, <4>2, <5>1, Sizes
      <4>3. QED
        BY <3>4, <4>1, <4>2
    <3>7. Skip(s, FMAX) = <<>>
      BY <3>5, <3>6, SkipAll
    <3>8. toSrv' = <<>>
      BY <1>4, <3>3, <3>7
    <3>9. Request'
      BY <1>4, <1>6, <1>10, <3>2, <3>8 DEF Request
    <3>10. QED
      BY <1>2, <1>4, <1>7, <3>2, <3>9 DEF OneAnswer
  <2>4. CASE e # 1
    <3>1. PICK d \in 1..Len(toSrv) - 1 : d = e - 1
      BY <1>1, <2>4
    <3>2. WholeLine(toSrv[1])
      BY <1>1, <2>2, <2>4
    <3>3. /\ srv' = srv /\ Len(toSrv') = Len(toSrv) - 1
          /\ \A i \in 1..Len(toSrv) - 1 : toSrv'[i] = toSrv[i + 1]
      BY <1>8, <3>2
    <3>4. toSrv'[d] = EndMark /\ d \in 1..Len(toSrv')
      BY <1>1, <2>2, <3>1, <3>3
    <3>5. \A i \in 1..d - 1 : WholeLine(toSrv'[i])
      <4>1. ASSUME NEW i \in 1..d - 1 PROVE WholeLine(toSrv'[i])
        <5>1. i + 1 \in 1..e - 1 /\ i \in 1..Len(toSrv) - 1
          BY <1>1, <3>1
        <5>2. QED
          BY <2>2, <3>3, <5>1
      <4>2. QED
        BY <4>1
    <3>6. TypedIs(d + 1)'
      <4>1. CASE Typed
        <5>1. Len(toSrv) = e + 1 /\ IsTyped(toSrv[e + 1])
          BY <2>2, <4>1 DEF TypedIs
        <5>2. Len(toSrv') = d + 1 /\ toSrv'[d + 1] = toSrv[e + 1]
          BY <1>1, <3>1, <3>3, <5>1
        <5>3. QED
          BY <1>4, <4>1, <5>1, <5>2 DEF TypedIs, Typed, IsTyped
      <4>2. CASE ~Typed
        <5>1. Len(toSrv) = e
          BY <2>2, <4>2 DEF TypedIs
        <5>2. Len(toSrv') = d + 1 - 1
          BY <1>1, <3>1, <3>3, <5>1
        <5>3. QED
          BY <1>4, <4>2, <5>2 DEF TypedIs, Typed
      <4>3. QED
        BY <4>1, <4>2
    <3>7. FileSent'
      BY <3>4, <3>5, <3>6 DEF FileSent
    <3>8. Request'
      BY <1>4, <1>6, <1>10, <3>3, <3>7 DEF Request
    <3>9. QED
      BY <1>2, <1>4, <1>7, <3>3, <3>8 DEF OneAnswer
  <2>5. QED
    BY <2>3, <2>4
<1>11. QED
  BY <1>9, <1>10

\* Every step keeps the only answer.
LEMMA OneAnswerStep ==
  ASSUME TypeOK, Numbers, Asked, OneAnswer, Next
  PROVE  OneAnswer'
<1> USE DEF transfer
<1>1. ASSUME SrvAccept PROVE OneAnswer'
  <2> DEFINE p == Buffer("hello", 0, 0, Greeting)
  <2>1. p.len = Greeting
    BY DEF Buffer
  <2>2. /\ cli' = "greet" /\ srv' = "greet" /\ toSrv' = <<>> /\ toCli' = <<p>>
    BY <1>1 DEF SrvAccept
  <2> HIDE DEF p
  <2>3. Len(toCli') = 1 /\ toCli'[1] = p
    BY <2>2
  <2>4. Answer' /\ Request'
    BY <2>1, <2>2, <2>3 DEF Answer, Request
  <2>5. QED
    BY <2>2, <2>4 DEF OneAnswer
<1>2. SUFFICES ASSUME Undisturbed', ~SrvAccept PROVE OneAnswer'
  BY <1>1 DEF OneAnswer
<1>3. past \subseteq past' /\ CliOpen /\ ~CliConnect /\ ~CliBroken
  <2>1. past \subseteq past'
    BY <1>2 DEF Next, CliStep, SrvStep, User, CliGreet, CliReply, CliPutName, CliSendLine, CliSendEnd,
       CliGetName, CliWrite, CliBroken, SrvGreet, SrvCommand, SrvSilentCd, SrvBroken, SrvReadOpen, SrvSendLine,
       SrvSendEnd, SrvSendGet, SrvWriteOpen, SrvWrite, CliConnect, SrvConsole, CliType
  <2>2. ~CliConnect /\ ~CliBroken
    BY <1>2 DEF CliConnect, CliBroken, Undisturbed, CliOpen
  <2>3. CliOpen
    BY <1>2, <2>2 DEF Next, CliStep, SrvStep, User, CliGreet, CliReply, CliPutName, CliSendLine, CliSendEnd,
       CliGetName, CliWrite, SrvGreet, SrvCommand, SrvBroken, SrvReadOpen, SrvSendLine,
       SrvSendEnd, SrvSendGet, SrvWriteOpen, SrvWrite, SrvConsole, CliType, Undisturbed, CliOpen
  <2>4. QED
    BY <2>1, <2>2, <2>3
<1>4. Undisturbed
  BY <1>2, <1>3 DEF Undisturbed
<1>5. /\ srv \notin {"read_f", "sending", "endGet"} /\ cli \notin {"getName", "write_f"}
      /\ Answer /\ Request
  BY <1>4 DEF OneAnswer
<1>6. ~(SrvReadOpen \/ SrvSendLine \/ SrvSendEnd \/ SrvSendGet \/ SrvBroken)
  BY <1>3, <1>5 DEF SrvReadOpen, SrvSendLine, SrvSendEnd, SrvSendGet, SrvBroken
<1>7. CASE SrvWriteOpen
  <2>1. /\ srv = "open" /\ srv' \in {"write_f", "dead"} /\ UNCHANGED <<cli, toSrv, toCli, n, m, past>>
    BY <1>7 DEF SrvWriteOpen
  <2>2. Answer'
    BY <1>5, <2>1 DEF Answer
  <2>3. FileSent' = FileSent
    BY <2>1 DEF FileSent, TypedIs, Typed, IsTyped
  <2>4. Request'
    BY <1>5, <2>1, <2>3 DEF Request
  <2>5. QED
    BY <1>5, <2>1, <2>2, <2>4 DEF OneAnswer
<1>8. CASE SrvConsole
  <2>1. /\ srv = "console" /\ srv' \in {"accept", "closed"} /\ UNCHANGED <<cli, toSrv, toCli, n, m, past>>
    BY <1>8 DEF SrvConsole
  <2>2. Answer' /\ Request'
    BY <1>5, <2>1 DEF Answer, Request
  <2>3. QED
    BY <1>5, <2>1, <2>2 DEF OneAnswer
<1>9. QED
  BY <1>2, <1>3, <1>4, <1>6, <1>7, <1>8, OneAnswerClient, OneAnswerTyped, OneAnswerGreet, OneAnswerCommand,
     OneAnswerWrite DEF Next, CliStep, SrvStep, User

\* The answer the client prints is the one to its command.
LEMMA ReplyIs ==
  ASSUME TypeOK, OneAnswer, Next, past' \cap {"get", "silent"} = {}
  PROVE  Answered
<1> USE DEF transfer
<1>1. SUFFICES ASSUME cli = "reply", cli' # "reply", toCli # <<>>
               PROVE  Head(toCli).from = 0 /\ Head(toCli).n = n
  BY DEF Answered
<1>2. CliReply
  BY <1>1 DEF Next, CliStep, SrvStep, User, CliGreet, CliPutName, CliSendLine, CliSendEnd,
     CliGetName, CliWrite, CliBroken, SrvAccept, SrvGreet, SrvCommand, SrvBroken, SrvReadOpen, SrvSendLine,
     SrvSendEnd, SrvSendGet, SrvWriteOpen, SrvWrite, CliConnect, SrvConsole, CliType
<1>3. Undisturbed
  BY <1>1, <1>2 DEF CliReply, Undisturbed, CliOpen
<1>4. toCli[1].from = 0 /\ toCli[1].n = n
  BY <1>1, <1>3 DEF OneAnswer, Answer
<1>5. Head(toCli) = toCli[1]
  BY <1>1 DEF TypeOK, Inside
<1>6. QED
  BY <1>4, <1>5

-----------------------------------------------------------------------------
(* The invariant and what it gives *)

\* The programs start with the invariant.
LEMMA InitInv ==
  ASSUME Init
  PROVE  IInv
<1> USE DEF Init
<1>1. Inside(<<>>) /\ <<>> \in Seq(0..MaxLines) /\ 0 \in 0..MaxCommands /\ 0 \in 0..MaxLines
  BY SentInside, Sizes DEF Inside
<1>2. TypeOK
  <2>1. /\ left \in [{"cli", "srv"} -> 0..MaxLines] /\ size \in [{"cli", "srv"} -> 0..MaxLines]
        /\ saved \in [{"cli", "srv"} -> Seq(0..MaxLines)]
    <3>1. ASSUME NEW S, NEW x \in S PROVE [cli |-> x, srv |-> x] \in [{"cli", "srv"} -> S]
      <4>1. [cli |-> x, srv |-> x] = [d \in {"cli", "srv"} |-> x]
        OBVIOUS
      <4>2. QED
        BY <4>1
    <3>2. QED
      BY <1>1, <3>1
  <2>2. Inside(toSrv) /\ Inside(toCli) /\ n \in 0..MaxCommands /\ m \in 0..MaxCommands
    BY <1>1
  <2>3. QED
    BY <2>1, <2>2 DEF TypeOK
<1>3. Left
  BY DEF Left
<1>4. Numbers
  BY DEF Numbers, UpTo
<1>5. WholeCommands /\ AnswerComes
  BY DEF WholeCommands, AnswerComes, CommandsOnly
<1>6. Asked /\ NewFile /\ Gets /\ Puts
  BY DEF Asked, NewFile, Gets, Puts
<1>7. OneAnswer
  BY DEF OneAnswer, Undisturbed, CliOpen
<1>8. QED
  BY <1>2, <1>3, <1>4, <1>5, <1>6, <1>7 DEF IInv

\* Every step, and a stuttering one, keeps the invariant.
LEMMA StepInv ==
  ASSUME IInv, [Next]_vars
  PROVE  IInv'
<1> USE DEF IInv
<1>1. CASE Next
  BY <1>1, TypeStep, NumbersStep, WholeCommandsStep, AnswerComesStep, AskedStep, NewFileStep, GetsStep,
     PutsStep, OneAnswerStep
<1>2. CASE UNCHANGED vars
  <2>1. UNCHANGED <<cli, srv, toSrv, toCli, n, m, left, size, saved, right, past>>
    BY <1>2 DEF vars
  <2>2. TypeOK' /\ Left' /\ Numbers'
    BY <2>1 DEF TypeOK, Left, Numbers
  <2>3. WholeCommands' /\ AnswerComes' /\ Asked' /\ NewFile'
    BY <2>1 DEF WholeCommands, AnswerComes, Asked, NewFile
  <2>4. Gets'
    BY <2>1 DEF Gets, GetRest
  <2>5. Puts'
    BY <2>1 DEF Puts, PutRest, CliOpen
  <2>6. OneAnswer'
    <3>1. FileSent' = FileSent /\ TypedIs(1)' = TypedIs(1) /\ TypedIs(2)' = TypedIs(2)
      BY <2>1 DEF FileSent, TypedIs, Typed, IsTyped
    <3>2. Answer' = Answer /\ Request' = Request
      BY <2>1, <3>1 DEF Answer, Request
    <3>3. QED
      BY <2>1, <3>2 DEF OneAnswer, Undisturbed, CliOpen
  <2>7. QED
    BY <2>2, <2>3, <2>4, <2>5, <2>6
<1>3. QED
  BY <1>1, <1>2

\* The inductive invariant holds in every state.
THEOREM InvHolds == Spec => []IInv
<1>1. Init => IInv
  BY InitInv
<1>2. IInv /\ [Next]_vars => IInv'
  BY StepInv
<1>3. QED
  BY <1>1, <1>2, PTL DEF Spec

\* Every part of the state keeps its type.
THEOREM TypeCorrect == Spec => []TypeOK
<1>1. IInv => TypeOK
  BY DEF IInv
<1>2. QED
  BY <1>1, InvHolds, PTL

\* Client and server never wait for each other before a put or an unanswered
\* cd of the session.
THEOREM NoMutualWait == Spec => []NoMutualWaitBefore
<1>1. IInv => NoMutualWaitBefore
  BY AnswerOnItsWay DEF IInv
<1>2. QED
  BY <1>1, InvHolds, PTL

\* A get that opened the right file leaves the client with the whole file.
THEOREM GetCopiesHolds == Spec => GetCopies
<1> DEFINE A == cli = "write_f" /\ cli' = "prompt" /\ right /\ srv # "dead" => WholeFile(saved.cli, size.srv)
<1>1. ASSUME IInv, [Next]_vars PROVE [A]_vars
  <2>1. SUFFICES ASSUME Next, cli = "write_f", cli' = "prompt", right, srv # "dead"
                 PROVE  WholeFile(saved.cli, size.srv)
    BY <1>1
  <2>2. CliWrite
    BY <2>1 DEF Next, CliStep, SrvStep, User, CliGreet, CliReply, CliPutName, CliSendLine, CliSendEnd,
       CliGetName, CliBroken, SrvAccept, SrvGreet, SrvCommand, SrvBroken, SrvReadOpen, SrvSendLine,
       SrvSendEnd, SrvSendGet, SrvWriteOpen, SrvWrite, CliConnect, SrvConsole, CliType
  <2>3. QED
    BY <1>1, <2>1, <2>2, GetWrites DEF IInv
<1> HIDE DEF A
<1>2. QED
  <2>1. Spec => [][A]_vars
    BY <1>1, InvHolds, PTL DEF Spec
  <2>2. QED
    BY <2>1 DEF A, GetCopies

\* A put that opened the right file leaves the server with the whole file.
THEOREM PutCopiesHolds == Spec => PutCopies
<1> DEFINE A == srv = "write_f" /\ srv' = "recv" /\ right /\ CliOpen => WholeFile(saved.srv, size.cli)
<1>1. ASSUME IInv, [Next]_vars PROVE [A]_vars
  <2>1. SUFFICES ASSUME Next, srv = "write_f", srv' = "recv", right, CliOpen
                 PROVE  WholeFile(saved.srv, size.cli)
    BY <1>1
  <2>2. SrvWrite
    BY <2>1 DEF Next, CliStep, SrvStep, User, CliGreet, CliReply, CliPutName, CliSendLine, CliSendEnd,
       CliGetName, CliWrite, CliBroken, SrvAccept, SrvGreet, SrvCommand, SrvBroken, SrvReadOpen, SrvSendLine,
       SrvSendEnd, SrvSendGet, SrvWriteOpen, CliConnect, SrvConsole, CliType
  <2>3. QED
    BY <1>1, <2>1, <2>2, PutWrites DEF IInv
<1> HIDE DEF A
<1>2. QED
  <2>1. Spec => [][A]_vars
    BY <1>1, InvHolds, PTL DEF Spec
  <2>2. QED
    BY <2>1 DEF A, PutCopies

\* What the client prints is the answer to the command typed, until a get or an
\* unanswered cd of the session.
THEOREM AnswersMatch == Spec => AnswersMatchUntilGet
<1> DEFINE A == past' \cap {"get", "silent"} = {} => Answered
<1>1. ASSUME IInv, [Next]_vars PROVE [A]_vars
  BY <1>1, ReplyIs DEF IInv
<1> HIDE DEF A
<1>2. QED
  <2>1. Spec => [][A]_vars
    BY <1>1, InvHolds, PTL DEF Spec
  <2>2. QED
    BY <2>1 DEF A, AnswersMatchUntilGet
=============================================================================
