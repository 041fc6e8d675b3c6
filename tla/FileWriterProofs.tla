--------------------------- MODULE FileWriterProofs ---------------------------
(***************************************************************************)
(* The buffered file is an ordered file, for every size of the writes, the *)
(* chunk and the buffer.                                                   *)
(*                                                                         *)
(* What is in the buffer is a sequence of placed units (Placed), defined   *)
(* by recursion over the pieces; the first lemmas say what it is of the    *)
(* empty buffer, of one piece and of two parts of a buffer.  They are used *)
(* for the two loops of the code: the one that pushes pieces (PushedFacts) *)
(* and the one that collects adjacent ones (AdjacentFacts).  Then come the *)
(* invariant of the two threads and, last, the steps of the refinement.    *)
(***************************************************************************)
EXTENDS FileWriter, RecursionLemmas

Value == 1 .. MaxUnits
Piece == [pos : Nat, data : Seq(Value) \ {<<>>}]
Byte  == [pos : Int, byte : Value]

(* Units at consecutive positions. *)
LEMMA AtPosFacts ==
    ASSUME NEW s \in Seq(Value), NEW p \in Int
    PROVE  /\ AtPos(s, p) \in Seq(Byte) /\ Len(AtPos(s, p)) = Len(s)
           /\ \A i \in 1 .. Len(s) : AtPos(s, p)[i] = [pos |-> p + i - 1, byte |-> s[i]]
  <1>1. Len(s) \in Nat /\ \A i \in 1 .. Len(s) : s[i] \in Value
    BY LenProperties, ElementOfSeq
  <1>2. \A i \in 1 .. Len(s) : [pos |-> p + i - 1, byte |-> s[i]] \in Byte
    BY <1>1 DEF Byte
  <1>3. AtPos(s, p) \in [1 .. Len(s) -> Byte]
    BY <1>2 DEF AtPos
  <1> QED
    BY <1>1, <1>3, IsASeq, LenProperties DEF AtPos

LEMMA AtPosOfNone == \A p : AtPos(<<>>, p) = <<>>
  BY DEF AtPos

LEMMA AtPosConcat ==
    ASSUME NEW s \in Seq(Value), NEW t \in Seq(Value), NEW p \in Int
    PROVE  AtPos(s \o t, p) = AtPos(s, p) \o AtPos(t, p + Len(s))
  <1>1. /\ s \o t \in Seq(Value) /\ Len(s \o t) = Len(s) + Len(t)
        /\ Len(s) \in Nat /\ Len(t) \in Nat /\ p + Len(s) \in Int
        /\ \A i \in 1 .. Len(s) + Len(t) : (s \o t)[i] = IF i <= Len(s) THEN s[i] ELSE t[i - Len(s)]
    BY ConcatProperties, LenProperties
  <1> DEFINE a == AtPos(s, p)
             b == AtPos(t, p + Len(s))
             c == AtPos(s \o t, p)
  <1>2. /\ a \in Seq(Byte) /\ Len(a) = Len(s)
        /\ \A i \in 1 .. Len(s) : a[i] = [pos |-> p + i - 1, byte |-> s[i]]
    BY AtPosFacts
  <1>3. /\ b \in Seq(Byte) /\ Len(b) = Len(t)
        /\ \A i \in 1 .. Len(t) : b[i] = [pos |-> p + Len(s) + i - 1, byte |-> t[i]]
    BY <1>1, AtPosFacts
  <1>4. /\ c \in Seq(Byte) /\ Len(c) = Len(s) + Len(t)
        /\ \A i \in 1 .. Len(s) + Len(t) : c[i] = [pos |-> p + i - 1, byte |-> (s \o t)[i]]
    <2>1. s \o t \in Seq(Value)
      BY <1>1
    <2>2. /\ c \in Seq(Byte) /\ Len(c) = Len(s \o t)
          /\ \A i \in 1 .. Len(s \o t) : c[i] = [pos |-> p + i - 1, byte |-> (s \o t)[i]]
      BY <2>1, AtPosFacts, Zenon
    <2>3. Len(s \o t) = Len(s) + Len(t)
      BY <1>1
    <2> QED
      BY <2>2, <2>3, Zenon
  <1> HIDE DEF a, b, c
  <1>5. /\ a \o b \in Seq(Byte) /\ Len(a \o b) = Len(s) + Len(t)
        /\ \A i \in 1 .. Len(s) + Len(t) : (a \o b)[i] = IF i <= Len(s) THEN a[i] ELSE b[i - Len(s)]
    <2>1. a \in Seq(Byte) /\ b \in Seq(Byte)
      BY <1>2, <1>3
    <2>2. /\ a \o b \in Seq(Byte) /\ Len(a \o b) = Len(a) + Len(b)
          /\ \A i \in 1 .. Len(a) + Len(b) : (a \o b)[i] = IF i <= Len(a) THEN a[i] ELSE b[i - Len(a)]
      BY <2>1, ConcatProperties, Zenon
    <2>3. Len(a) = Len(s) /\ Len(b) = Len(t)
      BY <1>2, <1>3
    <2> QED
      BY <2>2, <2>3, Zenon
  <1>6. ASSUME NEW i \in 1 .. Len(s) + Len(t) PROVE c[i] = (a \o b)[i]
    <2>1. CASE i <= Len(s)
      <3>1. i \in 1 .. Len(s)
        BY <1>1, <2>1
      <3> QED
        BY <1>1, <1>2, <1>4, <1>5, <2>1, <3>1
    <2>2. CASE ~ (i <= Len(s))
      <3>1. i - Len(s) \in 1 .. Len(t) /\ p + Len(s) + (i - Len(s)) - 1 = p + i - 1
        BY <1>1, <2>2
      <3>2. b[i - Len(s)] = [pos |-> p + i - 1, byte |-> t[i - Len(s)]]
        BY <1>3, <3>1
      <3>3. (s \o t)[i] = t[i - Len(s)] /\ (a \o b)[i] = b[i - Len(s)]
        BY <1>1, <1>5, <2>2
      <3> QED
        BY <1>4, <3>2, <3>3
    <2> QED
      BY <2>1, <2>2
  <1>7. c = a \o b
    BY <1>4, <1>5, <1>6, SeqEqual
  <1> QED
    BY <1>7 DEF a, b, c

(* The pieces of a buffer, spelt out one after the other. *)
Spells(f, q) ==
    /\ f \in [0 .. Len(q) -> Seq(Byte)] /\ f[0] = <<>>
    /\ \A n \in 1 .. Len(q) : f[n] = f[n - 1] \o AtPos(q[n].data, q[n].pos)

LEMMA PlacedSpells ==
    ASSUME NEW q \in Seq(Piece)
    PROVE  \E f : Spells(f, q) /\ Placed(q) = f[Len(q)]
  <1> DEFINE next(f, n) == IF n = 0 THEN <<>> ELSE f[n - 1] \o AtPos(q[n].data, q[n].pos)
             E(f) == f = [n \in 0 .. Len(q) |-> next(f, n)]
             it == CHOOSE f : E(f)
             step == [x \in (1 .. Len(q)) \X Seq(Byte) |-> x[2] \o AtPos(q[x[1]].data, q[x[1]].pos)]
             S == [n \in 0 .. Len(q) |-> Seq(Byte)]
  <1>1. Placed(q) = it[Len(q)]
    BY Zenon DEF Placed
  <1>2. Len(q) \in Nat /\ <<>> \in Seq(Byte)
    BY LenProperties, EmptySeq
  <1>3. \A n \in 1 .. Len(q) : \A x \in Seq(Byte) :
            /\ step[<<n, x>>] = x \o AtPos(q[n].data, q[n].pos)
            /\ step[<<n, x>>] \in Seq(Byte)
    <2> SUFFICES ASSUME NEW n \in 1 .. Len(q), NEW x \in Seq(Byte)
                 PROVE  /\ step[<<n, x>>] = x \o AtPos(q[n].data, q[n].pos)
                        /\ step[<<n, x>>] \in Seq(Byte)
      OBVIOUS
    <2>1. step[<<n, x>>] = x \o AtPos(q[n].data, q[n].pos)
      OBVIOUS
    <2>2. q[n] \in Piece
      BY ElementOfSeq
    <2>3. AtPos(q[n].data, q[n].pos) \in Seq(Byte)
      BY <2>2, AtPosFacts DEF Piece
    <2> HIDE DEF step
    <2> QED
      BY <2>1, <2>3, ConcatProperties
  <1>13. /\ \A n \in 0 .. Len(q) : S[n] = Seq(Byte)
         /\ \A n \in 1 .. Len(q) : n \in 0 .. Len(q) /\ n - 1 \in 0 .. Len(q)
         /\ 0 \in 0 .. Len(q)
    BY <1>2
  <1> HIDE DEF S
  <1>4. PICK f : /\ Recurs(f, <<>>, step, Len(q)) /\ \A n \in 0 .. Len(q) : f[n] \in S[n]
                 /\ f = [n \in 0 .. Len(q) |-> f[n]]
    <2> HIDE DEF step
    <2>1. <<>> \in S[0]
      BY <1>2, <1>13
    <2>2. \A n \in 1 .. Len(q) : \A x \in S[n - 1] : step[<<n, x>>] \in S[n]
      BY <1>3, <1>13
    <2> QED
      BY <1>2, <2>1, <2>2, Recursion
  <1>5. f[0] = <<>> /\ \A n \in 1 .. Len(q) : f[n] = f[n - 1] \o AtPos(q[n].data, q[n].pos)
    <2>1. \A n \in 1 .. Len(q) : n - 1 \in 0 .. Len(q) /\ f[n - 1] \in Seq(Byte)
      BY <1>4, <1>13
    <2> HIDE DEF step
    <2> QED
      BY <1>3, <1>4, <2>1 DEF Recurs
  <1>6. E(f)
    <2>1. ASSUME NEW n \in 0 .. Len(q) PROVE f[n] = next(f, n)
      <3>1. CASE n = 0
        BY <1>5, <3>1
      <3>2. CASE n # 0
        <4>1. n \in 1 .. Len(q)
          BY <1>2, <3>2
        <4> QED
          BY <1>5, <3>2, <4>1, Zenon
      <3> QED
        BY <3>1, <3>2
    <2> HIDE DEF next
    <2> QED
      BY <1>4, <2>1
  <1>7. E(it)
    <2> HIDE DEF E
    <2> QED
      BY <1>6, Zenon
  <1>8. \A n \in 0 .. Len(q) : it[n] = next(it, n)
    <2> HIDE DEF it, next
    <2> QED
      BY <1>7
  <1> HIDE DEF it
  <1>9. it[0] = <<>> /\ \A n \in 1 .. Len(q) : it[n] = it[n - 1] \o AtPos(q[n].data, q[n].pos)
    <2>1. 0 \in 0 .. Len(q) /\ \A n \in 1 .. Len(q) : n # 0 /\ n \in 0 .. Len(q)
      BY <1>2
    <2>2. \A n : n # 0 => next(it, n) = it[n - 1] \o AtPos(q[n].data, q[n].pos)
      BY Zenon
    <2>3. next(it, 0) = <<>>
      OBVIOUS
    <2> HIDE DEF next
    <2> QED
      BY <1>8, <2>1, <2>2, <2>3, Zenon
  <1>10. \A n \in 1 .. Len(q) : it[n - 1] \in Seq(Byte) => it[n] = step[<<n, it[n - 1]>>]
    <2> HIDE DEF step
    <2> QED
      BY <1>3, <1>9
  <1>11. \A n \in 0 .. Len(q) : it[n] = f[n]
    <2> HIDE DEF step, E, next
    <2>1. it[0] = <<>>
      BY <1>9
    <2>2. Follows(it, S, <<>>, step, Len(q))
      BY <1>10, <1>13, <2>1 DEF Follows
    <2> QED
      BY <1>2, <1>4, <2>2, RecursionUnique
  <1>12. Spells(f, q)
    BY <1>4, <1>5, <1>13 DEF Spells
  <1> QED
    BY <1>1, <1>2, <1>11, <1>12

LEMMA PlacedType == \A q \in Seq(Piece) : Placed(q) \in Seq(Byte) /\ Len(Placed(q)) \in Nat
  <1> SUFFICES ASSUME NEW q \in Seq(Piece) PROVE Placed(q) \in Seq(Byte)
    BY LenProperties
  <1>1. PICK f : Spells(f, q) /\ Placed(q) = f[Len(q)]
    BY PlacedSpells
  <1>2. Len(q) \in 0 .. Len(q)
    BY LenProperties
  <1> QED
    BY <1>1, <1>2 DEF Spells

LEMMA PlacedOfNone == Placed(<<>>) = <<>>
  <1>1. PICK f : Spells(f, <<>>) /\ Placed(<<>>) = f[Len(<<>>)]
    BY PlacedSpells, EmptySeq
  <1> QED
    BY <1>1, EmptySeq DEF Spells

(* What a buffer spells is what its two halves spell. *)
LEMMA PlacedSplit ==
    ASSUME NEW q \in Seq(Piece), NEW k \in 0 .. Len(q)
    PROVE  Placed(q) = Placed(SubSeq(q, 1, k)) \o Placed(SubSeq(q, k + 1, Len(q)))
  <1> DEFINE a == SubSeq(q, 1, k)
             b == SubSeq(q, k + 1, Len(q))
  <1>1. /\ a \in Seq(Piece) /\ Len(a) = k /\ \A i \in 1 .. k : a[i] = q[i]
        /\ b \in Seq(Piece) /\ Len(b) = Len(q) - k /\ \A i \in 1 .. Len(q) - k : b[i] = q[k + i]
    BY Cut
  <1>2. Len(q) \in Nat /\ k \in Nat /\ k <= Len(q)
    BY LenProperties
  <1> HIDE DEF a, b
  <1>3. PICK f : Spells(f, q) /\ Placed(q) = f[Len(q)]
    BY PlacedSpells
  <1>4. PICK g : Spells(g, a) /\ Placed(a) = g[k]
    BY <1>1, PlacedSpells
  <1>5. PICK h : Spells(h, b) /\ Placed(b) = h[Len(q) - k]
    BY <1>1, PlacedSpells
  <1>6. f[k] = g[k]
    <2> DEFINE T == {n \in Nat : n <= k => f[n] = g[n]}
    <2>1. 0 \in T
      BY <1>3, <1>4 DEF Spells
    <2>2. ASSUME NEW n \in Nat, n \in T PROVE n + 1 \in T
      <3> SUFFICES ASSUME n + 1 <= k PROVE f[n + 1] = g[n + 1]
        OBVIOUS
      <3> DEFINE m == n + 1
      <3>1. m \in 1 .. k /\ m \in 1 .. Len(q) /\ m \in 1 .. Len(a) /\ m - 1 = n /\ f[n] = g[n]
        BY <1>1, <1>2, <2>2
      <3> HIDE DEF m
      <3>2. f[m] = f[m - 1] \o AtPos(q[m].data, q[m].pos)
        BY <1>3, <3>1 DEF Spells
      <3>3. g[m] = g[m - 1] \o AtPos(a[m].data, a[m].pos)
        BY <1>4, <3>1 DEF Spells
      <3>4. f[m] = g[m]
        BY <1>1, <3>1, <3>2, <3>3
      <3> QED
        BY <3>4 DEF m
    <2>3. \A n \in T : n <= k => f[n] = g[n]
      OBVIOUS
    <2> HIDE DEF T
    <2>4. Nat \subseteq T
      BY <2>1, <2>2, NatSet
    <2> QED
      BY <1>2, <2>3, <2>4
  <1>7. f[Len(q)] = f[k] \o h[Len(q) - k]
    <2> DEFINE R(n) == n <= Len(q) - k => f[k + n] = f[k] \o h[n]
               T == {n \in Nat : R(n)}
    <2>1. f[k] \in Seq(Byte) /\ \A n \in 0 .. Len(q) - k : h[n] \in Seq(Byte)
      BY <1>1, <1>2, <1>3, <1>5 DEF Spells
    <2>2. R(0)
      <3>1. h[0] = <<>> /\ k + 0 = k
        BY <1>2, <1>5 DEF Spells
      <3>2. f[k] \o <<>> = f[k]
        BY <2>1, ConcatEmptySeq
      <3> QED
        BY <3>1, <3>2
    <2>3. ASSUME NEW n \in Nat, R(n) PROVE R(n + 1)
      <3> DEFINE m == n + 1
                 l == k + m
      <3> SUFFICES ASSUME m <= Len(q) - k PROVE f[l] = f[k] \o h[m]
        OBVIOUS
      <3>1. /\ m \in 1 .. Len(q) - k /\ m \in 1 .. Len(b) /\ m - 1 = n /\ n \in 0 .. Len(q) - k
            /\ l \in 1 .. Len(q) /\ l - 1 = k + n /\ l = k + m
            /\ f[k + n] = f[k] \o h[n]
        <4>1. n <= Len(q) - k
          BY <1>2
        <4>2. f[k + n] = f[k] \o h[n]
          BY <2>3, <4>1
        <4>3. Len(b) = Len(q) - k
          BY <1>1
        <4> QED
          BY <1>2, <4>1, <4>2, <4>3
      <3> HIDE DEF m, l
      <3>2. f[l] = f[l - 1] \o AtPos(q[l].data, q[l].pos)
        BY <1>3, <3>1 DEF Spells
      <3>3. h[m] = h[m - 1] \o AtPos(b[m].data, b[m].pos)
        BY <1>5, <3>1 DEF Spells
      <3>4. b[m] = q[l] /\ q[l] \in Piece
        BY <1>1, <3>1, ElementOfSeq
      <3>5. AtPos(q[l].data, q[l].pos) \in Seq(Byte)
        BY <3>4, AtPosFacts DEF Piece
      <3>6. (f[k] \o h[n]) \o AtPos(q[l].data, q[l].pos) = f[k] \o (h[n] \o AtPos(q[l].data, q[l].pos))
        <4>1. f[k] \in Seq(Byte) /\ h[n] \in Seq(Byte)
          BY <2>1, <3>1
        <4> DEFINE x == AtPos(q[l].data, q[l].pos)
        <4>2. x \in Seq(Byte)
          BY <3>5
        <4> HIDE DEF x
        <4>3. (f[k] \o h[n]) \o x = f[k] \o (h[n] \o x)
          <5>1. \A s, t, u \in Seq(Byte) : (s \o t) \o u = s \o (t \o u)
            BY ConcatAssociative, SMTT(30)
          <5> QED
            BY <4>1, <4>2, <5>1, Zenon
        <4> QED
          BY <4>3 DEF x
      <3>7. f[l] = (f[k] \o h[n]) \o AtPos(q[l].data, q[l].pos)
        BY <3>1, <3>2
      <3>8. h[m] = h[n] \o AtPos(q[l].data, q[l].pos)
        BY <3>1, <3>3, <3>4
      <3> QED
        BY <3>6, <3>7, <3>8
    <2> HIDE DEF R
    <2>4. 0 \in T /\ \A n \in Nat : n \in T => n + 1 \in T
      BY <2>2, <2>3
    <2>5. \A n \in T : R(n)
      OBVIOUS
    <2> HIDE DEF T
    <2>6. Nat \subseteq T
      BY <2>4, NatSet
    <2>7. Len(q) - k \in Nat /\ k + (Len(q) - k) = Len(q) /\ Len(q) - k <= Len(q) - k
      BY <1>2
    <2>8. R(Len(q) - k)
      BY <2>5, <2>6, <2>7
    <2> QED
      BY <2>7, <2>8 DEF R
  <1>8. Placed(q) = Placed(a) \o Placed(b)
    BY <1>3, <1>4, <1>5, <1>6, <1>7
  <1> QED
    BY <1>8 DEF a, b

LEMMA PlacedOne ==
    ASSUME NEW p \in Piece
    PROVE  Placed(<<p>>) = AtPos(p.data, p.pos)
  <1>1. <<p>> \in Seq(Piece) /\ Len(<<p>>) = 1 /\ <<p>>[1] = p
    OBVIOUS
  <1>2. PICK f : Spells(f, <<p>>) /\ Placed(<<p>>) = f[1]
    BY <1>1, PlacedSpells
  <1>3. f[1] = <<>> \o AtPos(p.data, p.pos)
    <2>1. 1 \in 1 .. Len(<<p>>) /\ 1 - 1 = 0
      BY <1>1
    <2>2. f[1] = f[1 - 1] \o AtPos(<<p>>[1].data, <<p>>[1].pos)
      BY <1>2, <2>1 DEF Spells
    <2> QED
      BY <1>1, <1>2, <2>1, <2>2 DEF Spells
  <1>4. AtPos(p.data, p.pos) \in Seq(Byte)
    BY AtPosFacts DEF Piece
  <1> QED
    BY <1>2, <1>3, <1>4, ConcatEmptySeq

LEMMA PlacedAppend ==
    ASSUME NEW q \in Seq(Piece), NEW p \in Piece
    PROVE  Placed(Append(q, p)) = Placed(q) \o AtPos(p.data, p.pos)
  <1> DEFINE r == Append(q, p)
             n == Len(q)
  <1>1. r \in Seq(Piece) /\ Len(r) = n + 1 /\ r[n + 1] = p /\ \A i \in 1 .. n : r[i] = q[i]
    BY AppendProperties
  <1>2. n \in Nat /\ n \in 0 .. Len(r) /\ Len(r) - n = 1
    BY <1>1, LenProperties
  <1> HIDE DEF r
  <1>3. SubSeq(r, 1, n) = q
    <2>1. SubSeq(r, 1, n) \in Seq(Piece) /\ Len(SubSeq(r, 1, n)) = n
          /\ \A i \in 1 .. n : SubSeq(r, 1, n)[i] = r[i]
      BY <1>1, <1>2, Cut
    <2> QED
      BY <1>1, <2>1, SeqEqual
  <1>4. SubSeq(r, n + 1, Len(r)) = <<p>>
    <2>1. /\ SubSeq(r, n + 1, Len(r)) \in Seq(Piece) /\ Len(SubSeq(r, n + 1, Len(r))) = 1
          /\ \A i \in 1 .. 1 : SubSeq(r, n + 1, Len(r))[i] = r[n + i]
      BY <1>1, <1>2, Cut
    <2>2. <<p>> \in Seq(Piece) /\ Len(<<p>>) = 1 /\ <<p>>[1] = p
      OBVIOUS
    <2>3. SubSeq(r, n + 1, Len(r))[1] = p
      BY <1>1, <2>1
    <2>4. \A i \in 1 .. 1 : i = 1
      OBVIOUS
    <2> QED
      BY <2>1, <2>2, <2>3, <2>4, SeqEqual, ZenonT(40)
  <1>5. Placed(r) = Placed(SubSeq(r, 1, n)) \o Placed(SubSeq(r, n + 1, Len(r)))
    BY <1>1, <1>2, PlacedSplit
  <1> QED
    BY <1>3, <1>4, <1>5, PlacedOne DEF r

(* One more piece of a buffer. *)
LEMMA PlacedNext ==
    ASSUME NEW q \in Seq(Piece), NEW n \in Nat, n < Len(q)
    PROVE  /\ SubSeq(q, 1, n) \in Seq(Piece) /\ q[n + 1] \in Piece
           /\ Placed(SubSeq(q, 1, n + 1))
                = Placed(SubSeq(q, 1, n)) \o AtPos(q[n + 1].data, q[n + 1].pos)
  <1> DEFINE m == n + 1
             a == SubSeq(q, 1, n)
             b == SubSeq(q, 1, m)
  <1>2. Len(q) \in Nat /\ n \in 0 .. Len(q) /\ m \in 0 .. Len(q) /\ m \in 1 .. Len(q) /\ m = n + 1
    BY LenProperties
  <1>3. q[m] \in Piece
    BY <1>2, ElementOfSeq
  <1> HIDE DEF m
  <1>4. a \in Seq(Piece) /\ Len(a) = n /\ \A i \in 1 .. n : a[i] = q[i]
    BY <1>2, Cut
  <1>5. b \in Seq(Piece) /\ Len(b) = m /\ \A i \in 1 .. m : b[i] = q[i]
    BY <1>2, Cut
  <1> HIDE DEF a, b
  <1>6. b = Append(a, q[m])
    <2> DEFINE c == Append(a, q[m])
    <2>1. c \in Seq(Piece) /\ Len(c) = n + 1 /\ c[n + 1] = q[m] /\ \A i \in 1 .. n : c[i] = a[i]
      BY <1>3, <1>4, AppendProperties
    <2> HIDE DEF c
    <2>2. \A i \in 1 .. m : i = m \/ i \in 1 .. n
      BY <1>2
    <2>3. \A i \in 1 .. m : b[i] = c[i]
      BY <1>2, <1>4, <1>5, <2>1, <2>2
    <2>4. b = c
      BY <1>2, <1>5, <2>1, <2>3, SeqEqual
    <2> QED
      BY <2>4 DEF c
  <1>7. Placed(b) = Placed(a) \o AtPos(q[m].data, q[m].pos)
    BY <1>3, <1>4, <1>6, PlacedAppend
  <1> QED
    BY <1>3, <1>4, <1>7 DEF a, b, m

(* Pieces that follow one another spell a run of consecutive positions. *)
Reach(q, n) == Len(Placed(SubSeq(q, 1, n)))

Consecutive(s, p) == \A j \in 1 .. Len(s) : s[j].pos = p + j - 1

LEMMA Run ==
    ASSUME NEW q \in Seq(Piece), NEW p \in Int, NEW k \in 0 .. Len(q),
           \A i \in 1 .. k : q[i].pos = p + Reach(q, i - 1)
    PROVE  Consecutive(Placed(SubSeq(q, 1, k)), p)
  <1> DEFINE R(n) == n <= k => Consecutive(Placed(SubSeq(q, 1, n)), p)
             T == {n \in Nat : R(n)}
  <1>1. R(0)
    <2>1. SubSeq(q, 1, 0) = <<>>
      BY SubSeqEmpty
    <2>2. Consecutive(<<>>, p)
      <3>1. Len(<<>>) = 0
        BY EmptySeq
      <3> QED
        BY <3>1 DEF Consecutive
    <2> QED
      BY <2>1, <2>2, PlacedOfNone
  <1>2. ASSUME NEW n \in Nat, R(n) PROVE R(n + 1)
    <2> SUFFICES ASSUME n + 1 <= k PROVE Consecutive(Placed(SubSeq(q, 1, n + 1)), p)
      OBVIOUS
    <2> DEFINE a == Placed(SubSeq(q, 1, n))
               c == Placed(SubSeq(q, 1, n + 1))
               x == q[n + 1]
               b == AtPos(x.data, x.pos)
    <2>1. Len(q) \in Nat /\ n < Len(q) /\ n + 1 \in 1 .. k /\ n <= k
      BY LenProperties
    <2>2. SubSeq(q, 1, n) \in Seq(Piece) /\ x \in Piece /\ c = a \o b
      BY <2>1, PlacedNext
    <2>3. a \in Seq(Byte) /\ Len(a) \in Nat
      BY <2>2, PlacedType
    <2>4. Consecutive(a, p)
      BY <1>2, <2>1
    <2>5. x.pos = p + Len(a)
      <3>1. n + 1 - 1 = n
        OBVIOUS
      <3> QED
        BY <2>1, <3>1 DEF Reach
    <2>6. /\ b \in Seq(Byte) /\ Len(b) \in Nat
          /\ \A i \in 1 .. Len(b) : b[i].pos = x.pos + i - 1
      <3>1. x.data \in Seq(Value) /\ x.pos \in Int
        BY <2>2 DEF Piece
      <3> HIDE DEF x
      <3>2. /\ b \in Seq(Byte) /\ Len(b) = Len(x.data)
            /\ \A i \in 1 .. Len(x.data) : b[i] = [pos |-> x.pos + i - 1, byte |-> x.data[i]]
        BY <3>1, AtPosFacts
      <3> HIDE DEF b
      <3>3. Len(x.data) \in Nat
        BY <3>1, LenProperties
      <3>4. \A i \in 1 .. Len(x.data) : b[i].pos = x.pos + i - 1
        <4> SUFFICES ASSUME NEW i \in 1 .. Len(x.data) PROVE b[i].pos = x.pos + i - 1
          OBVIOUS
        <4> DEFINE y == b[i]
        <4>1. y = [pos |-> x.pos + i - 1, byte |-> x.data[i]]
          BY <3>2
        <4> HIDE DEF y
        <4>2. y.pos = x.pos + i - 1
          BY <4>1
        <4> QED
          BY <4>2 DEF y
      <3> QED
        BY <3>2, <3>3, <3>4, Zenon
    <2> HIDE DEF a, b, c, x
    <2>7. /\ Len(c) = Len(a) + Len(b)
          /\ \A i \in 1 .. Len(a) + Len(b) : c[i] = IF i <= Len(a) THEN a[i] ELSE b[i - Len(a)]
      BY <2>2, <2>3, <2>6, ConcatProperties
    <2>8. ASSUME NEW j \in 1 .. Len(c) PROVE c[j].pos = p + j - 1
      <3>1. CASE j <= Len(a)
        <4>1. j \in 1 .. Len(a) /\ c[j] = a[j]
          BY <2>3, <2>6, <2>7, <2>8, <3>1
        <4> QED
          BY <2>4, <4>1 DEF Consecutive
      <3>2. CASE ~ (j <= Len(a))
        <4>1. j - Len(a) \in 1 .. Len(b) /\ c[j] = b[j - Len(a)]
          BY <2>3, <2>6, <2>7, <2>8, <3>2
        <4>2. c[j].pos = x.pos + (j - Len(a)) - 1
          BY <2>6, <4>1
        <4> QED
          BY <2>3, <2>5, <4>2
      <3> QED
        BY <3>1, <3>2
    <2>9. Consecutive(c, p)
      BY <2>8 DEF Consecutive
    <2> QED
      BY <2>9 DEF c
  <1> HIDE DEF R
  <1>3. 0 \in T /\ \A n \in Nat : n \in T => n + 1 \in T
    BY <1>1, <1>2
  <1>4. \A n \in T : R(n)
    OBVIOUS
  <1> HIDE DEF T
  <1>5. R(k)
    <2>1. Nat \subseteq T
      BY <1>3, NatSet
    <2>2. k \in Nat
      BY LenProperties
    <2> QED
      BY <1>4, <2>1, <2>2
  <1> QED
    BY <1>5 DEF R

LEMMA UnitsFacts ==
    ASSUME NEW q \in Seq(Piece)
    PROVE  /\ Units(q) \in Seq(Value) /\ Len(Units(q)) = Len(Placed(q))
           /\ \A i \in 1 .. Len(Placed(q)) : Units(q)[i] = Placed(q)[i].byte
  <1>1. /\ Placed(q) \in Seq(Byte) /\ Len(Placed(q)) \in Nat
        /\ DOMAIN Placed(q) = 1 .. Len(Placed(q))
        /\ \A i \in 1 .. Len(Placed(q)) : Placed(q)[i] \in Byte
    BY PlacedType, LenProperties, ElementOfSeq
  <1>2. \A i \in 1 .. Len(Placed(q)) : Placed(q)[i].byte \in Value
    BY <1>1 DEF Byte
  <1>3. Units(q) = [i \in 1 .. Len(Placed(q)) |-> Placed(q)[i].byte]
    BY <1>1 DEF Units
  <1>4. Units(q) \in [1 .. Len(Placed(q)) -> Value]
    BY <1>2, <1>3
  <1>5. Units(q) \in Seq(Value)
    BY <1>1, <1>4, SeqDef
  <1> QED
    BY <1>1, <1>3, <1>5, LenProperties

LEMMA RunOfUnits ==
    ASSUME NEW q \in Seq(Piece), NEW p \in Int, Consecutive(Placed(q), p)
    PROVE  Placed(q) = AtPos(Units(q), p)
  <1>1. /\ Units(q) \in Seq(Value) /\ Len(Units(q)) = Len(Placed(q))
        /\ \A i \in 1 .. Len(Placed(q)) : Units(q)[i] = Placed(q)[i].byte
    BY UnitsFacts
  <1>2. Placed(q) \in Seq(Byte) /\ \A i \in 1 .. Len(Placed(q)) : Placed(q)[i] \in Byte
    BY PlacedType, ElementOfSeq
  <1>3. /\ AtPos(Units(q), p) \in Seq(Byte) /\ Len(AtPos(Units(q), p)) = Len(Placed(q))
        /\ \A i \in 1 .. Len(Placed(q)) : AtPos(Units(q), p)[i] = [pos |-> p + i - 1, byte |-> Units(q)[i]]
    BY <1>1, AtPosFacts
  <1>4. \A i \in 1 .. Len(Placed(q)) : Placed(q)[i] = [pos |-> p + i - 1, byte |-> Units(q)[i]]
    <2> SUFFICES ASSUME NEW i \in 1 .. Len(Placed(q))
                 PROVE  Placed(q)[i] = [pos |-> p + i - 1, byte |-> Units(q)[i]]
      OBVIOUS
    <2>1. Placed(q)[i] \in Byte /\ Placed(q)[i].pos = p + i - 1 /\ Placed(q)[i].byte = Units(q)[i]
      BY <1>1, <1>2 DEF Consecutive
    <2> QED
      BY <2>1 DEF Byte
  <1> QED
    BY <1>2, <1>3, <1>4, SeqEqual

-----------------------------------------------------------------------------
(* The greatest of some numbers. *)
LEMMA MaxFacts ==
    ASSUME NEW n \in Nat, NEW K, K \subseteq 0 .. n, K # {}
    PROVE  Max(K) \in K /\ \A y \in K : Max(K) >= y
  <1>1. \E x \in K : \A y \in K : x >= y
    BY Greatest
  <1> QED
    BY <1>1 DEF Max

(* The pieces that are taken into the chunk: they follow position p without *)
(* a gap and fit behind n units; and one is taken if the first does.        *)
Small(q) == \A i \in 1 .. Len(q) : Len(q[i].data) <= ChunkSize

LEMMA AdjacentFacts ==
    ASSUME queue \in Seq(Piece), NEW p \in Int, NEW n \in Nat, NEW k, k = Adjacent(p, n)
    PROVE  /\ k \in 0 .. Len(queue)
           /\ \A i \in 1 .. k : queue[i].pos = p + Reach(queue, i - 1)
           /\ k # 0 => n + Reach(queue, k) <= ChunkSize
           /\ queue # <<>> /\ queue[1].pos = p /\ n + Len(queue[1].data) <= ChunkSize => k # 0
  <1> DEFINE Before(i) == Len(Placed(SubSeq(queue, 1, i - 1)))
             Fits(i) == queue[i].pos = p + Before(i) /\ n + Before(i + 1) <= ChunkSize
             K == {m \in 0 .. Len(queue) : \A i \in 1 .. m : Fits(i)}
  <1>1. k = Max(K)
    BY Zenon DEF Adjacent
  <1>2. Len(queue) \in Nat
    BY LenProperties
  <1>3. K \subseteq 0 .. Len(queue) /\ K # {}
    <2>1. 0 \in K
      BY <1>2
    <2> QED
      BY <2>1
  <1>4. k \in K /\ \A m \in K : k >= m
    <2> HIDE DEF K
    <2> QED
      BY <1>1, <1>2, <1>3, MaxFacts
  <1>5. k \in 0 .. Len(queue) /\ \A i \in 1 .. k : Fits(i)
    BY <1>4
  <1>6. \A i \in Int : Before(i) = Reach(queue, i - 1) /\ Before(i + 1) = Reach(queue, i)
    <2> SUFFICES ASSUME NEW i \in Int PROVE Before(i + 1) = Reach(queue, i)
      BY DEF Reach
    <2>1. i + 1 - 1 = i
      OBVIOUS
    <2> QED
      BY <2>1 DEF Reach
  <1>7. \A i \in 1 .. k : queue[i].pos = p + Reach(queue, i - 1) /\ n + Reach(queue, i) <= ChunkSize
    <2> HIDE DEF Before
    <2> QED
      BY <1>2, <1>5, <1>6
  <1>8. ASSUME queue # <<>>, queue[1].pos = p, n + Len(queue[1].data) <= ChunkSize PROVE k # 0
    <2>1. Len(queue) >= 1
      BY <1>8, EmptySeq
    <2>2. Reach(queue, 0) = 0
      <3>1. SubSeq(queue, 1, 0) = <<>>
        BY SubSeqEmpty
      <3> QED
        BY <3>1, PlacedOfNone, EmptySeq DEF Reach
    <2>3. Reach(queue, 1) = Len(queue[1].data)
      <3>1. 0 \in Nat /\ 0 < Len(queue) /\ 0 + 1 = 1
        BY <1>2, <2>1
      <3>2. /\ SubSeq(queue, 1, 0) \in Seq(Piece) /\ queue[1] \in Piece
            /\ Placed(SubSeq(queue, 1, 1))
                 = Placed(SubSeq(queue, 1, 0)) \o AtPos(queue[1].data, queue[1].pos)
        BY <3>1, PlacedNext
      <3>3. SubSeq(queue, 1, 0) = <<>>
        BY SubSeqEmpty
      <3>4. AtPos(queue[1].data, queue[1].pos) \in Seq(Byte)
            /\ Len(AtPos(queue[1].data, queue[1].pos)) = Len(queue[1].data)
        BY <3>2, AtPosFacts DEF Piece
      <3> QED
        BY <3>2, <3>3, <3>4, PlacedOfNone, ConcatEmptySeq DEF Reach
    <2>4. Fits(1)
      <3> HIDE DEF Before
      <3>1. Before(1) = 0 /\ Before(1 + 1) = Len(queue[1].data)
        <4>1. 1 \in Int /\ 1 - 1 = 0
          OBVIOUS
        <4>2. Before(1) = Reach(queue, 1 - 1) /\ Before(1 + 1) = Reach(queue, 1)
          BY <1>6, <4>1
        <4> QED
          BY <2>2, <2>3, <4>1, <4>2
      <3>2. queue[1].pos = p + Before(1)
        BY <1>8, <3>1
      <3> QED
        BY <1>8, <3>1, <3>2
    <2>5. 1 \in K
      <3>1. \A i \in 1 .. 1 : i = 1
        OBVIOUS
      <3> HIDE DEF Fits
      <3> QED
        BY <1>2, <2>1, <2>4, <3>1
    <2> HIDE DEF K
    <2> QED
      BY <1>4, <1>5, <2>5
  <1> QED
    BY <1>2, <1>5, <1>7, <1>8

-----------------------------------------------------------------------------
(* What the writer pushes.  After some pieces a part t of what it had left *)
(* has moved to the buffer, and the buffer has not outgrown its bounds.    *)
Buf      == [queue : Seq(Piece), capacity : Nat, pos : Nat, rest : Seq(Value)]
Bound(c) == c < 2 * BufferSize \/ c = Reserved
Room     == IF capacity > BufferSize THEN capacity ELSE BufferSize
Need     == Least(Len(rest), ChunkSize) + HeaderSize
More(b)  == IF b.rest = <<>> THEN b ELSE PushPiece(b)

Moved(b, t) ==
    /\ rest = t \o b.rest /\ b.pos = nextPos + Len(t)
    /\ Placed(b.queue) = Placed(queue) \o AtPos(t, nextPos)

Loop(b, i) ==
    /\ b \in Buf /\ Small(b.queue)
    /\ capacity <= b.capacity /\ Bound(b.capacity)
    /\ Size(b.queue) <= Size(queue) + i * Need
    /\ \E t \in Seq(Value) : Moved(b, t) /\ (i # 0 => t # <<>>)

BufferTypes ==
    /\ queue \in Seq(Piece) /\ capacity \in Nat /\ nextPos \in Nat /\ rest \in Seq(Value)
    /\ Small(queue) /\ Bound(capacity)

LEMMA SizeFacts ==
    ASSUME NEW q \in Seq(Piece), NEW p \in Piece
    PROVE  Size(q) \in Nat /\ Size(Append(q, p)) = Size(q) + HeaderSize + Len(p.data)
  <1>1. /\ Placed(q) \in Seq(Byte) /\ Len(Placed(q)) \in Nat /\ Len(q) \in Nat
        /\ HeaderSize \in Nat
    BY PlacedType, LenProperties, FileAssumption
  <1>2. p.data \in Seq(Value) /\ p.pos \in Int /\ Len(p.data) \in Nat
    BY LenProperties DEF Piece
  <1>3. /\ AtPos(p.data, p.pos) \in Seq(Byte)
        /\ Len(AtPos(p.data, p.pos)) = Len(p.data)
    BY <1>2, AtPosFacts
  <1>4. Len(Placed(Append(q, p))) = Len(Placed(q)) + Len(p.data)
    <2>1. Placed(Append(q, p)) = Placed(q) \o AtPos(p.data, p.pos)
      BY PlacedAppend
    <2> QED
      BY <1>1, <1>3, <2>1, ConcatProperties
  <1>5. Len(Append(q, p)) = Len(q) + 1
    BY AppendProperties
  <1>6. Len(q) * HeaderSize \in Nat /\ (Len(q) + 1) * HeaderSize = Len(q) * HeaderSize + HeaderSize
    <2>1. \A m, n \in Nat : m * n \in Nat /\ (m + 1) * n = m * n + n
      OBVIOUS
    <2> QED
      BY <1>1, <2>1
  <1>7. Size(Append(q, p)) = (Len(q) * HeaderSize + HeaderSize) + (Len(Placed(q)) + Len(p.data))
    BY <1>4, <1>5, <1>6 DEF Size
  <1>8. Size(q) = Len(q) * HeaderSize + Len(Placed(q))
    BY DEF Size
  <1> DEFINE a == Len(q) * HeaderSize
             b == Len(Placed(q))
  <1>10. a \in Nat /\ b \in Nat /\ Size(q) = a + b
    BY <1>1, <1>6, <1>8
  <1>11. Size(Append(q, p)) = (a + HeaderSize) + (b + Len(p.data))
    BY <1>7
  <1> HIDE DEF a, b
  <1>12. (a + HeaderSize) + (b + Len(p.data)) = a + b + HeaderSize + Len(p.data) /\ a + b \in Nat
    <2>1. a \in Nat /\ b \in Nat /\ HeaderSize \in Nat /\ Len(p.data) \in Nat
      BY <1>1, <1>2, <1>10
    <2>2. \A x, y, u, v \in Nat : (x + u) + (y + v) = x + y + u + v /\ x + y \in Nat
      OBVIOUS
    <2> DEFINE v == Len(p.data)
    <2>3. v \in Nat
      BY <2>1
    <2> HIDE DEF v
    <2>4. (a + HeaderSize) + (b + v) = a + b + HeaderSize + v /\ a + b \in Nat
      BY <2>1, <2>2, <2>3
    <2> QED
      BY <2>4 DEF v
  <1> QED
    BY <1>10, <1>11, <1>12

LEMMA GrownFacts ==
    ASSUME NEW c \in Nat, NEW n \in Nat, capacity \in Nat,
           capacity <= c, Bound(c), n <= Room
    PROVE  Grown(c, n) \in Nat /\ capacity <= Grown(c, n) /\ Bound(Grown(c, n))
  <1>1. BufferSize \in Nat /\ BufferSize > 0
    BY FileAssumption
  <1>2. CASE n <= c
    BY <1>2 DEF Grown
  <1>3. CASE ~ (n <= c)
    <2>1. n <= BufferSize
      BY <1>1, <1>3 DEF Room
    <2>2. CASE n > 2 * c
      BY <1>1, <1>3, <2>1, <2>2 DEF Grown, Bound
    <2>3. CASE ~ (n > 2 * c)
      BY <1>1, <1>3, <2>1, <2>3 DEF Grown, Bound
    <2> QED
      BY <2>2, <2>3
  <1> QED
    BY <1>2, <1>3

LEMMA NeedFacts ==
    ASSUME rest \in Seq(Value), rest # <<>>
    PROVE  /\ Need \in Nat \ {0} /\ HeaderSize \in Nat \ {0} /\ ChunkSize \in Nat \ {0}
           /\ \A n \in Nat : n <= Len(rest) => Least(n, ChunkSize) + HeaderSize <= Need
           /\ \A n \in Nat \ {0} : /\ Least(n, ChunkSize) \in 1 .. n
                                   /\ Least(n, ChunkSize) <= ChunkSize
  <1>1. Len(rest) \in Nat \ {0}
    BY EmptySeq
  <1>2. HeaderSize \in Nat \ {0} /\ ChunkSize \in Nat \ {0}
    BY FileAssumption
  <1> QED
    BY <1>1, <1>2 DEF Need, Least

LEMMA PushStep ==
    ASSUME BufferTypes, rest # <<>>, NEW i \in Nat, Size(queue) + (i + 1) * Need <= Room,
           NEW b, Loop(b, i)
    PROVE  Loop(More(b), i + 1)
  <1> DEFINE l == Least(Len(b.rest), ChunkSize)
             d == SubSeq(b.rest, 1, l)
             e == SubSeq(b.rest, l + 1, Len(b.rest))
             p == [pos |-> b.pos, data |-> d]
             q == Append(b.queue, p)
             c == Grown(b.capacity, Size(b.queue) + HeaderSize)
             z == Grown(c, Size(b.queue) + HeaderSize + l)
             r == [queue |-> q, capacity |-> z, pos |-> b.pos + l, rest |-> e]
  <1>1. PICK t \in Seq(Value) : Moved(b, t) /\ (i # 0 => t # <<>>)
    BY DEF Loop
  <1>2. /\ b \in Buf /\ b.queue \in Seq(Piece) /\ b.capacity \in Nat /\ b.pos \in Nat
        /\ b.rest \in Seq(Value) /\ Len(b.rest) \in Nat
    BY LenProperties DEF Loop, Buf
  <1>3. rest \in Seq(Value) /\ capacity \in Nat /\ nextPos \in Nat /\ queue \in Seq(Piece)
    BY DEF BufferTypes
  <1>4. Len(t) \in Nat /\ Len(rest) = Len(t) + Len(b.rest)
    BY <1>1, <1>2, ConcatProperties, LenProperties DEF Moved
  <1>5. /\ Need \in Nat /\ HeaderSize \in Nat /\ Size(queue) \in Nat /\ Size(b.queue) \in Nat
        /\ (i + 1) * Need = i * Need + Need /\ i * Need \in Nat
    <2>1. \A s \in Seq(Piece) : Size(s) \in Nat
      <3>1. Len(<<>>) = 0
        BY EmptySeq
      <3>2. \A m, n \in Nat : m * n \in Nat
        OBVIOUS
      <3> SUFFICES ASSUME NEW s \in Seq(Piece) PROVE Size(s) \in Nat
        OBVIOUS
      <3>3. Len(s) \in Nat /\ Len(Placed(s)) \in Nat /\ HeaderSize \in Nat
        BY PlacedType, LenProperties, FileAssumption
      <3>4. Len(s) * HeaderSize \in Nat
        BY <3>2, <3>3
      <3> QED
        BY <3>3, <3>4 DEF Size
    <2>2. Need \in Nat /\ HeaderSize \in Nat
      BY <1>3, NeedFacts
    <2>3. \A m \in Nat : (i + 1) * m = i * m + m /\ i * m \in Nat
      OBVIOUS
    <2> QED
      BY <1>2, <1>3, <2>1, <2>2, <2>3
  <1>6. CASE b.rest = <<>>
    <2>1. More(b) = b
      BY <1>6 DEF More
    <2>2. t # <<>>
      <3>1. rest = t \o <<>>
        BY <1>1, <1>6 DEF Moved
      <3> QED
        BY <3>1, ConcatEmptySeq
    <2>3. Size(b.queue) <= Size(queue) + (i + 1) * Need
      <3>1. Size(b.queue) <= Size(queue) + i * Need
        BY DEF Loop
      <3> QED
        BY <1>5, <3>1
    <2> QED
      BY <1>1, <2>1, <2>2, <2>3 DEF Loop
  <1>7. CASE b.rest # <<>>
    <2>1. More(b) = r
      BY <1>7, Zenon DEF More, PushPiece
    <2>2. /\ Len(b.rest) \in Nat \ {0} /\ l \in 1 .. Len(b.rest) /\ l \in Nat
          /\ l <= ChunkSize /\ l + HeaderSize <= Need
      <3>1. Len(b.rest) \in Nat \ {0} /\ Len(b.rest) <= Len(rest)
        BY <1>2, <1>4, <1>7, EmptySeq
      <3>2. /\ \A n \in Nat : n <= Len(rest) => Least(n, ChunkSize) + HeaderSize <= Need
            /\ \A n \in Nat \ {0} : /\ Least(n, ChunkSize) \in 1 .. n
                                    /\ Least(n, ChunkSize) <= ChunkSize
        BY <1>3, NeedFacts
      <3> QED
        BY <3>1, <3>2
    <2> HIDE DEF l
    <2>3. /\ d \in Seq(Value) /\ Len(d) = l /\ e \in Seq(Value) /\ d \o e = b.rest
      BY <1>2, <2>2, Cut
    <2> HIDE DEF d, e
    <2>4. d # <<>>
      BY <2>2, <2>3, EmptySeq
    <2>5. p \in Piece /\ p.data = d /\ p.pos = b.pos
      BY <1>2, <2>3, <2>4 DEF Piece
    <2> HIDE DEF p
    <2>6. q \in Seq(Piece) /\ Size(q) = Size(b.queue) + HeaderSize + l
      BY <1>2, <2>3, <2>5, SizeFacts, AppendProperties
    <2>7. /\ Size(q) <= Size(queue) + (i + 1) * Need
          /\ Size(b.queue) + HeaderSize + l <= Room
          /\ Size(b.queue) + HeaderSize <= Room
      <3>1. Size(b.queue) <= Size(queue) + i * Need
        BY DEF Loop
      <3>2. Room \in Int
        BY <1>3, FileAssumption DEF Room
      <3>3. Size(queue) + (i + 1) * Need <= Room
        OBVIOUS
      <3>4. \A x, y, u, v, w, o, m, g \in Int :
                x <= y + u /\ v = u + w /\ o + g <= w /\ y + v <= m /\ o >= 0
                => x + g + o <= y + v /\ x + g + o <= m /\ x + g <= m
        OBVIOUS
      <3>5. l >= 0 /\ l \in Int
        BY <2>2
      <3> QED
        BY <1>5, <2>2, <2>6, <3>1, <3>2, <3>3, <3>4, <3>5
    <2>8. c \in Nat /\ capacity <= c /\ Bound(c)
      <3>1. capacity <= b.capacity /\ Bound(b.capacity) /\ Size(b.queue) + HeaderSize \in Nat
        BY <1>5 DEF Loop
      <3> QED
        BY <1>2, <1>3, <2>7, <3>1, GrownFacts
    <2> HIDE DEF c
    <2>9. z \in Nat /\ capacity <= z /\ Bound(z)
      <3>1. Size(b.queue) + HeaderSize + l \in Nat
        BY <1>5, <2>2
      <3> QED
        BY <1>3, <2>7, <2>8, <3>1, GrownFacts
    <2> HIDE DEF z
    <2>10. Small(q)
      <3>1. /\ Len(q) = Len(b.queue) + 1 /\ q[Len(b.queue) + 1] = p
            /\ \A j \in 1 .. Len(b.queue) : q[j] = b.queue[j]
        BY <1>2, <2>5, AppendProperties
      <3>2. Len(b.queue) \in Nat /\ Small(b.queue)
        BY <1>2, LenProperties DEF Loop
      <3> HIDE DEF q
      <3>3. ASSUME NEW j \in 1 .. Len(q) PROVE Len(q[j].data) <= ChunkSize
        <4>1. CASE j = Len(b.queue) + 1
          BY <2>2, <2>3, <2>5, <3>1, <4>1
        <4>2. CASE j # Len(b.queue) + 1
          <5>1. j \in 1 .. Len(b.queue)
            BY <3>1, <3>2, <4>2
          <5> QED
            BY <3>1, <3>2, <5>1 DEF Small
        <4> QED
          BY <4>1, <4>2
      <3> QED
        BY <3>3 DEF Small
    <2>11. Moved(r, t \o d) /\ t \o d \in Seq(Value)
      <3>1. /\ rest = t \o b.rest /\ b.pos = nextPos + Len(t)
            /\ Placed(b.queue) = Placed(queue) \o AtPos(t, nextPos)
        BY <1>1 DEF Moved
      <3>2. rest = (t \o d) \o e
        <4>1. (t \o d) \o e = t \o (d \o e)
          <5>1. \A x, y, w \in Seq(Value) : (x \o y) \o w = x \o (y \o w)
            BY ConcatAssociative
          <5> QED
            BY <2>3, <5>1, Zenon
        <4> QED
          BY <2>3, <3>1, <4>1
      <3>3. t \o d \in Seq(Value) /\ Len(t \o d) = Len(t) + l
        BY <2>3, ConcatProperties
      <3>4. b.pos + l = nextPos + Len(t \o d)
        BY <1>3, <1>4, <2>2, <3>1, <3>3
      <3>5. Placed(q) = Placed(queue) \o AtPos(t \o d, nextPos)
        <4> DEFINE A == Placed(queue)
                   B == AtPos(t, nextPos)
                   C == AtPos(d, nextPos + Len(t))
        <4>1. Placed(q) = (A \o B) \o C
          BY <1>2, <2>5, <3>1, PlacedAppend
        <4>2. A \in Seq(Byte) /\ B \in Seq(Byte) /\ C \in Seq(Byte)
          <5>1. nextPos \in Int /\ nextPos + Len(t) \in Int
            BY <1>3, <1>4
          <5> QED
            BY <1>3, <2>3, <5>1, PlacedType, AtPosFacts
        <4>3. AtPos(t \o d, nextPos) = B \o C
          <5>1. nextPos \in Int /\ d \in Seq(Value)
            BY <1>3, <2>3
          <5> QED
            BY <5>1, AtPosConcat, Zenon
        <4> HIDE DEF A, B, C
        <4>4. (A \o B) \o C = A \o (B \o C)
          BY <4>2, ConcatAssociative
        <4>5. Placed(q) = A \o AtPos(t \o d, nextPos)
          BY <4>1, <4>3, <4>4
        <4> QED
          BY <4>5 DEF A
      <3>6. r.rest = e /\ r.pos = b.pos + l /\ r.queue = q
        OBVIOUS
      <3> HIDE DEF r
      <3> QED
        BY <3>2, <3>3, <3>4, <3>5, <3>6 DEF Moved
    <2>12. t \o d # <<>>
      BY <2>3, <2>4, ConcatEqualIffEmpty
    <2>13. r \in Buf /\ r.queue = q /\ r.capacity = z
      <3>1. b.pos + l \in Nat
        BY <1>2, <2>2
      <3> HIDE DEF q
      <3> QED
        BY <2>3, <2>6, <2>9, <3>1 DEF Buf
    <2> HIDE DEF r, q
    <2>14. Loop(r, i + 1)
      BY <2>7, <2>9, <2>10, <2>11, <2>12, <2>13 DEF Loop
    <2> QED
      BY <2>1, <2>14
  <1> QED
    BY <1>6, <1>7

(* Pushed(n), for as many pieces as there is room for. *)
LEMMA PushedFacts ==
    ASSUME BufferTypes, rest # <<>>, NEW n \in Nat, Size(queue) + n * Need <= Room
    PROVE  Loop(Pushed(n), n)
  <1> DEFINE now == [queue |-> queue, capacity |-> capacity, pos |-> nextPos, rest |-> rest]
             next(f, i) == IF i = 0 THEN now ELSE More(f[i - 1])
             E(f) == f = [i \in 0 .. n |-> next(f, i)]
             it == CHOOSE f : E(f)
             S == [i \in 0 .. n |-> {b \in Buf : Loop(b, i)}]
             step == [x \in (1 .. n) \X Buf |-> More(x[2])]
  <1>1. Pushed(n) = it[n]
    BY Zenon DEF Pushed, More
  <1>2. /\ \A i \in 0 .. n : S[i] = {b \in Buf : Loop(b, i)}
        /\ \A i \in 1 .. n : i \in 0 .. n /\ i - 1 \in 0 .. n
        /\ 0 \in 0 .. n
    OBVIOUS
  <1>3. now \in S[0]
    <2>1. now \in Buf /\ now.queue = queue /\ now.capacity = capacity /\ now.pos = nextPos /\ now.rest = rest
      BY DEF Buf, BufferTypes
    <2>2. Moved(now, <<>>) /\ <<>> \in Seq(Value)
      <3>1. /\ rest = <<>> \o rest /\ <<>> \in Seq(Value) /\ Len(<<>>) = 0
            /\ nextPos + 0 = nextPos /\ AtPos(<<>>, nextPos) = <<>>
        BY ConcatEmptySeq, EmptySeq, AtPosOfNone DEF BufferTypes
      <3>2. Placed(queue) = Placed(queue) \o <<>>
        BY PlacedType, ConcatEmptySeq DEF BufferTypes
      <3> HIDE DEF now
      <3> QED
        BY <2>1, <3>1, <3>2 DEF Moved
    <2>3. Size(queue) <= Size(queue) + 0 * Need /\ capacity <= capacity
      <3>1. Len(queue) * HeaderSize \in Nat /\ Len(Placed(queue)) \in Nat
        <4>1. \A a, b \in Nat : a * b \in Nat
          OBVIOUS
        <4> QED
          BY <4>1, PlacedType, LenProperties, FileAssumption DEF BufferTypes
      <3>2. Need \in Nat /\ 0 * Need = 0 /\ capacity \in Nat
        <4>1. \A a \in Nat : 0 * a = 0
          OBVIOUS
        <4> QED
          BY <4>1, NeedFacts DEF BufferTypes
      <3>3. Size(queue) \in Nat
        BY <3>1 DEF Size
      <3> QED
        BY <3>2, <3>3
    <2> HIDE DEF now
    <2>4. Loop(now, 0)
      BY <2>1, <2>2, <2>3 DEF Loop, BufferTypes
    <2> QED
      BY <1>2, <2>1, <2>4
  <1> HIDE DEF now
  <1>4. ASSUME NEW i \in 1 .. n, NEW b \in S[i - 1]
        PROVE  step[<<i, b>>] = More(b) /\ step[<<i, b>>] \in S[i]
    <2>1. b \in Buf /\ Loop(b, i - 1)
      BY <1>2
    <2>2. step[<<i, b>>] = More(b)
      BY <2>1
    <2>3. Size(queue) + ((i - 1) + 1) * Need <= Room /\ i - 1 \in Nat
      <3>1. Need \in Nat /\ Room \in Int
        BY NeedFacts, FileAssumption DEF BufferTypes, Room
      <3>2. (i - 1) + 1 = i /\ i - 1 \in Nat
        OBVIOUS
      <3>3. \E m \in Nat : n = i + m
        <4>1. n - i \in Nat /\ n = i + (n - i)
          OBVIOUS
        <4> QED
          BY <4>1
      <3>4. PICK m \in Nat : n = i + m
        BY <3>3
      <3>5. n * Need = i * Need + m * Need /\ i * Need \in Nat /\ m * Need \in Nat
        <4>1. \A a, c, w \in Nat : (a + c) * w = a * w + c * w /\ a * w \in Nat
          OBVIOUS
        <4> QED
          BY <3>1, <3>4, <4>1
      <3>6. Size(queue) \in Int
        <4>1. Len(queue) * HeaderSize \in Nat /\ Len(Placed(queue)) \in Nat
          <5>1. \A a, c \in Nat : a * c \in Nat
            OBVIOUS
          <5> QED
            BY <5>1, PlacedType, LenProperties, FileAssumption DEF BufferTypes
        <4> QED
          BY <4>1 DEF Size
      <3>7. \A s, x, y, w, m0 \in Int : s + w <= m0 /\ w = x + y /\ y >= 0 => s + x <= m0
        OBVIOUS
      <3>8. Size(queue) + i * Need <= Room
        <4>1. n * Need \in Int /\ m * Need >= 0 /\ m * Need \in Int /\ i * Need \in Int
          BY <3>5
        <4> QED
          BY <3>1, <3>5, <3>6, <3>7, <4>1
      <3> QED
        BY <3>2, <3>8
    <2>4. Loop(More(b), (i - 1) + 1)
      BY <2>1, <2>3, PushStep
    <2>5. Loop(More(b), i)
      <3>1. (i - 1) + 1 = i
        OBVIOUS
      <3> QED
        BY <2>4, <3>1
    <2>6. More(b) \in Buf
      BY <2>5 DEF Loop
    <2> HIDE DEF step
    <2> QED
      BY <1>2, <2>2, <2>5, <2>6
  <1>5. PICK f : /\ Recurs(f, now, step, n) /\ \A i \in 0 .. n : f[i] \in S[i]
                 /\ f = [i \in 0 .. n |-> f[i]]
    <2> HIDE DEF step, S
    <2> QED
      BY <1>3, <1>4, Recursion, ZenonT(40)
  <1>6. E(f)
    <2>1. ASSUME NEW i \in 0 .. n PROVE f[i] = next(f, i)
      <3>1. CASE i = 0
        BY <1>5, <3>1 DEF Recurs
      <3>2. CASE i # 0
        <4>1. i \in 1 .. n /\ f[i - 1] \in S[i - 1]
          BY <1>2, <1>5, <3>2
        <4> HIDE DEF step, S
        <4>2. f[i] = More(f[i - 1])
          BY <1>4, <1>5, <4>1 DEF Recurs
        <4> QED
          BY <3>2, <4>2, Zenon
      <3> QED
        BY <3>1, <3>2
    <2> HIDE DEF next
    <2> QED
      BY <1>5, <2>1
  <1>7. E(it)
    <2> HIDE DEF E
    <2> QED
      BY <1>6, Zenon
  <1>8. \A i \in 0 .. n : it[i] = next(it, i)
    <2> HIDE DEF it, next
    <2> QED
      BY <1>7
  <1> HIDE DEF it
  <1>9. it[0] = now /\ \A i \in 1 .. n : it[i] = More(it[i - 1])
    <2>1. \A i \in 1 .. n : i # 0 /\ i \in 0 .. n
      OBVIOUS
    <2>2. \A i : i # 0 => next(it, i) = More(it[i - 1])
      BY Zenon
    <2>3. next(it, 0) = now
      OBVIOUS
    <2> HIDE DEF next
    <2> QED
      BY <1>2, <1>8, <2>1, <2>2, <2>3, Zenon
  <1>10. Follows(it, S, now, step, n)
    <2> HIDE DEF S, step
    <2>1. \A i \in 1 .. n : it[i - 1] \in S[i - 1] => it[i] = step[<<i, it[i - 1]>>]
      BY <1>4, <1>9
    <2> QED
      BY <1>9, <2>1 DEF Follows
  <1>11. it[n] = f[n]
    <2> HIDE DEF S, step, E, next
    <2>1. \A i \in 0 .. n : it[i] = f[i]
      <3>1. Recurs(f, now, step, n)
        BY <1>5
      <3>2. \A i \in 0 .. n : f[i] \in S[i]
        BY <1>5
      <3> QED
        BY <1>10, <3>1, <3>2, RecursionUnique
    <2> QED
      BY <2>1
  <1>12. f[n] \in S[n] /\ n \in 0 .. n
    BY <1>5
  <1> QED
    BY <1>1, <1>2, <1>11, <1>12

LEMMA Division ==
    ASSUME NEW a \in Nat, NEW b \in Nat \ {0}, b <= a
    PROVE  a \div b \in Nat /\ (a \div b) * b <= a /\ a \div b # 0
  <1>1. a = b * (a \div b) + (a % b) /\ a % b \in 0 .. b - 1 /\ a \div b \in Int
    OBVIOUS
  <1>2. \A d, r \in Int : a = b * d + r /\ r \in 0 .. b - 1 => d >= 1 /\ d * b <= a
    <2> SUFFICES ASSUME NEW d \in Int, NEW r \in 0 .. b - 1, a = b * d + r PROVE d >= 1 /\ d * b <= a
      OBVIOUS
    <2>1. d * b <= a
      OBVIOUS
    <2>2. CASE d < 1
      <3>1. \E m \in Nat : d = 0 - m
        <4>1. 0 - d \in Nat /\ d = 0 - (0 - d)
          BY <2>2
        <4> QED
          BY <4>1
      <3>2. PICK m \in Nat : d = 0 - m
        BY <3>1
      <3>3. b * d = 0 - b * m /\ b * m \in Nat
        BY <3>2
      <3> QED
        BY <3>3
    <2> QED
      BY <2>1, <2>2
  <1>3. a \div b >= 1 /\ (a \div b) * b <= a
    <2> DEFINE d == a \div b
               r == a % b
    <2>1. d \in Int /\ r \in Int /\ a = b * d + r /\ r \in 0 .. b - 1
      BY <1>1
    <2> HIDE DEF d, r
    <2>2. d >= 1 /\ d * b <= a
      BY <1>2, <2>1
    <2> QED
      BY <2>2 DEF d
  <1> QED
    BY <1>1, <1>3

-----------------------------------------------------------------------------
(* The invariant: the types; what the two threads may be doing; and, while *)
(* no write has failed, that the chunk in hand belongs where the FILE is,  *)
(* or where it is about to seek to, and ends where the next piece is       *)
(* expected.                                                               *)
IoType == [pc : {"wait", "fetch", "flush", "exit"}, chunk : Seq(Value),
           wantSeek : BOOLEAN, cur : Nat, seekTo : Nat]

Types ==
    /\ queue \in Seq(Piece) /\ capacity \in Nat /\ nextPos \in Nat /\ filePos \in Nat
    /\ spaceEvent \in BOOLEAN /\ dataEvent \in BOOLEAN
    /\ shutdown \in BOOLEAN /\ error \in BOOLEAN
    /\ wpc \in {"idle", "write", "blocked", "freeing", "joining", "closed"}
    /\ rest \in Seq(Value) /\ io \in IoType /\ Len(io.chunk) <= ChunkSize
    /\ disk \in [Positions -> 0 .. MaxUnits]
    /\ used \in [unit : 0 .. MaxUnits, seek : 0 .. MaxSeeks, fail : 0 .. MaxFails]

LEMMA TypesOf == TypeOK <=> Types
  BY DEF TypeOK, Types, IoType, Piece, Value

Owing  == (rest # <<>>) <=> (wpc \in {"write", "blocked"})
Closes == shutdown <=> (wpc \in {"freeing", "joining", "closed"})
Ended  == /\ io.pc = "exit" => error \/ (shutdown /\ queue = <<>> /\ io.chunk = <<>>)
          /\ error => io.pc = "exit"
InHand == io.wantSeek \/ io.pc = "flush" => io.chunk # <<>>
Placing == ~error => FlushPos + Len(io.chunk) = io.cur

Inv == Types /\ Bound(capacity) /\ Small(queue) /\ Owing /\ Closes /\ Ended /\ InHand /\ Placing

LEMMA InitInv == Init => Inv
  <1> SUFFICES ASSUME Init PROVE Inv
    OBVIOUS
  <1>1. <<>> \in Seq(Piece) /\ <<>> \in Seq(Value) /\ Len(<<>>) = 0
    BY EmptySeq
  <1>2. /\ Reserved \in Nat /\ ChunkSize \in Nat /\ MaxUnits \in Nat /\ MaxSeeks \in Nat
        /\ MaxFails \in Nat
    BY FileAssumption
  <1>3. io \in IoType /\ io.pc = "wait" /\ io.chunk = <<>> /\ io.wantSeek = FALSE /\ io.cur = 0
    BY <1>1 DEF Init, IoType
  <1>4. used \in [unit : 0 .. MaxUnits, seek : 0 .. MaxSeeks, fail : 0 .. MaxFails]
    BY <1>2 DEF Init
  <1>5. disk \in [Positions -> 0 .. MaxUnits]
    BY <1>2 DEF Init
  <1>6. Types
    <2>1. Len(io.chunk) <= ChunkSize
      BY <1>1, <1>2, <1>3
    <2>2. queue \in Seq(Piece) /\ rest \in Seq(Value)
      BY <1>1 DEF Init
    <2>3. capacity \in Nat /\ nextPos \in Nat /\ filePos \in Nat
      BY <1>2 DEF Init
    <2> QED
      BY <1>3, <1>4, <1>5, <2>1, <2>2, <2>3 DEF Init, Types
  <1>7. Bound(capacity) /\ Small(queue)
    BY <1>1 DEF Init, Bound, Small
  <1>8. Owing /\ Closes /\ Ended /\ InHand
    BY <1>3 DEF Init, Owing, Closes, Ended, InHand
  <1>9. Placing
    BY <1>1, <1>3 DEF Init, Placing, FlushPos
  <1> QED
    BY <1>6, <1>7, <1>8, <1>9 DEF Inv

(* What the writer's push does to the buffer. *)
LEMMA PushFacts ==
    ASSUME Inv, wpc = "write", Free >= Need, NEW new, new = Pushed(Free \div Need)
    PROVE  /\ new \in Buf /\ Small(new.queue) /\ Bound(new.capacity)
           /\ \E t \in Seq(Value) : Moved(new, t) /\ t # <<>>
  <1>1. BufferTypes /\ rest # <<>>
    BY DEF Inv, Types, Owing, BufferTypes
  <1>2. Need \in Nat \ {0}
    BY <1>1, NeedFacts DEF BufferTypes
  <1>3. Size(queue) \in Nat /\ Room \in Int /\ Free = Room - Size(queue)
    <2>1. Len(queue) * HeaderSize \in Nat /\ Len(Placed(queue)) \in Nat
      <3>1. \A a, c \in Nat : a * c \in Nat
        OBVIOUS
      <3> QED
        BY <1>1, <3>1, PlacedType, LenProperties, FileAssumption DEF BufferTypes
    <2>2. Size(queue) \in Nat
      BY <2>1 DEF Size
    <2> QED
      BY <1>1, <2>2, FileAssumption DEF Free, Room, BufferTypes
  <1> DEFINE n == Free \div Need
  <1>4. Free \in Nat
    BY <1>2, <1>3
  <1>5. n \in Nat /\ n * Need <= Free /\ n # 0
    BY <1>2, <1>4, Division
  <1> HIDE DEF n
  <1>6. Size(queue) + n * Need <= Room
    <2>1. n * Need \in Int
      BY <1>2, <1>5
    <2> QED
      BY <1>3, <1>5, <2>1
  <1>7. Loop(Pushed(n), n)
    BY <1>1, <1>5, <1>6, PushedFacts
  <1>8. new = Pushed(n)
    BY DEF n
  <1> QED
    BY <1>5, <1>7, <1>8 DEF Loop

(* What the I/O thread takes into its chunk. *)
LEMMA FetchFacts ==
    ASSUME Inv, io.pc = "fetch",
           NEW start, start = IF Jumps THEN queue[1].pos ELSE io.cur,
           NEW k, k = Adjacent(start, Len(io.chunk)),
           NEW got, got = Units(SubSeq(queue, 1, k))
    PROVE  /\ start \in Nat /\ k \in 0 .. Len(queue) /\ got \in Seq(Value)
           /\ Placed(SubSeq(queue, 1, k)) = AtPos(got, start)
           /\ io.chunk \o got \in Seq(Value) /\ Len(io.chunk \o got) = Len(io.chunk) + Len(got)
           /\ Len(io.chunk \o got) <= ChunkSize
           /\ Jumps => io.chunk = <<>> /\ io.wantSeek = FALSE /\ got # <<>>
           /\ io.chunk \o got = <<>> => queue = <<>>
  <1>1. /\ queue \in Seq(Piece) /\ Small(queue) /\ io \in IoType /\ Len(io.chunk) <= ChunkSize
        /\ io.chunk \in Seq(Value) /\ Len(io.chunk) \in Nat /\ io.cur \in Nat /\ Len(queue) \in Nat
        /\ io.wantSeek \in BOOLEAN
    BY LenProperties DEF Inv, Types, IoType
  <1>2. queue # <<>> => /\ Len(queue) >= 1 /\ queue[1] \in Piece
                        /\ Len(queue[1].data) <= ChunkSize /\ Len(queue[1].data) \in Nat
    <2> SUFFICES ASSUME queue # <<>>
                 PROVE  /\ Len(queue) >= 1 /\ queue[1] \in Piece
                        /\ Len(queue[1].data) <= ChunkSize /\ Len(queue[1].data) \in Nat
      OBVIOUS
    <2>1. Len(queue) >= 1 /\ 1 \in 1 .. Len(queue)
      BY <1>1, EmptySeq
    <2>2. queue[1] \in Piece
      BY <1>1, <2>1, ElementOfSeq
    <2> QED
      BY <1>1, <2>1, <2>2, LenProperties DEF Small, Piece
  <1>3. start \in Nat
    <2>1. CASE Jumps
      <3>1. queue[1].pos \in Nat
        BY <1>2, <2>1 DEF Jumps, Piece
      <3> QED
        BY <2>1, <3>1
    <2>2. CASE ~Jumps
      BY <1>1, <2>2
    <2> QED
      BY <2>1, <2>2
  <1>4. /\ k \in 0 .. Len(queue)
        /\ \A i \in 1 .. k : queue[i].pos = start + Reach(queue, i - 1)
        /\ k # 0 => Len(io.chunk) + Reach(queue, k) <= ChunkSize
        /\ queue # <<>> /\ queue[1].pos = start /\ Len(io.chunk) + Len(queue[1].data) <= ChunkSize
             => k # 0
    <2>1. start \in Int
      BY <1>3
    <2> QED
      BY <1>1, <2>1, AdjacentFacts
  <1> DEFINE a == SubSeq(queue, 1, k)
  <1>5. a \in Seq(Piece)
    BY <1>1, <1>4, Cut
  <1>6. got \in Seq(Value) /\ Len(got) = Reach(queue, k) /\ Len(got) \in Nat
    BY <1>5, UnitsFacts, LenProperties DEF Reach
  <1>7. Placed(a) = AtPos(got, start)
    <2>1. start \in Int
      BY <1>3
    <2>2. Consecutive(Placed(a), start)
      BY <1>1, <1>4, <2>1, Run
    <2> QED
      BY <1>5, <2>1, <2>2, RunOfUnits
  <1>8. io.chunk \o got \in Seq(Value) /\ Len(io.chunk \o got) = Len(io.chunk) + Len(got)
    BY <1>1, <1>6, ConcatProperties
  <1>9. k = 0 => got = <<>>
    <2> SUFFICES ASSUME k = 0 PROVE got = <<>>
      OBVIOUS
    <2>1. a = <<>>
      BY SubSeqEmpty
    <2>2. Len(got) = 0
      BY <1>6, <2>1, PlacedOfNone, EmptySeq DEF Reach
    <2> QED
      BY <1>6, <2>2, EmptySeq
  <1>10. k # 0 => got # <<>>
    <2> SUFFICES ASSUME k # 0 PROVE got # <<>>
      OBVIOUS
    <2> DEFINE m == k - 1
               x == queue[m + 1]
    <2>1. m \in Nat /\ m < Len(queue) /\ m + 1 = k
      BY <1>1, <1>4
    <2>2. /\ SubSeq(queue, 1, m) \in Seq(Piece) /\ x \in Piece
          /\ Placed(SubSeq(queue, 1, m + 1))
               = Placed(SubSeq(queue, 1, m)) \o AtPos(x.data, x.pos)
      <3> HIDE DEF m
      <3> QED
        BY <1>1, <2>1, PlacedNext
    <2> HIDE DEF x
    <2>3. AtPos(x.data, x.pos) \in Seq(Byte) /\ Len(AtPos(x.data, x.pos)) = Len(x.data)
      BY <2>2, AtPosFacts DEF Piece
    <2>4. Len(x.data) \in Nat \ {0}
      BY <2>2, EmptySeq DEF Piece
    <2>5. /\ Placed(SubSeq(queue, 1, m)) \in Seq(Byte) /\ Len(Placed(SubSeq(queue, 1, m))) \in Nat
      BY <2>2, PlacedType
    <2>6. Len(Placed(a)) = Len(Placed(SubSeq(queue, 1, m))) + Len(x.data)
      <3> HIDE DEF m
      <3>1. Placed(a) = Placed(SubSeq(queue, 1, m)) \o AtPos(x.data, x.pos)
        BY <2>1, <2>2
      <3> DEFINE u == Placed(SubSeq(queue, 1, m))
                 v == AtPos(x.data, x.pos)
      <3>2. u \in Seq(Byte) /\ v \in Seq(Byte) /\ Placed(a) = u \o v /\ Len(v) = Len(x.data)
        BY <2>3, <2>5, <3>1
      <3> HIDE DEF a, u, v
      <3>3. Len(Placed(a)) = Len(u) + Len(v)
        BY <3>2, ConcatProperties
      <3>4. Len(Placed(a)) = Len(u) + Len(x.data)
        BY <3>2, <3>3
      <3> QED
        BY <3>4 DEF u
    <2>7. Len(got) # 0
      <3>1. Len(got) = Len(Placed(a))
        BY <1>6 DEF Reach
      <3>2. \A u, v \in Nat : v # 0 => u + v # 0
        OBVIOUS
      <3> HIDE DEF a, m
      <3> QED
        BY <2>4, <2>5, <2>6, <3>1, <3>2
    <2> QED
      BY <2>7, EmptySeq
  <1>11. Len(io.chunk \o got) <= ChunkSize
    <2>1. CASE k = 0
      <3>1. Len(got) = 0
        BY <1>9, <2>1, EmptySeq
      <3>2. Len(io.chunk \o got) = Len(io.chunk) + 0
        BY <1>8, <3>1
      <3>3. Len(io.chunk) + 0 = Len(io.chunk)
        BY <1>1
      <3> QED
        BY <1>1, <3>2, <3>3
    <2>2. CASE k # 0
      BY <1>1, <1>4, <1>6, <1>8, <2>2
    <2> QED
      BY <2>1, <2>2
  <1>12. queue # <<>> /\ queue[1].pos = start /\ io.chunk = <<>> => k # 0
    <2> SUFFICES ASSUME queue # <<>>, queue[1].pos = start, io.chunk = <<>> PROVE k # 0
      OBVIOUS
    <2>1. Len(io.chunk) + Len(queue[1].data) <= ChunkSize
      <3>1. Len(io.chunk) = 0
        BY EmptySeq
      <3> QED
        BY <1>2, <3>1
    <2> QED
      BY <1>4, <2>1
  <1>13. Jumps => io.chunk = <<>> /\ io.wantSeek = FALSE /\ got # <<>>
    BY <1>1, <1>10, <1>12 DEF Jumps
  <1>14. ASSUME io.chunk \o got = <<>> PROVE queue = <<>>
    <2>1. io.chunk = <<>> /\ got = <<>>
      BY <1>1, <1>6, <1>14, ConcatEqualIffEmpty
    <2>2. io.wantSeek = FALSE
      BY <1>1, <2>1 DEF Inv, InHand
    <2>3. CASE Jumps
      BY <1>13, <2>1, <2>3
    <2>4. CASE ~Jumps
      <3>1. queue # <<>> => queue[1].pos = io.cur
        BY <2>1, <2>2, <2>4 DEF Jumps
      <3>2. start = io.cur
        BY <2>4
      <3> QED
        BY <1>10, <1>12, <2>1, <3>1, <3>2
    <2> QED
      BY <2>3, <2>4
  <1> QED
    BY <1>3, <1>4, <1>6, <1>7, <1>8, <1>11, <1>13, <1>14

-----------------------------------------------------------------------------
(* Each step keeps the invariant. *)
LEMMA WriteKeeps == Inv /\ (\E n \in Sizes : Write(n)) => Inv'
  <1> SUFFICES ASSUME Inv, NEW n \in Sizes, Write(n) PROVE Inv'
    OBVIOUS
  <1>1. n \in Nat \ {0} /\ MaxUnits \in Nat
    BY FileAssumption
  <1>2. used.unit \in 0 .. MaxUnits
    BY DEF Inv, Types
  <1>3. used' \in [unit : 0 .. MaxUnits, seek : 0 .. MaxSeeks, fail : 0 .. MaxFails]
    <2>1. used.unit + n \in 0 .. MaxUnits
      BY <1>1, <1>2 DEF Write
    <2> QED
      BY <2>1 DEF Write, Inv, Types
  <1>4. rest' \in Seq(Value) /\ rest' # <<>>
    <2>1. \A i \in 1 .. n : used.unit + i \in Value
      BY <1>1, <1>2 DEF Write, Value
    <2>2. rest' \in [1 .. n -> Value]
      BY <2>1 DEF Write
    <2>3. rest' \in Seq(Value)
      BY <1>1, <2>2, SeqDef
    <2>4. DOMAIN rest' = 1 .. n /\ 1 \in 1 .. n
      BY <1>1, <2>2
    <2>5. 1 \in 1 .. Len(rest')
      BY <2>3, <2>4, LenProperties
    <2> QED
      BY <2>3, <2>5, EmptySeq
  <1>5. Types'
    BY <1>3, <1>4 DEF Write, Inv, Types, buffer
  <1>6. (Bound(capacity) /\ Small(queue))'
    BY DEF Write, Inv, Bound, Small, buffer
  <1>7. (Owing /\ Closes)'
    BY <1>4 DEF Write, Inv, Owing, Closes
  <1>8. (Ended /\ InHand /\ Placing)'
    BY DEF Write, Inv, Ended, InHand, Placing, FlushPos, buffer
  <1> QED
    BY <1>5, <1>6, <1>7, <1>8 DEF Inv

LEMMA WriteStepKeeps == Inv /\ WriteStep => Inv'
  <1> SUFFICES ASSUME Inv, WriteStep PROVE Inv'
    OBVIOUS
  <1> DEFINE new == Pushed(Free \div Need)
  <1>1. /\ wpc = "write" /\ UNCHANGED <<shutdown, error, io, disk, filePos, used>>
        /\ \/ /\ error /\ wpc' = "idle" /\ rest' = <<>>
              /\ UNCHANGED <<buffer, spaceEvent, dataEvent>>
           \/ /\ ~error /\ Free < Need /\ spaceEvent' = FALSE /\ wpc' = "blocked"
              /\ UNCHANGED <<buffer, rest, dataEvent>>
           \/ /\ ~error /\ Free >= Need
              /\ queue' = new.queue /\ capacity' = new.capacity
              /\ nextPos' = new.pos /\ rest' = new.rest /\ dataEvent' = TRUE
              /\ wpc' = IF new.rest = <<>> THEN "idle" ELSE "write"
              /\ UNCHANGED spaceEvent
    BY Zenon DEF WriteStep, Need
  <1> HIDE DEF new
  <1>2. ~shutdown
    BY <1>1 DEF Inv, Closes, Types
  <1>3. (Ended /\ InHand /\ Placing /\ Closes)'
    <2>1. wpc' \in {"idle", "write", "blocked"}
      BY <1>1
    <2>2. Closes'
      BY <1>1, <1>2, <2>1 DEF Closes
    <2>3. Ended'
      BY <1>1, <1>2 DEF Inv, Ended
    <2> QED
      BY <1>1, <2>2, <2>3 DEF Inv, InHand, Placing, FlushPos
  <1>4. (Types /\ Bound(capacity) /\ Small(queue) /\ Owing)'
    <2>1. CASE /\ error /\ wpc' = "idle" /\ rest' = <<>>
               /\ UNCHANGED <<buffer, spaceEvent, dataEvent>>
      <3>1. <<>> \in Seq(Value)
        BY EmptySeq
      <3> QED
        BY <1>1, <2>1, <3>1 DEF Inv, Types, Bound, Small, Owing, buffer
    <2>2. CASE /\ ~error /\ Free < Need /\ spaceEvent' = FALSE /\ wpc' = "blocked"
               /\ UNCHANGED <<buffer, rest, dataEvent>>
      BY <1>1, <2>2 DEF Inv, Types, Bound, Small, Owing, buffer
    <2>3. CASE /\ ~error /\ Free >= Need
               /\ queue' = new.queue /\ capacity' = new.capacity
               /\ nextPos' = new.pos /\ rest' = new.rest /\ dataEvent' = TRUE
               /\ wpc' = IF new.rest = <<>> THEN "idle" ELSE "write"
               /\ UNCHANGED spaceEvent
      <3>1. new \in Buf /\ Small(new.queue) /\ Bound(new.capacity)
        BY <1>1, <2>3, PushFacts DEF new
      <3>3. Types'
        BY <1>1, <2>3, <3>1 DEF Inv, Types, Buf
      <3>4. (Bound(capacity) /\ Small(queue))'
        BY <2>3, <3>1 DEF Bound, Small
      <3>5. Owing'
        BY <2>3 DEF Owing
      <3> QED
        BY <3>3, <3>4, <3>5
    <2> QED
      BY <1>1, <2>1, <2>2, <2>3
  <1> QED
    BY <1>3, <1>4 DEF Inv

(* The steps that leave the data alone. *)
LEMMA OtherKeeps ==
    Inv /\ (WriteWake \/ (\E p \in Positions : Seek(p)) \/ FreeBegin \/ FreeSignal \/ FreeJoin \/ IoWake)
      => Inv'
  <1>1. ASSUME Inv, WriteWake PROVE Inv'
    <2>1. (Types /\ Bound(capacity) /\ Small(queue))'
      BY <1>1 DEF WriteWake, Inv, Types, Bound, Small, buffer
    <2>2. (Owing /\ Closes)'
      BY <1>1 DEF WriteWake, Inv, Owing, Closes
    <2>3. (Ended /\ InHand /\ Placing)'
      BY <1>1 DEF WriteWake, Inv, Ended, InHand, Placing, FlushPos, buffer
    <2> QED
      BY <2>1, <2>2, <2>3 DEF Inv
  <1>2. ASSUME Inv, NEW p \in Positions, Seek(p) PROVE Inv'
    <2>1. p \in Nat
      BY FileAssumption DEF Positions
    <2>2. used.seek + 1 \in 0 .. MaxSeeks
      BY <1>2, FileAssumption, SMTT(30) DEF Seek, Inv, Types
    <2>3. used' \in [unit : 0 .. MaxUnits, seek : 0 .. MaxSeeks, fail : 0 .. MaxFails]
      BY <1>2, <2>2 DEF Seek, Inv, Types
    <2>4. Types'
      BY <1>2, <2>1, <2>3 DEF Seek, Inv, Types, writer
    <2>5. (Bound(capacity) /\ Small(queue) /\ Owing /\ Closes /\ Ended /\ InHand /\ Placing)'
      BY <1>2 DEF Seek, Inv, Bound, Small, Owing, Closes, Ended, InHand, Placing, FlushPos, writer
    <2> QED
      BY <2>4, <2>5 DEF Inv
  <1>3. Inv /\ FreeBegin => Inv'
    BY DEF FreeBegin, Inv, Types, Bound, Small, Owing, Closes, Ended, InHand, Placing, FlushPos, buffer
  <1>4. Inv /\ FreeSignal => Inv'
    BY DEF FreeSignal, Inv, Types, Bound, Small, Owing, Closes, Ended, InHand, Placing, FlushPos, buffer
  <1>5. Inv /\ FreeJoin => Inv'
    BY DEF FreeJoin, Inv, Types, Bound, Small, Owing, Closes, Ended, InHand, Placing, FlushPos, buffer
  <1>6. ASSUME Inv, IoWake PROVE Inv'
    <2>1. /\ io' \in IoType /\ io'.pc = "fetch" /\ io'.chunk = io.chunk /\ io'.wantSeek = io.wantSeek
          /\ io'.cur = io.cur /\ io'.seekTo = io.seekTo
      BY <1>6 DEF IoWake, Inv, Types, IoType
    <2>2. Types'
      BY <1>6, <2>1 DEF IoWake, Inv, Types, buffer, writer
    <2>3. (Bound(capacity) /\ Small(queue) /\ Owing /\ Closes)'
      BY <1>6 DEF IoWake, Inv, Bound, Small, Owing, Closes, buffer, writer
    <2>4. (Ended /\ InHand /\ Placing)'
      BY <1>6, <2>1 DEF IoWake, Inv, Ended, InHand, Placing, FlushPos, buffer
    <2> QED
      BY <2>2, <2>3, <2>4 DEF Inv
  <1> QED
    BY <1>1, <1>2, <1>3, <1>4, <1>5, <1>6

(* IoFetch, with its local names spelt out. *)
Fetched(start, k, got, chunk, sleep) ==
    /\ start = (IF Jumps THEN queue[1].pos ELSE io.cur)
    /\ k = Adjacent(start, Len(io.chunk))
    /\ got = Units(SubSeq(queue, 1, k)) /\ chunk = io.chunk \o got
    /\ sleep = (~ (k < Len(queue)) /\ Keeps(chunk))
    /\ queue' = SubSeq(queue, k + 1, Len(queue))
    /\ io' = [pc |-> IF ~sleep THEN "flush" ELSE IF shutdown THEN "exit" ELSE "wait",
              chunk |-> chunk, wantSeek |-> io.wantSeek \/ Jumps, cur |-> start + Len(got),
              seekTo |-> IF Jumps THEN start ELSE io.seekTo]
    /\ dataEvent' = IF sleep THEN FALSE ELSE dataEvent

LEMMA FetchSteps ==
    IoFetch => /\ io.pc = "fetch" /\ spaceEvent' = TRUE
               /\ UNCHANGED <<capacity, nextPos, shutdown, error, wpc, rest, disk, filePos, used>>
               /\ \E start, k, got, chunk, sleep : Fetched(start, k, got, chunk, sleep)
  BY ZenonT(40) DEF IoFetch, Fetched, writer

LEMMA FetchKeeps == Inv /\ IoFetch => Inv'
  <1> SUFFICES ASSUME Inv, IoFetch PROVE Inv'
    OBVIOUS
  <1>1. /\ io.pc = "fetch" /\ spaceEvent' = TRUE
        /\ UNCHANGED <<capacity, nextPos, shutdown, error, wpc, rest, disk, filePos, used>>
    BY FetchSteps
  <1>2. PICK start, k, got, chunk, sleep : Fetched(start, k, got, chunk, sleep)
    BY FetchSteps
  <1>3. /\ start \in Nat /\ k \in 0 .. Len(queue) /\ got \in Seq(Value)
        /\ chunk \in Seq(Value) /\ Len(chunk) = Len(io.chunk) + Len(got)
        /\ Len(chunk) <= ChunkSize
        /\ Jumps => io.chunk = <<>> /\ io.wantSeek = FALSE /\ got # <<>>
        /\ chunk = <<>> => queue = <<>>
    BY <1>1, <1>2, FetchFacts, ZenonT(40) DEF Fetched
  <1>4. /\ queue \in Seq(Piece) /\ Small(queue) /\ io \in IoType
        /\ io.chunk \in Seq(Value) /\ Len(io.chunk) \in Nat /\ io.cur \in Nat /\ io.seekTo \in Nat
        /\ Len(queue) \in Nat /\ Len(got) \in Nat /\ filePos \in Nat
        /\ io.wantSeek \in BOOLEAN /\ shutdown \in BOOLEAN /\ dataEvent \in BOOLEAN
    BY <1>3, LenProperties DEF Inv, Types, IoType
  <1>5. ~error
    BY <1>1 DEF Inv, Ended
  <1>6. FlushPos + Len(io.chunk) = io.cur
    BY <1>5 DEF Inv, Placing
  <1>7. sleep \in BOOLEAN /\ Jumps \in BOOLEAN
    BY <1>2, <1>4 DEF Fetched, Jumps
  <1>8. /\ io'.pc = (IF ~sleep THEN "flush" ELSE IF shutdown THEN "exit" ELSE "wait")
        /\ io'.chunk = chunk /\ io'.wantSeek = (io.wantSeek \/ Jumps)
        /\ io'.cur = start + Len(got) /\ io'.seekTo = (IF Jumps THEN start ELSE io.seekTo)
        /\ io' \in IoType
    <2>1. start + Len(got) \in Nat
      BY <1>3, <1>4
    <2>2. (IF Jumps THEN start ELSE io.seekTo) \in Nat /\ (io.wantSeek \/ Jumps) \in BOOLEAN
      BY <1>3, <1>4, <1>7
    <2>3. (IF ~sleep THEN "flush" ELSE IF shutdown THEN "exit" ELSE "wait")
             \in {"wait", "fetch", "flush", "exit"}
      OBVIOUS
    <2> QED
      BY <1>2, <1>3, <2>1, <2>2, <2>3 DEF Fetched, IoType
  <1>9. queue' \in Seq(Piece) /\ Small(queue')
    <2>1. /\ queue' \in Seq(Piece) /\ Len(queue') = Len(queue) - k
          /\ \A i \in 1 .. Len(queue) - k : queue'[i] = queue[k + i]
      BY <1>2, <1>3, <1>4, Cut, SMTT(30) DEF Fetched
    <2>2. \A i \in 1 .. Len(queue) - k : k + i \in 1 .. Len(queue)
      BY <1>3, <1>4
    <2> QED
      BY <1>4, <2>1, <2>2 DEF Small
  <1>10. Types'
    <2>1. dataEvent' \in BOOLEAN
      BY <1>2, <1>4 DEF Fetched
    <2> QED
      BY <1>1, <1>3, <1>8, <1>9, <2>1 DEF Inv, Types
  <1>11. (Bound(capacity) /\ Small(queue) /\ Owing /\ Closes)'
    BY <1>1, <1>9 DEF Inv, Bound, Owing, Closes, Small
  <1>12. InHand'
    <2>1. CASE chunk = <<>>
      <3>1. queue = <<>> /\ got = <<>> /\ io.chunk = <<>>
        <4>1. chunk = io.chunk \o got
          BY <1>2 DEF Fetched
        <4> QED
          BY <1>3, <1>4, <2>1, <4>1, ConcatEqualIffEmpty
      <3>2. ~Jumps /\ io.wantSeek = FALSE
        BY <1>3, <1>4, <3>1 DEF Inv, InHand
      <3>3. sleep
        <4>1. Len(queue) = 0 /\ k = 0
          BY <1>3, <3>1, EmptySeq
        <4>2. Keeps(chunk) /\ ~ (k < Len(queue))
          BY <2>1, <4>1 DEF Keeps
        <4> QED
          BY <1>2, <4>2, Zenon DEF Fetched
      <3> QED
        BY <1>8, <3>2, <3>3 DEF InHand
    <2>2. CASE chunk # <<>>
      BY <1>8, <2>2 DEF InHand
    <2> QED
      BY <2>1, <2>2
  <1>13. Ended'
    <2>1. ASSUME io'.pc = "exit" PROVE shutdown /\ queue' = <<>> /\ chunk = <<>>
      <3>1. sleep /\ shutdown
        BY <1>7, <1>8, <2>1
      <3>2. ~ (k < Len(queue)) /\ chunk = <<>>
        BY <1>2, <3>1 DEF Fetched, Keeps
      <3>3. k + 1 \in Int /\ Len(queue) < k + 1 /\ Len(queue) \in Int
        BY <1>3, <1>4, <3>2
      <3>4. queue' = <<>>
        BY <1>2, <3>3, SubSeqEmpty DEF Fetched
      <3> QED
        BY <3>1, <3>2, <3>4
    <2> QED
      BY <1>1, <1>5, <1>8, <2>1 DEF Ended
  <1>14. Placing'
    <2>1. FlushPos' + Len(chunk) = start + Len(got)
      <3>1. CASE Jumps
        <4>1. FlushPos' = start
          BY <1>8, <3>1 DEF FlushPos
        <4>2. Len(chunk) = Len(got)
          BY <1>3, <1>4, <3>1, EmptySeq
        <4> QED
          BY <4>1, <4>2
      <3>2. CASE ~Jumps
        <4>1. FlushPos' = FlushPos /\ FlushPos \in Nat
          BY <1>1, <1>4, <1>8, <3>2 DEF FlushPos
        <4>2. start = io.cur
          BY <1>2, <3>2 DEF Fetched
        <4>3. Len(chunk) = Len(io.chunk) + Len(got)
          BY <1>3
        <4>4. FlushPos' + Len(chunk) = (FlushPos + Len(io.chunk)) + Len(got)
          BY <1>4, <4>1, <4>3
        <4> QED
          BY <1>6, <4>2, <4>4
      <3> QED
        BY <3>1, <3>2
    <2> QED
      BY <1>8, <2>1 DEF Placing
  <1> QED
    BY <1>10, <1>11, <1>12, <1>13, <1>14 DEF Inv

LEMMA StoredType ==
    ASSUME Inv, NEW n \in 0 .. Len(io.chunk)
    PROVE  Stored(n) \in [Positions -> 0 .. MaxUnits]
  <1>1. /\ io.chunk \in Seq(Value) /\ Len(io.chunk) \in Nat /\ FlushPos \in Nat /\ MaxUnits \in Nat
        /\ disk \in [Positions -> 0 .. MaxUnits]
        /\ \A p \in Positions : p \in Int
    BY LenProperties, FileAssumption DEF Inv, Types, IoType, FlushPos, Positions
  <1>2. ASSUME NEW p \in Positions, p - FlushPos \in 0 .. n - 1
        PROVE  io.chunk[p - FlushPos + 1] \in 0 .. MaxUnits
    <2>1. p - FlushPos + 1 \in 1 .. Len(io.chunk)
      BY <1>1, <1>2
    <2>2. io.chunk[p - FlushPos + 1] \in Value
      BY <1>1, <2>1, ElementOfSeq
    <2> QED
      BY <1>1, <2>2 DEF Value
  <1> QED
    BY <1>1, <1>2 DEF Stored

LEMMA FlushKeeps == Inv /\ IoFlush => Inv'
  <1> SUFFICES ASSUME Inv, IoFlush PROVE Inv'
    OBVIOUS
  <1>1. /\ io \in IoType /\ io.chunk \in Seq(Value) /\ Len(io.chunk) \in Nat /\ io.cur \in Nat
        /\ io.seekTo \in Nat /\ FlushPos \in Nat /\ <<>> \in Seq(Value) /\ Len(<<>>) = 0
        /\ ChunkSize \in Nat /\ io.pc = "flush"
    BY LenProperties, EmptySeq, FileAssumption DEF Inv, Types, IoType, FlushPos, IoFlush
  <1>2. ~error /\ FlushPos + Len(io.chunk) = io.cur
    BY <1>1 DEF Inv, Ended, Placing
  <1>3. /\ io'.pc = "fetch" /\ io'.chunk = <<>> /\ io'.wantSeek = FALSE
        /\ io'.cur = io.cur /\ io'.seekTo = io.seekTo /\ io' \in IoType
    <2>1. (IF io.wantSeek THEN io.seekTo + Len(io.chunk) ELSE io.cur) = io.cur
      BY <1>2 DEF FlushPos
    <2> QED
      BY <1>1, <2>1 DEF IoFlush, IoType
  <1>4. filePos' = io.cur /\ disk' \in [Positions -> 0 .. MaxUnits]
    <2>1. Len(io.chunk) \in 0 .. Len(io.chunk)
      BY <1>1
    <2> QED
      BY <1>2, <2>1, StoredType DEF IoFlush
  <1>5. UNCHANGED <<buffer, spaceEvent, dataEvent, shutdown, error, writer, used>>
    BY DEF IoFlush
  <1>6. Types'
    <2>1. Len(io'.chunk) <= ChunkSize
      BY <1>1, <1>3
    <2> QED
      BY <1>1, <1>3, <1>4, <1>5, <2>1 DEF Inv, Types, buffer, writer
  <1>7. (Bound(capacity) /\ Small(queue) /\ Owing /\ Closes)'
    BY <1>5 DEF Inv, Bound, Small, Owing, Closes, buffer, writer
  <1>8. (Ended /\ InHand)'
    BY <1>2, <1>3, <1>5 DEF Ended, InHand
  <1>9. Placing'
    <2>1. FlushPos' + Len(io'.chunk) = io'.cur
      BY <1>1, <1>3, <1>4 DEF FlushPos
    <2> QED
      BY <2>1 DEF Placing
  <1> QED
    BY <1>6, <1>7, <1>8, <1>9 DEF Inv

LEMMA FailKeeps == Inv /\ IoFail => Inv'
  <1> SUFFICES ASSUME Inv, IoFail PROVE Inv'
    OBVIOUS
  <1>1. /\ io \in IoType /\ io.chunk \in Seq(Value) /\ Len(io.chunk) \in Nat
        /\ FlushPos \in Nat /\ io.pc = "flush"
    BY LenProperties DEF Inv, Types, IoType, FlushPos, IoFail
  <1>2. PICK n \in 0 .. Len(io.chunk) - 1 : disk' = Stored(n) /\ filePos' = FlushPos + n
    BY DEF IoFail
  <1>3. disk' \in [Positions -> 0 .. MaxUnits] /\ filePos' \in Nat
    <2>1. n \in 0 .. Len(io.chunk) /\ n \in Nat
      BY <1>1
    <2> QED
      BY <1>1, <1>2, <2>1, StoredType
  <1>4. /\ io'.pc = "exit" /\ io'.chunk = io.chunk /\ io'.wantSeek = io.wantSeek /\ io' \in IoType
        /\ io'.cur = io.cur /\ error'
    BY <1>1 DEF IoFail, IoType
  <1>5. used' \in [unit : 0 .. MaxUnits, seek : 0 .. MaxSeeks, fail : 0 .. MaxFails]
    <2>1. used.fail + 1 \in 0 .. MaxFails
      <3>1. used.fail \in 0 .. MaxFails /\ MaxFails \in Nat
        BY FileAssumption DEF Inv, Types
      <3>2. used.fail < MaxFails
        BY DEF IoFail
      <3> QED
        BY <3>1, <3>2
    <2> QED
      BY <2>1 DEF IoFail, Inv, Types
  <1>6. UNCHANGED <<buffer, spaceEvent, dataEvent, shutdown, writer>> /\ error' = TRUE
    BY DEF IoFail
  <1>7. Types'
    BY <1>3, <1>4, <1>5, <1>6 DEF Inv, Types, buffer, writer
  <1>8. (Bound(capacity) /\ Small(queue) /\ Owing /\ Closes)'
    BY <1>6 DEF Inv, Bound, Small, Owing, Closes, buffer, writer
  <1>9. (Ended /\ InHand /\ Placing)'
    BY <1>1, <1>4 DEF Inv, Ended, InHand, Placing
  <1> QED
    BY <1>7, <1>8, <1>9 DEF Inv

LEMMA NextKeeps == Inv /\ [Next]_vars => Inv'
  <1> SUFFICES ASSUME Inv, [Next]_vars PROVE Inv'
    OBVIOUS
  <1>1. CASE UNCHANGED vars
    <2>1. (Types /\ Bound(capacity) /\ Small(queue))'
      BY <1>1 DEF vars, buffer, writer, Inv, Types, Bound, Small
    <2>2. (Owing /\ Closes /\ Ended /\ InHand /\ Placing)'
      BY <1>1 DEF vars, buffer, writer, Inv, Owing, Closes, Ended, InHand, Placing, FlushPos
    <2> QED
      BY <2>1, <2>2 DEF Inv
  <1>2. CASE Next
    <2>1. \/ \E n \in Sizes : Write(n)
          \/ WriteStep
          \/ \/ WriteWake \/ (\E p \in Positions : Seek(p)) \/ FreeBegin \/ FreeSignal \/ FreeJoin
             \/ IoWake
          \/ IoFetch \/ IoFlush \/ IoFail
      BY <1>2, Zenon DEF Next, WriterSteps, IoSteps
    <2> QED
      BY <2>1, WriteKeeps, WriteStepKeeps, OtherKeeps, FetchKeeps, FlushKeeps, FailKeeps
  <1> QED
    BY <1>1, <1>2

(* buffered-file-serializer.c, all of it: whatever the writer and the I/O    *)
(* thread do, as long as no write to the file has failed the chunk in hand   *)
(* is for the place where the file is or will be sought to, and a thread     *)
(* that has ended left nothing behind.                                       *)
THEOREM Invariant == Spec => []Inv
  <1>1. Inv /\ [Next]_vars => Inv'
    BY NextKeeps
  <1> QED
    BY InitInv, <1>1, PTL DEF Spec

(* buffered_file_serializer: every variable keeps its type, and the chunk of *)
(* the I/O thread never exceeds the memory allocated for it, whatever the    *)
(* sizes of the writes, of the chunk and of the buffer.                      *)
THEOREM TypesKept == Spec => []TypeOK
  <1>1. Inv => TypeOK
    BY TypesOf DEF Inv
  <1> QED
    BY Invariant, <1>1, PTL

(* file_output_write, deque_ensure_capacity: the buffer that doubles when it *)
(* grows, and whose room is computed from its capacity, stays below twice    *)
(* buffer_size, or at the capacity it started with.                          *)
THEOREM BufferStaysBounded == Spec => []BufferBounded
  <1>1. Inv => BufferBounded
    BY DEF Inv, Bound, BufferBounded
  <1> QED
    BY Invariant, <1>1, PTL

-----------------------------------------------------------------------------
(* The buffer and the thread together are an ordered file. *)
Base == io.cur - Len(io.chunk)

LEMMA BufferedFacts ==
    ASSUME Types
    PROVE  /\ Base \in Int /\ io.chunk \in Seq(Value) /\ Len(io.chunk) \in Nat
           /\ AtPos(io.chunk, Base) \in Seq(Byte) /\ Len(AtPos(io.chunk, Base)) = Len(io.chunk)
           /\ Placed(queue) \in Seq(Byte) /\ Len(Placed(queue)) \in Nat
           /\ Buffered \in Seq(Byte) /\ Len(Buffered) = Len(io.chunk) + Len(Placed(queue))
           /\ Buffered = AtPos(io.chunk, Base) \o Placed(queue)
  <1>1. io.chunk \in Seq(Value) /\ Len(io.chunk) \in Nat /\ io.cur \in Nat /\ queue \in Seq(Piece)
    BY LenProperties DEF Types, IoType
  <1>2. Base \in Int
    BY <1>1 DEF Base
  <1>3. AtPos(io.chunk, Base) \in Seq(Byte) /\ Len(AtPos(io.chunk, Base)) = Len(io.chunk)
    BY <1>1, <1>2, AtPosFacts
  <1>4. Placed(queue) \in Seq(Byte) /\ Len(Placed(queue)) \in Nat
    BY <1>1, PlacedType
  <1>5. Buffered = AtPos(io.chunk, Base) \o Placed(queue)
    BY DEF Buffered, Base
  <1> DEFINE a == AtPos(io.chunk, Base)
             b == Placed(queue)
  <1>6. a \in Seq(Byte) /\ b \in Seq(Byte) /\ Len(a) = Len(io.chunk) /\ Buffered = a \o b
    BY <1>3, <1>4, <1>5
  <1> HIDE DEF a, b
  <1>7. Buffered \in Seq(Byte) /\ Len(Buffered) = Len(a) + Len(b)
    BY <1>6, ConcatProperties
  <1>8. Buffered \in Seq(Byte) /\ Len(Buffered) = Len(io.chunk) + Len(b)
    BY <1>6, <1>7
  <1> QED
    BY <1>1, <1>2, <1>3, <1>4, <1>5, <1>8 DEF b

(* What is first in the buffer is what is first in the chunk. *)
LEMMA BufferedPrefix ==
    ASSUME Types, NEW n \in 0 .. Len(io.chunk)
    PROVE  /\ SubSeq(Buffered, 1, n) = AtPos(SubSeq(io.chunk, 1, n), Base)
           /\ SubSeq(io.chunk, 1, n) \in Seq(Value) /\ Len(SubSeq(io.chunk, 1, n)) = n
           /\ \A i \in 1 .. n : SubSeq(io.chunk, 1, n)[i] = io.chunk[i]
  <1> DEFINE a == AtPos(io.chunk, Base)
             b == Placed(queue)
             u == SubSeq(io.chunk, 1, n)
             l == SubSeq(Buffered, 1, n)
             r == AtPos(u, Base)
  <1>1. /\ Base \in Int /\ io.chunk \in Seq(Value) /\ Len(io.chunk) \in Nat
        /\ a \in Seq(Byte) /\ Len(a) = Len(io.chunk) /\ b \in Seq(Byte) /\ Len(b) \in Nat
        /\ Buffered \in Seq(Byte) /\ Len(Buffered) = Len(io.chunk) + Len(b)
        /\ Buffered = a \o b
    BY BufferedFacts
  <1>2. u \in Seq(Value) /\ Len(u) = n /\ \A i \in 1 .. n : u[i] = io.chunk[i]
    BY <1>1, Cut
  <1>3. n \in 0 .. Len(Buffered) /\ n \in Nat
    BY <1>1
  <1>4. l \in Seq(Byte) /\ Len(l) = n /\ \A i \in 1 .. n : l[i] = Buffered[i]
    BY <1>1, <1>3, Cut
  <1>5. /\ r \in Seq(Byte) /\ Len(r) = n
        /\ \A i \in 1 .. n : r[i] = [pos |-> Base + i - 1, byte |-> u[i]]
    BY <1>1, <1>2, AtPosFacts
  <1>6. \A i \in 1 .. Len(io.chunk) : a[i] = [pos |-> Base + i - 1, byte |-> io.chunk[i]]
    BY <1>1, AtPosFacts
  <1> HIDE DEF a, b, u, l, r
  <1>7. \A i \in 1 .. Len(a) + Len(b) : (a \o b)[i] = IF i <= Len(a) THEN a[i] ELSE b[i - Len(a)]
    BY <1>1, ConcatProperties
  <1>8. ASSUME NEW i \in 1 .. n PROVE l[i] = r[i]
    <2>1. i \in 1 .. Len(a) + Len(b) /\ i <= Len(a) /\ i \in 1 .. Len(io.chunk)
      BY <1>1, <1>3
    <2>2. l[i] = a[i]
      BY <1>1, <1>4, <1>7, <2>1
    <2> QED
      BY <1>2, <1>5, <1>6, <2>1, <2>2
  <1>9. l = r
    BY <1>4, <1>5, <1>8, SeqEqual
  <1> QED
    BY <1>2, <1>9 DEF l, r, u

(* Putting a run of units into a file, one by one. *)
LEMMA PutRun ==
    ASSUME NEW u \in Seq(Value), NEW b \in Int, NEW f, DOMAIN f = Positions
    PROVE  Abstract!Put(f, AtPos(u, b))
             = [p \in Positions |-> IF p - b \in 0 .. Len(u) - 1 THEN u[p - b + 1] ELSE f[p]]
  <1> DEFINE s == AtPos(u, b)
  <1>1. /\ s \in Seq(Byte) /\ Len(s) = Len(u) /\ Len(u) \in Nat /\ DOMAIN s = 1 .. Len(u)
        /\ \A i \in 1 .. Len(u) : s[i] = [pos |-> b + i - 1, byte |-> u[i]]
    BY AtPosFacts, LenProperties
  <1> HIDE DEF s
  <1>2. \A i \in 1 .. Len(u) : s[i].pos = b + i - 1 /\ s[i].byte = u[i]
    <2> SUFFICES ASSUME NEW i \in 1 .. Len(u) PROVE s[i].pos = b + i - 1 /\ s[i].byte = u[i]
      OBVIOUS
    <2> DEFINE y == s[i]
    <2>1. y = [pos |-> b + i - 1, byte |-> u[i]]
      BY <1>1
    <2> HIDE DEF y
    <2>2. y.pos = b + i - 1 /\ y.byte = u[i]
      BY <2>1
    <2> QED
      BY <2>2 DEF y
  <1>3. \A p \in Positions : p \in Int
    BY FileAssumption DEF Positions
  <1>4. ASSUME NEW p \in Positions
        PROVE  (IF \E i \in DOMAIN s : s[i].pos = p THEN s[Abstract!Last(s, p)].byte ELSE f[p])
                 = IF p - b \in 0 .. Len(u) - 1 THEN u[p - b + 1] ELSE f[p]
    <2>1. CASE p - b \in 0 .. Len(u) - 1
      <3> DEFINE i == p - b + 1
      <3>1. i \in 1 .. Len(u) /\ b + i - 1 = p
        BY <1>1, <1>3, <2>1
      <3> HIDE DEF i
      <3>2. s[i].pos = p /\ \A j \in 1 .. Len(u) : s[j].pos = p => j = i
        <4>1. \A j \in 1 .. Len(u) : b + j - 1 = b + i - 1 => j = i
          BY <1>1, <3>1
        <4> QED
          BY <1>2, <3>1, <4>1
      <3>3. i \in DOMAIN s /\ s[i].pos = p /\ \A j \in DOMAIN s : s[j].pos = p => j <= i
        BY <1>1, <3>1, <3>2
      <3>4. Abstract!Last(s, p) = i
        <4>1. /\ Abstract!Last(s, p) \in DOMAIN s
              /\ s[Abstract!Last(s, p)].pos = p
          BY <3>3 DEF Abstract!Last
        <4> QED
          BY <1>1, <3>2, <4>1
      <3>5. s[i].byte = u[p - b + 1]
        BY <1>2, <3>1 DEF i
      <3> QED
        BY <2>1, <3>3, <3>4, <3>5
    <2>2. CASE p - b \notin 0 .. Len(u) - 1
      <3>1. ASSUME NEW i \in DOMAIN s, s[i].pos = p PROVE FALSE
        <4>1. i \in 1 .. Len(u) /\ p = b + i - 1
          BY <1>1, <1>2, <3>1
        <4>2. p - b = i - 1 /\ i - 1 \in 0 .. Len(u) - 1
          BY <1>1, <4>1
        <4> QED
          BY <2>2, <4>2
      <3> QED
        BY <2>2, <3>1
    <2> QED
      BY <2>1, <2>2
  <1>5. Abstract!Put(f, s)
          = [p \in Positions |-> IF \E i \in DOMAIN s : s[i].pos = p
                                  THEN s[Abstract!Last(s, p)].byte ELSE f[p]]
    BY DEF Abstract!Put
  <1> QED
    BY <1>4, <1>5 DEF s

LEMMA InitMaps == Init => Abstract!Init
  <1> SUFFICES ASSUME Init PROVE Abstract!Init
    OBVIOUS
  <1>1. Buffered = <<>>
    <2>1. Buffered = AtPos(<<>>, io.cur - Len(io.chunk)) \o Placed(<<>>)
      BY DEF Init, Buffered
    <2>2. <<>> \in Seq(Byte)
      BY EmptySeq
    <2>3. <<>> \o <<>> = <<>>
      BY <2>2, ConcatEmptySeq
    <2> QED
      BY <2>1, <2>3, AtPosOfNone, PlacedOfNone
  <1> QED
    BY <1>1 DEF Init, Abstract!Init

(* The writer pushes: the abstract file accepts that much. *)
LEMMA PushMaps ==
    ASSUME Inv, wpc = "write", ~error, Free >= Need, NEW new, new = Pushed(Free \div Need),
           queue' = new.queue, nextPos' = new.pos, rest' = new.rest,
           wpc' \in {"idle", "write"}, UNCHANGED <<disk, error, io>>
    PROVE  Abstract!Accept
  <1>1. PICK t \in Seq(Value) : Moved(new, t) /\ t # <<>>
    BY PushFacts
  <1>2. new \in Buf /\ new.rest \in Seq(Value) /\ new.queue \in Seq(Piece)
    BY PushFacts DEF Buf
  <1>3. rest \in Seq(Value) /\ nextPos \in Nat
    BY DEF Inv, Types
  <1> DEFINE n == Len(t)
             r == new.rest
  <1>4. n \in Nat \ {0} /\ Len(r) \in Nat /\ r \in Seq(Value)
    BY <1>1, <1>2, EmptySeq, LenProperties
  <1>5. /\ rest = t \o r /\ Len(rest) = n + Len(r)
        /\ \A i \in 1 .. n + Len(r) : rest[i] = IF i <= n THEN t[i] ELSE r[i - n]
    BY <1>1, <1>2, ConcatProperties DEF Moved
  <1>6. n \in 1 .. Len(rest) /\ n \in 0 .. Len(rest)
    BY <1>4, <1>5
  <1> HIDE DEF n, r
  <1>7. rest' = SubSeq(rest, n + 1, Len(rest))
    <2> DEFINE s == SubSeq(rest, n + 1, Len(rest))
    <2>1. /\ s \in Seq(Value) /\ Len(s) = Len(rest) - n
          /\ \A i \in 1 .. Len(rest) - n : s[i] = rest[n + i]
      BY <1>3, <1>6, Cut
    <2> HIDE DEF s
    <2>2. Len(s) = Len(r)
      BY <1>4, <1>5, <2>1
    <2>3. ASSUME NEW i \in 1 .. Len(s) PROVE s[i] = r[i]
      <3>1. n + i \in 1 .. n + Len(r) /\ ~ (n + i <= n) /\ (n + i) - n = i /\ i \in 1 .. Len(rest) - n
        BY <1>4, <1>5, <2>2, <2>3
      <3>2. rest[n + i] = r[(n + i) - n]
        BY <1>5, <3>1
      <3> QED
        BY <2>1, <3>1, <3>2
    <2>4. s = r
      BY <1>4, <2>1, <2>2, <2>3, SeqEqual
    <2> QED
      BY <2>4 DEF s, r
  <1>8. nextPos' = nextPos + n
    BY <1>1 DEF Moved, n
  <1>9. Buffered' = Buffered \o [i \in 1 .. n |-> [pos |-> nextPos + i - 1, byte |-> rest[i]]]
    <2> DEFINE a == AtPos(io.chunk, Base)
               b == Placed(queue)
               c == AtPos(t, nextPos)
    <2>1. a \in Seq(Byte) /\ b \in Seq(Byte) /\ Buffered = a \o b
      BY BufferedFacts DEF Inv
    <2>2. c \in Seq(Byte)
      BY <1>3, AtPosFacts
    <2>3. Buffered' = a \o Placed(new.queue)
      BY DEF Buffered, Base
    <2>4. Placed(new.queue) = b \o c
      BY <1>1 DEF Moved
    <2>5. c = [i \in 1 .. n |-> [pos |-> nextPos + i - 1, byte |-> rest[i]]]
      <3>1. \A i \in 1 .. n : rest[i] = t[i]
        BY <1>4, <1>5
      <3> QED
        BY <3>1 DEF AtPos, n
    <2> HIDE DEF a, b, c
    <2>6. a \o (b \o c) = (a \o b) \o c
      <3>1. \A x, y, w \in Seq(Byte) : (x \o y) \o w = x \o (y \o w)
        BY ConcatAssociative
      <3> QED
        BY <2>1, <2>2, <3>1, Zenon
    <2> QED
      BY <2>1, <2>3, <2>4, <2>5, <2>6
  <1>10. UNCHANGED <<disk, (wpc # "closed"), error>>
    OBVIOUS
  <1> QED
    BY <1>6, <1>7, <1>8, <1>9, <1>10 DEF Abstract!Accept

LEMMA BufferedSame ==
    ASSUME UNCHANGED <<queue, io>>
    PROVE  Buffered' = Buffered
  BY DEF Buffered

(* The I/O thread moves pieces into its chunk: the abstract file stutters. *)
LEMMA FetchMaps ==
    ASSUME Inv, IoFetch
    PROVE  Buffered' = Buffered
  <1>1. io.pc = "fetch"
    BY FetchSteps
  <1>2. PICK start, k, got, chunk, sleep : Fetched(start, k, got, chunk, sleep)
    BY FetchSteps
  <1>3. /\ start \in Nat /\ k \in 0 .. Len(queue) /\ got \in Seq(Value)
        /\ Placed(SubSeq(queue, 1, k)) = AtPos(got, start)
        /\ chunk \in Seq(Value) /\ Len(chunk) = Len(io.chunk) + Len(got)
        /\ Jumps => io.chunk = <<>>
    BY <1>1, <1>2, FetchFacts, ZenonT(40) DEF Fetched
  <1>4. /\ queue \in Seq(Piece) /\ io.chunk \in Seq(Value) /\ Len(io.chunk) \in Nat /\ io.cur \in Nat
        /\ Len(got) \in Nat
    BY <1>3, LenProperties DEF Inv, Types, IoType
  <1>5. chunk = io.chunk \o got /\ queue' = SubSeq(queue, k + 1, Len(queue))
        /\ io'.chunk = chunk /\ io'.cur = start + Len(got)
    BY <1>2 DEF Fetched
  <1> DEFINE a == AtPos(io.chunk, Base)
             b == AtPos(got, start)
             c == Placed(SubSeq(queue, k + 1, Len(queue)))
             q == SubSeq(queue, k + 1, Len(queue))
  <1>6. q \in Seq(Piece)
    BY <1>3, <1>4, Cut
  <1>7. a \in Seq(Byte) /\ b \in Seq(Byte) /\ c \in Seq(Byte)
    <2>1. a \in Seq(Byte)
      BY BufferedFacts DEF Inv
    <2>2. start \in Int
      BY <1>3
    <2>3. b \in Seq(Byte)
      BY <1>3, <2>2, AtPosFacts
    <2> QED
      BY <1>6, <2>1, <2>3, PlacedType
  <1>8. Placed(queue) = b \o c
    BY <1>3, <1>4, PlacedSplit
  <1>9. Buffered = a \o (b \o c)
    BY <1>8 DEF Buffered, Base
  <1>10. AtPos(chunk, start - Len(io.chunk)) = a \o b
    <2>1. CASE io.chunk = <<>>
      <3>1. chunk = got /\ start - Len(io.chunk) = start
        BY <1>3, <1>4, <1>5, <2>1, ConcatEmptySeq, EmptySeq
      <3>2. a = <<>>
        BY <2>1, AtPosOfNone
      <3>3. <<>> \o b = b
        BY <1>7, ConcatEmptySeq
      <3> HIDE DEF a
      <3> QED
        BY <3>1, <3>2, <3>3
    <2>2. CASE io.chunk # <<>>
      <3>1. start = io.cur
        BY <1>2, <1>3, <2>2 DEF Fetched
      <3>2. start - Len(io.chunk) = Base /\ Base + Len(io.chunk) = start /\ Base \in Int
        BY <1>4, <3>1 DEF Base
      <3>3. AtPos(io.chunk \o got, Base) = AtPos(io.chunk, Base) \o AtPos(got, Base + Len(io.chunk))
        BY <1>3, <1>4, <3>2, AtPosConcat
      <3> QED
        BY <1>5, <3>2, <3>3
    <2> QED
      BY <2>1, <2>2
  <1>11. Buffered' = (a \o b) \o c
    <2>1. io'.cur - Len(io'.chunk) = start - Len(io.chunk)
      <3>1. io'.cur = start + Len(got) /\ Len(io'.chunk) = Len(io.chunk) + Len(got)
        BY <1>3, <1>5
      <3>2. \A x, y, w \in Nat : (x + w) - (y + w) = x - y
        OBVIOUS
      <3> QED
        BY <1>3, <1>4, <3>1, <3>2
    <2>2. Buffered' = AtPos(chunk, start - Len(io.chunk)) \o Placed(queue')
      BY <1>5, <2>1 DEF Buffered
    <2> QED
      BY <1>5, <1>10, <2>2
  <1>12. (a \o b) \o c = a \o (b \o c)
    <2> HIDE DEF a, b, c
    <2>1. \A x, y, w \in Seq(Byte) : (x \o y) \o w = x \o (y \o w)
      BY ConcatAssociative
    <2> QED
      BY <1>7, <2>1, Zenon
  <1> QED
    BY <1>9, <1>11, <1>12

(* The chunk is written: the abstract file commits that much. *)
LEMMA StoredIsPut ==
    ASSUME Inv, ~error, NEW n \in 0 .. Len(io.chunk)
    PROVE  Stored(n) = Abstract!Put(disk, SubSeq(Buffered, 1, n)) /\ n \in 0 .. Len(Buffered)
  <1>1. /\ io.chunk \in Seq(Value) /\ Len(io.chunk) \in Nat /\ io.cur \in Nat /\ FlushPos \in Nat
        /\ DOMAIN disk = Positions
    BY LenProperties DEF Inv, Types, IoType, FlushPos
  <1>2. FlushPos = Base /\ Base \in Int
    BY <1>1 DEF Inv, Placing, Base
  <1> DEFINE u == SubSeq(io.chunk, 1, n)
  <1>3. /\ SubSeq(Buffered, 1, n) = AtPos(u, Base) /\ u \in Seq(Value) /\ Len(u) = n
        /\ \A i \in 1 .. n : u[i] = io.chunk[i]
    BY BufferedPrefix DEF Inv
  <1> HIDE DEF u
  <1>4. Abstract!Put(disk, AtPos(u, Base))
          = [p \in Positions |-> IF p - Base \in 0 .. n - 1 THEN u[p - Base + 1] ELSE disk[p]]
    BY <1>1, <1>2, <1>3, PutRun
  <1>5. \A p \in Positions : p - Base \in 0 .. n - 1 => u[p - Base + 1] = io.chunk[p - Base + 1]
    <2> SUFFICES ASSUME NEW p \in Positions, p - Base \in 0 .. n - 1
                 PROVE  u[p - Base + 1] = io.chunk[p - Base + 1]
      OBVIOUS
    <2>1. p \in Int /\ n \in Nat
      BY <1>1, FileAssumption DEF Positions
    <2>2. p - Base + 1 \in 1 .. n
      BY <1>2, <2>1
    <2> QED
      BY <1>3, <2>2
  <1>6. Stored(n) = [p \in Positions |-> IF p - Base \in 0 .. n - 1 THEN u[p - Base + 1] ELSE disk[p]]
    BY <1>2, <1>5 DEF Stored
  <1>7. n \in 0 .. Len(Buffered)
    <2>1. Len(Buffered) = Len(io.chunk) + Len(Placed(queue)) /\ Len(Placed(queue)) \in Nat
      BY BufferedFacts DEF Inv
    <2> QED
      BY <1>1, <2>1
  <1> QED
    BY <1>3, <1>4, <1>6, <1>7

(* Every step is one of the abstract file, or leaves it as it is. *)
Mapped == <<disk, rest, nextPos, Buffered, wpc # "closed", error>>

LEMMA StepMaps == Inv /\ [Next]_vars => [Abstract!Next]_Mapped
  <1> SUFFICES ASSUME Inv, [Next]_vars PROVE Abstract!Next \/ UNCHANGED Mapped
    OBVIOUS
  <1>1. CASE UNCHANGED vars
    <2>1. Buffered' = Buffered
      BY <1>1, BufferedSame DEF vars, buffer
    <2> QED
      BY <1>1, <2>1 DEF vars, buffer, writer, Mapped
  <1>2. ASSUME NEW n \in Sizes, Write(n) PROVE Abstract!Next
    <2>1. n \in Nat \ {0} /\ rest = <<>>
      BY <1>2, FileAssumption DEF Write, Inv, Owing
    <2>2. rest' # <<>>
      <3>1. DOMAIN rest' = 1 .. n /\ 1 \in 1 .. n
        BY <1>2, <2>1 DEF Write
      <3>2. DOMAIN <<>> = 1 .. 0
        BY EmptySeq, LenProperties
      <3>3. 1 \notin 1 .. 0
        OBVIOUS
      <3> QED
        BY <3>1, <3>2, <3>3
    <2>3. Buffered' = Buffered
      BY <1>2, BufferedSame DEF Write, buffer
    <2>4. Abstract!Begin
      BY <1>2, <2>1, <2>2, <2>3 DEF Write, Abstract!Begin, buffer
    <2> QED
      BY <2>4 DEF Abstract!Next
  <1>3. ASSUME WriteStep PROVE Abstract!Next \/ UNCHANGED Mapped
    <2> DEFINE new == Pushed(Free \div Need)
    <2>1. /\ wpc = "write" /\ UNCHANGED <<shutdown, error, io, disk, filePos, used>>
          /\ \/ /\ error /\ wpc' = "idle" /\ rest' = <<>>
                /\ UNCHANGED <<buffer, spaceEvent, dataEvent>>
             \/ /\ ~error /\ Free < Need /\ spaceEvent' = FALSE /\ wpc' = "blocked"
                /\ UNCHANGED <<buffer, rest, dataEvent>>
             \/ /\ ~error /\ Free >= Need
                /\ queue' = new.queue /\ capacity' = new.capacity
                /\ nextPos' = new.pos /\ rest' = new.rest /\ dataEvent' = TRUE
                /\ wpc' = IF new.rest = <<>> THEN "idle" ELSE "write"
                /\ UNCHANGED spaceEvent
      BY <1>3, Zenon DEF WriteStep, Need
    <2> HIDE DEF new
    <2>2. CASE /\ error /\ wpc' = "idle" /\ rest' = <<>>
               /\ UNCHANGED <<buffer, spaceEvent, dataEvent>>
      <3>1. Buffered' = Buffered
        BY <2>1, <2>2, BufferedSame DEF buffer
      <3>2. Abstract!Refuse
        BY <2>1, <2>2, <3>1 DEF Abstract!Refuse, buffer
      <3> QED
        BY <3>2 DEF Abstract!Next
    <2>3. CASE /\ ~error /\ Free < Need /\ spaceEvent' = FALSE /\ wpc' = "blocked"
               /\ UNCHANGED <<buffer, rest, dataEvent>>
      <3>1. Buffered' = Buffered
        BY <2>1, <2>3, BufferedSame DEF buffer
      <3> QED
        BY <2>1, <2>3, <3>1 DEF Mapped, buffer
    <2>4. CASE /\ ~error /\ Free >= Need
               /\ queue' = new.queue /\ capacity' = new.capacity
               /\ nextPos' = new.pos /\ rest' = new.rest /\ dataEvent' = TRUE
               /\ wpc' = IF new.rest = <<>> THEN "idle" ELSE "write"
               /\ UNCHANGED spaceEvent
      <3>1. Abstract!Accept
        BY <2>1, <2>4, PushMaps DEF new
      <3> QED
        BY <3>1 DEF Abstract!Next
    <2> QED
      BY <2>1, <2>2, <2>3, <2>4
  <1>4. ASSUME WriteWake \/ FreeBegin \/ FreeSignal PROVE UNCHANGED Mapped
    <2>1. Buffered' = Buffered
      BY <1>4, BufferedSame DEF WriteWake, FreeBegin, FreeSignal, buffer
    <2> QED
      BY <1>4, <2>1 DEF WriteWake, FreeBegin, FreeSignal, Mapped, buffer
  <1>5. ASSUME NEW p \in Positions, Seek(p) PROVE Abstract!Next
    <2>1. Buffered' = Buffered
      BY <1>5, BufferedSame DEF Seek
    <2>2. Abstract!Move
      BY <1>5, <2>1 DEF Seek, Abstract!Move, Inv, Owing, writer
    <2> QED
      BY <2>2 DEF Abstract!Next
  <1>6. ASSUME FreeJoin PROVE Abstract!Next
    <2>1. Buffered' = Buffered
      BY <1>6, BufferedSame DEF FreeJoin, buffer
    <2>2. rest = <<>>
      BY <1>6 DEF FreeJoin, Inv, Owing
    <2>3. Buffered = <<>> \/ error
      <3> SUFFICES ASSUME ~error PROVE Buffered = <<>>
        OBVIOUS
      <3>1. queue = <<>> /\ io.chunk = <<>>
        BY <1>6 DEF FreeJoin, Inv, Ended
      <3>2. <<>> \in Seq(Byte)
        BY EmptySeq
      <3>3. Buffered = AtPos(<<>>, Base) \o Placed(<<>>)
        BY <3>1 DEF Buffered, Base
      <3> QED
        BY <3>2, <3>3, AtPosOfNone, PlacedOfNone, ConcatEmptySeq
    <2>4. Abstract!Close
      BY <1>6, <2>1, <2>2, <2>3 DEF FreeJoin, Abstract!Close, buffer
    <2> QED
      BY <2>4 DEF Abstract!Next
  <1>7. ASSUME IoWake PROVE UNCHANGED Mapped
    <2>1. io'.chunk = io.chunk /\ io'.cur = io.cur /\ queue' = queue
      BY <1>7 DEF IoWake, Inv, Types, IoType, buffer
    <2>2. Buffered' = Buffered
      BY <2>1 DEF Buffered
    <2> QED
      BY <1>7, <2>2 DEF IoWake, Mapped, buffer, writer
  <1>8. ASSUME IoFetch PROVE UNCHANGED Mapped
    <2>1. Buffered' = Buffered
      BY <1>8, FetchMaps
    <2>2. UNCHANGED <<capacity, nextPos, shutdown, error, wpc, rest, disk, filePos, used>>
      BY <1>8, FetchSteps
    <2> QED
      BY <2>1, <2>2 DEF Mapped
  <1>9. ASSUME IoFlush PROVE Abstract!Next
    <2> DEFINE n == Len(io.chunk)
               a == AtPos(io.chunk, Base)
               b == Placed(queue)
    <2>1. io.pc = "flush" /\ ~error
      BY <1>9 DEF IoFlush, Inv, Ended
    <2>2. /\ n \in Nat /\ io.chunk \in Seq(Value) /\ a \in Seq(Byte) /\ Len(a) = n /\ b \in Seq(Byte)
          /\ Len(b) \in Nat
          /\ Buffered = a \o b /\ Buffered \in Seq(Byte) /\ Len(Buffered) = n + Len(b)
      BY BufferedFacts DEF Inv
    <2>3. n # 0
      BY <2>1, <2>2, EmptySeq DEF Inv, InHand
    <2>4. disk' = Abstract!Put(disk, SubSeq(Buffered, 1, n)) /\ n \in 1 .. Len(Buffered)
      <3>1. n \in 0 .. n
        BY <2>2
      <3>2. Stored(n) = Abstract!Put(disk, SubSeq(Buffered, 1, n))
        BY <2>1, <3>1, StoredIsPut
      <3>3. n \in 1 .. Len(Buffered)
        BY <2>2, <2>3
      <3> QED
        BY <1>9, <3>2, <3>3 DEF IoFlush
    <2>5. Buffered' = b
      <3>1. io'.chunk = <<>> /\ queue' = queue
        BY <1>9 DEF IoFlush, buffer
      <3>2. Buffered' = AtPos(<<>>, io'.cur - Len(io'.chunk)) \o b
        BY <3>1 DEF Buffered
      <3>3. Buffered' = <<>> \o b
        BY <3>2, AtPosOfNone
      <3> QED
        BY <2>2, <3>3, ConcatEmptySeq
    <2>6. b = SubSeq(Buffered, n + 1, Len(Buffered))
      <3> DEFINE s == SubSeq(Buffered, n + 1, Len(Buffered))
      <3> HIDE DEF n, a, b
      <3>1. n \in 0 .. Len(Buffered)
        BY <2>2
      <3>2. /\ s \in Seq(Byte) /\ Len(s) = Len(Buffered) - n
            /\ \A i \in 1 .. Len(Buffered) - n : s[i] = Buffered[n + i]
        BY <2>2, <3>1, Cut
      <3> HIDE DEF s
      <3>3. \A i \in 1 .. Len(a) + Len(b) : Buffered[i] = IF i <= Len(a) THEN a[i] ELSE b[i - Len(a)]
        BY <2>2, ConcatProperties
      <3>4. Len(s) = Len(b)
        BY <2>2, <3>2
      <3>5. ASSUME NEW i \in 1 .. Len(s) PROVE s[i] = b[i]
        <4>1. n + i \in 1 .. Len(a) + Len(b) /\ ~ (n + i <= Len(a)) /\ (n + i) - Len(a) = i
          BY <2>2, <3>4
        <4>2. Buffered[n + i] = b[(n + i) - Len(a)]
          BY <3>3, <4>1
        <4> QED
          BY <3>2, <3>5, <4>1, <4>2
      <3>6. s = b
        BY <2>2, <3>2, <3>4, <3>5, SeqEqual
      <3> QED
        BY <3>6 DEF s
    <2>7. UNCHANGED <<rest, nextPos, (wpc # "closed"), error>>
      BY <1>9 DEF IoFlush, buffer, writer
    <2> HIDE DEF n, b
    <2>8. Abstract!Commit
      BY <2>1, <2>4, <2>5, <2>6, <2>7 DEF Abstract!Commit
    <2> QED
      BY <2>8 DEF Abstract!Next
  <1>10. ASSUME IoFail PROVE Abstract!Next
    <2>1. io.pc = "flush" /\ ~error /\ error' = TRUE
      BY <1>10 DEF IoFail, Inv, Ended
    <2>2. PICK n \in 0 .. Len(io.chunk) - 1 : disk' = Stored(n)
      BY <1>10 DEF IoFail
    <2>3. n \in 0 .. Len(io.chunk)
      <3>1. Len(io.chunk) \in Nat
        BY BufferedFacts DEF Inv
      <3> QED
        BY <3>1
    <2>4. disk' = Abstract!Put(disk, SubSeq(Buffered, 1, n)) /\ n \in 0 .. Len(Buffered)
      BY <2>1, <2>2, <2>3, StoredIsPut
    <2>5. io'.chunk = io.chunk /\ io'.cur = io.cur /\ queue' = queue
      BY <1>10 DEF IoFail, Inv, Types, IoType, buffer
    <2>6. Buffered' = Buffered
      BY <2>5 DEF Buffered
    <2>7. UNCHANGED <<rest, nextPos, (wpc # "closed")>>
      BY <1>10 DEF IoFail, buffer, writer
    <2>8. Abstract!Fail
      BY <2>1, <2>4, <2>6, <2>7 DEF Abstract!Fail
    <2> QED
      BY <2>8 DEF Abstract!Next
  <1>11. CASE Next
    BY <1>2, <1>3, <1>4, <1>5, <1>6, <1>7, <1>8, <1>9, <1>10, <1>11 DEF Next, WriterSteps, IoSteps
  <1> QED
    BY <1>1, <1>11

(* buffered_file_serializer implements the ordered file: whatever the pieces, *)
(* chunks and seeks, every unit reaches the file in the order of the writes   *)
(* and in its place; a failed write leaves a prefix; and after the file was   *)
(* closed none is missing unless a write failed.                              *)
THEOREM OrderedFileIsImplemented == Spec => ImplementsOrderedFile
  <1>1. Inv /\ [Next]_vars => [Abstract!Next]_Abstract!vars
    BY StepMaps DEF Mapped, Abstract!vars
  <1> QED
    BY Invariant, InitMaps, <1>1, PTL DEF Spec, ImplementsOrderedFile, Abstract!Spec

=============================================================================
