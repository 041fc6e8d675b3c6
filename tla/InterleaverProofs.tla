--------------------------- MODULE InterleaverProofs ---------------------------
(***************************************************************************)
(* Proofs about Interleaver.  Three inductive invariants, each resting on  *)
(* the one before: TypeInv (the types, for any number of tracks), FlowInv  *)
(* (for one video encoder, each track in the queue continues what was sent *)
(* up to the encoder's next packet, and has its timing entries) and        *)
(* SteadyInv (for one encoder of each kind, what was sent is older than    *)
(* all that is queued or still to come).  Before them stand the lemmas     *)
(* about the operators: the packets of a track in the queue, inserting,    *)
(* discarding, sorting again, moving by the offsets, sending the first.    *)
(***************************************************************************)
EXTENDS Interleaver, RecursionLemmas

-----------------------------------------------------------------------------
(* Sequences.                                                               *)

LEMMA AppendConcat ==
    ASSUME NEW S, NEW a \in Seq(S), NEW b \in Seq(S), NEW p \in S
    PROVE  /\ Append(a, p) \o b = a \o (<<p>> \o b)
           /\ Append(a \o b, p) = a \o Append(b, p)
  <1>1. <<p>> \in Seq(S)
    OBVIOUS
  <1>2. Append(a, p) = a \o <<p>> /\ Append(b, p) = b \o <<p>>
    BY AppendIsConcat
  <1>3. Append(a \o b, p) = (a \o b) \o <<p>>
    <2>1. a \o b \in Seq(S)
      BY ConcatProperties
    <2> QED
      BY <2>1, AppendIsConcat
  <1>4. (a \o <<p>>) \o b = a \o (<<p>> \o b)
    BY <1>1, ConcatAssociative
  <1>5. (a \o b) \o <<p>> = a \o (b \o <<p>>)
    BY <1>1, ConcatAssociative
  <1> QED
    BY <1>2, <1>3, <1>4, <1>5, Zenon

(* Induction over sequences, of a set. *)
LEMMA SeqSet ==
    ASSUME NEW S, NEW T, <<>> \in T,
           \A q \in Seq(S) : \A p \in S : q \in T => Append(q, p) \in T
    PROVE  Seq(S) \subseteq T
  <1> DEFINE K == {n \in Nat : \A q \in Seq(S) : Len(q) = n => q \in T}
  <1>1. 0 \in K
    <2>1. \A q \in Seq(S) : Len(q) = 0 => q = <<>>
      BY EmptySeq
    <2> QED
      BY <2>1
  <1>2. ASSUME NEW n \in Nat, n \in K PROVE n + 1 \in K
    <2> SUFFICES ASSUME NEW q \in Seq(S), Len(q) = n + 1 PROVE q \in T
      OBVIOUS
    <2>1. q # <<>>
      BY EmptySeq
    <2>2. PICK s \in Seq(S), p \in S : q = Append(s, p)
      BY <2>1, SequenceEmptyOrAppend
    <2>3. Len(q) = Len(s) + 1 /\ Len(s) \in Nat
      BY <2>2, AppendProperties, LenProperties
    <2>4. Len(s) = n
      BY <2>3
    <2>5. s \in T
      BY <1>2, <2>4
    <2> QED
      BY <2>2, <2>5
  <1>3. \A n \in Nat : n \in K => n + 1 \in K
    BY <1>2
  <1> HIDE DEF K
  <1>4. Nat \subseteq K
    BY <1>1, <1>3, NatSet
  <1> USE DEF K
  <1>5. \A q \in Seq(S) : Len(q) \in K
    <2> HIDE DEF K
    <2> QED
      BY <1>4, LenProperties
  <1> QED
    BY <1>5

(* The packets of a track, as they are gathered. *)
Gather(q, t) == [x \in (1 .. Len(q)) \X Seq(PacketType) |->
                    IF q[x[1]].track = t THEN Append(x[2], q[x[1]]) ELSE x[2]]

LEMMA GatherStep ==
    ASSUME NEW q \in Seq(PacketType), NEW t, NEW n \in 1 .. Len(q), NEW r \in Seq(PacketType)
    PROVE  /\ Gather(q, t)[<<n, r>>] = IF q[n].track = t THEN Append(r, q[n]) ELSE r
           /\ Gather(q, t)[<<n, r>>] \in Seq(PacketType)
  <1>1. <<n, r>> \in (1 .. Len(q)) \X Seq(PacketType)
    OBVIOUS
  <1>2. Gather(q, t)[<<n, r>>] = IF q[n].track = t THEN Append(r, q[n]) ELSE r
    BY <1>1 DEF Gather
  <1>3. q[n] \in PacketType
    BY ElementOfSeq
  <1>4. Append(r, q[n]) \in Seq(PacketType)
    BY <1>3, AppendProperties
  <1> QED
    BY <1>2, <1>4

LEMMA OfTrackIs ==
    ASSUME NEW q \in Seq(PacketType), NEW t
    PROVE  \E f : /\ Recurs(f, <<>>, Gather(q, t), Len(q))
                  /\ \A n \in 0 .. Len(q) : f[n] \in Seq(PacketType)
                  /\ OfTrack(q, t) = f[Len(q)]
  <1> DEFINE S == [n \in 0 .. Len(q) |-> Seq(PacketType)]
             next1(f, i) == IF i = 0 THEN <<>>
                            ELSE IF q[i].track = t THEN Append(f[i - 1], q[i]) ELSE f[i - 1]
             E(f) == f = [i \in 0 .. Len(q) |-> next1(f, i)]
             it == CHOOSE f : E(f)
  <1>1. OfTrack(q, t) = it[Len(q)]
    BY Zenon DEF OfTrack
  <1>2. Len(q) \in Nat /\ \A n \in 0 .. Len(q) : S[n] = Seq(PacketType)
    BY LenProperties
  <1>3. <<>> \in S[0]
    BY <1>2, EmptySeq
  <1>4. \A n \in 1 .. Len(q) : n \in 0 .. Len(q) /\ n - 1 \in 0 .. Len(q)
    BY <1>2
  <1>5. \A n \in 1 .. Len(q) : \A x \in S[n - 1] : Gather(q, t)[<<n, x>>] \in S[n]
    BY <1>2, <1>4, GatherStep
  <1>6. PICK f : /\ Recurs(f, <<>>, Gather(q, t), Len(q)) /\ \A n \in 0 .. Len(q) : f[n] \in S[n]
                 /\ f = [n \in 0 .. Len(q) |-> f[n]]
    <2> HIDE DEF S
    <2> QED
      BY <1>2, <1>3, <1>5, Recursion
  <1>7. \A n \in 0 .. Len(q) : f[n] = next1(f, n)
    <2>1. f[0] = next1(f, 0)
      BY <1>6 DEF Recurs
    <2>2. ASSUME NEW n \in 1 .. Len(q) PROVE f[n] = next1(f, n)
      <3>1. f[n] = Gather(q, t)[<<n, f[n - 1]>>]
        BY <1>6 DEF Recurs
      <3>2. f[n - 1] \in Seq(PacketType)
        BY <1>2, <1>4, <1>6
      <3>3. Gather(q, t)[<<n, f[n - 1]>>] = IF q[n].track = t THEN Append(f[n - 1], q[n]) ELSE f[n - 1]
        BY <3>2, GatherStep
      <3>4. n # 0
        OBVIOUS
      <3> QED
        BY <3>1, <3>3, <3>4, Zenon
    <2>3. \A n \in 0 .. Len(q) : n = 0 \/ n \in 1 .. Len(q)
      BY <1>2
    <2> HIDE DEF next1
    <2> QED
      BY <2>1, <2>2, <2>3
  <1>8. E(f)
    <2> HIDE DEF next1
    <2>1. f = [n \in 0 .. Len(q) |-> f[n]]
      BY <1>6
    <2>2. [n \in 0 .. Len(q) |-> f[n]] = [n \in 0 .. Len(q) |-> next1(f, n)]
      BY <1>7
    <2> QED
      BY <2>1, <2>2
  <1>9. E(it)
    <2> HIDE DEF E
    <2> QED
      BY <1>8, Zenon
  <1> HIDE DEF it
  <1>10. Follows(it, S, <<>>, Gather(q, t), Len(q))
    <2>1. it[0] = <<>>
      <3>1. 0 \in 0 .. Len(q)
        BY <1>2
      <3> QED
        BY <1>9, <3>1
    <2>2. ASSUME NEW n \in 1 .. Len(q), it[n - 1] \in S[n - 1]
          PROVE  it[n] = Gather(q, t)[<<n, it[n - 1]>>]
      <3>1. it[n] = next1(it, n)
        <4>1. n \in 0 .. Len(q)
          BY <1>4
        <4> HIDE DEF next1
        <4> QED
          BY <1>9, <4>1
      <3>2. it[n - 1] \in Seq(PacketType)
        BY <1>2, <1>4, <2>2
      <3>3. Gather(q, t)[<<n, it[n - 1]>>] = IF q[n].track = t THEN Append(it[n - 1], q[n]) ELSE it[n - 1]
        BY <3>2, GatherStep
      <3>4. n # 0
        OBVIOUS
      <3> QED
        BY <3>1, <3>3, <3>4, Zenon
    <2> HIDE DEF S
    <2> QED
      BY <2>1, <2>2 DEF Follows
  <1>11. it[Len(q)] = f[Len(q)]
    <2> HIDE DEF next1, E, S
    <2>1. Len(q) \in Nat /\ Recurs(f, <<>>, Gather(q, t), Len(q))
      BY <1>2, <1>6
    <2>2. \A n \in 0 .. Len(q) : f[n] \in S[n]
      BY <1>6
    <2>3. \A N \in Nat : /\ Recurs(f, <<>>, Gather(q, t), N) /\ Follows(it, S, <<>>, Gather(q, t), N)
                         /\ \A n \in 0 .. N : f[n] \in S[n]
                         => \A n \in 0 .. N : it[n] = f[n]
      BY RecursionUnique
    <2>5. \A n \in 0 .. Len(q) : it[n] = f[n]
      BY <1>10, <2>1, <2>2, <2>3
    <2>4. Len(q) \in 0 .. Len(q)
      BY <1>2
    <2> QED
      BY <2>5, <2>4
  <1> QED
    BY <1>1, <1>2, <1>6, <1>11

(* OfTrack of the empty sequence, and of one with another packet at its end. *)
LEMMA OfTrackAppend ==
    /\ \A t : OfTrack(<<>>, t) = <<>>
    /\ \A q \in Seq(PacketType) : \A t : OfTrack(q, t) \in Seq(PacketType)
    /\ \A q \in Seq(PacketType) : \A p \in PacketType : \A t :
           OfTrack(Append(q, p), t) = IF p.track = t THEN Append(OfTrack(q, t), p) ELSE OfTrack(q, t)
  <1>1. ASSUME NEW t PROVE OfTrack(<<>>, t) = <<>>
    <2>1. <<>> \in Seq(PacketType) /\ Len(<<>>) = 0
      BY EmptySeq
    <2>2. PICK f : /\ Recurs(f, <<>>, Gather(<<>>, t), Len(<<>>)) /\ OfTrack(<<>>, t) = f[Len(<<>>)]
      BY <2>1, OfTrackIs
    <2> QED
      BY <2>1, <2>2 DEF Recurs
  <1>2. ASSUME NEW q \in Seq(PacketType), NEW t PROVE OfTrack(q, t) \in Seq(PacketType)
    <2>1. PICK f : /\ \A n \in 0 .. Len(q) : f[n] \in Seq(PacketType) /\ OfTrack(q, t) = f[Len(q)]
      BY OfTrackIs
    <2>2. Len(q) \in 0 .. Len(q)
      <3>1. Len(q) \in Nat
        BY LenProperties
      <3> QED
        BY <3>1
    <2> QED
      BY <2>1, <2>2
  <1>3. ASSUME NEW q \in Seq(PacketType), NEW p \in PacketType, NEW t
        PROVE  OfTrack(Append(q, p), t) = IF p.track = t THEN Append(OfTrack(q, t), p) ELSE OfTrack(q, t)
    <2> DEFINE r == Append(q, p)
               n == Len(q) + 1
               S == [i \in 0 .. Len(q) |-> Seq(PacketType)]
    <2>1. /\ r \in Seq(PacketType) /\ Len(r) = n /\ r[n] = p
          /\ \A i \in 1 .. Len(q) : r[i] = q[i]
      BY AppendProperties
    <2>2. Len(q) \in Nat /\ n \in 1 .. n /\ n - 1 = Len(q) /\ Len(q) \in 0 .. n /\ Len(q) \in 0 .. Len(q)
      <3>1. Len(q) \in Nat
        BY LenProperties
      <3> QED
        BY <3>1
    <2>3. \A i \in 1 .. Len(q) : i \in 1 .. n /\ i - 1 \in 0 .. n /\ i - 1 \in 0 .. Len(q)
      BY <2>2
    <2>31. \A i \in 0 .. Len(q) : i \in 0 .. n
      BY <2>2
    <2> HIDE DEF r, n
    <2>4. PICK f : /\ Recurs(f, <<>>, Gather(q, t), Len(q))
                   /\ \A i \in 0 .. Len(q) : f[i] \in Seq(PacketType)
                   /\ OfTrack(q, t) = f[Len(q)]
      BY OfTrackIs
    <2>5. PICK g : /\ Recurs(g, <<>>, Gather(r, t), Len(r))
                   /\ \A i \in 0 .. Len(r) : g[i] \in Seq(PacketType)
                   /\ OfTrack(r, t) = g[Len(r)]
      BY <2>1, OfTrackIs
    <2>6. \A i \in 0 .. Len(q) : S[i] = Seq(PacketType)
      OBVIOUS
    <2>7. Follows(g, S, <<>>, Gather(q, t), Len(q))
      <3>1. g[0] = <<>>
        BY <2>5 DEF Recurs
      <3>2. ASSUME NEW i \in 1 .. Len(q) PROVE g[i] = Gather(q, t)[<<i, g[i - 1]>>]
        <4>1. g[i - 1] \in Seq(PacketType) /\ i \in 1 .. Len(r)
          BY <2>1, <2>3, <2>5
        <4>2. g[i] = Gather(r, t)[<<i, g[i - 1]>>]
          BY <2>5, <4>1 DEF Recurs
        <4>3. Gather(r, t)[<<i, g[i - 1]>>] = IF r[i].track = t THEN Append(g[i - 1], r[i]) ELSE g[i - 1]
          BY <2>1, <4>1, GatherStep
        <4>4. Gather(q, t)[<<i, g[i - 1]>>] = IF q[i].track = t THEN Append(g[i - 1], q[i]) ELSE g[i - 1]
          BY <4>1, GatherStep
        <4>5. r[i] = q[i]
          BY <2>1
        <4> QED
          BY <4>2, <4>3, <4>4, <4>5, Zenon
      <3> QED
        BY <3>1, <3>2 DEF Follows
    <2>8. g[Len(q)] = f[Len(q)]
      <3>1. \A i \in 0 .. Len(q) : f[i] \in S[i]
        BY <2>4, <2>6
      <3>2. \A i \in 0 .. Len(q) : g[i] = f[i]
        <4> HIDE DEF S
        <4> QED
          BY <2>2, <2>4, <2>7, <3>1, RecursionUnique
      <3> QED
        BY <2>2, <3>2
    <2>9. g[n] = Gather(r, t)[<<n, g[n - 1]>>]
      BY <2>1, <2>2, <2>5 DEF Recurs
    <2>10. g[n - 1] = OfTrack(q, t)
      BY <2>2, <2>4, <2>8
    <2>11. Gather(r, t)[<<n, g[n - 1]>>] = IF r[n].track = t THEN Append(g[n - 1], r[n]) ELSE g[n - 1]
      <3>1. g[n - 1] \in Seq(PacketType)
        BY <2>1, <2>2, <2>5
      <3> QED
        BY <2>1, <2>2, <3>1, GatherStep
    <2>12. OfTrack(r, t) = g[n]
      BY <2>1, <2>5
    <2>13. OfTrack(r, t) = IF p.track = t THEN Append(OfTrack(q, t), p) ELSE OfTrack(q, t)
      BY <2>1, <2>9, <2>10, <2>11, <2>12, Zenon
    <2> QED
      BY <2>13 DEF r
  <1> QED
    BY <1>1, <1>2, <1>3

(* OfTrack of two sequences, of one packet, and which packets it holds. *)
LEMMA OfTrackConcat ==
    ASSUME NEW q \in Seq(PacketType), NEW r \in Seq(PacketType), NEW t
    PROVE  OfTrack(q \o r, t) = OfTrack(q, t) \o OfTrack(r, t)
  <1> DEFINE T == {s \in Seq(PacketType) : OfTrack(q \o s, t) = OfTrack(q, t) \o OfTrack(s, t)}
  <1>1. <<>> \in T
    <2>1. /\ q \o <<>> = q /\ OfTrack(q, t) \o <<>> = OfTrack(q, t) /\ OfTrack(<<>>, t) = <<>>
          /\ <<>> \in Seq(PacketType)
      BY OfTrackAppend, ConcatEmptySeq, EmptySeq
    <2> QED
      BY <2>1
  <1>2. ASSUME NEW s \in Seq(PacketType), NEW p \in PacketType, s \in T PROVE Append(s, p) \in T
    <2>1. <<p>> \in Seq(PacketType) /\ Append(s, p) \in Seq(PacketType) /\ q \o s \in Seq(PacketType)
      BY AppendProperties, ConcatProperties
    <2>2. q \o Append(s, p) = Append(q \o s, p)
      <3>1. Append(s, p) = s \o <<p>> /\ Append(q \o s, p) = (q \o s) \o <<p>>
        BY <2>1, AppendIsConcat
      <3>2. (q \o s) \o <<p>> = q \o (s \o <<p>>)
        BY <2>1, ConcatAssociative
      <3> QED
        BY <3>1, <3>2, Zenon
    <2>3. OfTrack(q \o s, t) = OfTrack(q, t) \o OfTrack(s, t)
      BY <1>2
    <2>4. OfTrack(q, t) \in Seq(PacketType) /\ OfTrack(s, t) \in Seq(PacketType)
      BY OfTrackAppend
    <2>5. OfTrack(Append(q \o s, p), t) = IF p.track = t THEN Append(OfTrack(q \o s, t), p) ELSE OfTrack(q \o s, t)
      BY <2>1, OfTrackAppend
    <2>6. OfTrack(Append(s, p), t) = IF p.track = t THEN Append(OfTrack(s, t), p) ELSE OfTrack(s, t)
      BY OfTrackAppend
    <2>7. Append(OfTrack(q, t) \o OfTrack(s, t), p) = OfTrack(q, t) \o Append(OfTrack(s, t), p)
      <3>1. /\ Append(OfTrack(s, t), p) = OfTrack(s, t) \o <<p>>
            /\ OfTrack(q, t) \o OfTrack(s, t) \in Seq(PacketType)
        BY <2>4, AppendIsConcat, ConcatProperties
      <3>2. Append(OfTrack(q, t) \o OfTrack(s, t), p) = (OfTrack(q, t) \o OfTrack(s, t)) \o <<p>>
        BY <3>1, AppendIsConcat
      <3>3. ASSUME NEW x \in Seq(PacketType), NEW y \in Seq(PacketType), NEW w \in Seq(PacketType)
            PROVE  (x \o y) \o w = x \o (y \o w)
        BY ConcatAssociative, SMTT(30)
      <3>5. <<p>> \in Seq(PacketType)
        BY <2>1
      <3>4. (OfTrack(q, t) \o OfTrack(s, t)) \o <<p>> = OfTrack(q, t) \o (OfTrack(s, t) \o <<p>>)
        BY <2>4, <3>5, <3>3, ZenonT(40)
      <3> QED
        BY <3>1, <3>2, <3>4, Zenon
    <2>8. OfTrack(q \o Append(s, p), t) = OfTrack(q, t) \o OfTrack(Append(s, p), t)
      BY <2>2, <2>3, <2>5, <2>6, <2>7, Zenon
    <2> QED
      BY <2>1, <2>8
  <1> HIDE DEF T
  <1>3. r \in T
    BY <1>1, <1>2, SeqSet
  <1> QED
    BY <1>3 DEF T

LEMMA TrackConcat ==
    \A q, r \in Seq(PacketType) : \A t : OfTrack(q \o r, t) = OfTrack(q, t) \o OfTrack(r, t)
  BY OfTrackConcat

LEMMA OfTrackOne ==
    ASSUME NEW p \in PacketType, NEW t
    PROVE  <<p>> \in Seq(PacketType) /\ OfTrack(<<p>>, t) = IF p.track = t THEN <<p>> ELSE <<>>
  <1>1. Append(<<>>, p) = <<p>> /\ <<p>> \in Seq(PacketType) /\ <<>> \in Seq(PacketType)
    OBVIOUS
  <1>2. OfTrack(<<>>, t) = <<>>
    BY OfTrackAppend
  <1>3. OfTrack(Append(<<>>, p), t) = IF p.track = t THEN Append(OfTrack(<<>>, t), p) ELSE OfTrack(<<>>, t)
    BY <1>1, OfTrackAppend
  <1> QED
    BY <1>1, <1>2, <1>3, Zenon

Among(p, q) == \E i \in 1 .. Len(q) : q[i] = p

LEMMA AmongAppend ==
    ASSUME NEW S, NEW q \in Seq(S), NEW e \in S
    PROVE  \A p : Among(p, Append(q, e)) <=> Among(p, q) \/ p = e
  <1>1. /\ Len(Append(q, e)) = Len(q) + 1 /\ Append(q, e)[Len(q) + 1] = e
        /\ \A i \in 1 .. Len(q) : Append(q, e)[i] = q[i]
    BY AppendProperties
  <1>2. Len(q) \in Nat
    BY LenProperties
  <1>3. Len(q) + 1 \in 1 .. Len(q) + 1 /\ \A i \in 1 .. Len(q) + 1 : i \in 1 .. Len(q) \/ i = Len(q) + 1
    BY <1>2
  <1>4. \A i \in 1 .. Len(q) : i \in 1 .. Len(q) + 1
    BY <1>2
  <1> QED
    BY <1>1, <1>3, <1>4 DEF Among

LEMMA AmongTrack ==
    ASSUME NEW q \in Seq(PacketType), NEW t
    PROVE  \A p : Among(p, OfTrack(q, t)) <=> Among(p, q) /\ p.track = t
  <1> DEFINE T == {s \in Seq(PacketType) :
                       \A p : Among(p, OfTrack(s, t)) <=> Among(p, s) /\ p.track = t}
  <1>1. <<>> \in T
    <2>1. <<>> \in Seq(PacketType) /\ OfTrack(<<>>, t) = <<>> /\ Len(<<>>) = 0
      BY OfTrackAppend, EmptySeq
    <2>2. \A p : ~ Among(p, <<>>)
      BY <2>1 DEF Among
    <2> QED
      BY <2>1, <2>2
  <1>2. ASSUME NEW s \in Seq(PacketType), NEW e \in PacketType, s \in T PROVE Append(s, e) \in T
    <2>1. Append(s, e) \in Seq(PacketType) /\ OfTrack(s, t) \in Seq(PacketType)
      BY AppendProperties, OfTrackAppend
    <2>2. \A p : Among(p, OfTrack(s, t)) <=> Among(p, s) /\ p.track = t
      BY <1>2
    <2>3. \A p : Among(p, Append(s, e)) <=> Among(p, s) \/ p = e
      BY AmongAppend
    <2>4. \A p : Among(p, Append(OfTrack(s, t), e)) <=> Among(p, OfTrack(s, t)) \/ p = e
      BY <2>1, AmongAppend
    <2>5. OfTrack(Append(s, e), t) = IF e.track = t THEN Append(OfTrack(s, t), e) ELSE OfTrack(s, t)
      BY OfTrackAppend
    <2>6. CASE e.track = t
      BY <2>1, <2>2, <2>3, <2>4, <2>5, <2>6
    <2>7. CASE e.track # t
      BY <2>1, <2>2, <2>3, <2>5, <2>7
    <2> QED
      BY <2>6, <2>7
  <1> HIDE DEF T
  <1>3. q \in T
    BY <1>1, <1>2, SeqSet
  <1> QED
    BY <1>3 DEF T

(* The least of some numbers, and the first packet that a search finds. *)
LEMMA MinFacts ==
    ASSUME NEW K, K \subseteq Nat, K # {}
    PROVE  Min(K) \in K /\ Min(K) \in Nat /\ \A y \in K : Min(K) <= y
  <1>1. \E x \in K : \A y \in K : x =< y
    BY LeastOne
  <1>2. Min(K) \in K /\ \A y \in K : Min(K) =< y
    <2>1. Min(K) = CHOOSE x \in K : \A y \in K : x =< y
      BY DEF Min
    <2> HIDE DEF Min
    <2> QED
      BY <1>1, <2>1
  <1> QED
    BY <1>2

LEMMA FirstFacts ==
    ASSUME NEW q \in Seq(PacketType), NEW t
    PROVE  /\ FirstIdx(q, t) \in 0 .. Len(q) /\ FirstIdx(q, t) \in Nat
           /\ FirstIdx(q, t) = 0 => \A i \in 1 .. Len(q) : q[i].track # t
           /\ FirstIdx(q, t) # 0 => /\ FirstIdx(q, t) \in 1 .. Len(q)
                                    /\ q[FirstIdx(q, t)].track = t
                                    /\ \A i \in 1 .. FirstIdx(q, t) - 1 : q[i].track # t
  <1> DEFINE K == {i \in 1 .. Len(q) : q[i].track = t}
  <1>1. FirstIdx(q, t) = IF K # {} THEN Min(K) ELSE 0
    BY DEF FirstIdx, SelectInSeq
  <1>2. Len(q) \in Nat /\ K \subseteq Nat
    BY LenProperties
  <1>3. CASE K = {}
    BY <1>1, <1>2, <1>3
  <1>4. CASE K # {}
    <2>1. Min(K) \in K /\ \A y \in K : Min(K) <= y
      BY <1>2, <1>4, MinFacts
    <2>2. \A i \in 1 .. Min(K) - 1 : i \in 1 .. Len(q) /\ i \notin K
      BY <1>2, <2>1
    <2>3. \A i \in 1 .. Min(K) - 1 : q[i].track # t
      BY <2>2
    <2>4. FirstIdx(q, t) = Min(K)
      BY <1>1, <1>4
    <2>5. Min(K) \in 1 .. Len(q) /\ q[Min(K)].track = t
      BY <2>1
    <2> HIDE DEF K
    <2> QED
      BY <1>2, <2>3, <2>4, <2>5
  <1> QED
    BY <1>3, <1>4

LEMMA FirstIsHead ==
    ASSUME NEW q \in Seq(PacketType), NEW t
    PROVE  /\ FirstIdx(q, t) = 0 <=> OfTrack(q, t) = <<>>
           /\ FirstIdx(q, t) # 0 => q[FirstIdx(q, t)] = OfTrack(q, t)[1]
  <1> DEFINE k == FirstIdx(q, t)
  <1>0. Len(q) \in Nat /\ OfTrack(q, t) \in Seq(PacketType)
    BY LenProperties, OfTrackAppend
  <1>1. k = 0 => OfTrack(q, t) = <<>>
    <2> SUFFICES ASSUME k = 0, OfTrack(q, t) # <<>> PROVE FALSE
      OBVIOUS
    <2>1. 1 \in 1 .. Len(OfTrack(q, t))
      BY <1>0, EmptySeq
    <2>2. Among(OfTrack(q, t)[1], OfTrack(q, t))
      BY <2>1 DEF Among
    <2>3. Among(OfTrack(q, t)[1], q) /\ OfTrack(q, t)[1].track = t
      BY <2>2, AmongTrack
    <2> QED
      BY <2>3, FirstFacts DEF Among
  <1>2. k # 0 => OfTrack(q, t) # <<>> /\ q[k] = OfTrack(q, t)[1]
    <2> SUFFICES ASSUME k # 0 PROVE OfTrack(q, t) # <<>> /\ q[k] = OfTrack(q, t)[1]
      OBVIOUS
    <2>1. k \in 1 .. Len(q) /\ q[k].track = t /\ \A i \in 1 .. k - 1 : q[i].track # t
      BY FirstFacts
    <2> HIDE DEF k
    <2>2. k \in 0 .. Len(q) /\ k - 1 \in 0 .. Len(q) /\ q[k] \in PacketType /\ k \in Nat /\ k = (k - 1) + 1
      BY <1>0, <2>1, ElementOfSeq
    <2> DEFINE a == SubSeq(q, 1, k - 1)
               b == SubSeq(q, k + 1, Len(q))
               c == SubSeq(q, k, Len(q))
    <2>3. a \in Seq(PacketType) /\ Len(a) = k - 1 /\ \A i \in 1 .. k - 1 : a[i] = q[i]
      BY <2>2, Cut
    <2>4. b \in Seq(PacketType)
      BY <2>2, Cut
    <2>5. c \in Seq(PacketType) /\ a \o c = q
      <3> DEFINE m == k - 1
      <3>1. m \in 0 .. Len(q) /\ k = m + 1
        BY <2>2
      <3> HIDE DEF m
      <3>2. SubSeq(q, m + 1, Len(q)) \in Seq(PacketType) /\ SubSeq(q, 1, m) \o SubSeq(q, m + 1, Len(q)) = q
        BY <3>1, Cut
      <3> QED
        BY <3>1, <3>2 DEF m
    <2>6. c = <<q[k]>> \o b
      <3>1. Len(q) \in k .. Len(q)
        BY <1>0, <2>1
      <3> QED
        BY <2>1, <3>1, SubSeqRecursiveFirst
    <2> HIDE DEF a, b, c
    <2>7. OfTrack(a, t) = <<>>
      <3> SUFFICES ASSUME OfTrack(a, t) # <<>> PROVE FALSE
        OBVIOUS
      <3>1. 1 \in 1 .. Len(OfTrack(a, t))
        <4>1. OfTrack(a, t) \in Seq(PacketType)
          BY <2>3, OfTrackAppend
        <4>2. Len(OfTrack(a, t)) \in Nat \ {0}
          BY <4>1, EmptySeq
        <4> QED
          BY <4>2
      <3>2. Among(OfTrack(a, t)[1], OfTrack(a, t))
        BY <3>1 DEF Among
      <3>3. Among(OfTrack(a, t)[1], a) /\ OfTrack(a, t)[1].track = t
        BY <2>3, <3>2, AmongTrack
      <3> QED
        BY <2>1, <2>3, <3>3 DEF Among
    <2>8. OfTrack(<<q[k]>>, t) = <<q[k]>> /\ <<q[k]>> \in Seq(PacketType)
      BY <2>1, <2>2, OfTrackOne
    <2>9. OfTrack(q, t) = OfTrack(a, t) \o (OfTrack(<<q[k]>>, t) \o OfTrack(b, t))
      <3>1. OfTrack(a \o c, t) = OfTrack(a, t) \o OfTrack(c, t)
        <4>1. a \in Seq(PacketType)
          BY <2>3, <2>5
        <4>2. c \in Seq(PacketType)
          BY <2>3, <2>5
        <4> QED
          BY <4>1, <4>2, TrackConcat, ZenonT(40)
      <3>2. OfTrack(<<q[k]>> \o b, t) = OfTrack(<<q[k]>>, t) \o OfTrack(b, t)
        <4>1. <<q[k]>> \in Seq(PacketType)
          BY <2>4, <2>8
        <4>2. b \in Seq(PacketType)
          BY <2>4, <2>8
        <4> QED
          BY <4>1, <4>2, TrackConcat, ZenonT(40)
      <3> QED
        BY <2>5, <2>6, <3>1, <3>2, Zenon
    <2>10. OfTrack(b, t) \in Seq(PacketType)
      BY <2>4, OfTrackAppend
    <2>11. OfTrack(q, t) = <<q[k]>> \o OfTrack(b, t)
      <3>1. <<q[k]>> \o OfTrack(b, t) \in Seq(PacketType)
        BY <2>8, <2>10, ConcatProperties
      <3>2. <<>> \o (<<q[k]>> \o OfTrack(b, t)) = <<q[k]>> \o OfTrack(b, t)
        BY <3>1, ConcatEmptySeq
      <3> QED
        BY <2>7, <2>8, <2>9, <3>2, Zenon
    <2> QED
      BY <2>8, <2>10, <2>11, ConcatProperties
  <1> QED
    BY <1>1, <1>2

-----------------------------------------------------------------------------
(* Inserting a packet.                                                      *)

Before(p, c) == \/ p.ts < c.ts
                \/ /\ p.ts = c.ts /\ IsVideo(p)
                   /\ ~(IsVideo(c) /\ p.track[2] > c.track[2])

(* Where a packet goes: k packets stay in front of it. *)
Place(q, p, k) == /\ InsertPacket(q, p) = SubSeq(q, 1, k) \o (<<p>> \o SubSeq(q, k + 1, Len(q)))
                  /\ \A i \in 1 .. k : q[i].ts <= p.ts
                  /\ k + 1 \in 1 .. Len(q) => p.ts <= q[k + 1].ts

LEMMA InsertPlace ==
    ASSUME NEW q \in Seq(PacketType), NEW p \in PacketType
    PROVE  \E k \in 0 .. Len(q) : Place(q, p, k)
  <1> DEFINE K == {i \in 1 .. Len(q) : Before(p, q[i])}
             m == IF K # {} THEN Min(K) ELSE 0
  <1>1. InsertPacket(q, p) = IF m = 0 THEN Append(q, p) ELSE InsertAt(q, m, p)
    BY DEF InsertPacket, SelectInSeq, Before
  <1>2. Len(q) \in Nat /\ K \subseteq Nat /\ p.ts \in Int /\ \A i \in 1 .. Len(q) : q[i] \in PacketType
    <2>1. Len(q) \in Nat /\ \A i \in 1 .. Len(q) : q[i] \in PacketType
      BY LenProperties, ElementOfSeq
    <2>2. p.ts \in Int
      BY DEF PacketType
    <2> QED
      BY <2>1, <2>2
  <1>3. \A i \in 1 .. Len(q) : /\ q[i].ts \in Int
                               /\ i \in K => p.ts <= q[i].ts
                               /\ i \notin K => q[i].ts <= p.ts
    <2>1. \A i \in 1 .. Len(q) : q[i].ts \in Int
      BY <1>2 DEF PacketType
    <2>2. \A x, y \in Int : (x < y \/ x = y => x <= y) /\ (~ (x < y) => y <= x)
      OBVIOUS
    <2>3. \A i \in 1 .. Len(q) : Before(p, q[i]) => p.ts < q[i].ts \/ p.ts = q[i].ts
      BY DEF Before
    <2>4. \A i \in 1 .. Len(q) : ~ Before(p, q[i]) => ~ (p.ts < q[i].ts)
      BY DEF Before
    <2> QED
      BY <1>2, <2>1, <2>2, <2>3, <2>4
  <1>4. <<p>> \in Seq(PacketType)
    BY OfTrackOne
  <1>5. CASE K = {}
    <2>1. Len(q) \in 0 .. Len(q) /\ \A i \in 1 .. Len(q) : i \notin K
      BY <1>2, <1>5
    <2>2. SubSeq(q, 1, Len(q)) = q /\ SubSeq(q, Len(q) + 1, Len(q)) = <<>>
      BY <1>2, SubSeqFull, SubSeqEmpty
    <2>3. InsertPacket(q, p) = q \o <<p>> /\ <<p>> \o <<>> = <<p>>
      BY <1>1, <1>4, <1>5, AppendIsConcat, ConcatEmptySeq
    <2>4. InsertPacket(q, p) = SubSeq(q, 1, Len(q)) \o (<<p>> \o SubSeq(q, Len(q) + 1, Len(q)))
      BY <2>2, <2>3, Zenon
    <2>5. \A i \in 1 .. Len(q) : q[i].ts <= p.ts
      BY <1>3, <2>1
    <2>6. Len(q) + 1 \notin 1 .. Len(q)
      BY <1>2
    <2>7. Place(q, p, Len(q))
      BY <2>4, <2>5, <2>6 DEF Place
    <2> QED
      BY <2>1, <2>7
  <1>6. CASE K # {}
    <2>1. m \in K /\ m \in Nat /\ \A y \in K : m <= y
      BY <1>2, <1>6, MinFacts
    <2>2. m \in 1 .. Len(q)
      BY <2>1
    <2>3. \A i \in 1 .. m - 1 : i \in 1 .. Len(q) /\ i \notin K
      BY <1>2, <2>1, <2>2
    <2> HIDE DEF K, m
    <2> DEFINE k == m - 1
    <2>4. k \in 0 .. Len(q) /\ k + 1 = m /\ m # 0
      BY <1>2, <2>2
    <2>5. \A i \in 1 .. k : q[i].ts <= p.ts
      BY <1>3, <2>3
    <2>6. p.ts <= q[m].ts
      BY <1>3, <2>1, <2>2
    <2>7. SubSeq(q, 1, k) \in Seq(PacketType) /\ SubSeq(q, k + 1, Len(q)) \in Seq(PacketType)
      BY <2>4, Cut
    <2>8. InsertPacket(q, p) = SubSeq(q, 1, k) \o (<<p>> \o SubSeq(q, k + 1, Len(q)))
      <3>1. InsertPacket(q, p) = (SubSeq(q, 1, k) \o <<p>>) \o SubSeq(q, m, Len(q))
        BY <1>1, <2>4, Zenon DEF InsertAt
      <3>2. InsertPacket(q, p) = (SubSeq(q, 1, k) \o <<p>>) \o SubSeq(q, k + 1, Len(q))
        BY <2>4, <3>1, Zenon
      <3> HIDE DEF k
      <3>3. (SubSeq(q, 1, k) \o <<p>>) \o SubSeq(q, k + 1, Len(q))
            = SubSeq(q, 1, k) \o (<<p>> \o SubSeq(q, k + 1, Len(q)))
        <4>1. ASSUME NEW x \in Seq(PacketType), NEW y \in Seq(PacketType), NEW z \in Seq(PacketType)
              PROVE  (x \o y) \o z = x \o (y \o z)
          BY ConcatAssociative
        <4> QED
          BY <1>4, <2>7, <4>1, Zenon
      <3> QED
        BY <3>2, <3>3, Zenon
    <2>9. Place(q, p, k)
      <3> HIDE DEF k
      <3> QED
        BY <2>4, <2>5, <2>6, <2>8 DEF Place
    <2> HIDE DEF k
    <2> QED
      BY <2>4, <2>9
  <1> QED
    BY <1>5, <1>6

Sorted(q) == \A i, j \in 1 .. Len(q) : i < j => q[i].ts <= q[j].ts

LEMMA AmongConcat ==
    ASSUME NEW S, NEW q \in Seq(S), NEW r \in Seq(S)
    PROVE  \A x : Among(x, q \o r) <=> Among(x, q) \/ Among(x, r)
  <1>1. /\ Len(q) \in Nat /\ Len(r) \in Nat /\ Len(q \o r) = Len(q) + Len(r)
        /\ \A i \in 1 .. Len(q) + Len(r) : (q \o r)[i] = IF i <= Len(q) THEN q[i] ELSE r[i - Len(q)]
    BY ConcatProperties, LenProperties
  <1>2. \A i \in 1 .. Len(q) : i \in 1 .. Len(q) + Len(r) /\ i <= Len(q)
    BY <1>1
  <1>3. \A i \in 1 .. Len(r) : /\ Len(q) + i \in 1 .. Len(q) + Len(r) /\ ~ (Len(q) + i <= Len(q))
                               /\ Len(q) + i - Len(q) = i
    BY <1>1
  <1>4. \A i \in 1 .. Len(q) + Len(r) : (i <= Len(q) => i \in 1 .. Len(q))
                                        /\ (~ (i <= Len(q)) => i - Len(q) \in 1 .. Len(r))
    BY <1>1
  <1>5. ASSUME NEW x, Among(x, q \o r) PROVE Among(x, q) \/ Among(x, r)
    BY <1>1, <1>4, <1>5 DEF Among
  <1>6. ASSUME NEW x, Among(x, q) PROVE Among(x, q \o r)
    <2>1. PICK i \in 1 .. Len(q) : q[i] = x
      BY <1>6 DEF Among
    <2>2. (q \o r)[i] = x /\ i \in 1 .. Len(q \o r)
      BY <1>1, <1>2, <2>1
    <2> QED
      BY <2>2 DEF Among
  <1>7. ASSUME NEW x, Among(x, r) PROVE Among(x, q \o r)
    <2>1. PICK i \in 1 .. Len(r) : r[i] = x
      BY <1>7 DEF Among
    <2> DEFINE j == Len(q) + i
    <2>2. j \in 1 .. Len(q) + Len(r) /\ ~ (j <= Len(q)) /\ j - Len(q) = i
      BY <1>3
    <2> HIDE DEF j
    <2>3. (q \o r)[j] = x /\ j \in 1 .. Len(q \o r)
      BY <1>1, <2>1, <2>2
    <2> QED
      BY <2>3 DEF Among
  <1> QED
    BY <1>5, <1>6, <1>7

(* A packet is among those of the queue it is inserted into; nothing else is lost or added. *)
LEMMA InsertTypes ==
    ASSUME NEW q \in Seq(PacketType), NEW p \in PacketType
    PROVE  /\ InsertPacket(q, p) \in Seq(PacketType) /\ Len(InsertPacket(q, p)) = Len(q) + 1
           /\ InsertPacket(q, p) # <<>>
           /\ \A x : Among(x, InsertPacket(q, p)) <=> Among(x, q) \/ x = p
  <1>1. PICK k \in 0 .. Len(q) : Place(q, p, k)
    BY InsertPlace
  <1> DEFINE a == SubSeq(q, 1, k)
             b == SubSeq(q, k + 1, Len(q))
  <1>2. /\ a \in Seq(PacketType) /\ b \in Seq(PacketType) /\ a \o b = q
        /\ Len(a) = k /\ Len(b) = Len(q) - k /\ Len(q) \in Nat
    BY Cut, LenProperties
  <1>3. <<p>> \in Seq(PacketType) /\ Len(<<p>>) = 1 /\ <<p>>[1] = p
    BY OfTrackOne
  <1>4. InsertPacket(q, p) = a \o (<<p>> \o b)
    BY <1>1 DEF Place
  <1> HIDE DEF a, b
  <1>5. <<p>> \o b \in Seq(PacketType) /\ Len(<<p>> \o b) = 1 + (Len(q) - k)
    BY <1>2, <1>3, ConcatProperties
  <1>6. InsertPacket(q, p) \in Seq(PacketType) /\ Len(InsertPacket(q, p)) = Len(q) + 1
    <2>1. a \o (<<p>> \o b) \in Seq(PacketType) /\ Len(a \o (<<p>> \o b)) = k + (1 + (Len(q) - k))
      BY <1>2, <1>5, ConcatProperties
    <2> QED
      BY <1>2, <1>4, <2>1
  <1>7. \A x : Among(x, <<p>>) <=> x = p
    <2>1. \A i \in 1 .. 1 : i = 1
      OBVIOUS
    <2>2. 1 \in 1 .. 1
      OBVIOUS
    <2> QED
      BY <1>3, <2>1, <2>2 DEF Among
  <1>8. \A x : Among(x, InsertPacket(q, p)) <=> Among(x, q) \/ x = p
    <2>1. \A x : Among(x, a \o (<<p>> \o b)) <=> Among(x, a) \/ Among(x, <<p>> \o b)
      BY <1>2, <1>5, AmongConcat
    <2>2. \A x : Among(x, <<p>> \o b) <=> Among(x, <<p>>) \/ Among(x, b)
      BY <1>2, <1>3, AmongConcat
    <2>3. \A x : Among(x, a \o b) <=> Among(x, a) \/ Among(x, b)
      BY <1>2, AmongConcat
    <2>4. \A x : Among(x, q) <=> Among(x, a) \/ Among(x, b)
      BY <1>2, <2>3
    <2>5. \A x : Among(x, InsertPacket(q, p)) <=> Among(x, a) \/ Among(x, <<p>> \o b)
      BY <1>4, <2>1
    <2> QED
      BY <1>7, <2>2, <2>4, <2>5
  <1>9. InsertPacket(q, p) # <<>>
    BY <1>2, <1>6, EmptySeq
  <1> QED
    BY <1>6, <1>8, <1>9

LEMMA InsertSorted ==
    ASSUME NEW q \in Seq(PacketType), NEW p \in PacketType, Sorted(q)
    PROVE  Sorted(InsertPacket(q, p))
  <1>1. PICK k \in 0 .. Len(q) : Place(q, p, k)
    BY InsertPlace
  <1> DEFINE a == SubSeq(q, 1, k)
             b == SubSeq(q, k + 1, Len(q))
             r == InsertPacket(q, p)
  <1>2. /\ a \in Seq(PacketType) /\ b \in Seq(PacketType)
        /\ Len(a) = k /\ Len(b) = Len(q) - k /\ Len(q) \in Nat
        /\ \A i \in 1 .. k : a[i] = q[i]
        /\ \A i \in 1 .. Len(q) - k : b[i] = q[k + i]
    BY Cut, LenProperties
  <1>3. <<p>> \in Seq(PacketType) /\ Len(<<p>>) = 1 /\ <<p>>[1] = p
    BY OfTrackOne
  <1>4. r = a \o (<<p>> \o b)
    BY <1>1 DEF Place
  <1>5. \A i \in 1 .. k : q[i].ts <= p.ts
    BY <1>1 DEF Place
  <1>6. k + 1 \in 1 .. Len(q) => p.ts <= q[k + 1].ts
    BY <1>1 DEF Place
  <1> HIDE DEF a, b
  <1>7. /\ <<p>> \o b \in Seq(PacketType) /\ Len(<<p>> \o b) = 1 + (Len(q) - k)
        /\ \A i \in 1 .. 1 + (Len(q) - k) : (<<p>> \o b)[i] = IF i <= 1 THEN <<p>>[i] ELSE b[i - 1]
    <2>1. PICK c : c = <<p>>
      OBVIOUS
    <2>2. c \in Seq(PacketType) /\ Len(c) = 1
      BY <1>3, <2>1
    <2>3. /\ c \o b \in Seq(PacketType) /\ Len(c \o b) = Len(c) + Len(b)
          /\ \A i \in 1 .. Len(c) + Len(b) : (c \o b)[i] = IF i <= Len(c) THEN c[i] ELSE b[i - Len(c)]
      BY <1>2, <2>2, ConcatProperties
    <2>4. /\ c \o b \in Seq(PacketType) /\ Len(c \o b) = 1 + (Len(q) - k)
          /\ \A i \in 1 .. 1 + (Len(q) - k) : (c \o b)[i] = IF i <= 1 THEN c[i] ELSE b[i - 1]
      BY <1>2, <2>2, <2>3
    <2> QED
      BY <2>1, <2>4
  <1>8. /\ Len(r) = Len(q) + 1
        /\ \A i \in 1 .. k + (1 + (Len(q) - k)) :
               r[i] = IF i <= k THEN a[i] ELSE (<<p>> \o b)[i - k]
    <2>1. Len(r) = Len(q) + 1
      BY InsertTypes
    <2> HIDE DEF r
    <2> QED
      BY <1>2, <1>4, <1>7, <2>1, ConcatProperties
  <1> HIDE DEF r
  <1>9. \A i \in 1 .. Len(r) : /\ i <= k => r[i] = q[i]
                               /\ i = k + 1 => r[i] = p
                               /\ i > k + 1 => r[i] = q[i - 1]
    <2> SUFFICES ASSUME NEW i \in 1 .. Len(r)
                 PROVE  /\ i <= k => r[i] = q[i]
                        /\ i = k + 1 => r[i] = p
                        /\ i > k + 1 => r[i] = q[i - 1]
      OBVIOUS
    <2>1. i \in 1 .. k + (1 + (Len(q) - k)) /\ k \in Nat /\ Len(q) \in Nat
      BY <1>2, <1>8
    <2>2. r[i] = IF i <= k THEN a[i] ELSE (<<p>> \o b)[i - k]
      BY <1>8, <2>1
    <2>3. CASE i <= k
      <3>1. i \in 1 .. k
        BY <2>1, <2>3
      <3> QED
        BY <1>2, <2>1, <2>2, <2>3, <3>1
    <2>4. CASE i = k + 1
      <3>1. i - k = 1 /\ ~ (i <= k) /\ 1 \in 1 .. 1 + (Len(q) - k)
        BY <2>1, <2>4
      <3> QED
        BY <1>3, <1>7, <2>1, <2>2, <2>4, <3>1
    <2>5. CASE i > k + 1
      <3>1. i - k \in 1 .. 1 + (Len(q) - k) /\ ~ (i <= k) /\ ~ (i - k <= 1)
        BY <2>1, <2>5
      <3>2. (i - k) - 1 \in 1 .. Len(q) - k /\ k + ((i - k) - 1) = i - 1 /\ ~ (i = k + 1)
        BY <2>1, <2>5
      <3>3. r[i] = b[(i - k) - 1]
        BY <1>7, <2>2, <3>1
      <3>4. b[(i - k) - 1] = q[k + ((i - k) - 1)]
        BY <1>2, <3>2
      <3>5. r[i] = q[i - 1]
        BY <3>2, <3>3, <3>4, Zenon
      <3> QED
        BY <3>1, <3>2, <3>5
    <2> QED
      BY <2>1, <2>3, <2>4, <2>5
  <1>10. \A i \in 1 .. Len(q) : /\ q[i].ts \in Int
                                /\ i <= k => q[i].ts <= p.ts
                                /\ i > k => p.ts <= q[i].ts
    <2> SUFFICES ASSUME NEW i \in 1 .. Len(q)
                 PROVE  /\ q[i].ts \in Int
                        /\ i <= k => q[i].ts <= p.ts
                        /\ i > k => p.ts <= q[i].ts
      OBVIOUS
    <2>1. q[i] \in PacketType
      BY ElementOfSeq
    <2>2. q[i].ts \in Int /\ p.ts \in Int
      BY <2>1 DEF PacketType
    <2>3. i <= k => i \in 1 .. k
      BY <1>2
    <2>4. CASE i > k
      <3>1. k + 1 \in 1 .. Len(q) /\ (i = k + 1 \/ k + 1 < i)
        BY <1>2, <2>4
      <3>2. q[k + 1].ts \in Int
        <4>1. q[k + 1] \in PacketType
          BY <3>1, ElementOfSeq
        <4> QED
          BY <4>1 DEF PacketType
      <3>3. q[k + 1].ts <= q[i].ts
        BY <3>1, <3>2, <2>2 DEF Sorted
      <3> QED
        BY <1>2, <1>6, <2>2, <2>4, <3>1, <3>2, <3>3
    <2> QED
      BY <1>2, <1>5, <2>2, <2>3, <2>4
  <1>11. ASSUME NEW i \in 1 .. Len(r), NEW j \in 1 .. Len(r), i < j PROVE r[i].ts <= r[j].ts
    <2>1. k \in Nat /\ Len(q) \in Nat /\ p.ts \in Int /\ Len(r) = Len(q) + 1 /\ k <= Len(q)
      BY <1>2, <1>8 DEF PacketType
    <2>2. CASE j <= k
      <3>1. i \in 1 .. Len(q) /\ j \in 1 .. Len(q) /\ i <= k
        BY <1>11, <2>1, <2>2
      <3>2. r[i] = q[i] /\ r[j] = q[j]
        BY <1>9, <2>2, <3>1
      <3> QED
        BY <1>11, <3>1, <3>2 DEF Sorted
    <2>3. CASE j = k + 1
      <3>1. i \in 1 .. Len(q) /\ i <= k
        BY <1>11, <2>1, <2>3
      <3> QED
        BY <1>9, <1>10, <2>3, <3>1
    <2>4. CASE j > k + 1
      <3>1. j - 1 \in 1 .. Len(q) /\ j - 1 > k
        BY <2>1, <2>4
      <3>2. r[j] = q[j - 1] /\ q[j - 1].ts \in Int /\ p.ts <= q[j - 1].ts
        BY <1>9, <1>10, <2>4, <3>1
      <3>3. CASE i <= k
        <4>1. i \in 1 .. Len(q)
          BY <2>1, <3>3
        <4>2. r[i] = q[i] /\ q[i].ts \in Int /\ q[i].ts <= p.ts
          BY <1>9, <1>10, <3>3, <4>1
        <4> QED
          BY <2>1, <3>2, <4>2
      <3>4. CASE i = k + 1
        <4>1. r[i] = p
          BY <1>9, <3>4
        <4> QED
          BY <3>2, <4>1
      <3>5. CASE i > k + 1
        <4>1. i - 1 \in 1 .. Len(q) /\ i - 1 < j - 1
          BY <1>11, <2>1, <3>5
        <4>2. r[i] = q[i - 1]
          BY <1>9, <3>5
        <4> QED
          BY <3>1, <3>2, <4>1, <4>2 DEF Sorted
      <3> QED
        BY <2>1, <3>3, <3>4, <3>5
    <2> QED
      BY <2>1, <2>2, <2>3, <2>4
  <1> QED
    BY <1>11 DEF Sorted, r

(* A packet that is later than all of its track goes behind them. *)
LEMMA InsertTrack ==
    ASSUME NEW q \in Seq(PacketType), NEW p \in PacketType, Sorted(q),
           \A x : Among(x, q) /\ x.track = p.track => x.ts < p.ts
    PROVE  \A t : OfTrack(InsertPacket(q, p), t)
                  = IF p.track = t THEN Append(OfTrack(q, t), p) ELSE OfTrack(q, t)
  <1>1. PICK k \in 0 .. Len(q) : Place(q, p, k)
    BY InsertPlace
  <1> DEFINE a == SubSeq(q, 1, k)
             b == SubSeq(q, k + 1, Len(q))
  <1>2. /\ a \in Seq(PacketType) /\ b \in Seq(PacketType) /\ a \o b = q
        /\ Len(a) = k /\ Len(b) = Len(q) - k /\ Len(q) \in Nat
        /\ \A i \in 1 .. Len(q) - k : b[i] = q[k + i]
    BY Cut, LenProperties
  <1>3. <<p>> \in Seq(PacketType) /\ \A t : OfTrack(<<p>>, t) = IF p.track = t THEN <<p>> ELSE <<>>
    BY OfTrackOne
  <1>4. InsertPacket(q, p) = a \o (<<p>> \o b)
    BY <1>1 DEF Place
  <1>6. k + 1 \in 1 .. Len(q) => p.ts <= q[k + 1].ts
    BY <1>1 DEF Place
  <1> HIDE DEF a, b
  <1>7. \A i \in 1 .. Len(b) : b[i].track # p.track
    <2> SUFFICES ASSUME NEW i \in 1 .. Len(b), b[i].track = p.track PROVE FALSE
      OBVIOUS
    <2>1. b[i] = q[k + i] /\ k + i \in 1 .. Len(q) /\ k + 1 \in 1 .. Len(q) /\ (k + 1 = k + i \/ k + 1 < k + i)
      BY <1>2, SMTT(30)
    <2>2. q[k + i] \in PacketType /\ q[k + 1] \in PacketType
      BY <2>1, ElementOfSeq
    <2>3. q[k + i].ts \in Int /\ q[k + 1].ts \in Int /\ p.ts \in Int
      BY <2>2 DEF PacketType
    <2>4. q[k + 1].ts <= q[k + i].ts
      BY <2>1, <2>3 DEF Sorted
    <2>5. Among(q[k + i], q)
      BY <2>1 DEF Among
    <2>6. q[k + i].ts < p.ts
      BY <2>1, <2>5
    <2> QED
      BY <1>6, <2>1, <2>3, <2>4, <2>6
  <1>8. OfTrack(b, p.track) = <<>>
    <2> SUFFICES ASSUME OfTrack(b, p.track) # <<>> PROVE FALSE
      OBVIOUS
    <2>1. OfTrack(b, p.track) \in Seq(PacketType)
      BY <1>2, OfTrackAppend
    <2>2. Len(OfTrack(b, p.track)) \in Nat \ {0}
      BY <2>1, EmptySeq
    <2>3. 1 \in 1 .. Len(OfTrack(b, p.track))
      BY <2>2
    <2>4. Among(OfTrack(b, p.track)[1], OfTrack(b, p.track))
      BY <2>3 DEF Among
    <2>5. Among(OfTrack(b, p.track)[1], b) /\ OfTrack(b, p.track)[1].track = p.track
      BY <1>2, <2>4, AmongTrack
    <2> QED
      BY <1>7, <2>5 DEF Among
  <1>9. ASSUME NEW t
        PROVE  OfTrack(InsertPacket(q, p), t) = IF p.track = t THEN Append(OfTrack(q, t), p) ELSE OfTrack(q, t)
    <2>1. <<p>> \o b \in Seq(PacketType)
      BY <1>2, <1>3, ConcatProperties
    <2>2. OfTrack(a \o (<<p>> \o b), t) = OfTrack(a, t) \o OfTrack(<<p>> \o b, t)
      <3>1. PICK c : c = <<p>> \o b
        OBVIOUS
      <3>2. c \in Seq(PacketType)
        BY <2>1, <3>1
      <3>3. OfTrack(a \o c, t) = OfTrack(a, t) \o OfTrack(c, t)
        <4>1. a \in Seq(PacketType)
          BY <1>2, <3>2
        <4>2. c \in Seq(PacketType)
          BY <1>2, <3>2
        <4> QED
          BY <4>1, <4>2, TrackConcat, ZenonT(40)
      <3> QED
        BY <3>1, <3>3, Zenon
    <2>3. OfTrack(<<p>> \o b, t) = OfTrack(<<p>>, t) \o OfTrack(b, t)
      <3>1. <<p>> \in Seq(PacketType)
        BY <1>2, <1>3
      <3>2. b \in Seq(PacketType)
        BY <1>2, <1>3
      <3> QED
        BY <3>1, <3>2, TrackConcat, ZenonT(40)
    <2>4. OfTrack(a \o b, t) = OfTrack(a, t) \o OfTrack(b, t)
      <3>1. a \in Seq(PacketType)
        BY <1>2
      <3>2. b \in Seq(PacketType)
        BY <1>2
      <3> QED
        BY <3>1, <3>2, TrackConcat, ZenonT(40)
    <2>5. OfTrack(a, t) \in Seq(PacketType) /\ OfTrack(b, t) \in Seq(PacketType)
      BY <1>2, OfTrackAppend
    <2>6. CASE p.track = t
      <3>1. OfTrack(b, t) = <<>> /\ OfTrack(<<p>>, t) = <<p>>
        BY <1>3, <1>8, <2>6
      <3>2. /\ <<p>> \o <<>> = <<p>> /\ OfTrack(a, t) \o <<>> = OfTrack(a, t)
            /\ Append(OfTrack(a, t), p) = OfTrack(a, t) \o <<p>>
        BY <1>3, <2>5, ConcatEmptySeq, AppendIsConcat
      <3>3. OfTrack(InsertPacket(q, p), t) = OfTrack(a, t) \o <<p>>
        BY <1>4, <2>2, <2>3, <3>1, <3>2, Zenon
      <3>4. OfTrack(q, t) = OfTrack(a, t)
        BY <1>2, <2>4, <3>1, <3>2, Zenon
      <3> QED
        BY <2>6, <3>2, <3>3, <3>4, Zenon
    <2>7. CASE p.track # t
      <3>1. OfTrack(<<p>>, t) = <<>>
        BY <1>3, <2>7
      <3>2. <<>> \o OfTrack(b, t) = OfTrack(b, t)
        BY <2>5, ConcatEmptySeq
      <3>3. OfTrack(InsertPacket(q, p), t) = OfTrack(q, t)
        BY <1>2, <1>4, <2>2, <2>3, <2>4, <3>1, <3>2, Zenon
      <3> QED
        BY <2>7, <3>3
    <2> QED
      BY <2>6, <2>7
  <1> QED
    BY <1>9

-----------------------------------------------------------------------------
(* Types.                                                                   *)

State == [receivedAudio : BOOLEAN, receivedVideo : SUBSET VideoTracks,
          highestAudio : Int, highestVideo : [VideoTracks -> Int],
          offset : [Tracks -> Int], times : [VideoTracks -> Seq(Int)],
          queue : Seq(PacketType), sent : Seq(PacketType)]

(* The clocks of the encoders are of the type the assumption gives them. *)
Clocks == origin \in [Tracks -> [dts : Int, sys : Nat]]

LEMMA TrackFacts ==
    /\ \A t \in Tracks : /\ Time(t[1]) \in Nat /\ Time(t[1]) > 0
                         /\ t[1] = "video" => t[2] \in VideoTracks /\ t = <<"video", t[2]>>
                         /\ t[1] # "video" => t[1] = "audio" /\ t[2] \in AudioTracks /\ t = <<"audio", t[2]>>
    /\ \A v \in VideoTracks : <<"video", v>> \in Tracks /\ <<"video", v>>[1] = "video" /\ <<"video", v>>[2] = v
    /\ \A a \in AudioTracks : <<"audio", a>> \in Tracks /\ <<"audio", a>>[1] = "audio" /\ <<"audio", a>>[2] = a
    /\ 0 \in VideoTracks /\ AudioTracks # {} /\ AudioTracks \subseteq Nat
  <1>1. VideoTime \in Nat /\ VideoTime > 0 /\ AudioTime \in Nat /\ AudioTime > 0
    BY TrackAssumption
  <1>2. \A t \in Tracks : Time(t[1]) \in Nat /\ Time(t[1]) > 0
    BY <1>1 DEF Time
  <1>3. \A t \in Tracks : /\ t[1] = "video" => t[2] \in VideoTracks /\ t = <<"video", t[2]>>
                          /\ t[1] # "video" => t[1] = "audio" /\ t[2] \in AudioTracks /\ t = <<"audio", t[2]>>
    BY DEF Tracks
  <1>4. /\ \A v \in VideoTracks : <<"video", v>> \in Tracks
        /\ \A a \in AudioTracks : <<"audio", a>> \in Tracks
    BY DEF Tracks
  <1> QED
    BY <1>2, <1>3, <1>4, TrackAssumption

LEMMA PacketFacts ==
    ASSUME Clocks, NEW t \in Tracks, NEW n \in Nat
    PROVE  /\ Packet(t, n) \in PacketType /\ Packet(t, n).track = t /\ Packet(t, n).n = n
           /\ Packet(t, n).dts = origin[t].dts + n * Time(t[1])
           /\ Packet(t, n).pts = IF t[1] = "video" THEN Packet(t, n).dts + Lead ELSE Packet(t, n).dts
           /\ Packet(t, n).ts = origin[t].sys + n * Time(t[1])
           /\ origin[t].dts \in Int /\ origin[t].sys \in Nat /\ n * Time(t[1]) \in Nat
  <1>1. origin[t].dts \in Int /\ origin[t].sys \in Nat
    BY DEF Clocks
  <1>2. n * Time(t[1]) \in Nat
    <2>1. \A a, b \in Nat : a * b \in Nat
      OBVIOUS
    <2> QED
      BY <2>1, TrackFacts
  <1>3. Lead \in Nat
    BY TrackAssumption
  <1> DEFINE d == origin[t].dts + n * Time(t[1])
             y == origin[t].sys + n * Time(t[1])
             k == t[1] = "audio" \/ n % Gop = 0
             w == IF t[1] = "video" THEN d + Lead ELSE d
  <1>4. Packet(t, n) = [track |-> t, n |-> n, key |-> k, dts |-> d, pts |-> w, ts |-> y]
    BY Zenon DEF Packet
  <1>5. d \in Int /\ y \in Int /\ w \in Int
    BY <1>1, <1>2, <1>3
  <1>6. k \in BOOLEAN
    OBVIOUS
  <1> HIDE DEF d, y, k, w
  <1>7. /\ Packet(t, n) \in PacketType /\ Packet(t, n).track = t /\ Packet(t, n).n = n
        /\ Packet(t, n).dts = d /\ Packet(t, n).pts = w /\ Packet(t, n).ts = y
    BY <1>4, <1>5, <1>6 DEF PacketType
  <1> QED
    BY <1>1, <1>2, <1>7 DEF d, y, w

LEMMA OffsetFacts ==
    ASSUME NEW s \in State, NEW p \in PacketType
    PROVE  /\ ApplyOffset(s, p) \in PacketType
           /\ ApplyOffset(s, p).track = p.track /\ ApplyOffset(s, p).n = p.n
           /\ ApplyOffset(s, p).pts = p.pts - s.offset[p.track]
           /\ ApplyOffset(s, p).ts = p.dts - s.offset[p.track]
           /\ s.offset[p.track] \in Int
  <1>1. s.offset[p.track] \in Int
    BY DEF State, PacketType
  <1> DEFINE d == p.dts - s.offset[p.track]
             w == p.pts - s.offset[p.track]
  <1>2. ApplyOffset(s, p) = [p EXCEPT !.dts = d, !.pts = w, !.ts = d]
    <2>1. [p EXCEPT !.dts = d].pts = p.pts
      BY DEF PacketType
    <2> QED
      BY <2>1, Zenon DEF ApplyOffset
  <1>3. d \in Int /\ w \in Int
    <2>1. p.dts \in Int /\ p.pts \in Int
      BY DEF PacketType
    <2> QED
      BY <1>1, <2>1
  <1> HIDE DEF d, w
  <1>4. /\ ApplyOffset(s, p) \in PacketType /\ ApplyOffset(s, p).track = p.track /\ ApplyOffset(s, p).n = p.n
        /\ ApplyOffset(s, p).pts = w /\ ApplyOffset(s, p).ts = d
    BY <1>2, <1>3 DEF PacketType
  <1> QED
    BY <1>1, <1>4 DEF d, w

(* Fields that a step leaves alone. *)
SameMarks(s, d) == /\ d.receivedAudio = s.receivedAudio /\ d.receivedVideo = s.receivedVideo
                   /\ d.sent = s.sent
SameRest(s, d) == /\ SameMarks(s, d) /\ d.offset = s.offset
                  /\ d.highestAudio = s.highestAudio /\ d.highestVideo = s.highestVideo

LEMMA DiscardFacts ==
    ASSUME NEW s \in State, NEW k \in 0 .. Len(s.queue)
    PROVE  /\ DiscardToIdx(s, k) \in State /\ SameRest(s, DiscardToIdx(s, k))
           /\ DiscardToIdx(s, k).queue = SubSeq(s.queue, k + 1, Len(s.queue))
           /\ s.queue = SubSeq(s.queue, 1, k) \o DiscardToIdx(s, k).queue
           /\ SubSeq(s.queue, 1, k) \in Seq(PacketType)
           /\ \A v \in VideoTracks :
                  DiscardToIdx(s, k).times[v] =
                  SubSeq(s.times[v], Len(OfTrack(SubSeq(s.queue, 1, k), <<"video", v>>)) + 1, Len(s.times[v]))
           /\ \A x : Among(x, DiscardToIdx(s, k).queue) => Among(x, s.queue)
  <1> DEFINE a == SubSeq(s.queue, 1, k)
             b == SubSeq(s.queue, k + 1, Len(s.queue))
             gone(v) == Len(OfTrack(a, <<"video", v>>))
             m == [v \in VideoTracks |-> SubSeq(s.times[v], gone(v) + 1, Len(s.times[v]))]
  <1>1. s.queue \in Seq(PacketType) /\ s.times \in [VideoTracks -> Seq(Int)]
    BY DEF State
  <1>2. a \in Seq(PacketType) /\ b \in Seq(PacketType) /\ s.queue = a \o b
    BY <1>1, Cut
  <1>3. DiscardToIdx(s, k) = [s EXCEPT !.queue = b, !.times = m]
    <2>1. [s EXCEPT !.queue = b].times = s.times
      BY DEF State
    <2> QED
      BY <2>1 DEF DiscardToIdx
  <1>4. m \in [VideoTracks -> Seq(Int)]
    <2>1. ASSUME NEW v \in VideoTracks PROVE SubSeq(s.times[v], gone(v) + 1, Len(s.times[v])) \in Seq(Int)
      <3>1. s.times[v] \in Seq(Int) /\ OfTrack(a, <<"video", v>>) \in Seq(PacketType)
        BY <1>1, <1>2, OfTrackAppend
      <3>2. gone(v) \in Nat /\ Len(s.times[v]) \in Nat
        BY <3>1, LenProperties
      <3>3. \A i \in gone(v) + 1 .. Len(s.times[v]) : s.times[v][i] \in Int
        <4>1. \A i \in gone(v) + 1 .. Len(s.times[v]) : i \in 1 .. Len(s.times[v])
          BY <3>2
        <4>2. \A i \in 1 .. Len(s.times[v]) : s.times[v][i] \in Int
          BY <3>1, ElementOfSeq
        <4> HIDE DEF gone
        <4> QED
          BY <4>1, <4>2
      <3>4. gone(v) + 1 \in Int /\ Len(s.times[v]) \in Int
        BY <3>2
      <3> HIDE DEF gone
      <3> QED
        BY <3>3, <3>4, SubSeqProperties
    <2> HIDE DEF gone
    <2> QED
      BY <2>1
  <1>5. \A v \in VideoTracks : m[v] = SubSeq(s.times[v], gone(v) + 1, Len(s.times[v]))
    OBVIOUS
  <1>6. \A x : Among(x, b) => Among(x, s.queue)
    <2> HIDE DEF a, b, gone, m
    <2>1. \A x : Among(x, a \o b) <=> Among(x, a) \/ Among(x, b)
      BY <1>2, AmongConcat
    <2> QED
      BY <1>2, <2>1
  <1> HIDE DEF m
  <1>7. DiscardToIdx(s, k) \in State /\ DiscardToIdx(s, k).queue = b /\ DiscardToIdx(s, k).times = m
        /\ SameRest(s, DiscardToIdx(s, k))
    <2> HIDE DEF b
    <2> QED
      BY <1>2, <1>3, <1>4 DEF State, SameRest, SameMarks
  <1> QED
    BY <1>2, <1>5, <1>6, <1>7

(* The greater of the highest timestamp so far and the packet's. *)
Higher(x, y) == IF x < y THEN y ELSE x

LEMMA HigherFacts ==
    ASSUME NEW s \in State, NEW p \in PacketType
    PROVE  /\ SetHigherTs(s, p) \in State /\ SameMarks(s, SetHigherTs(s, p))
           /\ SetHigherTs(s, p).offset = s.offset
           /\ SetHigherTs(s, p).queue = s.queue /\ SetHigherTs(s, p).times = s.times
           /\ ~ IsVideo(p) => /\ SetHigherTs(s, p).highestVideo = s.highestVideo
                              /\ SetHigherTs(s, p).highestAudio = Higher(s.highestAudio, p.ts)
           /\ IsVideo(p) => /\ SetHigherTs(s, p).highestAudio = s.highestAudio
                            /\ p.track[2] \in VideoTracks
                            /\ SetHigherTs(s, p).highestVideo
                               = [s.highestVideo EXCEPT ![p.track[2]] = Higher(@, p.ts)]
  <1>1. p.ts \in Int /\ p.track \in Tracks
    BY DEF PacketType
  <1>2. s.highestAudio \in Int /\ s.highestVideo \in [VideoTracks -> Int]
    BY DEF State
  <1>3. CASE ~ IsVideo(p)
    <2>1. SetHigherTs(s, p) = [s EXCEPT !.highestAudio = Higher(@, p.ts)]
      BY <1>3, Zenon DEF SetHigherTs, Higher
    <2>2. Higher(s.highestAudio, p.ts) \in Int
      BY <1>1, <1>2 DEF Higher
    <2> QED
      BY <1>3, <2>1, <2>2 DEF State, SameMarks
  <1>4. CASE IsVideo(p)
    <2> DEFINE v == p.track[2]
               h == [s.highestVideo EXCEPT ![v] = Higher(@, p.ts)]
    <2>1. v \in VideoTracks
      BY <1>1, <1>4, TrackFacts DEF IsVideo
    <2>2. h \in [VideoTracks -> Int]
      <3>1. Higher(s.highestVideo[v], p.ts) \in Int
        BY <1>1, <1>2, <2>1 DEF Higher
      <3> HIDE DEF v
      <3> QED
        BY <1>2, <2>1, <3>1
    <2>3. SetHigherTs(s, p) = [s EXCEPT !.highestVideo = h]
      BY <1>4, Zenon DEF SetHigherTs, Higher
    <2> HIDE DEF h
    <2>4. /\ SetHigherTs(s, p) \in State /\ SameMarks(s, SetHigherTs(s, p))
          /\ SetHigherTs(s, p).offset = s.offset
          /\ SetHigherTs(s, p).queue = s.queue /\ SetHigherTs(s, p).times = s.times
          /\ SetHigherTs(s, p).highestAudio = s.highestAudio
          /\ SetHigherTs(s, p).highestVideo = h
      BY <2>2, <2>3 DEF State, SameMarks
    <2> QED
      BY <1>4, <2>1, <2>4 DEF h
  <1> QED
    BY <1>3, <1>4

-----------------------------------------------------------------------------
(* resort_interleaved_packets.                                              *)

Moved(z, p) == [SetHigherTs(z, p) EXCEPT !.queue = InsertPacket(@, p)]

Increasing(q) ==
    \A i, j \in 1 .. Len(q) : i < j /\ q[i].track = q[j].track => q[i].ts < q[j].ts

(* The highest timestamps are the old ones or those of queued packets. *)
Highest(s, z) ==
    /\ \/ z.highestAudio = s.highestAudio
       \/ \E x : Among(x, z.queue) /\ ~ IsVideo(x) /\ x.ts = z.highestAudio
    /\ \A v \in VideoTracks :
           \/ z.highestVideo[v] = s.highestVideo[v]
           \/ \E x : Among(x, z.queue) /\ x.track = <<"video", v>> /\ x.ts = z.highestVideo[v]

(* n packets have been moved. *)
Resorted(s, z, n) ==
    /\ z \in State /\ SameMarks(s, z) /\ z.offset = s.offset /\ z.times = s.times
    /\ Len(z.queue) = n
    /\ \A x : Among(x, z.queue) <=> Among(x, SubSeq(s.queue, 1, n))
    /\ Highest(s, z)
    /\ Increasing(s.queue) =>
           /\ Sorted(z.queue)
           /\ \A t : OfTrack(z.queue, t) = OfTrack(SubSeq(s.queue, 1, n), t)

LEMMA MovedFields ==
    ASSUME NEW z \in State, NEW p \in PacketType
    PROVE  /\ Moved(z, p) \in State /\ SameMarks(z, Moved(z, p))
           /\ Moved(z, p).offset = z.offset /\ Moved(z, p).times = z.times
           /\ Moved(z, p).queue = InsertPacket(z.queue, p)
           /\ Moved(z, p).highestAudio = SetHigherTs(z, p).highestAudio
           /\ Moved(z, p).highestVideo = SetHigherTs(z, p).highestVideo
  <1> DEFINE y == SetHigherTs(z, p)
             r == InsertPacket(z.queue, p)
  <1>1. y \in State /\ SameMarks(z, y) /\ y.offset = z.offset /\ y.times = z.times /\ y.queue = z.queue
    BY HigherFacts
  <1>2. z.queue \in Seq(PacketType)
    BY DEF State
  <1>3. r \in Seq(PacketType)
    BY <1>2, InsertTypes
  <1>4. Moved(z, p) = [y EXCEPT !.queue = r]
    BY <1>1, Zenon DEF Moved
  <1> HIDE DEF y, r
  <1> QED
    BY <1>1, <1>3, <1>4 DEF State, SameMarks, y, r

LEMMA MovedHighest ==
    ASSUME NEW s \in State, NEW z \in State, NEW p \in PacketType, Highest(s, z)
    PROVE  Highest(s, Moved(z, p))
  <1> DEFINE d == Moved(z, p)
  <1>1. /\ d.queue = InsertPacket(z.queue, p)
        /\ d.highestAudio = SetHigherTs(z, p).highestAudio
        /\ d.highestVideo = SetHigherTs(z, p).highestVideo
    BY MovedFields
  <1>2. z.queue \in Seq(PacketType) /\ z.highestVideo \in [VideoTracks -> Int] /\ p.track \in Tracks
    BY DEF State, PacketType
  <1>3. \A x : Among(x, d.queue) <=> Among(x, z.queue) \/ x = p
    BY <1>1, <1>2, InsertTypes
  <1> HIDE DEF d
  <1>4. CASE ~ IsVideo(p)
    <2>1. d.highestVideo = z.highestVideo /\ (d.highestAudio = z.highestAudio \/ d.highestAudio = p.ts)
      BY <1>1, <1>4, HigherFacts DEF Higher
    <2> QED
      BY <1>3, <1>4, <2>1 DEF Highest, d
  <1>5. CASE IsVideo(p)
    <2>1. /\ d.highestAudio = z.highestAudio /\ p.track[2] \in VideoTracks
          /\ d.highestVideo = [z.highestVideo EXCEPT ![p.track[2]] = Higher(@, p.ts)]
      BY <1>1, <1>5, HigherFacts
    <2>2. p.track = <<"video", p.track[2]>>
      BY <1>2, <1>5, TrackFacts DEF IsVideo
    <2>3. \A v \in VideoTracks : \/ d.highestVideo[v] = z.highestVideo[v]
                                 \/ v = p.track[2] /\ d.highestVideo[v] = p.ts
      BY <1>2, <2>1 DEF Higher
    <2>4. \A v \in VideoTracks :
              \/ d.highestVideo[v] = s.highestVideo[v]
              \/ \E x : Among(x, d.queue) /\ x.track = <<"video", v>> /\ x.ts = d.highestVideo[v]
      <3> SUFFICES ASSUME NEW v \in VideoTracks
                   PROVE  \/ d.highestVideo[v] = s.highestVideo[v]
                          \/ \E x : Among(x, d.queue) /\ x.track = <<"video", v>> /\ x.ts = d.highestVideo[v]
        OBVIOUS
      <3>1. CASE d.highestVideo[v] = z.highestVideo[v]
        BY <1>3, <3>1 DEF Highest
      <3>2. CASE v = p.track[2] /\ d.highestVideo[v] = p.ts
        BY <1>3, <2>2, <3>2
      <3> QED
        BY <2>3, <3>1, <3>2
    <2>5. \/ d.highestAudio = s.highestAudio
          \/ \E x : Among(x, d.queue) /\ ~ IsVideo(x) /\ x.ts = d.highestAudio
      BY <1>3, <2>1 DEF Highest
    <2>6. Highest(s, d)
      BY <2>4, <2>5 DEF Highest
    <2> QED
      BY <2>6 DEF d
  <1> QED
    BY <1>4, <1>5

LEMMA MovedStep ==
    ASSUME NEW s \in State, NEW n \in 1 .. Len(s.queue), NEW z, Resorted(s, z, n - 1)
    PROVE  Resorted(s, Moved(z, s.queue[n]), n)
  <1> DEFINE p == s.queue[n]
             d == Moved(z, p)
             q == SubSeq(s.queue, 1, n - 1)
             r == SubSeq(s.queue, 1, n)
  <1>1. s.queue \in Seq(PacketType) /\ z \in State /\ z.queue \in Seq(PacketType)
    BY DEF State, Resorted
  <1>2. p \in PacketType /\ Len(s.queue) \in Nat
    BY <1>1, ElementOfSeq, LenProperties
  <1>3. n - 1 \in 0 .. Len(s.queue) /\ 1 \in 1 .. Len(s.queue) /\ n \in 1 .. Len(s.queue)
    BY <1>2
  <1>4. q \in Seq(PacketType) /\ Len(q) = n - 1 /\ \A i \in 1 .. n - 1 : q[i] = s.queue[i]
    BY <1>1, <1>3, Cut
  <1>5. r = Append(q, p)
    <2>1. r = q \o <<p>>
      BY <1>1, <1>3, SubSeqRecursiveSecond
    <2>2. Append(q, p) = q \o <<p>>
      BY <1>2, <1>4, AppendIsConcat
    <2> QED
      BY <2>1, <2>2, Zenon
  <1>6. \A x : Among(x, r) <=> Among(x, q) \/ x = p
    <2> HIDE DEF p, q, r
    <2>1. \A x : Among(x, Append(q, p)) <=> Among(x, q) \/ x = p
      BY <1>2, <1>4, AmongAppend
    <2> QED
      BY <1>5, <2>1
  <1> HIDE DEF p, d, q, r
  <1>7. /\ d \in State /\ SameMarks(z, d) /\ d.offset = z.offset /\ d.times = z.times
        /\ d.queue = InsertPacket(z.queue, p)
    BY <1>1, <1>2, MovedFields DEF d
  <1>8. Len(d.queue) = n /\ \A x : Among(x, d.queue) <=> Among(x, r)
    <2>1. Len(z.queue) = n - 1 /\ \A x : Among(x, z.queue) <=> Among(x, q)
      BY DEF Resorted, q
    <2>2. Len(d.queue) = Len(z.queue) + 1 /\ \A x : Among(x, d.queue) <=> Among(x, z.queue) \/ x = p
      <3>1. /\ Len(InsertPacket(z.queue, p)) = Len(z.queue) + 1
            /\ \A x : Among(x, InsertPacket(z.queue, p)) <=> Among(x, z.queue) \/ x = p
        BY <1>1, <1>2, InsertTypes
      <3> QED
        BY <1>7, <3>1, Zenon
    <2> QED
      BY <1>6, <2>1, <2>2
  <1>9. SameMarks(s, d) /\ d.offset = s.offset /\ d.times = s.times
    BY <1>7 DEF Resorted, SameMarks
  <1>10. Highest(s, d)
    BY <1>1, <1>2, MovedHighest DEF Resorted, d
  <1>11. ASSUME Increasing(s.queue)
         PROVE  Sorted(d.queue) /\ \A t : OfTrack(d.queue, t) = OfTrack(r, t)
    <2>1. Sorted(z.queue) /\ \A t : OfTrack(z.queue, t) = OfTrack(q, t)
      BY <1>11 DEF Resorted, q
    <2>2. \A x : Among(x, z.queue) /\ x.track = p.track => x.ts < p.ts
      <3> SUFFICES ASSUME NEW x, Among(x, z.queue), x.track = p.track PROVE x.ts < p.ts
        OBVIOUS
      <3>1. Among(x, q)
        BY DEF Resorted, q
      <3>2. PICK i \in 1 .. n - 1 : q[i] = x
        BY <1>4, <3>1 DEF Among
      <3>3. i \in 1 .. Len(s.queue) /\ i < n /\ s.queue[i] = x
        BY <1>2, <1>4, <3>2
      <3> QED
        BY <1>11, <3>3 DEF Increasing, p
    <2>3. Sorted(d.queue)
      BY <1>1, <1>2, <1>7, <2>1, InsertSorted
    <2>4. ASSUME NEW t PROVE OfTrack(d.queue, t) = OfTrack(r, t)
      <3>1. OfTrack(d.queue, t) = IF p.track = t THEN Append(OfTrack(z.queue, t), p) ELSE OfTrack(z.queue, t)
        <4>1. \A w : OfTrack(InsertPacket(z.queue, p), w)
                     = IF p.track = w THEN Append(OfTrack(z.queue, w), p) ELSE OfTrack(z.queue, w)
          BY <1>1, <1>2, <2>1, <2>2, InsertTrack
        <4> QED
          BY <1>7, <4>1, Zenon
      <3>2. OfTrack(r, t) = IF p.track = t THEN Append(OfTrack(q, t), p) ELSE OfTrack(q, t)
        BY <1>2, <1>4, <1>5, OfTrackAppend
      <3> QED
        BY <2>1, <3>1, <3>2
    <2> QED
      BY <2>3, <2>4
  <1>12. Resorted(s, d, n)
    BY <1>7, <1>8, <1>9, <1>10, <1>11 DEF Resorted, r
  <1> QED
    BY <1>12 DEF d, p

LEMMA ResortFacts ==
    ASSUME NEW s \in State
    PROVE  /\ Resort(s) \in State /\ SameMarks(s, Resort(s))
           /\ Resort(s).offset = s.offset /\ Resort(s).times = s.times
           /\ Len(Resort(s).queue) = Len(s.queue)
           /\ \A x : Among(x, Resort(s).queue) <=> Among(x, s.queue)
           /\ Highest(s, Resort(s))
           /\ Increasing(s.queue) => /\ Sorted(Resort(s).queue)
                                     /\ \A t : OfTrack(Resort(s).queue, t) = OfTrack(s.queue, t)
  <1> DEFINE n == Len(s.queue)
             zero == [s EXCEPT !.queue = <<>>]
             next1(f, i) == IF i = 0 THEN zero ELSE Moved(f[i - 1], s.queue[i])
             E(f) == f = [i \in 0 .. n |-> next1(f, i)]
             it == CHOOSE f : E(f)
             S == [i \in 0 .. n |-> {z \in State : Resorted(s, z, i)}]
             step == [x \in (1 .. n) \X State |-> Moved(x[2], s.queue[x[1]])]
  <1>1. Resort(s) = it[n]
    BY Zenon DEF Resort, Moved
  <1>2. s.queue \in Seq(PacketType) /\ n \in Nat
    BY LenProperties DEF State
  <1>3. /\ \A i \in 0 .. n : S[i] = {z \in State : Resorted(s, z, i)}
        /\ \A i \in 1 .. n : i \in 0 .. n /\ i - 1 \in 0 .. n /\ i # 0
        /\ 0 \in 0 .. n /\ n \in 0 .. n
    BY <1>2
  <1>4. zero \in S[0]
    <2>1. <<>> \in Seq(PacketType) /\ Len(<<>>) = 0 /\ SubSeq(s.queue, 1, 0) = <<>>
      BY EmptySeq, SubSeqEmpty
    <2>2. /\ zero \in State /\ SameMarks(s, zero) /\ zero.offset = s.offset /\ zero.times = s.times
          /\ zero.queue = <<>> /\ zero.highestAudio = s.highestAudio /\ zero.highestVideo = s.highestVideo
      BY <2>1 DEF State, SameMarks
    <2> HIDE DEF zero
    <2>3. Sorted(zero.queue) /\ Highest(s, zero)
      BY <2>1, <2>2 DEF Sorted, Highest
    <2>4. Resorted(s, zero, 0)
      BY <2>1, <2>2, <2>3 DEF Resorted
    <2> HIDE DEF S
    <2> QED
      BY <1>3, <2>2, <2>4
  <1>5. ASSUME NEW i \in 1 .. n, NEW z \in S[i - 1]
        PROVE  step[<<i, z>>] = Moved(z, s.queue[i]) /\ step[<<i, z>>] \in S[i]
    <2>1. z \in State /\ Resorted(s, z, i - 1)
      BY <1>3
    <2>2. step[<<i, z>>] = Moved(z, s.queue[i])
      BY <2>1
    <2>3. Resorted(s, Moved(z, s.queue[i]), i)
      BY <2>1, MovedStep
    <2>4. Moved(z, s.queue[i]) \in State
      BY <2>3 DEF Resorted
    <2> HIDE DEF S, step
    <2> QED
      BY <1>3, <2>2, <2>3, <2>4
  <1>6. PICK f : /\ Recurs(f, zero, step, n) /\ \A i \in 0 .. n : f[i] \in S[i]
                 /\ f = [i \in 0 .. n |-> f[i]]
    <2> HIDE DEF S, step, zero, n
    <2> QED
      BY <1>2, <1>4, <1>5, Recursion
  <1>7. \A i \in 0 .. n : f[i] = next1(f, i)
    <2>1. f[0] = next1(f, 0)
      BY <1>6 DEF Recurs
    <2>2. ASSUME NEW i \in 1 .. n PROVE f[i] = next1(f, i)
      <3>1. f[i] = step[<<i, f[i - 1]>>]
        BY <1>6 DEF Recurs
      <3>2. step[<<i, f[i - 1]>>] = Moved(f[i - 1], s.queue[i])
        BY <1>3, <1>5, <1>6
      <3> QED
        BY <1>3, <3>1, <3>2, Zenon
    <2>3. \A i \in 0 .. n : i = 0 \/ i \in 1 .. n
      BY <1>2
    <2> HIDE DEF next1
    <2> QED
      BY <2>1, <2>2, <2>3
  <1>8. E(f)
    <2> HIDE DEF next1
    <2>1. f = [i \in 0 .. n |-> f[i]]
      BY <1>6
    <2>2. [i \in 0 .. n |-> f[i]] = [i \in 0 .. n |-> next1(f, i)]
      BY <1>7
    <2> QED
      BY <2>1, <2>2
  <1>9. E(it)
    <2> HIDE DEF E
    <2> QED
      BY <1>8, Zenon
  <1> HIDE DEF it
  <1>10. Follows(it, S, zero, step, n)
    <2>1. it[0] = zero
      <3> HIDE DEF zero
      <3> QED
        BY <1>3, <1>9
    <2>2. ASSUME NEW i \in 1 .. n, it[i - 1] \in S[i - 1]
          PROVE  it[i] = step[<<i, it[i - 1]>>]
      <3>1. it[i] = next1(it, i)
        <4> HIDE DEF next1
        <4> QED
          BY <1>3, <1>9
      <3>2. step[<<i, it[i - 1]>>] = Moved(it[i - 1], s.queue[i])
        BY <1>5, <2>2
      <3> QED
        BY <1>3, <3>1, <3>2, Zenon
    <2> HIDE DEF S, step, zero, n
    <2> QED
      BY <2>1, <2>2 DEF Follows
  <1>11. it[n] \in S[n]
    <2> HIDE DEF next1, E, S, step, zero, n
    <2>1. \A N \in Nat : /\ Recurs(f, zero, step, N) /\ Follows(it, S, zero, step, N)
                         /\ \A i \in 0 .. N : f[i] \in S[i]
                         => \A i \in 0 .. N : it[i] = f[i]
      BY RecursionUnique
    <2>2. \A i \in 0 .. n : it[i] = f[i]
      BY <1>2, <1>6, <1>10, <2>1
    <2> QED
      BY <1>3, <1>6, <2>2
  <1>12. Resorted(s, Resort(s), n)
    <2> HIDE DEF S
    <2> QED
      BY <1>1, <1>3, <1>11
  <1>13. SubSeq(s.queue, 1, n) = s.queue
    BY <1>2, SubSeqFull
  <1> QED
    BY <1>12, <1>13 DEF Resorted

-----------------------------------------------------------------------------
(* The offsets, and sending.                                                *)

LEMMA FunctionSeq ==
    ASSUME NEW S, NEW n \in Nat, NEW f \in [1 .. n -> S]
    PROVE  f \in Seq(S) /\ Len(f) = n
  OBVIOUS

Shifted(s, q) == [i \in 1 .. Len(q) |-> ApplyOffset(s, q[i])]

LEMMA ShiftedFacts ==
    ASSUME NEW s \in State, NEW q \in Seq(PacketType)
    PROVE  /\ Shifted(s, q) \in Seq(PacketType) /\ Len(Shifted(s, q)) = Len(q)
           /\ \A i \in 1 .. Len(q) : Shifted(s, q)[i] = ApplyOffset(s, q[i])
  <1>1. \A i \in 1 .. Len(q) : ApplyOffset(s, q[i]) \in PacketType
    BY ElementOfSeq, OffsetFacts
  <1>2. Shifted(s, q) \in [1 .. Len(q) -> PacketType]
    BY <1>1 DEF Shifted
  <1>3. Len(q) \in Nat
    BY LenProperties
  <1>4. \A i \in 1 .. Len(q) : Shifted(s, q)[i] = ApplyOffset(s, q[i])
    BY DEF Shifted
  <1> QED
    BY <1>2, <1>3, <1>4, FunctionSeq

LEMMA ShiftedAppend ==
    ASSUME NEW s \in State, NEW q \in Seq(PacketType), NEW p \in PacketType
    PROVE  Shifted(s, Append(q, p)) = Append(Shifted(s, q), ApplyOffset(s, p))
  <1> DEFINE r == Append(q, p)
             a == Shifted(s, q)
             b == Shifted(s, r)
             o == ApplyOffset(s, p)
             c == Append(a, o)
  <1>1. /\ r \in Seq(PacketType) /\ Len(r) = Len(q) + 1 /\ r[Len(q) + 1] = p /\ Len(q) \in Nat
        /\ \A i \in 1 .. Len(q) : r[i] = q[i]
    BY AppendProperties, LenProperties
  <1>2. /\ a \in Seq(PacketType) /\ Len(a) = Len(q)
        /\ \A i \in 1 .. Len(q) : a[i] = ApplyOffset(s, q[i])
    BY ShiftedFacts
  <1> HIDE DEF r
  <1>3. /\ b \in Seq(PacketType) /\ Len(b) = Len(r)
        /\ \A i \in 1 .. Len(r) : b[i] = ApplyOffset(s, r[i])
    BY <1>1, ShiftedFacts
  <1>4. o \in PacketType
    BY OffsetFacts
  <1> HIDE DEF a, b, o
  <1>5. /\ c \in Seq(PacketType) /\ Len(c) = Len(q) + 1 /\ c[Len(q) + 1] = o
        /\ \A i \in 1 .. Len(q) : c[i] = a[i]
    BY <1>2, <1>4, AppendProperties
  <1> HIDE DEF c
  <1>6. \A i \in 1 .. Len(b) : i \in 1 .. Len(q) \/ i = Len(q) + 1
    BY <1>1, <1>3
  <1>7. \A i \in 1 .. Len(q) : b[i] = c[i]
    <2>1. \A i \in 1 .. Len(q) : i \in 1 .. Len(r)
      BY <1>1
    <2> QED
      BY <1>1, <1>2, <1>3, <1>5, <2>1
  <1>8. b[Len(q) + 1] = c[Len(q) + 1]
    <2>1. Len(q) + 1 \in 1 .. Len(r)
      BY <1>1
    <2> QED
      BY <1>1, <1>3, <1>5, <2>1 DEF o
  <1>9. \A i \in 1 .. Len(b) : b[i] = c[i]
    BY <1>6, <1>7, <1>8
  <1>10. Len(b) = Len(c)
    BY <1>1, <1>3, <1>5
  <1>11. b = c
    BY <1>3, <1>5, <1>9, <1>10, SeqEqual
  <1> QED
    BY <1>11 DEF a, b, c, o, r

LEMMA ShiftedTrack ==
    ASSUME NEW s \in State, NEW q \in Seq(PacketType), NEW t
    PROVE  OfTrack(Shifted(s, q), t) = Shifted(s, OfTrack(q, t))
  <1> DEFINE T == {r \in Seq(PacketType) : OfTrack(Shifted(s, r), t) = Shifted(s, OfTrack(r, t))}
  <1>1. <<>> \in T
    <2>1. <<>> \in Seq(PacketType) /\ OfTrack(<<>>, t) = <<>>
      BY OfTrackAppend, EmptySeq
    <2>2. Shifted(s, <<>>) = <<>>
      <3>1. Len(Shifted(s, <<>>)) = 0 /\ Shifted(s, <<>>) \in Seq(PacketType)
        BY <2>1, ShiftedFacts, EmptySeq
      <3> QED
        BY <3>1, EmptySeq
    <2> QED
      BY <2>1, <2>2
  <1>2. ASSUME NEW r \in Seq(PacketType), NEW p \in PacketType, r \in T PROVE Append(r, p) \in T
    <2> DEFINE o == ApplyOffset(s, p)
    <2>1. o \in PacketType /\ o.track = p.track
      BY OffsetFacts
    <2>2. Shifted(s, r) \in Seq(PacketType) /\ OfTrack(r, t) \in Seq(PacketType) /\ Append(r, p) \in Seq(PacketType)
      BY ShiftedFacts, OfTrackAppend, AppendProperties
    <2>3. Shifted(s, Append(r, p)) = Append(Shifted(s, r), o)
      BY ShiftedAppend
    <2>4. Shifted(s, Append(OfTrack(r, t), p)) = Append(Shifted(s, OfTrack(r, t)), o)
      BY <2>2, ShiftedAppend
    <2>5. OfTrack(Append(r, p), t) = IF p.track = t THEN Append(OfTrack(r, t), p) ELSE OfTrack(r, t)
      BY OfTrackAppend
    <2> HIDE DEF o
    <2>6. OfTrack(Append(Shifted(s, r), o), t)
          = IF p.track = t THEN Append(OfTrack(Shifted(s, r), t), o) ELSE OfTrack(Shifted(s, r), t)
      BY <2>1, <2>2, OfTrackAppend
    <2>7. OfTrack(Shifted(s, r), t) = Shifted(s, OfTrack(r, t))
      BY <1>2
    <2>8. OfTrack(Shifted(s, Append(r, p)), t) = Shifted(s, OfTrack(Append(r, p), t))
      BY <2>3, <2>4, <2>5, <2>6, <2>7, Zenon
    <2> QED
      BY <2>2, <2>8
  <1> HIDE DEF T
  <1>3. q \in T
    BY <1>1, <1>2, SeqSet
  <1> QED
    BY <1>3 DEF T

LEMMA ApplyOffsetsFacts ==
    ASSUME NEW s \in State
    PROVE  /\ ApplyOffsets(s) \in State /\ SameRest(s, ApplyOffsets(s))
           /\ ApplyOffsets(s).queue = Shifted(s, s.queue)
           /\ \A v \in VideoTracks :
                  ApplyOffsets(s).times[v] = [i \in 1 .. Len(s.times[v]) |-> s.times[v][i] - s.offset[<<"video", v>>]]
  <1> DEFINE m == [v \in VideoTracks |-> [i \in DOMAIN s.times[v] |-> s.times[v][i] - s.offset[<<"video", v>>]]]
             q == [i \in DOMAIN s.queue |-> ApplyOffset(s, s.queue[i])]
  <1>1. /\ s.queue \in Seq(PacketType) /\ DOMAIN s.queue = 1 .. Len(s.queue)
        /\ s.times \in [VideoTracks -> Seq(Int)] /\ s.offset \in [Tracks -> Int]
    BY LenProperties DEF State
  <1>2. q = Shifted(s, s.queue) /\ Shifted(s, s.queue) \in Seq(PacketType)
    BY <1>1, ShiftedFacts DEF Shifted
  <1>3. ASSUME NEW v \in VideoTracks
        PROVE  /\ m[v] = [i \in 1 .. Len(s.times[v]) |-> s.times[v][i] - s.offset[<<"video", v>>]]
               /\ m[v] \in Seq(Int)
    <2>1. /\ s.times[v] \in Seq(Int) /\ DOMAIN s.times[v] = 1 .. Len(s.times[v])
          /\ Len(s.times[v]) \in Nat /\ \A i \in 1 .. Len(s.times[v]) : s.times[v][i] \in Int
      BY <1>1, LenProperties, ElementOfSeq
    <2>2. s.offset[<<"video", v>>] \in Int
      BY <1>1, TrackFacts
    <2>3. m[v] = [i \in 1 .. Len(s.times[v]) |-> s.times[v][i] - s.offset[<<"video", v>>]]
      BY <2>1
    <2>4. [i \in 1 .. Len(s.times[v]) |-> s.times[v][i] - s.offset[<<"video", v>>]] \in [1 .. Len(s.times[v]) -> Int]
      BY <2>1, <2>2
    <2>5. [i \in 1 .. Len(s.times[v]) |-> s.times[v][i] - s.offset[<<"video", v>>]] \in Seq(Int)
      BY <2>1, <2>4, FunctionSeq
    <2> QED
      BY <2>3, <2>5, Zenon
  <1>4. m \in [VideoTracks -> Seq(Int)]
    <2>1. \A v \in VideoTracks : m[v] \in Seq(Int)
      BY <1>3
    <2>2. m = [v \in VideoTracks |-> m[v]]
      OBVIOUS
    <2> HIDE DEF m
    <2> QED
      BY <2>1, <2>2
  <1>5. ApplyOffsets(s) = [s EXCEPT !.queue = q, !.times = m]
    <2>1. [s EXCEPT !.queue = q].times = s.times
      BY DEF State
    <2> QED
      BY <2>1 DEF ApplyOffsets
  <1> HIDE DEF m, q
  <1>6. /\ ApplyOffsets(s) \in State /\ SameRest(s, ApplyOffsets(s))
        /\ ApplyOffsets(s).queue = q /\ ApplyOffsets(s).times = m
    BY <1>2, <1>4, <1>5 DEF State, SameRest, SameMarks
  <1>7. \A v \in VideoTracks :
            ApplyOffsets(s).times[v] = [i \in 1 .. Len(s.times[v]) |-> s.times[v][i] - s.offset[<<"video", v>>]]
    BY <1>3, <1>6, Zenon
  <1> QED
    BY <1>2, <1>6, <1>7

First(s, t) == s.queue[FirstIdx(s.queue, t)]

LEMMA FirstTypes ==
    ASSUME NEW s \in State, NEW t, FirstIdx(s.queue, t) # 0
    PROVE  First(s, t) \in PacketType /\ First(s, t).track = t /\ Among(First(s, t), s.queue)
  <1>1. s.queue \in Seq(PacketType)
    BY DEF State
  <1>2. FirstIdx(s.queue, t) \in 1 .. Len(s.queue) /\ s.queue[FirstIdx(s.queue, t)].track = t
    BY <1>1, FirstFacts
  <1>3. s.queue[FirstIdx(s.queue, t)] \in PacketType
    BY <1>1, <1>2, ElementOfSeq
  <1> QED
    BY <1>2, <1>3 DEF First, Among

FirstAudio == <<"audio", Min(AudioTracks)>>

LEMMA NewOffsetsFacts ==
    ASSUME NEW s \in State, HasAllTracks(s)
    PROVE  /\ NewOffsets(s) \in State /\ SameMarks(s, NewOffsets(s))
           /\ NewOffsets(s).queue = s.queue /\ NewOffsets(s).times = s.times
           /\ NewOffsets(s).highestVideo = s.highestVideo
           /\ NewOffsets(s).highestAudio = s.highestAudio - First(s, FirstAudio).ts
           /\ FirstAudio \in Tracks
           /\ \A t \in Tracks :
                  /\ First(s, t) \in PacketType
                  /\ NewOffsets(s).offset[t] = IF t[1] = "video" THEN First(s, t).pts
                                               ELSE IF First(s, t).dts > 0 THEN First(s, t).dts ELSE s.offset[t]
  <1> DEFINE o == [t \in Tracks |->
                      IF t[1] = "video" THEN First(s, t).pts
                      ELSE IF First(s, t).dts > 0 THEN First(s, t).dts ELSE s.offset[t]]
             h == s.highestAudio - First(s, FirstAudio).ts
  <1>1. \A t \in Tracks : First(s, t) \in PacketType
    BY FirstTypes DEF HasAllTracks
  <1>2. FirstAudio \in Tracks
    <2>1. AudioTracks \subseteq Nat /\ AudioTracks # {}
      BY TrackFacts
    <2>2. Min(AudioTracks) \in AudioTracks
      BY <2>1, MinFacts
    <2> QED
      BY <2>2, TrackFacts DEF FirstAudio
  <1>3. h \in Int
    <2>1. First(s, FirstAudio).ts \in Int
      BY <1>1, <1>2 DEF PacketType
    <2>2. s.highestAudio \in Int
      BY DEF State
    <2> QED
      BY <2>1, <2>2
  <1>4. o \in [Tracks -> Int]
    <2>1. \A t \in Tracks : First(s, t).pts \in Int /\ First(s, t).dts \in Int
      BY <1>1 DEF PacketType
    <2>2. \A t \in Tracks : s.offset[t] \in Int
      BY DEF State
    <2> QED
      BY <2>1, <2>2
  <1>5. NewOffsets(s) = [s EXCEPT !.offset = o, !.highestAudio = h]
    <2>1. [s EXCEPT !.offset = o].highestAudio = s.highestAudio
      BY DEF State
    <2> QED
      BY <2>1 DEF NewOffsets, First, FirstAudio
  <1>6. \A t \in Tracks : o[t] = IF t[1] = "video" THEN First(s, t).pts
                                 ELSE IF First(s, t).dts > 0 THEN First(s, t).dts ELSE s.offset[t]
    OBVIOUS
  <1> HIDE DEF o, h
  <1>7. /\ NewOffsets(s) \in State /\ SameMarks(s, NewOffsets(s))
        /\ NewOffsets(s).queue = s.queue /\ NewOffsets(s).times = s.times
        /\ NewOffsets(s).highestVideo = s.highestVideo
        /\ NewOffsets(s).highestAudio = h /\ NewOffsets(s).offset = o
    BY <1>3, <1>4, <1>5 DEF State, SameMarks
  <1> QED
    BY <1>1, <1>2, <1>6, <1>7 DEF h

LEMMA RemoveFirstFacts ==
    ASSUME NEW q \in Seq(Int), NEW e
    PROVE  /\ RemoveFirst(q, e) \in Seq(Int)
           /\ q # <<>> /\ q[1] = e => RemoveFirst(q, e) = Tail(q)
  <1> DEFINE K == {i \in 1 .. Len(q) : q[i] = e}
             m == Min(K)
  <1>1. Len(q) \in Nat /\ K \subseteq Nat
    BY LenProperties
  <1>2. CASE K = {}
    <2>1. RemoveFirst(q, e) = q
      BY <1>2 DEF RemoveFirst
    <2>2. q # <<>> => 1 \in 1 .. Len(q)
      BY <1>1, EmptySeq
    <2> QED
      BY <1>2, <2>1, <2>2
  <1>3. CASE K # {}
    <2>1. m \in K /\ \A y \in K : m <= y
      BY <1>1, <1>3, MinFacts
    <2>2. RemoveFirst(q, e) = SubSeq(q, 1, m - 1) \o SubSeq(q, m + 1, Len(q))
      <3>1. \E i \in 1 .. Len(q) : q[i] = e
        BY <1>3
      <3> QED
        BY <1>3, <3>1 DEF RemoveFirst, RemoveAt, SelectInSeq
    <2>3. m \in 1 .. Len(q) /\ q[m] = e
      BY <2>1
    <2>4. 1 \in K => m = 1
      <3>1. m \in Nat /\ m >= 1
        BY <1>1, <2>3
      <3>2. 1 \in K => m <= 1
        BY <2>1
      <3> HIDE DEF m, K
      <3> QED
        BY <3>1, <3>2
    <2> HIDE DEF m
    <2>5. m - 1 \in 0 .. Len(q) /\ m \in 0 .. Len(q)
      BY <1>1, <2>3
    <2>6. SubSeq(q, 1, m - 1) \in Seq(Int) /\ SubSeq(q, m + 1, Len(q)) \in Seq(Int)
      BY <2>5, Cut
    <2>7. RemoveFirst(q, e) \in Seq(Int)
      BY <2>2, <2>6, ConcatProperties
    <2>8. ASSUME q # <<>>, q[1] = e PROVE RemoveFirst(q, e) = Tail(q)
      <3>1. 1 \in 1 .. Len(q)
        BY <1>1, <2>8, EmptySeq
      <3>2. m = 1
        BY <2>4, <2>8, <3>1
      <3>3. SubSeq(q, 1, m - 1) = <<>>
        BY <3>2, SubSeqEmpty
      <3>4. SubSeq(q, m + 1, Len(q)) = Tail(q)
        BY <2>8, <3>2, TailIsSubSeq
      <3>5. <<>> \o Tail(q) = Tail(q)
        BY <2>6, <3>4, ConcatEmptySeq
      <3> QED
        BY <2>2, <3>3, <3>4, <3>5, Zenon
    <2> QED
      BY <2>7, <2>8
  <1> QED
    BY <1>2, <1>3

LEMMA SendFacts ==
    ASSUME NEW s \in State, s.queue # <<>>
    PROVE  /\ SendFirst(s) \in State
           /\ SendFirst(s).receivedAudio = s.receivedAudio /\ SendFirst(s).receivedVideo = s.receivedVideo
           /\ SendFirst(s).highestAudio = s.highestAudio /\ SendFirst(s).highestVideo = s.highestVideo
           /\ SendFirst(s).offset = s.offset
           /\ SendFirst(s).queue = Tail(s.queue) /\ SendFirst(s).sent = Append(s.sent, s.queue[1])
           /\ s.queue[1] \in PacketType /\ s.queue = <<s.queue[1]>> \o Tail(s.queue)
           /\ Tail(s.queue) \in Seq(PacketType)
           /\ \A v \in VideoTracks :
                  SendFirst(s).times[v] = IF s.queue[1].track = <<"video", v>>
                                          THEN RemoveFirst(s.times[v], s.queue[1].pts) ELSE s.times[v]
  <1> DEFINE p == s.queue[1]
             q == Tail(s.queue)
             x == Append(s.sent, p)
             y == [s EXCEPT !.queue = q, !.sent = x]
             v0 == p.track[2]
             w == RemoveFirst(s.times[v0], p.pts)
             m == [s.times EXCEPT ![v0] = w]
  <1>1. s.queue \in Seq(PacketType) /\ s.sent \in Seq(PacketType) /\ s.times \in [VideoTracks -> Seq(Int)]
    BY DEF State
  <1>2. Len(s.queue) \in Nat /\ 1 \in 1 .. Len(s.queue) /\ Len(s.queue) \in 1 .. Len(s.queue)
    <2>1. Len(s.queue) \in Nat \ {0}
      BY <1>1, EmptySeq
    <2> QED
      BY <2>1
  <1>3. p \in PacketType /\ Head(s.queue) = p /\ q \in Seq(PacketType)
    BY <1>1, <1>2, ElementOfSeq, HeadTailProperties
  <1>4. s.queue = <<p>> \o q
    <2>1. SubSeq(s.queue, 1, Len(s.queue)) = s.queue /\ q = SubSeq(s.queue, 2, Len(s.queue))
      BY <1>1, SubSeqFull, TailIsSubSeq
    <2>2. SubSeq(s.queue, 1, Len(s.queue)) = <<s.queue[1]>> \o SubSeq(s.queue, 1 + 1, Len(s.queue))
      BY <1>1, <1>2, SubSeqRecursiveFirst
    <2> QED
      BY <2>1, <2>2
  <1>5. x \in Seq(PacketType)
    BY <1>1, <1>3, AppendProperties
  <1>6. SendFirst(s) = IF IsVideo(p) THEN [y EXCEPT !.times[v0] = RemoveFirst(@, p.pts)] ELSE y
    <2>1. [s EXCEPT !.queue = q].sent = s.sent
      BY DEF State
    <2> QED
      BY <1>3, <2>1 DEF SendFirst
  <1>7. y \in State /\ y.times = s.times
    <2> HIDE DEF x, q
    <2> QED
      BY <1>3, <1>5 DEF State
  <1>8. IsVideo(p) => v0 \in VideoTracks /\ p.track = <<"video", v0>>
    BY <1>3, TrackFacts DEF IsVideo, PacketType
  <1>9. IsVideo(p) => m \in [VideoTracks -> Seq(Int)]
    <2>1. IsVideo(p) => w \in Seq(Int)
      BY <1>1, <1>8, RemoveFirstFacts
    <2> HIDE DEF w, v0, p
    <2> QED
      BY <1>1, <1>8, <2>1
  <1>10. IsVideo(p) => SendFirst(s) = [y EXCEPT !.times = m]
    BY <1>6, <1>7
  <1>11. ~ IsVideo(p) => SendFirst(s) = y
    BY <1>6
  <1>12. /\ SendFirst(s) \in State
         /\ SendFirst(s).receivedAudio = s.receivedAudio /\ SendFirst(s).receivedVideo = s.receivedVideo
         /\ SendFirst(s).highestAudio = s.highestAudio /\ SendFirst(s).highestVideo = s.highestVideo
         /\ SendFirst(s).offset = s.offset /\ SendFirst(s).queue = q /\ SendFirst(s).sent = x
         /\ SendFirst(s).times = IF IsVideo(p) THEN m ELSE s.times
    <2> HIDE DEF m, x, q, p
    <2>1. CASE IsVideo(p)
      BY <1>3, <1>5, <1>9, <1>10, <2>1 DEF State
    <2>2. CASE ~ IsVideo(p)
      BY <1>3, <1>5, <1>11, <2>2 DEF State
    <2> QED
      BY <2>1, <2>2
  <1>13. \A v \in VideoTracks : SendFirst(s).times[v] = IF p.track = <<"video", v>> THEN RemoveFirst(s.times[v], p.pts) ELSE s.times[v]
    <2> SUFFICES ASSUME NEW v \in VideoTracks
                 PROVE  SendFirst(s).times[v] = IF p.track = <<"video", v>> THEN RemoveFirst(s.times[v], p.pts) ELSE s.times[v]
      OBVIOUS
    <2>1. CASE ~ IsVideo(p)
      <3>1. p.track # <<"video", v>>
        BY <2>1, TrackFacts DEF IsVideo
      <3> HIDE DEF p
      <3> QED
        BY <1>12, <2>1, <3>1
    <2>2. CASE IsVideo(p)
      <3>1. SendFirst(s).times = m /\ v0 \in VideoTracks /\ p.track = <<"video", v0>>
        BY <1>8, <1>12, <2>2
      <3>2. p.track = <<"video", v>> <=> v = v0
        BY <3>1
      <3>3. m[v] = IF v = v0 THEN w ELSE s.times[v]
        BY <1>1, <3>1
      <3>4. v = v0 => w = RemoveFirst(s.times[v], p.pts)
        OBVIOUS
      <3> HIDE DEF m, w, v0, p
      <3> QED
        BY <3>1, <3>2, <3>3, <3>4
    <2> QED
      BY <2>1, <2>2
  <1> QED
    BY <1>3, <1>4, <1>12, <1>13

-----------------------------------------------------------------------------
(* The steps of interleave_packets keep the types, and every queued video   *)
(* packet's track is marked as received.                                    *)
Marked(s) == \A x : Among(x, s.queue) /\ IsVideo(x) => x.track[2] \in s.receivedVideo
Good(s) == s \in State /\ Marked(s)

V == <<"video", 0>>

LEMMA StartIdxRange ==
    ASSUME NEW q \in Seq(PacketType), FirstIdx(q, V) # 0,
           \A a \in AudioTracks : FirstIdx(q, <<"audio", a>>) # 0
    PROVE  StartIdx(q) \in 0 .. Len(q)
  <1> DEFINE video   == FirstIdx(q, V)
             audio   == {i \in DOMAIN q : ~IsVideo(q[i])}
             diff(i) == AbsDiff(q[i].ts, q[video].ts)
             best    == {i \in audio : \A j \in audio : diff(i) <= diff(j)}
             closest == Min(best)
             idx     == IF video < closest THEN video ELSE closest
             prime   == q[Min({i \in audio : i >= idx})].pts <= 0
             firsts  == {FirstIdx(q, <<"audio", a>>) : a \in AudioTracks} \ {0}
             low     == Min({idx} \cup firsts)
  <1>1. StartIdx(q) = (IF prime THEN low ELSE idx) - 1
    BY Zenon DEF StartIdx, V
  <1>2. Len(q) \in Nat /\ DOMAIN q = 1 .. Len(q) /\ \A i \in 1 .. Len(q) : q[i].ts \in Int
    <2>1. \A i \in 1 .. Len(q) : q[i] \in PacketType
      BY ElementOfSeq
    <2> QED
      BY <2>1, LenProperties DEF PacketType
  <1>3. video \in 1 .. Len(q)
    BY FirstFacts
  <1>4. audio # {} /\ audio \subseteq 1 .. Len(q)
    <2>1. PICK a \in AudioTracks : TRUE
      BY TrackFacts
    <2>2. FirstIdx(q, <<"audio", a>>) \in 1 .. Len(q) /\ q[FirstIdx(q, <<"audio", a>>)].track = <<"audio", a>>
      BY FirstFacts
    <2>3. ~ IsVideo(q[FirstIdx(q, <<"audio", a>>)])
      BY <2>2 DEF IsVideo
    <2> QED
      BY <1>2, <2>2, <2>3
  <1>5. \A i \in audio : diff(i) \in Nat
    <2>1. \A x, y \in Int : AbsDiff(x, y) \in Nat
      BY DEF AbsDiff
    <2> QED
      BY <1>2, <1>3, <1>4, <2>1
  <1> HIDE DEF diff
  <1>6. best # {}
    <2> DEFINE D == {diff(i) : i \in audio}
    <2>1. D \subseteq Nat /\ D # {}
      BY <1>4, <1>5
    <2>2. PICK x \in D : \A y \in D : x <= y
      <3> HIDE DEF D
      <3> QED
        BY <2>1, LeastOne
    <2>3. PICK i \in audio : x = diff(i)
      BY <2>2
    <2>4. \A j \in audio : diff(i) <= diff(j)
      BY <2>2, <2>3
    <2> HIDE DEF audio
    <2> QED
      BY <2>3, <2>4
  <1>7. closest \in 1 .. Len(q)
    <2>1. best \subseteq Nat /\ best \subseteq 1 .. Len(q)
      BY <1>4
    <2>2. closest \in best
      <3> HIDE DEF best
      <3> QED
        BY <1>6, <2>1, MinFacts
    <2> HIDE DEF best, closest
    <2> QED
      BY <2>1, <2>2
  <1> HIDE DEF best, closest, audio, video
  <1>8. idx \in 1 .. Len(q)
    BY <1>3, <1>7
  <1>9. low \in 1 .. Len(q)
    <2> DEFINE L == {idx} \cup firsts
    <2>1. \A a \in AudioTracks : FirstIdx(q, <<"audio", a>>) # 0 => FirstIdx(q, <<"audio", a>>) \in 1 .. Len(q)
      BY FirstFacts
    <2>2. L \subseteq 1 .. Len(q) /\ L \subseteq Nat /\ L # {}
      <3> HIDE DEF idx
      <3>1. \A x \in L : x \in 1 .. Len(q)
        BY <1>8, <2>1
      <3>2. idx \in L
        OBVIOUS
      <3>3. \A x \in 1 .. Len(q) : x \in Nat
        BY <1>2
      <3> HIDE DEF L
      <3> QED
        BY <3>1, <3>2, <3>3, Zenon
    <2> HIDE DEF L
    <2>3. Min(L) \in L
      BY <2>2, MinFacts
    <2> QED
      BY <2>2, <2>3 DEF L
  <1> HIDE DEF low, idx, prime
  <1> QED
    BY <1>1, <1>2, <1>8, <1>9

LEMMA PruneToRange ==
    ASSUME NEW q \in Seq(PacketType), FirstIdx(q, V) # 0,
           \A a \in AudioTracks : FirstIdx(q, <<"audio", a>>) # 0
    PROVE  PruneTo(q) \in 0 .. Len(q)
  <1> DEFINE video    == FirstIdx(q, V)
             firsts   == {FirstIdx(q, <<"audio", a>>) : a \in AudioTracks}
             L        == {video} \cup firsts
             audio    == FirstIdx(q, <<"audio", Max(AudioTracks)>>)
             duration == IF Cardinality(AudioTracks) > 1
                         THEN Max({VideoTime, AudioTime}) ELSE VideoTime
             far      == q[audio].ts - q[video].ts > duration
  <1>1. PruneTo(q) = IF far THEN Max(L) ELSE StartIdx(q)
    BY Zenon DEF PruneTo, V
  <1>2. StartIdx(q) \in 0 .. Len(q)
    BY StartIdxRange
  <1>3. Max(L) \in 0 .. Len(q)
    <2>1. Len(q) \in Nat /\ L \subseteq 0 .. Len(q) /\ L # {}
      <3>1. \A t : FirstIdx(q, t) \in 0 .. Len(q)
        BY FirstFacts
      <3> QED
        BY <3>1, LenProperties
    <2> HIDE DEF L
    <2>2. \E x \in L : \A y \in L : x >= y
      BY <2>1, Greatest
    <2>3. Max(L) \in L
      BY <2>2 DEF Max
    <2> QED
      BY <2>1, <2>3
  <1> HIDE DEF far, L
  <1> QED
    BY <1>1, <1>2, <1>3

LEMMA AllTracksFirst ==
    ASSUME NEW s \in State, HasAllTracks(s)
    PROVE  /\ FirstIdx(s.queue, V) # 0 /\ \A a \in AudioTracks : FirstIdx(s.queue, <<"audio", a>>) # 0
           /\ s.queue # <<>>
  <1>1. FirstIdx(s.queue, V) # 0 /\ \A a \in AudioTracks : FirstIdx(s.queue, <<"audio", a>>) # 0
    BY TrackFacts DEF HasAllTracks, V
  <1>2. s.queue \in Seq(PacketType)
    BY DEF State
  <1>3. FirstIdx(s.queue, V) \in 1 .. Len(s.queue)
    BY <1>1, <1>2, FirstFacts
  <1>4. s.queue # <<>>
    BY <1>2, <1>3, EmptySeq
  <1> QED
    BY <1>1, <1>4

LEMMA DiscardGood ==
    ASSUME NEW s, Good(s), NEW k \in 0 .. Len(s.queue)
    PROVE  Good(DiscardToIdx(s, k))
  <1>1. s \in State
    BY DEF Good
  <1>2. /\ DiscardToIdx(s, k) \in State /\ DiscardToIdx(s, k).receivedVideo = s.receivedVideo
        /\ \A x : Among(x, DiscardToIdx(s, k).queue) => Among(x, s.queue)
    BY <1>1, DiscardFacts DEF SameRest, SameMarks
  <1> QED
    BY <1>2 DEF Good, Marked

(* What discard_unused_audio_packets discards. *)
LEMMA UnusedRange ==
    ASSUME NEW s \in State, NEW ts
    PROVE  \E k \in 0 .. Len(s.queue) : DiscardUnused(s, ts) = DiscardToIdx(s, k)
  <1> DEFINE K == {i \in 1 .. Len(s.queue) : s.queue[i].ts >= ts}
             later == IF K # {} THEN Min(K) ELSE 0
             k == IF later = 0 THEN Len(s.queue) ELSE later - 1
  <1>1. DiscardUnused(s, ts) = DiscardToIdx(s, k)
    BY DEF DiscardUnused, SelectInSeq
  <1>2. s.queue \in Seq(PacketType)
    BY DEF State
  <1>3. Len(s.queue) \in Nat /\ K \subseteq Nat /\ K \subseteq 1 .. Len(s.queue)
    BY <1>2, LenProperties
  <1>4. later \in 0 .. Len(s.queue)
    <2>1. CASE K = {}
      BY <1>3, <2>1
    <2>2. CASE K # {}
      <3>1. Min(K) \in K
        BY <1>3, <2>2, MinFacts
      <3>2. Min(K) \in 1 .. Len(s.queue)
        BY <1>3, <3>1
      <3>3. later = Min(K)
        BY <2>2
      <3> HIDE DEF later, K
      <3> QED
        BY <1>3, <3>2, <3>3
    <2> QED
      BY <2>1, <2>2
  <1> HIDE DEF later
  <1>5. k \in 0 .. Len(s.queue)
    BY <1>3, <1>4
  <1> HIDE DEF k
  <1> QED
    BY <1>1, <1>5

(* The video track that get_audio_and_video_packets misses. *)
Missing(s) == {v \in VideoTracks : FirstIdx(s.queue, <<"video", v>>) = 0}

LEMMA MissingFacts ==
    ASSUME NEW s \in State
    PROVE  /\ MarkMissing(s) \in State
           /\ MarkMissing(s).sent = s.sent /\ MarkMissing(s).queue = s.queue /\ MarkMissing(s).times = s.times
           /\ MarkMissing(s).offset = s.offset
           /\ MarkMissing(s).highestAudio = s.highestAudio /\ MarkMissing(s).highestVideo = s.highestVideo
           /\ Missing(s) # {} => /\ Min(Missing(s)) \in Missing(s)
                                 /\ MarkMissing(s).receivedVideo = s.receivedVideo \ {Min(Missing(s))}
           /\ Missing(s) = {} => /\ MarkMissing(s).receivedVideo = s.receivedVideo
                                 /\ MarkMissing(s).receivedAudio = FALSE
  <1>1. Missing(s) # {} => Min(Missing(s)) \in Missing(s)
    <2>1. Missing(s) \subseteq Nat
      BY TrackAssumption DEF Missing
    <2> QED
      BY <2>1, MinFacts
  <1>2. MarkMissing(s) = IF Missing(s) # {} THEN [s EXCEPT !.receivedVideo = @ \ {Min(Missing(s))}]
                                            ELSE [s EXCEPT !.receivedAudio = FALSE]
    BY Zenon DEF MarkMissing, Missing
  <1>3. CASE Missing(s) # {}
    <2> DEFINE r == s.receivedVideo \ {Min(Missing(s))}
    <2>1. r \in SUBSET VideoTracks
      BY DEF State
    <2>2. MarkMissing(s) = [s EXCEPT !.receivedVideo = r]
      BY <1>2, <1>3
    <2> HIDE DEF r
    <2>3. /\ MarkMissing(s) \in State
          /\ MarkMissing(s).sent = s.sent /\ MarkMissing(s).queue = s.queue /\ MarkMissing(s).times = s.times
          /\ MarkMissing(s).offset = s.offset
          /\ MarkMissing(s).highestAudio = s.highestAudio /\ MarkMissing(s).highestVideo = s.highestVideo
          /\ MarkMissing(s).receivedVideo = r
      BY <2>1, <2>2 DEF State
    <2> QED
      BY <1>1, <1>3, <2>3 DEF r
  <1>4. CASE Missing(s) = {}
    <2>1. MarkMissing(s) = [s EXCEPT !.receivedAudio = FALSE]
      BY <1>2, <1>4
    <2> QED
      BY <1>4, <2>1 DEF State
  <1> QED
    BY <1>3, <1>4

LEMMA MissingGood ==
    ASSUME NEW s, Good(s)
    PROVE  Good(MarkMissing(s))
  <1>1. s \in State /\ s.queue \in Seq(PacketType)
    BY DEF Good, State
  <1>2. MarkMissing(s) \in State /\ MarkMissing(s).queue = s.queue
    BY <1>1, MissingFacts
  <1>3. CASE Missing(s) = {}
    BY <1>1, <1>2, <1>3, MissingFacts DEF Good, Marked
  <1>4. CASE Missing(s) # {}
    <2> DEFINE v == Min(Missing(s))
    <2>1. v \in Missing(s) /\ MarkMissing(s).receivedVideo = s.receivedVideo \ {v}
      BY <1>1, <1>4, MissingFacts
    <2> HIDE DEF v
    <2>2. ASSUME NEW x, Among(x, s.queue), IsVideo(x) PROVE x.track[2] # v
      <3> SUFFICES ASSUME x.track[2] = v PROVE FALSE
        OBVIOUS
      <3>1. PICK i \in 1 .. Len(s.queue) : s.queue[i] = x
        BY <2>2 DEF Among
      <3>2. x \in PacketType
        BY <1>1, <3>1, ElementOfSeq
      <3>3. x.track = <<"video", v>>
        BY <2>2, <3>2, TrackFacts DEF PacketType, IsVideo
      <3>4. FirstIdx(s.queue, <<"video", v>>) = 0
        BY <2>1 DEF Missing
      <3>5. \A j \in 1 .. Len(s.queue) : s.queue[j].track # <<"video", v>>
        BY <1>1, <3>4, FirstFacts
      <3> QED
        BY <3>1, <3>3, <3>5
    <2> QED
      BY <1>2, <2>1, <2>2 DEF Good, Marked
  <1> QED
    BY <1>3, <1>4

LEMMA SendGood ==
    ASSUME NEW s, Good(s), s.queue # <<>>
    PROVE  Good(SendFirst(s))
  <1>1. s \in State
    BY DEF Good
  <1>2. /\ SendFirst(s) \in State /\ SendFirst(s).receivedVideo = s.receivedVideo
        /\ SendFirst(s).queue = Tail(s.queue) /\ s.queue = <<s.queue[1]>> \o Tail(s.queue)
        /\ s.queue[1] \in PacketType /\ Tail(s.queue) \in Seq(PacketType)
    BY <1>1, SendFacts
  <1>3. <<s.queue[1]>> \in Seq(PacketType)
    BY <1>2, OfTrackOne
  <1>4. \A x : Among(x, <<s.queue[1]>> \o Tail(s.queue)) <=> Among(x, <<s.queue[1]>>) \/ Among(x, Tail(s.queue))
    BY <1>2, <1>3, AmongConcat
  <1>5. \A x : Among(x, SendFirst(s).queue) => Among(x, s.queue)
    BY <1>2, <1>4, Zenon
  <1> QED
    BY <1>2, <1>5 DEF Good, Marked

(* The record that the first packets of the stream are taken from. *)
Begun(s) == Resort(ApplyOffsets(NewOffsets(s)))

LEMMA BegunGood ==
    ASSUME NEW s, Good(s), HasAllTracks(s)
    PROVE  /\ NewOffsets(s) \in State /\ ApplyOffsets(NewOffsets(s)) \in State
           /\ Good(Begun(s)) /\ Begun(s).queue # <<>> /\ Begun(s).queue \in Seq(PacketType)
  <1> DEFINE a == NewOffsets(s)
             b == ApplyOffsets(a)
             c == Resort(b)
  <1>1. s \in State /\ s.queue \in Seq(PacketType) /\ s.queue # <<>>
    BY AllTracksFirst DEF Good, State
  <1>2. a \in State /\ a.queue = s.queue /\ a.receivedVideo = s.receivedVideo
    BY <1>1, NewOffsetsFacts DEF SameMarks
  <1> HIDE DEF a
  <1>3. b \in State /\ b.queue = Shifted(a, s.queue) /\ b.receivedVideo = s.receivedVideo
    BY <1>2, ApplyOffsetsFacts DEF SameRest, SameMarks
  <1>4. /\ b.queue \in Seq(PacketType) /\ Len(b.queue) = Len(s.queue)
        /\ \A i \in 1 .. Len(s.queue) : b.queue[i] = ApplyOffset(a, s.queue[i])
    BY <1>1, <1>2, <1>3, ShiftedFacts
  <1> HIDE DEF b
  <1>5. /\ c \in State /\ c.receivedVideo = b.receivedVideo /\ Len(c.queue) = Len(b.queue)
        /\ \A x : Among(x, c.queue) <=> Among(x, b.queue)
    BY <1>3, ResortFacts DEF SameMarks
  <1> HIDE DEF c
  <1>6. Marked(c)
    <2> SUFFICES ASSUME NEW x, Among(x, c.queue), IsVideo(x) PROVE x.track[2] \in c.receivedVideo
      BY DEF Marked
    <2>1. PICK i \in 1 .. Len(b.queue) : b.queue[i] = x
      BY <1>5 DEF Among
    <2>2. s.queue[i] \in PacketType /\ x = ApplyOffset(a, s.queue[i]) /\ Among(s.queue[i], s.queue)
      BY <1>1, <1>4, <2>1, ElementOfSeq DEF Among
    <2>3. x.track = s.queue[i].track
      BY <1>2, <2>2, OffsetFacts
    <2> QED
      BY <1>3, <1>5, <2>2, <2>3 DEF Good, Marked, IsVideo
  <1>7. c.queue # <<>> /\ c.queue \in Seq(PacketType)
    <2>1. c.queue \in Seq(PacketType) /\ Len(c.queue) = Len(s.queue)
      BY <1>4, <1>5 DEF State
    <2>2. Len(s.queue) # 0
      BY <1>1, EmptySeq
    <2> QED
      BY <2>1, <2>2, EmptySeq
  <1>8. Good(c)
    BY <1>5, <1>6 DEF Good
  <1> QED
    BY <1>2, <1>3, <1>7, <1>8 DEF a, b, c, Begun

(* How the start of the stream ends: after one or two cuts of the queue. *)
Cutoff(s, d) == \E k \in 0 .. Len(s.queue) : d = DiscardToIdx(s, k)
Trimmed(s, d) == Cutoff(s, d) \/ \E c : Cutoff(s, c) /\ Cutoff(c, d)
Outcome(d, r) == \/ ~HasAllTracks(d) /\ r = MarkMissing(d)
                 \/ HasAllTracks(d) /\ r = [d EXCEPT !.receivedAudio = FALSE]
                 \/ HasAllTracks(d) /\ r = SendFirst(Begun(d))

LEMMA StartOutcome ==
    ASSUME NEW s \in State
    PROVE  \/ ~CanPrune(s) /\ StartStream(s) = PruneFailed(s)
           \/ \E d : Trimmed(s, d) /\ Outcome(d, StartStream(s))
  <1> DEFINE pruned  == DiscardToIdx(s, PruneTo(s.queue))
             trimmed == DiscardToIdx(pruned, StartIdx(pruned.queue))
  <1>1. StartStream(s) =
            IF ~CanPrune(s) THEN PruneFailed(s)
            ELSE IF ~HasAllTracks(pruned) THEN MarkMissing(pruned)
            ELSE IF ~AudioPastVideo(pruned) THEN [pruned EXCEPT !.receivedAudio = FALSE]
            ELSE IF ~HasAllTracks(trimmed) THEN MarkMissing(trimmed)
            ELSE SendFirst(Begun(trimmed))
    BY Zenon DEF StartStream, Begun
  <1>2. CASE ~CanPrune(s)
    <2> HIDE DEF pruned, trimmed
    <2> QED
      BY <1>1, <1>2
  <1>3. CASE CanPrune(s)
    <2>1. s.queue \in Seq(PacketType)
      BY DEF State
    <2>2. PruneTo(s.queue) \in 0 .. Len(s.queue)
      BY <1>3, <2>1, PruneToRange DEF CanPrune, V
    <2>3. Cutoff(s, pruned) /\ pruned \in State
      BY <2>2, DiscardFacts DEF Cutoff
    <2> HIDE DEF pruned
    <2>4. CASE ~HasAllTracks(pruned)
      <3>1. StartStream(s) = MarkMissing(pruned)
        BY <1>1, <1>3, <2>4, Zenon
      <3> QED
        BY <2>3, <2>4, <3>1 DEF Trimmed, Outcome
    <2>5. CASE HasAllTracks(pruned)
      <3>1. pruned.queue \in Seq(PacketType)
        BY <2>3 DEF State
      <3>2. StartIdx(pruned.queue) \in 0 .. Len(pruned.queue)
        BY <2>3, <2>5, <3>1, AllTracksFirst, StartIdxRange
      <3>3. Cutoff(pruned, trimmed)
        BY <3>2 DEF Cutoff
      <3>4. Trimmed(s, trimmed) /\ Trimmed(s, pruned)
        BY <2>3, <3>3 DEF Trimmed
      <3> HIDE DEF trimmed
      <3>5. CASE ~AudioPastVideo(pruned)
        <4>1. StartStream(s) = [pruned EXCEPT !.receivedAudio = FALSE]
          BY <1>1, <1>3, <2>5, <3>5, Zenon
        <4> QED
          BY <2>5, <3>4, <4>1 DEF Outcome
      <3>6. CASE AudioPastVideo(pruned) /\ ~HasAllTracks(trimmed)
        <4>1. StartStream(s) = MarkMissing(trimmed)
          BY <1>1, <1>3, <2>5, <3>6, Zenon
        <4> QED
          BY <3>4, <3>6, <4>1 DEF Outcome
      <3>7. CASE AudioPastVideo(pruned) /\ HasAllTracks(trimmed)
        <4>1. StartStream(s) = SendFirst(Begun(trimmed))
          BY <1>1, <1>3, <2>5, <3>7, Zenon
        <4> QED
          BY <3>4, <3>7, <4>1 DEF Outcome
      <3> QED
        BY <3>5, <3>6, <3>7
    <2> QED
      BY <2>4, <2>5
  <1> QED
    BY <1>2, <1>3

LEMMA StartGood ==
    ASSUME NEW s, Good(s)
    PROVE  Good(StartStream(s))
  <1>1. s \in State
    BY DEF Good
  <1>2. CASE StartStream(s) = PruneFailed(s)
    <2>1. PruneFailed(s) = s \/ PruneFailed(s) = [s EXCEPT !.receivedAudio = FALSE]
      BY DEF PruneFailed
    <2>2. Good([s EXCEPT !.receivedAudio = FALSE])
      BY <1>1 DEF Good, State, Marked
    <2> QED
      BY <1>2, <2>1, <2>2
  <1>3. ASSUME NEW d, Trimmed(s, d), Outcome(d, StartStream(s)) PROVE Good(StartStream(s))
    <2>1. Good(d)
      BY <1>3, DiscardGood DEF Trimmed, Cutoff
    <2>2. CASE StartStream(s) = MarkMissing(d)
      BY <2>1, <2>2, MissingGood
    <2>3. CASE StartStream(s) = [d EXCEPT !.receivedAudio = FALSE]
      BY <2>1, <2>3 DEF Good, State, Marked
    <2>4. CASE HasAllTracks(d) /\ StartStream(s) = SendFirst(Begun(d))
      BY <2>1, <2>4, BegunGood, SendGood
    <2> QED
      BY <1>3, <2>2, <2>3, <2>4 DEF Outcome
  <1> QED
    BY <1>1, <1>2, <1>3, StartOutcome

(* Nothing, one packet or two are sent, and only as many as are streamable. *)
LEMMA StreamableFacts ==
    ASSUME NEW s \in State
    PROVE  /\ Streamable(s) \in 0 .. Len(s.queue) /\ Len(s.queue) \in Nat
           /\ \A i \in 1 .. Streamable(s) : HasHigherOpposingTs(s, s.queue[i])
  <1> DEFINE K == {i \in 1 .. Len(s.queue) : ~HasHigherOpposingTs(s, s.queue[i])}
             stuck == IF K # {} THEN Min(K) ELSE 0
  <1>1. Streamable(s) = IF stuck = 0 THEN Len(s.queue) ELSE stuck - 1
    BY DEF Streamable, SelectInSeq
  <1>2. s.queue \in Seq(PacketType)
    BY DEF State
  <1>3. Len(s.queue) \in Nat /\ K \subseteq Nat /\ K \subseteq 1 .. Len(s.queue)
    BY <1>2, LenProperties
  <1>4. CASE K = {}
    <2>1. stuck = 0 /\ \A i \in 1 .. Len(s.queue) : HasHigherOpposingTs(s, s.queue[i])
      BY <1>4
    <2> HIDE DEF stuck
    <2> QED
      BY <1>1, <1>3, <2>1
  <1>5. CASE K # {}
    <2>1. Min(K) \in K /\ \A y \in K : Min(K) <= y
      BY <1>3, <1>5, MinFacts
    <2>2. stuck = Min(K)
      BY <1>5
    <2>3. stuck \in 1 .. Len(s.queue) /\ \A i \in 1 .. stuck - 1 : i \in 1 .. Len(s.queue) /\ i \notin K
      <3>1. PICK m : m = stuck
        OBVIOUS
      <3>2. m \in K /\ \A y \in K : m <= y
        BY <2>1, <2>2, <3>1
      <3>3. m \in 1 .. Len(s.queue) /\ m \in Nat
        BY <1>3, <3>2
      <3> HIDE DEF stuck, K
      <3>4. \A i \in 1 .. m - 1 : i \in 1 .. Len(s.queue) /\ i \notin K
        BY <1>3, <3>2, <3>3
      <3> QED
        BY <3>1, <3>3, <3>4
    <2>4. \A i \in 1 .. stuck - 1 : HasHigherOpposingTs(s, s.queue[i])
      BY <2>3
    <2> HIDE DEF stuck
    <2> QED
      BY <1>1, <1>3, <2>3, <2>4
  <1> QED
    BY <1>4, <1>5

Ready(s) == s.queue # <<>> /\ HasHigherOpposingTs(s, s.queue[1])

LEMMA StreamableOutcome ==
    ASSUME NEW s \in State, batch \in Nat
    PROVE  \/ SendStreamable(s) = s
           \/ Ready(s) /\ SendStreamable(s) = SendFirst(s)
           \/ Ready(s) /\ Ready(SendFirst(s)) /\ SendStreamable(s) = SendFirst(SendFirst(s))
  <1> DEFINE n == Streamable(s)
  <1>1. n \in 0 .. Len(s.queue) /\ Len(s.queue) \in Nat /\ \A i \in 1 .. n : HasHigherOpposingTs(s, s.queue[i])
    BY StreamableFacts
  <1>2. s.queue \in Seq(PacketType)
    BY DEF State
  <1>3. SendStreamable(s) = CASE n = 0         -> s
                              [] n - 1 > batch -> SendFirst(SendFirst(s))
                              [] OTHER         -> SendFirst(s)
    BY DEF SendStreamable
  <1> HIDE DEF n
  <1>4. CASE n = 0
    <2>1. ~ (n - 1 > batch)
      BY <1>4
    <2> QED
      BY <1>3, <1>4, <2>1
  <1>5. CASE n # 0
    <2>1. 1 \in 1 .. n /\ Len(s.queue) # 0
      BY <1>1, <1>5
    <2>2. Ready(s)
      BY <1>1, <1>2, <2>1, EmptySeq DEF Ready
    <2>3. CASE ~ (n - 1 > batch)
      BY <1>3, <1>5, <2>2, <2>3
    <2>4. CASE n - 1 > batch
      <3>1. SendStreamable(s) = SendFirst(SendFirst(s))
        BY <1>3, <1>5, <2>4
      <3>2. 2 \in 1 .. n /\ Len(s.queue) - 1 # 0 /\ 1 \in 1 .. Len(s.queue) - 1
        BY <1>1, <2>4
      <3> DEFINE d == SendFirst(s)
      <3>3. /\ d \in State /\ d.queue = Tail(s.queue)
            /\ d.highestAudio = s.highestAudio /\ d.highestVideo = s.highestVideo
        BY <2>2, SendFacts DEF Ready
      <3> HIDE DEF d
      <3>4. Len(d.queue) = Len(s.queue) - 1 /\ d.queue[1] = s.queue[2]
        <4>1. Len(Tail(s.queue)) = Len(s.queue) - 1 /\ \A i \in 1 .. Len(Tail(s.queue)) : Tail(s.queue)[i] = s.queue[i + 1]
          BY <1>2, <2>2, HeadTailProperties DEF Ready
        <4>2. 1 + 1 = 2
          OBVIOUS
        <4> QED
          BY <3>2, <3>3, <4>1, <4>2
      <3>5. HasHigherOpposingTs(d, d.queue[1])
        <4>1. HasHigherOpposingTs(s, s.queue[2])
          BY <1>1, <3>2
        <4> QED
          BY <3>3, <3>4, <4>1 DEF HasHigherOpposingTs
      <3>6. d.queue # <<>>
        BY <3>2, <3>4, EmptySeq
      <3>7. Ready(d)
        BY <3>5, <3>6 DEF Ready
      <3> QED
        BY <2>2, <3>1, <3>7 DEF d
    <2> QED
      BY <2>3, <2>4
  <1> QED
    BY <1>4, <1>5

(* The arrival of a packet. *)
Shift(s, p) == IF Started(s) THEN ApplyOffset(s, p) ELSE p
Timed(s, p) == IF IsVideo(p) THEN [s EXCEPT !.times[p.track[2]] = Append(@, Shift(s, p).pts)] ELSE s
Checked(s, p) ==
    CASE Started(s) -> Timed(s, p)
      [] ~Started(s) /\ IsVideo(p) -> [Timed(s, p) EXCEPT !.receivedVideo = @ \cup {p.track[2]}]
      [] OTHER -> [Timed(s, p) EXCEPT !.receivedAudio = TRUE]
Queued(s, p) == [Checked(s, p) EXCEPT !.queue = InsertPacket(@, Shift(s, p))]
Unused(s, p) == IsVideo(p) /\ p.track[2] \notin s.receivedVideo /\ ~p.key

LEMMA ArrivalCases ==
    ASSUME NEW s, NEW p
    PROVE  InterleavePacket(s, p) =
               IF Unused(s, p) THEN DiscardUnused(s, p.ts)
               ELSE IF Started(s) THEN SendStreamable(SetHigherTs(Queued(s, p), Shift(s, p)))
               ELSE IF ~Started(Queued(s, p)) THEN Queued(s, p)
               ELSE StartStream(Queued(s, p))
  BY SMT DEF InterleavePacket, Unused, Queued, Checked, Timed, Shift

LEMMA QueuedFacts ==
    ASSUME NEW s \in State, NEW p \in PacketType
    PROVE  /\ Queued(s, p) \in State
           /\ Queued(s, p).sent = s.sent /\ Queued(s, p).offset = s.offset
           /\ Queued(s, p).highestAudio = s.highestAudio /\ Queued(s, p).highestVideo = s.highestVideo
           /\ Queued(s, p).queue = InsertPacket(s.queue, Shift(s, p))
           /\ Shift(s, p) \in PacketType /\ Shift(s, p).track = p.track
           /\ \A v \in VideoTracks :
                  Queued(s, p).times[v] = IF p.track = <<"video", v>>
                                          THEN Append(s.times[v], Shift(s, p).pts) ELSE s.times[v]
           /\ Queued(s, p).receivedVideo = IF ~Started(s) /\ IsVideo(p)
                                           THEN s.receivedVideo \cup {p.track[2]} ELSE s.receivedVideo
           /\ Queued(s, p).receivedAudio = IF ~Started(s) /\ ~IsVideo(p) THEN TRUE ELSE s.receivedAudio
           /\ IsVideo(p) => p.track[2] \in VideoTracks /\ p.track = <<"video", p.track[2]>>
  <1> DEFINE c == Shift(s, p)
             v0 == p.track[2]
             e == Append(s.times[v0], c.pts)
             m == IF IsVideo(p) THEN [s.times EXCEPT ![v0] = e] ELSE s.times
             rv == IF ~Started(s) /\ IsVideo(p) THEN s.receivedVideo \cup {v0} ELSE s.receivedVideo
             ra == IF ~Started(s) /\ ~IsVideo(p) THEN TRUE ELSE s.receivedAudio
             q == InsertPacket(s.queue, c)
  <1>1. c \in PacketType /\ c.track = p.track
    BY OffsetFacts DEF Shift
  <1>2. /\ s.queue \in Seq(PacketType) /\ s.times \in [VideoTracks -> Seq(Int)]
        /\ s.receivedVideo \in SUBSET VideoTracks /\ s.receivedAudio \in BOOLEAN
    BY DEF State
  <1>3. IsVideo(p) => v0 \in VideoTracks /\ p.track = <<"video", v0>>
    BY TrackFacts DEF IsVideo, PacketType
  <1>4. q \in Seq(PacketType)
    BY <1>1, <1>2, InsertTypes
  <1>5. m \in [VideoTracks -> Seq(Int)]
    <2>1. IsVideo(p) => e \in Seq(Int)
      <3>1. c.pts \in Int
        BY <1>1 DEF PacketType
      <3> HIDE DEF c, v0
      <3> QED
        BY <1>2, <1>3, <3>1, AppendProperties
    <2> HIDE DEF e, v0
    <2> QED
      BY <1>2, <1>3, <2>1
  <1>6. rv \in SUBSET VideoTracks /\ ra \in BOOLEAN
    BY <1>2, <1>3
  <1>7. Timed(s, p) = [s EXCEPT !.times = m]
    BY DEF Timed, State
  <1> HIDE DEF c, v0, e, m, q, rv, ra
  <1>8. Timed(s, p) \in State /\ \A f \in {"receivedVideo", "receivedAudio", "sent", "offset", "highestAudio", "highestVideo", "queue"} : Timed(s, p)[f] = s[f]
    BY <1>5, <1>7 DEF State
  <1>9. Checked(s, p) = [s EXCEPT !.times = m, !.receivedVideo = rv, !.receivedAudio = ra]
    <2>1. CASE Started(s)
      <3>1. rv = s.receivedVideo /\ ra = s.receivedAudio
        BY <2>1 DEF rv, ra
      <3>2. Checked(s, p) = Timed(s, p)
        BY <2>1 DEF Checked
      <3> QED
        BY <1>7, <3>1, <3>2 DEF State
    <2>2. CASE ~Started(s) /\ IsVideo(p)
      <3>1. rv = s.receivedVideo \cup {v0} /\ ra = s.receivedAudio
        BY <2>2 DEF rv, ra
      <3>2. Checked(s, p) = [Timed(s, p) EXCEPT !.receivedVideo = @ \cup {v0}]
        BY <2>2 DEF Checked, v0
      <3>3. Checked(s, p) = [Timed(s, p) EXCEPT !.receivedVideo = rv]
        BY <1>7, <3>1, <3>2 DEF State
      <3> QED
        BY <1>7, <3>1, <3>3 DEF State
    <2>3. CASE ~Started(s) /\ ~IsVideo(p)
      <3>1. rv = s.receivedVideo /\ ra = TRUE
        BY <2>3 DEF rv, ra
      <3>2. Checked(s, p) = [Timed(s, p) EXCEPT !.receivedAudio = TRUE]
        BY <2>3 DEF Checked
      <3> QED
        BY <1>7, <3>1, <3>2 DEF State
    <2> QED
      BY <2>1, <2>2, <2>3
  <1>10. Queued(s, p) = [Checked(s, p) EXCEPT !.queue = q]
    <2>1. Checked(s, p).queue = s.queue
      BY <1>9 DEF State
    <2> QED
      BY <2>1 DEF Queued, q, c
  <1>11. /\ Queued(s, p) \in State
         /\ Queued(s, p).sent = s.sent /\ Queued(s, p).offset = s.offset
         /\ Queued(s, p).highestAudio = s.highestAudio /\ Queued(s, p).highestVideo = s.highestVideo
         /\ Queued(s, p).queue = q /\ Queued(s, p).times = m
         /\ Queued(s, p).receivedVideo = rv /\ Queued(s, p).receivedAudio = ra
    <2> DEFINE z == [s EXCEPT !.times = m, !.receivedVideo = rv, !.receivedAudio = ra]
    <2>1. /\ z \in State /\ z.sent = s.sent /\ z.offset = s.offset
          /\ z.highestAudio = s.highestAudio /\ z.highestVideo = s.highestVideo
          /\ z.times = m /\ z.receivedVideo = rv /\ z.receivedAudio = ra
      BY <1>5, <1>6 DEF State
    <2>2. Queued(s, p) = [z EXCEPT !.queue = q]
      BY <1>9, <1>10
    <2> HIDE DEF z
    <2> QED
      BY <1>4, <2>1, <2>2 DEF State
  <1>12. \A v \in VideoTracks : m[v] = IF p.track = <<"video", v>> THEN Append(s.times[v], c.pts) ELSE s.times[v]
    <2> SUFFICES ASSUME NEW v \in VideoTracks
                 PROVE  m[v] = IF p.track = <<"video", v>> THEN Append(s.times[v], c.pts) ELSE s.times[v]
      OBVIOUS
    <2>1. CASE ~ IsVideo(p)
      <3>1. p.track # <<"video", v>>
        BY <2>1, TrackFacts DEF IsVideo
      <3> QED
        BY <2>1, <3>1 DEF m
    <2>2. CASE IsVideo(p)
      <3>1. p.track = <<"video", v>> <=> v = v0
        BY <1>3, <2>2
      <3>2. m[v] = IF v = v0 THEN e ELSE s.times[v]
        BY <1>2, <1>3, <2>2 DEF m
      <3> QED
        BY <3>1, <3>2 DEF e
    <2> QED
      BY <2>1, <2>2
  <1> QED
    BY <1>1, <1>3, <1>11, <1>12 DEF c, v0, q, rv, ra

LEMMA QueuedGood ==
    ASSUME NEW s, Good(s), NEW p \in PacketType
    PROVE  Good(Queued(s, p))
  <1>1. s \in State /\ s.queue \in Seq(PacketType)
    BY DEF Good, State
  <1> DEFINE d == Queued(s, p)
             c == Shift(s, p)
  <1>2. /\ d \in State /\ d.queue = InsertPacket(s.queue, c)
        /\ c \in PacketType /\ c.track = p.track
        /\ d.receivedVideo = IF ~Started(s) /\ IsVideo(p)
                             THEN s.receivedVideo \cup {p.track[2]} ELSE s.receivedVideo
        /\ IsVideo(p) => p.track[2] \in VideoTracks
    BY <1>1, QueuedFacts
  <1> HIDE DEF d, c
  <1>3. \A x : Among(x, InsertPacket(s.queue, c)) <=> Among(x, s.queue) \/ x = c
    BY <1>1, <1>2, InsertTypes
  <1>4. ASSUME NEW x, Among(x, d.queue), IsVideo(x) PROVE x.track[2] \in d.receivedVideo
    <2>1. Among(x, s.queue) \/ x = c
      BY <1>2, <1>3, <1>4
    <2>2. CASE Among(x, s.queue)
      BY <1>2, <1>4, <2>2 DEF Good, Marked
    <2>3. CASE x = c
      <3>1. IsVideo(p) /\ x.track[2] = p.track[2]
        BY <1>2, <1>4, <2>3 DEF IsVideo
      <3>2. Started(s) => p.track[2] \in s.receivedVideo
        BY <1>2, <3>1 DEF Started
      <3> QED
        BY <1>2, <3>1, <3>2
    <2> QED
      BY <2>1, <2>2, <2>3
  <1>5. Good(d)
    BY <1>2, <1>4 DEF Good, Marked
  <1> QED
    BY <1>5 DEF d

LEMMA ArrivalGood ==
    ASSUME NEW s, Good(s), NEW p \in PacketType, batch \in Nat
    PROVE  Good(InterleavePacket(s, p))
  <1>1. s \in State
    BY DEF Good
  <1>2. Good(Queued(s, p)) /\ Shift(s, p) \in PacketType
    BY <1>1, QueuedGood, QueuedFacts
  <1>3. CASE Unused(s, p)
    <2>1. InterleavePacket(s, p) = DiscardUnused(s, p.ts)
      BY <1>3, ArrivalCases
    <2>2. PICK k \in 0 .. Len(s.queue) : DiscardUnused(s, p.ts) = DiscardToIdx(s, k)
      BY <1>1, UnusedRange
    <2>3. Good(DiscardToIdx(s, k))
      BY DiscardGood
    <2> QED
      BY <2>1, <2>2, <2>3
  <1>4. CASE ~Unused(s, p) /\ Started(s)
    <2> DEFINE d == SetHigherTs(Queued(s, p), Shift(s, p))
    <2>1. InterleavePacket(s, p) = SendStreamable(d)
      BY <1>4, ArrivalCases
    <2>2. Good(d)
      <3>1. /\ d \in State /\ d.queue = Queued(s, p).queue
            /\ d.receivedVideo = Queued(s, p).receivedVideo
        BY <1>2, HigherFacts DEF Good, SameMarks
      <3> HIDE DEF d
      <3> QED
        BY <1>2, <3>1 DEF Good, Marked
    <2> HIDE DEF d
    <2>3. d \in State
      BY <2>2 DEF Good
    <2>4. Ready(d) => Good(SendFirst(d))
      BY <2>2, SendGood DEF Ready
    <2>5. Ready(d) /\ Ready(SendFirst(d)) => Good(SendFirst(SendFirst(d)))
      BY <2>4, SendGood DEF Ready
    <2> QED
      BY <2>1, <2>2, <2>3, <2>4, <2>5, StreamableOutcome
  <1>5. CASE ~Unused(s, p) /\ ~Started(s) /\ ~Started(Queued(s, p))
    BY <1>2, <1>5, ArrivalCases
  <1>6. CASE ~Unused(s, p) /\ ~Started(s) /\ Started(Queued(s, p))
    <2>1. InterleavePacket(s, p) = StartStream(Queued(s, p))
      BY <1>6, ArrivalCases
    <2> QED
      BY <1>2, <2>1, StartGood
  <1> QED
    BY <1>3, <1>4, <1>5, <1>6

LEMMA ResetGood == Good(ResetPacketData)
  <1>1. ResetPacketData \in State
    <2>1. <<>> \in Seq(Int) /\ <<>> \in Seq(PacketType)
      BY EmptySeq
    <2>2. Lowest \in Int
      BY DEF Lowest
    <2>3. [v \in VideoTracks |-> Lowest] \in [VideoTracks -> Int]
      BY <2>2
    <2>4. [v \in VideoTracks |-> <<>>] \in [VideoTracks -> Seq(Int)]
      BY <2>1
    <2>5. [t \in Tracks |-> 0] \in [Tracks -> Int]
      OBVIOUS
    <2> QED
      BY <2>1, <2>3, <2>4, <2>5 DEF ResetPacketData, State
  <1>2. ResetPacketData.queue = <<>>
    BY DEF ResetPacketData
  <1>3. \A x : ~ Among(x, <<>>)
    BY EmptySeq DEF Among
  <1> QED
    BY <1>1, <1>2, <1>3 DEF Good, Marked

LEMMA BatchSizeNat == BatchSize \in Nat
  <1> DEFINE largest == Max({VideoTime, AudioTime})
  <1>1. VideoTime \in Nat \ {0} /\ AudioTime \in Nat \ {0}
    BY TrackAssumption
  <1>2. largest \in Nat
    <2>1. \E x \in {VideoTime, AudioTime} : \A y \in {VideoTime, AudioTime} : x >= y
      BY <1>1
    <2>2. largest \in {VideoTime, AudioTime}
      BY <2>1 DEF Max
    <2> HIDE DEF largest
    <2> QED
      BY <1>1, <2>2
  <1>3. Cardinality(VideoTracks) \in Nat /\ Cardinality(AudioTracks) \in Nat
    BY TrackAssumption, FS_CardinalityType
  <1>4. BatchSize = Cardinality(VideoTracks) * ((largest * 2) \div VideoTime)
                    + Cardinality(AudioTracks) * ((largest * 2) \div AudioTime)
    BY Zenon DEF BatchSize
  <1> HIDE DEF largest
  <1>5. \A a \in Nat : \A b \in Nat \ {0} : a \div b \in Nat
    OBVIOUS
  <1>6. \A a, b \in Nat : a * b \in Nat /\ a + b \in Nat /\ a * 2 \in Nat
    OBVIOUS
  <1>7. (largest * 2) \div VideoTime \in Nat /\ (largest * 2) \div AudioTime \in Nat
    BY <1>1, <1>2, <1>5, <1>6
  <1> HIDE DEF BatchSize
  <1> QED
    BY <1>3, <1>4, <1>6, <1>7

(* The inductive invariant for the types. *)
TypeInv ==
    /\ Clocks /\ next \in [Tracks -> Nat] /\ session \in 0 .. MaxSessions
    /\ active \in BOOLEAN /\ batch \in Nat /\ Good(il)

LEMMA TypeInvInit == Init => TypeInv
  <1> SUFFICES ASSUME Init PROVE TypeInv
    OBVIOUS
  <1>1. Clocks
    BY TrackAssumption DEF Init, Clocks
  <1>2. Good(il)
    BY ResetGood DEF Init
  <1>3. MaxSessions \in Nat
    BY TrackAssumption
  <1>4. next \in [Tracks -> Nat] /\ session \in 0 .. MaxSessions /\ active \in BOOLEAN /\ batch \in Nat
    <2>1. next = [t \in Tracks |-> 0] /\ session = 0 /\ active = FALSE /\ batch = 0
      BY Zenon DEF Init
    <2>2. [t \in Tracks |-> 0] \in [Tracks -> Nat]
      OBVIOUS
    <2>3. next \in [Tracks -> Nat]
      BY <2>1, <2>2
    <2>4. session \in 0 .. MaxSessions
      BY <1>3, <2>1
    <2>5. active \in BOOLEAN
      BY <2>1
    <2>6. batch \in Nat
      BY <2>1
    <2> QED
      BY <2>3, <2>4, <2>5, <2>6
  <1> QED
    BY <1>1, <1>2, <1>4 DEF TypeInv

LEMMA TypeInvNext == TypeInv /\ [Next]_vars => TypeInv'
  <1> SUFFICES ASSUME TypeInv, [Next]_vars PROVE TypeInv'
    OBVIOUS
  <1>1. MaxSessions \in Nat
    BY TrackAssumption
  <1>2. CASE BeginCapture
    <2>1. batch' \in Nat
      BY <1>2, BatchSizeNat DEF BeginCapture, TypeInv
    <2>2. Good(il')
      BY <1>2, ResetGood DEF BeginCapture
    <2>3. Clocks' /\ next' \in [Tracks -> Nat] /\ session' \in 0 .. MaxSessions /\ active' \in BOOLEAN
      BY <1>1, <1>2 DEF BeginCapture, TypeInv, Clocks
    <2> QED
      BY <2>1, <2>2, <2>3 DEF TypeInv, Good, State, Marked
  <1>3. CASE EndCapture
    BY <1>3 DEF EndCapture, TypeInv, Clocks, Good, State, Marked
  <1>4. ASSUME NEW t \in Tracks, Deliver(t) PROVE TypeInv'
    <2>1. next[t] \in Nat /\ next' = [next EXCEPT ![t] = @ + 1]
      BY <1>4 DEF TypeInv, Deliver
    <2>2. next' \in [Tracks -> Nat]
      BY <2>1 DEF TypeInv
    <2>3. Packet(t, next[t]) \in PacketType
      BY <2>1, PacketFacts DEF TypeInv
    <2>4. Good(InterleavePacket(il, Packet(t, next[t])))
      BY <2>3, ArrivalGood DEF TypeInv
    <2>5. Good(il')
      BY <1>4, <2>4 DEF Deliver, TypeInv
    <2> QED
      BY <1>4, <2>2, <2>5 DEF Deliver, TypeInv, Clocks, Good, State, Marked
  <1>5. CASE UNCHANGED vars
    BY <1>5 DEF vars, TypeInv, Clocks, Good, State, Marked
  <1> QED
    BY <1>2, <1>3, <1>4, <1>5 DEF Next

(* interleave_packets: the types, and that the track of every queued video  *)
(* packet is marked as received, whatever the pruning, the discards and the *)
(* search for a missing track did to the queue and to the marks.            *)
THEOREM InterleaverTypes == Spec => []TypeOK
  <1>1. TypeInv => TypeOK
    <2> SUFFICES ASSUME TypeInv PROVE TypeOK
      OBVIOUS
    <2>1. il \in State /\ Marked(il)
      BY DEF TypeInv, Good
    <2>2. il.queue \in Seq(PacketType)
      BY <2>1 DEF State
    <2>3. \A i \in DOMAIN il.queue : Among(il.queue[i], il.queue)
      <3>1. DOMAIN il.queue = 1 .. Len(il.queue)
        BY <2>2, LenProperties
      <3> QED
        BY <3>1 DEF Among
    <2>4. \A i \in DOMAIN il.queue :
              IsVideo(il.queue[i]) => il.queue[i].track[2] \in il.receivedVideo
      BY <2>1, <2>3 DEF Marked
    <2> QED
      BY <2>1, <2>4 DEF TypeOK, TypeInv, State
  <1> QED
    BY <1>1, TypeInvInit, TypeInvNext, PTL DEF Spec

-----------------------------------------------------------------------------
(* The packets of a track are consecutive: with the number of the encoder's *)
(* next packet they end.                                                    *)

Made(b, s, t, n) == IF b THEN ApplyOffset(s, Packet(t, n)) ELSE Packet(t, n)

RunTo(b, s, q, t, e) ==
    /\ q \in Seq(PacketType) /\ e \in Nat /\ Len(q) <= e
    /\ \A i \in 1 .. Len(q) : q[i] = Made(b, s, t, (e - Len(q)) + (i - 1))

LEMMA MadeFacts ==
    ASSUME Clocks, NEW b \in BOOLEAN, NEW s \in State, NEW t \in Tracks, NEW n \in Nat
    PROVE  /\ Made(b, s, t, n) \in PacketType /\ Made(b, s, t, n).track = t /\ Made(b, s, t, n).n = n
           /\ \A m \in Nat : m < n => Made(b, s, t, m).ts < Made(b, s, t, n).ts
           /\ b => /\ Made(b, s, t, n).ts = (origin[t].dts + n * Time(t[1])) - s.offset[t]
                   /\ Made(b, s, t, n).pts = Packet(t, n).pts - s.offset[t]
           /\ s.offset[t] \in Int /\ Made(b, s, t, n).ts \in Int
  <1>1. ASSUME NEW m \in Nat
        PROVE  /\ Packet(t, m) \in PacketType /\ Packet(t, m).track = t /\ Packet(t, m).n = m
               /\ Packet(t, m).dts = origin[t].dts + m * Time(t[1])
               /\ Packet(t, m).ts = origin[t].sys + m * Time(t[1])
    BY PacketFacts
  <1>2. ASSUME NEW m \in Nat
        PROVE  /\ ApplyOffset(s, Packet(t, m)) \in PacketType
               /\ ApplyOffset(s, Packet(t, m)).track = t /\ ApplyOffset(s, Packet(t, m)).n = m
               /\ ApplyOffset(s, Packet(t, m)).ts = (origin[t].dts + m * Time(t[1])) - s.offset[t]
               /\ ApplyOffset(s, Packet(t, m)).pts = Packet(t, m).pts - s.offset[t]
               /\ s.offset[t] \in Int
    BY <1>1, OffsetFacts
  <1>3. Time(t[1]) \in Nat /\ Time(t[1]) > 0 /\ origin[t].dts \in Int /\ origin[t].sys \in Nat
    BY TrackFacts, PacketFacts
  <1>4. ASSUME NEW m \in Nat, m < n PROVE m * Time(t[1]) < n * Time(t[1])
    <2>1. \A x \in Nat : x > 0 => \A i, j \in Nat : i < j => i * x < j * x
      <3>1. ASSUME NEW x \in Nat, x > 0, NEW i \in Nat, NEW j \in Nat, i < j PROVE i * x < j * x
        <4>1. PICK k \in Nat : j = i + k /\ k > 0
          <5>1. j - i \in Nat /\ j = i + (j - i) /\ j - i > 0
            BY <3>1
          <5> QED
            BY <5>1
        <4>2. j * x = i * x + k * x
          BY <4>1
        <4>3. k * x > 0 /\ k * x \in Nat /\ i * x \in Nat
          BY <3>1, <4>1
        <4>4. \A a, c \in Nat : c > 0 => a < a + c
          OBVIOUS
        <4> QED
          BY <4>2, <4>3, <4>4
      <3> QED
        BY <3>1
    <2> QED
      BY <1>3, <1>4, <2>1
  <1>5. n * Time(t[1]) \in Nat /\ \A m \in Nat : m * Time(t[1]) \in Nat
    BY PacketFacts
  <1>6. ASSUME NEW m \in Nat, m < n PROVE Made(b, s, t, m).ts < Made(b, s, t, n).ts
    <2>1. m * Time(t[1]) < n * Time(t[1]) /\ m * Time(t[1]) \in Nat
      BY <1>4, <1>5, <1>6
    <2>2. \A x, y, z, w \in Int : x < y => /\ z + x < z + y /\ (z + x) - w < (z + y) - w
      OBVIOUS
    <2>3. CASE b
      <3>1. /\ Made(b, s, t, m).ts = (origin[t].dts + m * Time(t[1])) - s.offset[t]
            /\ Made(b, s, t, n).ts = (origin[t].dts + n * Time(t[1])) - s.offset[t]
        BY <1>2, <2>3 DEF Made
      <3>2. s.offset[t] \in Int /\ origin[t].dts \in Int
        BY <1>2, <1>3
      <3> QED
        BY <1>5, <2>1, <2>2, <3>1, <3>2
    <2>4. CASE ~b
      <3>1. /\ Made(b, s, t, m).ts = origin[t].sys + m * Time(t[1])
            /\ Made(b, s, t, n).ts = origin[t].sys + n * Time(t[1])
        BY <1>1, <2>4 DEF Made
      <3> QED
        BY <1>3, <1>5, <2>1, <2>2, <3>1
    <2> QED
      BY <2>3, <2>4
  <1>7. Made(b, s, t, n) \in PacketType /\ Made(b, s, t, n).track = t /\ Made(b, s, t, n).n = n
    BY <1>1, <1>2 DEF Made
  <1>8. Made(b, s, t, n).ts \in Int
    BY <1>7 DEF PacketType
  <1> QED
    BY <1>2, <1>6, <1>7, <1>8 DEF Made

(* What a run is after a packet has arrived, and after some have been dropped. *)
LEMMA RunAppend ==
    ASSUME Clocks, NEW b \in BOOLEAN, NEW s \in State, NEW t \in Tracks, NEW q, NEW e, RunTo(b, s, q, t, e)
    PROVE  RunTo(b, s, Append(q, Made(b, s, t, e)), t, e + 1)
  <1> DEFINE p == Made(b, s, t, e)
             r == Append(q, p)
  <1>1. q \in Seq(PacketType) /\ e \in Nat /\ Len(q) <= e /\ Len(q) \in Nat
    BY LenProperties DEF RunTo
  <1>2. p \in PacketType
    BY <1>1, MadeFacts
  <1>3. /\ r \in Seq(PacketType) /\ Len(r) = Len(q) + 1 /\ r[Len(q) + 1] = p
        /\ \A i \in 1 .. Len(q) : r[i] = q[i]
    BY <1>1, <1>2, AppendProperties
  <1> HIDE DEF r
  <1>4. ASSUME NEW i \in 1 .. Len(r) PROVE r[i] = Made(b, s, t, (e + 1 - Len(r)) + (i - 1))
    <2>1. e + 1 - Len(r) = e - Len(q)
      BY <1>1, <1>3
    <2>2. CASE i \in 1 .. Len(q)
      <3>1. q[i] = Made(b, s, t, (e - Len(q)) + (i - 1))
        BY <2>2 DEF RunTo
      <3> QED
        BY <1>3, <2>1, <2>2, <3>1
    <2>3. CASE i = Len(q) + 1
      <3>1. (e - Len(q)) + (i - 1) = e
        BY <1>1, <2>3
      <3> QED
        BY <1>3, <2>1, <2>3, <3>1
    <2>4. i \in 1 .. Len(q) \/ i = Len(q) + 1
      BY <1>1, <1>3
    <2> QED
      BY <2>2, <2>3, <2>4
  <1>5. e + 1 \in Nat /\ Len(r) <= e + 1
    BY <1>1, <1>3
  <1>6. RunTo(b, s, r, t, e + 1)
    BY <1>3, <1>4, <1>5 DEF RunTo
  <1> QED
    BY <1>6 DEF r

LEMMA RunSuffix ==
    ASSUME NEW b, NEW s, NEW t, NEW q, NEW e, RunTo(b, s, q, t, e),
           NEW a \in Seq(PacketType), NEW r \in Seq(PacketType), q = a \o r
    PROVE  RunTo(b, s, r, t, e)
  <1>1. /\ Len(a) \in Nat /\ Len(r) \in Nat /\ e \in Nat /\ Len(q) = Len(a) + Len(r) /\ Len(q) <= e
        /\ \A i \in 1 .. Len(a) + Len(r) : q[i] = IF i <= Len(a) THEN a[i] ELSE r[i - Len(a)]
    BY ConcatProperties, LenProperties DEF RunTo
  <1>2. ASSUME NEW i \in 1 .. Len(r) PROVE r[i] = Made(b, s, t, (e - Len(r)) + (i - 1))
    <2> DEFINE j == Len(a) + i
    <2>1. j \in 1 .. Len(q) /\ ~ (j <= Len(a)) /\ j - Len(a) = i /\ j \in 1 .. Len(a) + Len(r)
      BY <1>1
    <2>2. (e - Len(q)) + (j - 1) = (e - Len(r)) + (i - 1)
      BY <1>1
    <2> HIDE DEF j
    <2>3. q[j] = Made(b, s, t, (e - Len(q)) + (j - 1))
      BY <2>1 DEF RunTo
    <2>4. q[j] = r[i]
      BY <1>1, <2>1
    <2> QED
      BY <2>2, <2>3, <2>4
  <1> QED
    BY <1>1, <1>2 DEF RunTo

LEMMA RunEmpty ==
    ASSUME NEW b, NEW s, NEW t, NEW e \in Nat
    PROVE  RunTo(b, s, <<>>, t, e)
  <1>1. <<>> \in Seq(PacketType) /\ Len(<<>>) = 0
    BY EmptySeq
  <1> QED
    BY <1>1 DEF RunTo

(* A run depends on the offsets only. *)
LEMMA RunSame ==
    ASSUME NEW b, NEW s, NEW d, NEW q, NEW t, NEW e, b => s.offset = d.offset, RunTo(b, s, q, t, e)
    PROVE  RunTo(b, d, q, t, e)
  <1>1. \A n : Made(b, s, t, n) = Made(b, d, t, n)
    BY DEF Made, ApplyOffset
  <1> QED
    BY <1>1 DEF RunTo

LEMMA RunShifted ==
    ASSUME NEW s \in State, NEW d, NEW q, NEW t, NEW e, RunTo(FALSE, d, q, t, e)
    PROVE  RunTo(TRUE, s, Shifted(s, q), t, e)
  <1>1. q \in Seq(PacketType) /\ \A i \in 1 .. Len(q) : q[i] = Packet(t, (e - Len(q)) + (i - 1))
    BY DEF RunTo, Made
  <1>2. /\ Shifted(s, q) \in Seq(PacketType) /\ Len(Shifted(s, q)) = Len(q)
        /\ \A i \in 1 .. Len(q) : Shifted(s, q)[i] = ApplyOffset(s, q[i])
    BY <1>1, ShiftedFacts
  <1>3. \A i \in 1 .. Len(q) : Shifted(s, q)[i] = Made(TRUE, s, t, (e - Len(q)) + (i - 1))
    BY <1>1, <1>2 DEF Made
  <1> QED
    BY <1>2, <1>3 DEF RunTo

(* In the queue and in its track, packets have the same order. *)
LEMMA TrackOrder ==
    ASSUME NEW q \in Seq(PacketType), NEW i \in 1 .. Len(q), NEW j \in 1 .. Len(q), i < j,
           q[i].track = q[j].track
    PROVE  \E x, y \in 1 .. Len(OfTrack(q, q[i].track)) :
               /\ x < y
               /\ OfTrack(q, q[i].track)[x] = q[i] /\ OfTrack(q, q[i].track)[y] = q[j]
  <1> DEFINE t == q[i].track
             a == SubSeq(q, 1, i)
             b == SubSeq(q, i + 1, Len(q))
  <1>1. Len(q) \in Nat /\ i \in 0 .. Len(q)
    BY LenProperties
  <1>2. /\ a \in Seq(PacketType) /\ Len(a) = i /\ (\A k \in 1 .. i : a[k] = q[k])
        /\ b \in Seq(PacketType) /\ Len(b) = Len(q) - i
        /\ (\A k \in 1 .. Len(q) - i : b[k] = q[i + k]) /\ a \o b = q
    BY <1>1, Cut
  <1> HIDE DEF a, b
  <1>3. Among(q[i], a)
    <2>1. i \in 1 .. i
      BY <1>1
    <2> QED
      BY <1>2, <2>1 DEF Among
  <1>4. Among(q[j], b)
    <2>1. j - i \in 1 .. Len(q) - i /\ i + (j - i) = j
      BY <1>1
    <2> DEFINE k == j - i
    <2>2. k \in 1 .. Len(b) /\ b[k] = q[j]
      BY <1>2, <2>1
    <2> HIDE DEF k
    <2> QED
      BY <2>2 DEF Among
  <1> HIDE DEF t
  <1>5. Among(q[i], OfTrack(a, t)) /\ Among(q[j], OfTrack(b, t))
    <2>1. q[i].track = t /\ q[j].track = t
      BY DEF t
    <2> QED
      BY <1>2, <1>3, <1>4, <2>1, AmongTrack
  <1>6. PICK x \in 1 .. Len(OfTrack(a, t)) : OfTrack(a, t)[x] = q[i]
    BY <1>5 DEF Among
  <1>7. PICK y \in 1 .. Len(OfTrack(b, t)) : OfTrack(b, t)[y] = q[j]
    BY <1>5 DEF Among
  <1>8. OfTrack(q, t) = OfTrack(a, t) \o OfTrack(b, t)
    <2>1. a \in Seq(PacketType)
      BY <1>2
    <2>2. b \in Seq(PacketType)
      BY <1>2
    <2>3. OfTrack(a \o b, t) = OfTrack(a, t) \o OfTrack(b, t)
      BY <2>1, <2>2, TrackConcat, ZenonT(40)
    <2>4. a \o b = q
      BY <1>2
    <2> QED
      BY <2>3, <2>4, Zenon
  <1>9. OfTrack(a, t) \in Seq(PacketType) /\ OfTrack(b, t) \in Seq(PacketType)
    BY <1>2, OfTrackAppend
  <1> DEFINE u == OfTrack(a, t)
             w == OfTrack(b, t)
             z == Len(u) + y
  <1>10. /\ Len(u) \in Nat /\ Len(w) \in Nat /\ Len(u \o w) = Len(u) + Len(w)
         /\ \A k \in 1 .. Len(u) + Len(w) : (u \o w)[k] = IF k <= Len(u) THEN u[k] ELSE w[k - Len(u)]
    BY <1>9, ConcatProperties, LenProperties
  <1>11. u[x] = q[i] /\ w[y] = q[j] /\ OfTrack(q, t) = u \o w /\ x \in 1 .. Len(u) /\ y \in 1 .. Len(w)
    BY <1>6, <1>7, <1>8
  <1> HIDE DEF u, w
  <1>12. /\ x \in 1 .. Len(u) + Len(w) /\ x <= Len(u) /\ z \in 1 .. Len(u) + Len(w)
         /\ ~ (z <= Len(u)) /\ z - Len(u) = y /\ x < z
    BY <1>10, <1>11
  <1> HIDE DEF z
  <1>13. /\ x \in 1 .. Len(OfTrack(q, t)) /\ z \in 1 .. Len(OfTrack(q, t)) /\ x < z
         /\ OfTrack(q, t)[x] = q[i] /\ OfTrack(q, t)[z] = q[j]
    BY <1>10, <1>11, <1>12
  <1> QED
    BY <1>13 DEF t

LEMMA RunsIncrease ==
    ASSUME Clocks, NEW b \in BOOLEAN, NEW s \in State, NEW q \in Seq(PacketType), NEW e,
           \A t \in Tracks : RunTo(b, s, OfTrack(q, t), t, e[t])
    PROVE  Increasing(q)
  <1> SUFFICES ASSUME NEW i \in 1 .. Len(q), NEW j \in 1 .. Len(q), i < j, q[i].track = q[j].track
               PROVE  q[i].ts < q[j].ts
    BY DEF Increasing
  <1> DEFINE t == q[i].track
             r == OfTrack(q, t)
  <1>1. PICK x, y \in 1 .. Len(r) : x < y /\ r[x] = q[i] /\ r[y] = q[j]
    BY TrackOrder
  <1>2. t \in Tracks
    <2>1. q[i] \in PacketType
      BY ElementOfSeq
    <2> QED
      BY <2>1 DEF PacketType
  <1> HIDE DEF r, t
  <1>3. RunTo(b, s, r, t, e[t])
    BY <1>2 DEF r
  <1>4. /\ r[x] = Made(b, s, t, (e[t] - Len(r)) + (x - 1)) /\ r[y] = Made(b, s, t, (e[t] - Len(r)) + (y - 1))
        /\ e[t] \in Nat /\ Len(r) <= e[t] /\ Len(r) \in Nat
    BY <1>1, <1>3, LenProperties DEF RunTo
  <1> DEFINE m == (e[t] - Len(r)) + (x - 1)
             n == (e[t] - Len(r)) + (y - 1)
  <1>5. m \in Nat /\ n \in Nat /\ m < n
    <2>1. \A c, k \in Nat : k <= c => \A v, w \in 1 .. k : v < w =>
              /\ (c - k) + (v - 1) \in Nat /\ (c - k) + (w - 1) \in Nat
              /\ (c - k) + (v - 1) < (c - k) + (w - 1)
      OBVIOUS
    <2>2. x \in 1 .. Len(r) /\ y \in 1 .. Len(r) /\ x < y
      BY <1>1 DEF r
    <2> QED
      BY <1>4, <2>1, <2>2
  <1> HIDE DEF m, n
  <1>6. Made(b, s, t, m).ts < Made(b, s, t, n).ts
    BY <1>2, <1>5, MadeFacts
  <1> QED
    BY <1>1, <1>4, <1>6 DEF m, n


(* The packets of a track come before its next one. *)
LEMMA RunBelow ==
    ASSUME Clocks, NEW b \in BOOLEAN, NEW s \in State, NEW q \in Seq(PacketType), NEW t \in Tracks, NEW e,
           RunTo(b, s, OfTrack(q, t), t, e)
    PROVE  \A x : Among(x, q) /\ x.track = t => x.ts < Made(b, s, t, e).ts
  <1> SUFFICES ASSUME NEW x, Among(x, q), x.track = t PROVE x.ts < Made(b, s, t, e).ts
    OBVIOUS
  <1> DEFINE r == OfTrack(q, t)
  <1>1. Among(x, r)
    BY AmongTrack
  <1> HIDE DEF r
  <1>2. PICK i \in 1 .. Len(r) : r[i] = x
    BY <1>1 DEF Among
  <1> DEFINE m == (e - Len(r)) + (i - 1)
  <1>3. x = Made(b, s, t, m) /\ e \in Nat /\ Len(r) <= e /\ Len(r) \in Nat
    BY <1>2, LenProperties DEF RunTo, r
  <1>4. m \in Nat /\ m < e
    BY <1>3
  <1> HIDE DEF m
  <1>5. Made(b, s, t, m).ts < Made(b, s, t, e).ts
    BY <1>3, <1>4, MadeFacts
  <1> QED
    BY <1>3, <1>5
-----------------------------------------------------------------------------
(* The timing entries are those of the queued video packets.                *)
PtsOf(q) == [i \in DOMAIN q |-> q[i].pts]
TimesOf(s) == \A v \in VideoTracks : s.times[v] = PtsOf(OfTrack(s.queue, <<"video", v>>))

LEMMA PtsFacts ==
    ASSUME NEW q \in Seq(PacketType)
    PROVE  /\ PtsOf(q) \in Seq(Int) /\ Len(PtsOf(q)) = Len(q)
           /\ \A i \in 1 .. Len(q) : PtsOf(q)[i] = q[i].pts
  <1>1. Len(q) \in Nat /\ DOMAIN q = 1 .. Len(q)
    BY LenProperties
  <1>2. \A i \in 1 .. Len(q) : q[i].pts \in Int
    <2>1. \A i \in 1 .. Len(q) : q[i] \in PacketType
      BY ElementOfSeq
    <2> QED
      BY <2>1 DEF PacketType
  <1>3. PtsOf(q) = [i \in 1 .. Len(q) |-> q[i].pts]
    BY <1>1 DEF PtsOf
  <1>4. PtsOf(q) \in [1 .. Len(q) -> Int] /\ \A i \in 1 .. Len(q) : PtsOf(q)[i] = q[i].pts
    BY <1>2, <1>3
  <1> QED
    BY <1>1, <1>4, FunctionSeq

LEMMA PtsAppend ==
    ASSUME NEW q \in Seq(PacketType), NEW p \in PacketType
    PROVE  PtsOf(Append(q, p)) = Append(PtsOf(q), p.pts)
  <1> DEFINE r == Append(q, p)
             a == PtsOf(r)
             b == Append(PtsOf(q), p.pts)
  <1>1. /\ r \in Seq(PacketType) /\ Len(r) = Len(q) + 1 /\ r[Len(q) + 1] = p /\ Len(q) \in Nat
        /\ \A i \in 1 .. Len(q) : r[i] = q[i]
    BY AppendProperties, LenProperties
  <1>2. /\ PtsOf(q) \in Seq(Int) /\ Len(PtsOf(q)) = Len(q)
        /\ \A i \in 1 .. Len(q) : PtsOf(q)[i] = q[i].pts
    BY PtsFacts
  <1>3. p.pts \in Int
    BY DEF PacketType
  <1>4. /\ b \in Seq(Int) /\ Len(b) = Len(q) + 1 /\ b[Len(q) + 1] = p.pts
        /\ \A i \in 1 .. Len(q) : b[i] = PtsOf(q)[i]
    BY <1>2, <1>3, AppendProperties
  <1> HIDE DEF r
  <1>5. /\ a \in Seq(Int) /\ Len(a) = Len(r) /\ \A i \in 1 .. Len(r) : a[i] = r[i].pts
    BY <1>1, PtsFacts
  <1> HIDE DEF a, b
  <1>6. \A i \in 1 .. Len(q) : i \in 1 .. Len(r)
    BY <1>1
  <1>7. \A i \in 1 .. Len(q) : a[i] = b[i]
    BY <1>1, <1>2, <1>4, <1>5, <1>6
  <1>8. a[Len(q) + 1] = b[Len(q) + 1]
    <2>1. Len(q) + 1 \in 1 .. Len(r)
      BY <1>1
    <2> QED
      BY <1>1, <1>4, <1>5, <2>1
  <1>9. \A i \in 1 .. Len(a) : i \in 1 .. Len(q) \/ i = Len(q) + 1
    BY <1>1, <1>5
  <1>10. \A i \in 1 .. Len(a) : a[i] = b[i]
    BY <1>7, <1>8, <1>9
  <1>11. Len(a) = Len(b)
    BY <1>1, <1>4, <1>5
  <1>12. a = b
    BY <1>4, <1>5, <1>10, <1>11, SeqEqual
  <1> QED
    BY <1>12 DEF a, b, r

LEMMA PtsSuffix ==
    ASSUME NEW a \in Seq(PacketType), NEW r \in Seq(PacketType)
    PROVE  PtsOf(r) = SubSeq(PtsOf(a \o r), Len(a) + 1, Len(PtsOf(a \o r)))
  <1> DEFINE q == a \o r
             c == PtsOf(q)
             d == SubSeq(c, Len(a) + 1, Len(c))
  <1>1. /\ q \in Seq(PacketType) /\ Len(q) = Len(a) + Len(r) /\ Len(a) \in Nat /\ Len(r) \in Nat
        /\ \A i \in 1 .. Len(a) + Len(r) : q[i] = IF i <= Len(a) THEN a[i] ELSE r[i - Len(a)]
    BY ConcatProperties, LenProperties
  <1>2. /\ PtsOf(r) \in Seq(Int) /\ Len(PtsOf(r)) = Len(r)
        /\ \A i \in 1 .. Len(r) : PtsOf(r)[i] = r[i].pts
    BY PtsFacts
  <1> HIDE DEF q
  <1>3. c \in Seq(Int) /\ Len(c) = Len(q) /\ \A i \in 1 .. Len(q) : c[i] = q[i].pts
    BY <1>1, PtsFacts
  <1> HIDE DEF c
  <1>4. Len(a) \in 0 .. Len(c)
    BY <1>1, <1>3
  <1>5. d \in Seq(Int) /\ Len(d) = Len(c) - Len(a) /\ \A i \in 1 .. Len(c) - Len(a) : d[i] = c[Len(a) + i]
    BY <1>3, <1>4, Cut
  <1> HIDE DEF d
  <1>6. ASSUME NEW i \in 1 .. Len(r) PROVE d[i] = r[i].pts
    <2> DEFINE j == Len(a) + i
    <2>1. j \in 1 .. Len(q) /\ ~ (j <= Len(a)) /\ j - Len(a) = i /\ j \in 1 .. Len(a) + Len(r)
          /\ i \in 1 .. Len(c) - Len(a)
      BY <1>1, <1>3
    <2>2. d[i] = c[j]
      BY <1>5, <2>1
    <2> HIDE DEF j
    <2> QED
      BY <1>1, <1>3, <2>1, <2>2
  <1>7. Len(d) = Len(PtsOf(r)) /\ \A i \in 1 .. Len(PtsOf(r)) : PtsOf(r)[i] = d[i]
    BY <1>1, <1>2, <1>3, <1>5, <1>6
  <1>8. PtsOf(r) = d
    BY <1>2, <1>5, <1>7, SeqEqual
  <1> QED
    BY <1>8 DEF d, c, q

LEMMA PtsShifted ==
    ASSUME NEW s \in State, NEW q \in Seq(PacketType), NEW t, \A i \in 1 .. Len(q) : q[i].track = t
    PROVE  PtsOf(Shifted(s, q)) = [i \in 1 .. Len(PtsOf(q)) |-> PtsOf(q)[i] - s.offset[t]]
  <1>1. /\ Shifted(s, q) \in Seq(PacketType) /\ Len(Shifted(s, q)) = Len(q) /\ Len(q) \in Nat
        /\ \A i \in 1 .. Len(q) : Shifted(s, q)[i] = ApplyOffset(s, q[i])
    BY ShiftedFacts, LenProperties
  <1>2. DOMAIN Shifted(s, q) = 1 .. Len(q)
    BY <1>1, LenProperties
  <1>3. Len(PtsOf(q)) = Len(q) /\ \A i \in 1 .. Len(q) : PtsOf(q)[i] = q[i].pts
    BY PtsFacts
  <1>4. \A i \in 1 .. Len(q) : ApplyOffset(s, q[i]).pts = q[i].pts - s.offset[t]
    <2>1. \A i \in 1 .. Len(q) : q[i] \in PacketType
      BY ElementOfSeq
    <2> QED
      BY <2>1, OffsetFacts
  <1>5. \A i \in 1 .. Len(q) : Shifted(s, q)[i].pts = PtsOf(q)[i] - s.offset[t]
    BY <1>1, <1>3, <1>4
  <1>6. PtsOf(Shifted(s, q)) = [i \in 1 .. Len(q) |-> Shifted(s, q)[i].pts]
    BY <1>2 DEF PtsOf
  <1>7. [i \in 1 .. Len(q) |-> Shifted(s, q)[i].pts] = [i \in 1 .. Len(q) |-> PtsOf(q)[i] - s.offset[t]]
    BY <1>5
  <1> QED
    BY <1>3, <1>6, <1>7, Zenon

-----------------------------------------------------------------------------
(* Before the stream starts.                                                *)
OneVideo == VideoTracks = {0}

Waiting(s, e) ==
    /\ Good(s) /\ s.sent = <<>>
    /\ s.offset = [t \in Tracks |-> 0]
    /\ s.highestAudio = 0 /\ s.highestVideo = [v \in VideoTracks |-> Lowest]
    /\ Sorted(s.queue)
    /\ \A t \in Tracks : RunTo(FALSE, s, OfTrack(s.queue, t), t, e[t])
    /\ TimesOf(s)

(* The video track is marked as received while it has packets.              *)
VideoMarked(s) == 0 \in s.receivedVideo <=> OfTrack(s.queue, V) # <<>>

(* Only the marks differ. *)
SameData(s, d) == /\ d.sent = s.sent /\ d.offset = s.offset /\ d.queue = s.queue /\ d.times = s.times
                  /\ d.highestAudio = s.highestAudio /\ d.highestVideo = s.highestVideo

LEMMA WaitingMarks ==
    ASSUME NEW s, NEW e, Waiting(s, e), NEW d, Good(d), SameData(s, d)
    PROVE  Waiting(d, e)
  <1>1. \A t \in Tracks : RunTo(FALSE, d, OfTrack(d.queue, t), t, e[t])
    <2>1. \A t \in Tracks : RunTo(FALSE, s, OfTrack(d.queue, t), t, e[t])
      BY DEF Waiting, SameData
    <2> QED
      BY <2>1, RunSame
  <1>2. TimesOf(d)
    BY DEF Waiting, SameData, TimesOf
  <1>3. /\ d.sent = <<>> /\ d.offset = [t \in Tracks |-> 0]
        /\ d.highestAudio = 0 /\ d.highestVideo = [v \in VideoTracks |-> Lowest] /\ Sorted(d.queue)
    BY DEF Waiting, SameData
  <1> QED
    BY <1>1, <1>2, <1>3 DEF Waiting

LEMMA SortedSuffix ==
    ASSUME NEW q \in Seq(PacketType), NEW k \in 0 .. Len(q), Sorted(q)
    PROVE  Sorted(SubSeq(q, k + 1, Len(q)))
  <1> DEFINE b == SubSeq(q, k + 1, Len(q))
  <1>1. Len(b) = Len(q) - k /\ Len(q) \in Nat /\ \A i \in 1 .. Len(q) - k : b[i] = q[k + i]
    BY Cut, LenProperties
  <1> HIDE DEF b
  <1>2. \A i \in 1 .. Len(b) : k + i \in 1 .. Len(q) /\ b[i] = q[k + i]
    BY <1>1
  <1>3. \A i, j \in 1 .. Len(b) : i < j => k + i < k + j
    BY <1>1
  <1> QED
    BY <1>2, <1>3 DEF Sorted, b

LEMMA WaitingDiscard ==
    ASSUME NEW s, NEW e, Waiting(s, e), NEW k \in 0 .. Len(s.queue)
    PROVE  /\ Waiting(DiscardToIdx(s, k), e)
           /\ OfTrack(s.queue, V) = <<>> => OfTrack(DiscardToIdx(s, k).queue, V) = <<>>
  <1> DEFINE d == DiscardToIdx(s, k)
             a == SubSeq(s.queue, 1, k)
  <1>1. s \in State /\ s.queue \in Seq(PacketType) /\ Good(s)
    BY DEF Waiting, Good, State
  <1>2. /\ d \in State /\ SameRest(s, d) /\ d.queue = SubSeq(s.queue, k + 1, Len(s.queue))
        /\ s.queue = a \o d.queue /\ a \in Seq(PacketType)
        /\ \A v \in VideoTracks : d.times[v] = SubSeq(s.times[v], Len(OfTrack(a, <<"video", v>>)) + 1, Len(s.times[v]))
    BY <1>1, DiscardFacts
  <1>3. Good(d)
    BY <1>1, DiscardGood
  <1>4. Sorted(d.queue)
    BY <1>1, <1>2, SortedSuffix DEF Waiting
  <1> HIDE DEF d, a
  <1>5. d.queue \in Seq(PacketType)
    BY <1>2 DEF State
  <1>6. ASSUME NEW t
        PROVE  /\ OfTrack(s.queue, t) = OfTrack(a, t) \o OfTrack(d.queue, t)
               /\ OfTrack(a, t) \in Seq(PacketType) /\ OfTrack(d.queue, t) \in Seq(PacketType)
    <2>1. OfTrack(a, t) \in Seq(PacketType)
      BY <1>2, OfTrackAppend
    <2>2. OfTrack(d.queue, t) \in Seq(PacketType)
      BY <1>5, OfTrackAppend
    <2>3. OfTrack(a \o d.queue, t) = OfTrack(a, t) \o OfTrack(d.queue, t)
      BY <1>2, <1>5, OfTrackConcat
    <2>4. s.queue = a \o d.queue
      BY <1>2
    <2> QED
      BY <2>1, <2>2, <2>3, <2>4, Zenon
  <1>7. ASSUME NEW t \in Tracks PROVE RunTo(FALSE, d, OfTrack(d.queue, t), t, e[t])
    <2>1. RunTo(FALSE, s, OfTrack(s.queue, t), t, e[t])
      BY DEF Waiting
    <2>2. RunTo(FALSE, s, OfTrack(d.queue, t), t, e[t])
      BY <1>6, <2>1, RunSuffix
    <2> QED
      BY <2>2, RunSame
  <1>8. TimesOf(d)
    <2> SUFFICES ASSUME NEW v \in VideoTracks
                 PROVE  d.times[v] = PtsOf(OfTrack(d.queue, <<"video", v>>))
      BY DEF TimesOf
    <2> DEFINE t == <<"video", v>>
               x == OfTrack(a, t)
               y == OfTrack(d.queue, t)
    <2>1. s.times[v] = PtsOf(x \o y)
      <3>1. s.times[v] = PtsOf(OfTrack(s.queue, t))
        BY DEF Waiting, TimesOf
      <3>2. OfTrack(s.queue, t) = x \o y
        BY <1>6
      <3> QED
        BY <3>1, <3>2, Zenon
    <2>2. d.times[v] = SubSeq(s.times[v], Len(x) + 1, Len(s.times[v]))
      BY <1>2
    <2>3. x \in Seq(PacketType) /\ y \in Seq(PacketType)
      BY <1>6
    <2> HIDE DEF x, y
    <2>4. PtsOf(y) = SubSeq(PtsOf(x \o y), Len(x) + 1, Len(PtsOf(x \o y)))
      BY <2>3, PtsSuffix
    <2>5. d.times[v] = PtsOf(y)
      BY <2>1, <2>2, <2>4, Zenon
    <2> QED
      BY <2>5 DEF y
  <1>9. Waiting(d, e)
    <2>1. /\ d.sent = <<>> /\ d.offset = [t \in Tracks |-> 0]
          /\ d.highestAudio = 0 /\ d.highestVideo = [v \in VideoTracks |-> Lowest]
      BY <1>2 DEF Waiting, SameRest, SameMarks
    <2> QED
      BY <1>3, <1>4, <1>7, <1>8, <2>1 DEF Waiting
  <1>10. OfTrack(s.queue, V) = <<>> => OfTrack(d.queue, V) = <<>>
    BY <1>6, ConcatEqualIffEmpty
  <1> QED
    BY <1>9, <1>10 DEF d

LEMMA WaitingTrimmed ==
    ASSUME NEW s, NEW e, Waiting(s, e), NEW d, Trimmed(s, d)
    PROVE  Waiting(d, e) /\ d.receivedAudio = s.receivedAudio /\ d.receivedVideo = s.receivedVideo
  <1>1. ASSUME NEW x, NEW y, Waiting(x, e), Cutoff(x, y)
        PROVE  Waiting(y, e) /\ y.receivedAudio = x.receivedAudio /\ y.receivedVideo = x.receivedVideo
    <2>1. PICK k \in 0 .. Len(x.queue) : y = DiscardToIdx(x, k)
      BY <1>1 DEF Cutoff
    <2>2. Waiting(DiscardToIdx(x, k), e)
      BY <1>1, WaitingDiscard
    <2>3. SameRest(x, DiscardToIdx(x, k))
      BY <1>1, DiscardFacts DEF Waiting, Good
    <2> QED
      BY <2>1, <2>2, <2>3 DEF SameRest, SameMarks
  <1> QED
    BY <1>1 DEF Trimmed

(* A packet that arrives before the start. *)
LEMMA WaitingQueued ==
    ASSUME Clocks, NEW s, NEW e \in [Tracks -> Nat], Waiting(s, e), ~Started(s), NEW t \in Tracks
    PROVE  /\ Waiting(Queued(s, Packet(t, e[t])), [e EXCEPT ![t] = @ + 1])
           /\ t # V => OfTrack(Queued(s, Packet(t, e[t])).queue, V) = OfTrack(s.queue, V)
           /\ OfTrack(Queued(s, Packet(t, e[t])).queue, t) # <<>>
  <1> DEFINE p == Packet(t, e[t])
             d == Queued(s, p)
             f == [e EXCEPT ![t] = @ + 1]
  <1>1. /\ s \in State /\ s.queue \in Seq(PacketType) /\ Good(s) /\ Sorted(s.queue)
        /\ \A u \in Tracks : RunTo(FALSE, s, OfTrack(s.queue, u), u, e[u])
    BY DEF Waiting, Good, State
  <1>2. p \in PacketType /\ p.track = t /\ e[t] \in Nat
    BY PacketFacts
  <1>3. Shift(s, p) = p
    BY DEF Shift
  <1> HIDE DEF p
  <1>4. /\ d \in State /\ d.sent = s.sent /\ d.offset = s.offset
        /\ d.highestAudio = s.highestAudio /\ d.highestVideo = s.highestVideo
        /\ d.queue = InsertPacket(s.queue, p)
        /\ \A v \in VideoTracks : d.times[v] = IF p.track = <<"video", v>> THEN Append(s.times[v], p.pts) ELSE s.times[v]
    <2>1. /\ d \in State /\ d.sent = s.sent /\ d.offset = s.offset
          /\ d.highestAudio = s.highestAudio /\ d.highestVideo = s.highestVideo
          /\ d.queue = InsertPacket(s.queue, Shift(s, p))
          /\ \A v \in VideoTracks : d.times[v] = IF p.track = <<"video", v>>
                                                THEN Append(s.times[v], Shift(s, p).pts) ELSE s.times[v]
      BY <1>1, <1>2, QueuedFacts
    <2> HIDE DEF d
    <2> QED
      BY <1>3, <2>1
  <1>5. Good(d)
    BY <1>1, <1>2, QueuedGood
  <1> HIDE DEF d
  <1>6. p = Made(FALSE, s, t, e[t])
    BY DEF Made, p
  <1>7. \A x : Among(x, s.queue) /\ x.track = p.track => x.ts < p.ts
    BY <1>1, <1>2, <1>6, RunBelow
  <1>8. \A u : OfTrack(d.queue, u) = IF t = u THEN Append(OfTrack(s.queue, u), p) ELSE OfTrack(s.queue, u)
    <2>1. \A u : OfTrack(InsertPacket(s.queue, p), u)
                 = IF p.track = u THEN Append(OfTrack(s.queue, u), p) ELSE OfTrack(s.queue, u)
      BY <1>1, <1>2, <1>7, InsertTrack
    <2> QED
      BY <1>2, <1>4, <2>1, Zenon
  <1>9. Sorted(d.queue)
    BY <1>1, <1>2, <1>4, InsertSorted
  <1>10. ASSUME NEW u \in Tracks PROVE RunTo(FALSE, d, OfTrack(d.queue, u), u, f[u])
    <2>1. RunTo(FALSE, s, OfTrack(s.queue, u), u, e[u])
      BY <1>1
    <2>2. CASE u = t
      <3>1. RunTo(FALSE, s, Append(OfTrack(s.queue, t), Made(FALSE, s, t, e[t])), t, e[t] + 1)
        BY <1>1, <2>1, <2>2, RunAppend
      <3>2. f[u] = e[t] + 1
        BY <2>2
      <3>3. OfTrack(d.queue, u) = Append(OfTrack(s.queue, t), Made(FALSE, s, t, e[t]))
        BY <1>6, <1>8, <2>2
      <3>4. RunTo(FALSE, s, OfTrack(d.queue, u), u, f[u])
        BY <2>2, <3>1, <3>2, <3>3, Zenon
      <3> QED
        BY <3>4, RunSame
    <2>3. CASE u # t
      <3>1. f[u] = e[u]
        BY <2>3
      <3>2. OfTrack(d.queue, u) = OfTrack(s.queue, u)
        BY <1>8, <2>3
      <3>3. RunTo(FALSE, s, OfTrack(d.queue, u), u, f[u])
        BY <2>1, <3>1, <3>2, Zenon
      <3> QED
        BY <3>3, RunSame
    <2> QED
      BY <2>2, <2>3
  <1>11. TimesOf(d)
    <2> SUFFICES ASSUME NEW v \in VideoTracks
                 PROVE  d.times[v] = PtsOf(OfTrack(d.queue, <<"video", v>>))
      BY DEF TimesOf
    <2>1. s.times[v] = PtsOf(OfTrack(s.queue, <<"video", v>>)) /\ OfTrack(s.queue, <<"video", v>>) \in Seq(PacketType)
      BY <1>1, OfTrackAppend DEF Waiting, TimesOf
    <2>2. CASE t = <<"video", v>>
      <3>1. d.times[v] = Append(s.times[v], p.pts) /\ OfTrack(d.queue, <<"video", v>>) = Append(OfTrack(s.queue, <<"video", v>>), p)
        BY <1>2, <1>4, <1>8, <2>2
      <3>2. PtsOf(Append(OfTrack(s.queue, <<"video", v>>), p)) = Append(PtsOf(OfTrack(s.queue, <<"video", v>>)), p.pts)
        BY <1>2, <2>1, PtsAppend
      <3> QED
        BY <2>1, <3>1, <3>2, Zenon
    <2>3. CASE t # <<"video", v>>
      BY <1>2, <1>4, <1>8, <2>1, <2>3
    <2> QED
      BY <2>2, <2>3
  <1>12. Waiting(d, f)
    <2>1. /\ d.sent = <<>> /\ d.offset = [u \in Tracks |-> 0]
          /\ d.highestAudio = 0 /\ d.highestVideo = [v \in VideoTracks |-> Lowest]
      BY <1>4 DEF Waiting
    <2> HIDE DEF f
    <2> QED
      BY <1>5, <1>9, <1>10, <1>11, <2>1 DEF Waiting
  <1>13. OfTrack(d.queue, t) # <<>>
    <2>1. OfTrack(d.queue, t) = Append(OfTrack(s.queue, t), p) /\ OfTrack(s.queue, t) \in Seq(PacketType)
      BY <1>1, <1>8, OfTrackAppend
    <2> QED
      BY <1>2, <2>1, AppendProperties
  <1>14. t # V => OfTrack(d.queue, V) = OfTrack(s.queue, V)
    BY <1>8
  <1> QED
    BY <1>12, <1>13, <1>14 DEF d, p

-----------------------------------------------------------------------------
(* Once the stream has started.                                             *)
KeptIn(s, t) == OfTrack(s.sent \o s.queue, t)
AtZero(q) == q # <<>> /\ (q[1].pts = 0 \/ (~IsVideo(q[1]) /\ q[1].pts < 0))

Flowing(s, e) ==
    /\ Good(s) /\ Started(s) /\ Sorted(s.queue)
    /\ \A t \in Tracks : RunTo(TRUE, s, KeptIn(s, t), t, e[t]) /\ AtZero(KeptIn(s, t))
    /\ TimesOf(s)

LEMMA KeptFacts ==
    ASSUME NEW s \in State, NEW t
    PROVE  /\ KeptIn(s, t) = OfTrack(s.sent, t) \o OfTrack(s.queue, t)
           /\ KeptIn(s, t) \in Seq(PacketType)
           /\ OfTrack(s.sent, t) \in Seq(PacketType) /\ OfTrack(s.queue, t) \in Seq(PacketType)
           /\ s.sent \in Seq(PacketType) /\ s.queue \in Seq(PacketType)
  <1>1. s.sent \in Seq(PacketType) /\ s.queue \in Seq(PacketType)
    BY DEF State
  <1>2. OfTrack(s.sent \o s.queue, t) = OfTrack(s.sent, t) \o OfTrack(s.queue, t)
    BY <1>1, OfTrackConcat
  <1>3. OfTrack(s.sent, t) \in Seq(PacketType) /\ OfTrack(s.queue, t) \in Seq(PacketType)
    BY <1>1, OfTrackAppend
  <1>4. OfTrack(s.sent, t) \o OfTrack(s.queue, t) \in Seq(PacketType)
    BY <1>3, ConcatProperties
  <1> QED
    BY <1>1, <1>2, <1>3, <1>4 DEF KeptIn

(* The new offsets move the first packet of each track to time 0. *)
LEMMA BegunAtZero ==
    ASSUME Clocks, NEW s, NEW e, Waiting(s, e), HasAllTracks(s), NEW t \in Tracks
    PROVE  AtZero(Shifted(NewOffsets(s), OfTrack(s.queue, t)))
  <1> DEFINE a == NewOffsets(s)
             q == OfTrack(s.queue, t)
             p == q[1]
  <1>1. s \in State /\ s.queue \in Seq(PacketType) /\ RunTo(FALSE, s, q, t, e[t]) /\ s.offset[t] = 0
    BY DEF Waiting, Good, State
  <1>2. FirstIdx(s.queue, t) # 0
    BY DEF HasAllTracks
  <1>3. q # <<>> /\ p = First(s, t) /\ q \in Seq(PacketType)
    BY <1>1, <1>2, FirstIsHead, OfTrackAppend DEF First
  <1>4. a \in State /\ a.offset[t] = IF t[1] = "video" THEN First(s, t).pts
                                     ELSE IF First(s, t).dts > 0 THEN First(s, t).dts ELSE s.offset[t]
    BY <1>1, NewOffsetsFacts
  <1> HIDE DEF a, q
  <1>5. 1 \in 1 .. Len(q) /\ Len(q) \in Nat
    BY <1>3, EmptySeq
  <1> DEFINE n == (e[t] - Len(q)) + (1 - 1)
  <1>6. p = Packet(t, n) /\ n \in Nat
    BY <1>1, <1>5 DEF RunTo, Made
  <1> HIDE DEF n
  <1>7. /\ p \in PacketType /\ p.track = t /\ p.dts \in Int /\ p.pts \in Int
        /\ t[1] # "video" => p.pts = p.dts
    <2>1. /\ p \in PacketType /\ p.track = t /\ p.pts = IF t[1] = "video" THEN p.dts + Lead ELSE p.dts
      BY <1>6, PacketFacts
    <2>2. p.dts \in Int /\ p.pts \in Int
      BY <2>1 DEF PacketType
    <2> QED
      BY <2>1, <2>2
  <1>8. /\ Shifted(a, q) \in Seq(PacketType) /\ Len(Shifted(a, q)) = Len(q)
        /\ Shifted(a, q)[1] = ApplyOffset(a, p)
    BY <1>3, <1>4, <1>5, ShiftedFacts
  <1>9. Shifted(a, q) # <<>>
    BY <1>3, <1>5, <1>8, EmptySeq
  <1>10. ApplyOffset(a, p).pts = p.pts - a.offset[t] /\ ApplyOffset(a, p).track = t
    BY <1>4, <1>7, OffsetFacts
  <1>11. CASE t[1] = "video"
    <2>1. ApplyOffset(a, p).pts = 0
      BY <1>3, <1>4, <1>7, <1>10, <1>11
    <2> QED
      BY <1>8, <1>9, <2>1 DEF AtZero, a, q
  <1>12. CASE t[1] # "video"
    <2>1. ApplyOffset(a, p).pts = 0 \/ ApplyOffset(a, p).pts < 0
      BY <1>1, <1>3, <1>4, <1>7, <1>10, <1>12
    <2>2. ~ IsVideo(ApplyOffset(a, p))
      BY <1>10, <1>12 DEF IsVideo
    <2> QED
      BY <1>8, <1>9, <2>1, <2>2 DEF AtZero, a, q
  <1> QED
    BY <1>11, <1>12

LEMMA BegunFlowing ==
    ASSUME Clocks, NEW s, NEW e, Waiting(s, e), HasAllTracks(s), Started(s)
    PROVE  Flowing(Begun(s), e)
  <1> DEFINE a == NewOffsets(s)
             b == ApplyOffsets(a)
             c == Resort(b)
  <1>1. s \in State /\ s.queue \in Seq(PacketType) /\ s.sent = <<>>
    BY DEF Waiting, Good, State
  <1>2. a \in State /\ SameMarks(s, a) /\ a.queue = s.queue /\ a.times = s.times
    BY <1>1, NewOffsetsFacts
  <1>3. \A t \in Tracks : AtZero(Shifted(a, OfTrack(s.queue, t)))
    BY BegunAtZero
  <1>4. Good(c) /\ b \in State
    BY BegunGood DEF Waiting, Begun
  <1> HIDE DEF a
  <1>5. /\ SameRest(a, b) /\ b.queue = Shifted(a, s.queue)
        /\ \A v \in VideoTracks : b.times[v] = [i \in 1 .. Len(s.times[v]) |-> s.times[v][i] - a.offset[<<"video", v>>]]
    <2>1. /\ SameRest(a, b) /\ b.queue = Shifted(a, a.queue)
          /\ \A v \in VideoTracks : b.times[v] = [i \in 1 .. Len(a.times[v]) |-> a.times[v][i] - a.offset[<<"video", v>>]]
      BY <1>2, ApplyOffsetsFacts
    <2> HIDE DEF b
    <2> QED
      BY <1>2, <2>1
  <1>6. \A t : OfTrack(Shifted(a, s.queue), t) = Shifted(a, OfTrack(s.queue, t))
    BY <1>1, <1>2, ShiftedTrack
  <1> HIDE DEF b
  <1>7. ASSUME NEW t \in Tracks PROVE RunTo(TRUE, a, OfTrack(b.queue, t), t, e[t])
    <2>1. RunTo(FALSE, s, OfTrack(s.queue, t), t, e[t])
      BY DEF Waiting
    <2>2. RunTo(TRUE, a, Shifted(a, OfTrack(s.queue, t)), t, e[t])
      BY <1>2, <2>1, RunShifted
    <2> QED
      BY <1>5, <1>6, <2>2
  <1>8. Increasing(b.queue)
    <2>1. b.queue \in Seq(PacketType)
      BY <1>4 DEF State
    <2> QED
      BY <1>2, <1>7, <2>1, RunsIncrease
  <1>9. /\ SameMarks(b, c) /\ c.offset = b.offset /\ c.times = b.times /\ Sorted(c.queue)
        /\ \A t : OfTrack(c.queue, t) = OfTrack(b.queue, t)
    BY <1>4, <1>8, ResortFacts
  <1> HIDE DEF c
  <1>10. c \in State /\ c.offset = a.offset /\ c.sent = <<>> /\ Started(c)
    BY <1>1, <1>2, <1>4, <1>5, <1>9 DEF Good, SameRest, SameMarks, Started
  <1>11. \A t : KeptIn(c, t) = OfTrack(b.queue, t)
    <2>1. c.queue \in Seq(PacketType)
      BY <1>10 DEF State
    <2>2. c.sent \o c.queue = c.queue
      BY <1>10, <2>1, ConcatEmptySeq
    <2> QED
      BY <1>9, <2>2 DEF KeptIn
  <1>12. ASSUME NEW t \in Tracks PROVE RunTo(TRUE, c, KeptIn(c, t), t, e[t]) /\ AtZero(KeptIn(c, t))
    <2>1. RunTo(TRUE, a, KeptIn(c, t), t, e[t])
      BY <1>7, <1>11
    <2>2. AtZero(KeptIn(c, t))
      BY <1>3, <1>5, <1>6, <1>11
    <2> QED
      BY <1>10, <2>1, <2>2, RunSame
  <1>13. TimesOf(c)
    <2> SUFFICES ASSUME NEW v \in VideoTracks PROVE c.times[v] = PtsOf(OfTrack(c.queue, <<"video", v>>))
      BY DEF TimesOf
    <2> DEFINE t == <<"video", v>>
               q == OfTrack(s.queue, t)
    <2>1. q \in Seq(PacketType) /\ s.times[v] = PtsOf(q)
      BY <1>1, OfTrackAppend DEF Waiting, TimesOf
    <2>2. \A i \in 1 .. Len(q) : q[i].track = t
      <3>1. \A x : Among(x, q) => x.track = t
        BY <1>1, AmongTrack
      <3> HIDE DEF q
      <3> QED
        BY <3>1 DEF Among
    <2>3. OfTrack(c.queue, t) = Shifted(a, q)
      BY <1>5, <1>6, <1>9
    <2> HIDE DEF q, t
    <2>4. PtsOf(Shifted(a, q)) = [i \in 1 .. Len(PtsOf(q)) |-> PtsOf(q)[i] - a.offset[t]]
      BY <1>2, <2>1, <2>2, PtsShifted
    <2>5. c.times[v] = [i \in 1 .. Len(s.times[v]) |-> s.times[v][i] - a.offset[t]]
      BY <1>5, <1>9 DEF t
    <2>6. c.times[v] = PtsOf(OfTrack(c.queue, t))
      BY <2>1, <2>3, <2>4, <2>5, Zenon
    <2> QED
      BY <2>6 DEF t
  <1> QED
    BY <1>4, <1>9, <1>10, <1>12, <1>13 DEF Flowing, Begun, a, b, c

LEMMA SendFlowing ==
    ASSUME NEW s, NEW e, Flowing(s, e), s.queue # <<>>
    PROVE  Flowing(SendFirst(s), e) /\ SendFirst(s).sent # <<>>
  <1> DEFINE d == SendFirst(s)
             p == s.queue[1]
             r == Tail(s.queue)
  <1>1. s \in State /\ s.sent \in Seq(PacketType) /\ s.queue \in Seq(PacketType)
    BY DEF Flowing, Good, State
  <1>2. /\ d \in State /\ d.receivedAudio = s.receivedAudio /\ d.receivedVideo = s.receivedVideo
        /\ d.offset = s.offset /\ d.queue = r /\ d.sent = Append(s.sent, p)
        /\ p \in PacketType /\ s.queue = <<p>> \o r /\ r \in Seq(PacketType)
        /\ \A v \in VideoTracks :
               d.times[v] = IF p.track = <<"video", v>> THEN RemoveFirst(s.times[v], p.pts) ELSE s.times[v]
    BY <1>1, SendFacts
  <1>3. Good(d)
    BY SendGood DEF Flowing
  <1>4. Sorted(r)
    <2>1. Len(r) = Len(s.queue) - 1 /\ Len(s.queue) \in Nat /\ \A i \in 1 .. Len(r) : r[i] = s.queue[i + 1]
      BY <1>1, HeadTailProperties, LenProperties
    <2> HIDE DEF r
    <2>2. \A i \in 1 .. Len(r) : i + 1 \in 1 .. Len(s.queue)
      BY <2>1
    <2>3. \A i, j \in 1 .. Len(r) : i < j => i + 1 < j + 1
      BY <2>1
    <2> QED
      BY <2>1, <2>2, <2>3 DEF Flowing, Sorted
  <1> HIDE DEF d, p, r
  <1>5. d.sent \o d.queue = s.sent \o s.queue
    <2>1. Append(s.sent, p) \o r = s.sent \o (<<p>> \o r)
      <3>1. \A a, b \in Seq(PacketType) : \A x \in PacketType : Append(a, x) \o b = a \o (<<x>> \o b)
        BY AppendConcat
      <3> QED
        BY <1>1, <1>2, <3>1
    <2> QED
      BY <1>2, <2>1
  <1>6. ASSUME NEW t \in Tracks PROVE RunTo(TRUE, d, KeptIn(d, t), t, e[t]) /\ AtZero(KeptIn(d, t))
    <2>1. KeptIn(d, t) = KeptIn(s, t)
      BY <1>5 DEF KeptIn
    <2>2. RunTo(TRUE, s, KeptIn(d, t), t, e[t]) /\ AtZero(KeptIn(d, t))
      BY <2>1 DEF Flowing
    <2> QED
      BY <1>2, <2>2, RunSame
  <1>7. TimesOf(d)
    <2> SUFFICES ASSUME NEW v \in VideoTracks PROVE d.times[v] = PtsOf(OfTrack(d.queue, <<"video", v>>))
      BY DEF TimesOf
    <2> DEFINE t == <<"video", v>>
               x == OfTrack(<<p>>, t)
               y == OfTrack(r, t)
    <2>1. s.times[v] = PtsOf(OfTrack(s.queue, t))
      BY DEF Flowing, TimesOf
    <2>2. <<p>> \in Seq(PacketType) /\ x = IF p.track = t THEN <<p>> ELSE <<>>
      BY <1>2, OfTrackOne
    <2>3. OfTrack(<<p>> \o r, t) = x \o y
      BY <1>2, <2>2, OfTrackConcat
    <2>4. x \in Seq(PacketType) /\ y \in Seq(PacketType)
      BY <1>2, <2>2, OfTrackAppend
    <2>5. s.times[v] = PtsOf(x \o y)
      BY <1>2, <2>1, <2>3, Zenon
    <2>6. d.times[v] = IF p.track = t THEN RemoveFirst(s.times[v], p.pts) ELSE s.times[v]
      BY <1>2
    <2>7. PtsOf(y) = SubSeq(PtsOf(x \o y), Len(x) + 1, Len(PtsOf(x \o y)))
      BY <2>4, PtsSuffix
    <2> HIDE DEF t, x, y
    <2>8. CASE p.track # t
      <3>1. x \o y = y
        BY <2>2, <2>4, <2>8, ConcatEmptySeq
      <3>2. d.times[v] = s.times[v]
        BY <2>6, <2>8
      <3>3. d.times[v] = PtsOf(y)
        BY <2>5, <3>1, <3>2, Zenon
      <3> QED
        BY <1>2, <3>3 DEF y, t
    <2>9. CASE p.track = t
      <3> DEFINE z == x \o y
                 c == PtsOf(z)
      <3>1. x = <<p>> /\ Len(x) = 1 /\ x[1] = p
        BY <2>2, <2>9
      <3>2. z \in Seq(PacketType) /\ Len(z) \in Nat /\ 1 \in 1 .. Len(z) /\ z[1] = p
        <4>1. /\ z \in Seq(PacketType) /\ Len(z) = Len(x) + Len(y) /\ Len(y) \in Nat
              /\ \A i \in 1 .. Len(x) + Len(y) : z[i] = IF i <= Len(x) THEN x[i] ELSE y[i - Len(x)]
          BY <2>4, ConcatProperties, LenProperties
        <4> HIDE DEF z
        <4>2. Len(z) = 1 + Len(y) /\ 1 \in 1 .. Len(x) + Len(y) /\ 1 <= Len(x)
          BY <3>1, <4>1
        <4>3. z[1] = x[1]
          BY <4>1, <4>2
        <4> QED
          BY <3>1, <4>1, <4>2, <4>3
      <3> HIDE DEF z
      <3>3. c \in Seq(Int) /\ Len(c) = Len(z) /\ c[1] = p.pts
        <4>1. c \in Seq(Int) /\ Len(c) = Len(z) /\ \A i \in 1 .. Len(z) : c[i] = z[i].pts
          BY <3>2, PtsFacts
        <4> HIDE DEF c
        <4> QED
          BY <3>2, <4>1
      <3> HIDE DEF c
      <3>4. c # <<>>
        BY <3>2, <3>3, EmptySeq
      <3>5. RemoveFirst(c, p.pts) = Tail(c)
        BY <3>3, <3>4, RemoveFirstFacts
      <3>6. Tail(c) = SubSeq(c, 2, Len(c))
        BY <3>3, <3>4, TailIsSubSeq
      <3>7. Len(x) + 1 = 2
        BY <3>1
      <3>8. PtsOf(y) = SubSeq(c, 2, Len(c))
        BY <2>7, <3>7 DEF c, z
      <3>9. d.times[v] = RemoveFirst(c, p.pts)
        BY <2>5, <2>6, <2>9 DEF c, z
      <3>10. d.times[v] = PtsOf(y)
        BY <3>5, <3>6, <3>8, <3>9, Zenon
      <3> QED
        BY <1>2, <3>10 DEF y, t
    <2> QED
      BY <2>8, <2>9
  <1>8. Sorted(d.queue) /\ Started(d)
    BY <1>2, <1>4 DEF Flowing, Started
  <1>9. d.sent # <<>>
    <2>1. \A a \in Seq(PacketType) : \A x \in PacketType : Append(a, x) # <<>>
      BY AppendProperties
    <2> QED
      BY <1>1, <1>2, <2>1
  <1> QED
    BY <1>3, <1>6, <1>7, <1>8, <1>9 DEF Flowing, d

(* A packet that arrives once the stream has started. *)
LEMMA QueuedFlowing ==
    ASSUME Clocks, NEW s, NEW e \in [Tracks -> Nat], Flowing(s, e), NEW t \in Tracks
    PROVE  LET p == Packet(t, e[t]) IN
           /\ Flowing(SetHigherTs(Queued(s, p), Shift(s, p)), [e EXCEPT ![t] = @ + 1])
           /\ SetHigherTs(Queued(s, p), Shift(s, p)).sent = s.sent
  <1> DEFINE p == Packet(t, e[t])
             c == Shift(s, p)
             g == Queued(s, p)
             d == SetHigherTs(g, c)
             f == [e EXCEPT ![t] = @ + 1]
  <1>1. /\ s \in State /\ s.queue \in Seq(PacketType) /\ s.sent \in Seq(PacketType)
        /\ Good(s) /\ Sorted(s.queue) /\ Started(s)
        /\ \A u \in Tracks : RunTo(TRUE, s, KeptIn(s, u), u, e[u]) /\ AtZero(KeptIn(s, u))
    BY DEF Flowing, Good, State
  <1>2. p \in PacketType /\ p.track = t /\ e[t] \in Nat
    BY PacketFacts
  <1>3. c = Made(TRUE, s, t, e[t])
    BY <1>1 DEF Shift, Made
  <1> HIDE DEF p
  <1>4. /\ g \in State /\ g.sent = s.sent /\ g.offset = s.offset
        /\ g.queue = InsertPacket(s.queue, c) /\ c \in PacketType /\ c.track = p.track
        /\ \A v \in VideoTracks : g.times[v] = IF p.track = <<"video", v>>
                                              THEN Append(s.times[v], c.pts) ELSE s.times[v]
        /\ g.receivedVideo = IF ~Started(s) /\ IsVideo(p)
                             THEN s.receivedVideo \cup {p.track[2]} ELSE s.receivedVideo
        /\ g.receivedAudio = IF ~Started(s) /\ ~IsVideo(p) THEN TRUE ELSE s.receivedAudio
    BY <1>1, <1>2, QueuedFacts
  <1>5. Good(g)
    BY <1>1, <1>2, QueuedGood
  <1> HIDE DEF c, g
  <1>6. /\ d \in State /\ SameMarks(g, d) /\ d.offset = g.offset
        /\ d.queue = g.queue /\ d.times = g.times
    BY <1>4, HigherFacts
  <1> HIDE DEF d
  <1>7. Good(d)
    BY <1>5, <1>6 DEF Good, Marked, SameMarks
  <1>8. /\ d.sent = s.sent /\ d.offset = s.offset /\ d.queue = InsertPacket(s.queue, c)
        /\ c \in PacketType /\ c.track = t
        /\ \A v \in VideoTracks : d.times[v] = IF t = <<"video", v>>
                                              THEN Append(s.times[v], c.pts) ELSE s.times[v]
    BY <1>2, <1>4, <1>6 DEF SameMarks
  <1>9. Started(d)
    BY <1>1, <1>4, <1>6 DEF SameMarks, Started
  <1>10. \A u : /\ KeptIn(s, u) = OfTrack(s.sent, u) \o OfTrack(s.queue, u)
                /\ OfTrack(s.sent, u) \in Seq(PacketType) /\ OfTrack(s.queue, u) \in Seq(PacketType)
                /\ KeptIn(s, u) \in Seq(PacketType)
    BY <1>1, KeptFacts
  <1>11. \A x : Among(x, s.queue) /\ x.track = c.track => x.ts < c.ts
    <2>1. RunTo(TRUE, s, OfTrack(s.queue, t), t, e[t])
      BY <1>1, <1>10, RunSuffix
    <2>2. \A x : Among(x, s.queue) /\ x.track = t => x.ts < Made(TRUE, s, t, e[t]).ts
      BY <1>1, <2>1, RunBelow
    <2> QED
      BY <1>3, <1>8, <2>2
  <1>12. \A u : OfTrack(d.queue, u) = IF t = u THEN Append(OfTrack(s.queue, u), c) ELSE OfTrack(s.queue, u)
    <2>1. \A u : OfTrack(InsertPacket(s.queue, c), u)
                 = IF c.track = u THEN Append(OfTrack(s.queue, u), c) ELSE OfTrack(s.queue, u)
      BY <1>1, <1>8, <1>11, InsertTrack
    <2> QED
      BY <1>8, <2>1, Zenon
  <1>13. Sorted(d.queue)
    BY <1>1, <1>8, InsertSorted
  <1>14. ASSUME NEW u \in Tracks
         PROVE  KeptIn(d, u) = IF t = u THEN Append(KeptIn(s, u), c) ELSE KeptIn(s, u)
    <2>1. KeptIn(d, u) = OfTrack(s.sent, u) \o OfTrack(d.queue, u)
      <3>1. KeptIn(d, u) = OfTrack(d.sent, u) \o OfTrack(d.queue, u)
        BY <1>6, KeptFacts
      <3> QED
        BY <1>8, <3>1
    <2>2. CASE t # u
      <3>1. OfTrack(d.queue, u) = OfTrack(s.queue, u)
        BY <1>12, <2>2
      <3>2. KeptIn(s, u) = OfTrack(s.sent, u) \o OfTrack(s.queue, u)
        BY <1>10
      <3>3. KeptIn(d, u) = KeptIn(s, u)
        BY <2>1, <3>1, <3>2, Zenon
      <3> QED
        BY <2>2, <3>3
    <2>3. CASE t = u
      <3>1. OfTrack(d.queue, u) = Append(OfTrack(s.queue, u), c)
        BY <1>12, <2>3
      <3>2. KeptIn(s, u) = OfTrack(s.sent, u) \o OfTrack(s.queue, u)
        BY <1>10
      <3>3. Append(OfTrack(s.sent, u) \o OfTrack(s.queue, u), c)
            = OfTrack(s.sent, u) \o Append(OfTrack(s.queue, u), c)
        BY <1>8, <1>10, AppendConcat
      <3>4. KeptIn(d, u) = Append(KeptIn(s, u), c)
        BY <2>1, <3>1, <3>2, <3>3, Zenon
      <3> QED
        BY <2>3, <3>4
    <2> QED
      BY <2>2, <2>3
  <1>15. ASSUME NEW u \in Tracks PROVE RunTo(TRUE, d, KeptIn(d, u), u, f[u]) /\ AtZero(KeptIn(d, u))
    <2>1. RunTo(TRUE, s, KeptIn(s, u), u, e[u]) /\ AtZero(KeptIn(s, u))
      BY <1>1
    <2>2. CASE u = t
      <3>1. RunTo(TRUE, s, Append(KeptIn(s, t), Made(TRUE, s, t, e[t])), t, e[t] + 1)
        BY <1>1, <2>1, <2>2, RunAppend
      <3>2. f[u] = e[t] + 1
        BY <2>2
      <3>3. KeptIn(d, u) = Append(KeptIn(s, t), Made(TRUE, s, t, e[t]))
        BY <1>3, <1>14, <2>2
      <3>4. RunTo(TRUE, s, KeptIn(d, u), u, f[u])
        BY <2>2, <3>1, <3>2, <3>3, Zenon
      <3>5. KeptIn(d, u)[1] = KeptIn(s, u)[1] /\ KeptIn(d, u) # <<>>
        <4>1. KeptIn(d, u) = Append(KeptIn(s, u), c) /\ KeptIn(s, u) \in Seq(PacketType) /\ KeptIn(s, u) # <<>>
          BY <1>10, <1>14, <2>1, <2>2 DEF AtZero
        <4> DEFINE k == KeptIn(s, u)
                   l == KeptIn(d, u)
        <4>2. k # <<>> /\ k \in Seq(PacketType) /\ l = Append(k, c)
          BY <4>1
        <4> HIDE DEF k, l
        <4>3. 1 \in 1 .. Len(k)
          <5>1. Len(k) \in Nat \ {0}
            BY <4>2, EmptySeq
          <5> QED
            BY <5>1
        <4>4. l # <<>> /\ \A i \in 1 .. Len(k) : l[i] = k[i]
          BY <1>8, <4>2, AppendProperties
        <4> QED
          BY <4>3, <4>4 DEF k, l
      <3> QED
        BY <1>8, <2>1, <3>4, <3>5, RunSame DEF AtZero
    <2>3. CASE u # t
      <3>1. f[u] = e[u]
        BY <2>3
      <3>2. KeptIn(d, u) = KeptIn(s, u)
        BY <1>14, <2>3
      <3>3. RunTo(TRUE, s, KeptIn(d, u), u, f[u]) /\ AtZero(KeptIn(d, u))
        BY <2>1, <3>1, <3>2, Zenon
      <3> QED
        BY <1>8, <3>3, RunSame
    <2> QED
      BY <2>2, <2>3
  <1>16. TimesOf(d)
    <2> SUFFICES ASSUME NEW v \in VideoTracks
                 PROVE  d.times[v] = PtsOf(OfTrack(d.queue, <<"video", v>>))
      BY DEF TimesOf
    <2> DEFINE q == OfTrack(s.queue, <<"video", v>>)
    <2>1. s.times[v] = PtsOf(q) /\ q \in Seq(PacketType)
      BY <1>10 DEF Flowing, TimesOf
    <2>2. d.times[v] = IF t = <<"video", v>> THEN Append(s.times[v], c.pts) ELSE s.times[v]
      BY <1>8
    <2>3. OfTrack(d.queue, <<"video", v>>) = IF t = <<"video", v>> THEN Append(q, c) ELSE q
      BY <1>12
    <2> HIDE DEF q
    <2>4. PtsOf(Append(q, c)) = Append(PtsOf(q), c.pts)
      BY <1>8, <2>1, PtsAppend
    <2> QED
      BY <2>1, <2>2, <2>3, <2>4
  <1>17. Flowing(d, f)
    <2> HIDE DEF f
    <2> QED
      BY <1>7, <1>9, <1>13, <1>15, <1>16 DEF Flowing
  <1> QED
    BY <1>8, <1>17 DEF d, f, g, c, p

(* What the queue is, whatever packets arrived until now. *)
Flow(s, e) == \/ ~Started(s) /\ Waiting(s, e) /\ VideoMarked(s)
              \/ Flowing(s, e) /\ s.sent # <<>>

(* The first packets: until all tracks are found, nothing is sent, and some *)
(* track is to be received again.                                           *)
LEMMA StartFlow ==
    ASSUME OneVideo, Clocks, NEW s, NEW e, Waiting(s, e), VideoMarked(s), Started(s)
    PROVE  Flow(StartStream(s), e)
  <1>1. s \in State /\ s.queue \in Seq(PacketType) /\ Good(s)
    BY DEF Waiting, Good, State
  <1>2. s.receivedAudio = TRUE /\ s.receivedVideo = {0}
    BY DEF Started, OneVideo
  <1>3. ASSUME NEW d, Waiting(d, e), VideoMarked(d)
        PROVE  Flow([d EXCEPT !.receivedAudio = FALSE], e)
    <2> DEFINE r == [d EXCEPT !.receivedAudio = FALSE]
    <2>1. Good(d) /\ d \in State
      BY <1>3 DEF Waiting, Good
    <2>2. Good(r) /\ SameData(d, r) /\ r.receivedAudio = FALSE /\ r.receivedVideo = d.receivedVideo
      BY <2>1 DEF Good, State, Marked, SameData
    <2> HIDE DEF r
    <2>3. Waiting(r, e)
      BY <1>3, <2>2, WaitingMarks
    <2>4. ~Started(r)
      BY <2>2 DEF Started
    <2>5. VideoMarked(r)
      BY <1>3, <2>2 DEF VideoMarked, SameData
    <2> QED
      BY <2>3, <2>4, <2>5 DEF Flow, r
  <1>4. CASE ~CanPrune(s) /\ StartStream(s) = PruneFailed(s)
    <2>1. OfTrack(s.queue, V) # <<>>
      BY <1>2 DEF VideoMarked
    <2>2. FirstIdx(s.queue, <<"video", 0>>) # 0
      BY <1>1, <2>1, FirstIsHead DEF V
    <2>3. PruneFailed(s) = [s EXCEPT !.receivedAudio = FALSE]
      BY <2>2 DEF PruneFailed
    <2> QED
      BY <1>3, <1>4, <2>3
  <1>5. ASSUME NEW d, Trimmed(s, d), Outcome(d, StartStream(s)) PROVE Flow(StartStream(s), e)
    <2>1. Waiting(d, e) /\ d.receivedAudio = TRUE /\ d.receivedVideo = {0}
      BY <1>2, <1>5, WaitingTrimmed
    <2>2. d \in State /\ d.queue \in Seq(PacketType) /\ Good(d)
      BY <2>1 DEF Waiting, Good, State
    <2>3. FirstIdx(d.queue, V) # 0 <=> OfTrack(d.queue, V) # <<>>
      BY <2>2, FirstIsHead
    <2>4. CASE ~HasAllTracks(d) /\ StartStream(s) = MarkMissing(d)
      <3> DEFINE r == MarkMissing(d)
      <3>1. /\ r.sent = d.sent /\ r.queue = d.queue /\ r.times = d.times /\ r.offset = d.offset
            /\ r.highestAudio = d.highestAudio /\ r.highestVideo = d.highestVideo
            /\ Missing(d) # {} => /\ Min(Missing(d)) \in Missing(d)
                                  /\ r.receivedVideo = d.receivedVideo \ {Min(Missing(d))}
            /\ Missing(d) = {} => r.receivedVideo = d.receivedVideo /\ r.receivedAudio = FALSE
        BY <2>2, MissingFacts
      <3>2. Good(r)
        BY <2>2, MissingGood
      <3> HIDE DEF r
      <3>3. Waiting(r, e)
        BY <2>1, <3>1, <3>2, WaitingMarks DEF SameData
      <3>4. CASE Missing(d) = {}
        <4>1. FirstIdx(d.queue, V) # 0
          BY <3>4 DEF Missing, OneVideo, V
        <4>2. VideoMarked(r) /\ ~Started(r)
          BY <2>1, <2>3, <3>1, <3>4, <4>1 DEF VideoMarked, Started
        <4> QED
          BY <2>4, <3>3, <4>2 DEF Flow, r
      <3>5. CASE Missing(d) # {}
        <4>1. Min(Missing(d)) = 0 /\ 0 \in Missing(d)
          BY <3>1, <3>5 DEF Missing, OneVideo
        <4>2. FirstIdx(d.queue, V) = 0
          BY <4>1 DEF Missing, V
        <4>3. r.receivedVideo = {}
          BY <2>1, <3>1, <3>5, <4>1
        <4>4. VideoMarked(r) /\ ~Started(r)
          BY <2>3, <3>1, <4>2, <4>3 DEF VideoMarked, Started, OneVideo
        <4> QED
          BY <2>4, <3>3, <4>4 DEF Flow, r
      <3> QED
        BY <3>4, <3>5
    <2>5. CASE HasAllTracks(d) /\ StartStream(s) = [d EXCEPT !.receivedAudio = FALSE]
      <3>1. VideoMarked(d)
        BY <2>1, <2>2, <2>3, <2>5, AllTracksFirst DEF VideoMarked
      <3> QED
        BY <1>3, <2>1, <2>5, <3>1
    <2>6. CASE HasAllTracks(d) /\ StartStream(s) = SendFirst(Begun(d))
      <3>1. Started(d)
        BY <2>1 DEF Started, OneVideo
      <3>2. Flowing(Begun(d), e)
        BY <2>1, <2>6, <3>1, BegunFlowing
      <3>3. Begun(d).queue # <<>>
        BY <2>2, <2>6, BegunGood
      <3>4. Flowing(SendFirst(Begun(d)), e) /\ SendFirst(Begun(d)).sent # <<>>
        BY <3>2, <3>3, SendFlowing
      <3> QED
        BY <2>6, <3>4 DEF Flow
    <2> QED
      BY <1>5, <2>4, <2>5, <2>6 DEF Outcome
  <1> QED
    BY <1>1, <1>4, <1>5, StartOutcome

LEMMA ArrivalFlow ==
    ASSUME OneVideo, Clocks, batch \in Nat, NEW s, NEW e \in [Tracks -> Nat], Flow(s, e), NEW t \in Tracks
    PROVE  Flow(InterleavePacket(s, Packet(t, e[t])), [e EXCEPT ![t] = @ + 1])
  <1> DEFINE p == Packet(t, e[t])
             f == [e EXCEPT ![t] = @ + 1]
             r == InterleavePacket(s, p)
  <1>1. s \in State /\ s.queue \in Seq(PacketType)
    BY DEF Flow, Flowing, Waiting, Good, State
  <1>2. p \in PacketType /\ p.track = t /\ e[t] \in Nat
    BY PacketFacts
  <1>3. r = IF Unused(s, p) THEN DiscardUnused(s, p.ts)
            ELSE IF Started(s) THEN SendStreamable(SetHigherTs(Queued(s, p), Shift(s, p)))
            ELSE IF ~Started(Queued(s, p)) THEN Queued(s, p)
            ELSE StartStream(Queued(s, p))
    BY ArrivalCases
  <1>4. IsVideo(p) => t = V /\ p.track[2] = 0
    BY <1>2, TrackFacts DEF IsVideo, OneVideo, V
  <1>5. t = V => IsVideo(p) /\ p.track[2] = 0
    BY <1>2 DEF IsVideo, V
  <1>6. CASE Started(s)
    <2> DEFINE d == SetHigherTs(Queued(s, p), Shift(s, p))
    <2>1. Flowing(s, e) /\ s.sent # <<>>
      BY <1>6 DEF Flow
    <2>2. ~Unused(s, p)
      BY <1>4, <1>6 DEF Unused, Started, OneVideo
    <2>3. r = SendStreamable(d)
      BY <1>3, <1>6, <2>2
    <2>4. Flowing(d, f) /\ d.sent # <<>>
      BY <2>1, QueuedFlowing
    <2> HIDE DEF d, f, r
    <2>5. d \in State
      BY <2>4 DEF Flowing, Good
    <2>6. Ready(d) => Flowing(SendFirst(d), f) /\ SendFirst(d).sent # <<>>
      BY <2>4, SendFlowing DEF Ready
    <2>7. Ready(d) /\ Ready(SendFirst(d)) => /\ Flowing(SendFirst(SendFirst(d)), f)
                                             /\ SendFirst(SendFirst(d)).sent # <<>>
      BY <2>6, SendFlowing DEF Ready
    <2>8. \/ SendStreamable(d) = d
          \/ Ready(d) /\ SendStreamable(d) = SendFirst(d)
          \/ Ready(d) /\ Ready(SendFirst(d)) /\ SendStreamable(d) = SendFirst(SendFirst(d))
      BY <2>5, StreamableOutcome
    <2>9. Flowing(r, f) /\ r.sent # <<>>
      BY <2>3, <2>4, <2>6, <2>7, <2>8
    <2> QED
      BY <2>9 DEF Flow, f, r
  <1>7. CASE ~Started(s)
    <2>1. Waiting(s, e) /\ VideoMarked(s) /\ Good(s)
      BY <1>7 DEF Flow, Flowing, Waiting
    <2>2. CASE Unused(s, p)
      <3>1. t = V /\ 0 \notin s.receivedVideo
        BY <1>4, <2>2 DEF Unused
      <3>2. PICK k \in 0 .. Len(s.queue) : DiscardUnused(s, p.ts) = DiscardToIdx(s, k)
        BY <1>1, UnusedRange
      <3> DEFINE d == DiscardToIdx(s, k)
      <3>3. OfTrack(s.queue, V) = <<>>
        BY <2>1, <3>1 DEF VideoMarked
      <3>4. Waiting(d, e) /\ OfTrack(d.queue, V) = <<>>
        BY <2>1, <3>3, WaitingDiscard
      <3>5. d.receivedAudio = s.receivedAudio /\ d.receivedVideo = s.receivedVideo
        BY <1>1, DiscardFacts DEF SameRest, SameMarks
      <3>6. r = d
        BY <1>3, <2>2, <3>2
      <3> HIDE DEF d, r
      <3>7. VideoMarked(d) /\ ~Started(d)
        BY <1>7, <3>1, <3>4, <3>5 DEF VideoMarked, Started
      <3>8. ASSUME NEW u \in Tracks PROVE RunTo(FALSE, d, OfTrack(d.queue, u), u, f[u])
        <4>1. CASE u = V
          <5>1. f[u] \in Nat
            BY <1>2
          <5> HIDE DEF f
          <5>2. RunTo(FALSE, d, <<>>, u, f[u])
            BY <5>1, RunEmpty
          <5> QED
            BY <3>4, <4>1, <5>2, Zenon
        <4>2. CASE u # V
          <5>1. f[u] = e[u]
            BY <3>1, <4>2
          <5>2. RunTo(FALSE, d, OfTrack(d.queue, u), u, e[u])
            BY <3>4 DEF Waiting
          <5> QED
            BY <5>1, <5>2, Zenon
        <4> QED
          BY <4>1, <4>2
      <3> HIDE DEF f
      <3>9. Waiting(d, f)
        BY <3>4, <3>8 DEF Waiting
      <3> QED
        BY <3>6, <3>7, <3>9 DEF Flow, f, r
    <2>3. CASE ~Unused(s, p)
      <3> DEFINE d == Queued(s, p)
      <3>1. /\ Waiting(d, f)
            /\ t # V => OfTrack(d.queue, V) = OfTrack(s.queue, V)
            /\ OfTrack(d.queue, t) # <<>>
        BY <1>7, <2>1, WaitingQueued
      <3>2. d.receivedVideo = IF ~Started(s) /\ IsVideo(p)
                              THEN s.receivedVideo \cup {p.track[2]} ELSE s.receivedVideo
        BY <1>1, <1>2, QueuedFacts
      <3> HIDE DEF d, f
      <3>3. VideoMarked(d)
        <4>1. CASE t = V
          <5>1. 0 \in d.receivedVideo
            BY <1>5, <1>7, <3>2, <4>1
          <5> QED
            BY <3>1, <4>1, <5>1 DEF VideoMarked
        <4>2. CASE t # V
          <5>1. d.receivedVideo = s.receivedVideo
            BY <1>4, <3>2, <4>2
          <5>2. OfTrack(d.queue, V) = OfTrack(s.queue, V)
            BY <3>1, <4>2
          <5> QED
            BY <2>1, <5>1, <5>2 DEF VideoMarked
        <4> QED
          BY <4>1, <4>2
      <3>4. CASE ~Started(d)
        <4>1. r = d
          BY <1>3, <1>7, <2>3, <3>4 DEF d
        <4> QED
          BY <3>1, <3>3, <3>4, <4>1 DEF Flow, f
      <3>5. CASE Started(d)
        <4>1. r = StartStream(d)
          BY <1>3, <1>7, <2>3, <3>5 DEF d
        <4>2. Flow(StartStream(d), f)
          BY <3>1, <3>3, <3>5, StartFlow
        <4> QED
          BY <4>1, <4>2 DEF f
      <3> QED
        BY <3>4, <3>5
    <2> QED
      BY <2>2, <2>3
  <1> QED
    BY <1>6, <1>7

LEMMA ResetFlow ==
    ASSUME NEW e \in [Tracks -> Nat]
    PROVE  Flow(ResetPacketData, e)
  <1> DEFINE s == ResetPacketData
  <1>1. /\ s.sent = <<>> /\ s.queue = <<>> /\ s.receivedVideo = {} /\ s.receivedAudio = FALSE
        /\ s.offset = [t \in Tracks |-> 0] /\ s.highestAudio = 0
        /\ s.highestVideo = [v \in VideoTracks |-> Lowest]
        /\ s.times = [v \in VideoTracks |-> <<>>]
    BY DEF ResetPacketData
  <1>2. Good(s)
    BY ResetGood
  <1> HIDE DEF s
  <1>3. \A t : OfTrack(<<>>, t) = <<>>
    BY OfTrackAppend
  <1>4. \A t \in Tracks : RunTo(FALSE, s, <<>>, t, e[t])
    BY RunEmpty
  <1>5. \A t \in Tracks : RunTo(FALSE, s, OfTrack(s.queue, t), t, e[t])
    BY <1>1, <1>3, <1>4
  <1>6. Sorted(s.queue)
    <2>1. Sorted(<<>>)
      BY DEF Sorted
    <2> QED
      BY <1>1, <2>1
  <1>7. TimesOf(s)
    <2>1. PtsOf(<<>>) = <<>>
      <3>1. <<>> \in Seq(PacketType) /\ Len(<<>>) = 0
        BY EmptySeq
      <3>2. PtsOf(<<>>) \in Seq(Int) /\ Len(PtsOf(<<>>)) = 0
        BY <3>1, PtsFacts
      <3> QED
        BY <3>2, EmptySeq
    <2>2. \A v \in VideoTracks : s.times[v] = <<>>
      BY <1>1
    <2> QED
      BY <1>1, <1>3, <2>1, <2>2 DEF TimesOf
  <1>8. Waiting(s, e)
    BY <1>1, <1>2, <1>5, <1>6, <1>7 DEF Waiting
  <1>9. VideoMarked(s) /\ ~Started(s)
    BY <1>1, <1>3 DEF VideoMarked, Started
  <1> QED
    BY <1>8, <1>9 DEF Flow, s

(* The inductive invariant: the queue continues what was sent, up to the    *)
(* packet that comes next; once the capture has ended, up to an older one.  *)
FlowInv == TypeInv /\ \E e \in [Tracks -> Nat] : Flow(il, e) /\ (active => e = next)

LEMMA FlowInvInit == Init => FlowInv
  <1> SUFFICES ASSUME Init PROVE FlowInv
    OBVIOUS
  <1>1. TypeInv
    BY TypeInvInit
  <1>2. next \in [Tracks -> Nat]
    BY <1>1 DEF TypeInv
  <1>3. il = ResetPacketData
    BY DEF Init
  <1>4. Flow(il, next)
    BY <1>2, <1>3, ResetFlow
  <1> QED
    BY <1>1, <1>2, <1>4 DEF FlowInv

(* Flow depends on the clocks, which never change. *)
LEMMA FlowPrimed ==
    ASSUME origin' = origin, NEW f \in [Tracks -> Nat], Flow(il', f)
    PROVE  Flow(il, f)'
  BY DEF Flow, Waiting, Flowing, RunTo, Made, Packet

LEMMA FlowInvNext == OneVideo /\ FlowInv /\ [Next]_vars => FlowInv'
  <1> SUFFICES ASSUME OneVideo, FlowInv, [Next]_vars PROVE FlowInv'
    OBVIOUS
  <1>1. TypeInv /\ TypeInv'
    BY TypeInvNext DEF FlowInv
  <1>2. PICK e \in [Tracks -> Nat] : Flow(il, e) /\ (active => e = next)
    BY DEF FlowInv
  <1>3. next' \in [Tracks -> Nat] /\ next \in [Tracks -> Nat] /\ Clocks /\ batch \in Nat /\ active \in BOOLEAN
    BY <1>1 DEF TypeInv
  <1>4. origin' = origin
    BY DEF Next, BeginCapture, EndCapture, Deliver, vars
  <1>5. ASSUME NEW f \in [Tracks -> Nat], Flow(il', f), active' => f = next'
        PROVE  FlowInv'
    <2>1. Flow(il, f)'
      BY <1>4, <1>5, FlowPrimed
    <2> QED
      BY <1>1, <1>5, <2>1 DEF FlowInv
  <1>6. CASE BeginCapture
    <2>1. il' = ResetPacketData
      BY <1>6 DEF BeginCapture
    <2>2. Flow(ResetPacketData, next')
      BY <1>3, ResetFlow
    <2>3. Flow(il', next')
      BY <2>1, <2>2
    <2> QED
      BY <1>3, <1>5, <2>3
  <1>7. CASE EndCapture
    <2>1. il' = il /\ active' = FALSE
      BY <1>7 DEF EndCapture
    <2> QED
      BY <1>2, <1>5, <2>1
  <1>8. ASSUME NEW t \in Tracks, Deliver(t) PROVE FlowInv'
    <2>1. /\ next' = [next EXCEPT ![t] = @ + 1] /\ active' = active
          /\ active => il' = InterleavePacket(il, Packet(t, next[t]))
          /\ ~active => il' = il
      BY <1>8 DEF Deliver
    <2>2. CASE active
      <3>1. Flow(il, next)
        BY <1>2, <2>2
      <3>2. Flow(InterleavePacket(il, Packet(t, next[t])), [next EXCEPT ![t] = @ + 1])
        BY <1>3, <3>1, ArrivalFlow
      <3>3. Flow(il', next')
        BY <2>1, <2>2, <3>2
      <3> QED
        BY <1>3, <1>5, <3>3
    <2>3. CASE ~active
      <3>1. Flow(il', e)
        BY <1>2, <2>1, <2>3
      <3> QED
        BY <1>5, <2>1, <2>3, <3>1
    <2> QED
      BY <2>2, <2>3
  <1>9. CASE UNCHANGED vars
    <2>1. il' = il /\ active' = active /\ next' = next
      BY <1>9 DEF vars
    <2> QED
      BY <1>2, <1>5, <2>1
  <1> QED
    BY <1>6, <1>7, <1>8, <1>9 DEF Next

LEMMA FlowAlways == OneVideo => (Spec => []FlowInv)
  <1> SUFFICES ASSUME OneVideo PROVE Spec => []FlowInv
    OBVIOUS
  <1>1. FlowInv /\ [Next]_vars => FlowInv'
    BY FlowInvNext
  <1> QED
    BY <1>1, FlowInvInit, PTL DEF Spec

(* send_interleaved, discard_to_idx, apply_ept_offsets: every queued video  *)
(* packet finds its own timing entry, for one video encoder: the lists hold *)
(* the entries of just the queued packets, in the order of the track.       *)
THEOREM InterleaverTimes == OneVideo => (Spec => []TimesMatch)
  <1>1. FlowInv => TimesMatch
    <2> SUFFICES ASSUME FlowInv PROVE TimesMatch
      OBVIOUS
    <2>1. TimesOf(il)
      BY DEF FlowInv, Flow, Flowing, Waiting
    <2> QED
      BY <2>1 DEF TimesMatch, TimesOf, PtsOf
  <1> QED
    BY <1>1, FlowAlways, PTL

(* interleave_packets, discard_to_idx: from the first packet of each track  *)
(* on, all packets are sent or queued, for one video encoder.               *)
THEOREM InterleaverNoGaps == OneVideo => (Spec => []NoGaps)
  <1>1. FlowInv => NoGaps
    <2> SUFFICES ASSUME FlowInv, il.sent # <<>>, active, NEW t \in Tracks
                 PROVE  /\ Kept(t) # <<>>
                        /\ \A i \in DOMAIN Kept(t) : Kept(t)[i].n = next[t] - Len(Kept(t)) + i - 1
      BY DEF NoGaps
    <2> DEFINE q == Kept(t)
    <2>1. Flow(il, next) /\ TypeInv
      BY DEF FlowInv
    <2>2. Flowing(il, next)
      BY <2>1 DEF Flow, Waiting
    <2>3. RunTo(TRUE, il, q, t, next[t]) /\ q # <<>>
      BY <2>2 DEF Flowing, KeptIn, Kept, AtZero
    <2> HIDE DEF q
    <2>4. /\ q \in Seq(PacketType) /\ DOMAIN q = 1 .. Len(q) /\ Len(q) \in Nat /\ next[t] \in Nat
          /\ Len(q) <= next[t]
      BY <2>3, LenProperties DEF RunTo
    <2>5. ASSUME NEW i \in 1 .. Len(q) PROVE q[i].n = next[t] - Len(q) + i - 1
      <3> DEFINE m == (next[t] - Len(q)) + (i - 1)
      <3>1. q[i] = Made(TRUE, il, t, m)
        BY <2>3 DEF RunTo
      <3>2. m \in Nat /\ m = next[t] - Len(q) + i - 1
        BY <2>4
      <3> HIDE DEF m
      <3>3. Made(TRUE, il, t, m).n = m
        <4>1. Clocks /\ il \in State
          BY <2>1 DEF TypeInv, Good
        <4>2. Packet(t, m).n = m /\ Packet(t, m) \in PacketType
          BY <3>2, <4>1, PacketFacts
        <4>3. ApplyOffset(il, Packet(t, m)).n = m
          BY <4>1, <4>2, OffsetFacts
        <4> QED
          BY <4>3 DEF Made
      <3> QED
        BY <3>1, <3>2, <3>3
    <2> QED
      BY <2>3, <2>4, <2>5 DEF q
  <1> QED
    BY <1>1, FlowAlways, PTL

(* apply_interleaved_packet_offset: "audio and video need to start at       *)
(* timestamp 0": each track's first packet is there or primes its decoder,  *)
(* for one video encoder.                                                   *)
THEOREM InterleaverStart == OneVideo => (Spec => []StartsAtZero)
  <1>1. FlowInv => StartsAtZero
    <2> SUFFICES ASSUME FlowInv, il.sent # <<>>, NEW t \in Tracks
                 PROVE  LET p == Kept(t)[1] IN p.pts = 0 \/ (~IsVideo(p) /\ p.pts < 0)
      BY DEF StartsAtZero
    <2>1. PICK e : Flow(il, e)
      BY DEF FlowInv
    <2>2. AtZero(Kept(t))
      BY <2>1 DEF Flow, Waiting, Flowing, KeptIn, Kept
    <2> QED
      BY <2>2 DEF AtZero
  <1> QED
    BY <1>1, FlowAlways, PTL

-----------------------------------------------------------------------------
(* The order of the packets that leave, for one encoder of each kind.       *)
OneEach == OneVideo /\ \E a : AudioTracks = {a}

(* The audio clocks tell a system time that priming does not reach back to. *)
Ahead == \A a \in AudioTracks : origin[<<"audio", a>>].sys + origin[<<"audio", a>>].dts >= 0

(* What was sent is before what is queued and what comes next.              *)
Behind(s, e) ==
    /\ \A x, y : Among(x, s.sent) /\ Among(y, s.queue) => x.ts <= y.ts
    /\ \A x, t : Among(x, s.sent) /\ t \in Tracks => x.ts <= Made(TRUE, s, t, e[t]).ts

(* The highest timestamps are those of packets that have arrived.           *)
High(s, e) ==
    /\ s.highestVideo[0] < Made(TRUE, s, V, e[V]).ts
    /\ s.highestAudio < Made(TRUE, s, FirstAudio, e[FirstAudio]).ts

Steady(s, e) == Sorted(s.sent) /\ Behind(s, e) /\ High(s, e)

(* The first packet of the queue may be sent.                               *)
Due(s, e) == \A t \in Tracks : s.queue[1].ts <= Made(TRUE, s, t, e[t]).ts

LEMMA TwoTracks == OneEach => Tracks = {V, FirstAudio} /\ V # FirstAudio
  <1> SUFFICES ASSUME OneEach PROVE Tracks = {V, FirstAudio} /\ V # FirstAudio
    OBVIOUS
  <1>1. PICK a : AudioTracks = {a}
    BY DEF OneEach
  <1>2. AudioTracks \subseteq Nat /\ AudioTracks # {} /\ VideoTracks = {0}
    BY TrackAssumption DEF OneEach, OneVideo
  <1>3. Min(AudioTracks) = a
    <2>1. Min(AudioTracks) \in AudioTracks
      BY <1>2, MinFacts
    <2> QED
      BY <1>1, <2>1
  <1>4. FirstAudio = <<"audio", a>>
    BY <1>3 DEF FirstAudio
  <1>5. V # FirstAudio
    BY <1>4 DEF V
  <1> QED
    BY <1>1, <1>2, <1>4, <1>5 DEF Tracks, V

LEMMA MadeSame ==
    ASSUME NEW s, NEW d, s.offset = d.offset
    PROVE  \A t, n : Made(TRUE, d, t, n) = Made(TRUE, s, t, n)
  BY DEF Made, ApplyOffset

LEMMA Chain ==
    /\ \A x, y \in Int : x < y => x <= y
    /\ \A x, y, z \in Int : /\ x < y /\ y <= z => x < z
                            /\ x <= y /\ y <= z => x <= z
  OBVIOUS

LEMMA AfterNext ==
    ASSUME Clocks, NEW s \in State, NEW e \in [Tracks -> Nat], NEW t \in Tracks, NEW u \in Tracks
    PROVE  LET f == [e EXCEPT ![t] = @ + 1] IN
           /\ Made(TRUE, s, u, e[u]).ts \in Int /\ Made(TRUE, s, u, f[u]).ts \in Int
           /\ Made(TRUE, s, u, e[u]).ts <= Made(TRUE, s, u, f[u]).ts
           /\ u = t => Made(TRUE, s, u, e[u]).ts < Made(TRUE, s, u, f[u]).ts
  <1> DEFINE f == [e EXCEPT ![t] = @ + 1]
  <1>1. e[u] \in Nat
    OBVIOUS
  <1>2. \A n \in Nat : /\ Made(TRUE, s, u, n).ts \in Int
                       /\ \A m \in Nat : m < n => Made(TRUE, s, u, m).ts < Made(TRUE, s, u, n).ts
    BY MadeFacts
  <1>3. CASE u = t
    <2>1. f[u] = e[u] + 1
      BY <1>3
    <2> HIDE DEF f
    <2>2. f[u] \in Nat /\ e[u] < f[u]
      BY <1>1, <2>1
    <2>3. Made(TRUE, s, u, e[u]).ts < Made(TRUE, s, u, f[u]).ts
      BY <1>1, <1>2, <2>2
    <2>4. Made(TRUE, s, u, e[u]).ts \in Int /\ Made(TRUE, s, u, f[u]).ts \in Int
      BY <1>1, <1>2, <2>2
    <2>5. Made(TRUE, s, u, e[u]).ts <= Made(TRUE, s, u, f[u]).ts
      BY <2>3, <2>4, Chain
    <2> QED
      BY <2>3, <2>4, <2>5, Zenon DEF f
  <1>4. CASE u # t
    <2>1. f[u] = e[u]
      BY <1>4
    <2> HIDE DEF f
    <2>2. Made(TRUE, s, u, e[u]).ts \in Int
      BY <1>1, <1>2
    <2>3. \A x \in Int : x <= x
      OBVIOUS
    <2> QED
      BY <1>4, <2>1, <2>2, <2>3 DEF f
  <1> QED
    BY <1>3, <1>4

LEMMA SendSteady ==
    ASSUME NEW s, NEW e, Flowing(s, e), s.queue # <<>>, Due(s, e),
           High(s, e), Sorted(s.sent), Behind(s, e)
    PROVE  Steady(SendFirst(s), e)
  <1> DEFINE d == SendFirst(s)
             p == s.queue[1]
             r == Tail(s.queue)
  <1>1. s \in State /\ s.sent \in Seq(PacketType) /\ s.queue \in Seq(PacketType) /\ Sorted(s.queue)
    BY DEF Flowing, Good, State
  <1>2. /\ d \in State /\ d.offset = s.offset /\ d.queue = r /\ d.sent = Append(s.sent, p)
        /\ d.highestAudio = s.highestAudio /\ d.highestVideo = s.highestVideo
        /\ p \in PacketType /\ s.queue = <<p>> \o r /\ r \in Seq(PacketType)
    BY <1>1, SendFacts
  <1>3. /\ Len(r) = Len(s.queue) - 1 /\ Len(s.queue) \in Nat /\ Len(s.queue) # 0
        /\ \A i \in 1 .. Len(r) : r[i] = s.queue[i + 1]
    BY <1>1, HeadTailProperties, LenProperties, EmptySeq
  <1>4. 1 \in 1 .. Len(s.queue) /\ Among(p, s.queue)
    BY <1>3 DEF Among
  <1>5. \A t, n : Made(TRUE, d, t, n) = Made(TRUE, s, t, n)
    BY <1>2, MadeSame
  <1> HIDE DEF d, p, r
  <1>6. ASSUME NEW y, Among(y, r) PROVE p.ts <= y.ts /\ Among(y, s.queue)
    <2>1. PICK i \in 1 .. Len(r) : r[i] = y
      BY <1>6 DEF Among
    <2>2. i + 1 \in 1 .. Len(s.queue) /\ 1 < i + 1 /\ s.queue[i + 1] = y
      BY <1>3, <2>1
    <2> QED
      BY <1>1, <1>4, <2>2 DEF Sorted, Among, p
  <1>7. \A x : Among(x, d.sent) <=> Among(x, s.sent) \/ x = p
    <2>1. \A a \in Seq(PacketType) : \A b \in PacketType : \A x : Among(x, Append(a, b)) <=> Among(x, a) \/ x = b
      BY AmongAppend
    <2> QED
      BY <1>1, <1>2, <2>1
  <1>8. Behind(d, e)
    <2>1. \A x, y : Among(x, d.sent) /\ Among(y, d.queue) => x.ts <= y.ts
      BY <1>2, <1>6, <1>7 DEF Behind
    <2>2. \A t \in Tracks : p.ts <= Made(TRUE, s, t, e[t]).ts
      BY DEF Due, p
    <2>3. \A x, t : Among(x, d.sent) /\ t \in Tracks => x.ts <= Made(TRUE, d, t, e[t]).ts
      BY <1>5, <1>7, <2>2 DEF Behind
    <2> QED
      BY <2>1, <2>3 DEF Behind
  <1>9. Sorted(d.sent)
    <2> DEFINE a == s.sent
               g == Append(a, p)
    <2>1. /\ g \in Seq(PacketType) /\ Len(g) = Len(a) + 1 /\ Len(a) \in Nat /\ g[Len(a) + 1] = p
          /\ \A i \in 1 .. Len(a) : g[i] = a[i]
      BY <1>1, <1>2, AppendProperties, LenProperties
    <2>2. \A i \in 1 .. Len(a) : a[i].ts <= p.ts
      BY <1>4 DEF Behind, Among
    <2>3. Sorted(a)
      OBVIOUS
    <2> HIDE DEF a, g
    <2>4. ASSUME NEW i \in 1 .. Len(g), NEW j \in 1 .. Len(g), i < j PROVE g[i].ts <= g[j].ts
      <3>1. i \in 1 .. Len(a) /\ (j \in 1 .. Len(a) \/ j = Len(a) + 1)
        BY <2>1, <2>4
      <3> QED
        BY <2>1, <2>2, <2>3, <2>4, <3>1 DEF Sorted
    <2>5. Sorted(g)
      BY <2>4 DEF Sorted
    <2> QED
      BY <1>2, <2>5 DEF g, a
  <1>10. High(d, e)
    BY <1>2, <1>5 DEF High
  <1> QED
    BY <1>8, <1>9, <1>10 DEF Steady, d

(* has_higher_opposing_ts: a packet waits for a later one of the other kind. *)
LEMMA ReadyDue ==
    ASSUME OneEach, Clocks, NEW s, NEW e \in [Tracks -> Nat], Flowing(s, e), High(s, e), Ready(s)
    PROVE  Due(s, e)
  <1> DEFINE p == s.queue[1]
  <1>1. s \in State /\ s.queue \in Seq(PacketType) /\ s.queue # <<>>
    BY DEF Flowing, Good, State, Ready
  <1>2. p \in PacketType /\ Among(p, s.queue) /\ p.ts \in Int /\ p.track \in Tracks
    <2>1. 1 \in 1 .. Len(s.queue)
      <3>1. Len(s.queue) \in Nat \ {0}
        BY <1>1, EmptySeq
      <3> QED
        BY <3>1
    <2>2. p \in PacketType
      BY <1>1, <2>1, ElementOfSeq
    <2> QED
      BY <2>1, <2>2 DEF Among, PacketType
  <1>3. HasHigherOpposingTs(s, p)
    BY DEF Ready
  <1> HIDE DEF p
  <1> SUFFICES ASSUME NEW t \in Tracks PROVE p.ts <= Made(TRUE, s, t, e[t]).ts
    BY DEF Due, p
  <1>4. Made(TRUE, s, t, e[t]).ts \in Int
    BY <1>1, MadeFacts
  <1>5. CASE t = p.track
    <2>1. RunTo(TRUE, s, OfTrack(s.queue, t), t, e[t])
      <3>1. RunTo(TRUE, s, KeptIn(s, t), t, e[t])
        BY DEF Flowing
      <3>2. /\ KeptIn(s, t) = OfTrack(s.sent, t) \o OfTrack(s.queue, t)
            /\ OfTrack(s.sent, t) \in Seq(PacketType) /\ OfTrack(s.queue, t) \in Seq(PacketType)
        BY <1>1, KeptFacts
      <3> QED
        BY <3>1, <3>2, RunSuffix
    <2>2. p.ts < Made(TRUE, s, t, e[t]).ts
      BY <1>1, <1>2, <1>5, <2>1, RunBelow
    <2> QED
      BY <1>2, <1>4, <2>2, Chain
  <1>6. CASE t # p.track
    <2>1. \/ t = V /\ p.track = FirstAudio
          \/ t = FirstAudio /\ p.track = V
      BY <1>2, <1>6, TwoTracks
    <2>2. s.highestVideo[0] \in Int /\ s.highestAudio \in Int
      BY <1>1, TrackFacts DEF State
    <2>3. CASE t = V /\ p.track = FirstAudio
      <3>1. <<"video", 0>> # p.track /\ 0 \in VideoTracks
        BY <1>6, <2>3, TrackFacts DEF V
      <3>2. s.highestVideo[0] > p.ts
        BY <1>3, <3>1 DEF HasHigherOpposingTs
      <3>3. s.highestVideo[0] < Made(TRUE, s, t, e[t]).ts
        BY <2>3 DEF High
      <3>4. p.ts <= s.highestVideo[0] /\ s.highestVideo[0] <= Made(TRUE, s, t, e[t]).ts
        BY <1>2, <1>4, <2>2, <3>2, <3>3, Chain
      <3> QED
        BY <1>2, <1>4, <2>2, <3>4, Chain, ZenonT(40)
    <2>4. CASE t = FirstAudio /\ p.track = V
      <3>1. IsVideo(p)
        BY <2>4 DEF IsVideo, V
      <3>2. s.highestAudio > p.ts
        BY <1>3, <3>1 DEF HasHigherOpposingTs
      <3>3. s.highestAudio < Made(TRUE, s, t, e[t]).ts
        BY <2>4 DEF High
      <3>4. p.ts <= s.highestAudio /\ s.highestAudio <= Made(TRUE, s, t, e[t]).ts
        BY <1>2, <1>4, <2>2, <3>2, <3>3, Chain
      <3> QED
        BY <1>2, <1>4, <2>2, <3>4, Chain, ZenonT(40)
    <2> QED
      BY <2>1, <2>3, <2>4
  <1> QED
    BY <1>5, <1>6

LEMMA QueuedSteady ==
    ASSUME OneEach, Clocks, NEW s, NEW e \in [Tracks -> Nat], Flowing(s, e), Steady(s, e), NEW t \in Tracks
    PROVE  LET p == Packet(t, e[t]) IN
           Steady(SetHigherTs(Queued(s, p), Shift(s, p)), [e EXCEPT ![t] = @ + 1])
  <1> DEFINE p == Packet(t, e[t])
             c == Shift(s, p)
             g == Queued(s, p)
             d == SetHigherTs(g, c)
             f == [e EXCEPT ![t] = @ + 1]
  <1>1. s \in State /\ s.queue \in Seq(PacketType) /\ Started(s)
    BY DEF Flowing, Good, State
  <1>2. p \in PacketType /\ p.track = t /\ e[t] \in Nat
    BY PacketFacts
  <1>3. c = Made(TRUE, s, t, e[t])
    BY <1>1 DEF Shift, Made
  <1> HIDE DEF p
  <1>4. /\ g \in State /\ g.sent = s.sent /\ g.offset = s.offset
        /\ g.queue = InsertPacket(s.queue, c) /\ c \in PacketType /\ c.track = p.track
        /\ g.highestAudio = s.highestAudio /\ g.highestVideo = s.highestVideo
    BY <1>1, <1>2, QueuedFacts
  <1> HIDE DEF c, g
  <1>5. /\ d \in State /\ SameMarks(g, d) /\ d.offset = g.offset /\ d.queue = g.queue
        /\ ~ IsVideo(c) => /\ d.highestVideo = g.highestVideo
                           /\ d.highestAudio = Higher(g.highestAudio, c.ts)
        /\ IsVideo(c) => /\ d.highestAudio = g.highestAudio /\ c.track[2] \in VideoTracks
                         /\ d.highestVideo = [g.highestVideo EXCEPT ![c.track[2]] = Higher(@, c.ts)]
    BY <1>4, HigherFacts
  <1> HIDE DEF d, f
  <1>6. \A u, n : Made(TRUE, d, u, n) = Made(TRUE, s, u, n)
    <2>1. s.offset = d.offset
      BY <1>4, <1>5
    <2> QED
      BY <2>1, MadeSame
  <1>7. ASSUME NEW u \in Tracks
        PROVE  /\ Made(TRUE, s, u, e[u]).ts \in Int /\ Made(TRUE, s, u, f[u]).ts \in Int
               /\ Made(TRUE, s, u, e[u]).ts <= Made(TRUE, s, u, f[u]).ts
               /\ u = t => Made(TRUE, s, u, e[u]).ts < Made(TRUE, s, u, f[u]).ts
    BY <1>1, AfterNext DEF f
  <1>8. d.sent = s.sent
    BY <1>4, <1>5 DEF SameMarks
  <1>9. Behind(d, f)
    <2>1. \A y : Among(y, d.queue) => Among(y, s.queue) \/ y = c
      BY <1>1, <1>4, <1>5, InsertTypes
    <2>2. ASSUME NEW x, Among(x, s.sent) PROVE x.ts <= c.ts
      BY <1>3, <2>2 DEF Steady, Behind
    <2>3. ASSUME NEW x, Among(x, s.sent), NEW u \in Tracks PROVE x.ts <= Made(TRUE, d, u, f[u]).ts
      <3>1. x.ts <= Made(TRUE, s, u, e[u]).ts
        BY <2>3 DEF Steady, Behind
      <3>2. x.ts \in Int
        <4>1. s.sent \in Seq(PacketType)
          BY <1>1 DEF State
        <4>2. x \in PacketType
          BY <2>3, <4>1, ElementOfSeq DEF Among
        <4> QED
          BY <4>2 DEF PacketType
      <3>3. x.ts <= Made(TRUE, s, u, f[u]).ts
        <4>1. /\ Made(TRUE, s, u, e[u]).ts \in Int /\ Made(TRUE, s, u, f[u]).ts \in Int
              /\ Made(TRUE, s, u, e[u]).ts <= Made(TRUE, s, u, f[u]).ts
          BY <1>7
        <4> QED
          BY <3>1, <3>2, <4>1, Chain, Zenon
      <3> QED
        BY <1>6, <3>3
    <2>4. \A x, y : Among(x, s.sent) /\ Among(y, d.queue) => x.ts <= y.ts
      BY <2>1, <2>2 DEF Steady, Behind
    <2> QED
      BY <1>8, <2>3, <2>4 DEF Behind
  <1>10. High(d, f)
    <2>1. s.highestVideo[0] \in Int /\ s.highestAudio \in Int /\ c.ts \in Int
      <3>1. s.highestVideo[0] \in Int /\ s.highestAudio \in Int
        BY <1>1, TrackFacts DEF State
      <3> QED
        BY <1>4, <3>1 DEF PacketType
    <2>2. V \in Tracks /\ FirstAudio \in Tracks /\ V # FirstAudio /\ (t = V \/ t = FirstAudio)
      BY TwoTracks
    <2>3. /\ s.highestVideo[0] < Made(TRUE, s, V, e[V]).ts
          /\ s.highestAudio < Made(TRUE, s, FirstAudio, e[FirstAudio]).ts
      BY DEF Steady, High
    <2>4. s.highestVideo[0] < Made(TRUE, s, V, f[V]).ts
      <3> DEFINE m == Made(TRUE, s, V, e[V]).ts
                 n == Made(TRUE, s, V, f[V]).ts
                 h == s.highestVideo[0]
      <3>1. m \in Int /\ n \in Int /\ m <= n
        BY <1>7, <2>2
      <3>2. h \in Int /\ h < m
        BY <2>1, <2>3
      <3> HIDE DEF h, m, n
      <3>3. h < n
        BY <3>1, <3>2
      <3> QED
        BY <3>3 DEF h, n
    <2>5. s.highestAudio < Made(TRUE, s, FirstAudio, f[FirstAudio]).ts
      <3> DEFINE m == Made(TRUE, s, FirstAudio, e[FirstAudio]).ts
                 n == Made(TRUE, s, FirstAudio, f[FirstAudio]).ts
                 h == s.highestAudio
      <3>1. m \in Int /\ n \in Int /\ m <= n
        BY <1>7, <2>2
      <3>2. h \in Int /\ h < m
        BY <2>1, <2>3
      <3> HIDE DEF h, m, n
      <3>3. h < n
        BY <3>1, <3>2
      <3> QED
        BY <3>3 DEF h, n
    <2>6. c.ts < Made(TRUE, s, t, f[t]).ts
      BY <1>3, <1>7
    <2>7. CASE t = V
      <3>1. IsVideo(c) /\ c.track[2] = 0
        BY <1>2, <1>4, <2>7 DEF IsVideo, V
      <3>2. d.highestVideo[0] = Higher(s.highestVideo[0], c.ts) /\ d.highestAudio = s.highestAudio
        BY <1>1, <1>4, <1>5, <3>1 DEF State
      <3>3. d.highestVideo[0] = s.highestVideo[0] \/ d.highestVideo[0] = c.ts
        BY <3>2 DEF Higher
      <3>4. d.highestVideo[0] < Made(TRUE, s, V, f[V]).ts
        BY <2>4, <2>6, <2>7, <3>3
      <3> QED
        BY <1>6, <2>5, <3>2, <3>4 DEF High
    <2>8. CASE t = FirstAudio
      <3>1. ~ IsVideo(c)
        BY <1>2, <1>4, <2>8 DEF IsVideo, FirstAudio
      <3>2. d.highestAudio = Higher(s.highestAudio, c.ts) /\ d.highestVideo = s.highestVideo
        BY <1>4, <1>5, <3>1
      <3>3. d.highestAudio = s.highestAudio \/ d.highestAudio = c.ts
        BY <3>2 DEF Higher
      <3>4. d.highestAudio < Made(TRUE, s, FirstAudio, f[FirstAudio]).ts
        BY <2>5, <2>6, <2>8, <3>3
      <3> QED
        BY <1>6, <2>4, <3>2, <3>4 DEF High
    <2> QED
      BY <2>2, <2>7, <2>8
  <1>11. Sorted(d.sent)
    BY <1>8 DEF Steady
  <1> QED
    BY <1>9, <1>10, <1>11 DEF Steady, d, g, c, p, f

(* Each packet of a track has a later one to come. *)
LEMMA FirstMade ==
    ASSUME Clocks, NEW s, NEW e, Waiting(s, e), HasAllTracks(s), NEW t \in Tracks
    PROVE  \E m \in Nat : m < e[t] /\ e[t] \in Nat /\ First(s, t) = Packet(t, m)
  <1> DEFINE q == OfTrack(s.queue, t)
  <1>1. s \in State /\ s.queue \in Seq(PacketType) /\ RunTo(FALSE, s, q, t, e[t])
    BY DEF Waiting, Good, State
  <1>2. FirstIdx(s.queue, t) # 0
    BY DEF HasAllTracks
  <1>3. q # <<>> /\ q[1] = First(s, t) /\ q \in Seq(PacketType)
    BY <1>1, <1>2, FirstIsHead, OfTrackAppend DEF First
  <1> HIDE DEF q
  <1>4. Len(q) \in Nat \ {0} /\ 1 \in 1 .. Len(q)
    <2>1. Len(q) \in Nat \ {0}
      BY <1>3, EmptySeq
    <2> QED
      BY <2>1
  <1>5. e[t] \in Nat /\ Len(q) <= e[t]
    BY <1>1 DEF RunTo
  <1> DEFINE m == (e[t] - Len(q)) + (1 - 1)
  <1>6. m \in Nat /\ m < e[t]
    BY <1>4, <1>5
  <1>7. First(s, t) = Packet(t, m)
    BY <1>1, <1>3, <1>4 DEF RunTo, Made
  <1> QED
    BY <1>5, <1>6, <1>7

(* initialize_interleaved_packets: the highest timestamps start below those *)
(* of the packets to come.                                                  *)
LEMMA BegunHigh ==
    ASSUME OneEach, Clocks, Ahead, Lead <= -Lowest,
           NEW s, NEW e, Waiting(s, e), HasAllTracks(s), Started(s)
    PROVE  High(Begun(s), e)
  <1> DEFINE a == NewOffsets(s)
             b == ApplyOffsets(a)
             c == Resort(b)
             A == FirstAudio
  <1>1. s \in State /\ s.highestAudio = 0 /\ s.highestVideo = [v \in VideoTracks |-> Lowest]
        /\ s.offset = [t \in Tracks |-> 0]
    BY DEF Waiting, Good
  <1>2. /\ a \in State /\ a.highestVideo = s.highestVideo
        /\ a.highestAudio = s.highestAudio - First(s, A).ts
        /\ \A t \in Tracks :
               a.offset[t] = IF t[1] = "video" THEN First(s, t).pts
                             ELSE IF First(s, t).dts > 0 THEN First(s, t).dts ELSE s.offset[t]
    BY <1>1, NewOffsetsFacts
  <1>3. Flowing(c, e)
    BY BegunFlowing DEF Begun
  <1> HIDE DEF a
  <1>4. b \in State /\ SameRest(a, b)
    BY <1>2, ApplyOffsetsFacts
  <1> HIDE DEF b
  <1>5. c \in State /\ c.offset = b.offset /\ Highest(b, c)
    BY <1>4, ResortFacts
  <1> HIDE DEF c
  <1>6. /\ c.offset = a.offset
        /\ \/ c.highestAudio = 0 - First(s, A).ts
           \/ \E x : Among(x, c.queue) /\ ~ IsVideo(x) /\ x.ts = c.highestAudio
        /\ \/ c.highestVideo[0] = Lowest
           \/ \E x : Among(x, c.queue) /\ x.track = V /\ x.ts = c.highestVideo[0]
    <2>1. /\ b.highestAudio = 0 - First(s, A).ts /\ b.highestVideo = [v \in VideoTracks |-> Lowest]
          /\ c.offset = a.offset
      BY <1>1, <1>2, <1>4, <1>5 DEF SameRest
    <2>2. 0 \in VideoTracks
      BY TrackFacts
    <2>3. b.highestVideo[0] = Lowest
      BY <2>1, <2>2
    <2> QED
      BY <1>5, <2>1, <2>2, <2>3 DEF Highest, V
  <1>7. V \in Tracks /\ A \in Tracks /\ \A t \in Tracks : t = V \/ t = A
    BY TwoTracks
  <1>8. c.queue \in Seq(PacketType)
    BY <1>5 DEF State
  <1>9. ASSUME NEW x, Among(x, c.queue), NEW t \in Tracks, x.track = t
        PROVE  x.ts < Made(TRUE, c, t, e[t]).ts
    <2>1. RunTo(TRUE, c, KeptIn(c, t), t, e[t])
      BY <1>3 DEF Flowing
    <2>2. /\ KeptIn(c, t) = OfTrack(c.sent, t) \o OfTrack(c.queue, t)
          /\ OfTrack(c.sent, t) \in Seq(PacketType) /\ OfTrack(c.queue, t) \in Seq(PacketType)
      BY <1>5, KeptFacts
    <2>3. RunTo(TRUE, c, OfTrack(c.queue, t), t, e[t])
      BY <2>1, <2>2, RunSuffix
    <2> QED
      BY <1>5, <1>8, <1>9, <2>3, RunBelow
  <1>10. ASSUME NEW t \in Tracks
         PROVE  \E m \in Nat :
                    /\ First(s, t) = Packet(t, m)
                    /\ Made(TRUE, c, t, m).ts = First(s, t).dts - a.offset[t]
                    /\ Made(TRUE, c, t, m).ts < Made(TRUE, c, t, e[t]).ts
                    /\ Made(TRUE, c, t, m).ts \in Int /\ Made(TRUE, c, t, e[t]).ts \in Int
    <2>1. PICK m \in Nat : m < e[t] /\ e[t] \in Nat /\ First(s, t) = Packet(t, m)
      BY FirstMade
    <2>2. Packet(t, m) \in PacketType /\ Packet(t, m).track = t
      BY <2>1, PacketFacts
    <2>3. ApplyOffset(c, Packet(t, m)).ts = Packet(t, m).dts - c.offset[t]
      BY <1>5, <2>2, OffsetFacts
    <2>4. Made(TRUE, c, t, m).ts < Made(TRUE, c, t, e[t]).ts
      BY <1>5, <2>1, MadeFacts
    <2>5. \A n \in Nat : Made(TRUE, c, t, n).ts \in Int
      BY <1>5, MadeFacts
    <2>6. Made(TRUE, c, t, m).ts = First(s, t).dts - a.offset[t]
      BY <1>6, <2>1, <2>3 DEF Made
    <2>7. Made(TRUE, c, t, m).ts \in Int /\ Made(TRUE, c, t, e[t]).ts \in Int
      BY <2>1, <2>5
    <2> QED
      BY <2>1, <2>4, <2>6, <2>7
  <1>11. c.highestVideo[0] < Made(TRUE, c, V, e[V]).ts
    <2>1. CASE c.highestVideo[0] = Lowest
      <3>1. PICK m \in Nat :
                /\ First(s, V) = Packet(V, m)
                /\ Made(TRUE, c, V, m).ts = First(s, V).dts - a.offset[V]
                /\ Made(TRUE, c, V, m).ts < Made(TRUE, c, V, e[V]).ts
                /\ Made(TRUE, c, V, m).ts \in Int /\ Made(TRUE, c, V, e[V]).ts \in Int
        BY <1>7, <1>10
      <3>2. V[1] = "video"
        BY DEF V
      <3>3. a.offset[V] = First(s, V).pts
        BY <1>2, <1>7, <3>2
      <3>4. Packet(V, m) \in PacketType /\ Packet(V, m).pts = Packet(V, m).dts + Lead
        BY <1>7, <3>2, PacketFacts
      <3>5. Packet(V, m).dts \in Int /\ Lead \in Nat /\ Lowest \in Int
        <4>1. Packet(V, m).dts \in Int
          BY <3>4 DEF PacketType
        <4> QED
          BY <4>1, TrackAssumption DEF Lowest
      <3>6. Made(TRUE, c, V, m).ts = Packet(V, m).dts - Packet(V, m).pts
        BY <3>1, <3>3
      <3> DEFINE g == Made(TRUE, c, V, m).ts
                 h == Made(TRUE, c, V, e[V]).ts
                 i == Packet(V, m).dts
                 j == Packet(V, m).pts
      <3>7. g = i - j /\ j = i + Lead /\ i \in Int /\ g < h /\ h \in Int
        BY <3>1, <3>4, <3>5, <3>6
      <3> HIDE DEF g, h, i, j
      <3>8. g = -Lead
        BY <3>5, <3>7
      <3>9. Lowest < h
        BY <3>5, <3>7, <3>8
      <3> QED
        BY <2>1, <3>9 DEF h
    <2>2. CASE \E x : Among(x, c.queue) /\ x.track = V /\ x.ts = c.highestVideo[0]
      BY <1>7, <1>9, <2>2
    <2> QED
      BY <1>6, <2>1, <2>2
  <1>12. c.highestAudio < Made(TRUE, c, A, e[A]).ts
    <2>1. CASE c.highestAudio = 0 - First(s, A).ts
      <3>1. PICK m \in Nat :
                /\ First(s, A) = Packet(A, m)
                /\ Made(TRUE, c, A, m).ts = First(s, A).dts - a.offset[A]
                /\ Made(TRUE, c, A, m).ts < Made(TRUE, c, A, e[A]).ts
                /\ Made(TRUE, c, A, m).ts \in Int /\ Made(TRUE, c, A, e[A]).ts \in Int
        BY <1>7, <1>10
      <3>2. A[1] = "audio" /\ A[2] \in AudioTracks /\ A = <<"audio", A[2]>>
        <4>1. A[1] = "audio"
          BY DEF FirstAudio
        <4> QED
          BY <1>7, <4>1, TrackFacts
      <3>3. a.offset[A] = IF First(s, A).dts > 0 THEN First(s, A).dts ELSE 0
        BY <1>1, <1>2, <1>7, <3>2
      <3>4. /\ Packet(A, m).dts = origin[A].dts + m * Time(A[1])
            /\ Packet(A, m).ts = origin[A].sys + m * Time(A[1])
            /\ origin[A].dts \in Int /\ origin[A].sys \in Nat /\ m * Time(A[1]) \in Nat
        BY <1>7, <3>1, PacketFacts
      <3>5. origin[A].sys + origin[A].dts >= 0
        BY <3>2 DEF Ahead
      <3> DEFINE g == Made(TRUE, c, A, m).ts
                 h == Made(TRUE, c, A, e[A]).ts
                 i == First(s, A).dts
                 j == First(s, A).ts
                 k == m * Time(A[1])
                 x == origin[A].dts
                 y == origin[A].sys
                 z == a.offset[A]
      <3>6. /\ g = i - z /\ z = IF i > 0 THEN i ELSE 0
            /\ i = x + k /\ j = y + k /\ x \in Int /\ y \in Nat /\ k \in Nat /\ x + y >= 0
            /\ g < h /\ h \in Int /\ g \in Int
        <4>1. g = i - z /\ g < h /\ h \in Int /\ g \in Int
          BY <3>1
        <4>2. z = IF i > 0 THEN i ELSE 0
          BY <3>3
        <4>3. i = x + k /\ j = y + k /\ x \in Int /\ y \in Nat /\ k \in Nat
          BY <3>1, <3>4
        <4>4. x + y >= 0
          <5>1. \A u, w \in Int : u + w >= 0 => w + u >= 0
            OBVIOUS
          <5> HIDE DEF x, y
          <5> QED
            BY <3>5, <4>3, <5>1 DEF x, y
        <4> HIDE DEF g, h, i, j, k, x, y, z
        <4> QED
          BY <4>1, <4>2, <4>3, <4>4
      <3> HIDE DEF g, h, i, j, k, x, y, z
      <3>7. 0 - j <= g
        <4>1. CASE i > 0
          BY <3>6, <4>1
        <4>2. CASE ~ (i > 0)
          BY <3>6, <4>2
        <4> QED
          BY <4>1, <4>2
      <3>8. 0 - j < h
        BY <3>6, <3>7
      <3> QED
        BY <2>1, <3>8 DEF h, j
    <2>2. CASE \E x : Among(x, c.queue) /\ ~ IsVideo(x) /\ x.ts = c.highestAudio
      <3>1. PICK x : Among(x, c.queue) /\ ~ IsVideo(x) /\ x.ts = c.highestAudio
        BY <2>2
      <3>2. x \in PacketType
        BY <1>8, <3>1, ElementOfSeq DEF Among
      <3>3. x.track \in Tracks /\ x.track # V
        BY <3>1, <3>2 DEF PacketType, IsVideo, V
      <3>4. x.track = A
        BY <1>7, <3>3
      <3> QED
        BY <1>7, <1>9, <3>1, <3>4
    <2> QED
      BY <1>6, <2>1, <2>2
  <1> QED
    BY <1>11, <1>12 DEF High, Begun, a, b, c

(* The first packet leaves before anything is known of the other tracks'    *)
(* next packets: it is the first of all that are queued.                    *)
LEMMA BegunDue ==
    ASSUME Clocks, NEW s, NEW e, Flowing(s, e), s.sent = <<>>
    PROVE  Due(s, e)
  <1>1. s \in State /\ s.queue \in Seq(PacketType) /\ Sorted(s.queue) /\ s.sent = <<>>
    BY DEF Flowing, Good, State
  <1> SUFFICES ASSUME NEW t \in Tracks PROVE s.queue[1].ts <= Made(TRUE, s, t, e[t]).ts
    BY DEF Due
  <1> DEFINE q == OfTrack(s.queue, t)
  <1>2. KeptIn(s, t) = q
    <2>1. s.sent \o s.queue = s.queue
      BY <1>1, ConcatEmptySeq
    <2> QED
      BY <2>1 DEF KeptIn
  <1>3. RunTo(TRUE, s, q, t, e[t]) /\ q # <<>> /\ q \in Seq(PacketType)
    BY <1>2 DEF Flowing, AtZero, RunTo
  <1>4. Len(q) \in Nat \ {0} /\ 1 \in 1 .. Len(q)
    <2> HIDE DEF q
    <2>1. Len(q) \in Nat \ {0}
      BY <1>3, EmptySeq
    <2> QED
      BY <2>1
  <1> DEFINE x == q[1]
  <1>5. Among(x, q)
    BY <1>4 DEF Among
  <1>6. Among(x, s.queue) /\ x.track = t
    BY <1>1, <1>5, AmongTrack
  <1> HIDE DEF q, x
  <1>7. x.ts < Made(TRUE, s, t, e[t]).ts
    BY <1>1, <1>3, <1>6, RunBelow DEF q
  <1>8. PICK i \in 1 .. Len(s.queue) : s.queue[i] = x
    BY <1>6 DEF Among
  <1>9. Len(s.queue) \in Nat /\ 1 \in 1 .. Len(s.queue) /\ i \in Nat
    <2>1. Len(s.queue) \in Nat
      BY <1>1, LenProperties
    <2> QED
      BY <1>8, <2>1
  <1>10. \A j \in 1 .. Len(s.queue) : s.queue[j].ts \in Int
    <2>1. \A j \in 1 .. Len(s.queue) : s.queue[j] \in PacketType
      BY <1>1, ElementOfSeq
    <2> QED
      BY <2>1 DEF PacketType
  <1>11. s.queue[1].ts <= x.ts
    <2>1. CASE i = 1
      <3>1. s.queue[1] = x /\ x.ts \in Int
        BY <1>8, <1>10, <2>1
      <3>2. \A y \in Int : y <= y
        OBVIOUS
      <3> QED
        BY <3>1, <3>2
    <2>2. CASE i # 1
      <3>1. 1 < i
        BY <1>8, <1>9, <2>2
      <3> QED
        BY <1>1, <1>8, <1>9, <3>1 DEF Sorted
    <2> QED
      BY <2>1, <2>2
  <1>12. Made(TRUE, s, t, e[t]).ts \in Int
    <2>1. e[t] \in Nat
      BY <1>3 DEF RunTo
    <2>2. \A n \in Nat : Made(TRUE, s, t, n).ts \in Int
      BY <1>1, MadeFacts
    <2> QED
      BY <2>1, <2>2
  <1>13. s.queue[1].ts \in Int /\ x.ts \in Int
    BY <1>8, <1>9, <1>10
  <1>14. x.ts <= Made(TRUE, s, t, e[t]).ts
    BY <1>7, <1>12, <1>13, Chain
  <1> QED
    BY <1>11, <1>12, <1>13, <1>14, Chain, ZenonT(40)

LEMMA StartSteady ==
    ASSUME OneEach, Clocks, Ahead, Lead <= -Lowest, NEW s, NEW e, Waiting(s, e), Started(s)
    PROVE  StartStream(s).sent # <<>> => Steady(StartStream(s), e)
  <1>1. s \in State /\ s.sent = <<>>
    BY DEF Waiting, Good
  <1>2. s.receivedAudio = TRUE /\ s.receivedVideo = VideoTracks
    BY DEF Started
  <1>3. CASE StartStream(s) = PruneFailed(s)
    <2>1. PruneFailed(s).sent = <<>>
      BY <1>1 DEF PruneFailed, State
    <2> QED
      BY <1>3, <2>1
  <1>4. ASSUME NEW d, Trimmed(s, d), Outcome(d, StartStream(s)), StartStream(s).sent # <<>>
        PROVE  Steady(StartStream(s), e)
    <2>1. Waiting(d, e) /\ Started(d)
      BY <1>2, <1>4, WaitingTrimmed DEF Started
    <2>2. d \in State /\ d.sent = <<>> /\ Good(d)
      BY <2>1 DEF Waiting, Good
    <2>3. MarkMissing(d).sent = <<>> /\ [d EXCEPT !.receivedAudio = FALSE].sent = <<>>
      BY <2>2, MissingFacts DEF State
    <2>4. HasAllTracks(d) /\ StartStream(s) = SendFirst(Begun(d))
      BY <1>4, <2>3 DEF Outcome
    <2> DEFINE c == Begun(d)
    <2>5. Flowing(c, e)
      BY <2>1, <2>4, BegunFlowing
    <2>6. High(c, e)
      BY <2>1, <2>4, BegunHigh
    <2>7. c.queue # <<>>
      BY <2>2, <2>4, BegunGood
    <2>8. c.sent = <<>>
      <3>1. NewOffsets(d) \in State /\ NewOffsets(d).sent = <<>>
        BY <2>2, <2>4, NewOffsetsFacts DEF SameMarks
      <3>2. ApplyOffsets(NewOffsets(d)) \in State /\ ApplyOffsets(NewOffsets(d)).sent = <<>>
        BY <3>1, ApplyOffsetsFacts DEF SameRest, SameMarks
      <3>3. Resort(ApplyOffsets(NewOffsets(d))).sent = <<>>
        BY <3>2, ResortFacts DEF SameMarks
      <3> QED
        BY <3>3 DEF Begun
    <2> HIDE DEF c
    <2>9. Due(c, e)
      BY <2>5, <2>8, BegunDue
    <2>10. Sorted(c.sent) /\ Behind(c, e)
      <3>1. \A x : ~ Among(x, <<>>)
        BY EmptySeq DEF Among
      <3>2. Sorted(<<>>)
        BY DEF Sorted
      <3> QED
        BY <2>8, <3>1, <3>2 DEF Behind
    <2>11. Steady(SendFirst(c), e)
      BY <2>5, <2>6, <2>7, <2>9, <2>10, SendSteady
    <2> QED
      BY <2>4, <2>11 DEF c
  <1> QED
    BY <1>1, <1>3, <1>4, StartOutcome

LEMMA ArrivalSteady ==
    ASSUME OneEach, Clocks, Ahead, Lead <= -Lowest, batch \in Nat,
           NEW s, NEW e \in [Tracks -> Nat], Flow(s, e), s.sent # <<>> => Steady(s, e), NEW t \in Tracks
    PROVE  LET r == InterleavePacket(s, Packet(t, e[t])) IN
           r.sent # <<>> => Steady(r, [e EXCEPT ![t] = @ + 1])
  <1> DEFINE p == Packet(t, e[t])
             f == [e EXCEPT ![t] = @ + 1]
             r == InterleavePacket(s, p)
  <1>1. s \in State /\ OneVideo
    BY DEF Flow, Flowing, Waiting, Good, OneEach
  <1>2. p \in PacketType /\ p.track = t /\ e[t] \in Nat /\ f \in [Tracks -> Nat]
    <2>1. e[t] \in Nat
      OBVIOUS
    <2>2. p \in PacketType /\ p.track = t
      BY <2>1, PacketFacts
    <2>3. f \in [Tracks -> Nat]
      BY <2>1
    <2> QED
      BY <2>1, <2>2, <2>3
  <1>3. r = IF Unused(s, p) THEN DiscardUnused(s, p.ts)
            ELSE IF Started(s) THEN SendStreamable(SetHigherTs(Queued(s, p), Shift(s, p)))
            ELSE IF ~Started(Queued(s, p)) THEN Queued(s, p)
            ELSE StartStream(Queued(s, p))
    BY ArrivalCases
  <1>4. CASE Started(s)
    <2> DEFINE d == SetHigherTs(Queued(s, p), Shift(s, p))
    <2>1. Flowing(s, e) /\ Steady(s, e)
      BY <1>4 DEF Flow
    <2>2. ~Unused(s, p)
      BY <1>1, <1>2, <1>4, TrackFacts DEF Unused, Started, IsVideo
    <2>3. r = SendStreamable(d)
      BY <1>3, <1>4, <2>2
    <2>4. Flowing(d, f) /\ Steady(d, f)
      BY <1>1, <2>1, QueuedFlowing, QueuedSteady
    <2> HIDE DEF d, f, r
    <2>5. d \in State
      BY <2>4 DEF Flowing, Good
    <2>6. ASSUME NEW z, Flowing(z, f), Steady(z, f), Ready(z)
          PROVE  Flowing(SendFirst(z), f) /\ Steady(SendFirst(z), f)
      <3>1. Due(z, f)
        BY <1>2, <2>6, ReadyDue DEF Steady
      <3> QED
        BY <2>6, <3>1, SendFlowing, SendSteady DEF Steady, Ready
    <2>7. \/ SendStreamable(d) = d
          \/ Ready(d) /\ SendStreamable(d) = SendFirst(d)
          \/ Ready(d) /\ Ready(SendFirst(d)) /\ SendStreamable(d) = SendFirst(SendFirst(d))
      BY <2>5, StreamableOutcome
    <2>8. Steady(r, f)
      BY <2>3, <2>4, <2>6, <2>7
    <2> QED
      BY <2>8 DEF f, r
  <1>5. CASE ~Started(s)
    <2>1. Waiting(s, e) /\ s.sent = <<>>
      BY <1>5 DEF Flow, Flowing, Waiting
    <2>2. CASE Unused(s, p)
      <3>1. PICK k \in 0 .. Len(s.queue) : DiscardUnused(s, p.ts) = DiscardToIdx(s, k)
        BY <1>1, UnusedRange
      <3>2. r = DiscardToIdx(s, k)
        BY <1>3, <2>2, <3>1
      <3>3. DiscardToIdx(s, k).sent = s.sent
        BY <1>1, DiscardFacts DEF SameRest, SameMarks
      <3>4. r.sent = <<>>
        BY <2>1, <3>2, <3>3
      <3> QED
        BY <3>4
    <2>3. CASE ~Unused(s, p)
      <3> DEFINE d == Queued(s, p)
      <3>1. Waiting(d, f)
        BY <1>5, <2>1, WaitingQueued
      <3> HIDE DEF d, f, r
      <3>2. CASE ~Started(d)
        <4>1. r.sent = <<>>
          BY <1>3, <1>5, <2>3, <3>1, <3>2 DEF d, Waiting
        <4> QED
          BY <4>1 DEF r
      <3>3. CASE Started(d)
        <4>1. r = StartStream(d)
          BY <1>3, <1>5, <2>3, <3>3 DEF d
        <4>2. StartStream(d).sent # <<>> => Steady(StartStream(d), f)
          BY <3>1, <3>3, StartSteady
        <4>3. r.sent # <<>> => Steady(r, f)
          BY <4>1, <4>2
        <4> QED
          BY <4>3 DEF r, f
      <3> QED
        BY <3>2, <3>3
    <2> QED
      BY <2>2, <2>3
  <1> QED
    BY <1>4, <1>5

(* The assumptions on the encoders: one of each kind, timestamps above the  *)
(* one that stands for "none", and audio that begins after time 0.          *)
Encoders ==
    /\ OneEach /\ Lead <= -Lowest
    /\ \A o \in Origins, a \in AudioTracks : o[<<"audio", a>>].sys + o[<<"audio", a>>].dts >= 0

SteadyInv ==
    /\ TypeInv /\ Ahead
    /\ \E e \in [Tracks -> Nat] :
           Flow(il, e) /\ (active => e = next) /\ (il.sent # <<>> => Steady(il, e))

LEMMA SteadyPrimed ==
    ASSUME origin' = origin, NEW f \in [Tracks -> Nat],
           Flow(il', f), il'.sent # <<>> => Steady(il', f)
    PROVE  Flow(il, f)' /\ (il.sent # <<>> => Steady(il, f))'
  <1>1. Flow(il, f)'
    BY FlowPrimed
  <1>2. (il.sent # <<>> => Steady(il, f))'
    BY DEF Steady, Behind, High, Made, Packet
  <1> QED
    BY <1>1, <1>2

LEMMA SteadyInvInit == Encoders /\ Init => SteadyInv
  <1> SUFFICES ASSUME Encoders, Init PROVE SteadyInv
    OBVIOUS
  <1>1. TypeInv
    BY TypeInvInit
  <1>2. Ahead
    BY DEF Encoders, Init, Ahead
  <1>3. next \in [Tracks -> Nat]
    BY <1>1 DEF TypeInv
  <1>4. il = ResetPacketData
    BY DEF Init
  <1>5. Flow(il, next) /\ il.sent = <<>>
    BY <1>3, <1>4, ResetFlow DEF ResetPacketData
  <1> QED
    BY <1>1, <1>2, <1>3, <1>5 DEF SteadyInv

LEMMA SteadyInvNext == Encoders /\ SteadyInv /\ [Next]_vars => SteadyInv'
  <1> SUFFICES ASSUME Encoders, SteadyInv, [Next]_vars PROVE SteadyInv'
    OBVIOUS
  <1>1. TypeInv /\ TypeInv' /\ Ahead
    BY TypeInvNext DEF SteadyInv
  <1>2. PICK e \in [Tracks -> Nat] :
            Flow(il, e) /\ (active => e = next) /\ (il.sent # <<>> => Steady(il, e))
    BY DEF SteadyInv
  <1>3. /\ next' \in [Tracks -> Nat] /\ next \in [Tracks -> Nat] /\ Clocks /\ batch \in Nat
        /\ OneEach /\ OneVideo /\ Lead <= -Lowest
    BY <1>1 DEF TypeInv, Encoders, OneEach
  <1>4. origin' = origin /\ Ahead'
    <2>1. origin' = origin
      BY DEF Next, BeginCapture, EndCapture, Deliver, vars
    <2> QED
      BY <1>1, <2>1 DEF Ahead
  <1>5. ASSUME NEW f \in [Tracks -> Nat], Flow(il', f), active' => f = next',
               il'.sent # <<>> => Steady(il', f)
        PROVE  SteadyInv'
    <2>1. Flow(il, f)' /\ (il.sent # <<>> => Steady(il, f))'
      BY <1>4, <1>5, SteadyPrimed
    <2> QED
      BY <1>1, <1>4, <1>5, <2>1 DEF SteadyInv
  <1>6. CASE BeginCapture
    <2>1. il' = ResetPacketData
      BY <1>6 DEF BeginCapture
    <2>2. Flow(ResetPacketData, next') /\ ResetPacketData.sent = <<>>
      BY <1>3, ResetFlow DEF ResetPacketData
    <2>3. Flow(il', next') /\ il'.sent = <<>>
      BY <2>1, <2>2
    <2> QED
      BY <1>3, <1>5, <2>3
  <1>7. CASE EndCapture
    <2>1. il' = il /\ active' = FALSE
      BY <1>7 DEF EndCapture
    <2> QED
      BY <1>2, <1>5, <2>1
  <1>8. ASSUME NEW t \in Tracks, Deliver(t) PROVE SteadyInv'
    <2>1. /\ next' = [next EXCEPT ![t] = @ + 1] /\ active' = active
          /\ active => il' = InterleavePacket(il, Packet(t, next[t]))
          /\ ~active => il' = il
      BY <1>8 DEF Deliver
    <2>2. CASE active
      <3> DEFINE r == InterleavePacket(il, Packet(t, next[t]))
      <3>1. Flow(il, next) /\ (il.sent # <<>> => Steady(il, next))
        BY <1>2, <2>2
      <3>2. Flow(r, [next EXCEPT ![t] = @ + 1])
        BY <1>3, <3>1, ArrivalFlow
      <3>3. r.sent # <<>> => Steady(r, [next EXCEPT ![t] = @ + 1])
        BY <1>1, <1>3, <3>1, ArrivalSteady
      <3>4. Flow(il', next') /\ (il'.sent # <<>> => Steady(il', next'))
        BY <2>1, <2>2, <3>2, <3>3
      <3> QED
        BY <1>3, <1>5, <3>4
    <2>3. CASE ~active
      <3>1. il' = il
        BY <2>1, <2>3
      <3> QED
        BY <1>2, <1>5, <2>1, <2>3, <3>1
    <2> QED
      BY <2>2, <2>3
  <1>9. CASE UNCHANGED vars
    <2>1. il' = il /\ active' = active /\ next' = next
      BY <1>9 DEF vars
    <2> QED
      BY <1>2, <1>5, <2>1
  <1> QED
    BY <1>6, <1>7, <1>8, <1>9 DEF Next

(* interleave_packets: the output gets its packets in timestamp order, for  *)
(* one encoder of each kind: each waits for a later one of the other kind,  *)
(* and the first, which waits for none, is older than all that are queued.  *)
THEOREM InterleaverMonotonic == Encoders => (Spec => []MonotonicDelivery)
  <1> SUFFICES ASSUME Encoders PROVE Spec => []MonotonicDelivery
    OBVIOUS
  <1>1. SteadyInv => MonotonicDelivery
    <2> SUFFICES ASSUME SteadyInv, NEW i \in DOMAIN il.sent, i > 1
                 PROVE  il.sent[i - 1].ts <= il.sent[i].ts
      BY DEF MonotonicDelivery
    <2>1. il \in State
      BY DEF SteadyInv, TypeInv, Good
    <2>2. il.sent \in Seq(PacketType)
      BY <2>1 DEF State
    <2>3. DOMAIN il.sent = 1 .. Len(il.sent) /\ Len(il.sent) \in Nat
      BY <2>2, LenProperties
    <2>4. i \in 1 .. Len(il.sent) /\ i - 1 \in 1 .. Len(il.sent) /\ i - 1 < i
      BY <2>3
    <2>5. il.sent # <<>>
      BY <2>2, <2>3, <2>4, EmptySeq
    <2>6. Sorted(il.sent)
      BY <2>5 DEF SteadyInv, Steady
    <2> QED
      BY <2>4, <2>6 DEF Sorted
  <1>2. Init => SteadyInv
    BY SteadyInvInit
  <1>3. SteadyInv /\ [Next]_vars => SteadyInv'
    BY SteadyInvNext
  <1> QED
    BY <1>1, <1>2, <1>3, PTL DEF Spec

=============================================================================
